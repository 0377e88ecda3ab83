----------------------------- MODULE EventBridge ----------------------------
(***************************************************************************)
(* Streaming events between protocols (event_bridge.py): a ROAR event goes *)
(* out as an MCP notification or an A2A task status, and one that comes in *)
(* is normalised and published on a bus (EventBus), where the next bridge  *)
(* may subscribe.  `relayed' is an event on its way over such hops; tasks  *)
(* are what session ids and data["task_id"] name, NoTask the empty string. *)
(***************************************************************************)
EXTENDS Integers

CONSTANTS
  TaskIds,      \* task ids
  NoTask,      \* ""
  MaxHops      \* bound: bridges an event passes

ASSUME EventBridgeAssumption == NoTask \notin TaskIds /\ MaxHops \in Nat

VARIABLES
  relayed,   \* the event, as on the bus it has reached
  origin,    \* the event, as it was first published
  hops       \* the bridges it has passed: "mcp" or "a2a" each, counted

bridgeVars == <<relayed, origin, hops>>

Boundaries == {"stream_start", "stream_end"}

EventTypes == Boundaries \cup
  {"task_update", "tool_call", "mcp_request", "reasoning", "agent_delegate", "agent_status"}

\* _ROAR_TO_MCP_METHOD and _MCP_METHOD_TO_ROAR, one after the other.
OverMcp(type) ==
  IF type \in Boundaries \cup {"tool_call", "mcp_request"} THEN type ELSE "task_update"

\* _ROAR_TO_A2A_STATE
A2aState(type) ==
  IF type = "stream_start" THEN "submitted"
  ELSE IF type = "stream_end" THEN "completed" ELSE "working"

\* Mutant: a status that is not listed is taken for a task at work.
RoarTypeShort(state) ==
  CASE state = "submitted" -> "stream_start"
    [] state = "completed" -> "stream_end"
    [] OTHER -> "task_update"

\* _A2A_STATE_TO_ROAR
RoarType(state) ==
  IF state = "submitted" THEN "stream_start"
  ELSE IF state \in {"completed", "failed", "canceled"} THEN "stream_end" ELSE "task_update"

\* What names an event's task: its session, else its data.
TaskOf(e) == IF e.session # NoTask THEN e.session ELSE e.task

(* roar_event_to_mcp_notification, then mcp_notification_to_roar_event: an *)
(* update's task is its progress token; of other types no parameter that   *)
(* the way back reads names the session, and what is kept of their data    *)
(* is not where the task is looked for.                                    *)
ThroughMcp(e) ==
  [type |-> OverMcp(e.type),
   session |-> IF e.type = "task_update" THEN TaskOf(e) ELSE NoTask,
   task |-> NoTask]

(* a2a_status_to_roar_event, of the status `state' of task `t'; the state  *)
(* itself is kept as data, where the way out does not look for it.         *)
FromA2a(state, t) == [type |-> RoarType(state), session |-> t, task |-> t]

\* roar_event_to_a2a_status of a subscription without a task_id, and back.
ThroughA2a(e) == FromA2a(A2aState(e.type), TaskOf(e))

NoEvent == [type |-> "none", session |-> NoTask, task |-> NoTask]

-----------------------------------------------------------------------------
EventBridgeInit == relayed = NoEvent /\ origin = NoEvent /\ hops = 0

Begin(e, from) == relayed' = e /\ origin' = from /\ hops' = 0

\* An agent publishes a native event.
PublishNative(type, session, t) ==
  LET e == [type |-> type, session |-> session, task |-> t] IN Begin(e, e)

\* ingest_a2a_status of an A2A agent's own status.
IngestA2a(state, t) ==
  Begin(FromA2a(state, t),
        [type |-> IF state = "working" THEN "task_update"
                  ELSE IF state = "submitted" THEN "stream_start" ELSE "stream_end",
         session |-> t, task |-> t])

Hop(e) ==
  /\ relayed # NoEvent /\ hops < MaxHops
  /\ relayed' = e
  /\ hops' = hops + 1
  /\ UNCHANGED origin

\* subscribe_mcp at one bridge and ingest_mcp_notification at the next.
HopMcp == Hop(ThroughMcp(relayed))

\* subscribe_a2a and ingest_a2a_status.
HopA2a == Hop(ThroughA2a(relayed))

EventBridgeNext ==
  \/ \E type \in EventTypes, session, t \in TaskIds \cup {NoTask} :
       PublishNative(type, session, t)
  \/ \E state \in {"submitted", "working", "completed", "failed", "canceled"},
        t \in TaskIds : IngestA2a(state, t)
  \/ HopMcp
  \/ HopA2a

EventBridgeSpec == EventBridgeInit /\ [][EventBridgeNext]_bridgeVars

-----------------------------------------------------------------------------
(* Chains of bridges, in every mix of protocols, keep what clients act on. *)
(* A stream's beginning and its end survive and no other event turns into  *)
(* one: a task that failed or was cancelled ends everywhere.  An update    *)
(* stays an update of the same task, whether its session or its data named *)
(* the task.  (Not kept: how a task ended, a failed one is "completed" to  *)
(* an A2A client one bridge further on; and the sessions of other types,   *)
(* which end at the first MCP hop.)                                        *)
ChainsKeepMeaning ==
  /\ \A b \in Boundaries : relayed.type = b <=> origin.type = b
  /\ origin.type = "task_update" =>
       relayed.type = "task_update" /\ TaskOf(relayed) = TaskOf(origin)
=============================================================================
