----------------------------- MODULE HubCluster -----------------------------
(***************************************************************************)
(* The cluster client (ha.py, HubCluster): health checks, send with        *)
(* failover, and the repair of a split brain.  search only asks, and so    *)
(* does register_agent in effect: it posts to /roar/agents, where hub.py   *)
(* registers nothing (it does at /roar/agents/register, by a challenge).   *)
(*                                                                         *)
(* `reachable' belongs to the network; `table', the agents each hub lists, *)
(* to the hubs, which are those of hub.py.  A request is handled if its    *)
(* hub is reachable then.  It may fail all the same: the handler may be    *)
(* slower than the client's timeout, the answer lost or no JSON, a status  *)
(* other than 200.  Latencies only weight _pick_hub's random choice, so    *)
(* any healthy hub may be picked.                                          *)
(***************************************************************************)
EXTENDS Integers, FiniteSets

CONSTANTS
  Cluster,       \* the hubs' URLs
  Joining,       \* agents that register
  MaxFailures,   \* _max_failures
  MaxOutages,    \* bound: times a hub becomes unreachable
  MaxSends       \* bound: calls of send

NoHub == "none"

ASSUME ClusterAssumption ==
  /\ IsFiniteSet(Cluster) /\ NoHub \notin Cluster
  /\ MaxFailures \in Nat \ {0}
  /\ {MaxOutages, MaxSends} \subseteq Nat

VARIABLES
  reachable, outages,   \* external: the hubs up, the outages so far
  table,                \* the agents in each hub's directory
  alive, failures,      \* HubHealth.alive, .consecutive_failures
  probes,               \* hubs with a health check under way
  sending,              \* the call of send: picks left, tried, the hub asked
  handled,              \* <<hub, picks left>>: where that call's message was handled
  calls,                \* calls of send so far
  healing               \* heal_split_brain: pairs left, pairs synced, the split it found

clusterVars ==
  <<reachable, outages, table, alive, failures, probes, sending, handled, calls, healing>>

Quiet == [left |-> 0, tried |-> {}, at |-> NoHub]

Idle == [left |-> {}, done |-> {}, split |-> {}]

Healthy == {h \in Cluster : alive[h]}

\* What the two failure paths do: count, and give up at _max_failures.
Fails(h) ==
  /\ failures' = [failures EXCEPT ![h] = @ + 1]
  /\ alive' = [alive EXCEPT ![h] = @ /\ failures'[h] < MaxFailures]

-----------------------------------------------------------------------------
ClusterInit ==
  /\ reachable = Cluster /\ outages = 0
  /\ table = [h \in Cluster |-> {}]
  /\ alive = [h \in Cluster |-> TRUE]
  /\ failures = [h \in Cluster |-> 0]
  /\ probes = {}
  /\ sending = Quiet /\ handled = {} /\ calls = 0
  /\ healing = Idle

\* An outage may lose what the hub keeps in memory.
GoesDown(h) ==
  /\ h \in reachable /\ outages < MaxOutages
  /\ reachable' = reachable \ {h}
  /\ outages' = outages + 1
  /\ \E kept \in {table[h], {}} : table' = [table EXCEPT ![h] = kept]
  /\ UNCHANGED <<alive, failures, probes, sending, handled, calls, healing>>

ComesBack(h) ==
  /\ h \notin reachable
  /\ reachable' = reachable \cup {h}
  /\ UNCHANGED <<outages, table, alive, failures, probes, sending, handled, calls, healing>>

\* The monitor's check_all_health asks every hub, down or not.
StartProbe(h) ==
  /\ h \notin probes
  /\ probes' = probes \cup {h}
  /\ UNCHANGED <<reachable, outages, table, alive, failures, sending, handled, calls, healing>>

\* Mutant: the count is cleared, but a hub that was given up stays so.
ProbeSucceedsLow(h) ==
  /\ h \in probes \cap reachable
  /\ probes' = probes \ {h}
  /\ failures' = [failures EXCEPT ![h] = 0]
  /\ UNCHANGED <<reachable, outages, table, alive, sending, handled, calls, healing>>

\* check_health, a 200.
ProbeSucceeds(h) ==
  /\ h \in probes \cap reachable
  /\ probes' = probes \ {h}
  /\ alive' = [alive EXCEPT ![h] = TRUE]
  /\ failures' = [failures EXCEPT ![h] = 0]
  /\ UNCHANGED <<reachable, outages, table, sending, handled, calls, healing>>

\* check_health, an exception or another status, be the hub reachable or not;
\* the count is capped here, where nothing more depends on it.
ProbeFails(h) ==
  /\ h \in probes
  /\ probes' = probes \ {h}
  /\ IF failures[h] < MaxFailures THEN Fails(h) ELSE UNCHANGED <<alive, failures>>
  /\ UNCHANGED <<reachable, outages, table, sending, handled, calls, healing>>

\* send: as many picks as there are hubs.
StartSend ==
  /\ sending = Quiet /\ calls < MaxSends
  /\ calls' = calls + 1
  /\ sending' = [Quiet EXCEPT !.left = Cardinality(Cluster)]
  /\ handled' = {}
  /\ UNCHANGED <<reachable, outages, table, alive, failures, probes, healing>>

\* Mutant: the hub that was picked is asked, tried or not.
PickAny(h) ==
  /\ sending.left > 0 /\ sending.at = NoHub
  /\ h \in Healthy
  /\ sending' = [left |-> sending.left - 1, tried |-> sending.tried \cup {h}, at |-> h]
  /\ UNCHANGED <<reachable, outages, table, alive, failures, probes, handled, calls, healing>>

\* _pick_hub; a hub that was tried uses the pick up.
Pick(h) ==
  /\ sending.left > 0 /\ sending.at = NoHub
  /\ h \in Healthy
  /\ sending' = [left |-> sending.left - 1, tried |-> sending.tried \cup {h},
                 at |-> IF h \in sending.tried THEN NoHub ELSE h]
  /\ UNCHANGED <<reachable, outages, table, alive, failures, probes, handled, calls, healing>>

\* The hub that is asked handles the message.
HubHandles ==
  /\ sending.at \in reachable
  /\ handled' = handled \cup {<<sending.at, sending.left>>}
  /\ UNCHANGED <<reachable, outages, table, alive, failures, probes, sending, calls, healing>>

Answered ==
  /\ sending.at \in reachable
  /\ <<sending.at, sending.left>> \in handled
  /\ sending' = Quiet
  /\ UNCHANGED <<reachable, outages, table, alive, failures, probes, handled, calls, healing>>

\* An exception, before the hub handled the message or after: the next pick.
SendFails ==
  /\ sending.at # NoHub
  /\ sending' = [sending EXCEPT !.at = NoHub]
  /\ IF failures[sending.at] < MaxFailures THEN Fails(sending.at) ELSE UNCHANGED <<alive, failures>>
  /\ UNCHANGED <<reachable, outages, table, probes, handled, calls, healing>>

\* "No healthy hubs available", or "All hubs failed" when the picks are used up.
SendGivesUp ==
  /\ sending # Quiet /\ sending.at = NoHub
  /\ sending.left = 0 \/ Healthy = {}
  /\ sending' = Quiet
  /\ UNCHANGED <<reachable, outages, table, alive, failures, probes, handled, calls, healing>>

-----------------------------------------------------------------------------
(* The hubs' directories, by the agents' own requests: an agent registers  *)
(* at a hub by answering its challenge, and deletes its entry there.       *)
RegistersAt(h, a) ==
  /\ h \in reachable
  /\ table' = [table EXCEPT ![h] = @ \cup {a}]
  /\ UNCHANGED <<reachable, outages, alive, failures, probes, sending, handled, calls, healing>>

DeletesAt(h, a) ==
  /\ h \in reachable /\ a \in table[h]
  /\ table' = [table EXCEPT ![h] = @ \ {a}]
  /\ UNCHANGED <<reachable, outages, alive, failures, probes, sending, handled, calls, healing>>

\* detect_split_brain, of the hubs that answer: what each of them lacks.
SplitBrain(hubs) ==
  IF Cardinality(hubs) < 2 THEN {}
  ELSE UNION {{<<h, a>> : a \in UNION {table[g] : g \in hubs} \ table[h]} : h \in hubs}

\* Pairs of different hubs, in both directions.
Pairs(hs) == {p \in hs \X hs : p[1] # p[2]}

(* heal_split_brain fixes the list of healthy hubs when it starts and goes *)
(* over its pairs, one request at a time.                                  *)
StartHeal ==
  /\ healing.left = {} /\ Cardinality(Healthy) > 1
  /\ healing' = [left |-> Pairs(Healthy), done |-> {}, split |-> SplitBrain(Healthy)]
  /\ UNCHANGED <<reachable, outages, table, alive, failures, probes, sending, handled, calls>>

(* What POST /roar/federation/sync imports (hub.py): nothing without the   *)
(* federation secret in an Authorization header, which refuses the request *)
(* with a status, not an exception, and else the entries in the body.      *)
Imported(request) == IF request.secret THEN request.entries ELSE {}

\* What heal_split_brain posts: the peer's URL alone, and no header.
SyncRequest(peer) == [secret |-> FALSE, entries |-> {}, hub_url |-> peer]

\* Any answer counts as a sync; an exception, also of a sync that was handled, does not.
HealPair(p) ==
  /\ p \in healing.left
  /\ \/ /\ p[1] \in reachable
        /\ table' = [table EXCEPT ![p[1]] = @ \cup Imported(SyncRequest(p[2]))]
        /\ \E done \in {healing.done \cup {p}, healing.done} :
             healing' = [healing EXCEPT !.left = @ \ {p}, !.done = done]
     \/ /\ healing' = [healing EXCEPT !.left = @ \ {p}]
        /\ UNCHANGED table
  /\ UNCHANGED <<reachable, outages, alive, failures, probes, sending, handled, calls>>

ClusterNext ==
  \/ \E h \in Cluster :
       \/ GoesDown(h) \/ ComesBack(h) \/ Pick(h)
       \/ StartProbe(h) \/ ProbeSucceeds(h) \/ ProbeFails(h)
  \/ StartSend \/ HubHandles \/ Answered \/ SendFails \/ SendGivesUp
  \/ \E h \in Cluster, a \in Joining : RegistersAt(h, a) \/ DeletesAt(h, a)
  \/ StartHeal
  \/ \E p \in Pairs(Cluster) : HealPair(p)

ClusterSpec == ClusterInit /\ [][ClusterNext]_clusterVars

\* The monitor's loop goes on, and every request ends in an answer or a timeout.
ClusterFairness ==
  \A h \in Cluster :
    WF_clusterVars(StartProbe(h)) /\ WF_clusterVars(ProbeSucceeds(h) \/ ProbeFails(h))

-----------------------------------------------------------------------------
(* One call of send has no hub handle its message twice, however often the *)
(* random choice comes back to the same hub.                               *)
HandledOncePerHub ==
  \A h \in Cluster : Cardinality({x \in handled : x[1] = h}) <= 1

(* While the health monitor runs, a hub whose health checks and calls stop *)
(* failing is healthy again for good, whatever they have counted before:   *)
(* a failing call counts as a failing check does, and only a check that    *)
(* succeeds clears the count.                                              *)
HubsRecover ==
  \A h \in Cluster :
    <>[][~ProbeFails(h) /\ ~(sending.at = h /\ SendFails)]_clusterVars => <>[]alive[h]

(* "Trigger federation sync across all healthy hubs to resolve             *)
(* inconsistencies" (ha.py:261): once every pair has been synced, and no    *)
(* hub has failed, detect_split_brain reports nothing that it would have    *)
(* reported when the healing began.                                        *)
HealResolves ==
  healing.left = {} /\ outages = 0 =>
    healing.split \cap SplitBrain({p[1] : p \in healing.done}) = {}
=============================================================================
