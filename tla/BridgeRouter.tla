---------------------------- MODULE BridgeRouter ----------------------------
(***************************************************************************)
(* Bridging requests between protocols (bridge.py, BridgeRouter), and the  *)
(* detection of a message's protocol by its fields (adapters/detect.py).   *)
(* Bridges may be chained: the answer of one is a message the next is      *)
(* given.                                                                  *)
(*                                                                         *)
(* A message is the set of its top-level fields, the class of its method   *)
(* (or "none"), the fields of its result and the DID it is for, where that *)
(* is read from.  A DID that was made up for a tool or an unknown target   *)
(* is Fresh: no directory has it.                                          *)
(***************************************************************************)
EXTENDS FiniteSets

CONSTANTS
  BridgeDids,  \* the agents' DIDs
  Fresh        \* a DID made up on the way

ASSUME BridgeAssumption == Fresh \notin BridgeDids

VARIABLES
  routes,      \* the DIDs in _directory
  preference,  \* _protocol_preferences: DID -> protocol, "none" for none
  bridged      \* the last answer: its protocol, its status and itself

routerVars == <<routes, preference, bridged>>

Protocols == {"roar", "mcp", "a2a", "acp"}

Message(fields, method, result, did) ==
  [fields |-> fields, method |-> method, result |-> result, did |-> did]

JsonRpc(method, did) == Message({"jsonrpc", "id", "method", "params"}, method, {}, did)

NoAnswer == [protocol |-> "none", status |-> "none", message |-> Message({}, "none", {}, Fresh)]

\* What clients send.
ClientMessages ==
  UNION {{Message({"roar", "intent", "id", "from", "to", "payload"}, "none", {}, d),
          JsonRpc("mcp", Fresh), JsonRpc("a2a", d),
          Message({"id", "status", "artifacts", "to"}, "none", {}, d),
          Message({"role", "content"}, "none", {}, Fresh),
          Message({"role", "content", "tool_calls"}, "none", {}, Fresh),
          JsonRpc("other", d)} : d \in BridgeDids \cup {Fresh}}

\* Mutant: a JSON-RPC answer is classed by its method alone.
DetectByMethod(m) ==
  CASE {"roar", "intent"} \subseteq m.fields -> "roar"
    [] {"role", "content"} \subseteq m.fields ->
         IF "tool_calls" \in m.fields THEN "autogen" ELSE "acp"
    [] "jsonrpc" \in m.fields /\ m.method = "a2a" -> "a2a"
    [] "jsonrpc" \in m.fields /\ m.method = "mcp" -> "mcp"
    [] {"status", "id", "artifacts"} \subseteq m.fields -> "a2a"
    [] OTHER -> "unknown"

\* detect_protocol; of the other frameworks' formats only AutoGen's matters here.
DetectProtocol(m) ==
  IF {"roar", "intent"} \subseteq m.fields THEN "roar"
  ELSE IF {"role", "content"} \subseteq m.fields THEN
         IF "tool_calls" \in m.fields THEN "autogen" ELSE "acp"
  ELSE IF "jsonrpc" \in m.fields /\ m.method = "a2a" THEN "a2a"
  ELSE IF "jsonrpc" \in m.fields /\ m.method = "mcp" THEN "mcp"
  ELSE IF "jsonrpc" \in m.fields /\ {"status", "id"} \subseteq m.result THEN "a2a"
  ELSE IF "jsonrpc" \in m.fields /\ {"tools", "resources"} \cap m.result # {} THEN "mcp"
  ELSE IF {"status", "id", "artifacts"} \subseteq m.fields THEN "a2a"
  ELSE "unknown"

(* _translate_to_roar: whom the message is for.  MCP names a tool, ACP     *)
(* nobody, and an A2A task says "to" in its params or its envelope.        *)
Target(m, protocol) ==
  CASE protocol = "roar" -> m.did
    [] protocol = "a2a" /\ {"params", "to"} \cap m.fields # {} -> m.did
    [] OTHER -> Fresh

\* get_agent_protocol, and the default of _translate_from_roar.
FormOf(did) ==
  IF did \in BridgeDids /\ preference[did] \in Protocols THEN preference[did] ELSE "roar"

\* _roar_response, _mcp_response, _a2a_response and _acp_response.
Response(form) ==
  CASE form = "roar" -> Message({"roar", "intent", "id", "from", "to", "payload"}, "none", {}, Fresh)
    [] form = "mcp" -> Message({"jsonrpc", "id", "result"}, "none", {"content", "tool", "params"}, Fresh)
    [] form = "a2a" -> Message({"jsonrpc", "id", "result"}, "none",
                               {"id", "status", "artifacts", "task_id", "from", "to", "payload"}, Fresh)
    [] form = "acp" -> Message({"role", "content"}, "none", {}, Fresh)

-----------------------------------------------------------------------------
BridgeInit ==
  /\ routes = {}
  /\ preference = [d \in BridgeDids |-> "none"]
  /\ bridged = NoAnswer

RegisterAgentVia(d, protocol) ==
  /\ routes' = routes \cup {d}
  /\ preference' = [preference EXCEPT ![d] = protocol]
  /\ UNCHANGED bridged

\* The hub registers and removes agents itself; preferences are kept.
HubChanges(d) ==
  /\ \/ routes' = routes \cup {d}
     \/ routes' = routes \ {d}
  /\ UNCHANGED <<preference, bridged>>

\* bridge_message
BridgeMessage(m) ==
  LET protocol == DetectProtocol(m)
      did == Target(m, protocol) IN
  /\ bridged' =
       IF protocol = "unknown" THEN [NoAnswer EXCEPT !.status = "unknown_protocol"]
       ELSE IF protocol \notin Protocols THEN [NoAnswer EXCEPT !.status = "translation_failed"]
       ELSE [protocol |-> FormOf(did),
             status |-> IF did \in routes THEN "routed" ELSE "no_route",
             message |-> Response(FormOf(did))]
  /\ UNCHANGED <<routes, preference>>

BridgeNext ==
  \/ \E d \in BridgeDids, protocol \in Protocols : RegisterAgentVia(d, protocol)
  \/ \E d \in BridgeDids : HubChanges(d)
  \/ \E m \in ClientMessages : BridgeMessage(m)
  \/ bridged.protocol # "none" /\ BridgeMessage(bridged.message)

BridgeSpec == BridgeInit /\ [][BridgeNext]_routerVars

-----------------------------------------------------------------------------
(* What one bridge answers in ROAR, A2A or ACP form another bridge takes   *)
(* for what it is.  (An answer in MCP form has neither a method nor a      *)
(* result it could be told by, and ends as unknown_protocol.)              *)
AnswersAreRecognised ==
  bridged.protocol \in {"roar", "a2a", "acp"} =>
    DetectProtocol(bridged.message) = bridged.protocol
=============================================================================
