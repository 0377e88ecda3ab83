------------------------------- MODULE MCEdge -------------------------------
(***************************************************************************)
(* What stands between an agent and its peers, side by side: duplicates    *)
(* and rates, event streams, plugins, the bridges to other protocols, and  *)
(* what is kept of transactions and messages.  The components share no     *)
(* state, so in a behaviour one of them, `part', moves and the others keep *)
(* their initial states.                                                   *)
(*                                                                         *)
(* The guard holds two of three interchangeable keys, over a horizon in    *)
(* which the TTL passes twice, so that keys expire, are reused, and are    *)
(* popped by the capacity loop.                                            *)
(***************************************************************************)
EXTENDS IdempotencyGuard, TokenBucket, SseStream, PluginManager, EventBridge,
        BridgeRouter, SseReader, Transaction, AuditLog, EventBus

CONSTANTS p1, p2, s1, s2

\* s1 listens to everybody, s2 to p1.
OneFiltered == [s \in Subs |-> IF s = s1 THEN Publishers ELSE {p1}]

\* What an altered line of an audit file gives as its hashes.
SomeLinks == {<<>>, <<"c1">>, <<"c2">>, <<"c1", "c2">>}

VARIABLE part

Parts ==
  {"guard", "bucket", "bus", "sse", "reader", "plugins", "events", "bridge", "transaction", "audit"}

MCInit ==
  /\ part \in Parts
  /\ Init /\ LimiterInit /\ BusInit /\ SseInit /\ ReaderInit /\ PluginInit
  /\ EventBridgeInit /\ BridgeInit /\ TransactionInit /\ AuditInit
  /\ part = "transaction" \/ tx.terms = "t1"

Keep(p, v) == IF part = p THEN TRUE ELSE UNCHANGED v

MCNext ==
  /\ \/ part = "guard" /\ Next
     \/ part = "bucket" /\ LimiterNext
     \/ part = "bus" /\ BusNext
     \/ part = "sse" /\ SseNext
     \/ part = "reader" /\ ReaderNext
     \/ part = "plugins" /\ PluginNext
     \/ part = "events" /\ EventBridgeNext
     \/ part = "bridge" /\ BridgeNext
     \/ part = "transaction" /\ TransactionNext
     \/ part = "audit" /\ AuditNext
  /\ Keep("guard", vars)
  /\ Keep("bucket", limiterVars)
  /\ Keep("bus", busVars)
  /\ Keep("sse", sseVars)
  /\ Keep("reader", readerVars)
  /\ Keep("plugins", pluginVars)
  /\ Keep("events", bridgeVars)
  /\ Keep("bridge", routerVars)
  /\ Keep("transaction", txVars)
  /\ Keep("audit", auditVars)
  /\ UNCHANGED part

MCSpec ==
  MCInit /\ [][MCNext]_<<part, vars, limiterVars, busVars, sseVars, readerVars, pluginVars, bridgeVars,
                        routerVars, txVars, auditVars>>

KeySymmetry == Permutations(Keys)
=============================================================================
