----------------------------- MODULE SseStream ------------------------------
(***************************************************************************)
(* GET /events (router.py, event_stream): the limit on connections, and    *)
(* what a client is told before its subscription exists.  The endpoint     *)
(* returns the response; its generator starts later, when the server first *)
(* iterates it, and subscribes later still, after the client has read that *)
(* it is connected.  What a subscription gets is the module EventBus's.    *)
(***************************************************************************)
EXTENDS Integers, FiniteSets

CONSTANTS
  Connections,      \* the connection ids
  MaxConnections    \* _MAX_SSE_CONNECTIONS

ASSUME SseAssumption == MaxConnections \in Nat

VARIABLES
  activeSse,   \* _active_sse
  stage,       \* each connection: the endpoint, then the generator
  overlapped   \* some request was admitted while another had not started

sseVars == <<activeSse, stage, overlapped>>

-----------------------------------------------------------------------------
SseInit ==
  /\ activeSse = {}
  /\ stage = [c \in Connections |-> "none"]
  /\ overlapped = FALSE

Starting == {c \in Connections : stage[c] = "admitted"}

Room == ~(Cardinality(activeSse) >= MaxConnections)

\* The endpoint: 503 changes nothing, an admitted request counts nowhere yet.
Admit(c) ==
  /\ stage[c] = "none"
  /\ Room
  /\ stage' = [stage EXCEPT ![c] = "admitted"]
  /\ overlapped' = (overlapped \/ Starting # {})
  /\ UNCHANGED activeSse

\* The client is gone before the generator has started: it never counts.
NeverStarts(c) ==
  /\ stage[c] = "admitted"
  /\ stage' = [stage EXCEPT ![c] = "closed"]
  /\ UNCHANGED <<activeSse, overlapped>>

\* generate up to the first yield: the client reads "connected".
Connected(c) ==
  /\ stage[c] = "admitted"
  /\ activeSse' = activeSse \cup {c}
  /\ stage' = [stage EXCEPT ![c] = "connected"]
  /\ UNCHANGED overlapped

SubscribeSse(c) ==
  /\ stage[c] = "connected"
  /\ stage' = [stage EXCEPT ![c] = "subscribed"]
  /\ UNCHANGED <<activeSse, overlapped>>

\* Mutant: only a stream that has subscribed gives its place back.
DisconnectLate(c) ==
  /\ stage[c] \in {"connected", "subscribed"}
  /\ activeSse' = IF stage[c] = "subscribed" THEN activeSse \ {c} ELSE activeSse
  /\ stage' = [stage EXCEPT ![c] = "closed"]
  /\ UNCHANGED overlapped

\* The generator is closed or raises, wherever it waits: both finally blocks.
Disconnect(c) ==
  /\ stage[c] \in {"connected", "subscribed"}
  /\ activeSse' = activeSse \ {c}
  /\ stage' = [stage EXCEPT ![c] = "closed"]
  /\ UNCHANGED overlapped

SseNext ==
  \E c \in Connections :
    Admit(c) \/ NeverStarts(c) \/ Connected(c) \/ SubscribeSse(c) \/ Disconnect(c)

SseSpec == SseInit /\ [][SseNext]_sseVars

-----------------------------------------------------------------------------
(* The places taken are those of the open streams, so none leaks, and they *)
(* are within the limit unless requests overlap: the limit is checked when *)
(* a request comes in and counted when its stream starts.                  *)
PlacesBounded ==
  /\ activeSse = {c \in Connections : stage[c] \in {"connected", "subscribed"}}
  /\ ~overlapped => Cardinality(activeSse) <= MaxConnections
=============================================================================
