----------------------------- MODULE RoarRouter -----------------------------
(***************************************************************************)
(* The FastAPI router around a ROARServer (router.py): POST /roar/message  *)
(* and the message loop of WS /roar/ws on an authenticated connection.     *)
(* The rate limiter in front of both is TokenBucket; here it only decides  *)
(* whether a message comes through at all, which the delivery of any       *)
(* message at any time already covers.                                     *)
(*                                                                         *)
(* The router calls handle_message without _signature_verified, so the     *)
(* HMAC and the window are checked a second time after the replay check.   *)
(*                                                                         *)
(* The strict verifier is the caller's, and so are its replay guard, None  *)
(* by default, and the TTL of that.                                        *)
(***************************************************************************)
EXTENDS ROARServer

CONSTANTS
  RouterSeenMax, \* _SEEN_MAX
  RouterSeenTTL  \* _SEEN_TTL

ASSUME RouterAssumption ==
  /\ RouterSeenMax \in Nat
  /\ RouterSeenTTL \in Nat

(* _SEEN_TTL (600 s) spans the window of ROARMessage.verify, 300 s on each *)
(* side of the timestamp, with nothing to spare.                           *)
ASSUME RouterWindowAssumption == 2 * MaxAge <= RouterSeenTTL

VARIABLES
  strict,     \* the strict_verifier passed to create_roar_router, if any
  routerSeen  \* _seen: set of [key, ts] entries

routerVars == <<serverVars, strict, routerSeen>>

-----------------------------------------------------------------------------
\* Mutant: an overfull cache is emptied.
PurgedAll(now) ==
  IF Cardinality(routerSeen) > RouterSeenMax THEN {} ELSE routerSeen

(* Expired entries leave only when there are more than _SEEN_MAX of them.  *)
Purged(now) ==
  IF Cardinality(routerSeen) > RouterSeenMax
    THEN {e \in routerSeen : now - e.ts <= RouterSeenTTL}
    ELSE routerSeen

\* _check_replay(k) at time now, answering dup.
CheckReplay(k, now, dup) ==
  /\ dup = (\E e \in Purged(now) : e.key = k)
  /\ routerSeen' = IF dup THEN Purged(now)
                          ELSE Purged(now) \cup {[key |-> k, ts |-> now]}

-----------------------------------------------------------------------------
RouterInit ==
  /\ ServerInit
  /\ strict \in {"none", "unguarded", "guarded"}
  /\ routerSeen = {}

(* The verification that POST without a strict verifier and WS share:      *)
(* a configured secret, the HMAC, the router's own replay cache.           *)
PlainRejected(m, r) ==
  /\ \/ ~(signing /\ MessageVerify(m, r.verify)) /\ UNCHANGED routerSeen
     \/ signing /\ MessageVerify(m, r.verify) /\ CheckReplay(m.id, r.record, TRUE)
  /\ UNCHANGED <<guardVars, storeVars, log>>

PlainAccepted(m, r) ==
  /\ signing
  /\ MessageVerify(m, r.verify)
  /\ CheckReplay(m.id, r.record, FALSE)
  /\ HandleMessage(m, r, FALSE)
  /\ UNCHANGED guardVars

\* POST /roar/message behind the strict verifier.
StrictRejected(m, r) ==
  /\ strict # "none"
  /\ \E verdict \in {"rejected", "replay", "bad_signature"} :
       Verify(strict = "guarded", m, r, verdict)
  /\ UNCHANGED <<storeVars, log, routerSeen>>

StrictAccepted(m, r) ==
  /\ strict # "none"
  /\ Verify(strict = "guarded", m, r, "ok")
  /\ HandleMessage(m, r, FALSE)
  /\ UNCHANGED routerSeen

PostMessage(m, r) ==
  \/ StrictRejected(m, r)
  \/ StrictAccepted(m, r)
  \/ strict = "none" /\ PlainRejected(m, r)
  \/ strict = "none" /\ PlainAccepted(m, r)

WebSocketMessage(m, r) == PlainRejected(m, r) \/ PlainAccepted(m, r)

RouterReceive ==
  \E m \in Messages, r \in Readings :
    /\ Len(log) < MaxAccepts
    /\ PostMessage(m, r) \/ WebSocketMessage(m, r)
    /\ clock' = r.token
    /\ UNCHANGED <<signing, strict>>

RouterAdvance == Advance /\ UNCHANGED <<strict, routerSeen>>

RouterNext == RouterReceive \/ RouterAdvance

RouterSpec == RouterInit /\ [][RouterNext]_routerVars

-----------------------------------------------------------------------------
(* The dispatches so far of the message with id k and timestamp t.         *)
Dispatches(k, t) ==
  {i \in 1 .. Len(log) :
     log[i].msg.id = k /\ log[i].msg.ts = t /\ log[i].outcome = "dispatched"}

\* Every way to a handler leads past a replay cache that lasts as long as it must.
ReplayProtected == strict = "none" \/ (strict = "guarded" /\ OutlivesWindow)

(* One signed message reaches a handler at most once by each cache that    *)
(* guards it, however often it is sent and over whichever transports.      *)
(* Without a strict verifier POST and WS share the router's cache, which   *)
(* gives an id up after 600 s, when the second verification in             *)
(* handle_message finds the timestamp too old; with one, each has its own  *)
(* (spec/04-exchange.md:146, "Duplicate IDs within the window MUST be      *)
(* rejected").  A strict verifier without a guard lets POST repeat a       *)
(* message for as long as its timestamp is good, and one whose guard       *)
(* forgets sooner than that lets it repeat then; an id that the capacity   *)
(* loop of the guard popped is another matter.                             *)
DispatchedOncePerCache ==
  ReplayProtected =>
    \A k \in Keys, t \in Timestamps : k \notin forgotten =>
      Cardinality(Dispatches(k, t)) <= (IF strict = "guarded" /\ signing THEN 2 ELSE 1)
=============================================================================
