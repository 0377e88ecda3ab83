----------------------------- MODULE ROARServer -----------------------------
(***************************************************************************)
(* The message server of the Python SDK: ROARServer.serve() with its       *)
(* POST /roar/message endpoint and ROARServer.handle_message (server.py),  *)
(* on top of the strict verifier, the deduplication guard and the token    *)
(* store.                                                                  *)
(*                                                                         *)
(* The network delivers any message of Messages at any time, any number of *)
(* times: lost, late, repeated and reordered deliveries are all included.  *)
(* No await lies between the verification and the call of the handler, so  *)
(* one delivery is one step; the clock may advance by up to Lag while it   *)
(* runs, which the six clock reads of a delivery show.                     *)
(*                                                                         *)
(* `log' is a history variable: the deliveries that passed the replay      *)
(* check since the process started, and what became of them.               *)
(***************************************************************************)
EXTENDS StrictVerifier, TokenStore

CONSTANTS
  Self,            \* the DID of this server
  HandledIntents,  \* intents a handler is registered for
  HaveCrypto,      \* the cryptography package is installed
  Timestamps,      \* values of auth.timestamp that messages carry
  Bodies           \* the rest of the messages

ASSUME ServerAssumption ==
  /\ Timestamps \subseteq Nat \cup {None}
  /\ \A b \in Bodies : b.token # None =>
       b.token.id \in TokenIds /\ b.token.maxUses \in Nat \cup {NoLimit}

VARIABLES
  signing,  \* signing_secret is configured (it is HmacSecret)
  log

serverVars == <<clock, seen, accepted, forgotten, uses, touched, signing, log>>

Messages == [id : Keys, ts : Timestamps, body : Bodies]

\* The clock reads of one delivery, in program order.
Readings ==
  {r \in [verify : Now, evict : Now, record : Now, again : Now, expiry : Now, token : Now] :
     /\ r.verify <= r.evict
     /\ r.evict <= r.record
     /\ r.record <= r.again
     /\ r.again <= r.expiry
     /\ r.expiry <= r.token}

\* A message that passed the replay check at r.record, and its outcome.
Note(m, r, outcome) ==
  log' = Append(log, [msg |-> m, at |-> r.record, until |-> r.token, outcome |-> outcome])

-----------------------------------------------------------------------------
\* Mutant: a token serves any sender.
TokenUsableByAnyone(m, now) ==
  LET t == m.body.token IN
  /\ t.wellFormed
  /\ t.expiresAt # None => now <= t.expiresAt

(* The checks on context["delegation_token"] that come before the store is *)
(* asked: malformed, issued to another agent, past its expiry.             *)
TokenUsable(m, now) ==
  LET t == m.body.token IN
  /\ t.wellFormed
  /\ t.delegate = m.body.from
  /\ t.expiresAt # None => now <= t.expiresAt

(* verify_token: is_valid() on the claimed use_count, then the signature.  *)
TokenVerifies(t, now) ==
  /\ HaveCrypto
  /\ t.expiresAt # None => now <= t.expiresAt
  /\ t.maxUses # NoLimit => t.useCount < t.maxUses
  /\ t.signer = t.delegator

\* The dispatch at the end of handle_message.
DispatchOutcome(m) ==
  IF m.body.intent \in HandledIntents THEN "dispatched" ELSE "unhandled_intent"

(***************************************************************************)
(* handle_message(m, _signature_verified = verified).  Resolving the       *)
(* delegator's DID may fail at any time (resolved).  The use of a token is *)
(* counted before its delegator is resolved and its signature verified.    *)
(***************************************************************************)
HandleMessage(m, r, verified) ==
  \/ /\ signing /\ ~verified /\ ~MessageVerify(m, r.again)
     /\ Note(m, r, "invalid_signature")
     /\ UNCHANGED storeVars
  \/ /\ signing /\ ~verified => MessageVerify(m, r.again)
     /\ \/ /\ m.body.token = None
           /\ Note(m, r, DispatchOutcome(m))
           /\ UNCHANGED storeVars
        \/ /\ m.body.token # None
           /\ ~TokenUsable(m, r.expiry)
           /\ Note(m, r, "token_refused")
           /\ UNCHANGED storeVars
        \/ /\ m.body.token # None
           /\ TokenUsable(m, r.expiry)
           /\ \E ok, resolved \in BOOLEAN :
                /\ GetAndIncrement(m.body.token.id, m.body.token.maxUses, r.expiry, ok)
                /\ Note(m, r,
                     CASE ~ok -> "token_exhausted"
                       [] ok /\ ~resolved -> "token_unverifiable"
                       [] ok /\ resolved /\ ~TokenVerifies(m.body.token, r.token) -> "token_invalid"
                       [] OTHER -> DispatchOutcome(m))

-----------------------------------------------------------------------------
ServerInit ==
  /\ clock = 0
  /\ GuardInit
  /\ StoreInit
  /\ signing \in BOOLEAN
  /\ log = <<>>

Advance ==
  /\ clock < Horizon
  /\ clock' = clock + 1
  /\ UNCHANGED <<guardVars, storeVars, signing, log>>

\* receive_message answers with an error and the message goes no further.
Reject(m, r) ==
  /\ \/ signing /\ \E verdict \in {"rejected", "replay"} : Verify(TRUE, m, r, verdict)
     \/ ~signing /\ IsDuplicate(m.id, r.evict, r.record, TRUE)
  /\ UNCHANGED <<storeVars, log>>

\* The id is recorded, but the signature does not verify.
RejectSignature(m, r) ==
  /\ signing
  /\ Verify(TRUE, m, r, "bad_signature")
  /\ Note(m, r, "bad_signature")
  /\ UNCHANGED storeVars

\* The message passes and is handed to handle_message.
Accept(m, r) ==
  /\ \/ signing /\ Verify(TRUE, m, r, "ok")
     \/ ~signing /\ IsDuplicate(m.id, r.evict, r.record, FALSE)
  /\ HandleMessage(m, r, TRUE)

ReceiveMessage ==
  \E m \in Messages, r \in Readings :
    /\ Len(accepted) < MaxAccepts
    /\ Reject(m, r) \/ RejectSignature(m, r) \/ Accept(m, r)
    /\ clock' = r.token
    /\ UNCHANGED signing

\* The process is restarted, perhaps with other settings: its memory is gone.
Restart ==
  /\ accepted # <<>>
  /\ Clear
  /\ StoreRestart
  /\ signing' \in BOOLEAN
  /\ log' = <<>>
  /\ UNCHANGED clock

ServerNext == Advance \/ ReceiveMessage \/ Restart

ServerSpec == ServerInit /\ [][ServerNext]_serverVars

-----------------------------------------------------------------------------
Outcomes ==
  {"bad_signature", "invalid_signature", "token_refused", "token_exhausted",
   "token_unverifiable", "token_invalid", "unhandled_intent", "dispatched"}

(* Types; the log runs in step with the ids the guard let through.         *)
ServerTypeOK ==
  /\ TypeOK
  /\ log \in Seq([msg : Messages, at : Nat, until : Nat, outcome : Outcomes])
  /\ uses \in [TokenIds -> Nat]
  /\ touched \in [TokenIds -> Nat]
  /\ signing \in BOOLEAN

(* Two deliveries with the same id pass the replay check only if the       *)
(* guard's TTL lies between them or its capacity loop popped the id; in    *)
(* particular a repeated delivery neither reaches a handler again nor      *)
(* takes a second use of its token (spec/04-exchange.md, replay cache).    *)
HandledOncePerWindow ==
  \A a, b \in 1 .. Len(log) :
    a < b /\ log[a].msg.id = log[b].msg.id =>
      \/ log[a].msg.id \in forgotten
      \/ log[a].at + TTL <= log[b].at

(* One signed message, that is one id with one auth.timestamp, is handled  *)
(* at most once however often and however late it is delivered: when the   *)
(* guard has let go of the id, the timestamp is out of the window, which   *)
(* it outlives with the settings of serve().                               *)
SignedMessageOnce ==
  signing /\ OutlivesWindow =>
    \A a, b \in 1 .. Len(log) :
      a < b /\ log[a].msg.id = log[b].msg.id /\ log[a].msg.ts = log[b].msg.ts =>
        log[a].msg.id \in forgotten

\* The dispatches so far that used token t.
DispatchedWith(t) ==
  {i \in 1 .. Len(log) : log[i].outcome = "dispatched" /\ log[i].msg.body.token = t}

(* A token with max_uses reaches handlers at most that often, also when    *)
(* copies of it with other claims have been counted under its id (server   *)
(* comment: "the only source of truth for max_uses enforcement").          *)
MaxUsesEnforced ==
  \A b \in Bodies :
    b.token # None /\ b.token.maxUses # NoLimit =>
      Cardinality(DispatchedWith(b.token)) <= b.token.maxUses

(* Fail closed: what reaches a handler was signed under a key the server   *)
(* trusts within the window, and a token it carried was issued to the      *)
(* sender by the delegator and had not expired when the handler ran.       *)
OnlyVerifiedDispatched ==
  \A i \in 1 .. Len(log) :
    log[i].outcome = "dispatched" =>
      LET m == log[i].msg IN
      /\ signing => SignatureValid(m) /\ log[i].at <= m.ts + MaxAge + Lag
      /\ m.body.token # None =>
           /\ m.body.token.delegate = m.body.from
           /\ m.body.token.signer = m.body.token.delegator
           /\ m.body.token.expiresAt # None => log[i].until <= m.body.token.expiresAt

(* The guard forgets an id before its TTL only when MaxKeys younger ids    *)
(* came within one TTL: expired ids never push out a live one.             *)
ForgetsOnlyUnderLoad ==
  [][forgotten' # forgotten /\ forgotten' # {} =>
       /\ Len(seen') = MaxKeys
       /\ \A i \in 1 .. MaxKeys : seen'[i].ts + TTL > clock]_serverVars
=============================================================================
