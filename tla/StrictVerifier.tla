--------------------------- MODULE StrictVerifier ---------------------------
(***************************************************************************)
(* Message verification: StrictMessageVerifier.verify (verifier.py) and    *)
(* the plain ROARMessage.verify (types.py).                                *)
(*                                                                         *)
(* A message is [id, ts, body]: ts is auth.timestamp, or None when it is   *)
(* missing or not a number; body holds what the checks look at.  The HMAC  *)
(* and Ed25519 computations are abstracted to body.signer, the key under   *)
(* which the signature in the message verifies, None if there is none.     *)
(***************************************************************************)
EXTENDS IdempotencyGuard

CONSTANTS
  None,              \* the absent value
  MaxAge,            \* max_age_seconds, also of ROARMessage.verify
  MaxSkew,           \* max_future_skew_seconds
  AllowedSchemes,    \* allowed_signature_schemes
  HmacSecret,        \* hmac_secret, None when empty
  HmacSecrets,       \* hmac_secrets: function from kid to secret
  TrustedKeys,       \* trusted_ed25519_keys: function from DID to key
  ExpectedRecipient  \* expected_recipient_did, None when not set

ASSUME VerifierAssumption ==
  /\ MaxAge \in Nat
  /\ MaxSkew \in Nat
  /\ None \notin Nat
  /\ TTL > 0  \* a guard that keeps nothing is none

(* The guard keeps an id for longer than the verifier accepts a timestamp. *)
(* serve() sees to that, 600 s against 300 s + 30 s; whoever gives a guard *)
(* to a verifier of his own may not: a guard's TTL is 300 s by default.    *)
OutlivesWindow == MaxAge + MaxSkew + Lag < TTL

-----------------------------------------------------------------------------
SupportedVersion(m) == m.body.version = 1

SchemeAllowed(m) == m.body.scheme \in AllowedSchemes

KidKnown(m) ==
  m.body.kid # None =>
    /\ m.body.scheme = "hmac-sha256" /\ DOMAIN HmacSecrets # {} =>
         m.body.kid \in DOMAIN HmacSecrets
    /\ m.body.scheme = "ed25519" => m.body.kid \in DOMAIN TrustedKeys

RecipientAccepted(m) ==
  ExpectedRecipient # None => m.body.to = ExpectedRecipient

\* Mutant: old messages pass.
InWindowAgeless(m, now) == m.ts \in Nat /\ m.ts - now <= MaxSkew

\* Not older than MaxAge and not more than MaxSkew ahead at time now.
InWindow(m, now) ==
  /\ m.ts \in Nat
  /\ now - m.ts <= MaxAge
  /\ m.ts - now <= MaxSkew

\* Everything verify checks before it asks the replay guard.
EnvelopeAccepted(m, now) ==
  /\ SupportedVersion(m)
  /\ SchemeAllowed(m)
  /\ KidKnown(m)
  /\ RecipientAccepted(m)
  /\ InWindow(m, now)

\* The secret an HMAC is checked against: the one of its kid, else the default.
SecretFor(m) ==
  IF m.body.kid # None /\ DOMAIN HmacSecrets # {}
    THEN HmacSecrets[m.body.kid]
    ELSE HmacSecret

SignatureValid(m) ==
  \/ /\ m.body.scheme = "hmac-sha256"
     /\ SecretFor(m) # None
     /\ m.body.signer = SecretFor(m)
  \/ /\ m.body.scheme = "ed25519"
     /\ m.body.from \in DOMAIN TrustedKeys
     /\ m.body.signer = TrustedKeys[m.body.from]

(***************************************************************************)
(* verify(m) with clock reads r.verify, r.evict and r.record: the guard,   *)
(* if the verifier has one, records the id before the signature is         *)
(* checked.                                                                *)
(***************************************************************************)
Verify(guarded, m, r, verdict) ==
  \/ /\ verdict = "rejected"
     /\ ~EnvelopeAccepted(m, r.verify)
     /\ UNCHANGED guardVars
  \/ /\ verdict = "replay"
     /\ guarded
     /\ EnvelopeAccepted(m, r.verify)
     /\ IsDuplicate(m.id, r.evict, r.record, TRUE)
  \/ /\ verdict = (IF SignatureValid(m) THEN "ok" ELSE "bad_signature")
     /\ EnvelopeAccepted(m, r.verify)
     /\ IF guarded THEN IsDuplicate(m.id, r.evict, r.record, FALSE) ELSE UNCHANGED guardVars

\* Mutant: the HMAC is not compared.
MessageVerifyUnsigned(m, now) ==
  LET sent == IF m.ts = None THEN 0 ELSE m.ts IN
  /\ m.body.scheme = "hmac-sha256"
  /\ now - sent <= MaxAge
  /\ sent - now <= MaxAge

(* ROARMessage.verify(HmacSecret): the window is symmetric, a timestamp    *)
(* that is not there counts as zero.                                       *)
MessageVerify(m, now) ==
  LET sent == IF m.ts = None THEN 0 ELSE m.ts IN
  /\ m.body.scheme = "hmac-sha256"
  /\ now - sent <= MaxAge
  /\ sent - now <= MaxAge
  /\ m.body.signer = HmacSecret
=============================================================================
