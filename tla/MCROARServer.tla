---------------------------- MODULE MCROARServer ----------------------------
(***************************************************************************)
(* Instances of the message server.  serve() builds its verifier with the  *)
(* signing secret and the guard only: no kid table, no Ed25519 keys, no    *)
(* expected recipient.                                                     *)
(***************************************************************************)
EXTENDS ROARServer

CONSTANTS alice, bob, srv, secret, otherKey

NoFunction == [x \in {} |-> None]
Schemes == {"hmac-sha256", "ed25519"}

Body(scheme, signer, to, intent, token) ==
  [version |-> 1, scheme |-> scheme, kid |-> None, from |-> alice, to |-> to,
   signer |-> signer, intent |-> intent, token |-> token]

Plain == Body("hmac-sha256", secret, srv, "ask", None)

\* Alice's token from bob: at most one use.
Token ==
  [id |-> "tok", wellFormed |-> TRUE, delegate |-> alice, delegator |-> bob,
   maxUses |-> 1, expiresAt |-> None, useCount |-> 0, signer |-> bob]

WithToken(t) == Body("hmac-sha256", secret, srv, "ask", t)

(* Messages without a token, one not signed by a key the server knows and  *)
(* one without a handler; a good token, and copies of it that are altered, *)
(* stale or issued to somebody else.                                       *)
ServerBodies ==
  {[Plain EXCEPT !.intent = "notify"],
   Body("hmac-sha256", otherKey, srv, "ask", None),
   WithToken(Token),
   WithToken([Token EXCEPT !.maxUses = NoLimit, !.signer = alice]),
   WithToken([Token EXCEPT !.expiresAt = 1]),
   WithToken([Token EXCEPT !.delegate = bob])}

IdSymmetry == Permutations(Keys)
=============================================================================
