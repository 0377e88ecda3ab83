---------------------------- MODULE MCRoarRouter ----------------------------
(***************************************************************************)
(* Instances of the router.  With a strict verifier it trusts alice's      *)
(* Ed25519 key next to the shared secret.                                  *)
(***************************************************************************)
EXTENDS RoarRouter

CONSTANTS alice, bob, srv, secret, aliceKey

NoFunction == [x \in {} |-> None]
AliceTrusted == [d \in {alice} |-> aliceKey]
Schemes == {"hmac-sha256", "ed25519"}

Plain ==
  [version |-> 1, scheme |-> "hmac-sha256", kid |-> None, from |-> alice, to |-> srv,
   signer |-> secret, intent |-> "ask", token |-> None]

Ed25519 == [Plain EXCEPT !.scheme = "ed25519", !.signer = aliceKey]

\* Good messages of both schemes, and an HMAC under another key.
RouterBodies == {Plain, Ed25519, [Plain EXCEPT !.signer = aliceKey]}

IdSymmetry == Permutations(Keys)
=============================================================================
