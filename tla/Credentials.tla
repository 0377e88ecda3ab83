----------------------------- MODULE Credentials ----------------------------
(***************************************************************************)
(* Capability attestations (verifiable_credentials.py): issuers sign       *)
(* credentials, agents carry them and pass copies on, and a verifier       *)
(* accepts them by its trust chain and its revocation registry.            *)
(*                                                                         *)
(* A signature is the key and the payload it was made over.  The keys the  *)
(* issuers hold, the copies and their edits are outside this code; a copy  *)
(* differs from its original in one field.  `issued' is history.           *)
(***************************************************************************)
EXTENDS Clock, FiniteSets

CONSTANTS
  Issuers,
  IssuerKeys,
  Untrusted,      \* get_public_key of an issuer the chain does not have
  Attestations,   \* what issuers attest
  Lifetimes,      \* expires_in_hours
  MaxIssued,      \* bound: credentials issued
  MaxEdits        \* bound: edited copies

ASSUME CredentialsAssumption ==
  /\ Untrusted \notin IssuerKeys
  /\ Lifetimes \subseteq Nat
  /\ {MaxIssued, MaxEdits} \subseteq Nat

VARIABLES
  issued,      \* every credential as it was issued
  copies,      \* the credentials in circulation
  edits,       \* edited copies so far
  trustChain,  \* IssuerTrustChain._trusted
  revokedIds   \* RevocationRegistry._revoked

credentialVars == <<issued, copies, edits, trustChain, revokedIds>>

\* Mutant: the expiration date is not signed.
PayloadUndated(c) == <<c.id, c.issuer, c.attested>>

\* _canonical_payload
Payload(c) == <<c.id, c.issuer, c.attested, c.expires>>

\* verify_credential
VerifyCredential(c, key) == now <= c.expires /\ c.signature = [by |-> key, over |-> Payload(c)]

\* verify_from_chain, with a revocation registry.
VerifyFromChain(c) ==
  /\ trustChain[c.issuer] # Untrusted
  /\ c.id \notin revokedIds
  /\ VerifyCredential(c, trustChain[c.issuer])

-----------------------------------------------------------------------------
CredentialsInit ==
  /\ issued = {} /\ copies = {} /\ edits = 0
  /\ trustChain = [i \in Issuers |-> Untrusted]
  /\ revokedIds = {}

\* `key' is the key the issuer holds at the moment; it rotates its keys.
IssueCredential(i, key, attested, lifetime) ==
  LET body == [id |-> Cardinality(issued) + 1, issuer |-> i, attested |-> attested,
               expires |-> now + lifetime]
      c == [id |-> body.id, issuer |-> i, attested |-> attested, expires |-> body.expires,
            signature |-> [by |-> key, over |-> Payload(body)]] IN
  /\ Cardinality(issued) < MaxIssued
  /\ issued' = issued \cup {c}
  /\ copies' = copies \cup {c}
  /\ UNCHANGED <<edits, trustChain, revokedIds>>

Edited(c) ==
  {[c EXCEPT !.attested = a] : a \in Attestations} \cup
  {[c EXCEPT !.issuer = i] : i \in Issuers} \cup
  {[c EXCEPT !.expires = t] : t \in {LastTick}} \cup
  {[c EXCEPT !.id = other.id] : other \in issued}

EditCopy(c) ==
  /\ edits < MaxEdits
  /\ edits' = edits + 1
  /\ \E with \in Edited(c) \ copies : copies' = copies \cup {with}
  /\ UNCHANGED <<issued, trustChain, revokedIds>>

\* trust_issuer replaces the key it has, by the present one or an older one.
TrustIssuer(i, key) ==
  /\ trustChain' = [trustChain EXCEPT ![i] = key]
  /\ UNCHANGED <<issued, copies, edits, revokedIds>>

UntrustIssuer(i) ==
  /\ trustChain' = [trustChain EXCEPT ![i] = Untrusted]
  /\ UNCHANGED <<issued, copies, edits, revokedIds>>

RevokeCredential(c) ==
  /\ revokedIds' = revokedIds \cup {c.id}
  /\ UNCHANGED <<issued, copies, edits, trustChain>>

CredentialsNext ==
  \/ Tick /\ UNCHANGED credentialVars
  \/ /\ UNCHANGED now
     /\ \/ \E i \in Issuers, key \in IssuerKeys, attested \in Attestations, lifetime \in Lifetimes :
             IssueCredential(i, key, attested, lifetime)
        \/ \E i \in Issuers, key \in IssuerKeys : TrustIssuer(i, key)
        \/ \E i \in Issuers : UntrustIssuer(i)
        \/ \E c \in copies : EditCopy(c) \/ RevokeCredential(c)

CredentialsSpec == ClockInit /\ CredentialsInit /\ [][CredentialsNext]_<<now, credentialVars>>

-----------------------------------------------------------------------------
(* The verifier accepts just what its issuers attest: whatever copies were *)
(* edited, issuers trusted, dropped and trusted again, and keys changed, a *)
(* copy is accepted if and only if it is as it was issued, by the key that *)
(* is trusted for its issuer now, within the lifetime it was issued with   *)
(* and not revoked.                                                        *)
AcceptsAsIssued ==
  \A c \in copies :
    VerifyFromChain(c) <=>
      /\ c \in issued /\ c.signature.by = trustChain[c.issuer]
      /\ now <= c.expires
      /\ c.id \notin revokedIds
=============================================================================
