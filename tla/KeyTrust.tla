------------------------------ MODULE KeyTrust ------------------------------
(***************************************************************************)
(* The store of trusted public keys (key_trust.py, KeyTrustStore), for one *)
(* DID: the lists of different DIDs share nothing.                         *)
(*                                                                         *)
(* `ring' is the list of the DID as a set: `nth' numbers the registrations *)
(* and register_key inserts in front, so the list runs from the highest    *)
(* number down.  `lost' is a history variable: rotate_key has retired a    *)
(* key for a successor that register_key then refused.                     *)
(***************************************************************************)
EXTENDS Clock, FiniteSets

CONSTANTS
  PublicKeys,
  Malformed,         \* not 64 hex digits: register_key raises ValueError
  NotReplaced,       \* the replaced_by of a key that is not rotated
  MaxAge,            \* default_max_age_hours
  Grace,             \* rotation_grace_hours
  Ages,              \* the lifetimes callers ask for
  MaxRegistrations   \* bound: entries ever made

ASSUME KeyTrustAssumption ==
  /\ MaxAge \in Nat /\ Grace \in Nat /\ Ages \subseteq Nat
  /\ Grace <= MaxAge
  /\ MaxRegistrations \in Nat
  /\ Malformed \notin PublicKeys
  /\ NotReplaced \notin PublicKeys \cup {Malformed}

VARIABLES ring, registered, lost

keyVars == <<ring, registered, lost>>

IsExpired(m) == now > m.expires
IsRotated(m) == m.replacedBy # NotReplaced

\* The first entry of the list among those in S.
First(S) == CHOOSE m \in S : \A other \in S : other.nth <= m.nth

\* What get_trusted_key chooses from, and rotate_key marks the first of.
Active == {m \in ring : ~IsExpired(m) /\ ~IsRotated(m)}

\* get_trusted_key: the metadata it answers with, in a set; {} is an error.
GetTrustedKey == IF Active = {} THEN {} ELSE {First(Active)}

\* verify_message of a message signed with k: any entry that has not expired.
Verifies(k) == \E m \in ring : m.key = k /\ ~IsExpired(m)

-----------------------------------------------------------------------------
KeyTrustInit == ring = {} /\ registered = 0 /\ lost = FALSE

Entry(k, age) ==
  [nth |-> registered + 1, key |-> k, expires |-> now + age,
   replacedBy |-> NotReplaced]

RegisterKey(k, age) ==
  /\ registered < MaxRegistrations
  /\ ring' = ring \cup {Entry(k, age)}
  /\ registered' = registered + 1
  /\ UNCHANGED lost

\* Mutant: the grace period may outlast the key (before SEC-013).
RetiredPast(m, k) == [m EXCEPT !.replacedBy = k, !.expires = now + MaxAge + 1]

\* The key m on its way out, k its successor.
Retired(m, k) ==
  [m EXCEPT !.replacedBy = k,
            !.expires = IF m.expires < now + Grace THEN m.expires ELSE now + Grace]

\* The list once its active key, if there is one, is marked.
RetireActive(k) ==
  IF Active = {} THEN ring
    ELSE (ring \ {First(Active)}) \cup {Retired(First(Active), k)}

\* Mutant: an expired key counts as the current one and is given the grace.
RotateKeyRevive(k) ==
  /\ registered < MaxRegistrations
  /\ LET current == {m \in ring : ~IsRotated(m)} IN
     ring' = {Entry(k, MaxAge)} \cup
       IF current = {} THEN ring
         ELSE (ring \ {First(current)}) \cup
                {[First(current) EXCEPT !.replacedBy = k, !.expires = now + Grace]}
  /\ registered' = registered + 1
  /\ UNCHANGED lost

(* rotate_key: the active key is marked, then the new one is registered.   *)
(* When that raises, the mark stays.                                       *)
RotateKey(k) ==
  \/ /\ k \in PublicKeys
     /\ registered < MaxRegistrations
     /\ ring' = RetireActive(k) \cup {Entry(k, MaxAge)}
     /\ registered' = registered + 1
     /\ UNCHANGED lost
  \/ /\ k = Malformed
     /\ Active # {}
     /\ ring' = RetireActive(k)
     /\ lost' = TRUE
     /\ UNCHANGED registered

Purged == {m \in ring : ~IsExpired(m)}

PurgeExpired ==
  /\ Purged # ring
  /\ ring' = Purged
  /\ UNCHANGED <<registered, lost>>

KeyTrustNext ==
  \/ Tick /\ UNCHANGED keyVars
  \/ UNCHANGED now /\ \E k \in PublicKeys, age \in Ages \cup {MaxAge} : RegisterKey(k, age)
  \/ UNCHANGED now /\ \E k \in PublicKeys \cup {Malformed} : RotateKey(k)
  \/ UNCHANGED now /\ PurgeExpired

KeyTrustSpec == ClockInit /\ KeyTrustInit /\ [][KeyTrustNext]_<<now, keyVars>>

-----------------------------------------------------------------------------
(* Rotation leaves no gap.  A peer that was told of one can use either     *)
(* key: while a rotated key still verifies messages, so does the successor *)
(* it names, however often that one has been rotated, expired or purged    *)
(* since; and a DID whose messages are accepted has a current key, which   *)
(* get_trusted_key finds.  (Unless a rotation was refused halfway.)        *)
RotationLeavesNoGap ==
  ~lost =>
    /\ \A m \in ring : IsRotated(m) /\ ~IsExpired(m) => Verifies(m.replacedBy)
    /\ (\E k \in PublicKeys : Verifies(k)) => GetTrustedKey # {}

(* A key whose messages are refused stays refused until it is registered   *)
(* again: neither the grace period of a later rotation nor a purge brings  *)
(* it back.                                                                *)
NoRevival ==
  [][\A k \in PublicKeys :
       ~Verifies(k) /\ Verifies(k)' =>
         \E m \in ring' : m.nth > registered /\ m.key = k]_<<now, keyVars>>
=============================================================================
