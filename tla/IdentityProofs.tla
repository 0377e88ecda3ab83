--------------------------- MODULE IdentityProofs ---------------------------
(***************************************************************************)
(* Proofs about whom an agent trusts and why: the ring of trusted keys,    *)
(* credentials, runtime grants of capabilities and the lineage of an       *)
(* identity; and where it is found and reached: the heartbeats, the        *)
(* failover of HubCluster.send, the directory and its cache, the discovery *)
(* of a hub by DNS and well-known files, and the pages of the public       *)
(* registry.  For every set of keys, issuers, agents, hubs and clients.    *)
(***************************************************************************)
EXTENDS KeyTrust, Credentials, Autonomy, Migration, Heartbeat, HubCluster, DiscoveryCache,
        DnsDiscovery, Registry, SequenceTheorems, FiniteSetTheorems, WellFoundedInduction, TLAPS

KeyMetadata ==
  [nth : Nat, key : PublicKeys, expires : Nat,
   replacedBy : PublicKeys \cup {Malformed, NotReplaced}]

\* Types; what is numbered was registered.
RingTypeOK ==
  /\ now \in Nat
  /\ registered \in Nat
  /\ lost \in BOOLEAN
  /\ ring \subseteq KeyMetadata
  /\ \A m \in ring : m.nth <= registered

(***************************************************************************)
(* The strengthening.  A key on its way out lasts no longer than the grace *)
(* period from now; its successor's entry outlasts it, rotated or not; and *)
(* so does an entry that nobody has rotated.                               *)
(***************************************************************************)
Covered(m) ==
  /\ m.expires <= now + Grace
  /\ \E e \in ring : e.key = m.replacedBy /\ m.expires <= e.expires
  /\ \E e \in ring : ~IsRotated(e) /\ m.expires <= e.expires

KeyInv ==
  /\ RingTypeOK
  /\ ~lost => \A m \in ring : IsRotated(m) => Covered(m)

(***************************************************************************)
(* The first entry of a part of the list is one of it: numbers below a     *)
(* bound have a greatest one.                                              *)
(***************************************************************************)
LEMMA FirstIsOne ==
  ASSUME RingTypeOK, NEW S \in SUBSET ring, S # {}
  PROVE  First(S) \in S
<1> DEFINE Below == {registered - m.nth : m \in S}
<1>1. \A m \in S : m.nth \in Nat /\ m.nth <= registered /\ registered - m.nth \in Nat
  BY DEF RingTypeOK, KeyMetadata
<1>2. Below \subseteq Nat /\ Below # {}
  BY <1>1
<1>3. PICK d \in Below : \A e \in Below : <<e, d>> \notin OpToRel(<, Nat)
  <2> HIDE DEF Below
  <2> QED
    BY <1>2, WFMin, NatLessThanWellFounded, Zenon
<1>4. \A e \in Below : ~(e < d)
  <2> HIDE DEF Below
  <2>1. d \in Nat /\ \A e \in Below : e \in Nat
    BY <1>2
  <2> QED
    BY <1>3, <2>1, Zenon DEF OpToRel
<1>5. PICK m \in S : d = registered - m.nth
  OBVIOUS
<1>6. \A other \in S : other.nth <= m.nth
  <2> TAKE other \in S
  <2>1. registered - other.nth \in Below
    OBVIOUS
  <2>2. ~(registered - other.nth < d)
    BY <1>4, <2>1
  <2> HIDE DEF Below
  <2> QED
    BY <1>1, <1>5, <2>2 DEF RingTypeOK
<1> QED
  BY <1>6 DEF First

\* A new entry is one; it lasts for the lifetime that was asked for.
LEMMA EntryIsOne ==
  ASSUME RingTypeOK, NEW k \in PublicKeys, NEW age \in Nat
  PROVE  /\ Entry(k, age) \in KeyMetadata
         /\ Entry(k, age).nth = registered + 1
         /\ Entry(k, age).key = k
         /\ Entry(k, age).expires = now + age
         /\ ~IsRotated(Entry(k, age))
BY KeyTrustAssumption DEF RingTypeOK, Entry, KeyMetadata, IsRotated

(***************************************************************************)
(* What marking the active key does: the list is as it was but for one key *)
(* that nobody had rotated, which keeps its number and is given no more    *)
(* time than it had.                                                       *)
(***************************************************************************)
LEMMA RetiresOne ==
  ASSUME RingTypeOK, NEW k \in PublicKeys \cup {Malformed}, Active # {}
  PROVE  \E m \in ring, r \in KeyMetadata :
           /\ RetireActive(k) = (ring \ {m}) \cup {r}
           /\ r.nth = m.nth /\ r.key = m.key /\ r.replacedBy = k
           /\ ~IsExpired(m) /\ ~IsRotated(m) /\ IsRotated(r)
           /\ r.expires <= m.expires /\ r.expires <= now + Grace
           /\ m.expires <= now + Grace => r.expires = m.expires
           /\ ~(m.expires <= now + Grace) => r.expires = now + Grace
<1>1. First(Active) \in Active
  BY FirstIsOne DEF Active
<1> DEFINE m == First(Active)
           r == Retired(m, k)
<1>2. m \in ring /\ ~IsExpired(m) /\ ~IsRotated(m)
  BY <1>1 DEF Active
<1>3. RetireActive(k) = (ring \ {m}) \cup {r}
  BY DEF RetireActive
<1> HIDE DEF m
<1>4. m \in KeyMetadata /\ now \in Nat
  BY <1>2 DEF RingTypeOK
<1>5. /\ r \in KeyMetadata
      /\ r.nth = m.nth /\ r.key = m.key /\ r.replacedBy = k
      /\ r.expires <= m.expires /\ r.expires <= now + Grace
      /\ m.expires <= now + Grace => r.expires = m.expires
      /\ ~(m.expires <= now + Grace) => r.expires = now + Grace
  <2> DEFINE time == IF m.expires < now + Grace THEN m.expires ELSE now + Grace
  <2>1. /\ m.expires \in Nat /\ time \in Nat
        /\ time <= m.expires /\ time <= now + Grace
        /\ m.expires <= now + Grace => time = m.expires
        /\ ~(m.expires <= now + Grace) => time = now + Grace
    BY <1>4, KeyTrustAssumption DEF KeyMetadata
  <2>2. r = [m EXCEPT !.replacedBy = k, !.expires = time]
    BY DEF Retired
  <2> HIDE DEF time, r
  <2> QED
    BY <1>4, <2>1, <2>2 DEF KeyMetadata
<1>6. IsRotated(r)
  BY <1>5, KeyTrustAssumption DEF IsRotated
<1> HIDE DEF r
<1> QED
  BY <1>2, <1>3, <1>5, <1>6

(***************************************************************************)
(* A rotated key that is covered stays so when time passes, and when every *)
(* entry that covered it is there, or one that lasts as long in its place. *)
(***************************************************************************)
LEMMA StaysCovered ==
  ASSUME NEW m, Covered(m), m.expires \in Nat, now \in Nat, now' \in Nat, now <= now',
         \A e \in ring : e.expires >= m.expires =>
            /\ \E f \in ring' : f.key = e.key /\ m.expires <= f.expires
            /\ ~IsRotated(e) => \E f \in ring' : ~IsRotated(f) /\ m.expires <= f.expires,
         \A e \in ring : e.expires \in Nat
  PROVE  Covered(m)'
<1>1. m.expires <= now' + Grace
  BY KeyTrustAssumption DEF Covered
<1>2. \E f \in ring' : f.key = m.replacedBy /\ m.expires <= f.expires
  BY DEF Covered
<1>3. \E f \in ring' : ~IsRotated(f) /\ m.expires <= f.expires
  BY DEF Covered
<1> QED
  BY <1>1, <1>2, <1>3 DEF Covered, IsRotated

\* An added entry covers what was covered.
LEMMA AddKeepsInv ==
  ASSUME KeyInv, NEW k \in PublicKeys, NEW age \in Nat,
         ring' = ring \cup {Entry(k, age)}, registered' = registered + 1,
         UNCHANGED <<now, lost>>
  PROVE  KeyInv'
<1> DEFINE e == Entry(k, age)
<1>1. e \in KeyMetadata /\ e.nth = registered + 1 /\ ~IsRotated(e)
  BY EntryIsOne DEF KeyInv
<1> HIDE DEF e
<1>2. ring' = ring \cup {e}
  BY DEF e
<1>3. RingTypeOK'
  BY <1>1, <1>2 DEF KeyInv, RingTypeOK, KeyMetadata
<1>4. ASSUME ~lost, NEW m \in ring, IsRotated(m)
      PROVE  Covered(m)'
  <2>1. Covered(m) /\ now \in Nat /\ now' = now /\ m.expires \in Nat
    BY <1>4 DEF KeyInv, RingTypeOK, KeyMetadata
  <2>2. \A f \in ring : f.expires \in Nat /\ f \in ring'
    BY <1>2 DEF KeyInv, RingTypeOK, KeyMetadata
  <2> QED
    BY <2>1, <2>2, StaysCovered
<1> QED
  BY <1>1, <1>2, <1>3, <1>4 DEF KeyInv, IsRotated

\* So does a rotation: what the retired key covered, it still covers or the new key does.
LEMMA RotationKeepsInv ==
  ASSUME KeyInv, NEW k \in PublicKeys, Active # {},
         ring' = RetireActive(k) \cup {Entry(k, MaxAge)}, registered' = registered + 1,
         UNCHANGED <<now, lost>>
  PROVE  KeyInv'
<1>0. RingTypeOK /\ now \in Nat /\ registered \in Nat
  BY DEF KeyInv, RingTypeOK
<1> DEFINE e == Entry(k, MaxAge)
<1>1. /\ e \in KeyMetadata /\ e.nth = registered + 1 /\ e.key = k
      /\ e.expires = now + MaxAge /\ ~IsRotated(e)
  BY <1>0, EntryIsOne, KeyTrustAssumption
<1> HIDE DEF e
<1>2. PICK old \in ring, r \in KeyMetadata :
        /\ RetireActive(k) = (ring \ {old}) \cup {r}
        /\ r.nth = old.nth /\ r.key = old.key /\ r.replacedBy = k
        /\ ~IsExpired(old) /\ ~IsRotated(old) /\ IsRotated(r)
        /\ r.expires <= old.expires /\ r.expires <= now + Grace
        /\ old.expires <= now + Grace => r.expires = old.expires
        /\ ~(old.expires <= now + Grace) => r.expires = now + Grace
  BY <1>0, RetiresOne
<1>3. ring' = ((ring \ {old}) \cup {r}) \cup {e}
  BY <1>2 DEF e
<1>4. RingTypeOK'
  <2>1. ring' \subseteq KeyMetadata
    BY <1>0, <1>1, <1>2, <1>3 DEF RingTypeOK
  <2>2. \A m \in ring' : m.nth <= registered'
    BY <1>0, <1>1, <1>2, <1>3 DEF RingTypeOK, KeyMetadata
  <2> QED
    BY <1>0, <2>1, <2>2 DEF RingTypeOK
<1>5. now + Grace <= e.expires /\ e.expires \in Nat /\ r.expires \in Nat
  BY <1>0, <1>1, <1>2, KeyTrustAssumption DEF KeyMetadata
<1>6. ASSUME ~lost, NEW m \in ring, IsRotated(m)
      PROVE  Covered(m)'
  <2>1. Covered(m) /\ now' = now /\ m.expires \in Nat /\ m.expires <= now + Grace
    BY <1>6 DEF KeyInv, RingTypeOK, KeyMetadata, Covered
  <2>2. \A f \in ring : f.expires \in Nat
    BY <1>0 DEF RingTypeOK, KeyMetadata
  <2>3. m.expires <= e.expires /\ e \in ring' /\ ~IsRotated(e)
    BY <1>0, <1>1, <1>3, <1>5, <2>1, KeyTrustAssumption
  <2>4. ASSUME NEW f \in ring, f.expires >= m.expires
        PROVE  \E g \in ring' : g.key = f.key /\ m.expires <= g.expires
    <3>1. CASE f = old
      <4>1. m.expires <= r.expires
        BY <1>0, <1>2, <2>1, <2>2, <2>4, <3>1, KeyTrustAssumption
      <4> QED
        BY <1>2, <1>3, <3>1, <4>1
    <3>2. CASE f # old
      BY <1>3, <2>1, <2>2, <2>4, <3>2
    <3> QED
      BY <3>1, <3>2
  <2> QED
    BY <1>0, <2>1, <2>2, <2>3, <2>4, StaysCovered
<1>7. Covered(r)'
  <2>1. e \in ring' /\ e.key = r.replacedBy /\ r.expires <= e.expires /\ ~IsRotated(e)
    BY <1>0, <1>1, <1>2, <1>3, <1>5, KeyTrustAssumption
  <2> QED
    BY <1>2, <2>1 DEF Covered, IsRotated
<1> QED
  BY <1>1, <1>3, <1>4, <1>6, <1>7 DEF KeyInv, IsRotated

\* A rotation that is refused halfway only keeps the types.
LEMMA RefusalKeepsInv ==
  ASSUME KeyInv, Active # {}, ring' = RetireActive(Malformed), lost' = TRUE,
         UNCHANGED <<now, registered>>
  PROVE  KeyInv'
<1>1. PICK old \in ring, r \in KeyMetadata :
        ring' = (ring \ {old}) \cup {r} /\ r.nth = old.nth
  BY RetiresOne DEF KeyInv
<1>2. RingTypeOK'
  BY <1>1 DEF KeyInv, RingTypeOK
<1> QED
  BY <1>2 DEF KeyInv

\* A purge drops no entry that covers one that stays.
LEMMA PurgeKeepsInv ==
  ASSUME KeyInv, PurgeExpired, UNCHANGED now
  PROVE  KeyInv'
<1>1. RingTypeOK'
  BY DEF KeyInv, RingTypeOK, PurgeExpired, Purged
<1>2. ASSUME ~lost, NEW m \in ring', IsRotated(m)
      PROVE  Covered(m)'
  <2>1. m \in ring /\ ~IsExpired(m)
    BY <1>2 DEF PurgeExpired, Purged
  <2>2. Covered(m) /\ now \in Nat /\ now' = now /\ m.expires \in Nat
    BY <1>2, <2>1 DEF KeyInv, RingTypeOK, KeyMetadata
  <2>3. \A f \in ring : f.expires \in Nat
    BY DEF KeyInv, RingTypeOK, KeyMetadata
  <2>4. \A f \in ring : f.expires >= m.expires => f \in ring'
    BY <2>1, <2>2, <2>3 DEF PurgeExpired, Purged, IsExpired
  <2> QED
    BY <2>2, <2>3, <2>4, StaysCovered
<1> QED
  BY <1>1, <1>2 DEF KeyInv, PurgeExpired, IsRotated

\* Every step keeps the strengthened invariant.
LEMMA KeyInvStep == KeyInv /\ [KeyTrustNext]_<<now, keyVars>> => KeyInv'
<1> SUFFICES ASSUME KeyInv, [KeyTrustNext]_<<now, keyVars>> PROVE KeyInv'
  OBVIOUS
<1>1. CASE Tick /\ UNCHANGED keyVars
  <2>1. now \in Nat /\ now' = now + 1 /\ UNCHANGED <<ring, registered, lost>>
    BY <1>1 DEF Tick, keyVars, KeyInv, RingTypeOK
  <2>2. RingTypeOK'
    BY <2>1 DEF KeyInv, RingTypeOK
  <2>3. ASSUME ~lost, NEW m \in ring, IsRotated(m)
        PROVE  Covered(m)'
    <3>1. Covered(m) /\ \A f \in ring : f.expires \in Nat
      BY <2>3 DEF KeyInv, RingTypeOK, KeyMetadata
    <3> QED
      BY <2>1, <3>1, StaysCovered
  <2> QED
    BY <2>1, <2>2, <2>3 DEF KeyInv, IsRotated
<1>2. ASSUME UNCHANGED now, NEW k \in PublicKeys, NEW age \in Ages \cup {MaxAge},
             RegisterKey(k, age)
      PROVE  KeyInv'
  <2>1. age \in Nat
    BY KeyTrustAssumption
  <2> QED
    BY <1>2, <2>1, AddKeepsInv DEF RegisterKey
<1>3. ASSUME UNCHANGED now, NEW k \in PublicKeys \cup {Malformed}, RotateKey(k)
      PROVE  KeyInv'
  <2>1. CASE k \in PublicKeys /\ Active = {}
    <3>1. ring' = ring \cup {Entry(k, MaxAge)} /\ registered' = registered + 1 /\ lost' = lost
      BY <1>3, <2>1, KeyTrustAssumption DEF RotateKey, RetireActive
    <3> QED
      BY <1>3, <2>1, <3>1, AddKeepsInv, KeyTrustAssumption
  <2>2. CASE k \in PublicKeys /\ Active # {}
    <3>1. /\ ring' = RetireActive(k) \cup {Entry(k, MaxAge)}
          /\ registered' = registered + 1 /\ lost' = lost
      BY <1>3, <2>2, KeyTrustAssumption DEF RotateKey
    <3> QED
      BY <1>3, <2>2, <3>1, RotationKeepsInv
  <2>3. CASE k = Malformed
    <3>1. /\ Active # {} /\ ring' = RetireActive(Malformed)
          /\ lost' = TRUE /\ registered' = registered
      BY <1>3, <2>3, KeyTrustAssumption DEF RotateKey
    <3> QED
      BY <1>3, <3>1, RefusalKeepsInv
  <2> QED
    BY <2>1, <2>2, <2>3
<1>4. CASE UNCHANGED now /\ PurgeExpired
  BY <1>4, PurgeKeepsInv
<1>5. CASE UNCHANGED <<now, keyVars>>
  BY <1>5 DEF keyVars, KeyInv, RingTypeOK, Covered, IsRotated
<1> QED
  BY <1>1, <1>2, <1>3, <1>4, <1>5 DEF KeyTrustNext

\* The empty store satisfies the invariant.
LEMMA KeyInvInit == ClockInit /\ KeyTrustInit => KeyInv
<1> SUFFICES ASSUME ClockInit, KeyTrustInit PROVE KeyInv
  OBVIOUS
<1>1. now = 0 /\ registered = 0 /\ lost = FALSE /\ \A m : m \notin ring
  BY DEF ClockInit, KeyTrustInit
<1>2. RingTypeOK
  BY <1>1 DEF RingTypeOK
<1> QED
  BY <1>1, <1>2 DEF KeyInv

(* The inductive invariant of the store of trusted keys (key_trust.py),    *)
(* for any keys, lifetimes and grace periods.                              *)
THEOREM KeyTrustInvariance == KeyTrustSpec => []KeyInv
BY KeyInvInit, KeyInvStep, PTL DEF KeyTrustSpec

(* While a rotated key verifies messages its successor does, and while any *)
(* key does there is a current one (RotationLeavesNoGap).                  *)
THEOREM LeavesNoGap == KeyTrustSpec => []RotationLeavesNoGap
<1>1. KeyInv => RotationLeavesNoGap
  <2> SUFFICES ASSUME KeyInv, ~lost PROVE RotationLeavesNoGap
    BY DEF RotationLeavesNoGap
  <2>0. now \in Nat /\ \A m \in ring : m.expires \in Nat
    BY DEF KeyInv, RingTypeOK, KeyMetadata
  <2>1. ASSUME NEW m \in ring, IsRotated(m), ~IsExpired(m)
        PROVE  Verifies(m.replacedBy)
    BY <2>0, <2>1 DEF KeyInv, Covered, Verifies, IsExpired
  <2>2. ASSUME NEW m \in ring, ~IsExpired(m)
        PROVE  Active # {}
    BY <2>0, <2>2 DEF KeyInv, Covered, Active, IsExpired
  <2> QED
    BY <2>1, <2>2 DEF RotationLeavesNoGap, Verifies, GetTrustedKey
<1> QED
  BY <1>1, KeyTrustInvariance, PTL

(* No key that was refused is accepted again before it is registered again *)
(* (NoRevival): a rotation gives its key no more time than it had.         *)
THEOREM NeverRevives == KeyTrustSpec => NoRevival
<1> DEFINE Revived(k) ==
      ~Verifies(k) /\ Verifies(k)' => \E m \in ring' : m.nth > registered /\ m.key = k
<1>1. ASSUME KeyInv, [KeyTrustNext]_<<now, keyVars>>, NEW k \in PublicKeys
      PROVE  Revived(k)
  <2>0. /\ RingTypeOK /\ now \in Nat /\ registered \in Nat
        /\ \A m \in ring : m.expires \in Nat
    BY <1>1 DEF KeyInv, RingTypeOK, KeyMetadata
  <2>1. CASE ring' \subseteq ring /\ now' \in Nat /\ now <= now'
    BY <2>0, <2>1 DEF Verifies, IsExpired
  <2>2. ASSUME now' = now, NEW other \in PublicKeys, NEW age \in Nat,
               ring' = ring \cup {Entry(other, age)}
        PROVE  Revived(k)
    BY <2>0, <2>2, EntryIsOne DEF Verifies, IsExpired
  <2>3. ASSUME now' = now, NEW other \in PublicKeys \cup {Malformed}, Active # {},
               \/ ring' = RetireActive(other)
               \/ other \in PublicKeys /\ ring' = RetireActive(other) \cup {Entry(other, MaxAge)}
        PROVE  Revived(k)
    <3>1. PICK old \in ring, r \in KeyMetadata :
            /\ RetireActive(other) = (ring \ {old}) \cup {r}
            /\ r.key = old.key /\ r.expires <= old.expires
      BY <2>0, <2>3, RetiresOne
    <3>2. ~IsExpired(r) => ~IsExpired(old)
      BY <2>0, <3>1 DEF IsExpired, KeyMetadata
    <3>3. CASE ring' = RetireActive(other)
      BY <2>3, <3>1, <3>2, <3>3 DEF Verifies, IsExpired
    <3>4. CASE other \in PublicKeys /\ ring' = RetireActive(other) \cup {Entry(other, MaxAge)}
      <4>1. Entry(other, MaxAge).key = other /\ Entry(other, MaxAge).nth = registered + 1
        BY <2>0, <3>4, EntryIsOne, KeyTrustAssumption
      <4> QED
        BY <2>0, <2>3, <3>1, <3>2, <3>4, <4>1 DEF Verifies, IsExpired
    <3> QED
      BY <2>3, <3>3, <3>4
  <2>4. CASE Tick /\ UNCHANGED keyVars
    BY <2>0, <2>1, <2>4 DEF Tick, keyVars
  <2>5. ASSUME UNCHANGED now, NEW other \in PublicKeys, NEW age \in Ages \cup {MaxAge},
               RegisterKey(other, age)
        PROVE  Revived(k)
    BY <2>2, <2>5, KeyTrustAssumption DEF RegisterKey
  <2>6. ASSUME UNCHANGED now, NEW other \in PublicKeys \cup {Malformed}, RotateKey(other)
        PROVE  Revived(k)
    <3>1. CASE Active = {}
      BY <2>2, <2>6, <3>1, KeyTrustAssumption DEF RotateKey, RetireActive
    <3>2. CASE Active # {}
      BY <2>3, <2>6, <3>2 DEF RotateKey
    <3> QED
      BY <3>1, <3>2
  <2>7. CASE UNCHANGED now /\ PurgeExpired
    BY <2>0, <2>1, <2>7 DEF PurgeExpired, Purged
  <2>8. CASE UNCHANGED <<now, keyVars>>
    BY <2>0, <2>1, <2>8 DEF keyVars
  <2> HIDE DEF Revived
  <2> QED
    BY <1>1, <2>4, <2>5, <2>6, <2>7, <2>8 DEF KeyTrustNext
<1>2. KeyInv /\ [KeyTrustNext]_<<now, keyVars>> =>
        [\A k \in PublicKeys : Revived(k)]_<<now, keyVars>>
  BY <1>1
<1> QED
  BY <1>2, KeyTrustInvariance, PTL DEF KeyTrustSpec, NoRevival

-----------------------------------------------------------------------------
Signatures == [by : IssuerKeys, over : Nat \X Issuers \X Attestations \X Int]
CredentialSet ==
  [id : Nat, issuer : Issuers, attested : Attestations, expires : Int, signature : Signatures]

\* What is issued is signed with an issuer's key over itself; a copy has the
\* signature of something issued.
CredentialsInv ==
  /\ now \in Nat
  /\ IsFiniteSet(issued)
  /\ trustChain \in [Issuers -> IssuerKeys \cup {Untrusted}]
  /\ \A c \in issued :
       c.signature.by \in IssuerKeys /\ c.signature.over = Payload(c)
  /\ issued \cup copies \subseteq CredentialSet
  /\ issued \subseteq copies
  /\ \A c \in copies : \E o \in issued : o.signature = c.signature

\* Editing a copy leaves its signature alone.
LEMMA EditKeepsSignature ==
  ASSUME CredentialsInv, NEW c \in copies, NEW e \in Edited(c)
  PROVE  e \in CredentialSet /\ e.signature = c.signature
<1>1. c \in CredentialSet /\ issued \subseteq CredentialSet
  BY DEF CredentialsInv
<1>2. CASE \E a \in Attestations : e = [c EXCEPT !.attested = a]
  BY <1>1, <1>2 DEF CredentialSet
<1>3. CASE \E i \in Issuers : e = [c EXCEPT !.issuer = i]
  BY <1>1, <1>3 DEF CredentialSet
<1>4. CASE e = [c EXCEPT !.expires = LastTick]
  BY <1>1, <1>4, ClockAssumption DEF CredentialSet
<1>5. CASE \E other \in issued : e = [c EXCEPT !.id = other.id]
  BY <1>1, <1>5 DEF CredentialSet
<1> QED
  BY <1>2, <1>3, <1>4, <1>5 DEF Edited

\* What circulates stays tied to what was issued.
THEOREM CredentialsInvariance == CredentialsSpec => []CredentialsInv
<1>1. ClockInit /\ CredentialsInit => CredentialsInv
  BY FS_EmptySet DEF ClockInit, CredentialsInit, CredentialsInv
<1>2. CredentialsInv /\ [CredentialsNext]_<<now, credentialVars>> => CredentialsInv'
  <2> SUFFICES ASSUME CredentialsInv, [CredentialsNext]_<<now, credentialVars>>
               PROVE  CredentialsInv'
    OBVIOUS
  <2> USE DEF CredentialsInv
  <2>1. CASE UNCHANGED credentialVars /\ now' \in Nat
    BY <2>1 DEF credentialVars, Payload
  <2>2. ASSUME UNCHANGED <<now, issued, copies>>,
               trustChain' \in [Issuers -> IssuerKeys \cup {Untrusted}]
        PROVE  CredentialsInv'
    BY <2>2 DEF Payload
  <2>3. ASSUME NEW i \in Issuers, NEW key \in IssuerKeys, NEW attested \in Attestations,
               NEW lifetime \in Lifetimes, UNCHANGED now,
               IssueCredential(i, key, attested, lifetime)
        PROVE  CredentialsInv'
    <3> DEFINE body == [id |-> Cardinality(issued) + 1, issuer |-> i, attested |-> attested,
                        expires |-> now + lifetime]
               c == [id |-> body.id, issuer |-> i, attested |-> attested,
                     expires |-> body.expires,
                     signature |-> [by |-> key, over |-> Payload(body)]]
    <3>1. /\ issued' = issued \cup {c} /\ copies' = copies \cup {c}
          /\ UNCHANGED <<edits, trustChain, revokedIds>> /\ now + lifetime \in Nat
          /\ Cardinality(issued) \in Nat
      BY <2>3, CredentialsAssumption, FS_CardinalityType DEF IssueCredential
    <3>2. /\ c \in CredentialSet /\ c.signature.by = key
          /\ c.signature.over = Payload(c)
      BY <3>1 DEF CredentialSet, Signatures, Payload
    <3> HIDE DEF c
    <3>3. \A d : Payload(d)' = Payload(d)
      BY DEF Payload
    <3>4. IsFiniteSet(issued')
      BY <3>1, FS_AddElement
    <3> QED
      BY <2>3, <3>1, <3>2, <3>3, <3>4
  <2>4. ASSUME NEW c \in copies, EditCopy(c), UNCHANGED now
        PROVE  CredentialsInv'
    <3>1. PICK e \in Edited(c) : copies' = copies \cup {e}
      BY <2>4 DEF EditCopy
    <3>2. e \in CredentialSet /\ e.signature = c.signature
      BY <3>1, EditKeepsSignature
    <3> QED
      BY <2>4, <3>1, <3>2 DEF EditCopy, Payload
  <2>5. ASSUME UNCHANGED now,
               \/ \E i \in Issuers, key \in IssuerKeys : TrustIssuer(i, key)
               \/ \E i \in Issuers : UntrustIssuer(i)
               \/ \E c \in copies : RevokeCredential(c)
        PROVE  CredentialsInv'
    BY <2>2, <2>5 DEF TrustIssuer, UntrustIssuer, RevokeCredential
  <2> QED
    BY <2>1, <2>3, <2>4, <2>5 DEF CredentialsNext, Tick, credentialVars
<1> QED
  BY <1>1, <1>2, PTL DEF CredentialsSpec

(***************************************************************************)
(* The verifier accepts a copy just when it is as it was issued: of what   *)
(* was issued something has its signature, which is made over all that a   *)
(* credential says.                                                        *)
(***************************************************************************)
THEOREM AcceptsWhatIsAttested == CredentialsSpec => []AcceptsAsIssued
<1>1. ASSUME CredentialsInv
      PROVE  AcceptsAsIssued
  <2> SUFFICES ASSUME NEW c \in copies
               PROVE  VerifyFromChain(c) <=>
                        /\ c \in issued /\ c.signature.by = trustChain[c.issuer]
                        /\ now <= c.expires
                        /\ c.id \notin revokedIds
    BY DEF AcceptsAsIssued
  <2>1. c \in CredentialSet /\ issued \subseteq CredentialSet
    BY <1>1 DEF CredentialsInv
  <2>2. ASSUME VerifyFromChain(c)
        PROVE  /\ c \in issued /\ c.signature.by = trustChain[c.issuer]
               /\ now <= c.expires
               /\ c.id \notin revokedIds
    <3>1. PICK o \in issued : o.signature = c.signature
      BY <1>1 DEF CredentialsInv
    <3>2. Payload(o) = Payload(c)
      BY <1>1, <2>2, <3>1 DEF CredentialsInv, VerifyFromChain, VerifyCredential
    <3>3. o = c
      BY <2>1, <3>1, <3>2 DEF Payload, CredentialSet
    <3> QED
      BY <2>2, <3>1, <3>3 DEF VerifyFromChain, VerifyCredential
  <2>3. ASSUME c \in issued, c.signature.by = trustChain[c.issuer],
               now <= c.expires, c.id \notin revokedIds
        PROVE  VerifyFromChain(c)
    <3>1. c.signature.by \in IssuerKeys /\ c.signature.over = Payload(c)
      BY <1>1, <2>3 DEF CredentialsInv
    <3>2. c.signature = [by |-> trustChain[c.issuer], over |-> Payload(c)]
      BY <2>1, <2>3, <3>1 DEF CredentialSet, Signatures
    <3> QED
      BY <2>3, <3>1, <3>2, CredentialsAssumption DEF VerifyFromChain, VerifyCredential
  <2> QED
    BY <2>2, <2>3
<1> QED
  BY <1>1, CredentialsInvariance, PTL

-----------------------------------------------------------------------------
RuntimeTokens ==
  [grantee : Agents, capabilities : Offers, level : Levels, expiresAt : Nat,
   revoked : BOOLEAN]

(***************************************************************************)
(* The two tables of grants: a token that is there is its grant, revoked   *)
(* if the grant was withdrawn, and in the list of its grantee; a grant     *)
(* whose token is gone is over.                                            *)
(***************************************************************************)
GrantsTypeOK ==
  /\ now \in Nat
  /\ tokens \in [DOMAIN tokens -> RuntimeTokens]
  /\ granted \in [DOMAIN granted -> RuntimeTokens]
  /\ DOMAIN tokens \subseteq DOMAIN granted
  /\ byGrantee \in [Agents -> SUBSET (DOMAIN tokens)]
  /\ withdrawn \subseteq DOMAIN granted

AsGranted(i) ==
  /\ tokens[i].grantee = granted[i].grantee
  /\ tokens[i].capabilities = granted[i].capabilities
  /\ tokens[i].level = granted[i].level
  /\ tokens[i].expiresAt = granted[i].expiresAt
  /\ tokens[i].revoked <=> i \in withdrawn

AutonomyInv ==
  /\ GrantsTypeOK
  /\ \A i \in DOMAIN tokens : AsGranted(i)
  /\ \A i \in DOMAIN granted \ DOMAIN tokens : ~InForce(i)
  /\ \A a \in Agents : byGrantee[a] = {i \in DOMAIN tokens : granted[i].grantee = a}

\* A token counts just when its grant is in force.
LEMMA ValidInForce ==
  ASSUME AutonomyInv, NEW i \in DOMAIN tokens
  PROVE  Valid(tokens[i]) <=> InForce(i)
<1>1. /\ AsGranted(i) /\ tokens[i].expiresAt \in Nat /\ now \in Nat
      /\ tokens[i].revoked \in BOOLEAN
  BY DEF AutonomyInv, GrantsTypeOK, RuntimeTokens
<1> QED
  BY <1>1 DEF AsGranted, Valid, InForce

\* The tables of autonomy.py stay tied to the grants.
THEOREM AutonomyInvariance == AutonomySpec => []AutonomyInv
<1>1. ClockInit /\ AutonomyInit => AutonomyInv
  BY DEF ClockInit, AutonomyInit, AutonomyInv, GrantsTypeOK
<1>2. AutonomyInv /\ [AutonomyNext]_<<now, autonomyVars>> => AutonomyInv'
  <2> SUFFICES ASSUME AutonomyInv, [AutonomyNext]_<<now, autonomyVars>>
               PROVE  AutonomyInv'
    OBVIOUS
  <2>1. GrantsTypeOK
    BY DEF AutonomyInv
  <2>2. CASE UNCHANGED autonomyVars /\ now' \in Nat /\ now' >= now
    <3>1. GrantsTypeOK'
      BY <2>1, <2>2 DEF autonomyVars, GrantsTypeOK
    <3>2. ASSUME NEW i \in DOMAIN granted \ DOMAIN tokens
          PROVE  ~InForce(i)'
      <4>1. ~InForce(i) /\ granted[i].expiresAt \in Nat /\ now \in Nat
        BY <2>1 DEF AutonomyInv, GrantsTypeOK, RuntimeTokens
      <4> QED
        BY <2>2, <4>1 DEF InForce, autonomyVars
    <3> QED
      BY <2>2, <3>1, <3>2 DEF autonomyVars, AutonomyInv, AsGranted
  <2>3. ASSUME NEW i \in TokenIds, NEW a \in Agents, NEW offer \in Offers,
               NEW level \in Levels, NEW ttl \in Ttls,
               UNCHANGED now, Grant(i, a, offer, level, ttl)
        PROVE  AutonomyInv'
    <3> DEFINE t == [grantee |-> a, capabilities |-> offer, level |-> level,
                     expiresAt |-> IF ttl > 0 THEN now + ttl ELSE 0, revoked |-> FALSE]
    <3>1. /\ i \notin DOMAIN granted /\ i \notin DOMAIN tokens /\ i \notin withdrawn
          /\ tokens' = [j \in DOMAIN tokens \cup {i} |-> IF j = i THEN t ELSE tokens[j]]
          /\ byGrantee' = [byGrantee EXCEPT ![a] = @ \cup {i}]
          /\ granted' = [j \in DOMAIN granted \cup {i} |-> IF j = i THEN t ELSE granted[j]]
          /\ UNCHANGED withdrawn
      BY <2>1, <2>3 DEF Grant, GrantsTypeOK
    <3>2. t \in RuntimeTokens /\ t.grantee = a /\ ~t.revoked
      BY <2>1, AutonomyAssumption DEF RuntimeTokens, GrantsTypeOK
    <3> HIDE DEF t
    <3>3. /\ DOMAIN tokens' = DOMAIN tokens \cup {i}
          /\ DOMAIN granted' = DOMAIN granted \cup {i}
          /\ tokens'[i] = t /\ granted'[i] = t
          /\ \A j \in DOMAIN tokens : j # i /\ tokens'[j] = tokens[j]
          /\ \A j \in DOMAIN granted : j # i /\ granted'[j] = granted[j]
      BY <3>1
    <3>4. GrantsTypeOK'
      <4>1. /\ tokens' \in [DOMAIN tokens' -> RuntimeTokens]
            /\ granted' \in [DOMAIN granted' -> RuntimeTokens]
        BY <2>1, <3>1, <3>2 DEF GrantsTypeOK
      <4>2. byGrantee' \in [Agents -> SUBSET (DOMAIN tokens')]
        BY <2>1, <3>1, <3>3 DEF GrantsTypeOK
      <4> QED
        BY <2>1, <2>3, <3>1, <3>3, <4>1, <4>2 DEF GrantsTypeOK
    <3>5. ASSUME NEW j \in DOMAIN tokens'
          PROVE  AsGranted(j)'
      BY <2>1, <3>1, <3>2, <3>3 DEF AutonomyInv, AsGranted, GrantsTypeOK
    <3>6. ASSUME NEW j \in DOMAIN granted' \ DOMAIN tokens'
          PROVE  ~InForce(j)'
      BY <2>3, <3>1, <3>3 DEF AutonomyInv, InForce
    <3>7. ASSUME NEW b \in Agents
          PROVE  byGrantee'[b] = {j \in DOMAIN tokens' : granted'[j].grantee = b}
      <4>1. \A j \in DOMAIN tokens : granted'[j] = granted[j]
        BY <2>1, <3>3 DEF GrantsTypeOK
      <4>2. byGrantee'[b] = IF b = a THEN byGrantee[b] \cup {i} ELSE byGrantee[b]
        BY <2>1, <3>1 DEF GrantsTypeOK
      <4>3. byGrantee[b] = {j \in DOMAIN tokens : granted[j].grantee = b}
        BY DEF AutonomyInv
      <4> QED
        BY <3>2, <3>3, <4>1, <4>2, <4>3
    <3> QED
      BY <3>4, <3>5, <3>6, <3>7 DEF AutonomyInv
  <2>4. ASSUME NEW i, UNCHANGED now, Revoke(i)
        PROVE  AutonomyInv'
    <3>1. /\ i \in DOMAIN tokens /\ tokens[i] \in RuntimeTokens
          /\ withdrawn' = withdrawn \cup {i} /\ UNCHANGED <<byGrantee, granted>>
      BY <2>1, <2>4 DEF Revoke, GrantsTypeOK
    <3> DEFINE t == [tokens[i] EXCEPT !.revoked = TRUE]
    <3>2. tokens' = [tokens EXCEPT ![i] = t]
      BY <2>4 DEF Revoke
    <3>3. /\ t \in RuntimeTokens /\ t.revoked
          /\ t.grantee = tokens[i].grantee /\ t.capabilities = tokens[i].capabilities
          /\ t.level = tokens[i].level /\ t.expiresAt = tokens[i].expiresAt
      BY <3>1 DEF RuntimeTokens
    <3> HIDE DEF t
    <3>4. /\ DOMAIN tokens' = DOMAIN tokens /\ tokens'[i] = t
          /\ \A j \in DOMAIN tokens \ {i} : tokens'[j] = tokens[j]
      BY <3>1, <3>2
    <3>5. GrantsTypeOK'
      BY <2>1, <2>4, <3>1, <3>2, <3>3, <3>4 DEF GrantsTypeOK
    <3>6. ASSUME NEW j \in DOMAIN tokens
          PROVE  AsGranted(j)'
      BY <3>1, <3>3, <3>4 DEF AutonomyInv, AsGranted
    <3>7. ASSUME NEW j \in DOMAIN granted \ DOMAIN tokens
          PROVE  ~InForce(j)'
      BY <2>4, <3>1 DEF AutonomyInv, InForce
    <3> QED
      BY <3>1, <3>4, <3>5, <3>6, <3>7 DEF AutonomyInv
  <2>5. CASE UNCHANGED now /\ CleanupExpired
    <3> DEFINE left == DOMAIN tokens \ CleanUp
    <3>1. /\ tokens' = [i \in left |-> tokens[i]]
          /\ byGrantee' = [a \in Agents |-> byGrantee[a] \ CleanUp]
          /\ UNCHANGED <<now, granted, withdrawn>>
      BY <2>5 DEF CleanupExpired, Restrict
    <3>2. DOMAIN tokens' = left /\ \A i \in left : tokens'[i] = tokens[i]
      BY <3>1
    <3>3. GrantsTypeOK'
      <4>1. byGrantee' \in [Agents -> SUBSET left]
        BY <2>1, <3>1 DEF GrantsTypeOK
      <4>2. tokens' \in [left -> RuntimeTokens]
        BY <2>1, <3>1 DEF GrantsTypeOK
      <4> QED
        BY <2>1, <3>1, <3>2, <4>1, <4>2 DEF GrantsTypeOK
    <3>4. ASSUME NEW i \in left
          PROVE  AsGranted(i)'
      BY <3>1, <3>2 DEF AutonomyInv, AsGranted
    <3>5. ASSUME NEW i \in DOMAIN granted \ left
          PROVE  ~InForce(i)'
      <4>1. ~InForce(i)
        BY ValidInForce DEF AutonomyInv, CleanUp
      <4> QED
        BY <3>1, <4>1 DEF InForce
    <3> QED
      BY <3>1, <3>2, <3>3, <3>4, <3>5 DEF AutonomyInv
  <2>6. Tick => now' \in Nat /\ now' >= now
    BY <2>1 DEF Tick, GrantsTypeOK
  <2> QED
    BY <2>1, <2>2, <2>3, <2>4, <2>5, <2>6 DEF AutonomyNext, GrantsTypeOK, autonomyVars
<1> QED
  BY <1>1, <1>2, PTL DEF AutonomySpec

(***************************************************************************)
(* What an agent may do, and how far it is trusted, is as its grants say.  *)
(***************************************************************************)
THEOREM AnswersByTheGrants == AutonomySpec => []AnswersAsGranted
<1>1. ASSUME AutonomyInv
      PROVE  AnswersAsGranted
  <2> SUFFICES ASSUME NEW a \in Agents
               PROVE  /\ \A c \in Capabilities, min \in Levels :
                           IsAuthorized(a, c, min) <=>
                             \E i \in GrantsTo(a) :
                               /\ {c, Anything} \cap granted[i].capabilities # {}
                               /\ granted[i].level >= min
                      /\ AutonomyLevel(a) = Max({Watch} \cup {granted[i].level : i \in GrantsTo(a)})
    BY DEF AnswersAsGranted
  <2> DEFINE mine == byGrantee[a]
  <2>1. /\ mine = {i \in DOMAIN tokens : granted[i].grantee = a}
        /\ mine \cap DOMAIN tokens = mine
    BY <1>1 DEF AutonomyInv
  <2>2. GrantsTo(a) = {i \in mine : Valid(tokens[i])}
    BY <1>1, <2>1, ValidInForce DEF GrantsTo, AutonomyInv, GrantsTypeOK
  <2>3. \A i \in mine : /\ tokens[i].capabilities = granted[i].capabilities
                        /\ tokens[i].level = granted[i].level
    BY <1>1, <2>1 DEF AutonomyInv, AsGranted
  <2>4. TokensOf(a) = {tokens[i] : i \in mine}
    BY <2>1 DEF TokensOf
  <2> HIDE DEF mine
  <2>5. {t.level : t \in {u \in TokensOf(a) : Valid(u)}} = {granted[i].level : i \in GrantsTo(a)}
    BY <2>2, <2>3, <2>4
  <2>6. AutonomyLevel(a) = Max({Watch} \cup {granted[i].level : i \in GrantsTo(a)})
    BY <2>5, Zenon DEF AutonomyLevel
  <2>7. ASSUME NEW c \in Capabilities, NEW min \in Levels
        PROVE  IsAuthorized(a, c, min) <=>
                 \E i \in GrantsTo(a) :
                   /\ {c, Anything} \cap granted[i].capabilities # {}
                   /\ granted[i].level >= min
    BY <2>2, <2>3, <2>4 DEF IsAuthorized, Allows
  <2> QED
    BY <2>6, <2>7
<1> QED
  BY <1>1, AutonomyInvariance, PTL

-----------------------------------------------------------------------------
Identities ==
  [did : [method : {"key", "roar", "web"}, n : Nat, at : {"home"}], key : Nat]

(***************************************************************************)
(* The agent is what it has been, in memory, in the file and in what is    *)
(* being written to it; what the migrator has returned follows, by its     *)
(* proof, on something the agent has been; and whatever it has been is     *)
(* reached from its origin.                                                *)
(***************************************************************************)
MigrationInv ==
  /\ fresh \in Nat
  /\ held \subseteq Identities
  /\ Origin \in held
  /\ identity # NoIdentity => identity \in held
  /\ file # NoIdentity => file.content \in held
  /\ writing # NoIdentity => writing.content \in held
  /\ \A r \in returned : r.identity # NoIdentity =>
       r.identity \in Identities /\ \E i \in held : TakesTo(i, r.proof, r.identity)
  /\ LineageIntact

\* A call returns what follows on the identity it was given.
LEMMA ReturnsWhatFollows ==
  ASSUME MigrationInv, fresh' \in Nat, NEW j, NEW p, GivesBack(j, p),
         j # NoIdentity => j \in Identities /\ \E i \in held : TakesTo(i, p, j)
  PROVE  MigrationInv'
<1>1. /\ returned' = returned \cup {[identity |-> j, proof |-> p]}
      /\ UNCHANGED <<identity, file, writing, held, proofs>>
  BY DEF GivesBack
<1>2. \A r \in returned' : r.identity # NoIdentity =>
        r.identity \in Identities /\ \E i \in held' : TakesTo(i, r.proof, r.identity)'
  <2> SUFFICES ASSUME NEW r \in returned', r.identity # NoIdentity
               PROVE  r.identity \in Identities /\ \E i \in held : TakesTo(i, r.proof, r.identity)
    BY <1>1 DEF TakesTo, VerifyMigration, DidKey, Did
  <2>1. CASE r \in returned
    BY <2>1 DEF MigrationInv
  <2>2. CASE r = [identity |-> j, proof |-> p]
    <3>1. r.identity = j /\ r.proof = p
      BY <2>2
    <3> QED
      BY <3>1
  <2> QED
    BY <1>1, <2>1, <2>2
<1>3. LineageIntact'
  <2>1. \A a, b : LeadsTo(a, b)' <=> LeadsTo(a, b)
    BY <1>1 DEF LeadsTo, TakesTo, VerifyMigration, DidKey, Did
  <2> QED
    BY <1>1, <2>1 DEF MigrationInv, LineageIntact, Origin, DidRoar, Did
<1> QED
  BY <1>1, <1>2, <1>3 DEF MigrationInv

\* Taking up what a published proof leads to keeps the lineage whole.
LEMMA FollowsOn ==
  ASSUME MigrationInv, NEW r \in returned, TakeUp(r)
  PROVE  MigrationInv'
<1> DEFINE j == r.identity
<1>1. /\ identity' = j /\ held' = held \cup {j} /\ returned' \subseteq returned
      /\ r.proof \in proofs /\ j # NoIdentity /\ UNCHANGED <<fresh, file, writing, proofs>>
  BY DEF TakeUp
<1>2. j \in Identities
  BY <1>1 DEF MigrationInv
<1>3. PICK i \in held : TakesTo(i, r.proof, j)
  BY <1>1 DEF MigrationInv
<1>4. LeadsTo(i, j)
  BY <1>1, <1>3 DEF LeadsTo
<1> HIDE DEF j
<1>5. \A a, b : LeadsTo(a, b)' <=> LeadsTo(a, b)
  BY <1>1 DEF LeadsTo, TakesTo, VerifyMigration, DidKey, Did
<1>6. LineageIntact'
  <2> SUFFICES ASSUME NEW known \in SUBSET held', Origin \in known,
                      \A a \in known, b \in held' : LeadsTo(a, b)' => b \in known
               PROVE  known = held'
    BY DEF LineageIntact, Origin, DidRoar, Did
  <2> DEFINE before == known \cap held
  <2>1. \A a \in before, b \in held : LeadsTo(a, b) => b \in before
    BY <1>1, <1>5
  <2>2. before = held
    BY <2>1 DEF MigrationInv, LineageIntact
  <2>3. j \in known
    BY <1>1, <1>3, <1>4, <1>5, <2>2
  <2> QED
    BY <1>1, <2>2, <2>3
<1>7. \A q \in returned' : q.identity # NoIdentity =>
        q.identity \in Identities /\ \E a \in held' : TakesTo(a, q.proof, q.identity)'
  <2>1. \A q \in returned : q.identity # NoIdentity =>
          q.identity \in Identities /\ \E a \in held : TakesTo(a, q.proof, q.identity)
    BY DEF MigrationInv
  <2>2. \A a, q, b : TakesTo(a, q, b)' <=> TakesTo(a, q, b)
    BY DEF TakesTo, VerifyMigration, DidKey, Did
  <2> QED
    BY <1>1, <2>1, <2>2
<1> QED
  BY <1>1, <1>2, <1>6, <1>7 DEF MigrationInv, Origin, DidRoar, Did

\* The agent never leaves its lineage.
THEOREM MigrationInvariance == MigrationSpec => []MigrationInv
<1>1. MigrationInit => MigrationInv
  <2> SUFFICES ASSUME MigrationInit
               PROVE  MigrationInv
    OBVIOUS
  <2>1. Origin \in Identities
    BY DEF Origin, DidRoar, Did, Identities
  <2>2. LineageIntact
    BY DEF MigrationInit, LineageIntact
  <2> QED
    BY <2>1, <2>2 DEF MigrationInit, MigrationInv
<1>2. MigrationInv /\ [MigrationNext]_migrationVars => MigrationInv'
  <2> SUFFICES ASSUME MigrationInv, [MigrationNext]_migrationVars
               PROVE  MigrationInv'
    OBVIOUS
  <2>1. fresh \in Nat /\ (Running => identity \in held /\ identity \in Identities)
    BY DEF MigrationInv, Running
  <2>2. ASSUME UNCHANGED <<fresh, held>>, returned' \subseteq returned, proofs \subseteq proofs',
               identity' # NoIdentity => identity' \in held,
               file' # NoIdentity => file'.content \in held,
               writing' # NoIdentity => writing'.content \in held
        PROVE  MigrationInv'
    <3>1. ASSUME NEW a, NEW b, LeadsTo(a, b)
          PROVE  LeadsTo(a, b)'
      BY <2>2, <3>1 DEF LeadsTo, TakesTo, VerifyMigration, DidKey, Did
    <3>2. LineageIntact'
      BY <2>2, <3>1 DEF MigrationInv, LineageIntact
    <3>3. \A a, q, b : TakesTo(a, q, b)' <=> TakesTo(a, q, b)
      BY DEF TakesTo, VerifyMigration, DidKey, Did
    <3> QED
      BY <2>2, <3>2, <3>3 DEF MigrationInv
  <2>3. ASSUME NEW did, MigrateDidMethod(did)
        PROVE  MigrationInv'
    <3> DEFINE j == [did |-> did, key |-> identity.key]
               p == Proof(identity.did, did, "did_method_change", identity.key)
    <3>1. Running /\ GivesBack(j, p)
      BY <2>3 DEF MigrateDidMethod
    <3>2. did \in {DidKey(identity.key), DidWeb, DidRoar(fresh + 1)} /\ fresh' \in Nat
      BY <2>1, <2>3 DEF MigrateDidMethod
    <3>3. j \in Identities
      BY <2>1, <3>1, <3>2 DEF Identities, DidKey, DidWeb, DidRoar, Did
    <3>4. TakesTo(identity, p, j)
      BY DEF TakesTo, Proof, VerifyMigration
    <3> HIDE DEF j, p
    <3> QED
      BY <2>1, <3>1, <3>2, <3>3, <3>4, ReturnsWhatFollows
  <2>4. CASE RotateKeys
    <3> DEFINE did == IF identity.did.method = "key" THEN DidKey(fresh + 1) ELSE identity.did
               j == [did |-> did, key |-> fresh + 1]
               p == Proof(identity.did, did, "key_rotation", identity.key)
    <3>1. Running /\ fresh' = fresh + 1 /\ GivesBack(j, p)
      BY <2>4 DEF RotateKeys
    <3>2. j \in Identities
      BY <2>1, <3>1 DEF Identities, DidKey, Did
    <3>3. TakesTo(identity, p, j)
      BY DEF TakesTo, Proof, VerifyMigration
    <3> HIDE DEF j, p
    <3> QED
      BY <2>1, <3>1, <3>2, <3>3, ReturnsWhatFollows
  <2>5. CASE TransferToHub
    <3>1. PICK p : GivesBack(NoIdentity, p)
      BY <2>5 DEF TransferToHub
    <3>2. fresh' \in Nat
      BY <2>1, <2>5 DEF TransferToHub
    <3> QED
      BY <3>1, <3>2, ReturnsWhatFollows
  <2>6. ASSUME NEW pass, OpenExport(pass)
        PROVE  MigrationInv'
    <3>1. writing'.content = identity
      BY <2>6 DEF OpenExport
    <3> QED
      BY <2>2, <2>6, <3>1 DEF OpenExport, Running, MigrationInv
  <2>7. ASSUME NEW pass, ImportIdentity(pass)
        PROVE  MigrationInv'
    BY <2>2, <2>7 DEF ImportIdentity, MigrationInv
  <2>8. CASE WriteExport
    BY <2>2, <2>8 DEF WriteExport, MigrationInv
  <2>9. CASE Crash
    BY <2>2, <2>9 DEF Crash, MigrationInv
  <2>10. CASE UNCHANGED migrationVars
    BY <2>2, <2>10 DEF migrationVars, MigrationInv
  <2>11. ASSUME NEW r \in returned, PublishProof(r)
         PROVE  MigrationInv'
    BY <2>2, <2>11 DEF PublishProof, MigrationInv
  <2>12. ASSUME NEW r \in returned, TakeUp(r)
         PROVE  MigrationInv'
    BY <2>12, FollowsOn
  <2> QED
    BY <2>3, <2>4, <2>5, <2>6, <2>7, <2>8, <2>9, <2>10, <2>11, <2>12 DEF MigrationNext
<1> QED
  BY <1>1, <1>2, PTL DEF MigrationSpec

(***************************************************************************)
(* Whoever knew the agent at first can follow it to all it has been.       *)
(***************************************************************************)
THEOREM KeepsLineage == MigrationSpec => []LineageIntact
<1>1. MigrationInv => LineageIntact
  BY DEF MigrationInv
<1> QED
  BY <1>1, MigrationInvariance, PTL

(***************************************************************************)
(* The heartbeats                                                          *)
(***************************************************************************)

\* The longest time from one post to the next.
Round == Interval + PostTimeout

HeartbeatTypeOK ==
  /\ now \in Nat
  /\ loop \in [Beating -> [doing : {"off", "posting", "answering", "sleeping"}, until : Nat]]
  /\ lostRow \in [Beating -> 0 .. MaxLost]
  /\ firstTry \subseteq Beating
  /\ late \subseteq Beating
  /\ \A a \in DOMAIN pulse : pulse[a] \in Nat /\ pulse[a] <= now
  /\ \A a \in Beating : loop[a].doing = "posting" =>
       now <= loop[a].until /\ loop[a].until <= now + PostTimeout

(***************************************************************************)
(* The strengthening: for an agent whose beats come through, the answer to *)
(* the last one may have taken a post, each beat that was lost since then  *)
(* has cost one round, and what its loop does now ends within the round    *)
(* that follows.                                                           *)
(***************************************************************************)
OnTime(a) ==
  /\ a \in DOMAIN pulse
  /\ loop[a] # Off
  /\ now <= loop[a].until
  /\ loop[a].doing = "answering" => loop[a].until <= pulse[a] + PostTimeout /\ lostRow[a] = 0
  /\ loop[a].doing = "posting" => loop[a].until <= pulse[a] + lostRow[a] * Round + Round + PostTimeout
  /\ loop[a].doing = "sleeping" => loop[a].until <= pulse[a] + lostRow[a] * Round + Round
  /\ loop[a].doing # "off"

TimeoutOutlasts == (MaxLost + 1) * Round + PostTimeout < Timeout

HeartbeatInv ==
  /\ HeartbeatTypeOK
  /\ TimeoutOutlasts => \A a \in firstTry : OnTime(a)

\* Losses within the bound cost no more than the bound allows.
LEMMA LossesCost ==
  ASSUME NEW n \in 0 .. MaxLost
  PROVE  /\ Round \in Nat /\ n * Round \in Nat
         /\ n * Round + Round = (n + 1) * Round
         /\ n * Round + Round <= (MaxLost + 1) * Round
<1> DEFINE r == Round
<1>1. r \in Nat /\ n \in Nat /\ MaxLost \in Nat /\ n <= MaxLost
  BY HeartbeatAssumption DEF Round
<1> HIDE DEF r
<1>2. n * r \in Nat /\ n * r + r = (n + 1) * r
  BY <1>1
<1>3. (MaxLost - n) * r \in Nat /\ (MaxLost + 1) * r = (n + 1) * r + (MaxLost - n) * r
  BY <1>1
<1> QED
  BY <1>1, <1>2, <1>3 DEF r

\* Who is on time is alive.
LEMMA OnTimeIsAlive ==
  ASSUME HeartbeatTypeOK, TimeoutOutlasts, NEW a \in Beating, OnTime(a)
  PROVE  IsAlive(a)
<1>1. /\ loop[a].doing \in {"off", "posting", "answering", "sleeping"} /\ loop[a].until \in Nat
      /\ lostRow[a] \in 0 .. MaxLost /\ pulse[a] \in Nat /\ now \in Nat
  BY DEF HeartbeatTypeOK, OnTime
<1>2. /\ Round \in Nat /\ lostRow[a] * Round \in Nat
      /\ lostRow[a] * Round + Round <= (MaxLost + 1) * Round
      /\ (MaxLost + 1) * Round \in Nat
  BY <1>1, LossesCost, HeartbeatAssumption
<1>3. PostTimeout \in Nat /\ PostTimeout <= Round /\ Timeout \in Nat
  BY HeartbeatAssumption DEF Round
<1> DEFINE cost == lostRow[a] * Round
           limit == (MaxLost + 1) * Round
<1>4. now <= pulse[a] + cost + Round + PostTimeout
  <2>1. /\ now <= loop[a].until
        /\ \/ loop[a].until <= pulse[a] + PostTimeout
           \/ loop[a].until <= pulse[a] + cost + Round + PostTimeout
           \/ loop[a].until <= pulse[a] + cost + Round
    BY <1>1 DEF OnTime
  <2>2. cost \in Nat
    BY <1>2
  <2> HIDE DEF cost
  <2> QED
    BY <1>1, <1>2, <1>3, <2>1, <2>2
<1>5. cost + Round <= limit /\ limit + PostTimeout < Timeout /\ cost \in Nat /\ limit \in Nat
  BY <1>2 DEF TimeoutOutlasts
<1> HIDE DEF cost, limit
<1>6. now - pulse[a] < Timeout
  BY <1>1, <1>2, <1>3, <1>4, <1>5
<1> QED
  BY <1>6 DEF IsAlive, Age, OnTime

\* An agent stays on time when its loop rests and its last beat is no older.
LEMMA StaysOnTime ==
  ASSUME HeartbeatTypeOK, NEW a \in Beating, OnTime(a),
         a \in DOMAIN pulse', pulse'[a] \in Nat, pulse[a] <= pulse'[a],
         loop'[a] = loop[a], lostRow'[a] = lostRow[a], now' \in Nat, now' <= loop[a].until
  PROVE  OnTime(a)'
<1>1. /\ loop[a].until \in Nat /\ lostRow[a] \in 0 .. MaxLost /\ pulse[a] \in Nat
  BY DEF HeartbeatTypeOK, OnTime
<1>2. lostRow[a] * Round \in Nat /\ Round \in Nat
  BY <1>1, LossesCost
<1> DEFINE cost == lostRow[a] * Round
<1>3. cost \in Nat /\ lostRow'[a] * Round = cost
  BY <1>2
<1>4. /\ loop[a].doing = "answering" => loop[a].until <= pulse'[a] + PostTimeout /\ lostRow'[a] = 0
      /\ loop[a].doing = "posting" => loop[a].until <= pulse'[a] + cost + Round + PostTimeout
      /\ loop[a].doing = "sleeping" => loop[a].until <= pulse'[a] + cost + Round
  <2>1. /\ loop[a].doing = "answering" => loop[a].until <= pulse[a] + PostTimeout /\ lostRow[a] = 0
        /\ loop[a].doing = "posting" => loop[a].until <= pulse[a] + cost + Round + PostTimeout
        /\ loop[a].doing = "sleeping" => loop[a].until <= pulse[a] + cost + Round
    BY DEF OnTime
  <2> HIDE DEF cost
  <2> QED
    BY <1>1, <1>2, <1>3, <2>1, HeartbeatAssumption
<1>5. Round' = Round /\ PostTimeout' = PostTimeout /\ Off' = Off
  BY DEF Round, Off
<1> QED
  BY <1>3, <1>4, <1>5 DEF OnTime

(***************************************************************************)
(* A beat that is recorded starts the account anew, with the post that     *)
(* carried it still to end; one that is lost adds a round, and what        *)
(* follows stays within it.                                                *)
(***************************************************************************)
LEMMA RecordedOnTime ==
  ASSUME HeartbeatTypeOK, NEW a \in Beating, Recorded(a), UNCHANGED now,
         now <= loop[a].until, loop[a].until <= now + PostTimeout
  PROVE  OnTime(a)'
<1>1. /\ a \in DOMAIN pulse' /\ pulse'[a] = now
      /\ loop'[a] = [doing |-> "answering", until |-> loop[a].until]
      /\ lostRow'[a] = 0
  BY DEF Recorded, Beat, HeartbeatTypeOK
<1> QED
  BY <1>1 DEF OnTime, Off, Round

\* The answer ends the post, and the loop sleeps for an interval.
LEMMA PostEndsOnTime ==
  ASSUME HeartbeatTypeOK, NEW a \in Beating, PostEnds(a), OnTime(a), UNCHANGED now
  PROVE  OnTime(a)'
<1>1. /\ pulse' = pulse /\ lostRow' = lostRow /\ now \in Nat /\ pulse[a] \in Nat
      /\ loop'[a] = [doing |-> "sleeping", until |-> now + Interval]
      /\ now <= pulse[a] + PostTimeout /\ lostRow[a] = 0
  <2>1. /\ pulse' = pulse /\ lostRow' = lostRow /\ loop[a].doing = "answering"
        /\ loop'[a] = [doing |-> "sleeping", until |-> now + Interval]
    BY DEF PostEnds, Sleep, HeartbeatTypeOK
  <2>2. now \in Nat /\ pulse[a] \in Nat /\ loop[a].until \in Nat
    BY DEF HeartbeatTypeOK, OnTime
  <2>3. now <= loop[a].until /\ loop[a].until <= pulse[a] + PostTimeout /\ lostRow[a] = 0
    BY <2>1 DEF OnTime
  <2> QED
    BY <2>1, <2>2, <2>3, HeartbeatAssumption
<1>2. Round = Interval + PostTimeout /\ Interval \in Nat /\ PostTimeout \in Nat
  BY HeartbeatAssumption DEF Round
<1> DEFINE cost == lostRow'[a] * Round
<1>3. cost = 0
  BY <1>1, <1>2
<1>4. now <= now + Interval /\ now + Interval <= pulse[a] + cost + Round
  <2> HIDE DEF cost
  <2> QED
    BY <1>1, <1>2, <1>3
<1>5. Round' = Round /\ Off' = Off /\ now' = now /\ a \in DOMAIN pulse
  BY DEF Round, Off, OnTime
<1> HIDE DEF cost
<1>6. now + Interval <= pulse[a] + lostRow'[a] * Round + Round
  BY <1>4 DEF cost
<1> QED
  BY <1>1, <1>4, <1>5, <1>6 DEF OnTime, Off

\* A lost beat costs one round.
LEMMA FailedOnTime ==
  ASSUME HeartbeatTypeOK, NEW a \in Beating, Failed(a), OnTime(a), UNCHANGED now
  PROVE  OnTime(a)'
<1>1. /\ pulse' = pulse /\ pulse[a] \in Nat /\ now \in Nat
      /\ loop'[a] = [doing |-> "sleeping", until |-> now + Interval]
      /\ lostRow[a] \in 0 .. MaxLost /\ lostRow'[a] = lostRow[a] + 1
      /\ now <= loop[a].until /\ loop[a].until \in Nat
      /\ loop[a].until <= pulse[a] + lostRow[a] * Round + Round + PostTimeout
  BY DEF Failed, Sleep, HeartbeatTypeOK, OnTime
<1>2. /\ Round \in Nat /\ lostRow[a] * Round \in Nat
      /\ lostRow[a] * Round + Round = (lostRow[a] + 1) * Round
  BY <1>1, LossesCost
<1> DEFINE cost == lostRow[a] * Round
           more == (lostRow[a] + 1) * Round
<1>3. /\ cost \in Nat /\ more = cost + Round
      /\ loop[a].until <= pulse[a] + cost + Round + PostTimeout
      /\ lostRow'[a] * Round = more
  BY <1>1, <1>2
<1>4. now + Interval <= pulse[a] + more + Round
  <2> HIDE DEF cost, more
  <2> QED
    BY <1>1, <1>2, <1>3, HeartbeatAssumption DEF Round
<1>5. now <= now + Interval
  BY <1>1, HeartbeatAssumption
<1>6. Round' = Round /\ Off' = Off /\ now' = now
  BY DEF Round, Off
<1> HIDE DEF cost, more
<1> QED
  BY <1>1, <1>3, <1>4, <1>5, <1>6 DEF OnTime, Off

\* A loop that wakes posts at once.
LEMMA WakesOnTime ==
  ASSUME HeartbeatTypeOK, NEW a \in Beating, Wakes(a), OnTime(a), UNCHANGED now
  PROVE  OnTime(a)'
<1>1. /\ pulse' = pulse /\ pulse[a] \in Nat /\ now \in Nat
      /\ loop'[a] = [doing |-> "posting", until |-> now + PostTimeout]
      /\ lostRow[a] \in 0 .. MaxLost /\ lostRow' = lostRow
      /\ now <= pulse[a] + lostRow[a] * Round + Round
  BY DEF Wakes, HeartbeatTypeOK, OnTime
<1>2. lostRow[a] * Round \in Nat
  BY <1>1, LossesCost
<1> DEFINE cost == lostRow[a] * Round
<1>3. cost \in Nat /\ now <= pulse[a] + cost + Round /\ lostRow'[a] * Round = cost
  BY <1>1, <1>2
<1>4. now + PostTimeout <= pulse[a] + cost + Round + PostTimeout
  <2> HIDE DEF cost
  <2> QED
    BY <1>1, <1>3, HeartbeatAssumption DEF Round
<1>5. now <= now + PostTimeout
  BY <1>1, HeartbeatAssumption
<1>6. Round' = Round /\ Off' = Off /\ now' = now
  BY DEF Round, Off
<1> HIDE DEF cost
<1> QED
  BY <1>1, <1>3, <1>4, <1>5, <1>6 DEF OnTime, Off

(***************************************************************************)
(* Types, one action at a time.                                            *)
(***************************************************************************)
LEMMA TypesStep ==
  ASSUME HeartbeatTypeOK, [HeartbeatNext]_<<now, heartbeatVars>>
  PROVE  HeartbeatTypeOK'
<1>0. now \in Nat /\ Interval \in Nat /\ PostTimeout \in Nat /\ MaxLost \in Nat
  BY HeartbeatAssumption DEF HeartbeatTypeOK
<1>1. CASE /\ Tick /\ UNCHANGED heartbeatVars
           /\ \A a \in Beating : loop[a] # Off => now < loop[a].until
  BY <1>0, <1>1 DEF Tick, heartbeatVars, Off, HeartbeatTypeOK
<1>2. CASE UNCHANGED now /\ Reap
  BY <1>2 DEF Reap, HeartbeatTypeOK
<1>3. ASSUME UNCHANGED now, NEW a \in Beating, StartLoop(a)
      PROVE  HeartbeatTypeOK'
  BY <1>0, <1>3 DEF StartLoop, HeartbeatTypeOK
<1>4. ASSUME UNCHANGED now, NEW a \in Beating, StopLoop(a)
      PROVE  HeartbeatTypeOK'
  BY <1>0, <1>4 DEF StopLoop, Off, HeartbeatTypeOK
<1>5. ASSUME UNCHANGED now, NEW a \in Beating, Recorded(a)
      PROVE  HeartbeatTypeOK'
  BY <1>0, <1>5 DEF Recorded, Beat, HeartbeatTypeOK
<1>11. ASSUME UNCHANGED now, NEW a \in Beating, PostEnds(a)
       PROVE  HeartbeatTypeOK'
  BY <1>0, <1>11 DEF PostEnds, Sleep, HeartbeatTypeOK
<1>6. ASSUME UNCHANGED now, NEW a \in Beating, Failed(a)
      PROVE  HeartbeatTypeOK'
  BY <1>0, <1>6 DEF Failed, Sleep, HeartbeatTypeOK
<1>7. ASSUME UNCHANGED now, NEW a \in Beating, Wakes(a)
      PROVE  HeartbeatTypeOK'
  BY <1>0, <1>7 DEF Wakes, HeartbeatTypeOK
<1>8. ASSUME UNCHANGED now, NEW a \in Beating, ArrivesLate(a)
      PROVE  HeartbeatTypeOK'
  BY <1>0, <1>8 DEF ArrivesLate, Beat, HeartbeatTypeOK
<1>9. ASSUME UNCHANGED now, NEW a \in Beating, Unregister(a)
      PROVE  HeartbeatTypeOK'
  BY <1>9 DEF Unregister, HeartbeatTypeOK
<1>10. CASE UNCHANGED <<now, heartbeatVars>>
  BY <1>10 DEF heartbeatVars, HeartbeatTypeOK
<1> QED
  BY <1>1, <1>2, <1>3, <1>4, <1>5, <1>6, <1>7, <1>8, <1>9, <1>10, <1>11 DEF HeartbeatNext

(***************************************************************************)
(* Being on time, for the agents of firstTry, one action at a time.  The   *)
(* clock waits for a loop that has something to do, the reaper only takes  *)
(* the dead, and who leaves is no longer in firstTry.                      *)
(***************************************************************************)
LEMMA OnTimeStep ==
  ASSUME HeartbeatInv, TimeoutOutlasts, HeartbeatTypeOK',
         [HeartbeatNext]_<<now, heartbeatVars>>, NEW a \in firstTry'
  PROVE  OnTime(a)'
<1>0. HeartbeatTypeOK /\ a \in Beating /\ now \in Nat
  BY DEF HeartbeatInv, HeartbeatTypeOK
<1>1. a \in firstTry => /\ OnTime(a) /\ IsAlive(a)
                        /\ pulse[a] \in Nat /\ pulse[a] <= now
                        /\ loop[a].until \in Nat /\ now <= loop[a].until
  <2> HAVE a \in firstTry
  <2>1. OnTime(a)
    BY DEF HeartbeatInv
  <2>2. IsAlive(a)
    BY <1>0, <2>1, OnTimeIsAlive
  <2> QED
    BY <1>0, <2>1, <2>2 DEF OnTime, HeartbeatTypeOK
<1>2. CASE Tick /\ UNCHANGED heartbeatVars /\ \A b \in Beating : loop[b] # Off => now < loop[b].until
  <2>1. a \in firstTry /\ pulse' = pulse /\ loop' = loop /\ lostRow' = lostRow /\ now' = now + 1
    BY <1>2 DEF Tick, heartbeatVars
  <2>2. loop[a] # Off /\ a \in DOMAIN pulse
    BY <1>1, <2>1 DEF OnTime
  <2>3. now + 1 <= loop[a].until
    BY <1>0, <1>1, <1>2, <2>1, <2>2
  <2> QED
    BY <1>0, <1>1, <2>1, <2>2, <2>3, StaysOnTime DEF HeartbeatInv
<1>3. CASE UNCHANGED now /\ Reap
  <2>1. a \in firstTry /\ loop' = loop /\ lostRow' = lostRow
    BY <1>3 DEF Reap
  <2>2. a \in DOMAIN pulse \ DeadAgents
    BY <1>0, <1>1, <2>1, HeartbeatAssumption DEF IsAlive, DeadAgents, Age
  <2>3. a \in DOMAIN pulse' /\ pulse'[a] = pulse[a]
    BY <1>3, <2>2 DEF Reap
  <2> QED
    BY <1>0, <1>1, <1>3, <2>1, <2>3, StaysOnTime DEF HeartbeatInv
<1>4. ASSUME UNCHANGED now, NEW b \in Beating, StartLoop(b)
      PROVE  OnTime(a)'
  <2>1. a \in firstTry /\ loop[a] # Off /\ a \in DOMAIN pulse
    BY <1>1, <1>4 DEF StartLoop, OnTime
  <2>2. a # b /\ loop'[a] = loop[a] /\ pulse' = pulse /\ lostRow' = lostRow
    BY <1>0, <1>4, <2>1 DEF StartLoop, HeartbeatTypeOK
  <2> QED
    BY <1>0, <1>1, <1>4, <2>1, <2>2, StaysOnTime DEF HeartbeatInv
<1>5. ASSUME UNCHANGED now, NEW b \in Beating, StopLoop(b)
      PROVE  OnTime(a)'
  <2>1. a \in firstTry /\ a # b
    BY <1>5 DEF StopLoop
  <2>2. /\ loop'[a] = loop[a] /\ pulse' = pulse /\ lostRow'[a] = lostRow[a]
        /\ a \in DOMAIN pulse
    BY <1>0, <1>1, <1>5, <2>1 DEF StopLoop, OnTime, HeartbeatTypeOK
  <2> QED
    BY <1>0, <1>1, <1>5, <2>1, <2>2, StaysOnTime DEF HeartbeatInv
<1>6. ASSUME UNCHANGED now, NEW b \in Beating, Recorded(b)
      PROVE  OnTime(a)'
  <2>1. CASE a = b
    BY <1>0, <1>6, <2>1, RecordedOnTime DEF Recorded, HeartbeatTypeOK
  <2>2. CASE a # b
    <3>1. a \in firstTry
      BY <1>6, <2>2 DEF Recorded
    <3>2. /\ a \in DOMAIN pulse' /\ pulse'[a] = pulse[a]
          /\ loop'[a] = loop[a] /\ lostRow'[a] = lostRow[a]
      BY <1>0, <1>1, <1>6, <2>2, <3>1 DEF Recorded, Beat, OnTime, HeartbeatTypeOK
    <3> QED
      BY <1>0, <1>1, <1>6, <3>1, <3>2, StaysOnTime DEF HeartbeatInv
  <2> QED
    BY <2>1, <2>2
<1>12. ASSUME UNCHANGED now, NEW b \in Beating, PostEnds(b)
       PROVE  OnTime(a)'
  <2>0. a \in firstTry
    BY <1>12 DEF PostEnds
  <2>1. CASE a = b
    BY <1>0, <1>1, <1>12, <2>0, <2>1, PostEndsOnTime DEF HeartbeatInv
  <2>2. CASE a # b
    <3>1. /\ a \in DOMAIN pulse /\ pulse' = pulse
          /\ loop'[a] = loop[a] /\ lostRow'[a] = lostRow[a]
      BY <1>0, <1>1, <1>12, <2>0, <2>2 DEF PostEnds, Sleep, OnTime, HeartbeatTypeOK
    <3> QED
      BY <1>0, <1>1, <1>12, <2>0, <3>1, StaysOnTime DEF HeartbeatInv
  <2> QED
    BY <2>1, <2>2
<1>7. ASSUME UNCHANGED now, NEW b \in Beating, Failed(b)
      PROVE  OnTime(a)'
  <2>0. a \in firstTry
    BY <1>7 DEF Failed
  <2>1. CASE a = b
    BY <1>0, <1>1, <1>7, <2>0, <2>1, FailedOnTime DEF HeartbeatInv
  <2>2. CASE a # b
    <3>1. /\ a \in DOMAIN pulse /\ pulse' = pulse
          /\ loop'[a] = loop[a] /\ lostRow'[a] = lostRow[a]
      BY <1>0, <1>1, <1>7, <2>0, <2>2 DEF Failed, Sleep, OnTime, HeartbeatTypeOK
    <3> QED
      BY <1>0, <1>1, <1>7, <2>0, <3>1, StaysOnTime DEF HeartbeatInv
  <2> QED
    BY <2>1, <2>2
<1>8. ASSUME UNCHANGED now, NEW b \in Beating, Wakes(b)
      PROVE  OnTime(a)'
  <2>0. a \in firstTry
    BY <1>8 DEF Wakes
  <2>1. CASE a = b
    BY <1>0, <1>1, <1>8, <2>0, <2>1, WakesOnTime DEF HeartbeatInv
  <2>2. CASE a # b
    <3>1. /\ a \in DOMAIN pulse /\ pulse' = pulse
          /\ loop'[a] = loop[a] /\ lostRow' = lostRow
      BY <1>0, <1>1, <1>8, <2>0, <2>2 DEF Wakes, OnTime, HeartbeatTypeOK
    <3> QED
      BY <1>0, <1>1, <1>8, <2>0, <3>1, StaysOnTime DEF HeartbeatInv
  <2> QED
    BY <2>1, <2>2
<1>9. ASSUME UNCHANGED now, NEW b \in Beating, ArrivesLate(b)
      PROVE  OnTime(a)'
  <2>1. a \in firstTry /\ loop' = loop /\ lostRow' = lostRow
    BY <1>9 DEF ArrivesLate
  <2>2. a \in DOMAIN pulse' /\ pulse'[a] \in {pulse[a], now}
    BY <1>1, <1>9, <2>1 DEF ArrivesLate, Beat, OnTime
  <2>3. pulse'[a] \in Nat /\ pulse[a] <= pulse'[a]
    BY <1>0, <1>1, <2>1, <2>2
  <2> QED
    BY <1>0, <1>1, <1>9, <2>1, <2>2, <2>3, StaysOnTime DEF HeartbeatInv
<1>10. ASSUME UNCHANGED now, NEW b \in Beating, Unregister(b)
       PROVE  OnTime(a)'
  <2>1. a \in firstTry /\ a # b /\ a \in DOMAIN pulse
    BY <1>1, <1>10 DEF Unregister, OnTime
  <2>2. /\ a \in DOMAIN pulse' /\ pulse'[a] = pulse[a]
        /\ loop' = loop /\ lostRow' = lostRow
    BY <1>10, <2>1 DEF Unregister
  <2> QED
    BY <1>0, <1>1, <1>10, <2>1, <2>2, StaysOnTime DEF HeartbeatInv
<1>11. CASE UNCHANGED <<now, heartbeatVars>>
  <2>1. a \in firstTry /\ pulse' = pulse /\ loop' = loop /\ lostRow' = lostRow /\ now' = now
    BY <1>11 DEF heartbeatVars
  <2> QED
    BY <1>0, <1>1, <2>1, StaysOnTime DEF HeartbeatInv, OnTime
<1> QED
  BY <1>2, <1>3, <1>4, <1>5, <1>6, <1>7, <1>8, <1>9, <1>10, <1>11, <1>12 DEF HeartbeatNext

(***************************************************************************)
(* The invariant of heartbeat.py: whatever is lost, late, stopped or       *)
(* restarted, a loop keeps its time and the tracker's clocks are right.    *)
(***************************************************************************)
THEOREM HeartbeatInvariance == HeartbeatSpec => []HeartbeatInv
<1>1. ClockInit /\ HeartbeatInit => HeartbeatInv
  BY HeartbeatAssumption
    DEF ClockInit, HeartbeatInit, Off, HeartbeatInv, HeartbeatTypeOK, TimeoutOutlasts
<1>2. HeartbeatInv /\ [HeartbeatNext]_<<now, heartbeatVars>> => HeartbeatInv'
  <2> SUFFICES ASSUME HeartbeatInv, [HeartbeatNext]_<<now, heartbeatVars>>
               PROVE  HeartbeatInv'
    OBVIOUS
  <2>1. HeartbeatTypeOK'
    BY TypesStep DEF HeartbeatInv
  <2>2. TimeoutOutlasts' <=> TimeoutOutlasts
    BY DEF TimeoutOutlasts, Round
  <2>3. TimeoutOutlasts => \A a \in firstTry' : OnTime(a)'
    BY <2>1, OnTimeStep
  <2> QED
    BY <2>1, <2>2, <2>3 DEF HeartbeatInv
<1> QED
  BY <1>1, <1>2, PTL DEF HeartbeatSpec

(***************************************************************************)
(* An agent that runs and has been heard is alive to the tracker, and the  *)
(* reaper leaves it alone, as long as the timeout outlasts what is lost.   *)
(***************************************************************************)
THEOREM RunningStaysAlive == HeartbeatSpec => []RunningIsAlive
<1>1. HeartbeatInv => RunningIsAlive
  <2> SUFFICES ASSUME HeartbeatInv, TimeoutOutlasts, NEW a \in firstTry
               PROVE  IsAlive(a)
    BY DEF RunningIsAlive, TimeoutOutlasts, Round
  <2>1. a \in Beating /\ OnTime(a) /\ HeartbeatTypeOK
    BY DEF HeartbeatInv, HeartbeatTypeOK
  <2> QED
    BY <2>1, OnTimeIsAlive
<1> QED
  BY <1>1, HeartbeatInvariance, PTL

-----------------------------------------------------------------------------
ClusterTypeOK ==
  /\ reachable \subseteq Cluster
  /\ sending \in [left : Nat, tried : SUBSET Cluster, at : Cluster \cup {NoHub}]
  /\ handled \subseteq Cluster \X Nat

(***************************************************************************)
(* The strengthening: the hub that is asked has been marked as tried, the  *)
(* message was handled at tried hubs only, and at the hub that is asked    *)
(* with the pick that asks it; so a later pick of a hub finds it tried.    *)
(***************************************************************************)
TriedFirst ==
  /\ sending.at # NoHub => sending.at \in sending.tried
  /\ sending # Quiet => \A x \in handled : x[1] \in sending.tried
  /\ sending.at # NoHub => \A x \in handled : x[1] = sending.at => x[2] = sending.left

HandledOnce == \A x, y \in handled : x[1] = y[1] => x = y

ClusterInv == ClusterTypeOK /\ TriedFirst /\ HandledOnce

-----------------------------------------------------------------------------
\* The picks of a call are as many as the hubs, a natural number.
LEMMA PicksAreFinite == Cardinality(Cluster) \in Nat
  BY FS_CardinalityType, ClusterAssumption

\* A call of send starts with nothing handled and nothing tried.
LEMMA StartSendStep ==
  ASSUME ClusterInv, StartSend
  PROVE  ClusterInv'
<1>1. /\ handled' = {} /\ reachable' = reachable
      /\ sending' = [left |-> Cardinality(Cluster), tried |-> {}, at |-> NoHub]
  BY DEF StartSend, Quiet
<1>2. NoHub' = NoHub
  BY DEF NoHub
<1>3. ClusterTypeOK'
  BY <1>1, <1>2, PicksAreFinite DEF ClusterInv, ClusterTypeOK
<1>4. TriedFirst'
  BY <1>1, <1>2 DEF TriedFirst
<1>5. HandledOnce'
  BY <1>1 DEF HandledOnce
<1> QED
  BY <1>3, <1>4, <1>5 DEF ClusterInv

\* A pick asks a hub that was not tried, where nothing was handled.
LEMMA PickStep ==
  ASSUME ClusterInv, NEW h \in Cluster, Pick(h)
  PROVE  ClusterInv'
<1>1. /\ handled' = handled /\ reachable' = reachable
      /\ sending'.left = sending.left - 1
      /\ sending'.tried = sending.tried \cup {h}
      /\ sending'.at = IF h \in sending.tried THEN NoHub ELSE h
      /\ sending' = [left |-> sending.left - 1, tried |-> sending.tried \cup {h},
                     at |-> IF h \in sending.tried THEN NoHub ELSE h]
  BY DEF Pick
<1>2. sending.left > 0 /\ sending.left \in Nat /\ sending.tried \subseteq Cluster
  BY DEF Pick, ClusterInv, ClusterTypeOK
<1>3. sending # Quiet
  BY <1>2 DEF Quiet
<1>4. \A x \in handled : x[1] \in sending.tried
  BY <1>3 DEF ClusterInv, TriedFirst
<1>5. ClusterTypeOK'
  BY <1>1, <1>2 DEF ClusterInv, ClusterTypeOK, NoHub
<1>6. TriedFirst'
  BY <1>1, <1>4 DEF TriedFirst, NoHub
<1>7. HandledOnce'
  BY <1>1 DEF ClusterInv, HandledOnce
<1> QED
  BY <1>5, <1>6, <1>7 DEF ClusterInv

\* The hub that is asked handles the message once, with this pick.
LEMMA HandlesStep ==
  ASSUME ClusterInv, HubHandles
  PROVE  ClusterInv'
<1> DEFINE new == <<sending.at, sending.left>>
<1>1. /\ handled' = handled \cup {new}
      /\ sending' = sending /\ reachable' = reachable
  BY DEF HubHandles
<1>2. sending.at \in Cluster /\ sending.at # NoHub /\ sending.left \in Nat
  BY ClusterAssumption DEF HubHandles, ClusterInv, ClusterTypeOK
<1>3. NoHub' = NoHub /\ Quiet' = Quiet
  BY DEF NoHub, Quiet
<1>4. new[1] = sending.at /\ new[2] = sending.left /\ new \in Cluster \X Nat
  BY <1>2
<1>5. \A x \in handled : x[1] = new[1] => x = new
  <2> TAKE x \in handled
  <2>1. x \in Cluster \X Nat
    BY DEF ClusterInv, ClusterTypeOK
  <2>2. x[1] = sending.at => x[2] = sending.left
    BY <1>2 DEF ClusterInv, TriedFirst
  <2>3. x = <<x[1], x[2]>>
    BY <2>1
  <2> QED
    BY <2>2, <2>3
<1> HIDE DEF new
<1>6. ClusterTypeOK'
  BY <1>1, <1>3, <1>4 DEF ClusterInv, ClusterTypeOK
<1>7. TriedFirst'
  BY <1>1, <1>2, <1>3, <1>4 DEF ClusterInv, TriedFirst
<1>8. HandledOnce'
  BY <1>1, <1>5 DEF ClusterInv, HandledOnce
<1> QED
  BY <1>6, <1>7, <1>8 DEF ClusterInv

\* A call that ends leaves nothing for later steps to add to.
LEMMA EndStep ==
  ASSUME ClusterInv, Answered \/ SendGivesUp
  PROVE  ClusterInv'
<1>1. handled' = handled /\ reachable' = reachable /\ sending' = Quiet
  BY DEF Answered, SendGivesUp
<1>2. NoHub' = NoHub /\ Quiet' = Quiet
  BY DEF NoHub, Quiet
<1>3. ClusterTypeOK'
  BY <1>1, <1>2 DEF ClusterInv, ClusterTypeOK, Quiet
<1>4. TriedFirst'
  BY <1>1, <1>2 DEF TriedFirst, Quiet
<1>5. HandledOnce'
  BY <1>1 DEF ClusterInv, HandledOnce
<1> QED
  BY <1>3, <1>4, <1>5 DEF ClusterInv

\* After a failure the hub stays tried.
LEMMA FailsStep ==
  ASSUME ClusterInv, SendFails
  PROVE  ClusterInv'
<1>1. /\ handled' = handled /\ reachable' = reachable
      /\ sending' = [sending EXCEPT !.at = NoHub]
      /\ sending.at \in Cluster /\ sending.at # NoHub
  BY DEF SendFails, ClusterInv, ClusterTypeOK
<1>2. /\ sending'.left = sending.left /\ sending'.tried = sending.tried
      /\ sending'.at = NoHub
  BY <1>1 DEF ClusterInv, ClusterTypeOK
<1>3. sending # Quiet
  BY <1>1, ClusterAssumption DEF Quiet
<1>4. ClusterTypeOK'
  BY <1>1 DEF ClusterInv, ClusterTypeOK, NoHub
<1>5. TriedFirst'
  BY <1>1, <1>2, <1>3 DEF ClusterInv, TriedFirst, NoHub
<1>6. HandledOnce'
  BY <1>1 DEF ClusterInv, HandledOnce
<1> QED
  BY <1>4, <1>5, <1>6 DEF ClusterInv

\* Everything else leaves the call of send alone.
LEMMA OthersStep ==
  ASSUME ClusterInv, UNCHANGED <<sending, handled>>, reachable' \subseteq Cluster
  PROVE  ClusterInv'
<1>1. sending' = sending /\ handled' = handled /\ NoHub' = NoHub /\ Quiet' = Quiet
  BY DEF NoHub, Quiet
<1> QED
  BY <1>1 DEF ClusterInv, ClusterTypeOK, TriedFirst, HandledOnce

-----------------------------------------------------------------------------
(***************************************************************************)
(* The invariant of send, under outages, health checks, registrations and  *)
(* repairs that interleave with it.                                        *)
(***************************************************************************)
THEOREM ClusterInvariance == ClusterSpec => []ClusterInv
<1>1. ClusterInit => ClusterInv
  BY DEF ClusterInit, ClusterInv, ClusterTypeOK, TriedFirst, HandledOnce, Quiet
<1>2. ClusterInv /\ [ClusterNext]_clusterVars => ClusterInv'
  <2> SUFFICES ASSUME ClusterInv, [ClusterNext]_clusterVars
               PROVE  ClusterInv'
    OBVIOUS
  <2>0. reachable \subseteq Cluster
    BY DEF ClusterInv, ClusterTypeOK
  <2>1. ASSUME NEW h \in Cluster, GoesDown(h) \/ ComesBack(h)
        PROVE  ClusterInv'
    BY <2>0, <2>1, OthersStep DEF GoesDown, ComesBack
  <2>2. ASSUME NEW h \in Cluster, StartProbe(h) \/ ProbeSucceeds(h) \/ ProbeFails(h)
        PROVE  ClusterInv'
    BY <2>0, <2>2, OthersStep DEF StartProbe, ProbeSucceeds, ProbeFails
  <2>3. ASSUME NEW h \in Cluster, NEW a \in Joining, RegistersAt(h, a) \/ DeletesAt(h, a)
        PROVE  ClusterInv'
    BY <2>0, <2>3, OthersStep DEF RegistersAt, DeletesAt
  <2>4. CASE StartHeal
    BY <2>0, <2>4, OthersStep DEF StartHeal
  <2>5. ASSUME NEW p \in Pairs(Cluster), HealPair(p)
        PROVE  ClusterInv'
    BY <2>0, <2>5, OthersStep DEF HealPair
  <2>6. CASE UNCHANGED clusterVars
    BY <2>0, <2>6, OthersStep DEF clusterVars
  <2>7. ASSUME NEW h \in Cluster, Pick(h)
        PROVE  ClusterInv'
    BY <2>7, PickStep
  <2>8. CASE StartSend \/ HubHandles \/ Answered \/ SendFails \/ SendGivesUp
    BY <2>8, StartSendStep, HandlesStep, EndStep, FailsStep
  <2> QED
    BY <2>1, <2>2, <2>3, <2>4, <2>5, <2>6, <2>7, <2>8 DEF ClusterNext
<1> QED
  BY <1>1, <1>2, PTL DEF ClusterSpec

(***************************************************************************)
(* One call of send has each hub handle its message at most once, whatever *)
(* fails and however the random choices fall.                              *)
(***************************************************************************)
THEOREM SendsOncePerHub == ClusterSpec => []HandledOncePerHub
<1>1. ClusterInv => HandledOncePerHub
  <2> SUFFICES ASSUME ClusterInv, NEW h \in Cluster
               PROVE  Cardinality({x \in handled : x[1] = h}) <= 1
    BY DEF HandledOncePerHub
  <2> DEFINE S == {x \in handled : x[1] = h}
  <2>1. CASE S = {}
    BY <2>1, FS_EmptySet
  <2>2. CASE S # {}
    <3>1. PICK x \in S : TRUE
      BY <2>2
    <3>2. S = {x}
      BY <3>1 DEF ClusterInv, HandledOnce
    <3>3. Cardinality({x}) = 1
      BY FS_Singleton
    <3> QED
      BY <3>2, <3>3
  <2> QED
    BY <2>1, <2>2
<1> QED
  BY <1>1, ClusterInvariance, PTL

-----------------------------------------------------------------------------
CacheTypeOK ==
  /\ now \in Nat
  /\ writes \in Nat
  /\ stored \in [Names -> 0 .. writes]
  /\ DOMAIN replacedAt \subseteq 1 .. writes
  /\ \A v \in DOMAIN replacedAt : replacedAt[v] \in Nat /\ replacedAt[v] <= now
  /\ unwritten # NoWrite => unwritten.did \in Names /\ unwritten.version \in 0 .. writes
  /\ kept \in [Names -> [version : Nat, at : Nat]]
  /\ \A d \in Names : kept[d].at <= now
  /\ filling \in [Readers -> [did : Names \cup {"none"}, version : Nat, since : Nat]]
  /\ \A r \in Readers : filling[r].since <= now

\* A version is in one row only, and once replaced it does not come back.
VersionsOnce ==
  /\ \A d, e \in Names : stored[d] # 0 /\ stored[d] = stored[e] => d = e
  /\ \A d \in Names : stored[d] \notin DOMAIN replacedAt
  /\ unwritten # NoWrite /\ unwritten.version # 0 =>
       /\ unwritten.version \notin DOMAIN replacedAt
       /\ \A d \in Names : stored[d] # unwritten.version

\* A reader's version was in the directory when it looked, not long ago.
FreshFill(r) ==
  /\ filling[r] # NotFilling => now <= filling[r].since + FillTime
  /\ filling[r].version \in DOMAIN replacedAt => filling[r].since <= replacedAt[filling[r].version]

\* What was put was in the directory a fill before.
FreshEntry(d) ==
  kept[d].version \in DOMAIN replacedAt => kept[d].at - replacedAt[kept[d].version] <= FillTime

CacheInv ==
  /\ CacheTypeOK
  /\ VersionsOnce
  /\ \A r \in Readers : FreshFill(r)
  /\ \A d \in Names : FreshEntry(d)

\* The cache changes, not the directory: each entry is one that was kept, or
\* gone; each fill is as it was, or ended.
LEMMA CacheKeepsInv ==
  ASSUME CacheInv, UNCHANGED <<now, stored, unwritten, writes, replacedAt>>,
         kept' \in [Names -> [version : Nat, at : Nat]],
         \A d \in Names : kept'[d] = kept[d] \/ kept'[d] = Missing,
         filling' \in [Readers -> [did : Names \cup {"none"}, version : Nat, since : Nat]],
         \A r \in Readers : filling'[r] = filling[r] \/ filling'[r] = NotFilling
  PROVE  CacheInv'
<1>1. CacheTypeOK /\ VersionsOnce
  BY DEF CacheInv
<1>2. ASSUME NEW d \in Names
      PROVE  kept'[d].at <= now /\ FreshEntry(d)'
  BY <1>1, <1>2 DEF CacheInv, FreshEntry, CacheTypeOK, Missing
<1>3. ASSUME NEW r \in Readers
      PROVE  filling'[r].since <= now /\ FreshFill(r)'
  BY <1>1, <1>3 DEF CacheInv, FreshFill, CacheTypeOK, NotFilling
<1>4. CacheTypeOK'
  BY <1>1, <1>2, <1>3 DEF CacheTypeOK
<1>5. VersionsOnce'
  BY <1>1 DEF VersionsOnce
<1> QED
  BY <1>2, <1>3, <1>4, <1>5 DEF CacheInv

\* A statement is executed with a version of its own.
LEMMA ExecuteKeepsInv ==
  ASSUME CacheInv, NEW d \in Names, NEW version \in {0, writes + 1}, Execute(d, version),
         UNCHANGED now
  PROVE  CacheInv'
<1>1. CacheTypeOK /\ VersionsOnce
  BY DEF CacheInv
<1>2. /\ writes' = writes + 1 /\ writes \in Nat
      /\ unwritten' = [did |-> d, version |-> version]
      /\ UNCHANGED <<now, stored, replacedAt, kept, order, filling>>
  BY <1>1 DEF Execute, CacheTypeOK
<1>3. CacheTypeOK'
  BY <1>1, <1>2 DEF CacheTypeOK
<1>4. VersionsOnce'
  BY <1>1, <1>2 DEF VersionsOnce, CacheTypeOK
<1> QED
  BY <1>2, <1>3, <1>4 DEF CacheInv, FreshFill, FreshEntry

\* The commit puts a version into the directory, and one out of it now.
LEMMA CommitKeepsInv ==
  ASSUME CacheInv, Commit, UNCHANGED now
  PROVE  CacheInv'
<1> DEFINE d == unwritten.did
           v == unwritten.version
           old == stored[d]
<1>1. CacheTypeOK /\ VersionsOnce
  BY DEF CacheInv
<1>2. /\ unwritten # NoWrite /\ d \in Names /\ v \in 0 .. writes /\ old \in 0 .. writes
      /\ old = stored[d] /\ now \in Nat /\ writes \in Nat
  BY <1>1 DEF Commit, CacheTypeOK
<1>3. /\ stored' = [stored EXCEPT ![d] = v] /\ unwritten' = NoWrite
      /\ UNCHANGED <<now, writes, kept, order, filling>>
      /\ replacedAt' = IF old = 0 THEN replacedAt
                       ELSE [w \in DOMAIN replacedAt \cup {old} |->
                               IF w = old THEN now ELSE replacedAt[w]]
  BY DEF Commit
<1>4. /\ v # 0 => v \notin DOMAIN replacedAt /\ \A e \in Names : stored[e] # v
      /\ \A e \in Names \ {d} : old # 0 => stored[e] # old
      /\ \A e \in Names : stored[e] \notin DOMAIN replacedAt
  BY <1>1, <1>2 DEF VersionsOnce
<1> HIDE DEF d, v, old
<1>5. /\ DOMAIN replacedAt' = DOMAIN replacedAt \cup (IF old = 0 THEN {} ELSE {old})
      /\ \A w \in DOMAIN replacedAt' :
           IF w = old THEN replacedAt'[w] = now
           ELSE w \in DOMAIN replacedAt /\ replacedAt'[w] = replacedAt[w]
  <2>1. old = 0 => old \notin DOMAIN replacedAt
    BY <1>1, <1>2 DEF CacheTypeOK
  <2> QED
    BY <1>3, <2>1
<1>6. stored'[d] = v /\ \A e \in Names \ {d} : stored'[e] = stored[e]
  BY <1>1, <1>2, <1>3 DEF CacheTypeOK
<1>7. CacheTypeOK'
  BY <1>1, <1>2, <1>3, <1>5 DEF CacheTypeOK
<1>8. VersionsOnce'
  <2>1. ASSUME NEW e \in Names, NEW f \in Names, stored'[e] # 0, stored'[e] = stored'[f]
        PROVE  e = f
    BY <1>1, <1>4, <1>6, <2>1 DEF VersionsOnce
  <2>2. ASSUME NEW e \in Names
        PROVE  stored'[e] \notin DOMAIN replacedAt'
    <3>1. 0 \notin DOMAIN replacedAt'
      BY <1>7 DEF CacheTypeOK
    <3>2. CASE e = d
      BY <1>2, <1>4, <1>5, <1>6, <3>1, <3>2
    <3>3. CASE e # d
      BY <1>4, <1>5, <1>6, <3>3
    <3> QED
      BY <3>2, <3>3
  <2> QED
    BY <1>3, <2>1, <2>2 DEF VersionsOnce
<1>9. ASSUME NEW r \in Readers
      PROVE  FreshFill(r)'
  <2>1. FreshFill(r) /\ filling[r].since <= now
    BY <1>1 DEF CacheInv, CacheTypeOK
  <2> QED
    BY <1>3, <1>5, <2>1 DEF FreshFill
<1>10. ASSUME NEW e \in Names
       PROVE  FreshEntry(e)'
  <2>1. FreshEntry(e) /\ kept[e].at <= now /\ kept[e].at \in Nat /\ FillTime \in Nat
    BY <1>1, CacheAssumption DEF CacheInv, CacheTypeOK
  <2> QED
    BY <1>2, <1>3, <1>5, <2>1 DEF FreshEntry
<1> QED
  BY <1>7, <1>8, <1>9, <1>10 DEF CacheInv

\* A reader looks a DID up: what it finds is in the directory, or will be.
LEMMA MissKeepsInv ==
  ASSUME CacheInv, NEW r \in Readers, NEW d \in Names, Miss(r, d), UNCHANGED now
  PROVE  CacheInv'
<1> DEFINE found == IF unwritten.did = d THEN unwritten.version ELSE stored[d]
           fill == [did |-> d, version |-> found, since |-> now]
<1>1. CacheTypeOK /\ VersionsOnce
  BY DEF CacheInv
<1>2. /\ UNCHANGED <<now, stored, unwritten, writes, replacedAt>> /\ now \in Nat
      /\ kept' = [e \in Names |-> IF e \in {d} THEN Missing ELSE kept[e]]
  BY <1>1 DEF Miss, Drop, CacheTypeOK
<1>3. filling' = IF found = 0 THEN filling ELSE [filling EXCEPT ![r] = fill]
  BY DEF Miss
<1>4. found # 0 => found \in Nat /\ found \notin DOMAIN replacedAt
  <2>1. CASE unwritten = NoWrite /\ unwritten.did = d
    BY <2>1 DEF NoWrite
  <2>2. CASE unwritten # NoWrite /\ unwritten.did = d
    BY <1>1, <2>2 DEF CacheTypeOK, VersionsOnce
  <2>3. CASE unwritten.did # d
    BY <1>1, <2>3 DEF CacheTypeOK, VersionsOnce
  <2> QED
    BY <2>1, <2>2, <2>3
<1> HIDE DEF found
<1>5. found # 0 => /\ fill \in [did : Names \cup {"none"}, version : Nat, since : Nat]
                   /\ fill.version = found /\ fill.since = now
  BY <1>2, <1>4
<1> HIDE DEF fill
<1>6. kept' \in [Names -> [version : Nat, at : Nat]]
  BY <1>1, <1>2 DEF CacheTypeOK, Missing
<1>7. ASSUME NEW e \in Names
      PROVE  kept'[e].at <= now /\ FreshEntry(e)'
  <2>1. kept'[e] = kept[e] \/ kept'[e] = Missing
    BY <1>2
  <2> QED
    BY <1>1, <1>2, <2>1 DEF CacheInv, FreshEntry, CacheTypeOK, Missing
<1>8. ASSUME NEW p \in Readers
      PROVE  filling'[p].since <= now /\ FreshFill(p)'
  <2>1. FillTime \in Nat
    BY CacheAssumption
  <2>2. filling'[p] = filling[p] \/ (found # 0 /\ filling'[p] = fill)
    BY <1>1, <1>3 DEF CacheTypeOK
  <2> QED
    BY <1>1, <1>2, <1>4, <1>5, <2>1, <2>2 DEF CacheInv, FreshFill, CacheTypeOK
<1>9. CacheTypeOK'
  BY <1>1, <1>2, <1>3, <1>5, <1>6, <1>7, <1>8 DEF CacheTypeOK
<1>10. VersionsOnce'
  BY <1>1, <1>2 DEF VersionsOnce
<1> QED
  BY <1>7, <1>8, <1>9, <1>10 DEF CacheInv

\* A reader puts what it found: that was the directory's a fill ago.
LEMMA PutKeepsInv ==
  ASSUME CacheInv, NEW r \in Readers, Put(r), UNCHANGED now
  PROVE  CacheInv'
<1> DEFINE d == filling[r].did
           entry == [version |-> filling[r].version, at |-> now]
<1>1. CacheTypeOK /\ VersionsOnce /\ FreshFill(r) /\ filling[r] # NotFilling
  BY DEF CacheInv, Put
<1>2. /\ UNCHANGED <<now, stored, unwritten, writes, replacedAt>> /\ now \in Nat
      /\ filling' = [filling EXCEPT ![r] = NotFilling]
      /\ entry \in [version : Nat, at : Nat] /\ entry.at = now
      /\ entry.version = filling[r].version /\ FillTime \in Nat
  BY <1>1, CacheAssumption DEF Put, CacheTypeOK
<1>3. /\ kept' \in [Names -> {kept[e] : e \in Names} \cup {Missing, entry}]
      /\ \A e \in Names : kept'[e] = kept[e] \/ kept'[e] = Missing \/ kept'[e] = entry
  <2> DEFINE entries == MovedToEnd(order, d)
             over == Max({0, Len(entries) - MaxEntries})
  <2>1. kept' = [e \in Names |-> IF e = d THEN entry
                                ELSE IF \E i \in 1 .. over : entries[i] = e THEN Missing
                                ELSE kept[e]]
    BY DEF Put
  <2> HIDE DEF d, entry, entries, over
  <2> QED
    BY <2>1
<1> HIDE DEF d, entry
<1>4. kept' \in [Names -> [version : Nat, at : Nat]]
  BY <1>1, <1>2, <1>3 DEF CacheTypeOK, Missing
<1>5. entry.version \in DOMAIN replacedAt => entry.at - replacedAt[entry.version] <= FillTime
  BY <1>1, <1>2 DEF FreshFill, CacheTypeOK
<1>6. ASSUME NEW e \in Names
      PROVE  kept'[e].at <= now /\ FreshEntry(e)'
  BY <1>1, <1>2, <1>3, <1>5 DEF CacheInv, FreshEntry, CacheTypeOK, Missing
<1>7. ASSUME NEW p \in Readers
      PROVE  /\ filling'[p] \in [did : Names \cup {"none"}, version : Nat, since : Nat]
             /\ filling'[p].since <= now /\ FreshFill(p)'
  BY <1>1, <1>2 DEF CacheInv, FreshFill, CacheTypeOK, NotFilling
<1>8. CacheTypeOK'
  BY <1>1, <1>2, <1>4, <1>6, <1>7 DEF CacheTypeOK
<1>9. VersionsOnce'
  BY <1>1, <1>2 DEF VersionsOnce
<1> QED
  BY <1>6, <1>7, <1>8, <1>9 DEF CacheInv

\* What is cached, or about to be, was the directory's when it was looked up.
THEOREM CacheInvariance == CacheSpec => []CacheInv
<1>1. ClockInit /\ CacheInit => CacheInv
  BY DEF ClockInit, CacheInit, CacheInv, CacheTypeOK, VersionsOnce, FreshFill, FreshEntry,
         NotFilling, NoWrite, Missing
<1>2. CacheInv /\ [CacheNext]_<<now, cacheVars>> => CacheInv'
  <2> SUFFICES ASSUME CacheInv, [CacheNext]_<<now, cacheVars>>
               PROVE  CacheInv'
    OBVIOUS
  <2>0. CacheTypeOK /\ VersionsOnce
    BY DEF CacheInv
  <2>1. CASE UNCHANGED <<now, cacheVars>>
    BY <2>0, <2>1, CacheKeepsInv DEF cacheVars, CacheTypeOK
  <2>2. CASE /\ \A r \in Readers : filling[r] # NotFilling => now < filling[r].since + FillTime
             /\ Tick /\ UNCHANGED cacheVars
    <3>1. now' = now + 1 /\ now \in Nat /\ UNCHANGED cacheVars /\ FillTime \in Nat
      BY <2>0, <2>2, CacheAssumption DEF Tick, CacheTypeOK
    <3>2. CacheTypeOK'
      BY <2>0, <3>1 DEF CacheTypeOK, cacheVars
    <3>3. ASSUME NEW r \in Readers
          PROVE  FreshFill(r)'
      BY <2>0, <2>2, <3>1 DEF CacheInv, FreshFill, CacheTypeOK, cacheVars
    <3> QED
      BY <2>0, <3>1, <3>2, <3>3 DEF CacheInv, VersionsOnce, FreshEntry, cacheVars
  <2>3. ASSUME NEW d \in Names, UNCHANGED now, Register(d) \/ UnregisterDid(d)
        PROVE  CacheInv'
    BY <2>3, ExecuteKeepsInv DEF Register, UnregisterDid
  <2>4. ASSUME NEW gone, Drop(gone), filling' = filling \/ filling' = [r \in Readers |-> NotFilling],
               UNCHANGED <<now, stored, unwritten, writes, replacedAt>>
        PROVE  CacheInv'
    <3>1. kept' = [d \in Names |-> IF d \in gone THEN Missing ELSE kept[d]]
      BY <2>4 DEF Drop
    <3>2. kept' \in [Names -> [version : Nat, at : Nat]]
      BY <2>0, <3>1 DEF CacheTypeOK, Missing
    <3>3. filling' \in [Readers -> [did : Names \cup {"none"}, version : Nat, since : Nat]]
      BY <2>0, <2>4 DEF CacheTypeOK, NotFilling
    <3> QED
      BY <2>4, <3>1, <3>2, <3>3, CacheKeepsInv
  <2>5. ASSUME UNCHANGED now, Clear \/ Search \/ \E d \in Names : Invalidate(d)
        PROVE  CacheInv'
    BY <2>4, <2>5 DEF Clear, Search, Invalidate
  <2>6. ASSUME NEW d \in Names, UNCHANGED now, Hit(d)
        PROVE  CacheInv'
    BY <2>0, <2>6, CacheKeepsInv DEF Hit, CacheTypeOK
  <2>7. CASE UNCHANGED now /\ Restart
    <3>1. /\ unwritten' = NoWrite /\ kept' = [d \in Names |-> Missing]
          /\ filling' = [r \in Readers |-> NotFilling]
          /\ UNCHANGED <<now, stored, writes, replacedAt>>
      BY <2>7 DEF Restart
    <3>2. CacheTypeOK'
      BY <2>0, <3>1 DEF CacheTypeOK, Missing, NotFilling
    <3> QED
      BY <2>0, <3>1, <3>2
      DEF CacheInv, CacheTypeOK, VersionsOnce, FreshFill, FreshEntry, Missing, NotFilling
  <2> QED
    BY <2>1, <2>2, <2>3, <2>5, <2>6, <2>7, CommitKeepsInv, MissKeepsInv, PutKeepsInv DEF CacheNext
<1> QED
  BY <1>1, <1>2, PTL DEF CacheSpec

(***************************************************************************)
(* A cached answer is out of date by the TTL and the time of a fill at     *)
(* most.                                                                   *)
(***************************************************************************)
THEOREM BoundsStaleness == CacheSpec => []StalenessBounded
<1>1. ASSUME CacheInv
      PROVE  StalenessBounded
  <2> SUFFICES ASSUME NEW d \in Names, ~Expired(d), kept[d].version \in DOMAIN replacedAt
               PROVE  now - replacedAt[kept[d].version] <= CacheTtl + FillTime
    BY DEF StalenessBounded
  <2>1. /\ FreshEntry(d) /\ now \in Nat /\ kept[d].at \in Nat
        /\ replacedAt[kept[d].version] \in Nat
    BY <1>1 DEF CacheInv, CacheTypeOK
  <2> QED
    BY <2>1, CacheAssumption DEF FreshEntry, Expired
<1> QED
  BY <1>1, CacheInvariance, PTL

-----------------------------------------------------------------------------
Answers == [url : {ReadFrom(ch, u) : ch \in Channels, u \in Urls \cup {EmptyUrl}} \cup {NoUrl, ManualUrl},
            source : Channels \cup {"none", "manual"}, at : Nat]

\* A call waits for no longer than a fetch takes.
AwaitsInTime(c) ==
  /\ discovering[c].since \in Nat /\ discovering[c].since <= now
  /\ discovering[c].awaits # "none" => now <= discovering[c].since + FetchTime

\* url was what the channel showed at t or later.
ShownBy(channel, url, t) ==
  \E u \in Urls \cup {EmptyUrl} : ShownSince(channel, u, t) /\ url = ReadFrom(channel, u)

(***************************************************************************)
(* What a call waits for is as old as a fetch at most, and what the cache  *)
(* holds was as old as a fetch, or the TTL of the zone, when it was put    *)
(* there.                                                                  *)
(***************************************************************************)
DnsInv ==
  /\ now \in Nat
  /\ published \in [Channels -> Urls \cup {NoUrl, EmptyUrl}]
  /\ \A x \in DOMAIN takenDown : takenDown[x] \in Nat /\ takenDown[x] <= now
  /\ discovering \in [Callers -> [awaits : {"none", "well-known", "did-web", "anp"}, since : Nat]]
  /\ \A c \in Callers : AwaitsInTime(c)
  /\ dnsCache \in Answers /\ dnsCache.at <= now
  /\ dnsCache.url # NoUrl /\ dnsCache.source # "manual" =>
       /\ dnsCache.source \in Channels
       /\ ShownBy(dnsCache.source, dnsCache.url, dnsCache.at - AgeOf(dnsCache.source))

\* The bounds on the age of an answer are times.
LEMMA FetchIsTimed == FetchTime \in Nat /\ ZoneTtl \in Nat /\ \A ch : AgeOf(ch) \in Nat
BY DnsAssumption DEF AgeOf

\* What was shown since a time of the past stays so.
LEMMA ShownStays ==
  ASSUME DnsInv, [DnsNext]_<<now, dnsVars>>,
         NEW ch \in Channels, NEW u, NEW t \in Int, t <= now, ShownSince(ch, u, t)
  PROVE  ShownSince(ch, u, t)'
<1>1. CASE UNCHANGED <<published, takenDown>>
  BY <1>1 DEF ShownSince
<1>2. CASE \E doc \in Files, v \in Urls \cup {NoUrl, EmptyUrl} : Publish(doc, v)
  <2>1. PICK doc \in Files, v \in Urls \cup {NoUrl, EmptyUrl} : Publish(doc, v)
    BY <1>2
  <2> DEFINE replaced == {<<c, published[c]>> : c \in doc}
  <2>2. /\ published' = [c \in Channels |-> IF c \in doc THEN v ELSE published[c]]
        /\ takenDown' = [x \in DOMAIN takenDown \cup replaced |->
                           IF x \in replaced THEN now ELSE takenDown[x]]
    BY <2>1 DEF Publish
  <2>3. now \in Nat /\ \A x \in DOMAIN takenDown : takenDown[x] \in Nat
    BY DEF DnsInv
  <2>4. CASE published[ch] = u /\ ch \in doc
    <3>1. <<ch, u>> \in replaced
      BY <2>4
    <3> HIDE DEF replaced
    <3>2. <<ch, u>> \in DOMAIN takenDown' /\ takenDown'[<<ch, u>>] = now
      BY <2>2, <3>1
    <3> QED
      BY <2>3, <3>2 DEF ShownSince
  <2>5. CASE published[ch] = u /\ ch \notin doc
    BY <2>2, <2>5 DEF ShownSince
  <2>6. CASE <<ch, u>> \in DOMAIN takenDown /\ takenDown[<<ch, u>>] >= t
    <3> HIDE DEF replaced
    <3>1. /\ <<ch, u>> \in DOMAIN takenDown'
          /\ takenDown'[<<ch, u>>] \in {now, takenDown[<<ch, u>>]}
      BY <2>2, <2>6
    <3> QED
      BY <2>3, <2>6, <3>1 DEF ShownSince
  <2> QED
    BY <2>4, <2>5, <2>6 DEF ShownSince
<1> QED
  BY <1>1, <1>2 DEF DnsNext, dnsVars, CacheHit, Discover, WellKnownAnswers, DidWebAnswers,
                    AnpAnswers

\* An answer of a channel is cached: it was shown since the fetch began, or
\* within the TTL of the zone.
LEMMA ReturnKeepsInv ==
  ASSUME DnsInv, NEW c \in Callers, NEW ch \in Channels, NEW t \in Int, NEW u \in Found(ch, t),
         now <= t + AgeOf(ch), u # NoUrl, Return(c, u, ch),
         UNCHANGED <<now, published, takenDown, changes>>
  PROVE  DnsInv'
<1>1. PICK v \in Urls \cup {EmptyUrl} : ShownSince(ch, v, t) /\ u = ReadFrom(ch, v)
  BY DEF Found
<1>2. dnsCache' = [url |-> u, source |-> ch, at |-> now]
  BY DEF Return
<1>3. /\ dnsCache' \in Answers /\ dnsCache'.at = now /\ dnsCache'.url = u
      /\ dnsCache'.source = ch
  BY <1>1, <1>2 DEF Answers, DnsInv
<1>4. now \in Nat /\ AgeOf(ch) \in Nat /\ FetchTime \in Nat
  BY FetchIsTimed DEF DnsInv
<1>5. ShownSince(ch, v, now - AgeOf(ch))'
  <2>1. published[ch] = v => published'[ch] = v
    OBVIOUS
  <2> QED
    BY <1>1, <1>4 DEF ShownSince, DnsInv
<1>6. ShownBy(dnsCache.source, dnsCache.url, dnsCache.at - AgeOf(dnsCache.source))'
  BY <1>1, <1>3, <1>5 DEF ShownBy, AgeOf, Zone
<1>7. discovering' = [discovering EXCEPT ![c] = NotAsking]
  BY DEF Return
<1>8. /\ discovering' \in [Callers -> [awaits : {"none", "well-known", "did-web", "anp"}, since : Nat]]
      /\ \A d \in Callers : AwaitsInTime(d)'
  BY <1>4, <1>7 DEF DnsInv, AwaitsInTime, NotAsking
<1> QED
  BY <1>3, <1>4, <1>6, <1>8 DEF DnsInv

\* A fetch has found nothing: the call goes on to the next, or ends.
LEMMA CallKeepsInv ==
  ASSUME DnsInv, NEW c \in Callers,
         NEW awaits \in {"none", "well-known", "did-web", "anp"},
         NEW since \in Nat, since = now \/ (awaits = "none" /\ since = 0),
         discovering' = [discovering EXCEPT ![c] = [awaits |-> awaits, since |-> since]],
         UNCHANGED <<now, published, takenDown, changes, dnsCache>>
  PROVE  DnsInv'
<1>1. now \in Nat /\ FetchTime \in Nat
  BY FetchIsTimed DEF DnsInv
<1>2. /\ discovering' \in [Callers -> [awaits : {"none", "well-known", "did-web", "anp"}, since : Nat]]
      /\ \A d \in Callers : AwaitsInTime(d)'
  BY <1>1 DEF DnsInv, AwaitsInTime
<1>3. dnsCache.url # NoUrl /\ dnsCache.source # "manual" =>
        ShownBy(dnsCache.source, dnsCache.url, dnsCache.at - AgeOf(dnsCache.source))'
  BY DEF DnsInv, ShownBy, ShownSince, AgeOf, Zone
<1> QED
  BY <1>1, <1>2, <1>3 DEF DnsInv

\* The manual URL is cached like any other answer.
LEMMA ManualKeepsInv ==
  ASSUME DnsInv, NEW c \in Callers, Return(c, ManualUrl, "manual"),
         UNCHANGED <<now, published, takenDown, changes>>
  PROVE  DnsInv'
<1>1. now \in Nat
  BY DEF DnsInv
<1>2. dnsCache' = [url |-> ManualUrl, source |-> "manual", at |-> now]
  BY DEF Return
<1>3. dnsCache' \in Answers /\ dnsCache'.at = now /\ dnsCache'.source = "manual"
  BY <1>1, <1>2 DEF Answers
<1>4. /\ discovering' \in [Callers -> [awaits : {"none", "well-known", "did-web", "anp"}, since : Nat]]
      /\ \A d \in Callers : AwaitsInTime(d)'
  BY <1>1 DEF Return, DnsInv, AwaitsInTime, NotAsking
<1> QED
  BY <1>1, <1>3, <1>4 DEF DnsInv

\* What the cache says was shown is shown still, though time passes or the
\* domain publishes.
LEMMA OutsideKeepsInv ==
  ASSUME DnsInv, [DnsNext]_<<now, dnsVars>>, UNCHANGED <<dnsCache, discovering>>,
         now' \in Nat, now <= now', \A c \in Callers : AwaitsInTime(c)',
         published' \in [Channels -> Urls \cup {NoUrl, EmptyUrl}],
         \A x \in DOMAIN takenDown' : takenDown'[x] \in Nat /\ takenDown'[x] <= now'
  PROVE  DnsInv'
<1>1. \A ch : AgeOf(ch) \in Nat
  BY FetchIsTimed
<1>2. dnsCache.at \in Nat /\ dnsCache.at <= now /\ now \in Nat
      /\ dnsCache.source \in Channels \cup {"none", "manual"}
  BY DEF DnsInv, Answers
<1>3. dnsCache.url # NoUrl /\ dnsCache.source # "manual" =>
        ShownBy(dnsCache.source, dnsCache.url, dnsCache.at - AgeOf(dnsCache.source))'
  <2> SUFFICES ASSUME dnsCache.url # NoUrl, dnsCache.source # "manual"
               PROVE  ShownBy(dnsCache.source, dnsCache.url, dnsCache.at - AgeOf(dnsCache.source))'
    OBVIOUS
  <2>1. PICK u \in Urls \cup {EmptyUrl} : /\ ShownSince(dnsCache.source, u, dnsCache.at - AgeOf(dnsCache.source))
                          /\ dnsCache.url = ReadFrom(dnsCache.source, u)
    BY DEF DnsInv, ShownBy
  <2>2. PICK ch \in Channels, t \in Int : ch = dnsCache.source /\ t = dnsCache.at - AgeOf(dnsCache.source)
    BY <1>1, <1>2 DEF DnsInv
  <2>3. ShownSince(ch, u, t)'
    BY <1>1, <1>2, <2>1, <2>2, ShownStays
  <2>4. dnsCache'.source = ch /\ (dnsCache.at - AgeOf(dnsCache.source))' = t /\ dnsCache'.url = ReadFrom(ch, u)
    BY <2>1, <2>2 DEF AgeOf, Zone
  <2> QED
    BY <2>3, <2>4 DEF ShownBy, AgeOf, Zone
<1> QED
  BY <1>2, <1>3 DEF DnsInv

\* The answers of the cache come from what the domain has published.
THEOREM DnsInvariance == DnsSpec => []DnsInv
<1>1. ClockInit /\ DnsInit => DnsInv
  <2> SUFFICES ASSUME ClockInit, DnsInit
               PROVE  DnsInv
    OBVIOUS
  <2>1. dnsCache \in Answers /\ dnsCache.at = 0 /\ dnsCache.url = NoUrl
    BY DEF DnsInit, Answers
  <2>2. \A c \in Callers : AwaitsInTime(c)
    BY DEF ClockInit, DnsInit, AwaitsInTime, NotAsking
  <2> QED
    BY <2>1, <2>2 DEF ClockInit, DnsInit, DnsInv, NotAsking
<1>2. DnsInv /\ [DnsNext]_<<now, dnsVars>> => DnsInv'
  <2> SUFFICES ASSUME DnsInv, [DnsNext]_<<now, dnsVars>>
               PROVE  DnsInv'
    OBVIOUS
  <2>1. now \in Nat /\ FetchTime \in Nat
    BY FetchIsTimed DEF DnsInv
  <2>2. CASE UNCHANGED <<now, dnsVars>>
    BY <2>1, <2>2, OutsideKeepsInv DEF dnsVars, DnsInv, AwaitsInTime
  <2>3. CASE /\ \A c \in Callers :
                  discovering[c] # NotAsking => now < discovering[c].since + FetchTime
             /\ Tick /\ UNCHANGED dnsVars
    <3>1. now' = now + 1 /\ UNCHANGED dnsVars
      BY <2>3 DEF Tick
    <3>2. ASSUME NEW c \in Callers
          PROVE  AwaitsInTime(c)'
      <4>1. AwaitsInTime(c) /\ (discovering[c].awaits # "none" => discovering[c] # NotAsking)
        BY DEF DnsInv, NotAsking
      <4> QED
        BY <2>1, <2>3, <3>1, <4>1 DEF AwaitsInTime, dnsVars
    <3> QED
      BY <2>1, <3>1, <3>2, OutsideKeepsInv DEF dnsVars, DnsInv
  <2>4. ASSUME NEW doc \in Files, NEW u \in Urls \cup {NoUrl, EmptyUrl}, UNCHANGED now, Publish(doc, u)
        PROVE  DnsInv'
    <3>1. published' \in [Channels -> Urls \cup {NoUrl, EmptyUrl}]
      BY <2>4 DEF Publish, DnsInv
    <3>2. \A x \in DOMAIN takenDown' : takenDown'[x] \in Nat /\ takenDown'[x] <= now'
      BY <2>1, <2>4 DEF Publish, DnsInv
    <3>3. UNCHANGED <<dnsCache, discovering>>
      BY <2>4 DEF Publish
    <3>4. \A c \in Callers : AwaitsInTime(c)'
      BY <2>4, <3>3 DEF DnsInv, AwaitsInTime
    <3> QED
      BY <2>1, <2>4, <3>1, <3>2, <3>3, <3>4, OutsideKeepsInv
  <2>5. ASSUME NEW c \in Callers, UNCHANGED now, Discover(c)
        PROVE  DnsInv'
    <3>1. PICK srv \in Found("dns", now - ZoneTtl), txt \in Found("dns-aid", now - ZoneTtl) :
            \/ srv # NoUrl /\ Return(c, srv, "dns")
            \/ srv = NoUrl /\ txt # NoUrl /\ Return(c, txt, "dns-aid")
            \/ srv = NoUrl /\ txt = NoUrl /\ Await(c, "well-known")
      BY <2>5 DEF Discover
    <3>2. UNCHANGED <<now, published, takenDown, changes>>
      BY <2>5 DEF Discover
    <3>6. /\ now - ZoneTtl \in Int
          /\ \A ch \in Zone : ch \in Channels /\ now <= (now - ZoneTtl) + AgeOf(ch)
      BY <2>1, DnsAssumption DEF AgeOf, Zone, Channels
    <3>3. CASE srv # NoUrl /\ Return(c, srv, "dns")
      BY <3>2, <3>3, <3>6, ReturnKeepsInv DEF Zone
    <3>4. CASE txt # NoUrl /\ Return(c, txt, "dns-aid")
      BY <3>2, <3>4, <3>6, ReturnKeepsInv DEF Zone
    <3>5. CASE Await(c, "well-known")
      BY <2>1, <3>2, <3>5, CallKeepsInv DEF Await
    <3> QED
      BY <3>1, <3>3, <3>4, <3>5
  <2>6. ASSUME NEW c \in Callers, NEW ch \in {"well-known", "did-web", "anp"},
               discovering[c].awaits = ch, UNCHANGED <<now, published, takenDown, changes>>,
               NEW u \in Found(ch, discovering[c].since),
               u # NoUrl, Return(c, u, ch)
        PROVE  DnsInv'
    <3>1. discovering[c].since \in Int /\ now <= discovering[c].since + AgeOf(ch)
      BY <2>6 DEF DnsInv, AwaitsInTime, AgeOf, Zone
    <3> QED
      BY <2>6, <3>1, ReturnKeepsInv DEF Channels
  <2>7. ASSUME NEW c \in Callers, NEW ch \in {"did-web", "anp"}, Await(c, ch),
               UNCHANGED <<now, published, takenDown, changes>>
        PROVE  DnsInv'
    BY <2>1, <2>7, CallKeepsInv DEF Await
  <2>8. ASSUME NEW c \in Callers, UNCHANGED now, WellKnownAnswers(c)
        PROVE  DnsInv'
    BY <2>6, <2>7, <2>8 DEF WellKnownAnswers
  <2>9. ASSUME NEW c \in Callers, UNCHANGED now, DidWebAnswers(c)
        PROVE  DnsInv'
    BY <2>6, <2>7, <2>9 DEF DidWebAnswers
  <2>10. ASSUME NEW c \in Callers, UNCHANGED now, AnpAnswers(c)
         PROVE  DnsInv'
    <3>1. UNCHANGED <<now, published, takenDown, changes>>
      BY <2>10 DEF AnpAnswers
    <3>2. CASE Return(c, ManualUrl, "manual")
      BY <3>1, <3>2, ManualKeepsInv
    <3>3. CASE discovering' = [discovering EXCEPT ![c] = NotAsking] /\ UNCHANGED dnsCache
      BY <3>1, <3>3, CallKeepsInv DEF NotAsking
    <3> QED
      BY <2>6, <2>10, <3>1, <3>2, <3>3 DEF AnpAnswers
  <2> QED
    BY <2>2, <2>3, <2>4, <2>5, <2>8, <2>9, <2>10 DEF DnsNext, CacheHit
<1> QED
  BY <1>1, <1>2, PTL DEF DnsSpec

\* A URL with no path is read from any channel as one that leads to its host.
LEMMA PlainLeads ==
  ASSUME NEW u \in Urls \cup {EmptyUrl}, NEW ch, IsPlain(u)
  PROVE  HostOf(ReadFrom(ch, u)) = HostOf(u)
<1>1. CASE u # NoUrl /\ ch = "dns"
  <2>1. u.port \in Nat /\ u.scheme = "https"
    BY DnsAssumption DEF IsPlain, EmptyUrl
  <2>2. ReadFrom(ch, u) = [scheme |-> "https", host |-> u.host,
                           port |-> IF u.port = 0 THEN 443 ELSE u.port, path |-> NoPath]
    BY <1>1 DEF ReadFrom, UrlOfSrv, SrvRecord
  <2> QED
    BY <2>1, <2>2 DEF HostOf, Port
<1> QED
  BY <1>1 DEF ReadFrom

(***************************************************************************)
(* A client is led to a hub the domain has published of late.              *)
(***************************************************************************)
THEOREM LeadsToTheHub == DnsSpec => []LeadsToPublishedHub
<1>1. ASSUME DnsInv
      PROVE  LeadsToPublishedHub
  <2> SUFFICES ASSUME CacheAnswers, dnsCache.source # "manual"
               PROVE  \E u \in Urls \cup {EmptyUrl} :
                        /\ ShownSince(dnsCache.source, u, now - DnsTtl - AgeOf(dnsCache.source) + 1)
                        /\ dnsCache.url = ReadFrom(dnsCache.source, u)
                        /\ IsPlain(u) => HostOf(dnsCache.url) = HostOf(u)
    BY DEF LeadsToPublishedHub
  <2>1. PICK u \in Urls \cup {EmptyUrl} : /\ ShownSince(dnsCache.source, u, dnsCache.at - AgeOf(dnsCache.source))
                          /\ dnsCache.url = ReadFrom(dnsCache.source, u)
    BY <1>1 DEF DnsInv, CacheAnswers, ShownBy
  <2>2. dnsCache.at - AgeOf(dnsCache.source) >= now - DnsTtl - AgeOf(dnsCache.source) + 1
    BY <1>1, DnsAssumption, FetchIsTimed DEF DnsInv, Answers, CacheAnswers
  <2>3. ShownSince(dnsCache.source, u, now - DnsTtl - AgeOf(dnsCache.source) + 1)
    <3>1. \A x \in DOMAIN takenDown : takenDown[x] \in Nat
      BY <1>1 DEF DnsInv
    <3>2. /\ dnsCache.at - AgeOf(dnsCache.source) \in Int
          /\ now - DnsTtl - AgeOf(dnsCache.source) + 1 \in Int
      BY <1>1, DnsAssumption, FetchIsTimed DEF DnsInv, Answers
    <3> QED
      BY <2>1, <2>2, <3>1, <3>2 DEF ShownSince
  <2> QED
    BY <2>1, <2>3, PlainLeads
<1> QED
  BY <1>1, DnsInvariance, PTL

-----------------------------------------------------------------------------
\* Entries 1 to n of a list, or all if it is shorter.
Upto(s, n) == {s[i] : i \in {j \in DOMAIN s : j <= n}}

\* A client that pages has seen what is listed before its offset, of the
\* agents that were there when it began, and nothing from behind it.
Paging ==
  /\ IsInjective(walk.seen)
  /\ walk.goal \subseteq Range(listing)
  /\ Range(walk.seen) \subseteq Upto(listing, walk.at)
  /\ Upto(listing, walk.at) \cap walk.goal \subseteq Range(walk.seen)
  /\ ~walk.open => walk.goal \subseteq Range(walk.seen)

RegistryInv ==
  /\ listing \in Seq(Dids) /\ IsInjective(listing)
  /\ walk \in [at : Nat, goal : SUBSET Dids, seen : Seq(Dids), open : BOOLEAN]
  /\ Paging

\* The smaller of two numbers.
LEMMA MinOfTwo ==
  ASSUME NEW m \in Nat, NEW n \in Nat
  PROVE  Min({m, n}) = IF m <= n THEN m ELSE n
BY DEF Min

\* A page: what is listed behind the offset, as far as the page goes.
LEMMA PageIs ==
  ASSUME NEW n \in Nat, listing \in Seq(Dids)
  PROVE  /\ Page(n) \in Seq(Dids)
         /\ Len(Page(n)) = IF n + Limit <= Len(listing) THEN Limit
                           ELSE IF n <= Len(listing) THEN Len(listing) - n ELSE 0
         /\ \A i \in 1 .. Len(Page(n)) :
              n + i \in 1 .. Len(listing) /\ i <= Limit /\ Page(n)[i] = listing[n + i]
<1> DEFINE end == Min({n + Limit, Len(listing)})
<1>1. /\ Limit \in Nat \ {0} /\ Len(listing) \in Nat
      /\ end = IF n + Limit <= Len(listing) THEN n + Limit ELSE Len(listing)
  BY MinOfTwo, RegistryAssumption
<1> HIDE DEF end
<1>2. Page(n) = SubSeq(listing, n + 1, end)
  BY DEF Page, end
<1>3. \A i \in n + 1 .. end : listing[i] \in Dids
  BY <1>1
<1>4. SubSeq(listing, n + 1, end) \in Seq(Dids)
  BY <1>1, <1>3, SubSeqProperties
<1> QED
  BY <1>1, <1>2, <1>4

\* A list grows at its end, by elements that it does not have.
LEMMA GrowsByNew ==
  ASSUME NEW S, NEW s \in Seq(S), IsInjective(s), NEW new \in Seq(S), IsInjective(new),
         Range(s) \cap Range(new) = {}
  PROVE  /\ s \o new \in Seq(S) /\ IsInjective(s \o new)
         /\ Range(s \o new) = Range(s) \cup Range(new)
<1> DEFINE both == s \o new
<1>1. /\ both \in Seq(S) /\ Len(both) = Len(s) + Len(new)
      /\ \A i \in 1 .. Len(s) + Len(new) :
           both[i] = IF i <= Len(s) THEN s[i] ELSE new[i - Len(s)]
  BY ConcatProperties
<1>2. Len(s) \in Nat /\ Len(new) \in Nat
  OBVIOUS
<1>3. Range(both) = Range(s) \cup Range(new)
  BY RangeConcatenation
<1> HIDE DEF both
<1>4. ASSUME NEW i \in DOMAIN both, NEW j \in DOMAIN both, both[i] = both[j]
      PROVE  i = j
  <2>1. i \in 1 .. Len(s) + Len(new) /\ j \in 1 .. Len(s) + Len(new)
    BY <1>1
  <2>2. \A n \in 1 .. Len(s) : s[n] \in Range(s)
    BY DEF Range
  <2>3. \A n \in 1 .. Len(new) : new[n] \in Range(new)
    BY DEF Range
  <2>4. CASE i <= Len(s) /\ j <= Len(s)
    BY <1>1, <1>2, <1>4, <2>1, <2>4 DEF IsInjective
  <2>5. CASE ~(i <= Len(s)) /\ ~(j <= Len(s))
    <3>1. i - Len(s) \in DOMAIN new /\ j - Len(s) \in DOMAIN new
      BY <1>2, <2>1, <2>5
    <3>2. new[i - Len(s)] = new[j - Len(s)]
      BY <1>1, <1>4, <2>1, <2>5
    <3> QED
      BY <1>2, <2>1, <3>1, <3>2 DEF IsInjective
  <2>6. CASE i <= Len(s) /\ ~(j <= Len(s))
    <3>1. i \in 1 .. Len(s) /\ j - Len(s) \in 1 .. Len(new)
      BY <1>2, <2>1, <2>6
    <3> QED
      BY <1>1, <1>4, <2>1, <2>2, <2>3, <2>6, <3>1
  <2>7. CASE ~(i <= Len(s)) /\ j <= Len(s)
    <3>1. j \in 1 .. Len(s) /\ i - Len(s) \in 1 .. Len(new)
      BY <1>2, <2>1, <2>7
    <3> QED
      BY <1>1, <1>4, <2>1, <2>2, <2>3, <2>7, <3>1
  <2> QED
    BY <2>4, <2>5, <2>6, <2>7
<1>5. IsInjective(both)
  BY <1>4 DEF IsInjective
<1> QED
  BY <1>1, <1>3, <1>5 DEF both

\* Agents are listed behind the others.
LEMMA IngestKeepsInv ==
  ASSUME RegistryInv, NEW p \in Pulls, Ingest(p)
  PROVE  RegistryInv'
<1>1. /\ listing \in Seq(Dids) /\ IsInjective(listing) /\ UNCHANGED walk
      /\ walk \in [at : Nat, goal : SUBSET Dids, seen : Seq(Dids), open : BOOLEAN]
  BY DEF RegistryInv, Ingest
<1>2. PICK versions :
        \E new \in SetToSeqs({d \in Dids : versions[d] > 0} \ Range(listing)) : listing' = listing \o new
  BY DEF Ingest, Listed
<1> DEFINE S == {d \in Dids : versions[d] > 0} \ Range(listing)
<1>3. PICK new \in SetToSeqs(S) : listing' = listing \o new
  BY <1>2
<1>4. S \subseteq Dids /\ S \cap Range(listing) = {} /\ Cardinality(S) \in Nat
  BY RegistryAssumption, FS_Subset, FS_CardinalityType
<1> HIDE DEF S
<1>5. /\ new \in Seq(Dids) /\ IsInjective(new) /\ Range(new) \subseteq S
  <2>1. /\ new \in [1 .. Cardinality(S) -> S]
        /\ \A i, j \in 1 .. Cardinality(S) : i # j => new[i] # new[j]
    BY <1>3 DEF SetToSeqs
  <2>2. new \in Seq(S)
    BY <1>4, <2>1, SeqDef
  <2> QED
    BY <1>4, <2>1, <2>2, SeqMonotonic, RangeOfSeq DEF IsInjective
<1>6. Range(listing) \cap Range(new) = {}
  BY <1>4, <1>5
<1>7. /\ listing' \in Seq(Dids) /\ IsInjective(listing')
      /\ Range(listing') = Range(listing) \cup Range(new)
  BY <1>1, <1>3, <1>5, <1>6, GrowsByNew
<1>8. /\ \A i \in 1 .. Len(listing) : i \in 1 .. Len(listing') /\ listing'[i] = listing[i]
      /\ \A i \in 1 .. Len(listing') : i \in 1 .. Len(listing) \/ listing'[i] \in Range(new)
  <2>1. /\ Len(listing') = Len(listing) + Len(new)
        /\ \A i \in 1 .. Len(listing) + Len(new) :
             listing'[i] = IF i <= Len(listing) THEN listing[i] ELSE new[i - Len(listing)]
    BY <1>1, <1>3, <1>5, ConcatProperties
  <2>2. Len(listing) \in Nat /\ Len(new) \in Nat /\ \A i \in 1 .. Len(new) : new[i] \in Range(new)
    BY <1>1, <1>5 DEF Range
  <2> QED
    BY <2>1, <2>2
<1>9. Paging'
  <2>1. Upto(listing, walk.at) \subseteq Upto(listing', walk.at)
    BY <1>1, <1>7, <1>8 DEF Upto
  <2>2. Upto(listing', walk.at) \subseteq Upto(listing, walk.at) \cup Range(new)
    BY <1>1, <1>7, <1>8 DEF Upto
  <2> QED
    BY <1>1, <1>6, <1>7, <2>1, <2>2 DEF RegistryInv, Paging
<1> QED
  BY <1>1, <1>7, <1>9 DEF RegistryInv

\* The next page is new to who has seen entries before it only.
LEMMA PageGoesOn ==
  ASSUME NEW n \in Nat, listing \in Seq(Dids), IsInjective(listing),
         NEW seen \in Seq(Dids), IsInjective(seen), Range(seen) \subseteq Upto(listing, n)
  PROVE  /\ seen \o Page(n) \in Seq(Dids) /\ IsInjective(seen \o Page(n))
         /\ Range(seen \o Page(n)) = Range(seen) \cup Range(Page(n))
         /\ Upto(listing, n + Limit) = Upto(listing, n) \cup Range(Page(n))
<1> DEFINE page == Page(n)
<1>0. /\ page \in Seq(Dids)
      /\ Len(page) = IF n + Limit <= Len(listing) THEN Limit
                     ELSE IF n <= Len(listing) THEN Len(listing) - n ELSE 0
      /\ \A i \in 1 .. Len(page) :
           n + i \in 1 .. Len(listing) /\ i <= Limit /\ page[i] = listing[n + i]
  BY PageIs, Zenon
<1> HIDE DEF page
<1>1. page \in Seq(Dids) /\ DOMAIN page = 1 .. Len(page) /\ DOMAIN listing = 1 .. Len(listing)
  BY <1>0
<1>2. Len(page) \in Nat /\ Len(listing) \in Nat /\ Limit \in Nat /\ n \in Nat
  BY <1>0, RegistryAssumption
<1>3. \A i \in 1 .. Len(page) : n + i \in DOMAIN listing /\ page[i] = listing[n + i]
  BY <1>0
<1>4. Range(page) = {page[i] : i \in 1 .. Len(page)}
  BY <1>1, RangeEquality
<1>5. IsInjective(page)
  <2> SUFFICES ASSUME NEW i \in 1 .. Len(page), NEW j \in 1 .. Len(page), page[i] = page[j]
               PROVE  i = j
    BY <1>1 DEF IsInjective
  <2>1. listing[n + i] = listing[n + j] /\ n + i \in DOMAIN listing /\ n + j \in DOMAIN listing
    BY <1>3
  <2>2. n + i = n + j
    BY <2>1 DEF IsInjective
  <2>3. i \in Nat /\ j \in Nat
    BY <1>2
  <2> QED
    BY <1>2, <2>2, <2>3
<1>6. Upto(listing, n) \cap Range(page) = {}
  <2> SUFFICES ASSUME NEW i \in 1 .. Len(page), NEW j \in DOMAIN listing, j <= n,
                      page[i] = listing[j]
               PROVE  FALSE
    BY <1>4 DEF Upto
  <2>1. n + i \in DOMAIN listing /\ listing[n + i] = listing[j]
    BY <1>3
  <2>2. n + i = j
    BY <2>1 DEF IsInjective
  <2>3. i \in Nat /\ i > 0
    BY <1>2
  <2> QED
    BY <1>2, <2>2, <2>3
<1>7. Upto(listing, n + Limit) = Upto(listing, n) \cup Range(page)
  <2>1. ASSUME NEW j \in DOMAIN listing, j <= n + Limit, ~(j <= n)
        PROVE  listing[j] \in Range(page)
    <3>1. j \in Nat /\ j <= Len(listing)
      BY <1>1, <1>2
    <3>2. j - n \in 1 .. Len(page) /\ n + (j - n) = j
      BY <1>0, <1>2, <2>1, <3>1
    <3> QED
      BY <1>3, <1>4, <3>2
  <2>2. ASSUME NEW i \in 1 .. Len(page)
        PROVE  page[i] \in Upto(listing, n + Limit)
    <3>1. n + i \in DOMAIN listing /\ page[i] = listing[n + i] /\ i <= Limit
      BY <1>0, <1>3
    <3>2. n + i <= n + Limit
      BY <1>2, <3>1
    <3> QED
      BY <3>1, <3>2 DEF Upto
  <2>3. Upto(listing, n) \subseteq Upto(listing, n + Limit)
    <3>1. \A j \in DOMAIN listing : j <= n => j <= n + Limit
      BY <1>1, <1>2
    <3> QED
      BY <3>1 DEF Upto
  <2>4. Upto(listing, n + Limit) \subseteq Upto(listing, n) \cup Range(page)
    BY <2>1 DEF Upto
  <2> QED
    BY <1>4, <2>2, <2>3, <2>4
<1>8. Range(seen) \cap Range(page) = {}
  BY <1>6
<1>9. /\ seen \o page \in Seq(Dids) /\ IsInjective(seen \o page)
      /\ Range(seen \o page) = Range(seen) \cup Range(page)
  <2>1. page \in Seq(Dids)
    BY <1>0
  <2> QED
    BY <2>1, <1>5, <1>8, GrowsByNew
<1> QED
  BY <1>7, <1>9 DEF page

\* What a client sees of the listing, page after page.
THEOREM RegistryInvariance == RegistrySpec => []RegistryInv
<1>1. RegistryInit => RegistryInv
  BY DEF RegistryInit, RegistryInv, Paging, Resting, Upto, Range, IsInjective
<1>2. RegistryInv /\ [RegistryNext]_registryVars => RegistryInv'
  <2> SUFFICES ASSUME RegistryInv, [RegistryNext]_registryVars
               PROVE  RegistryInv'
    OBVIOUS
  <2>0. /\ listing \in Seq(Dids) /\ IsInjective(listing) /\ Paging
        /\ walk \in [at : Nat, goal : SUBSET Dids, seen : Seq(Dids), open : BOOLEAN]
        /\ Limit \in Nat \ {0}
    BY RegistryAssumption DEF RegistryInv
  <2>1. ASSUME UNCHANGED <<listing, walk>>
        PROVE  RegistryInv'
    BY <2>0, <2>1 DEF RegistryInv, Paging
  <2>2. CASE FirstPage
    <3> DEFINE w == [at |-> Limit, goal |-> Range(listing), seen |-> Page(0), open |-> TRUE]
    <3>1. walk' = w /\ UNCHANGED listing
      BY <2>2 DEF FirstPage
    <3>2. <<>> \in Seq(Dids) /\ IsInjective(<<>>) /\ Range(<<>>) = {} /\ Upto(listing, 0) = {}
      BY <2>0 DEF IsInjective, Range, Upto
    <3>3. Page(0) \in Seq(Dids)
      BY <2>0, PageIs
    <3>4. /\ <<>> \o Page(0) = Page(0)
          /\ 0 + Limit = Limit
      BY <2>0, <3>3, ConcatEmptySeq
    <3>5. /\ IsInjective(Page(0)) /\ Upto(listing, Limit) = Range(Page(0))
      <4>1. /\ IsInjective(<<>> \o Page(0))
            /\ Upto(listing, 0 + Limit) = Upto(listing, 0) \cup Range(Page(0))
        BY <2>0, <3>2, PageGoesOn
      <4> QED
        BY <3>2, <3>4, <4>1
    <3>6. Range(listing) \subseteq Dids
      BY <2>0, RangeOfSeq
    <3>7. /\ w \in [at : Nat, goal : SUBSET Dids, seen : Seq(Dids), open : BOOLEAN]
          /\ w.at = Limit /\ w.goal = Range(listing) /\ w.seen = Page(0) /\ w.open
      BY <2>0, <3>3, <3>6
    <3> HIDE DEF w
    <3> QED
      BY <2>0, <3>1, <3>5, <3>7 DEF RegistryInv, Paging
  <2>3. CASE NextPage /\ Page(walk.at) # <<>>
    <3> DEFINE moved == [walk EXCEPT !.at = walk.at + Limit]
               w == [moved EXCEPT !.seen = walk.seen \o Page(walk.at)]
    <3>1. walk' = w /\ UNCHANGED listing
      BY <2>0, <2>3 DEF NextPage
    <3>2. /\ walk.seen \o Page(walk.at) \in Seq(Dids) /\ IsInjective(walk.seen \o Page(walk.at))
          /\ Range(walk.seen \o Page(walk.at)) = Range(walk.seen) \cup Range(Page(walk.at))
          /\ Upto(listing, walk.at + Limit) = Upto(listing, walk.at) \cup Range(Page(walk.at))
      BY <2>0, PageGoesOn DEF Paging
    <3>3. /\ moved \in [at : Nat, goal : SUBSET Dids, seen : Seq(Dids), open : BOOLEAN]
          /\ moved.at = walk.at + Limit /\ moved.goal = walk.goal /\ moved.open = walk.open
      BY <2>0
    <3> HIDE DEF moved
    <3>4. /\ w \in [at : Nat, goal : SUBSET Dids, seen : Seq(Dids), open : BOOLEAN]
          /\ w.at = walk.at + Limit /\ w.goal = walk.goal /\ w.open = walk.open
          /\ w.seen = walk.seen \o Page(walk.at)
      BY <3>2, <3>3
    <3> HIDE DEF w
    <3>5. walk.open
      BY <2>3 DEF NextPage
    <3> QED
      BY <2>0, <3>1, <3>2, <3>4, <3>5 DEF RegistryInv, Paging
  <2>4. CASE NextPage /\ Page(walk.at) = <<>>
    <3> DEFINE w == [walk EXCEPT !.open = FALSE]
    <3>1. walk' = w /\ UNCHANGED listing
      BY <2>4 DEF NextPage
    <3>2. /\ w \in [at : Nat, goal : SUBSET Dids, seen : Seq(Dids), open : BOOLEAN]
          /\ w.at = walk.at /\ w.goal = walk.goal /\ w.seen = walk.seen /\ ~w.open
      BY <2>0
    <3> HIDE DEF w
    <3>3. Len(listing) <= walk.at
      <4>1. walk.at \in Nat /\ Len(listing) \in Nat
        BY <2>0
      <4>2. Len(Page(walk.at)) = IF walk.at + Limit <= Len(listing) THEN Limit
                                 ELSE IF walk.at <= Len(listing) THEN Len(listing) - walk.at
                                 ELSE 0
        BY <2>0, <4>1, PageIs, Zenon
      <4>3. Len(Page(walk.at)) = 0
        BY <2>4
      <4> QED
        BY <2>0, <4>1, <4>2, <4>3
    <3>4. Upto(listing, walk.at) = Range(listing)
      BY <2>0, <3>3 DEF Upto, Range
    <3> QED
      BY <2>0, <3>1, <3>2, <3>4 DEF RegistryInv, Paging
  <2> QED
    BY <2>1, <2>2, <2>3, <2>4, IngestKeepsInv
    DEF RegistryNext, registryVars, AgentRegisters, AgentLeaves, Federates, RegisterHub, StartPull,
        HubAnswers, NextPage
<1> QED
  BY <1>1, <1>2, PTL DEF RegistrySpec

(***************************************************************************)
(* Paging misses nothing and repeats nothing, however the listing grows.   *)
(***************************************************************************)
THEOREM PagesAreComplete == RegistrySpec => []PagesMissNothing
<1>1. RegistryInv => PagesMissNothing
  BY DEF RegistryInv, Paging, PagesMissNothing
<1> QED
  BY <1>1, RegistryInvariance, PTL
=============================================================================
