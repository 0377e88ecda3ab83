------------------------------ MODULE HubProofs ------------------------------
(***************************************************************************)
(* Proofs about hubs and their federation: for any number of Python and    *)
(* TypeScript hubs, agents, keys and challenges, whatever is lost, late or *)
(* repeated, and whatever is posted to TypeScript hubs unasked.            *)
(***************************************************************************)
EXTENDS Hub, TLAPS, FiniteSetTheorems

Issues == [card : Cards, hub : Hubs, at : Nat]
Pendings == [id : Challenges, card : Cards, expires : Nat]
Registrations == [id : Challenges, hub : Hubs, at : Nat]
Directories == [Agents -> Entries \cup {None}]

\* Entry e, listed for a, was registered as it was sent, or it is a stray.
Traced(e, a, reg, iss) ==
  /\ e \in Entries
  /\ e.card.did = a
  /\ IF e.from = None
       THEN TsHubs # {} /\ \E s \in Strays : s.card = e.card /\ e.home \in {s.home, None}
       ELSE /\ iss[e.from].card = e.card
            /\ \E r \in reg : r.id = e.from /\ e.home \in {r.hub, None}

(* A directory, or a copy of one, whose entries can all be traced.         *)
Genuine(d, reg, iss) ==
  /\ d \in Directories
  /\ \A a \in Agents : d[a] # None => Traced(d[a], a, reg, iss)

(* Pending challenges were issued by this hub and have not been used;      *)
(* what was registered was issued by the hub and in time.                  *)
ChallengesOK ==
  /\ clock \in Nat
  /\ issued \in [Challenges -> Issues \cup {None}]
  /\ registered \subseteq Registrations
  /\ pending \in [Hubs -> SUBSET Pendings]
  /\ \A h \in Hubs : \A c \in pending[h] :
       /\ issued[c.id] # None
       /\ issued[c.id].card = c.card
       /\ issued[c.id].hub = h
       /\ issued[c.id].at + NonceTTL = c.expires
       /\ \A r \in registered : r.id # c.id
  /\ \A r \in registered :
       /\ issued[r.id] # None
       /\ issued[r.id].hub = r.hub
       /\ r.at <= issued[r.id].at + NonceTTL
  /\ \A r, q \in registered : r.id = q.id => r = q

PendingBounded ==
  \A h \in Hubs : IsFiniteSet(pending[h]) /\ Cardinality(pending[h]) <= MaxPending

\* Every copy of a directory that is under way is as genuine as the directories.
CopiesOK ==
  /\ directory \in [Hubs -> Directories]
  /\ \A h \in Hubs : Genuine(directory[h], registered, issued)
  /\ Genuine(courier, registered, issued)
  /\ pushing \in [PyHubs -> [to : SUBSET Hubs, entries : Directories] \cup {None}]
  /\ \A h \in PyHubs : pushing[h] # None => Genuine(pushing[h].entries, registered, issued)
  /\ pulling \in [PyHubs -> [from : SUBSET Hubs, answer : Directories \cup {None}] \cup {None}]
  /\ \A h \in PyHubs : pulling[h] # None /\ pulling[h].answer # None =>
       Genuine(pulling[h].answer, registered, issued)

HubInv == ChallengesOK /\ PendingBounded /\ CopiesOK

\* An empty directory is genuine.
LEMMA NowhereGenuine ==
  ASSUME NEW reg, NEW iss
  PROVE  Genuine(Nowhere, reg, iss)
  BY DEF Genuine, Nowhere, Directories

\* Importing what is not there keeps a directory genuine.
LEMMA MergedGenuine ==
  ASSUME NEW reg, NEW iss, NEW mine, NEW theirs,
         Genuine(mine, reg, iss), Genuine(theirs, reg, iss)
  PROVE  Genuine(Merged(mine, theirs), reg, iss)
  BY DEF Genuine, Merged, Directories

\* Losing hub_url keeps entries genuine.
LEMMA ReregisteredGenuine ==
  ASSUME NEW reg, NEW iss, NEW theirs, Genuine(theirs, reg, iss)
  PROVE  Genuine(Reregistered(theirs), reg, iss)
<1>1. ASSUME NEW a \in Agents, theirs[a] # None
      PROVE  Traced([theirs[a] EXCEPT !.home = None], a, reg, iss)
  <2> DEFINE e == theirs[a]
             f == [e EXCEPT !.home = None]
  <2>1. Traced(e, a, reg, iss)
    BY <1>1 DEF Genuine
  <2>2. f \in Entries /\ f.card = e.card /\ f.from = e.from /\ f.home = None
    BY <2>1 DEF Traced, Entries
  <2> HIDE DEF e, f
  <2>3. Traced(f, a, reg, iss)
    BY <2>1, <2>2 DEF Traced
  <2> QED
    BY <2>3 DEF e, f
<1>2. ASSUME NEW a \in Agents, theirs[a] # None
      PROVE  [theirs[a] EXCEPT !.home = None] \in Entries
  BY <1>1, <1>2 DEF Traced
<1> QED
  BY <1>1, <1>2 DEF Genuine, Reregistered, Directories

\* A stray that is posted to a TypeScript hub.
LEMMA StrayGenuine ==
  ASSUME NEW reg, NEW iss, NEW h \in TsHubs, NEW e \in Strays
  PROVE  Genuine([a \in Agents |-> IF a = e.card.did THEN e ELSE None], reg, iss)
<1>1. e \in Entries /\ e.from = None
  BY HubAssumption
<1>2. Traced(e, e.card.did, reg, iss)
  BY <1>1 DEF Traced
<1> QED
  BY <1>1, <1>2 DEF Genuine, Directories

(* What is genuine stays so while challenges are issued and cards          *)
(* registered.                                                             *)
LEMMA GenuineStays ==
  ASSUME ChallengesOK, registered \subseteq registered',
         \A c \in Challenges : issued[c] # None => issued'[c] = issued[c],
         NEW d, Genuine(d, registered, issued)
  PROVE  Genuine(d, registered', issued')
<1>1. ASSUME NEW a \in Agents, d[a] # None
      PROVE  Traced(d[a], a, registered', issued')
  <2> DEFINE e == d[a]
  <2>1. Traced(e, a, registered, issued)
    BY <1>1 DEF Genuine
  <2> HIDE DEF e
  <2>2. ASSUME e.from = None
        PROVE  Traced(e, a, registered', issued')
    BY <2>1, <2>2 DEF Traced
  <2>3. ASSUME e.from # None
        PROVE  Traced(e, a, registered', issued')
    <3>1. PICK r \in registered : r.id = e.from /\ e.home \in {r.hub, None}
      BY <2>1, <2>3 DEF Traced
    <3>2. r.id \in Challenges /\ issued[r.id] # None
      BY DEF ChallengesOK, Registrations
    <3> QED
      BY <2>1, <2>3, <3>1, <3>2 DEF Traced
  <2>4. Traced(e, a, registered', issued')
    BY <2>2, <2>3
  <2> QED
    BY <2>4 DEF e
<1> QED
  BY <1>1 DEF Genuine

(***************************************************************************)
(* Steps that neither issue nor use challenges.                            *)
(***************************************************************************)
LEMMA ChallengesKept ==
  ASSUME ChallengesOK, PendingBounded, clock' \in Nat, issued' = issued,
         registered' = registered, pending' \in [Hubs -> SUBSET Pendings],
         \A h \in Hubs : pending'[h] \subseteq pending[h]
  PROVE  ChallengesOK' /\ PendingBounded'
<1>1. ChallengesOK'
  BY DEF ChallengesOK
<1>2. ASSUME NEW h \in Hubs
      PROVE  IsFiniteSet(pending'[h]) /\ Cardinality(pending'[h]) <= MaxPending
  <2>1. IsFiniteSet(pending[h]) /\ Cardinality(pending[h]) <= MaxPending
    BY DEF PendingBounded
  <2>2. IsFiniteSet(pending'[h]) /\ Cardinality(pending'[h]) <= Cardinality(pending[h])
    BY <2>1, FS_Subset
  <2>3. Cardinality(pending[h]) \in Nat /\ Cardinality(pending'[h]) \in Nat
    BY <2>1, <2>2, FS_CardinalityType
  <2> QED
    BY <2>1, <2>2, <2>3, HubAssumption
<1> QED
  BY <1>1, <1>2 DEF PendingBounded

\* The invariant holds in the initial state.
LEMMA InitHubInv == HubInit => HubInv
<1> SUFFICES ASSUME HubInit
             PROVE  HubInv
  OBVIOUS
<1>1. ChallengesOK
  BY DEF HubInit, ChallengesOK
<1>2. PendingBounded
  BY FS_EmptySet, HubAssumption DEF HubInit, PendingBounded
<1>3. CopiesOK
  <2>1. Nowhere \in Directories
    BY DEF Nowhere, Directories
  <2> QED
    BY <2>1, NowhereGenuine DEF HubInit, CopiesOK
<1> QED
  BY <1>1, <1>2, <1>3 DEF HubInv
(***************************************************************************)
(* Challenges: registration, deletion, restarts and time.                  *)
(***************************************************************************)
\* Copies that do not change stay genuine.
LEMMA CopiesKept ==
  ASSUME CopiesOK, ChallengesOK, registered \subseteq registered',
         \A c \in Challenges : issued[c] # None => issued'[c] = issued[c],
         UNCHANGED transfers, directory' \in [Hubs -> Directories],
         \A h \in Hubs : Genuine(directory'[h], registered', issued')
  PROVE  CopiesOK'
<1>1. Genuine(courier', registered', issued')
  BY GenuineStays DEF CopiesOK, transfers
<1>2. \A h \in PyHubs : pushing'[h] # None => Genuine(pushing'[h].entries, registered', issued')
  BY GenuineStays DEF CopiesOK, transfers
<1>3. \A h \in PyHubs : pulling'[h] # None /\ pulling'[h].answer # None =>
        Genuine(pulling'[h].answer, registered', issued')
  BY GenuineStays DEF CopiesOK, transfers
<1> QED
  BY <1>1, <1>2, <1>3 DEF CopiesOK, transfers

\* A registration request issues a challenge, if there is room.
LEMMA RegisterInv ==
  ASSUME HubInv, NEW h \in Hubs, NEW card \in Cards, Register(h, card)
  PROVE  HubInv'
<1> USE DEF HubInv
<1>1. /\ Live(h) \subseteq pending[h]
      /\ IsFiniteSet(Live(h))
      /\ Cardinality(Live(h)) \in Nat /\ Cardinality(Live(h)) <= MaxPending
  <2>1. /\ IsFiniteSet(pending[h]) /\ Cardinality(pending[h]) <= MaxPending
        /\ Live(h) \subseteq pending[h]
    BY DEF PendingBounded, Live
  <2>2. IsFiniteSet(Live(h)) /\ Cardinality(Live(h)) <= Cardinality(pending[h])
    BY <2>1, FS_Subset
  <2>3. Cardinality(pending[h]) \in Nat /\ Cardinality(Live(h)) \in Nat
    BY <2>1, <2>2, FS_CardinalityType
  <2> QED
    BY <2>1, <2>2, <2>3, HubAssumption
<1>2. CASE UNCHANGED issued /\ pending' = [pending EXCEPT ![h] = Live(h)]
  <2>1. /\ pending' \in [Hubs -> SUBSET Pendings]
        /\ \A k \in Hubs : pending'[k] \subseteq pending[k]
    BY <1>1, <1>2 DEF ChallengesOK
  <2>2. clock' \in Nat /\ registered' = registered /\ directory' = directory /\ UNCHANGED transfers
    BY DEF Register, ChallengesOK
  <2>3. ChallengesOK' /\ PendingBounded'
    BY <1>2, <2>1, <2>2, ChallengesKept
  <2>4. CopiesOK'
    BY <1>2, <2>2, CopiesKept DEF CopiesOK
  <2> QED
    BY <2>3, <2>4
<1>3. ASSUME NEW c \in Challenges, ~Full(h), issued[c] = None,
             issued' = [issued EXCEPT ![c] = [card |-> card, hub |-> h, at |-> clock]],
             pending' = [pending EXCEPT ![h] =
               Live(h) \cup {[id |-> c, card |-> card, expires |-> clock + NonceTTL]}]
      PROVE  HubInv'
  <2> DEFINE new == [id |-> c, card |-> card, expires |-> clock + NonceTTL]
  <2>1. /\ clock' = clock /\ clock \in Nat /\ registered' = registered
        /\ directory' = directory /\ UNCHANGED transfers
    BY DEF Register, ChallengesOK
  <2>2. new \in Pendings /\ [card |-> card, hub |-> h, at |-> clock] \in Issues
    BY <2>1, HubAssumption DEF Pendings, Issues
  <2>3. \A k \in Hubs : pending'[k] = IF k = h THEN Live(h) \cup {new} ELSE pending[k]
    BY <1>3 DEF ChallengesOK
  <2>4. \A k \in Challenges : issued[k] # None => issued'[k] = issued[k]
    BY <1>3 DEF ChallengesOK
  <2>5. issued'[c] = [card |-> card, hub |-> h, at |-> clock] /\ issued'[c] # None
    BY <1>3, <2>2, HubAssumption DEF ChallengesOK, Issues
  <2>6. \A r \in registered : r.id # c
    BY <1>3 DEF ChallengesOK
  <2>7. ASSUME NEW k \in Hubs, NEW q \in pending'[k]
        PROVE  /\ issued'[q.id] # None
               /\ issued'[q.id].card = q.card
               /\ issued'[q.id].hub = k
               /\ issued'[q.id].at + NonceTTL = q.expires
               /\ \A r \in registered' : r.id # q.id
    <3>1. CASE q \in pending[k]
      <4>1. q.id \in Challenges /\ issued[q.id] # None
        BY <3>1 DEF ChallengesOK, Pendings
      <4> QED
        BY <3>1, <4>1, <2>1, <2>4 DEF ChallengesOK
    <3>2. CASE q = new /\ k = h
      BY <3>2, <2>1, <2>5, <2>6
    <3> QED
      BY <3>1, <3>2, <2>3, <1>1
  <2>8. ASSUME NEW r \in registered'
        PROVE  /\ issued'[r.id] # None
               /\ issued'[r.id].hub = r.hub
               /\ r.at <= issued'[r.id].at + NonceTTL
    <3>1. r \in registered /\ r.id \in Challenges /\ issued[r.id] # None
      BY <2>1 DEF ChallengesOK, Registrations
    <3> QED
      BY <3>1, <2>4 DEF ChallengesOK
  <2>9. pending' \in [Hubs -> SUBSET Pendings] /\ issued' \in [Challenges -> Issues \cup {None}]
    BY <1>1, <1>3, <2>2 DEF ChallengesOK
  <2>10. ChallengesOK'
    BY <2>1, <2>7, <2>8, <2>9 DEF ChallengesOK
  <2>11. IsFiniteSet(Live(h) \cup {new}) /\ Cardinality(Live(h) \cup {new}) <= MaxPending
    <3>1. /\ IsFiniteSet(Live(h) \cup {new})
          /\ Cardinality(Live(h) \cup {new}) \in {Cardinality(Live(h)), Cardinality(Live(h)) + 1}
      BY <1>1, FS_AddElement
    <3>2. Cardinality(Live(h)) + 1 <= MaxPending
      BY <1>1, <1>3, HubAssumption DEF Full
    <3> QED
      BY <3>1, <3>2, <1>1
  <2>12. PendingBounded'
    BY <2>3, <2>11 DEF PendingBounded
  <2>13. \A k \in Hubs : Genuine(directory'[k], registered', issued')
    BY <2>1, <2>4, GenuineStays DEF CopiesOK
  <2>14. CopiesOK'
    BY <2>1, <2>4, <2>13, CopiesKept DEF CopiesOK
  <2> QED
    BY <2>10, <2>12, <2>14
<1> QED
  BY <1>2, <1>3 DEF Register

\* An answer uses its challenge up.
LEMMA CompleteInv ==
  ASSUME HubInv, NEW h \in Hubs, NEW id \in Challenges, NEW valid \in BOOLEAN,
         CompleteChallenge(h, id, valid)
  PROVE  HubInv'
<1> USE DEF HubInv
<1>1. /\ clock' = clock /\ clock \in Nat /\ issued' = issued /\ UNCHANGED transfers
  BY DEF CompleteChallenge, ChallengesOK
<1>2. /\ pending' \in [Hubs -> SUBSET Pendings]
      /\ \A k \in Hubs : pending'[k] \subseteq pending[k]
  BY DEF CompleteChallenge, Consume, Live, ChallengesOK
<1>3. CASE UNCHANGED <<directory, registered>>
  <2>1. ChallengesOK' /\ PendingBounded'
    BY <1>1, <1>2, <1>3, ChallengesKept
  <2>2. CopiesOK'
    BY <1>1, <1>3, CopiesKept DEF CopiesOK
  <2> QED
    BY <2>1, <2>2
<1>4. ASSUME NEW c \in Live(h), c.id = id, Consume(h, c), directory' = Stored(h, c),
             registered' = registered \cup {[id |-> c.id, hub |-> h, at |-> clock]}
      PROVE  HubInv'
  <2> DEFINE reg == [id |-> c.id, hub |-> h, at |-> clock]
  <2>1. /\ c \in pending[h] /\ c \in Pendings /\ clock <= c.expires
        /\ c.id \in Challenges /\ c.card \in Cards /\ c.expires \in Nat
    BY DEF Live, ChallengesOK, Pendings
  <2>2. /\ issued[c.id] # None /\ issued[c.id].card = c.card /\ issued[c.id].hub = h
        /\ issued[c.id].at + NonceTTL = c.expires
        /\ \A r \in registered : r.id # c.id
    BY <2>1 DEF ChallengesOK
  <2>3. \A k \in Hubs : \A q \in pending[k] : q.id = c.id => k = h /\ q = c
    <3>1. ASSUME NEW k \in Hubs, NEW q \in pending[k], q.id = c.id
          PROVE  k = h /\ q = c
      <4>1. /\ issued[q.id].card = q.card /\ issued[q.id].hub = k
            /\ issued[q.id].at + NonceTTL = q.expires /\ q \in Pendings
        BY DEF ChallengesOK
      <4>2. k = h /\ q.id = c.id /\ q.card = c.card /\ q.expires = c.expires
        BY <2>2, <3>1, <4>1
      <4>3. /\ q = [id |-> q.id, card |-> q.card, expires |-> q.expires]
            /\ c = [id |-> c.id, card |-> c.card, expires |-> c.expires]
        BY <2>1, <4>1 DEF Pendings
      <4> QED
        BY <4>2, <4>3
    <3> QED
      BY <3>1
  <2>4. ASSUME NEW k \in Hubs, NEW q \in pending'[k]
        PROVE  /\ q \in pending[k] /\ q.id # c.id
    <3>1. q \in pending[k]
      BY <1>2
    <3>2. k = h => q # c
      BY <1>4 DEF Consume, ChallengesOK
    <3> QED
      BY <2>3, <3>1, <3>2
  <2>5. reg \in Registrations
    BY <1>1, <2>1 DEF Registrations
  <2>6. ASSUME NEW k \in Hubs, NEW q \in pending'[k]
        PROVE  /\ issued'[q.id] # None
               /\ issued'[q.id].card = q.card
               /\ issued'[q.id].hub = k
               /\ issued'[q.id].at + NonceTTL = q.expires
               /\ \A r \in registered' : r.id # q.id
    BY <1>1, <1>4, <2>4 DEF ChallengesOK
  <2>7. ASSUME NEW r \in registered'
        PROVE  /\ issued'[r.id] # None
               /\ issued'[r.id].hub = r.hub
               /\ r.at <= issued'[r.id].at + NonceTTL
    <3>1. CASE r \in registered
      BY <3>1, <1>1 DEF ChallengesOK
    <3>2. CASE r = reg
      BY <3>2, <1>1, <2>1, <2>2
    <3> QED
      BY <3>1, <3>2, <1>4
  <2>8. \A r, q \in registered' : r.id = q.id => r = q
    BY <1>4, <2>2 DEF ChallengesOK
  <2>9. registered' \subseteq Registrations
    BY <1>4, <2>5 DEF ChallengesOK
  <2>10. ChallengesOK'
    BY <1>1, <1>2, <2>6, <2>7, <2>8, <2>9 DEF ChallengesOK
  <2>11. PendingBounded'
    <3>1. ASSUME NEW k \in Hubs
          PROVE  IsFiniteSet(pending'[k]) /\ Cardinality(pending'[k]) <= MaxPending
      <4>1. IsFiniteSet(pending[k]) /\ Cardinality(pending[k]) <= MaxPending
        BY DEF PendingBounded
      <4>2. IsFiniteSet(pending'[k]) /\ Cardinality(pending'[k]) <= Cardinality(pending[k])
        BY <1>2, <4>1, FS_Subset
      <4>3. Cardinality(pending[k]) \in Nat /\ Cardinality(pending'[k]) \in Nat
        BY <4>1, <4>2, FS_CardinalityType
      <4> QED
        BY <4>1, <4>2, <4>3, HubAssumption
    <3> QED
      BY <3>1 DEF PendingBounded
  <2>12. registered \subseteq registered'
    BY <1>4
  <2> DEFINE entry == [card |-> c.card, from |-> c.id, home |-> h]
  <2>13. /\ entry \in Entries /\ c.card.did \in Agents
         /\ entry.card = c.card /\ entry.from = c.id /\ entry.home = h /\ c.id # None
    BY <2>1, HubAssumption DEF Entries, Cards
  <2>14. ASSUME NEW k \in Hubs
         PROVE  Genuine(directory'[k], registered', issued')
    <3>1. Genuine(directory[k], registered', issued')
      BY <1>1, <2>12, GenuineStays DEF CopiesOK
    <3>2. directory'[k] = IF k = h THEN [directory[h] EXCEPT ![c.card.did] = entry]
                                   ELSE directory[k]
      BY <1>4 DEF Stored, CopiesOK
    <3>3. reg \in registered' /\ reg.id = c.id /\ reg.hub = h /\ issued'[c.id].card = c.card
      BY <1>1, <1>4, <2>2
    <3> HIDE DEF entry, reg
    <3>4. Traced(entry, c.card.did, registered', issued')
      BY <2>13, <3>3 DEF Traced
    <3> QED
      BY <2>13, <3>1, <3>2, <3>4 DEF Genuine, Directories
  <2>15. directory' \in [Hubs -> Directories]
    BY <1>4, <2>14 DEF Stored, CopiesOK, Genuine
  <2>16. CopiesOK'
    BY <1>1, <2>12, <2>14, <2>15, CopiesKept
  <2> QED
    BY <2>10, <2>11, <2>16
<1> QED
  BY <1>3, <1>4 DEF CompleteChallenge, Answered

\* A deletion takes an entry away.
LEMMA UnregisterInv ==
  ASSUME HubInv, NEW h \in Hubs, NEW p \in proofs, Unregister(h, p)
  PROVE  HubInv'
<1> USE DEF HubInv
<1>1. /\ clock' = clock /\ clock \in Nat /\ pending' = pending /\ issued' = issued
      /\ registered' = registered /\ UNCHANGED transfers
      /\ directory' = [directory EXCEPT ![h][p.did] = None]
  BY DEF Unregister, ChallengesOK
<1>2. ChallengesOK' /\ PendingBounded'
  BY <1>1, ChallengesKept DEF ChallengesOK
<1>3. ASSUME NEW k \in Hubs
      PROVE  Genuine(directory'[k], registered', issued')
  <2>1. Genuine(directory[k], registered, issued)
    BY DEF CopiesOK
  <2>2. directory'[k] = IF k = h THEN [directory[h] EXCEPT ![p.did] = None] ELSE directory[k]
    BY <1>1 DEF CopiesOK
  <2>3. directory'[k] \in Directories
    <3>1. directory[h] \in Directories
      BY DEF CopiesOK
    <3>2. [directory[h] EXCEPT ![p.did] = None] \in Directories
      BY <3>1 DEF Directories
    <3> QED
      BY <2>2, <3>2 DEF CopiesOK
  <2>4. \A a \in Agents : directory'[k][a] # None => directory'[k][a] = directory[k][a]
    BY <2>2 DEF Directories, CopiesOK
  <2> QED
    BY <1>1, <2>1, <2>3, <2>4 DEF Genuine
<1>4. directory' \in [Hubs -> Directories]
  BY <1>1, <1>3 DEF CopiesOK, Genuine
<1>5. CopiesOK'
  BY <1>1, <1>3, <1>4, CopiesKept
<1> QED
  BY <1>2, <1>5

\* A restart takes entries and challenges away.
LEMMA RestartInv ==
  ASSUME HubInv, NEW h \in Hubs, Restart(h)
  PROVE  HubInv'
<1> USE DEF HubInv
<1>1. /\ clock' = clock /\ clock \in Nat /\ issued' = issued /\ registered' = registered
      /\ courier' = courier
      /\ pending' = [pending EXCEPT ![h] = {}] /\ directory' = [directory EXCEPT ![h] = Nowhere]
      /\ pushing' = [g \in PyHubs |-> IF g = h THEN None ELSE pushing[g]]
      /\ pulling' = [g \in PyHubs |-> IF g = h THEN None ELSE pulling[g]]
  BY DEF Restart, ChallengesOK
<1>2. ChallengesOK' /\ PendingBounded'
  BY <1>1, ChallengesKept DEF ChallengesOK
<1>3. \A k \in Hubs : Genuine(directory'[k], registered', issued')
  BY <1>1, NowhereGenuine DEF CopiesOK
<1>4. Nowhere \in Directories
  BY DEF Nowhere, Directories
<1>5. directory' \in [Hubs -> Directories]
  BY <1>1, <1>4 DEF CopiesOK
<1>6. /\ pushing' \in [PyHubs -> [to : SUBSET Hubs, entries : Directories] \cup {None}]
      /\ \A k \in PyHubs : pushing'[k] # None => pushing'[k] = pushing[k]
  BY <1>1 DEF CopiesOK
<1>7. /\ pulling' \in [PyHubs -> [from : SUBSET Hubs, answer : Directories \cup {None}] \cup {None}]
      /\ \A k \in PyHubs : pulling'[k] # None => pulling'[k] = pulling[k]
  BY <1>1 DEF CopiesOK
<1>8. CopiesOK'
  BY <1>1, <1>3, <1>5, <1>6, <1>7 DEF CopiesOK
<1> QED
  BY <1>2, <1>8

(* A delete proof is signed, time passes, or nothing happens.              *)
LEMMA QuietInv ==
  ASSUME HubInv, clock' \in Nat,
         UNCHANGED <<pending, directory, transfers, issued, registered>>
  PROVE  HubInv'
<1> USE DEF HubInv
<1>1. ChallengesOK' /\ PendingBounded'
  BY ChallengesKept DEF ChallengesOK
<1>2. CopiesOK'
  BY CopiesKept DEF CopiesOK
<1> QED
  BY <1>1, <1>2

(***************************************************************************)
(* Federation: no challenge is touched, directories are copied and merged. *)
(***************************************************************************)
\* Steps of a transfer leave the challenges as they are.
LEMMA FederationKeeps ==
  ASSUME HubInv, UNCHANGED <<clock, pending, issued, registered>>
  PROVE  ChallengesOK' /\ PendingBounded'
  BY ChallengesKept DEF HubInv, ChallengesOK

\* A push copies a directory and hands it to a peer.
LEMMA PushInv ==
  ASSUME HubInv, NEW h \in PyHubs, NEW g \in Hubs,
         PushStart(h) \/ PushArrives(h, g) \/ PushLost(h, g)
  PROVE  HubInv'
<1> USE DEF HubInv
<1>1. UNCHANGED <<clock, pending, issued, registered, courier, pulling>>
  BY DEF PushStart, PushArrives, PushLost
<1>2. ChallengesOK' /\ PendingBounded'
  BY <1>1, FederationKeeps
<1>3. h \in Hubs /\ Peers[h] \subseteq Hubs
  BY HubAssumption DEF Hubs
<1>4. /\ pushing' \in [PyHubs -> [to : SUBSET Hubs, entries : Directories] \cup {None}]
      /\ \A k \in PyHubs : pushing'[k] # None => Genuine(pushing'[k].entries, registered, issued)
  <2>1. CASE PushStart(h)
    <3>1. [to |-> Peers[h], entries |-> directory[h]] \in [to : SUBSET Hubs, entries : Directories]
      BY <1>3 DEF CopiesOK
    <3>2. pushing' = [pushing EXCEPT ![h] = [to |-> Peers[h], entries |-> directory[h]]]
      BY <2>1 DEF PushStart
    <3> QED
      BY <1>3, <3>1, <3>2 DEF CopiesOK
  <2>2. CASE PushNext(h, g) /\ pushing[h] # None
    <3>1. pushing[h] \in [to : SUBSET Hubs, entries : Directories]
      BY <2>2 DEF CopiesOK
    <3>2. /\ [pushing[h] EXCEPT !.to = @ \ {g}] \in [to : SUBSET Hubs, entries : Directories]
          /\ [pushing[h] EXCEPT !.to = @ \ {g}].entries = pushing[h].entries
      BY <3>1
    <3>3. pushing' = [pushing EXCEPT ![h] =
            IF pushing[h].to = {g} THEN None ELSE [pushing[h] EXCEPT !.to = @ \ {g}]]
      BY <2>2 DEF PushNext
    <3> QED
      BY <2>2, <3>2, <3>3 DEF CopiesOK
  <2> QED
    BY <2>1, <2>2 DEF PushArrives, PushLost
<1>5. ASSUME NEW k \in Hubs
      PROVE  Genuine(directory'[k], registered, issued) /\ directory' \in [Hubs -> Directories]
  <2>1. CASE directory' = directory
    BY <2>1 DEF CopiesOK
  <2>2. CASE PushArrives(h, g)
    <3>1. Genuine(Merged(directory[g], pushing[h].entries), registered, issued)
      BY <2>2, MergedGenuine DEF PushArrives, CopiesOK
    <3>2. directory' = [directory EXCEPT ![g] =
            IF g \in PyHubs THEN directory[g] ELSE Merged(directory[g], pushing[h].entries)]
      BY <2>2 DEF PushArrives
    <3> QED
      BY <3>1, <3>2 DEF CopiesOK, Genuine
  <2> QED
    BY <2>1, <2>2 DEF PushStart, PushLost
<1>6. directory' \in [Hubs -> Directories]
  BY <1>3, <1>5
<1>7. CopiesOK'
  BY <1>1, <1>4, <1>5, <1>6 DEF CopiesOK
<1> QED
  BY <1>2, <1>7

\* A pull is answered with a copy and merges it.
LEMMA PullInv ==
  ASSUME HubInv, NEW h \in PyHubs, NEW g \in Hubs,
         PullStart(h) \/ PullAnswered(h, g) \/ PullImports(h) \/ PullLost(h, g)
  PROVE  HubInv'
<1> DEFINE Pulls == [from : SUBSET Hubs, answer : Directories \cup {None}]
<1> USE DEF HubInv
<1>1. UNCHANGED <<clock, pending, issued, registered, courier, pushing>>
  BY DEF PullStart, PullAnswered, PullImports, PullLost
<1>2. ChallengesOK' /\ PendingBounded'
  BY <1>1, FederationKeeps
<1>3. h \in Hubs /\ Peers[h] \subseteq Hubs
  BY HubAssumption DEF Hubs
<1>4. ASSUME NEW p \in Pulls \cup {None}, pulling' = [pulling EXCEPT ![h] = p],
             p # None /\ p.answer # None => Genuine(p.answer, registered, issued)
      PROVE  /\ pulling' \in [PyHubs -> Pulls \cup {None}]
             /\ \A k \in PyHubs : pulling'[k] # None /\ pulling'[k].answer # None =>
                  Genuine(pulling'[k].answer, registered, issued)
  BY <1>4 DEF CopiesOK
<1>5. /\ pulling' \in [PyHubs -> Pulls \cup {None}]
      /\ \A k \in PyHubs : pulling'[k] # None /\ pulling'[k].answer # None =>
           Genuine(pulling'[k].answer, registered, issued)
  <2>1. CASE PullStart(h)
    <3> DEFINE p == [from |-> Peers[h], answer |-> None]
    <3>1. p \in Pulls /\ p.answer = None /\ pulling' = [pulling EXCEPT ![h] = p]
      BY <1>3, <2>1 DEF PullStart
    <3> HIDE DEF p, Pulls
    <3> QED
      BY <1>4, <3>1
  <2>2. CASE PullAnswered(h, g)
    <3> DEFINE answer == IF g \in PyHubs THEN Nowhere ELSE directory[g]
               p == [from |-> pulling[h].from \ {g}, answer |-> answer]
    <3>1. pulling[h] \in Pulls
      BY <2>2 DEF PullAnswered, CopiesOK
    <3>2. Genuine(answer, registered, issued)
      BY NowhereGenuine DEF CopiesOK
    <3>3. p \in Pulls /\ p.answer = answer
      BY <3>1, <3>2 DEF Genuine
    <3>4. pulling' = [pulling EXCEPT ![h] = p]
      BY <2>2 DEF PullAnswered
    <3> HIDE DEF p, answer, Pulls
    <3> QED
      BY <1>4, <3>2, <3>3, <3>4
  <2>3. CASE PullImports(h)
    <3> DEFINE p == IF pulling[h].from = {} THEN None ELSE [pulling[h] EXCEPT !.answer = None]
    <3>1. pulling[h] \in Pulls
      BY <2>3 DEF PullImports, CopiesOK
    <3>2. p \in Pulls \cup {None} /\ (p # None => p.answer = None)
      BY <3>1
    <3>3. pulling' = [pulling EXCEPT ![h] = p]
      BY <2>3 DEF PullImports, PullNext
    <3> HIDE DEF p, Pulls
    <3> QED
      BY <1>4, <3>2, <3>3
  <2>4. CASE PullLost(h, g)
    <3> DEFINE p == IF pulling[h].from = {g} THEN None
                    ELSE [pulling[h] EXCEPT !.from = pulling[h].from \ {g}]
    <3>1. pulling[h] \in Pulls /\ pulling[h].answer = None
      BY <2>4 DEF PullLost, CopiesOK
    <3>2. p \in Pulls \cup {None} /\ (p # None => p.answer = None)
      BY <3>1
    <3>3. pulling' = [pulling EXCEPT ![h] = p]
      BY <2>4 DEF PullLost
    <3> HIDE DEF p, Pulls
    <3> QED
      BY <1>4, <3>2, <3>3
  <2> QED
    BY <2>1, <2>2, <2>3, <2>4
<1>6. /\ directory' \in [Hubs -> Directories]
      /\ \A k \in Hubs : Genuine(directory'[k], registered, issued)
  <2>1. CASE directory' = directory
    BY <2>1 DEF CopiesOK
  <2>2. CASE PullImports(h)
    <3>1. Genuine(Merged(directory[h], pulling[h].answer), registered, issued)
      BY <1>3, <2>2, MergedGenuine DEF PullImports, CopiesOK
    <3>2. directory' = [directory EXCEPT ![h] = Merged(directory[h], pulling[h].answer)]
      BY <2>2 DEF PullImports
    <3>3. Merged(directory[h], pulling[h].answer) \in Directories
      BY <3>1 DEF Genuine
    <3> QED
      BY <1>3, <3>1, <3>2, <3>3 DEF CopiesOK
  <2> QED
    BY <2>1, <2>2 DEF PullStart, PullAnswered, PullLost
<1>7. CopiesOK'
  BY <1>1, <1>5, <1>6 DEF CopiesOK
<1> QED
  BY <1>2, <1>7

\* The courier hands on what it was given.
LEMMA CourierInv ==
  ASSUME HubInv, NEW h \in Hubs, CourierReads(h) \/ CourierPosts(h)
  PROVE  HubInv'
<1> USE DEF HubInv
<1>1. UNCHANGED <<clock, pending, issued, registered, pushing, pulling>>
  BY DEF CourierReads, CourierPosts, transfers
<1>2. ChallengesOK' /\ PendingBounded'
  BY <1>1, FederationKeeps
<1>3. Genuine(courier', registered, issued)
  BY DEF CourierReads, CourierPosts, transfers, CopiesOK
<1>4. /\ directory' \in [Hubs -> Directories]
      /\ \A k \in Hubs : Genuine(directory'[k], registered, issued)
  <2>1. CASE CourierReads(h)
    BY <2>1 DEF CourierReads, CopiesOK
  <2>2. CASE CourierPosts(h)
    <3> DEFINE posted == IF h \in PyHubs THEN Reregistered(courier) ELSE courier
    <3>1. Genuine(posted, registered, issued)
      BY ReregisteredGenuine DEF CopiesOK
    <3>2. Genuine(Merged(directory[h], posted), registered, issued)
      BY <3>1, MergedGenuine DEF CopiesOK
    <3>3. directory' = [directory EXCEPT ![h] = Merged(directory[h], posted)]
      BY <2>2 DEF CourierPosts
    <3> HIDE DEF posted
    <3> QED
      BY <3>2, <3>3 DEF CopiesOK, Genuine
  <2> QED
    BY <2>1, <2>2
<1>5. CopiesOK'
  BY <1>1, <1>3, <1>4 DEF CopiesOK
<1> QED
  BY <1>2, <1>5

\* So does whoever posts to a TypeScript hub, which lists what is no worse than a stray.
LEMMA AnyoneInv ==
  ASSUME HubInv, NEW h \in TsHubs, NEW e \in Strays, AnyonePosts(h, e)
  PROVE  HubInv'
<1> USE DEF HubInv
<1> DEFINE posted == [a \in Agents |-> IF a = e.card.did THEN e ELSE None]
<1>1. /\ UNCHANGED <<clock, pending, issued, registered, transfers>>
      /\ directory' = [directory EXCEPT ![h] = Merged(directory[h], posted)]
  BY DEF AnyonePosts
<1>2. ChallengesOK' /\ PendingBounded'
  BY <1>1, FederationKeeps
<1>3. h \in Hubs /\ Genuine(posted, registered, issued)
  BY StrayGenuine DEF Hubs
<1> HIDE DEF posted
<1>4. Genuine(Merged(directory[h], posted), registered, issued)
  BY <1>3, MergedGenuine DEF CopiesOK
<1>5. /\ directory' \in [Hubs -> Directories]
      /\ \A k \in Hubs : Genuine(directory'[k], registered', issued')
  BY <1>1, <1>3, <1>4 DEF CopiesOK, Genuine
<1>6. CopiesOK'
  BY <1>1, <1>5, CopiesKept
<1> QED
  BY <1>2, <1>6

(***************************************************************************)
(* The invariant, and what follows from it.                                *)
(***************************************************************************)
LEMMA NextHubInv == HubInv /\ [HubNext]_hubVars => HubInv'
<1> SUFFICES ASSUME HubInv, [HubNext]_hubVars
             PROVE  HubInv'
  OBVIOUS
<1>1. PyHubs \subseteq Hubs
  BY DEF Hubs
<1>2. ASSUME NEW h \in Hubs, Registration(h)
      PROVE  HubInv'
  BY <1>2, RegisterInv, CompleteInv, UnregisterInv DEF Registration
<1>3. ASSUME NEW h \in Hubs, CourierReads(h) \/ CourierPosts(h) \/ Restart(h)
      PROVE  HubInv'
  BY <1>3, CourierInv, RestartInv
<1>4. ASSUME NEW h \in PyHubs, Federation(h)
      PROVE  HubInv'
  <2>1. ASSUME NEW g \in Hubs, PushStart(h) \/ PushArrives(h, g) \/ PushLost(h, g)
        PROVE  HubInv'
    BY <2>1, PushInv
  <2>2. ASSUME NEW g \in Hubs,
               PullStart(h) \/ PullAnswered(h, g) \/ PullImports(h) \/ PullLost(h, g)
        PROVE  HubInv'
    BY <2>2, PullInv
  <2> QED
    BY <1>1, <1>4, <2>1, <2>2 DEF Federation
<1>5. ASSUME NEW p \in Deletes, SignDelete(p)
      PROVE  HubInv'
  BY <1>5, QuietInv DEF SignDelete, HubInv, ChallengesOK
<1>6. CASE Tick
  <2>1. clock' \in Nat
    BY <1>6 DEF Tick, HubInv, ChallengesOK
  <2> QED
    BY <1>6, <2>1, QuietInv DEF Tick
<1>7. CASE UNCHANGED hubVars
  BY <1>7, QuietInv DEF hubVars, transfers, HubInv, ChallengesOK
<1>8. ASSUME NEW h \in TsHubs, NEW e \in Strays, AnyonePosts(h, e)
      PROVE  HubInv'
  BY <1>8, AnyoneInv
<1> QED
  BY <1>2, <1>3, <1>4, <1>5, <1>6, <1>7, <1>8 DEF HubNext

\* Challenges serve once, and every copy of a directory that is under way is genuine.
THEOREM HubInvariance == HubSpec => []HubInv
<1> QED
  BY InitHubInv, NextHubInv, PTL DEF HubSpec

(* Types, and no hub ever holds more than MAX_PENDING challenges           *)
(* (ChallengeStore.create).                                                *)
THEOREM HubTypeCorrect == HubSpec => []HubTypeOK
<1>1. HubInv => HubTypeOK
  BY DEF HubInv, ChallengesOK, PendingBounded, CopiesOK, Genuine, HubTypeOK,
         Directories, Pendings, Registrations
<1> QED
  BY <1>1, HubInvariance, PTL

(* A challenge registers a card at most once, where and before it expires  *)
(* (ChallengeStore.consume and the handler of /roar/agents/challenge).     *)
THEOREM ServesOnce == HubSpec => []ChallengeServesOnce
<1>1. HubInv => ChallengeServesOnce
  BY DEF HubInv, ChallengesOK, ChallengeServesOnce
<1> QED
  BY <1>1, HubInvariance, PTL

(* Whatever hubs push to each other, pull, export or are posted, an entry  *)
(* of any of them is listed under its card's DID, and is a card registered *)
(* with a challenge, as it was sent, or a stray of a TypeScript hub.       *)
THEOREM AllEntriesProven == HubSpec => []EntriesProven
<1>1. HubInv => EntriesProven
  BY DEF HubInv, CopiesOK, Genuine, Traced, EntriesProven
<1> QED
  BY <1>1, HubInvariance, PTL

\* What a merge finds it keeps.
LEMMA MergedKeeps ==
  ASSUME NEW mine, NEW theirs, NEW a \in Agents, mine[a] # None
  PROVE  Merged(mine, theirs)[a] = mine[a]
  BY DEF Merged

\* Only the delete proofs that may be signed are.
LEMMA SignedProofs == HubSpec => [](proofs \subseteq Deletes)
<1>1. HubInit => proofs \subseteq Deletes
  BY DEF HubInit
<1>2. proofs \subseteq Deletes /\ [HubNext]_hubVars => (proofs \subseteq Deletes)'
  BY DEF HubNext, hubVars, transfers, Registration, Register, CompleteChallenge, Unregister,
         Federation, PushStart, PushArrives, PushLost, PullStart, PullAnswered, PullImports,
         PullLost, CourierReads, CourierPosts, AnyonePosts, Restart, SignDelete, Tick
<1> QED
  BY <1>1, <1>2, PTL DEF HubSpec

(* What a hub lists changes by a registration proven to it, by a fresh     *)
(* proof of deletion, or with its process: no sync, push or pull replaces  *)
(* or removes an entry.                                                    *)
THEOREM KeepsOwnEntries == HubSpec => OwnEntriesKept
<1> DEFINE Changes(h, a) ==
      \/ \E r \in registered' \ registered :
           /\ r.hub = h
           /\ directory'[h][a] = [card |-> issued[r.id].card, from |-> r.id, home |-> h]
      \/ /\ directory'[h][a] = None
         /\ \E p \in proofs :
              /\ p.did = a /\ p.key = directory[h][a].card.key
              /\ clock \in p.at - DeleteWindow .. p.at + DeleteWindow
      \/ Restart(h)
<1>1. ASSUME HubInv, proofs \subseteq Deletes, [HubNext]_hubVars, NEW h \in Hubs, NEW a \in Agents,
             directory[h][a] # None, directory'[h][a] # directory[h][a]
      PROVE  Changes(h, a)
  <2>1. directory \in [Hubs -> Directories] /\ PyHubs \subseteq Hubs
    BY <1>1 DEF HubInv, CopiesOK, Hubs
  <2>2. ASSUME NEW k \in Hubs, NEW id \in Challenges, NEW valid \in BOOLEAN,
               CompleteChallenge(k, id, valid)
        PROVE  Changes(h, a)
    <3>1. PICK c \in Live(k) :
            /\ directory' = Stored(k, c)
            /\ registered' = registered \cup {[id |-> c.id, hub |-> k, at |-> clock]}
      BY <1>1, <2>2 DEF CompleteChallenge, Answered
    <3>2. /\ c \in pending[k] /\ c.id \in Challenges /\ c.card.did \in Agents
          /\ issued[c.id].card = c.card
          /\ \A r \in registered : r.id # c.id
      BY <1>1, <3>1 DEF Live, HubInv, ChallengesOK, Pendings, Cards
    <3>3. /\ h = k /\ a = c.card.did
          /\ directory'[h][a] = [card |-> issued[c.id].card, from |-> c.id, home |-> h]
      BY <1>1, <2>1, <3>1, <3>2 DEF Stored, Directories
    <3>4. [id |-> c.id, hub |-> k, at |-> clock] \in registered' \ registered
      BY <3>1, <3>2
    <3> QED
      BY <3>3, <3>4
  <2>3. ASSUME NEW k \in Hubs, NEW p \in proofs, Unregister(k, p)
        PROVE  Changes(h, a)
    <3>1. directory' = [directory EXCEPT ![k][p.did] = None]
      BY <2>3 DEF Unregister
    <3>2. h = k /\ a = p.did /\ directory'[h][a] = None
      BY <1>1, <2>1, <3>1 DEF Directories
    <3>3. p.key = directory[h][a].card.key /\ Timely(p)
      BY <2>3, <3>2 DEF Unregister
    <3>4. clock \in p.at - DeleteWindow .. p.at + DeleteWindow
      BY <1>1, <2>3, <3>3, HubAssumption DEF Timely, HubInv, ChallengesOK
    <3> QED
      BY <3>2, <3>3, <3>4
  <2>4. ASSUME NEW k \in Hubs, NEW theirs,
               directory' = [directory EXCEPT ![k] = Merged(directory[k], theirs)]
        PROVE  FALSE
    <3>1. directory'[h] = directory[h] \/ directory'[h] = Merged(directory[h], theirs)
      BY <2>1, <2>4
    <3> QED
      BY <1>1, <3>1, MergedKeeps
  <2>5. directory' # directory
    BY <1>1
  <2>6. ASSUME NEW k \in PyHubs, NEW g \in Hubs, PushArrives(k, g)
        PROVE  FALSE
    <3>1. directory' = [directory EXCEPT ![g] =
            IF g \in PyHubs THEN directory[g] ELSE Merged(directory[g], pushing[k].entries)]
      BY <2>6 DEF PushArrives
    <3>2. CASE g \in PyHubs
      BY <2>1, <2>5, <3>1, <3>2
    <3>3. CASE g \notin PyHubs
      BY <2>4, <3>1, <3>3
    <3> QED
      BY <3>2, <3>3
  <2>7. ASSUME NEW k \in PyHubs, PullImports(k)
        PROVE  FALSE
    <3>1. directory' = [directory EXCEPT ![k] = Merged(directory[k], pulling[k].answer)]
      BY <2>7 DEF PullImports
    <3> QED
      BY <2>1, <2>4, <3>1
  <2>8. ASSUME NEW k \in Hubs, CourierPosts(k)
        PROVE  FALSE
    <3> DEFINE posted == IF k \in PyHubs THEN Reregistered(courier) ELSE courier
    <3>1. directory' = [directory EXCEPT ![k] = Merged(directory[k], posted)]
      BY <2>8 DEF CourierPosts
    <3> HIDE DEF posted
    <3> QED
      BY <2>4, <3>1
  <2>9. ASSUME NEW k \in Hubs, Restart(k)
        PROVE  Changes(h, a)
    <3>1. directory' = [directory EXCEPT ![k] = Nowhere]
      BY <2>9 DEF Restart
    <3>2. h = k
      BY <1>1, <2>1, <3>1
    <3> QED
      BY <2>9, <3>2
  <2>10. ASSUME NEW k \in Hubs, Registration(k)
         PROVE  Changes(h, a)
    <3>1. ASSUME NEW card \in Cards, Register(k, card)
          PROVE  FALSE
      BY <2>5, <3>1 DEF Register
    <3> QED
      BY <2>2, <2>3, <2>10, <3>1 DEF Registration
  <2>11. ASSUME NEW k \in PyHubs, Federation(k)
         PROVE  FALSE
    <3>1. ~PushStart(k) /\ ~PullStart(k)
      BY <2>5 DEF PushStart, PullStart
    <3>2. \A g \in Hubs : ~PushLost(k, g) /\ ~PullAnswered(k, g) /\ ~PullLost(k, g)
      BY <2>5 DEF PushLost, PullAnswered, PullLost
    <3> QED
      BY <2>6, <2>7, <2>11, <3>1, <3>2 DEF Federation
  <2>12. ~Tick /\ ~UNCHANGED hubVars
    BY <2>5 DEF Tick, hubVars
  <2>13. \A p \in Deletes : ~SignDelete(p)
    BY <2>5 DEF SignDelete
  <2>14. \A k \in Hubs : ~CourierReads(k)
    BY <2>5 DEF CourierReads
  <2>15. ASSUME NEW k \in TsHubs, NEW e \in Strays, AnyonePosts(k, e)
         PROVE  FALSE
    <3> DEFINE posted == [b \in Agents |-> IF b = e.card.did THEN e ELSE None]
    <3>1. k \in Hubs /\ directory' = [directory EXCEPT ![k] = Merged(directory[k], posted)]
      BY <2>15 DEF AnyonePosts, Hubs
    <3> HIDE DEF posted
    <3> QED
      BY <2>4, <3>1
  <2> HIDE DEF Changes
  <2> QED
    BY <1>1, <2>8, <2>9, <2>10, <2>11, <2>12, <2>13, <2>14, <2>15 DEF HubNext
<1>2. HubInv /\ proofs \subseteq Deletes /\ [HubNext]_hubVars =>
        [\A h \in Hubs, a \in Agents :
           directory[h][a] # None /\ directory'[h][a] # directory[h][a] => Changes(h, a)]_hubVars
  BY <1>1
<1> QED
  BY <1>2, HubInvariance, SignedProofs, PTL DEF HubSpec, OwnEntriesKept
=============================================================================
