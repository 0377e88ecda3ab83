-------------------------- MODULE ROARServerProofs --------------------------
(***************************************************************************)
(* Proofs about the message server and the router around it, for every set *)
(* of messages, ids and tokens and every setting of the windows that       *)
(* RouterWindowAssumption allows.  The deduplication guard, which both     *)
(* embed, comes first; its lemmas about one call (GuardCheck, GuardMark)   *)
(* speak of any step that makes the call.                                  *)
(***************************************************************************)
EXTENDS RoarRouter, SequenceTheorems, FiniteSetTheorems, TLAPS

\* A suffix of a sequence: its length and its elements (what eviction leaves of the guard).
LEMMA SuffixProps ==
  ASSUME NEW S, NEW s \in Seq(S), NEW n \in 0 .. Len(s)
  PROVE  /\ SubSeq(s, n + 1, Len(s)) \in Seq(S)
         /\ Len(SubSeq(s, n + 1, Len(s))) = Len(s) - n
         /\ \A i \in 1 .. (Len(s) - n) : SubSeq(s, n + 1, Len(s))[i] = s[n + i]
<1>1. \A i \in (n + 1) .. Len(s) : s[i] \in S
  BY ElementOfSeq
<1> QED
  BY <1>1, SubSeqProperties, LenProperties

\* Without(s, k) has the entries of s with other keys; when keys are unique, none with k.
LEMMA WithoutProps ==
  ASSUME NEW s \in Seq(Entry), NEW k
  PROVE  /\ Without(s, k) \in Seq(Entry)
         /\ Len(Without(s, k)) <= Len(s)
         /\ \A j \in 1 .. Len(s) : s[j].key # k =>
              \E i \in 1 .. Len(Without(s, k)) : Without(s, k)[i] = s[j]
         /\ \A i \in 1 .. Len(Without(s, k)) :
              \E j \in 1 .. Len(s) : Without(s, k)[i] = s[j]
         /\ (\A i, j \in 1 .. Len(s) : s[i].key = s[j].key => i = j) =>
              /\ \A i \in 1 .. Len(Without(s, k)) : Without(s, k)[i].key # k
              /\ \A i, j \in 1 .. Len(Without(s, k)) :
                   Without(s, k)[i].key = Without(s, k)[j].key => i = j
         /\ \A i, j \in 1 .. Len(Without(s, k)) : i < j =>
              \E x, y \in 1 .. Len(s) : x < y /\ Without(s, k)[i] = s[x] /\ Without(s, k)[j] = s[y]
<1>1. CASE \A i \in 1 .. Len(s) : s[i].key # k
  <2>1. Without(s, k) = s
    BY <1>1 DEF Without
  <2>2. \A i, j \in 1 .. Len(s) : i < j =>
          \E x, y \in 1 .. Len(s) : x < y /\ s[i] = s[x] /\ s[j] = s[y]
    OBVIOUS
  <2> QED
    BY <1>1, <2>1, <2>2, LenProperties
<1>2. CASE \E i \in 1 .. Len(s) : s[i].key = k
  <2> DEFINE c == CHOOSE i \in 1 .. Len(s) : s[i].key = k
             a == SubSeq(s, 1, c - 1)
             b == SubSeq(s, c + 1, Len(s))
             w == Without(s, k)
  <2>0. c \in 1 .. Len(s) /\ s[c].key = k
    BY <1>2
  <2> HIDE DEF c
  <2>1. a \in Seq(Entry) /\ Len(a) = c - 1 /\ \A i \in 1 .. (c - 1) : a[i] = s[i]
    <3>1. \A i \in 1 .. (c - 1) : s[i] \in Entry
      BY <2>0, ElementOfSeq, LenProperties
    <3> QED
      BY <2>0, <3>1, SubSeqProperties, LenProperties
  <2>2. b \in Seq(Entry) /\ Len(b) = Len(s) - c
        /\ \A i \in 1 .. (Len(s) - c) : b[i] = s[c + i]
    BY <2>0, SuffixProps, LenProperties
  <2>3. w = a \o b
    BY <1>2 DEF Without, RemoveAt, c
  <2> HIDE DEF a, b, w
  <2>4. /\ w \in Seq(Entry)
        /\ Len(w) = Len(s) - 1
        /\ \A i \in 1 .. Len(w) : w[i] = IF i < c THEN s[i] ELSE s[i + 1]
    <3>1. w \in Seq(Entry) /\ Len(w) = Len(a) + Len(b)
          /\ \A i \in 1 .. (Len(a) + Len(b)) :
               w[i] = IF i <= Len(a) THEN a[i] ELSE b[i - Len(a)]
      BY <2>1, <2>2, <2>3, ConcatProperties
    <3>2. Len(s) \in Nat /\ c \in Nat /\ Len(w) = Len(s) - 1
      BY <2>0, <2>1, <2>2, <3>1, LenProperties
    <3>3. ASSUME NEW i \in 1 .. Len(w)
          PROVE  w[i] = IF i < c THEN s[i] ELSE s[i + 1]
      <4>1. CASE i < c
        BY <2>1, <3>1, <3>2, <4>1
      <4>2. CASE i >= c
        <5>1. w[i] = b[i - (c - 1)] /\ i - (c - 1) \in 1 .. (Len(s) - c)
          BY <2>0, <2>1, <3>1, <3>2, <4>2
        <5>2. c + (i - (c - 1)) = i + 1
          BY <3>2
        <5>3. b[i - (c - 1)] = s[c + (i - (c - 1))]
          BY <2>2, <5>1
        <5> QED
          BY <3>2, <4>2, <5>1, <5>2, <5>3
      <4> QED
        BY <3>2, <4>1, <4>2
    <3> QED
      BY <3>1, <3>2, <3>3
  <2>5. \A j \in 1 .. Len(s) : s[j].key # k => \E i \in 1 .. Len(w) : w[i] = s[j]
    <3> SUFFICES ASSUME NEW j \in 1 .. Len(s), s[j].key # k
                 PROVE  \E i \in 1 .. Len(w) : w[i] = s[j]
      OBVIOUS
    <3>1. CASE j < c
      BY <3>1, <2>0, <2>4, LenProperties
    <3>2. CASE j > c
      <4>1. j - 1 \in 1 .. Len(w) /\ w[j - 1] = s[j]
        BY <3>2, <2>0, <2>4, LenProperties
      <4> QED BY <4>1
    <3> QED
      BY <3>1, <3>2, <2>0, LenProperties
  <2>6. \A i \in 1 .. Len(w) : \E j \in 1 .. Len(s) : w[i] = s[j] /\ j # c
    <3> SUFFICES ASSUME NEW i \in 1 .. Len(w)
                 PROVE  \E j \in 1 .. Len(s) : w[i] = s[j] /\ j # c
      OBVIOUS
    <3>1. Len(s) \in Nat /\ c \in Nat
      BY <2>0, LenProperties
    <3>2. CASE i < c
      BY <2>0, <2>4, <3>1, <3>2
    <3>3. CASE i >= c
      <4>1. i + 1 \in 1 .. Len(s) /\ w[i] = s[i + 1] /\ i + 1 # c
        BY <2>0, <2>4, <3>1, <3>3
      <4> QED BY <4>1
    <3> QED
      BY <3>1, <3>2, <3>3
  <2>7. (\A i, j \in 1 .. Len(s) : s[i].key = s[j].key => i = j) =>
              /\ \A i \in 1 .. Len(w) : w[i].key # k
              /\ \A i, j \in 1 .. Len(w) : w[i].key = w[j].key => i = j
    <3> SUFFICES ASSUME \A i, j \in 1 .. Len(s) : s[i].key = s[j].key => i = j
                 PROVE  /\ \A i \in 1 .. Len(w) : w[i].key # k
                        /\ \A i, j \in 1 .. Len(w) : w[i].key = w[j].key => i = j
      OBVIOUS
    <3>1. Len(s) \in Nat /\ c \in Nat
      BY <2>0, LenProperties
    <3>2. \A i \in 1 .. Len(w) : w[i].key # k
      BY <2>0, <2>6
    <3>3. ASSUME NEW i \in 1 .. Len(w), NEW j \in 1 .. Len(w), w[i].key = w[j].key
          PROVE  i = j
      <4> DEFINE f == IF i < c THEN i ELSE i + 1
                 g == IF j < c THEN j ELSE j + 1
      <4>1. f \in 1 .. Len(s) /\ g \in 1 .. Len(s) /\ w[i] = s[f] /\ w[j] = s[g]
        BY <2>4, <3>1
      <4>2. f = g
        BY <3>3, <4>1
      <4> QED
        BY <3>1, <4>2
    <3> QED
      BY <3>2, <3>3
  <2>8. \A i, j \in 1 .. Len(w) : i < j =>
          \E x, y \in 1 .. Len(s) : x < y /\ w[i] = s[x] /\ w[j] = s[y]
    <3> SUFFICES ASSUME NEW i \in 1 .. Len(w), NEW j \in 1 .. Len(w), i < j
                 PROVE  \E x, y \in 1 .. Len(s) : x < y /\ w[i] = s[x] /\ w[j] = s[y]
      OBVIOUS
    <3>1. Len(s) \in Nat /\ c \in Nat
      BY <2>0, LenProperties
    <3> DEFINE x == IF i < c THEN i ELSE i + 1
               y == IF j < c THEN j ELSE j + 1
    <3>2. x \in 1 .. Len(s) /\ y \in 1 .. Len(s) /\ w[i] = s[x] /\ w[j] = s[y]
      BY <2>4, <3>1
    <3>3. x < y
      BY <3>1
    <3> HIDE DEF x, y
    <3> QED
      BY <3>2, <3>3
  <2> QED
    BY <2>4, <2>5, <2>6, <2>7, <2>8, LenProperties DEF w
<1> QED
  BY <1>1, <1>2

(***************************************************************************)
(* The step relation of the guard, whatever else the step does.            *)
(***************************************************************************)
GuardInv == TypeOK /\ RemembersWindow /\ AcceptedOnceInWindow

\* What Trim leaves of a sequence s that ends in its newest entry.
LEMMA TrimProps ==
  ASSUME NEW s \in Seq(Entry), Trim(s), forgotten \in SUBSET Keys,
         Len(s) <= MaxKeys + 1
  PROVE  /\ seen' \in Seq(Entry)
         /\ Len(seen') <= MaxKeys
         /\ forgotten' \in SUBSET Keys
         /\ forgotten \subseteq forgotten'
         /\ \A j \in 1 .. Len(s) :
              s[j].key \in forgotten' \/ \E i \in 1 .. Len(seen') : seen'[i] = s[j]
         /\ \A i \in 1 .. Len(seen') : \E j \in 1 .. Len(s) : seen'[i] = s[j]
         /\ (\A i, j \in 1 .. Len(s) : s[i].key = s[j].key => i = j) =>
              (\A i, j \in 1 .. Len(seen') : seen'[i].key = seen'[j].key => i = j)
<1> DEFINE x == Excess(s)
<1>1. x \in 0 .. Len(s) /\ Len(s) - x <= MaxKeys
  BY GuardAssumption, LenProperties DEF Excess
<1>2. seen' = SubSeq(s, x + 1, Len(s)) /\ forgotten' = forgotten \cup {s[i].key : i \in 1 .. x}
  BY DEF Trim
<1> HIDE DEF x
<1>3. /\ seen' \in Seq(Entry)
      /\ Len(seen') = Len(s) - x
      /\ \A i \in 1 .. Len(seen') : seen'[i] = s[x + i]
  BY <1>1, <1>2, SuffixProps
<1>4. \A i \in 1 .. Len(s) : s[i].key \in Keys
  <2>1. \A i \in 1 .. Len(s) : s[i] \in Entry
    BY ElementOfSeq
  <2> QED
    BY <2>1 DEF Entry
<1>5. forgotten' \in SUBSET Keys /\ forgotten \subseteq forgotten'
  BY <1>1, <1>2, <1>4, LenProperties
<1>6. ASSUME NEW j \in 1 .. Len(s)
      PROVE  s[j].key \in forgotten' \/ \E i \in 1 .. Len(seen') : seen'[i] = s[j]
  <2>1. CASE j <= x
    BY <1>2, <2>1
  <2>2. CASE j > x
    <3>1. j - x \in 1 .. Len(seen') /\ seen'[j - x] = s[j]
      BY <1>1, <1>3, <2>2, LenProperties
    <3> QED BY <3>1
  <2> QED
    BY <1>1, <2>1, <2>2, LenProperties
<1>7. \A i \in 1 .. Len(seen') : x + i \in 1 .. Len(s)
  BY <1>1, <1>3, LenProperties
<1>8. (\A i, j \in 1 .. Len(s) : s[i].key = s[j].key => i = j) =>
        (\A i, j \in 1 .. Len(seen') : seen'[i].key = seen'[j].key => i = j)
  BY <1>1, <1>3, <1>7, LenProperties
<1> QED
  BY <1>1, <1>3, <1>5, <1>6, <1>7, <1>8, LenProperties

(***************************************************************************)
(* A call of is_duplicate, in any step whose clock does not run backwards, *)
(* preserves the invariant.                                                *)
(***************************************************************************)
LEMMA GuardCheck ==
  ASSUME GuardInv, NEW k \in Keys, NEW evict \in Nat, NEW now \in Nat, NEW dup,
         clock <= evict, evict <= now, clock' \in Nat, now <= clock',
         IsDuplicate(k, evict, now, dup)
  PROVE  GuardInv'
<1> USE GuardAssumption
<1>1. PICK n \in 0 .. Len(seen) :
        LET live == SubSeq(seen, n + 1, Len(seen)) IN
        /\ ExpiredPrefix(seen, n, evict)
        /\ dup = HoldsFresh(live, k, now)
        /\ \/ /\ dup
              /\ seen' = live
              /\ UNCHANGED <<accepted, forgotten>>
           \/ /\ ~dup
              /\ Trim(Append(Without(live, k), [key |-> k, ts |-> now]))
              /\ accepted' = Append(accepted, [key |-> k, ts |-> now])
  BY DEF IsDuplicate
<1> DEFINE live == SubSeq(seen, n + 1, Len(seen))
           new == [key |-> k, ts |-> now]
<1>2. new \in Entry /\ new.key = k /\ new.ts = now
  BY DEF Entry
<1>3. /\ live \in Seq(Entry)
      /\ Len(live) = Len(seen) - n
      /\ \A i \in 1 .. Len(live) : live[i] = seen[n + i] /\ n + i \in 1 .. Len(seen)
  BY SuffixProps, LenProperties DEF GuardInv, TypeOK
<1>4. /\ \A i \in 1 .. Len(seen) : seen[i] \in Entry /\ seen[i].ts \in Nat
      /\ \A i \in 1 .. Len(accepted) : accepted[i] \in Entry /\ accepted[i].ts \in Nat
      /\ clock \in Nat /\ Len(seen) \in Nat /\ Len(accepted) \in Nat
  <2>1. seen \in Seq(Entry) /\ accepted \in Seq(Entry) /\ clock \in Nat
    BY DEF GuardInv, TypeOK
  <2>2. /\ \A i \in 1 .. Len(seen) : seen[i] \in Entry
        /\ \A i \in 1 .. Len(accepted) : accepted[i] \in Entry
        /\ Len(seen) \in Nat /\ Len(accepted) \in Nat
    BY <2>1, ElementOfSeq, LenProperties
  <2> QED
    BY <2>1, <2>2 DEF Entry
<1> HIDE DEF live, new
\* What the eviction drops is past its TTL.
<1>5. \A a \in 1 .. Len(accepted) :
        \/ accepted[a].key \in forgotten
        \/ accepted[a].ts + TTL <= evict
        \/ \E i \in 1 .. Len(live) :
             live[i].key = accepted[a].key /\ live[i].ts >= accepted[a].ts
  <2> SUFFICES ASSUME NEW a \in 1 .. Len(accepted), accepted[a].key \notin forgotten,
                      ~(accepted[a].ts + TTL <= evict)
               PROVE  \E i \in 1 .. Len(live) :
                        live[i].key = accepted[a].key /\ live[i].ts >= accepted[a].ts
    OBVIOUS
  <2>1. PICK i \in 1 .. Len(seen) :
          seen[i].key = accepted[a].key /\ seen[i].ts >= accepted[a].ts
    BY <1>4 DEF GuardInv, RemembersWindow
  <2>2. ~(i <= n)
    BY <1>1, <1>4, <2>1 DEF ExpiredPrefix
  <2>3. i - n \in 1 .. Len(live) /\ live[i - n] = seen[i]
    BY <1>3, <1>4, <2>2
  <2> QED
    BY <2>1, <2>3
<1>8. \A i, j \in 1 .. Len(live) : live[i].key = live[j].key => i = j
  <2> SUFFICES ASSUME NEW i \in 1 .. Len(live), NEW j \in 1 .. Len(live),
                      live[i].key = live[j].key
               PROVE  i = j
    OBVIOUS
  <2>1. n + i \in 1 .. Len(seen) /\ n + j \in 1 .. Len(seen)
        /\ live[i] = seen[n + i] /\ live[j] = seen[n + j]
    BY <1>3
  <2>2. n + i = n + j
    BY <2>1 DEF GuardInv, TypeOK
  <2>3. i \in Int /\ j \in Int /\ n \in Int
    BY <1>3, <1>4
  <2> QED
    BY <2>2, <2>3
<1>9. \A i \in 1 .. Len(live) : live[i].ts <= clock /\ live[i].ts \in Nat
  BY <1>3, <1>4 DEF GuardInv, TypeOK
<1>6. CASE dup
  <2>1. seen' = live /\ accepted' = accepted /\ forgotten' = forgotten
    BY <1>1, <1>6 DEF live
  <2>2. TypeOK'
    <3>1. Len(live) <= MaxKeys
      BY <1>3, <1>4 DEF GuardInv, TypeOK
    <3>2. \A i \in 1 .. Len(live) : live[i].ts <= clock'
      BY <1>4, <1>9
    <3>3. \A i \in 1 .. Len(accepted) : accepted[i].ts <= clock'
      BY <1>4 DEF GuardInv, TypeOK
    <3> QED
      BY <1>3, <1>8, <2>1, <3>1, <3>2, <3>3 DEF GuardInv, TypeOK
  <2>3. RemembersWindow'
    <3> SUFFICES ASSUME NEW a \in 1 .. Len(accepted), accepted[a].key \notin forgotten,
                        ~(accepted[a].ts + TTL <= clock')
                 PROVE  \E i \in 1 .. Len(live) :
                          live[i].key = accepted[a].key /\ live[i].ts >= accepted[a].ts
      BY <2>1 DEF RemembersWindow
    <3>1. accepted[a].ts \in Nat
      BY <1>4
    <3>2. ~(accepted[a].ts + TTL <= evict)
      BY <1>4, <3>1
    <3> QED
      BY <1>5, <3>2
  <2>4. AcceptedOnceInWindow'
    BY <2>1 DEF GuardInv, AcceptedOnceInWindow
  <2> QED
    BY <2>2, <2>3, <2>4 DEF GuardInv
<1>7. CASE ~dup
  <2> DEFINE w == Without(live, k)
             r == Append(w, new)
  <2>1. /\ ~HoldsFresh(live, k, now)
        /\ Trim(r)
        /\ accepted' = Append(accepted, new)
    BY <1>1, <1>7 DEF live, new
  <2>3. /\ w \in Seq(Entry)
        /\ Len(w) \in Nat /\ Len(w) <= Len(live)
        /\ \A j \in 1 .. Len(live) : live[j].key # k => \E i \in 1 .. Len(w) : w[i] = live[j]
        /\ \A i \in 1 .. Len(w) : \E j \in 1 .. Len(live) : w[i] = live[j]
        /\ \A i \in 1 .. Len(w) : w[i].key # k
        /\ \A i, j \in 1 .. Len(w) : w[i].key = w[j].key => i = j
    BY <1>3, <1>8, WithoutProps, LenProperties
  <2> HIDE DEF w
  <2>4. /\ r \in Seq(Entry)
        /\ Len(r) = Len(w) + 1
        /\ \A i \in 1 .. Len(w) : r[i] = w[i]
        /\ r[Len(w) + 1] = new
    BY <1>2, <2>3, AppendProperties
  <2> HIDE DEF r
  <2>5. Len(r) <= MaxKeys + 1
    BY <1>3, <1>4, <2>3, <2>4 DEF GuardInv, TypeOK
  <2>6. \A i, j \in 1 .. Len(r) : r[i].key = r[j].key => i = j
    <3>1. r[Len(w) + 1].key = k /\ Len(r) = Len(w) + 1 /\ Len(w) \in Nat
      BY <1>2, <2>3, <2>4
    <3>2. ASSUME NEW i \in 1 .. Len(r), NEW j \in 1 .. Len(r), r[i].key = r[j].key
          PROVE  i = j
      <4>1. CASE i <= Len(w) /\ j <= Len(w)
        <5>1. i \in 1 .. Len(w) /\ j \in 1 .. Len(w) /\ r[i] = w[i] /\ r[j] = w[j]
          BY <2>3, <2>4, <4>1
        <5> QED BY <2>3, <3>2, <5>1
      <4>2. CASE i <= Len(w) /\ ~(j <= Len(w))
        <5>1. i \in 1 .. Len(w) /\ j = Len(w) + 1
          BY <3>1, <4>2
        <5>2. r[j].key = k
          BY <3>1, <5>1
        <5>3. r[i].key # k
          BY <2>3, <2>4, <5>1
        <5> QED BY <3>2, <5>2, <5>3
      <4>3. CASE ~(i <= Len(w)) /\ j <= Len(w)
        <5>1. j \in 1 .. Len(w) /\ i = Len(w) + 1
          BY <3>1, <4>3
        <5>2. r[i].key = k
          BY <3>1, <5>1
        <5>3. r[j].key # k
          BY <2>3, <2>4, <5>1
        <5> QED BY <3>2, <5>2, <5>3
      <4>4. CASE ~(i <= Len(w)) /\ ~(j <= Len(w))
        BY <2>3, <2>4, <4>4
      <4> QED
        BY <4>1, <4>2, <4>3, <4>4
    <3> QED
      BY <3>2
  <2>7. /\ seen' \in Seq(Entry)
        /\ Len(seen') <= MaxKeys
        /\ forgotten' \in SUBSET Keys
        /\ forgotten \subseteq forgotten'
        /\ \A j \in 1 .. Len(r) :
             r[j].key \in forgotten' \/ \E i \in 1 .. Len(seen') : seen'[i] = r[j]
        /\ \A i \in 1 .. Len(seen') : \E j \in 1 .. Len(r) : seen'[i] = r[j]
        /\ \A i, j \in 1 .. Len(seen') : seen'[i].key = seen'[j].key => i = j
    BY <2>1, <2>4, <2>5, <2>6, TrimProps DEF GuardInv, TypeOK
  <2>8. /\ accepted' \in Seq(Entry)
        /\ Len(accepted') = Len(accepted) + 1
        /\ \A a \in 1 .. Len(accepted) : accepted'[a] = accepted[a]
        /\ accepted'[Len(accepted) + 1] = new
    BY <1>2, <2>1, AppendProperties DEF GuardInv, TypeOK
  <2>10. \A i \in 1 .. Len(r) : r[i].ts <= clock'
    <3> SUFFICES ASSUME NEW i \in 1 .. Len(r) PROVE r[i].ts <= clock'
      OBVIOUS
    <3>1. CASE i \in 1 .. Len(w)
      <4>1. PICK j \in 1 .. Len(live) : r[i] = live[j]
        BY <2>3, <2>4, <3>1
      <4> QED
        BY <1>4, <1>9, <4>1
    <3>2. CASE i = Len(w) + 1
      BY <1>2, <2>4, <3>2
    <3> QED
      BY <2>3, <2>4, <3>1, <3>2
  <2>11. TypeOK'
    <3>1. \A i \in 1 .. Len(seen') : seen'[i].ts <= clock'
      BY <2>7, <2>10
    <3>2. ASSUME NEW a \in 1 .. Len(accepted')
          PROVE  accepted'[a].ts <= clock'
      <4>0. Len(accepted) \in Nat /\ accepted \in Seq(Entry)
        BY LenProperties DEF GuardInv, TypeOK
      <4>1. CASE a \in 1 .. Len(accepted)
        <5>1. accepted'[a] = accepted[a] /\ accepted[a].ts <= clock /\ accepted[a] \in Entry
          BY <2>8, <4>0, <4>1, ElementOfSeq DEF GuardInv, TypeOK
        <5>2. accepted[a].ts \in Nat
          BY <5>1 DEF Entry
        <5> QED
          BY <1>4, <5>1, <5>2
      <4>2. CASE a = Len(accepted) + 1
        <5>1. accepted'[a].ts = now
          BY <1>2, <2>8, <4>2
        <5> QED
          BY <1>4, <5>1
      <4> QED
        BY <2>8, <4>0, <4>1, <4>2
    <3> QED
      BY <2>7, <2>8, <3>1, <3>2 DEF TypeOK
  \* A live entry of another key is kept or popped; k itself is the newest.
  <2>12. RemembersWindow'
    <3> SUFFICES ASSUME NEW a \in 1 .. Len(accepted'), accepted'[a].key \notin forgotten',
                        ~(accepted'[a].ts + TTL <= clock')
                 PROVE  \E i \in 1 .. Len(seen') :
                          seen'[i].key = accepted'[a].key /\ seen'[i].ts >= accepted'[a].ts
      BY DEF RemembersWindow
    <3>1. CASE accepted'[a].key = k
      <4>1. PICK i \in 1 .. Len(seen') : seen'[i] = new
        <5>1. Len(w) + 1 \in 1 .. Len(r)
          BY <2>3, <2>4
        <5>2. r[Len(w) + 1].key \notin forgotten'
          BY <1>2, <2>4, <3>1
        <5> QED
          BY <2>4, <2>7, <5>1, <5>2
      <4>2. accepted'[a].ts <= now
        <5>1. CASE a \in 1 .. Len(accepted)
          <6>1. accepted[a].ts <= clock
            BY <5>1 DEF GuardInv, TypeOK
          <6> QED
            BY <1>4, <2>8, <5>1, <6>1
        <5>2. CASE a = Len(accepted) + 1
          BY <1>2, <2>8, <5>2
        <5> QED
          BY <1>4, <2>8, <5>1, <5>2
      <4> QED
        BY <1>2, <3>1, <4>1, <4>2
    <3>2. CASE accepted'[a].key # k
      <4>1. a \in 1 .. Len(accepted) /\ accepted'[a] = accepted[a]
        BY <1>2, <1>4, <2>8, <3>2
      <4>2. PICK j \in 1 .. Len(live) :
              live[j].key = accepted[a].key /\ live[j].ts >= accepted[a].ts
        <5>1. accepted[a].key \notin forgotten
          BY <2>7, <4>1
        <5>2. ~(accepted[a].ts + TTL <= evict)
          BY <1>4, <4>1
        <5> QED
          BY <1>5, <4>1, <5>1, <5>2
      <4>3. PICK l \in 1 .. Len(w) : w[l] = live[j]
        BY <2>3, <3>2, <4>1, <4>2
      <4>4. l \in 1 .. Len(r) /\ r[l] = live[j]
        BY <2>3, <2>4, <4>3
      <4>5. PICK i \in 1 .. Len(seen') : seen'[i] = live[j]
        <5>1. r[l].key \notin forgotten'
          BY <4>1, <4>2, <4>4
        <5> QED
          BY <2>7, <4>4, <5>1
      <4> QED
        BY <4>1, <4>2, <4>5
    <3> QED
      BY <3>1, <3>2
  <2>13. AcceptedOnceInWindow'
    <3> SUFFICES ASSUME NEW a \in 1 .. Len(accepted'), NEW b \in 1 .. Len(accepted'),
                        a < b, accepted'[a].key = accepted'[b].key,
                        accepted'[a].key \notin forgotten'
                 PROVE  accepted'[a].ts + TTL <= accepted'[b].ts
      BY DEF AcceptedOnceInWindow
    <3>1. a \in 1 .. Len(accepted) /\ accepted'[a] = accepted[a]
      BY <1>4, <2>8
    <3>2. CASE b \in 1 .. Len(accepted)
      BY <1>4, <2>7, <2>8, <3>1, <3>2 DEF GuardInv, AcceptedOnceInWindow
    <3>3. CASE b = Len(accepted) + 1
      <4>1. accepted'[b].ts = now /\ accepted[a].key = k
        BY <1>2, <2>8, <3>1, <3>3
      <4>2. CASE accepted[a].ts + TTL <= evict
        BY <1>4, <3>1, <4>1, <4>2
      <4>3. CASE ~(accepted[a].ts + TTL <= evict)
        <5>1. PICK i \in 1 .. Len(live) :
                live[i].key = accepted[a].key /\ live[i].ts >= accepted[a].ts
          BY <1>5, <2>7, <3>1, <4>3
        <5>2. ~(now - live[i].ts < TTL)
          BY <2>1, <4>1, <5>1 DEF HoldsFresh
        <5>3. live[i].ts \in Nat /\ accepted[a].ts \in Nat /\ now \in Nat /\ TTL \in Nat
          BY <1>4, <1>9, <3>1, <5>1
        <5> DEFINE x == live[i].ts
                   y == accepted[a].ts
        <5>5. x \in Nat /\ y \in Nat /\ now \in Nat /\ TTL \in Nat /\ x >= y /\ ~(now - x < TTL)
          BY <5>1, <5>2, <5>3
        <5> HIDE DEF x, y
        <5>6. y + TTL <= now
          BY <5>5
        <5>4. accepted[a].ts + TTL <= now
          BY <5>6 DEF y
        <5> QED
          BY <3>1, <4>1, <5>4
      <4> QED
        BY <4>2, <4>3
    <3>4. b \in 1 .. Len(accepted) \/ b = Len(accepted) + 1
      <4>1. Len(accepted) \in Nat /\ Len(accepted') = Len(accepted) + 1
        BY <1>4, <2>8
      <4> QED BY <4>1
    <3> QED
      BY <3>2, <3>3, <3>4
  <2> QED
    BY <2>11, <2>12, <2>13 DEF GuardInv
<1> QED
  BY <1>6, <1>7

(***************************************************************************)
(* A call of mark_seen, in any step that reads the clock at or after its   *)
(* current value, preserves the invariant although it disturbs the order.  *)
(***************************************************************************)
LEMMA GuardMark ==
  ASSUME GuardInv, NEW k \in Keys, NEW now \in Nat,
         clock <= now, clock' \in Nat, now <= clock', MarkSeen(k, now)
  PROVE  GuardInv'
<1> USE GuardAssumption
<1> DEFINE new == [key |-> k, ts |-> now]
<1>1. new \in Entry /\ new.key = k /\ new.ts = now
  BY DEF Entry
<1>2. /\ \A i \in 1 .. Len(seen) : seen[i] \in Entry /\ seen[i].ts \in Nat
      /\ \A i \in 1 .. Len(accepted) : accepted[i] \in Entry /\ accepted[i].ts \in Nat
      /\ clock \in Nat /\ Len(seen) \in Nat /\ Len(accepted) \in Nat
  <2>1. seen \in Seq(Entry) /\ accepted \in Seq(Entry) /\ clock \in Nat
    BY DEF GuardInv, TypeOK
  <2>2. /\ \A i \in 1 .. Len(seen) : seen[i] \in Entry
        /\ \A i \in 1 .. Len(accepted) : accepted[i] \in Entry
        /\ Len(seen) \in Nat /\ Len(accepted) \in Nat
    BY <2>1, ElementOfSeq, LenProperties
  <2> QED
    BY <2>1, <2>2 DEF Entry
\* Both ways give a sequence s that holds `new' and every entry of another key.
<1> DEFINE Marked(s) ==
             /\ Trim(s)
             /\ Len(s) <= MaxKeys + 1
             /\ \E i \in 1 .. Len(s) : s[i] = new
             /\ \A j \in 1 .. Len(seen) :
                  seen[j].key # k => \E i \in 1 .. Len(s) : s[i] = seen[j]
             /\ \A i \in 1 .. Len(s) : s[i].ts <= clock'
             /\ \A i, j \in 1 .. Len(s) : s[i].key = s[j].key => i = j
<1> HIDE DEF new
<1>3. PICK s \in Seq(Entry) : Marked(s)
  <2>1. ASSUME NEW i \in 1 .. Len(seen), seen[i].key = k, Trim([seen EXCEPT ![i] = new])
        PROVE  \E s \in Seq(Entry) : Marked(s)
    <3> DEFINE s == [seen EXCEPT ![i] = new]
    <3>1. s \in Seq(Entry) /\ Len(s) = Len(seen)
          /\ \A j \in 1 .. Len(seen) : s[j] = IF j = i THEN new ELSE seen[j]
      BY <1>1, ExceptSeq, LenProperties DEF GuardInv, TypeOK
    <3>6. Trim(s)
      BY <2>1
    <3> HIDE DEF s
    <3>2. Len(s) <= MaxKeys + 1
      BY <3>1, <1>2 DEF GuardInv, TypeOK
    <3>3. \A j \in 1 .. Len(seen) : seen[j].key # k => s[j] = seen[j]
      BY <2>1, <3>1
    <3>4. \A j \in 1 .. Len(s) : s[j].ts <= clock'
      <4>1. new.ts <= clock'
        BY <1>1
      <4>2. ASSUME NEW j \in 1 .. Len(seen)
            PROVE  seen[j].ts <= clock'
        <5>1. seen[j].ts \in Nat /\ seen[j].ts <= clock /\ clock \in Nat
          BY <1>2 DEF GuardInv, TypeOK, Entry
        <5>2. clock <= clock'
          BY <5>1
        <5> QED
          BY <5>1, <5>2
      <4>3. \A j \in 1 .. Len(seen) : s[j] = new \/ s[j] = seen[j]
        BY <3>1
      <4> QED
        BY <3>1, <4>1, <4>2, <4>3
    <3>5. \A j, l \in 1 .. Len(s) : s[j].key = s[l].key => j = l
      <4>1. \A j \in 1 .. Len(s) : s[j].key = seen[j].key
        BY <1>1, <2>1, <3>1
      <4> QED
        BY <3>1, <4>1 DEF GuardInv, TypeOK
    <3>7. \E j \in 1 .. Len(s) : s[j] = new
      BY <3>1
    <3>8. Marked(s)
      BY <3>1, <3>2, <3>3, <3>4, <3>5, <3>6, <3>7
    <3> QED
      BY <3>1, <3>8
  <2>2. ASSUME \A i \in 1 .. Len(seen) : seen[i].key # k, Trim(Append(seen, new))
        PROVE  \E s \in Seq(Entry) : Marked(s)
    <3> DEFINE s == Append(seen, new)
    <3>1. /\ s \in Seq(Entry) /\ Len(s) = Len(seen) + 1
          /\ \A j \in 1 .. Len(seen) : s[j] = seen[j]
          /\ s[Len(seen) + 1] = new
      BY <1>1, AppendProperties DEF GuardInv, TypeOK
    <3>2. Trim(s)
      BY <2>2
    <3> HIDE DEF s
    <3>3. \A j \in 1 .. Len(s) : j \in 1 .. Len(seen) \/ j = Len(seen) + 1
      BY <1>2, <3>1
    <3>4. Len(s) <= MaxKeys + 1 /\ Len(seen) + 1 \in 1 .. Len(s)
          /\ \A j \in 1 .. Len(seen) : j \in 1 .. Len(s)
      BY <3>1, <1>2 DEF GuardInv, TypeOK
    <3>5. \A j \in 1 .. Len(s) : s[j].ts <= clock'
      <4>1. \A j \in 1 .. Len(seen) : s[j].ts <= clock'
        BY <1>2, <3>1 DEF GuardInv, TypeOK
      <4>2. s[Len(seen) + 1].ts <= clock'
        BY <1>1, <3>1
      <4> QED
        BY <3>3, <4>1, <4>2
    <3>6. ASSUME NEW j \in 1 .. Len(s), NEW l \in 1 .. Len(s), s[j].key = s[l].key
          PROVE  j = l
      <4>1. \A i \in 1 .. Len(seen) : s[i].key # s[Len(seen) + 1].key
        BY <1>1, <2>2, <3>1
      <4>2. CASE j \in 1 .. Len(seen) /\ l \in 1 .. Len(seen)
        BY <3>1, <3>6, <4>2 DEF GuardInv, TypeOK
      <4> QED
        BY <3>3, <3>6, <4>1, <4>2
    <3>7. \A j \in 1 .. Len(seen) : \E i \in 1 .. Len(s) : s[i] = seen[j]
      BY <3>1, <3>4
    <3>9. \A i, j \in 1 .. Len(s) : s[i].key = s[j].key => i = j
      BY <3>6
    <3>10. \E i \in 1 .. Len(s) : s[i] = new
      BY <3>1, <3>4
    <3>8. Marked(s)
      BY <3>2, <3>4, <3>5, <3>7, <3>9, <3>10
    <3> QED
      BY <3>1, <3>8
  <2> QED
    BY <2>1, <2>2 DEF MarkSeen, new
<1>4. /\ seen' \in Seq(Entry)
      /\ Len(seen') <= MaxKeys
      /\ forgotten' \in SUBSET Keys
      /\ forgotten \subseteq forgotten'
      /\ \A j \in 1 .. Len(s) :
           s[j].key \in forgotten' \/ \E i \in 1 .. Len(seen') : seen'[i] = s[j]
      /\ \A i \in 1 .. Len(seen') : \E j \in 1 .. Len(s) : seen'[i] = s[j]
      /\ \A i, j \in 1 .. Len(seen') : seen'[i].key = seen'[j].key => i = j
  BY <1>3, TrimProps DEF GuardInv, TypeOK
<1>5. accepted' = accepted
  BY DEF MarkSeen
<1>6. TypeOK'
  <2>1. \A i \in 1 .. Len(seen') : seen'[i].ts <= clock'
    BY <1>3, <1>4
  <2>2. \A a \in 1 .. Len(accepted') : accepted'[a].ts <= clock'
    BY <1>2, <1>5 DEF GuardInv, TypeOK
  <2> QED
    BY <1>4, <1>5, <2>1, <2>2 DEF GuardInv, TypeOK
<1>7. RemembersWindow'
  <2> SUFFICES ASSUME NEW a \in 1 .. Len(accepted), accepted[a].key \notin forgotten',
                      ~(accepted[a].ts + TTL <= clock')
               PROVE  \E i \in 1 .. Len(seen') :
                        seen'[i].key = accepted[a].key /\ seen'[i].ts >= accepted[a].ts
    BY <1>5 DEF RemembersWindow
  <2>1. CASE accepted[a].key = k
    <3>1. PICK j \in 1 .. Len(s) : s[j] = new
      BY <1>3
    <3>2. s[j].key \notin forgotten'
      BY <1>1, <2>1, <3>1
    <3>3. PICK i \in 1 .. Len(seen') : seen'[i] = new
      BY <1>4, <3>1, <3>2
    <3>4. accepted[a].ts <= now
      BY <1>2 DEF GuardInv, TypeOK
    <3> QED
      BY <1>1, <2>1, <3>3, <3>4
  <2>2. CASE accepted[a].key # k
    <3>1. accepted[a].key \notin forgotten /\ ~(accepted[a].ts + TTL <= clock)
      BY <1>2, <1>4
    <3>2. PICK j \in 1 .. Len(seen) :
            seen[j].key = accepted[a].key /\ seen[j].ts >= accepted[a].ts
      BY <3>1 DEF GuardInv, RemembersWindow
    <3>3. PICK l \in 1 .. Len(s) : s[l] = seen[j]
      BY <1>3, <2>2, <3>2
    <3>4. s[l].key \notin forgotten'
      BY <3>2, <3>3
    <3>5. PICK i \in 1 .. Len(seen') : seen'[i] = seen[j]
      BY <1>4, <3>3, <3>4
    <3> QED
      BY <3>2, <3>5
  <2> QED
    BY <2>1, <2>2
<1>8. AcceptedOnceInWindow'
  BY <1>4, <1>5 DEF GuardInv, AcceptedOnceInWindow
<1> QED
  BY <1>6, <1>7, <1>8 DEF GuardInv

\* A fresh guard, at construction or after clear() (GuardCleared), satisfies the invariant.
LEMMA GuardFresh ==
  ASSUME clock \in Nat, GuardInit
  PROVE  GuardInv
BY GuardAssumption DEF GuardInit, GuardInv, TypeOK, RemembersWindow, AcceptedOnceInWindow

\* clear() leaves an empty guard, which satisfies the invariant.
LEMMA GuardCleared ==
  ASSUME clock' \in Nat, Clear
  PROVE  GuardInv'
BY GuardAssumption DEF Clear, GuardInv, TypeOK, RemembersWindow, AcceptedOnceInWindow

\* Time passing preserves the invariant.
LEMMA GuardIdle ==
  ASSUME GuardInv, clock' \in Nat, clock <= clock', UNCHANGED guardVars
  PROVE  GuardInv'
<1> USE GuardAssumption
<1>1. seen' = seen /\ accepted' = accepted /\ forgotten' = forgotten
  BY DEF guardVars
<1>2. /\ \A i \in 1 .. Len(seen) : seen[i].ts \in Nat
      /\ \A i \in 1 .. Len(accepted) : accepted[i].ts \in Nat
      /\ clock \in Nat
  <2>1. seen \in Seq(Entry) /\ accepted \in Seq(Entry) /\ clock \in Nat
    BY DEF GuardInv, TypeOK
  <2>2. /\ \A i \in 1 .. Len(seen) : seen[i] \in Entry
        /\ \A i \in 1 .. Len(accepted) : accepted[i] \in Entry
    BY <2>1, ElementOfSeq
  <2> QED
    BY <2>1, <2>2 DEF Entry
<1>3. TypeOK'
  BY <1>1, <1>2 DEF GuardInv, TypeOK
<1>4. RemembersWindow'
  <2> SUFFICES ASSUME NEW a \in 1 .. Len(accepted), accepted[a].key \notin forgotten,
                      ~(accepted[a].ts + TTL <= clock')
               PROVE  \E i \in 1 .. Len(seen) :
                        seen[i].key = accepted[a].key /\ seen[i].ts >= accepted[a].ts
    BY <1>1 DEF RemembersWindow
  <2>1. ~(accepted[a].ts + TTL <= clock)
    BY <1>2
  <2> QED
    BY <2>1 DEF GuardInv, RemembersWindow
<1>5. AcceptedOnceInWindow'
  BY <1>1 DEF GuardInv, AcceptedOnceInWindow
<1> QED
  BY <1>3, <1>4, <1>5 DEF GuardInv

(***************************************************************************)
(* The guard's specification keeps the invariant: TypeOK, RemembersWindow  *)
(* (needed to make it inductive) and AcceptedOnceInWindow.                 *)
(***************************************************************************)
THEOREM GuardInvariance == Spec => []GuardInv
<1>1. Init => GuardInv
  <2> SUFFICES ASSUME Init PROVE GuardInv
    OBVIOUS
  <2>1. clock \in Nat /\ GuardInit
    BY DEF Init
  <2> QED
    BY <2>1, GuardFresh
<1>2. GuardInv /\ [Next]_vars => GuardInv'
  <2> SUFFICES ASSUME GuardInv, [Next]_vars PROVE GuardInv'
    OBVIOUS
  <2>0. clock \in Nat
    BY DEF GuardInv, TypeOK
  <2>1. CASE Tick
    <3>1. clock' \in Nat /\ clock <= clock' /\ UNCHANGED guardVars
      BY <2>0, <2>1 DEF Tick
    <3> QED
      BY <3>1, GuardIdle
  <2>2. CASE CallIsDuplicate
    <3>1. PICK k \in Keys, dup \in BOOLEAN, evict \in Now, now \in Now :
            evict <= now /\ IsDuplicate(k, evict, now, dup) /\ clock' = now
      BY <2>2 DEF CallIsDuplicate
    <3>2. evict \in Nat /\ now \in Nat /\ clock <= evict
      BY <2>0, GuardAssumption DEF Now
    <3> QED
      BY <3>1, <3>2, GuardCheck
  <2>3. CASE CallMarkSeen
    <3>1. PICK k \in Keys : MarkSeen(k, clock) /\ clock' = clock
      BY <2>3 DEF CallMarkSeen
    <3> QED
      BY <2>0, <3>1, GuardMark
  <2>4. CASE CallClear
    <3>1. clock' \in Nat /\ Clear
      BY <2>0, <2>4 DEF CallClear
    <3> QED
      BY <3>1, GuardCleared
  <2>5. CASE UNCHANGED vars
    <3>1. clock' \in Nat /\ clock <= clock' /\ UNCHANGED guardVars
      BY <2>0, <2>5 DEF vars
    <3> QED
      BY <3>1, GuardIdle
  <2> QED
    BY <2>1, <2>2, <2>3, <2>4, <2>5 DEF Next
<1> QED
  BY <1>1, <1>2, PTL DEF Spec

\* The parts of it that the runs check.
THEOREM GuardTypeCorrect == Spec => []TypeOK
BY GuardInvariance, PTL DEF GuardInv

(***************************************************************************)
(* is_duplicate never lets one key through twice within ttl_seconds unless *)
(* the capacity loop popped it, whatever mark_seen and clear do.           *)
(***************************************************************************)
THEOREM GuardAcceptsOnce == Spec => []AcceptedOnceInWindow
BY GuardInvariance, PTL DEF GuardInv

(***************************************************************************)
(* The message server                                                      *)
(***************************************************************************)

(***************************************************************************)
(* The strengthening: the log runs in step with the ids the guard let      *)
(* through, and what was let through was in the window of the verifier.    *)
(***************************************************************************)
LogAligned ==
  /\ Len(log) = Len(accepted)
  /\ \A i \in 1 .. Len(log) :
       log[i].msg.id = accepted[i].key /\ log[i].at = accepted[i].ts

LogInWindow ==
  signing => \A i \in 1 .. Len(log) :
    /\ log[i].msg.ts \in Nat
    /\ log[i].msg.ts <= log[i].at + MaxSkew
    /\ log[i].at <= log[i].msg.ts + MaxAge + Lag

ServerInv ==
  /\ GuardInv
  /\ ServerTypeOK
  /\ LogAligned
  /\ LogInWindow

LogEntry == [msg : Messages, at : Nat, until : Nat, outcome : Outcomes]

\* What makes an entry of the log sound (the body of OnlyVerifiedDispatched).
Sound(e) ==
  e.outcome = "dispatched" =>
    /\ signing => SignatureValid(e.msg) /\ e.at <= e.msg.ts + MaxAge + Lag
    /\ e.msg.body.token # None =>
         /\ e.msg.body.token.delegate = e.msg.body.from
         /\ e.msg.body.token.signer = e.msg.body.token.delegator
         /\ e.msg.body.token.expiresAt # None => e.until <= e.msg.body.token.expiresAt

(***************************************************************************)
(* Clock reads of a delivery are ordered, no earlier than the clock and at *)
(* most Lag later.                                                         *)
(***************************************************************************)
LEMMA ReadingsOrdered ==
  ASSUME clock \in Nat, NEW r \in Readings
  PROVE  /\ r.verify \in Nat /\ r.evict \in Nat /\ r.record \in Nat
         /\ r.again \in Nat /\ r.expiry \in Nat /\ r.token \in Nat
         /\ clock <= r.verify /\ r.verify <= r.evict /\ r.evict <= r.record
         /\ r.record <= r.token /\ r.expiry <= r.token
         /\ r.record <= r.verify + Lag
BY GuardAssumption DEF Readings, Now

(***************************************************************************)
(* What handle_message does, seen from outside: it writes one entry to the *)
(* log and moves at most the counter of the message's token.               *)
(***************************************************************************)
LEMMA Handled ==
  ASSUME NEW m \in Messages, NEW r \in Readings, NEW verified \in BOOLEAN,
         HandleMessage(m, r, verified)
  PROVE  \E o \in Outcomes :
           /\ log' = Append(log, [msg |-> m, at |-> r.record, until |-> r.token, outcome |-> o])
           /\ o = "dispatched" /\ signing /\ ~verified => MessageVerify(m, r.again)
           /\ \/ /\ UNCHANGED storeVars
                 /\ o = "dispatched" => m.body.token = None
              \/ /\ m.body.token # None
                 /\ TokenUsable(m, r.expiry)
                 /\ \E ok \in BOOLEAN :
                      /\ GetAndIncrement(m.body.token.id, m.body.token.maxUses, r.expiry, ok)
                      /\ o = "dispatched" => ok /\ TokenVerifies(m.body.token, r.token)
<1>0. DispatchOutcome(m) \in Outcomes
  BY DEF DispatchOutcome, Outcomes
<1>1. ASSUME m.body.token = None /\ Note(m, r, DispatchOutcome(m)) /\ UNCHANGED storeVars
      PROVE  \E o \in Outcomes :
               /\ log' = Append(log, [msg |-> m, at |-> r.record, until |-> r.token, outcome |-> o])
               /\ UNCHANGED storeVars /\ m.body.token = None
  BY <1>0, <1>1 DEF Note
<1>2. ASSUME Note(m, r, "token_refused") /\ UNCHANGED storeVars
      PROVE  \E o \in Outcomes :
               /\ log' = Append(log, [msg |-> m, at |-> r.record, until |-> r.token, outcome |-> o])
               /\ UNCHANGED storeVars /\ o # "dispatched"
  BY <1>2 DEF Note, Outcomes
<1>3. ASSUME m.body.token # None, TokenUsable(m, r.expiry),
             NEW ok \in BOOLEAN, NEW resolved \in BOOLEAN,
             GetAndIncrement(m.body.token.id, m.body.token.maxUses, r.expiry, ok),
             Note(m, r,
               CASE ~ok -> "token_exhausted"
                 [] ok /\ ~resolved -> "token_unverifiable"
                 [] ok /\ resolved /\ ~TokenVerifies(m.body.token, r.token) -> "token_invalid"
                 [] OTHER -> DispatchOutcome(m))
      PROVE  \E o \in Outcomes :
               /\ log' = Append(log, [msg |-> m, at |-> r.record, until |-> r.token, outcome |-> o])
               /\ o = "dispatched" => ok /\ TokenVerifies(m.body.token, r.token)
  <2> DEFINE V == TokenVerifies(m.body.token, r.token)
             o == CASE ~ok -> "token_exhausted"
                    [] ok /\ ~resolved -> "token_unverifiable"
                    [] ok /\ resolved /\ ~V -> "token_invalid"
                    [] OTHER -> DispatchOutcome(m)
  <2>1. log' = Append(log, [msg |-> m, at |-> r.record, until |-> r.token, outcome |-> o])
    BY <1>3 DEF Note
  <2> HIDE DEF V
  <2>2. CASE ~ok
    <3>1. o = "token_exhausted"
      BY <2>2
    <3> QED BY <2>1, <3>1 DEF Outcomes
  <2>3. CASE ok /\ ~resolved
    <3>1. o = "token_unverifiable"
      BY <2>3
    <3> QED BY <2>1, <3>1 DEF Outcomes
  <2>4. CASE ok /\ resolved /\ ~V
    <3>1. o = "token_invalid"
      BY <2>4
    <3> QED BY <2>1, <3>1 DEF Outcomes
  <2>5. CASE ok /\ resolved /\ V
    <3>1. o = DispatchOutcome(m)
      BY <2>5
    <3> QED BY <1>0, <2>1, <2>5, <3>1 DEF V
  <2> QED
    BY <2>2, <2>3, <2>4, <2>5
<1>4. CASE Note(m, r, "invalid_signature") /\ UNCHANGED storeVars
  BY <1>4 DEF Note, Outcomes
<1>5. CASE signing /\ ~verified => MessageVerify(m, r.again)
  <2>1. \/ m.body.token = None /\ Note(m, r, DispatchOutcome(m)) /\ UNCHANGED storeVars
        \/ m.body.token # None /\ Note(m, r, "token_refused") /\ UNCHANGED storeVars
        \/ /\ m.body.token # None
           /\ TokenUsable(m, r.expiry)
           /\ \E ok, resolved \in BOOLEAN :
                /\ GetAndIncrement(m.body.token.id, m.body.token.maxUses, r.expiry, ok)
                /\ Note(m, r,
                     CASE ~ok -> "token_exhausted"
                       [] ok /\ ~resolved -> "token_unverifiable"
                       [] ok /\ resolved /\ ~TokenVerifies(m.body.token, r.token) -> "token_invalid"
                       [] OTHER -> DispatchOutcome(m))
        \/ Note(m, r, "invalid_signature") /\ UNCHANGED storeVars
    BY DEF HandleMessage
  <2> QED
    BY <1>1, <1>2, <1>3, <1>4, <1>5, <2>1
<1>6. CASE ~(signing /\ ~verified => MessageVerify(m, r.again))
  BY <1>4, <1>6 DEF HandleMessage
<1> QED
  BY <1>5, <1>6

(***************************************************************************)
(* A delivery that is turned away by the checks or as a replay leaves the  *)
(* histories alone and preserves the guard's invariant.                    *)
(***************************************************************************)
LEMMA RejectStep ==
  ASSUME GuardInv, NEW m \in Messages, NEW r \in Readings, Reject(m, r), clock' = r.token
  PROVE  GuardInv' /\ accepted' = accepted /\ forgotten' = forgotten
         /\ UNCHANGED <<storeVars, log>>
<1>0. clock \in Nat
  BY DEF GuardInv, TypeOK
<1>1. /\ m.id \in Keys /\ r.evict \in Nat /\ r.record \in Nat /\ r.token \in Nat
      /\ clock <= r.evict /\ r.evict <= r.record /\ r.record <= r.token
  BY <1>0, ReadingsOrdered DEF Messages
<1>2. CASE UNCHANGED guardVars
  <2>1. clock' \in Nat /\ clock <= clock'
    BY <1>0, <1>1
  <2>2. GuardInv'
    BY <1>2, <2>1, GuardIdle
  <2> QED
    BY <1>2, <2>2 DEF Reject, guardVars
<1>3. CASE IsDuplicate(m.id, r.evict, r.record, TRUE)
  <2>1. GuardInv'
    BY <1>0, <1>1, <1>3, GuardCheck
  <2>2. accepted' = accepted /\ forgotten' = forgotten
    BY <1>3 DEF IsDuplicate
  <2> QED
    BY <2>1, <2>2 DEF Reject
<1> QED
  BY <1>2, <1>3 DEF Reject, Verify

(***************************************************************************)
(* A delivery that passes the replay check is recorded by the guard and    *)
(* logged with one sound outcome, and was in the window if messages are    *)
(* signed.                                                                 *)
(***************************************************************************)
Passes(m, r) == RejectSignature(m, r) \/ Accept(m, r)

\* A delivery that passes the replay check adds one entry to the log and one to the guard.
LEMMA PassStep ==
  ASSUME GuardInv, NEW m \in Messages, NEW r \in Readings, Passes(m, r), clock' = r.token
  PROVE  /\ GuardInv'
         /\ accepted' = Append(accepted, [key |-> m.id, ts |-> r.record])
         /\ forgotten \subseteq forgotten'
         /\ signing => InWindow(m, r.verify)
         /\ \E o \in Outcomes :
              LET e == [msg |-> m, at |-> r.record, until |-> r.token, outcome |-> o] IN
              /\ log' = Append(log, e)
              /\ o = "dispatched" /\ signing => SignatureValid(m)
              /\ \/ /\ UNCHANGED storeVars
                    /\ o = "dispatched" => m.body.token = None
                 \/ /\ m.body.token # None
                    /\ TokenUsable(m, r.expiry)
                    /\ \E ok \in BOOLEAN :
                         /\ GetAndIncrement(m.body.token.id, m.body.token.maxUses, r.expiry, ok)
                         /\ o = "dispatched" => ok /\ TokenVerifies(m.body.token, r.token)
<1>0. clock \in Nat
  BY DEF GuardInv, TypeOK
<1>1. /\ m.id \in Keys /\ r.evict \in Nat /\ r.record \in Nat /\ r.token \in Nat
      /\ clock <= r.evict /\ r.evict <= r.record /\ r.record <= r.token
  BY <1>0, ReadingsOrdered DEF Messages
<1>2. IsDuplicate(m.id, r.evict, r.record, FALSE)
  <2>1. CASE RejectSignature(m, r)
    <3>1. Verify(TRUE, m, r, "bad_signature")
      BY <2>1 DEF RejectSignature
    <3> QED BY <3>1 DEF Verify
  <2>2. CASE Accept(m, r)
    <3>1. Verify(TRUE, m, r, "ok") \/ IsDuplicate(m.id, r.evict, r.record, FALSE)
      BY <2>2 DEF Accept
    <3> QED BY <3>1 DEF Verify
  <2> QED
    BY <2>1, <2>2 DEF Passes
<1>3. GuardInv'
  BY <1>0, <1>1, <1>2, GuardCheck
<1>4. accepted' = Append(accepted, [key |-> m.id, ts |-> r.record]) /\ forgotten \subseteq forgotten'
  BY <1>2 DEF IsDuplicate, Trim
<1>5. signing => InWindow(m, r.verify)
  BY DEF Passes, RejectSignature, Accept, Verify, EnvelopeAccepted
<1>6. CASE RejectSignature(m, r)
  <2>1. log' = Append(log, [msg |-> m, at |-> r.record, until |-> r.token,
                            outcome |-> "bad_signature"]) /\ UNCHANGED storeVars
    BY <1>6 DEF RejectSignature, Note
  <2>2. "bad_signature" \in Outcomes /\ "bad_signature" # "dispatched"
    BY DEF Outcomes
  <2> QED
    BY <1>3, <1>4, <1>5, <2>1, <2>2
<1>7. CASE Accept(m, r)
  <2>1. signing => SignatureValid(m)
    <3> SUFFICES ASSUME signing PROVE SignatureValid(m)
      OBVIOUS
    <3>1. Verify(TRUE, m, r, "ok")
      BY <1>7 DEF Accept
    <3> QED
      BY <3>1 DEF Verify
  <2>2. HandleMessage(m, r, TRUE)
    BY <1>7 DEF Accept
  <2> QED
    BY <1>3, <1>4, <1>5, <2>1, <2>2, Handled
<1> QED
  BY <1>6, <1>7 DEF Passes

(***************************************************************************)
(* get_and_increment keeps the counters natural numbers; in memory it adds *)
(* one use of a token below its limit, or refuses and changes nothing.     *)
(***************************************************************************)
LEMMA StoreStep ==
  ASSUME uses \in [TokenIds -> Nat], touched \in [TokenIds -> Nat],
         NEW t \in TokenIds, NEW max \in Nat \cup {NoLimit}, NEW now \in Nat,
         NEW ok \in BOOLEAN, GetAndIncrement(t, max, now, ok)
  PROVE  /\ uses' \in [TokenIds -> Nat] /\ touched' \in [TokenIds -> Nat]
         /\ InMemory => \A u \in TokenIds : uses[u] <= uses'[u]
         /\ InMemory /\ ok =>
              uses'[t] = uses[t] + 1 /\ (max # NoLimit => uses[t] < max)
<1>1. Count(t, now) \in Nat /\ (InMemory => Count(t, now) = uses[t])
  BY DEF Count
<1>2. CASE ~ok
  BY <1>2 DEF GetAndIncrement, storeVars
<1>3. CASE ok
  <2>1. /\ uses' = [uses EXCEPT ![t] = Count(t, now) + 1]
        /\ touched' = [touched EXCEPT ![t] = now]
        /\ max = NoLimit \/ Count(t, now) < max
    BY <1>3 DEF GetAndIncrement, WithinLimit
  <2>2. uses' \in [TokenIds -> Nat] /\ touched' \in [TokenIds -> Nat]
    BY <1>1, <2>1
  <2>3. ASSUME InMemory, NEW u \in TokenIds
        PROVE  uses[u] <= uses'[u]
    BY <1>1, <2>1, <2>3
  <2>4. InMemory => uses'[t] = uses[t] + 1 /\ (max # NoLimit => uses[t] < max)
    BY <1>1, <2>1
  <2> QED
    BY <2>2, <2>3, <2>4
<1> QED
  BY <1>2, <1>3

(***************************************************************************)
(* The invariant is kept by a delivery that passes ...                     *)
(***************************************************************************)
LEMMA PassKeepsInv ==
  ASSUME ServerInv, NEW m \in Messages, NEW r \in Readings, Passes(m, r),
         clock' = r.token, signing' = signing
  PROVE  ServerInv'
<1>0. GuardInv /\ clock \in Nat
  BY DEF ServerInv, GuardInv, TypeOK
<1>1. /\ m.id \in Keys /\ r.verify \in Nat /\ r.record \in Nat /\ r.token \in Nat
      /\ r.expiry \in Nat
      /\ clock <= r.verify /\ r.verify <= r.record /\ r.record <= r.verify + Lag
  BY <1>0, ReadingsOrdered DEF Messages
<1>2. PICK o \in Outcomes :
        /\ log' = Append(log, [msg |-> m, at |-> r.record, until |-> r.token, outcome |-> o])
        /\ \/ UNCHANGED storeVars
           \/ /\ m.body.token # None
              /\ \E ok \in BOOLEAN :
                   GetAndIncrement(m.body.token.id, m.body.token.maxUses, r.expiry, ok)
  BY <1>0, PassStep
<1>3. /\ GuardInv'
      /\ accepted' = Append(accepted, [key |-> m.id, ts |-> r.record])
      /\ signing => InWindow(m, r.verify)
  BY <1>0, PassStep
<1> DEFINE e == [msg |-> m, at |-> r.record, until |-> r.token, outcome |-> o]
           a == [key |-> m.id, ts |-> r.record]
<1>4. /\ e \in LogEntry /\ e.msg = m /\ e.at = r.record
      /\ a \in Entry /\ a.key = m.id /\ a.ts = r.record
  BY <1>1 DEF LogEntry, Entry
<1>5. log \in Seq(LogEntry) /\ accepted \in Seq(Entry)
  BY DEF ServerInv, ServerTypeOK, LogEntry, GuardInv, TypeOK
<1> HIDE DEF e, a
<1>6. /\ log' \in Seq(LogEntry) /\ Len(log') = Len(log) + 1
      /\ \A i \in 1 .. Len(log) : log'[i] = log[i]
      /\ log'[Len(log) + 1] = e
  BY <1>2, <1>4, <1>5, AppendProperties DEF e
<1>7. /\ Len(accepted') = Len(accepted) + 1
      /\ \A i \in 1 .. Len(accepted) : accepted'[i] = accepted[i]
      /\ accepted'[Len(accepted) + 1] = a
  BY <1>3, <1>4, <1>5, AppendProperties DEF a
<1>8. Len(log) \in Nat /\ Len(log) = Len(accepted)
  BY <1>5, LenProperties DEF ServerInv, LogAligned
<1>9. \A i \in 1 .. Len(log') : i \in 1 .. Len(log) \/ i = Len(log) + 1
  BY <1>6, <1>8
<1>10. uses' \in [TokenIds -> Nat] /\ touched' \in [TokenIds -> Nat]
  <2>1. uses \in [TokenIds -> Nat] /\ touched \in [TokenIds -> Nat]
    BY DEF ServerInv, ServerTypeOK
  <2>2. CASE UNCHANGED storeVars
    BY <2>1, <2>2 DEF storeVars
  <2>3. ASSUME m.body.token # None, NEW ok \in BOOLEAN,
               GetAndIncrement(m.body.token.id, m.body.token.maxUses, r.expiry, ok)
        PROVE  uses' \in [TokenIds -> Nat] /\ touched' \in [TokenIds -> Nat]
    <3>1. m.body.token.id \in TokenIds /\ m.body.token.maxUses \in Nat \cup {NoLimit}
      BY <2>3, ServerAssumption DEF Messages
    <3>2. r.expiry \in Nat
      BY <1>1
    <3> QED
      BY <2>1, <2>3, <3>1, <3>2, StoreStep
  <2> QED
    BY <1>2, <2>2, <2>3
<1>11. ServerTypeOK'
  <2>1. signing' \in BOOLEAN
    BY DEF ServerInv, ServerTypeOK
  <2> QED
    BY <1>3, <1>6, <1>10, <2>1 DEF ServerTypeOK, LogEntry, GuardInv
<1>12. LogAligned'
  <2>1. Len(log') = Len(accepted')
    BY <1>6, <1>7, <1>8
  <2>2. ASSUME NEW i \in 1 .. Len(log)
        PROVE  log'[i].msg.id = accepted'[i].key /\ log'[i].at = accepted'[i].ts
    BY <1>6, <1>7, <1>8 DEF ServerInv, LogAligned
  <2>3. log'[Len(log) + 1].msg.id = accepted'[Len(log) + 1].key
        /\ log'[Len(log) + 1].at = accepted'[Len(log) + 1].ts
    BY <1>4, <1>6, <1>7, <1>8
  <2> QED
    BY <1>9, <2>1, <2>2, <2>3 DEF LogAligned
<1>13. LogInWindow'
  <2> SUFFICES ASSUME signing, NEW i \in 1 .. Len(log')
               PROVE  /\ log'[i].msg.ts \in Nat
                      /\ log'[i].msg.ts <= log'[i].at + MaxSkew
                      /\ log'[i].at <= log'[i].msg.ts + MaxAge + Lag
    BY DEF LogInWindow
  <2>1. CASE i \in 1 .. Len(log)
    <3>1. log'[i] = log[i]
      BY <1>6, <2>1
    <3> QED
      BY <2>1, <3>1 DEF ServerInv, LogInWindow
  <2>2. CASE i = Len(log) + 1
    <3>1. log'[i] = e
      BY <1>6, <2>2
    <3>2. m.ts \in Nat /\ r.verify - m.ts <= MaxAge /\ m.ts - r.verify <= MaxSkew
      BY <1>3 DEF InWindow
    <3>3. m.ts <= r.record + MaxSkew /\ r.record <= m.ts + MaxAge + Lag
      <4>1. ASSUME NEW ts \in Nat, NEW v \in Nat, NEW c \in Nat,
                   v - ts <= MaxAge, ts - v <= MaxSkew, v <= c, c <= v + Lag
            PROVE  ts <= c + MaxSkew /\ c <= ts + MaxAge + Lag
        BY <4>1, GuardAssumption, VerifierAssumption
      <4> QED
        BY <1>1, <3>2, <4>1
    <3> QED
      BY <1>4, <3>1, <3>2, <3>3
  <2> QED
    BY <1>9, <2>1, <2>2
<1> QED
  BY <1>3, <1>11, <1>12, <1>13 DEF ServerInv

\* ... and by every other step of the server.
LEMMA ServerInvStep == ServerInv /\ [ServerNext]_serverVars => ServerInv'
<1> SUFFICES ASSUME ServerInv, [ServerNext]_serverVars PROVE ServerInv'
  OBVIOUS
<1>0. GuardInv /\ clock \in Nat
  BY DEF ServerInv, GuardInv, TypeOK
<1>1. ASSUME UNCHANGED <<storeVars, signing, log>>, accepted' = accepted, GuardInv'
      PROVE  ServerInv'
  BY <1>1 DEF ServerInv, ServerTypeOK, LogAligned, LogInWindow, storeVars, GuardInv
<1>2. CASE Advance
  <2>1. clock' \in Nat /\ clock <= clock' /\ UNCHANGED guardVars
    BY <1>0, <1>2 DEF Advance
  <2>2. GuardInv'
    BY <1>0, <2>1, GuardIdle
  <2> QED
    BY <1>1, <1>2, <2>2 DEF Advance, guardVars
<1>3. CASE ReceiveMessage
  <2>1. PICK m \in Messages, r \in Readings :
          (Reject(m, r) \/ Passes(m, r)) /\ clock' = r.token /\ signing' = signing
    BY <1>3 DEF ReceiveMessage, Passes
  <2>2. CASE Reject(m, r)
    BY <1>0, <1>1, <2>1, <2>2, RejectStep
  <2>3. CASE Passes(m, r)
    BY <2>1, <2>3, PassKeepsInv
  <2> QED
    BY <2>1, <2>2, <2>3
<1>4. CASE Restart
  <2>1. GuardInv'
    BY <1>0, <1>4, GuardCleared DEF Restart
  <2>2. log' = <<>> /\ accepted' = <<>>
    BY <1>4 DEF Restart, Clear
  <2>3. uses' \in [TokenIds -> Nat] /\ touched' \in [TokenIds -> Nat]
    BY <1>4 DEF Restart, StoreRestart, storeVars, ServerInv, ServerTypeOK
  <2>4. signing' \in BOOLEAN
    BY <1>4 DEF Restart
  <2> QED
    BY <2>1, <2>2, <2>3, <2>4 DEF ServerInv, ServerTypeOK, LogAligned, LogInWindow, GuardInv
<1>5. CASE UNCHANGED serverVars
  <2>1. clock' \in Nat /\ clock <= clock' /\ UNCHANGED guardVars
    BY <1>0, <1>5 DEF serverVars, guardVars
  <2>2. GuardInv'
    BY <1>0, <2>1, GuardIdle
  <2> QED
    BY <1>1, <1>5, <2>2 DEF serverVars, storeVars
<1> QED
  BY <1>2, <1>3, <1>4, <1>5 DEF ServerNext

\* A server that has just been constructed satisfies the invariant.
LEMMA ServerInvInit == ServerInit => ServerInv
<1> SUFFICES ASSUME ServerInit PROVE ServerInv
  OBVIOUS
<1>1. clock \in Nat /\ GuardInit
  BY DEF ServerInit
<1>2. GuardInv
  BY <1>1, GuardFresh
<1> QED
  BY <1>2 DEF ServerInit, GuardInit, StoreInit, ServerInv, ServerTypeOK, LogAligned,
              LogInWindow, GuardInv

\* The server keeps the strengthened invariant.
THEOREM ServerInvariance == ServerSpec => []ServerInv
BY ServerInvInit, ServerInvStep, PTL DEF ServerSpec

\* Types of the server's state, and the log in step with the guard.
THEOREM ServerTypeCorrect == ServerSpec => []ServerTypeOK
BY ServerInvariance, PTL DEF ServerInv

(***************************************************************************)
(* Deliveries of one id that pass the replay check are TTL apart unless    *)
(* the capacity loop popped the id: AcceptedOnceInWindow of the guard,     *)
(* carried over to the log.                                                *)
(***************************************************************************)
LEMMA OncePerWindow == ServerInv => HandledOncePerWindow
<1> SUFFICES ASSUME ServerInv, NEW a \in 1 .. Len(log), NEW b \in 1 .. Len(log),
                    a < b, log[a].msg.id = log[b].msg.id
             PROVE  log[a].msg.id \in forgotten \/ log[a].at + TTL <= log[b].at
  BY DEF HandledOncePerWindow
<1>1. /\ a \in 1 .. Len(accepted) /\ b \in 1 .. Len(accepted)
      /\ log[a].msg.id = accepted[a].key /\ log[a].at = accepted[a].ts
      /\ log[b].msg.id = accepted[b].key /\ log[b].at = accepted[b].ts
  BY DEF ServerInv, LogAligned
<1> QED
  BY <1>1 DEF ServerInv, GuardInv, AcceptedOnceInWindow

\* serve() lets one id pass its replay check once per window (HandledOncePerWindow).
THEOREM HandlesOncePerWindow == ServerSpec => []HandledOncePerWindow
BY ServerInvariance, OncePerWindow, PTL

(***************************************************************************)
(* A signed message is handled at most once: two handlings would be TTL    *)
(* apart, but both lie in the window of the one timestamp, which is        *)
(* shorter.                                                                *)
(***************************************************************************)
LEMMA SignedOnce == ServerInv => SignedMessageOnce
<1> SUFFICES ASSUME ServerInv, signing, OutlivesWindow, NEW a \in 1 .. Len(log), NEW b \in 1 .. Len(log),
                    a < b, log[a].msg.id = log[b].msg.id, log[a].msg.ts = log[b].msg.ts,
                    log[a].at + TTL <= log[b].at
             PROVE  FALSE
  BY OncePerWindow DEF SignedMessageOnce, HandledOncePerWindow
<1> DEFINE ts == log[a].msg.ts
<1>1. /\ ts \in Nat /\ ts <= log[a].at + MaxSkew
      /\ log[b].at <= ts + MaxAge + Lag
  BY DEF ServerInv, LogInWindow
<1>2. log[a].at \in Nat /\ log[b].at \in Nat
  <2>1. log \in Seq(LogEntry)
    BY DEF ServerInv, ServerTypeOK, LogEntry
  <2>2. log[a] \in LogEntry /\ log[b] \in LogEntry
    BY <2>1, ElementOfSeq
  <2> QED
    BY <2>2 DEF LogEntry
<1> HIDE DEF ts
<1> QED
  BY <1>1, <1>2, GuardAssumption, VerifierAssumption DEF OutlivesWindow

(* One signed message is handled at most once for good, however often and  *)
(* late it is delivered (SignedMessageOnce).                               *)
THEOREM HandlesSignedOnce == ServerSpec => []SignedMessageOnce
BY ServerInvariance, SignedOnce, PTL

(***************************************************************************)
(* Fail closed: OnlyVerifiedDispatched follows entry by entry.             *)
(***************************************************************************)
LEMMA VerifiedStep ==
  ServerInv /\ OnlyVerifiedDispatched /\ [ServerNext]_serverVars => OnlyVerifiedDispatched'
<1> SUFFICES ASSUME ServerInv, OnlyVerifiedDispatched, [ServerNext]_serverVars
             PROVE  OnlyVerifiedDispatched'
  OBVIOUS
<1>0. GuardInv /\ clock \in Nat /\ log \in Seq(LogEntry)
  BY DEF ServerInv, GuardInv, TypeOK, ServerTypeOK, LogEntry
<1>1. CASE log' = log /\ signing' = signing
  BY <1>1 DEF OnlyVerifiedDispatched
<1>2. CASE log' = <<>>
  BY <1>2 DEF OnlyVerifiedDispatched
<1>3. ASSUME NEW m \in Messages, NEW r \in Readings, Passes(m, r),
             clock' = r.token, signing' = signing
      PROVE  OnlyVerifiedDispatched'
  <2>0. ServerInv'
    BY <1>3, PassKeepsInv
  <2>1. PICK o \in Outcomes :
          /\ log' = Append(log, [msg |-> m, at |-> r.record, until |-> r.token, outcome |-> o])
          /\ o = "dispatched" /\ signing => SignatureValid(m)
          /\ o = "dispatched" /\ m.body.token # None =>
               TokenUsable(m, r.expiry) /\ TokenVerifies(m.body.token, r.token)
    BY <1>0, <1>3, PassStep
  <2> DEFINE e == [msg |-> m, at |-> r.record, until |-> r.token, outcome |-> o]
  <2>2. /\ e.msg = m /\ e.until = r.token /\ e.outcome = o /\ e \in LogEntry
    BY <1>0, ReadingsOrdered DEF LogEntry
  <2> HIDE DEF e
  <2>3. /\ Len(log') = Len(log) + 1
        /\ \A i \in 1 .. Len(log) : log'[i] = log[i]
        /\ log'[Len(log) + 1] = e
    BY <1>0, <2>1, <2>2, AppendProperties DEF e
  <2>4. Len(log) \in Nat
    BY <1>0, LenProperties
  <2>5. signing => e.at <= e.msg.ts + MaxAge + Lag
    <3>1. Len(log) + 1 \in 1 .. Len(log')
      BY <2>3, <2>4
    <3> QED
      BY <1>3, <2>0, <2>3, <3>1 DEF ServerInv, LogInWindow
  <2>6. Sound(e)
    BY <2>1, <2>2, <2>5 DEF Sound, TokenUsable, TokenVerifies
  <2>7. \A i \in 1 .. Len(log) : Sound(log[i])
    BY DEF OnlyVerifiedDispatched, Sound
  <2>8. \A i \in 1 .. Len(log') : Sound(log'[i])
    BY <2>3, <2>4, <2>6, <2>7
  <2> QED
    BY <1>3, <2>8 DEF OnlyVerifiedDispatched, Sound
<1>4. CASE ReceiveMessage
  <2>1. PICK m \in Messages, r \in Readings :
          (Reject(m, r) \/ Passes(m, r)) /\ clock' = r.token /\ signing' = signing
    BY <1>4 DEF ReceiveMessage, Passes
  <2>2. CASE Reject(m, r)
    BY <1>1, <2>1, <2>2 DEF Reject
  <2> QED
    BY <1>3, <2>1, <2>2
<1> QED
  BY <1>1, <1>2, <1>4 DEF ServerNext, Advance, Restart, serverVars

(* Whatever reaches a handler was verified, and its token belongs to the   *)
(* sender, was signed by the delegator and is unexpired.                   *)
THEOREM DispatchesOnlyVerified == ServerSpec => []OnlyVerifiedDispatched
<1>1. ServerInit => OnlyVerifiedDispatched
  BY DEF ServerInit, OnlyVerifiedDispatched
<1> QED
  BY <1>1, ServerInvariance, VerifiedStep, PTL DEF ServerSpec

(***************************************************************************)
(* With the in-memory store, the counter of a token's id is never behind   *)
(* the dispatches that used the token; together with the check against     *)
(* max_uses before each count this bounds the dispatches.                  *)
(***************************************************************************)
UsesCovered ==
  InMemory => \A b \in Bodies : b.token # None =>
    /\ IsFiniteSet(DispatchedWith(b.token))
    /\ Cardinality(DispatchedWith(b.token)) <= uses[b.token.id]
    /\ b.token.maxUses # NoLimit =>
         Cardinality(DispatchedWith(b.token)) <= b.token.maxUses

\* Appending to the log adds the new index or nothing to the dispatches of t.
LEMMA DispatchedAppend ==
  ASSUME log \in Seq(LogEntry), NEW e \in LogEntry, log' = Append(log, e), NEW t,
         IsFiniteSet(DispatchedWith(t))
  PROVE  /\ IsFiniteSet(DispatchedWith(t)')
         /\ IF e.outcome = "dispatched" /\ e.msg.body.token = t
              THEN Cardinality(DispatchedWith(t)') = Cardinality(DispatchedWith(t)) + 1
              ELSE DispatchedWith(t)' = DispatchedWith(t)
<1>1. /\ Len(log') = Len(log) + 1 /\ Len(log) \in Nat
      /\ \A i \in 1 .. Len(log) : log'[i] = log[i]
      /\ log'[Len(log) + 1] = e
  BY AppendProperties, LenProperties
<1>2. /\ \A i \in 1 .. Len(log) : i \in 1 .. Len(log')
      /\ \A i \in 1 .. Len(log') : i \in 1 .. Len(log) \/ i = Len(log) + 1
      /\ Len(log) + 1 \in 1 .. Len(log') /\ Len(log) + 1 \notin 1 .. Len(log)
  BY <1>1
<1>3. DispatchedWith(t)' =
        {i \in 1 .. Len(log') : log'[i].outcome = "dispatched" /\ log'[i].msg.body.token = t}
  BY DEF DispatchedWith
<1>4. CASE e.outcome = "dispatched" /\ e.msg.body.token = t
  <2>1. DispatchedWith(t)' = DispatchedWith(t) \cup {Len(log) + 1}
    BY <1>1, <1>2, <1>3, <1>4 DEF DispatchedWith
  <2>2. Len(log) + 1 \notin DispatchedWith(t)
    BY <1>2 DEF DispatchedWith
  <2> QED
    BY <1>4, <2>1, <2>2, FS_AddElement
<1>5. CASE ~(e.outcome = "dispatched" /\ e.msg.body.token = t)
  <2>1. DispatchedWith(t)' = DispatchedWith(t)
    BY <1>1, <1>2, <1>3, <1>5 DEF DispatchedWith
  <2> QED
    BY <1>5, <2>1
<1> QED
  BY <1>4, <1>5

\* Every step keeps the counters ahead of the dispatches (UsesCovered).
LEMMA UsesStep ==
  ServerInv /\ UsesCovered /\ [ServerNext]_serverVars => UsesCovered'
<1> SUFFICES ASSUME ServerInv, UsesCovered, [ServerNext]_serverVars, InMemory,
                    NEW b \in Bodies, b.token # None
             PROVE  LET n == Cardinality(DispatchedWith(b.token)') IN
                    /\ IsFiniteSet(DispatchedWith(b.token)')
                    /\ n <= uses'[b.token.id]
                    /\ b.token.maxUses # NoLimit => n <= b.token.maxUses
  BY DEF UsesCovered, InMemory
<1> DEFINE t == b.token
           D == DispatchedWith(t)
           c == Cardinality(D)
<1>0. GuardInv /\ clock \in Nat /\ log \in Seq(LogEntry)
      /\ uses \in [TokenIds -> Nat] /\ touched \in [TokenIds -> Nat]
  BY DEF ServerInv, GuardInv, TypeOK, ServerTypeOK, LogEntry
<1>1. /\ IsFiniteSet(D) /\ c <= uses[t.id]
      /\ t.maxUses # NoLimit => c <= t.maxUses
      /\ t.id \in TokenIds /\ t.maxUses \in Nat \cup {NoLimit}
  BY ServerAssumption DEF UsesCovered
<1>2. c \in Nat
  BY <1>1, FS_CardinalityType
<1>3. CASE UNCHANGED <<storeVars, log>>
  <2>1. DispatchedWith(t)' = D
    BY <1>3 DEF DispatchedWith
  <2>2. uses' = uses
    BY <1>3 DEF storeVars
  <2> QED
    BY <1>1, <2>1, <2>2
<1>4. CASE Restart
  <2>1. log' = <<>> /\ uses'[t.id] = 0
    BY <1>1, <1>4 DEF Restart, StoreRestart
  <2>2. DispatchedWith(t)' = {}
    BY <2>1 DEF DispatchedWith
  <2>3. IsFiniteSet(DispatchedWith(t)') /\ Cardinality(DispatchedWith(t)') = 0
    BY <2>2, FS_EmptySet
  <2>4. t.maxUses # NoLimit => 0 <= t.maxUses
    BY <1>1
  <2> QED
    BY <2>1, <2>3, <2>4
<1>5. ASSUME NEW m \in Messages, NEW r \in Readings, Passes(m, r), clock' = r.token
      PROVE  /\ IsFiniteSet(DispatchedWith(t)')
             /\ Cardinality(DispatchedWith(t)') <= uses'[t.id]
             /\ t.maxUses # NoLimit => Cardinality(DispatchedWith(t)') <= t.maxUses
  <2>0. r.record \in Nat /\ r.token \in Nat /\ r.expiry \in Nat
    BY <1>0, ReadingsOrdered
  <2>1. PICK o \in Outcomes :
          /\ log' = Append(log, [msg |-> m, at |-> r.record, until |-> r.token, outcome |-> o])
          /\ \/ /\ UNCHANGED storeVars
                /\ o = "dispatched" => m.body.token = None
             \/ /\ m.body.token # None
                /\ \E ok \in BOOLEAN :
                     /\ GetAndIncrement(m.body.token.id, m.body.token.maxUses, r.expiry, ok)
                     /\ o = "dispatched" => ok
    BY <1>0, <1>5, PassStep
  <2> DEFINE e == [msg |-> m, at |-> r.record, until |-> r.token, outcome |-> o]
             used == o = "dispatched" /\ m.body.token = t
  <2>2. e \in LogEntry /\ e.msg = m /\ e.outcome = o
    BY <2>0 DEF LogEntry
  <2> HIDE DEF e
  <2>3. /\ IsFiniteSet(DispatchedWith(t)')
        /\ used => Cardinality(DispatchedWith(t)') = c + 1
        /\ ~used => DispatchedWith(t)' = D
    <3>1. log' = Append(log, e)
      BY <2>1 DEF e
    <3> QED
      BY <1>0, <1>1, <2>2, <3>1, DispatchedAppend
  <2>4. CASE UNCHANGED storeVars /\ (o = "dispatched" => m.body.token = None)
    <3>1. ~used
      BY <2>4
    <3>2. uses' = uses
      BY <2>4 DEF storeVars
    <3> QED
      BY <1>1, <2>3, <3>1, <3>2
  <2>5. ASSUME m.body.token # None, NEW ok \in BOOLEAN,
               GetAndIncrement(m.body.token.id, m.body.token.maxUses, r.expiry, ok),
               o = "dispatched" => ok
        PROVE  /\ Cardinality(DispatchedWith(t)') <= uses'[t.id]
               /\ t.maxUses # NoLimit => Cardinality(DispatchedWith(t)') <= t.maxUses
    <3>1. m.body.token.id \in TokenIds /\ m.body.token.maxUses \in Nat \cup {NoLimit}
      BY <2>5, ServerAssumption DEF Messages
    <3>2. /\ uses' \in [TokenIds -> Nat]
          /\ \A u \in TokenIds : uses[u] <= uses'[u]
          /\ ok => /\ uses'[m.body.token.id] = uses[m.body.token.id] + 1
                   /\ m.body.token.maxUses # NoLimit =>
                        uses[m.body.token.id] < m.body.token.maxUses
      <4>1. r.expiry \in Nat /\ uses \in [TokenIds -> Nat] /\ touched \in [TokenIds -> Nat]
        BY <1>0, <2>0
      <4>2. GetAndIncrement(m.body.token.id, m.body.token.maxUses, r.expiry, ok)
        BY <2>5
      <4> DEFINE id == m.body.token.id
                 max == m.body.token.maxUses
      <4>3. id \in TokenIds /\ max \in Nat \cup {NoLimit} /\ GetAndIncrement(id, max, r.expiry, ok)
        BY <3>1, <4>2
      <4> HIDE DEF id, max
      <4>4. /\ uses' \in [TokenIds -> Nat]
            /\ InMemory => \A u \in TokenIds : uses[u] <= uses'[u]
            /\ InMemory /\ ok => uses'[id] = uses[id] + 1 /\ (max # NoLimit => uses[id] < max)
        BY <4>1, <4>3, StoreStep
      <4> QED
        BY <4>4 DEF id, max
    <3>3. uses[t.id] \in Nat /\ uses'[t.id] \in Nat /\ uses[t.id] <= uses'[t.id]
      BY <1>0, <1>1, <3>2
    <3>4. CASE used
      <4>1. /\ uses'[t.id] = uses[t.id] + 1
            /\ t.maxUses # NoLimit => uses[t.id] < t.maxUses
        BY <2>5, <3>2, <3>4
      <4>2. c + 1 <= uses'[t.id]
        BY <1>1, <1>2, <3>3, <4>1
      <4>3. t.maxUses # NoLimit => c + 1 <= t.maxUses
        BY <1>1, <1>2, <3>3, <4>1
      <4> QED
        BY <2>3, <3>4, <4>2, <4>3
    <3>5. CASE ~used
      <4>1. Cardinality(DispatchedWith(t)') = c
        BY <2>3, <3>5
      <4>2. c <= uses'[t.id]
        BY <1>1, <1>2, <3>3
      <4> QED
        BY <1>1, <4>1, <4>2
    <3> QED
      BY <3>4, <3>5
  <2> QED
    BY <2>1, <2>3, <2>4, <2>5
<1>6. CASE ReceiveMessage
  <2>1. PICK m \in Messages, r \in Readings :
          (Reject(m, r) \/ Passes(m, r)) /\ clock' = r.token
    BY <1>6 DEF ReceiveMessage, Passes
  <2>2. CASE Reject(m, r)
    BY <1>3, <2>2 DEF Reject
  <2> QED
    BY <1>5, <2>1, <2>2
<1>7. CASE Advance \/ UNCHANGED serverVars
  BY <1>3, <1>7 DEF Advance, serverVars, storeVars
<1> QED
  BY <1>4, <1>6, <1>7 DEF ServerNext

(***************************************************************************)
(* With the in-memory store a token reaches handlers at most max_uses      *)
(* times in the life of the process.                                       *)
(***************************************************************************)
THEOREM EnforcesMaxUses == ServerSpec => [](InMemory => MaxUsesEnforced)
<1>1. ServerInit => UsesCovered
  <2> SUFFICES ASSUME ServerInit, NEW b \in Bodies, b.token # None
               PROVE  LET n == Cardinality(DispatchedWith(b.token)) IN
                      /\ IsFiniteSet(DispatchedWith(b.token))
                      /\ n <= uses[b.token.id]
                      /\ b.token.maxUses # NoLimit => n <= b.token.maxUses
    BY DEF UsesCovered
  <2>1. DispatchedWith(b.token) = {}
    BY DEF ServerInit, DispatchedWith
  <2>2. IsFiniteSet(DispatchedWith(b.token)) /\ Cardinality(DispatchedWith(b.token)) = 0
    BY <2>1, FS_EmptySet
  <2>3. uses[b.token.id] = 0 /\ (b.token.maxUses # NoLimit => 0 <= b.token.maxUses)
    BY ServerAssumption DEF ServerInit, StoreInit
  <2> QED
    BY <2>2, <2>3
<1>2. UsesCovered => (InMemory => MaxUsesEnforced)
  BY DEF UsesCovered, MaxUsesEnforced
<1> QED
  BY <1>1, <1>2, ServerInvariance, UsesStep, PTL DEF ServerSpec

(***************************************************************************)
(* Without mark_seen the order of the entries is the order of their times, *)
(* so eviction leaves only what is in the TTL.                             *)
(***************************************************************************)
SeenInOrder == \A i, j \in 1 .. Len(seen) : i < j => seen[i].ts <= seen[j].ts

\* One call of is_duplicate keeps the order, and pops only when it is full of live ids.
LEMMA CheckInOrder ==
  ASSUME GuardInv, SeenInOrder, TTL > 0, NEW k \in Keys, NEW evict \in Nat, NEW now \in Nat,
         NEW dup, clock <= evict, evict <= now, IsDuplicate(k, evict, now, dup)
  PROVE  /\ SeenInOrder'
         /\ forgotten' # forgotten =>
              /\ Len(seen') = MaxKeys
              /\ \A i \in 1 .. MaxKeys : seen'[i].ts + TTL > clock
<1>1. PICK n \in 0 .. Len(seen) :
        LET live == SubSeq(seen, n + 1, Len(seen)) IN
        /\ ExpiredPrefix(seen, n, evict)
        /\ \/ /\ seen' = live
              /\ forgotten' = forgotten
           \/ Trim(Append(Without(live, k), [key |-> k, ts |-> now]))
  BY DEF IsDuplicate
<1> DEFINE live == SubSeq(seen, n + 1, Len(seen))
           new == [key |-> k, ts |-> now]
           w == Without(live, k)
           all == Append(w, new)
<1>2. new \in Entry /\ new.ts = now
  BY DEF Entry
<1>3. seen \in Seq(Entry) /\ Len(seen) \in Nat /\ Len(seen) <= MaxKeys /\ clock \in Nat
  BY LenProperties DEF GuardInv, TypeOK
<1>4. /\ live \in Seq(Entry) /\ Len(live) = Len(seen) - n
      /\ \A i \in 1 .. Len(live) : live[i] = seen[n + i] /\ n + i \in 1 .. Len(seen)
  BY <1>3, SuffixProps
<1>5. \A i \in 1 .. Len(seen) : seen[i].ts \in Nat /\ seen[i].ts <= clock
  <2>1. \A i \in 1 .. Len(seen) : seen[i] \in Entry
    BY <1>3, ElementOfSeq
  <2> QED
    BY <2>1 DEF Entry, GuardInv, TypeOK
<1> HIDE DEF live
<1>6. \A i, j \in 1 .. Len(live) : i < j => live[i].ts <= live[j].ts
  <2> SUFFICES ASSUME NEW i \in 1 .. Len(live), NEW j \in 1 .. Len(live), i < j
               PROVE  live[i].ts <= live[j].ts
    OBVIOUS
  <2>1. n + i < n + j
    OBVIOUS
  <2> QED
    BY <1>4, <2>1 DEF SeenInOrder
\* What is left was seen less than the TTL ago, for the first that is left was.
<1>7. \A i \in 1 .. Len(live) : live[i].ts \in Nat /\ live[i].ts <= clock /\ live[i].ts + TTL > clock
  <2> SUFFICES ASSUME NEW i \in 1 .. Len(live)
               PROVE  live[i].ts \in Nat /\ live[i].ts <= clock /\ live[i].ts + TTL > clock
    OBVIOUS
  <2>1. live[i] = seen[n + i] /\ n + i \in 1 .. Len(seen) /\ n \in Nat /\ n < Len(seen)
    BY <1>3, <1>4
  <2>2. n + 1 \in 1 .. Len(seen) /\ (n + 1 = n + i \/ n + 1 < n + i)
    BY <1>3, <2>1
  <2>3. seen[n + 1].ts > evict - TTL
    BY <1>1, <2>1 DEF ExpiredPrefix
  <2>4. seen[n + 1].ts <= seen[n + i].ts
    BY <1>5, <2>1, <2>2 DEF SeenInOrder
  <2> DEFINE p == seen[n + 1].ts
             q == seen[n + i].ts
  <2>5. p \in Nat /\ q \in Nat /\ q <= clock /\ p > evict - TTL /\ p <= q
    BY <1>5, <2>1, <2>2, <2>3, <2>4
  <2> HIDE DEF p, q
  <2>6. q + TTL > clock
    BY <1>3, <2>5, GuardAssumption
  <2> QED
    BY <2>1, <2>5, <2>6 DEF q
<1>8. CASE seen' = live /\ forgotten' = forgotten
  BY <1>6, <1>8 DEF SeenInOrder
<1>9. CASE Trim(all)
  <2>1. /\ w \in Seq(Entry) /\ Len(w) \in Nat /\ Len(w) <= Len(live)
        /\ \A i \in 1 .. Len(w) : \E j \in 1 .. Len(live) : w[i] = live[j]
        /\ \A i, j \in 1 .. Len(w) : i < j =>
             \E x, y \in 1 .. Len(live) : x < y /\ w[i] = live[x] /\ w[j] = live[y]
    BY <1>4, WithoutProps, LenProperties
  <2> HIDE DEF w, new
  <2>2. /\ all \in Seq(Entry) /\ Len(all) = Len(w) + 1
        /\ \A i \in 1 .. Len(w) : all[i] = w[i]
        /\ all[Len(w) + 1] = new
    BY <1>2, <2>1, AppendProperties
  <2> HIDE DEF all
  <2>3. \A i \in 1 .. Len(w) : w[i].ts \in Nat /\ w[i].ts <= now /\ w[i].ts + TTL > clock
    <3> SUFFICES ASSUME NEW i \in 1 .. Len(w)
                 PROVE  w[i].ts \in Nat /\ w[i].ts <= now /\ w[i].ts + TTL > clock
      OBVIOUS
    <3>1. PICK j \in 1 .. Len(live) : w[i] = live[j]
      BY <2>1
    <3>2. live[j].ts \in Nat /\ live[j].ts <= clock /\ live[j].ts + TTL > clock
      BY <1>7
    <3> QED
      BY <1>3, <3>1, <3>2
  <2>4. \A i \in 1 .. Len(all) : i \in 1 .. Len(w) \/ i = Len(w) + 1
    BY <2>1, <2>2
  <2>5. \A i \in 1 .. Len(all) : all[i].ts \in Nat /\ all[i].ts + TTL > clock
    <3>1. now + TTL > clock
      BY <1>3, GuardAssumption
    <3> QED
      BY <1>2, <2>2, <2>3, <2>4, <3>1
  <2>6. \A i, j \in 1 .. Len(all) : i < j => all[i].ts <= all[j].ts
    <3> SUFFICES ASSUME NEW i \in 1 .. Len(all), NEW j \in 1 .. Len(all), i < j
                 PROVE  all[i].ts <= all[j].ts
      OBVIOUS
    <3>1. i \in 1 .. Len(w) /\ all[i] = w[i]
      BY <2>1, <2>2
    <3>2. CASE j \in 1 .. Len(w)
      <4>1. PICK x \in 1 .. Len(live), y \in 1 .. Len(live) : x < y /\ w[i] = live[x] /\ w[j] = live[y]
        BY <2>1, <3>1, <3>2
      <4>2. all[j] = w[j] /\ live[x].ts <= live[y].ts
        BY <1>6, <2>2, <3>2, <4>1
      <4> QED
        BY <3>1, <4>1, <4>2
    <3>3. CASE j = Len(w) + 1
      BY <1>2, <2>2, <2>3, <3>1, <3>3
    <3> QED
      BY <2>4, <3>2, <3>3
  <2> DEFINE x == Excess(all)
  <2>7. x \in 0 .. Len(all) /\ (x # 0 => Len(all) - x = MaxKeys) /\ Len(all) \in Nat
    BY <2>1, <2>2, GuardAssumption DEF Excess
  <2>8. seen' = SubSeq(all, x + 1, Len(all)) /\ forgotten' = forgotten \cup {all[i].key : i \in 1 .. x}
    BY <1>9 DEF Trim
  <2> HIDE DEF x
  <2>9. /\ Len(seen') = Len(all) - x
        /\ \A i \in 1 .. Len(seen') : seen'[i] = all[x + i] /\ x + i \in 1 .. Len(all)
    <3>1. /\ Len(seen') = Len(all) - x
          /\ \A i \in 1 .. (Len(all) - x) : seen'[i] = all[x + i]
      BY <2>2, <2>7, <2>8, SuffixProps
    <3> QED
      BY <2>7, <3>1
  <2>10. SeenInOrder'
    <3> SUFFICES ASSUME NEW i \in 1 .. Len(seen'), NEW j \in 1 .. Len(seen'), i < j
                 PROVE  seen'[i].ts <= seen'[j].ts
      BY DEF SeenInOrder
    <3>1. x + i < x + j
      BY <2>7
    <3> QED
      BY <2>6, <2>9, <3>1
  <2>11. ASSUME forgotten' # forgotten
         PROVE  Len(seen') = MaxKeys /\ \A i \in 1 .. MaxKeys : seen'[i].ts + TTL > clock
    <3>1. x # 0
      <4> SUFFICES ASSUME x = 0 PROVE FALSE
        OBVIOUS
      <4>1. {all[i].key : i \in 1 .. x} = {}
        OBVIOUS
      <4> QED
        BY <2>8, <2>11, <4>1
    <3>2. Len(seen') = MaxKeys
      BY <2>7, <2>9, <3>1
    <3> QED
      BY <2>5, <2>9, <3>2
  <2> QED
    BY <2>10, <2>11
<1> QED
  BY <1>1, <1>8, <1>9 DEF live, all, w, new

(* The guard of a server forgets an id early only when it is full of ids   *)
(* that are all in their TTL (ForgetsOnlyUnderLoad).                       *)
THEOREM ForgetsUnderLoad == ServerSpec => ForgetsOnlyUnderLoad
<1> DEFINE Early == forgotten' # forgotten /\ forgotten' # {} =>
                      /\ Len(seen') = MaxKeys
                      /\ \A i \in 1 .. MaxKeys : seen'[i].ts + TTL > clock
<1>1. ServerInit => SeenInOrder
  BY DEF ServerInit, GuardInit, SeenInOrder
<1>2. ServerInv /\ SeenInOrder /\ [ServerNext]_serverVars => SeenInOrder' /\ Early
  <2> SUFFICES ASSUME ServerInv, SeenInOrder, [ServerNext]_serverVars
               PROVE  SeenInOrder' /\ Early
    OBVIOUS
  <2>0. GuardInv /\ clock \in Nat
    BY DEF ServerInv, GuardInv, TypeOK
  <2>1. ASSUME seen' = seen, forgotten' = forgotten
        PROVE  SeenInOrder' /\ Early
    BY <2>1 DEF SeenInOrder
  <2>2. ASSUME NEW m \in Messages, NEW r \in Readings, NEW dup,
               IsDuplicate(m.id, r.evict, r.record, dup)
        PROVE  SeenInOrder' /\ Early
    <3>1. /\ m.id \in Keys /\ r.evict \in Nat /\ r.record \in Nat
          /\ clock <= r.evict /\ r.evict <= r.record
      BY <2>0, ReadingsOrdered DEF Messages
    <3>2. TTL > 0
      BY VerifierAssumption
    <3> QED
      BY <2>0, <2>2, <3>1, <3>2, CheckInOrder
  <2>3. CASE ReceiveMessage
    <3>1. PICK m \in Messages, r \in Readings :
            Reject(m, r) \/ RejectSignature(m, r) \/ Accept(m, r)
      BY <2>3 DEF ReceiveMessage
    <3>2. (seen' = seen /\ forgotten' = forgotten)
          \/ \E dup : IsDuplicate(m.id, r.evict, r.record, dup)
      BY <3>1 DEF Reject, RejectSignature, Accept, Verify, guardVars
    <3> QED
      BY <2>1, <2>2, <3>2
  <2>4. CASE Restart
    <3>1. seen' = <<>> /\ forgotten' = {}
      BY <2>4 DEF Restart, Clear
    <3> QED
      BY <3>1 DEF SeenInOrder
  <2>5. CASE Advance \/ UNCHANGED serverVars
    BY <2>1, <2>5 DEF Advance, serverVars, guardVars
  <2> QED
    BY <2>3, <2>4, <2>5 DEF ServerNext
<1>3. ServerInv /\ SeenInOrder /\ [ServerNext]_serverVars
        => [forgotten' # forgotten /\ forgotten' # {} =>
              /\ Len(seen') = MaxKeys
              /\ \A i \in 1 .. MaxKeys : seen'[i].ts + TTL > clock]_serverVars
  BY <1>2
<1> QED
  BY <1>1, <1>2, <1>3, ServerInvariance, PTL DEF ServerSpec, ForgetsOnlyUnderLoad

(***************************************************************************)
(* The router.  A dispatch uses up what the cache that let it through      *)
(* holds for its id and timestamp: an entry of the guard that is as late   *)
(* as the timestamp, or one of _seen; and when _seen has lost that, the    *)
(* second verification lets nothing through with this timestamp any more.  *)
(***************************************************************************)
Sent(t) == IF t = None THEN 0 ELSE t

SpentAtGuard(k, t) ==
  /\ strict = "guarded"
  /\ \E a \in 1 .. Len(accepted) :
       accepted[a].key = k /\ Sent(t) <= accepted[a].ts + MaxSkew

SpentAtRouter(k, t) ==
  signing /\ \/ clock > Sent(t) + MaxAge
             \/ \E e \in routerSeen : e.key = k /\ Sent(t) <= e.ts + MaxAge

Spent(k, t) ==
  (IF SpentAtGuard(k, t) THEN 1 ELSE 0) + (IF SpentAtRouter(k, t) THEN 1 ELSE 0)

RouterTypeOK ==
  /\ log \in Seq(LogEntry)
  /\ routerSeen \subseteq Entry
  /\ signing \in BOOLEAN /\ strict \in {"none", "unguarded", "guarded"}

RouterInv ==
  /\ GuardInv
  /\ RouterTypeOK
  /\ \A k \in Keys, t \in Timestamps :
       /\ IsFiniteSet(Dispatches(k, t))
       /\ ReplayProtected /\ k \notin forgotten =>
            Cardinality(Dispatches(k, t)) <= Spent(k, t)

\* handle_message of the router writes one entry, dispatched only after the second verification.
LEMMA RouterHandled ==
  ASSUME NEW m \in Messages, NEW r \in Readings, HandleMessage(m, r, FALSE)
  PROVE  \E o \in Outcomes :
           /\ log' = Append(log, [msg |-> m, at |-> r.record, until |-> r.token, outcome |-> o])
           /\ o = "dispatched" /\ signing => MessageVerify(m, r.again)
<1>1. FALSE \in BOOLEAN
  OBVIOUS
<1> QED
  BY <1>1, Handled

\* The timestamp as a number.
LEMMA SentIs ==
  ASSUME NEW t \in Timestamps
  PROVE  Sent(t) \in Nat /\ (t \in Nat => Sent(t) = t)
BY ServerAssumption, VerifierAssumption DEF Sent

\* Time passing, and entries that leave _seen, never give back what is spent there.
LEMMA StaysSpentAtRouter ==
  ASSUME NEW k \in Keys, NEW t \in Timestamps, NEW now \in Nat, clock \in Nat, clock' \in Nat,
         now <= clock', clock <= clock', signing' = signing, routerSeen \subseteq Entry,
         Purged(now) \subseteq routerSeen', SpentAtRouter(k, t)
  PROVE  SpentAtRouter(k, t)'
<1>0. Sent(t) \in Nat /\ Sent(t)' = Sent(t) /\ MaxAge \in Nat
  BY SentIs, VerifierAssumption DEF Sent
<1>1. CASE clock > Sent(t) + MaxAge
  <2>1. clock' > Sent(t) + MaxAge
    BY <1>0, <1>1
  <2> QED
    BY <1>0, <2>1 DEF SpentAtRouter
<1>2. ASSUME NEW e \in routerSeen, e.key = k, Sent(t) <= e.ts + MaxAge
      PROVE  SpentAtRouter(k, t)'
  <2>0. e.ts \in Nat /\ RouterSeenTTL \in Nat
    BY RouterAssumption DEF Entry
  <2>1. CASE e \in Purged(now)
    BY <1>0, <1>2, <2>1 DEF SpentAtRouter
  <2>2. CASE e \notin Purged(now)
    <3>1. ~(now - e.ts <= RouterSeenTTL)
      BY <2>2 DEF Purged
    <3> DEFINE ts == e.ts
               u == Sent(t)
    <3>2. ts \in Nat /\ u \in Nat /\ u <= ts + MaxAge /\ ~(now - ts <= RouterSeenTTL)
      BY <1>0, <1>2, <2>0, <3>1
    <3> HIDE DEF ts, u
    <3>3. clock' > u + MaxAge
      BY <1>0, <2>0, <3>2, RouterWindowAssumption
    <3> QED
      BY <1>0, <3>3 DEF u, SpentAtRouter
  <2> QED
    BY <2>1, <2>2
<1> QED
  BY <1>1, <1>2 DEF SpentAtRouter

\* The guard keeps what it let through.
LEMMA StaysSpentAtGuard ==
  ASSUME NEW k \in Keys, NEW t \in Timestamps, strict' = strict, accepted \in Seq(Entry),
         accepted' = accepted \/ \E a \in Entry : accepted' = Append(accepted, a),
         SpentAtGuard(k, t)
  PROVE  SpentAtGuard(k, t)'
<1>1. PICK a \in 1 .. Len(accepted) : accepted[a].key = k /\ Sent(t) <= accepted[a].ts + MaxSkew
  BY DEF SpentAtGuard
<1>2. a \in 1 .. Len(accepted') /\ accepted'[a] = accepted[a]
  <2>1. CASE accepted' = accepted
    BY <2>1
  <2>2. ASSUME NEW b \in Entry, accepted' = Append(accepted, b)
        PROVE  a \in 1 .. Len(accepted') /\ accepted'[a] = accepted[a]
    <3>1. /\ Len(accepted') = Len(accepted) + 1 /\ Len(accepted) \in Nat
          /\ accepted'[a] = accepted[a]
      BY <2>2, AppendProperties, LenProperties
    <3> QED
      BY <3>1
  <2> QED
    BY <2>1, <2>2
<1> QED
  BY <1>1, <1>2 DEF SpentAtGuard, Sent

\* One more entry in the log is one more dispatch of its own message, or none.
LEMMA DispatchesAppend ==
  ASSUME log \in Seq(LogEntry), NEW e \in LogEntry, log' = Append(log, e), NEW k, NEW t,
         IsFiniteSet(Dispatches(k, t))
  PROVE  /\ IsFiniteSet(Dispatches(k, t)')
         /\ IF e.outcome = "dispatched" /\ e.msg.id = k /\ e.msg.ts = t
              THEN Cardinality(Dispatches(k, t)') = Cardinality(Dispatches(k, t)) + 1
              ELSE Dispatches(k, t)' = Dispatches(k, t)
<1> DEFINE its == e.outcome = "dispatched" /\ e.msg.id = k /\ e.msg.ts = t
           D == Dispatches(k, t)
<1>1. /\ Len(log') = Len(log) + 1 /\ Len(log) \in Nat
      /\ \A i \in 1 .. Len(log) : log'[i] = log[i]
      /\ log'[Len(log) + 1] = e
  BY AppendProperties, LenProperties
<1>2. /\ \A i \in 1 .. Len(log) : i \in 1 .. Len(log')
      /\ \A i \in 1 .. Len(log') : i \in 1 .. Len(log) \/ i = Len(log) + 1
      /\ Len(log) + 1 \in 1 .. Len(log') /\ Len(log) + 1 \notin 1 .. Len(log)
  BY <1>1
<1>3. Dispatches(k, t)' =
        {i \in 1 .. Len(log') :
           log'[i].msg.id = k /\ log'[i].msg.ts = t /\ log'[i].outcome = "dispatched"}
  BY DEF Dispatches
<1>4. CASE its
  <2>1. Dispatches(k, t)' = D \cup {Len(log) + 1}
    BY <1>1, <1>2, <1>3, <1>4 DEF Dispatches
  <2>2. Len(log) + 1 \notin D
    BY <1>2 DEF Dispatches
  <2> QED
    BY <1>4, <2>1, <2>2, FS_AddElement
<1>5. CASE ~its
  <2>1. Dispatches(k, t)' = D
    BY <1>1, <1>2, <1>3, <1>5 DEF Dispatches
  <2> QED
    BY <1>5, <2>1
<1> QED
  BY <1>4, <1>5

(***************************************************************************)
(* The guard lets an id and timestamp through once: two times would be TTL *)
(* apart and both in the window of the timestamp.                          *)
(***************************************************************************)
LEMMA GuardSpends ==
  ASSUME GuardInv, GuardInv', NEW m \in Messages, NEW r \in Readings, strict = "guarded",
         OutlivesWindow,
         InWindow(m, r.verify), m.id \notin forgotten', strict' = strict,
         accepted' = Append(accepted, [key |-> m.id, ts |-> r.record])
  PROVE  ~SpentAtGuard(m.id, m.ts) /\ SpentAtGuard(m.id, m.ts)'
<1> DEFINE a == [key |-> m.id, ts |-> r.record]
           u == Sent(m.ts)
<1>0. clock \in Nat
  BY DEF GuardInv, TypeOK
<1>1. /\ m.id \in Keys /\ r.verify \in Nat /\ r.record \in Nat
      /\ r.verify <= r.record /\ r.record <= r.verify + Lag
  BY <1>0, ReadingsOrdered DEF Messages
<1>2. a \in Entry /\ a.key = m.id /\ a.ts = r.record
  BY <1>1 DEF Entry
<1>3. accepted \in Seq(Entry) /\ accepted' = Append(accepted, a)
  BY DEF GuardInv, TypeOK
<1> HIDE DEF a
<1>4. /\ Len(accepted') = Len(accepted) + 1 /\ Len(accepted) \in Nat
      /\ \A i \in 1 .. Len(accepted) : accepted'[i] = accepted[i]
      /\ accepted'[Len(accepted) + 1] = a
  BY <1>2, <1>3, AppendProperties, LenProperties
<1>5. u \in Nat /\ r.verify - u <= MaxAge /\ u - r.verify <= MaxSkew
  <2>1. m.ts \in Nat /\ m.ts \in Timestamps
    BY DEF InWindow, Messages
  <2> QED
    BY <2>1, SentIs DEF InWindow
<1>6. u <= r.record + MaxSkew /\ r.record <= u + MaxAge + Lag
  <2> DEFINE v == r.verify
             c == r.record
  <2>1. /\ v \in Nat /\ c \in Nat /\ u \in Nat
        /\ v <= c /\ c <= v + Lag /\ v - u <= MaxAge /\ u - v <= MaxSkew
    BY <1>1, <1>5
  <2> HIDE DEF v, c, u
  <2>2. u <= c + MaxSkew /\ c <= u + MaxAge + Lag
    BY <2>1, GuardAssumption, VerifierAssumption
  <2> QED
    BY <2>2 DEF c
<1> HIDE DEF u
<1>7. SpentAtGuard(m.id, m.ts)'
  <2>1. Len(accepted) + 1 \in 1 .. Len(accepted')
    BY <1>4
  <2>2. Sent(m.ts)' = u
    BY DEF Sent, u
  <2> QED
    BY <1>2, <1>4, <1>6, <2>1, <2>2 DEF SpentAtGuard
<1>8. ASSUME SpentAtGuard(m.id, m.ts)
      PROVE  FALSE
  <2>1. PICK i \in 1 .. Len(accepted) : accepted[i].key = m.id /\ u <= accepted[i].ts + MaxSkew
    BY <1>8 DEF SpentAtGuard, u
  <2>2. /\ i \in 1 .. Len(accepted') /\ Len(accepted) + 1 \in 1 .. Len(accepted')
        /\ i < Len(accepted) + 1 /\ accepted'[i] = accepted[i]
    BY <1>4
  <2>3. accepted[i].ts + TTL <= r.record
    BY <1>2, <1>4, <2>1, <2>2 DEF GuardInv, AcceptedOnceInWindow
  <2> DEFINE s == accepted[i].ts
             c == r.record
  <2>4. s \in Nat /\ c \in Nat /\ s + TTL <= c /\ u <= s + MaxSkew /\ c <= u + MaxAge + Lag
    <3>1. accepted[i] \in Entry
      BY <1>3, ElementOfSeq
    <3> QED
      BY <1>1, <1>6, <2>1, <2>3, <3>1 DEF Entry
  <2> HIDE DEF s, c
  <2> QED
    BY <1>5, <2>4, GuardAssumption, VerifierAssumption DEF OutlivesWindow
<1> QED
  BY <1>7, <1>8

(***************************************************************************)
(* _seen lets an id and timestamp through once: while the second           *)
(* verification accepts the timestamp, the entry is not expired.           *)
(***************************************************************************)
LEMMA RouterSpends ==
  ASSUME clock \in Nat, NEW m \in Messages, NEW r \in Readings, signing,
         MessageVerify(m, r.verify), CheckReplay(m.id, r.record, FALSE), MessageVerify(m, r.again),
         routerSeen \subseteq Entry, signing' = signing
  PROVE  ~SpentAtRouter(m.id, m.ts) /\ SpentAtRouter(m.id, m.ts)'
<1> DEFINE u == Sent(m.ts)
           c == r.record
           g == r.again
           v == r.verify
<1>1. /\ c \in Nat /\ g \in Nat /\ v \in Nat /\ clock <= g /\ c <= g /\ v <= c
  BY ReadingsOrdered DEF Readings, Now
<1>2. u \in Nat /\ g - u <= MaxAge /\ u - v <= MaxAge
  <2>1. m.ts \in Timestamps
    BY DEF Messages
  <2>2. u \in Nat
    BY <2>1, SentIs
  <2> QED
    BY <2>2 DEF MessageVerify, Sent
<1>3. routerSeen' = Purged(c) \cup {[key |-> m.id, ts |-> c]}
      /\ \A e \in Purged(c) : e.key # m.id
  BY DEF CheckReplay
<1> HIDE DEF u, c, g, v
<1>4. u <= c + MaxAge /\ g <= u + MaxAge
  BY <1>1, <1>2, VerifierAssumption
<1>5. SpentAtRouter(m.id, m.ts)'
  <2> DEFINE e == [key |-> m.id, ts |-> c]
  <2>1. e \in routerSeen' /\ e.key = m.id /\ e.ts = c
    BY <1>3
  <2>2. Sent(m.ts)' = u
    BY DEF Sent, u
  <2> HIDE DEF e
  <2> QED
    BY <1>4, <2>1, <2>2 DEF SpentAtRouter
<1>6. ASSUME SpentAtRouter(m.id, m.ts)
      PROVE  FALSE
  <2>1. ~(clock > u + MaxAge)
    BY <1>1, <1>2, <1>4, VerifierAssumption
  <2>2. PICK e \in routerSeen : e.key = m.id /\ u <= e.ts + MaxAge
    BY <1>6, <2>1 DEF SpentAtRouter, u
  <2>3. e \notin Purged(c)
    BY <1>3, <2>2
  <2>4. ~(c - e.ts <= RouterSeenTTL)
    BY <2>2, <2>3 DEF Purged
  <2> DEFINE s == e.ts
  <2>5. s \in Nat /\ u <= s + MaxAge /\ ~(c - s <= RouterSeenTTL)
    BY <2>2, <2>4 DEF Entry
  <2> HIDE DEF s
  <2> QED
    BY <1>1, <1>2, <1>4, <2>5, VerifierAssumption, RouterAssumption, RouterWindowAssumption
<1> QED
  BY <1>5, <1>6

(***************************************************************************)
(* What one delivery may do to the dispatches: nothing, or one more of its *)
(* own message, at the expense of a cache that had it not spent.           *)
(***************************************************************************)
LEMMA DeliveryKeeps ==
  ASSUME RouterInv, ReplayProtected, NEW k \in Keys, NEW t \in Timestamps, k \notin forgotten,
         SpentAtGuard(k, t) => SpentAtGuard(k, t)',
         SpentAtRouter(k, t) => SpentAtRouter(k, t)',
         IsFiniteSet(Dispatches(k, t)'),
         \/ Dispatches(k, t)' = Dispatches(k, t)
         \/ /\ Cardinality(Dispatches(k, t)') = Cardinality(Dispatches(k, t)) + 1
            /\ \/ ~SpentAtGuard(k, t) /\ SpentAtGuard(k, t)'
               \/ ~SpentAtRouter(k, t) /\ SpentAtRouter(k, t)'
  PROVE  Cardinality(Dispatches(k, t)') <= Spent(k, t)'
<1> DEFINE g == IF SpentAtGuard(k, t) THEN 1 ELSE 0
           h == IF SpentAtRouter(k, t) THEN 1 ELSE 0
           n == Cardinality(Dispatches(k, t))
           x == Cardinality(Dispatches(k, t)')
           G == IF SpentAtGuard(k, t)' THEN 1 ELSE 0
           H == IF SpentAtRouter(k, t)' THEN 1 ELSE 0
<1>1. g \in {0, 1} /\ h \in {0, 1} /\ G \in {0, 1} /\ H \in {0, 1} /\ g <= G /\ h <= H
  OBVIOUS
<1>2. n \in Nat /\ n <= g + h
  BY FS_CardinalityType DEF RouterInv, Spent
<1>3. x = n \/ (x = n + 1 /\ (g < G \/ h < H))
  OBVIOUS
<1>4. Spent(k, t)' = G + H
  BY DEF Spent
<1> HIDE DEF g, h, n, x, G, H
<1>5. x <= G + H
  BY <1>1, <1>2, <1>3
<1> QED
  BY <1>4, <1>5 DEF x

\* What a verification by the strict verifier leaves of the guard.
LEMMA VerifyStep ==
  ASSUME GuardInv, NEW m \in Messages, NEW r \in Readings, NEW verdict, NEW guarded \in BOOLEAN,
         clock' = r.token, Verify(guarded, m, r, verdict)
  PROVE  /\ GuardInv' /\ forgotten \subseteq forgotten'
         /\ accepted' = accepted \/ \E a \in Entry : accepted' = Append(accepted, a)
         /\ verdict = "ok" /\ guarded =>
              /\ InWindow(m, r.verify)
              /\ accepted' = Append(accepted, [key |-> m.id, ts |-> r.record])
<1>0. clock \in Nat
  BY DEF GuardInv, TypeOK
<1>1. /\ m.id \in Keys /\ r.evict \in Nat /\ r.record \in Nat /\ r.token \in Nat
      /\ clock <= r.evict /\ r.evict <= r.record /\ r.record <= r.token
  BY <1>0, ReadingsOrdered DEF Messages
<1>2. CASE UNCHANGED guardVars /\ (verdict = "rejected" \/ ~guarded)
  <2>1. GuardInv'
    BY <1>0, <1>1, <1>2, GuardIdle
  <2> QED
    BY <1>2, <2>1 DEF guardVars
<1>3. CASE IsDuplicate(m.id, r.evict, r.record, TRUE) /\ verdict = "replay"
  <2>1. GuardInv'
    BY <1>0, <1>1, <1>3, GuardCheck
  <2>2. accepted' = accepted /\ forgotten' = forgotten
    BY <1>3 DEF IsDuplicate
  <2> QED
    BY <1>3, <2>1, <2>2
<1>4. CASE IsDuplicate(m.id, r.evict, r.record, FALSE) /\ EnvelopeAccepted(m, r.verify)
  <2>1. GuardInv'
    BY <1>0, <1>1, <1>4, GuardCheck
  <2>2. accepted' = Append(accepted, [key |-> m.id, ts |-> r.record]) /\ forgotten \subseteq forgotten'
    BY <1>4 DEF IsDuplicate, Trim
  <2>3. [key |-> m.id, ts |-> r.record] \in Entry
    BY <1>1 DEF Entry
  <2> QED
    BY <1>4, <2>1, <2>2, <2>3 DEF EnvelopeAccepted
<1> QED
  BY <1>2, <1>3, <1>4 DEF Verify

\* A delivery that is rejected: neither the log nor what is spent loses anything.
LEMMA RouterRejects ==
  ASSUME RouterInv, NEW m \in Messages, NEW r \in Readings, clock' = r.token,
         signing' = signing, strict' = strict, PlainRejected(m, r) \/ StrictRejected(m, r)
  PROVE  RouterInv'
<1>0. GuardInv /\ clock \in Nat /\ routerSeen \subseteq Entry /\ accepted \in Seq(Entry)
  BY DEF RouterInv, RouterTypeOK, GuardInv, TypeOK
<1>1. /\ m.id \in Keys /\ r.record \in Nat /\ r.token \in Nat
      /\ clock <= r.token /\ r.record <= r.token
  BY <1>0, ReadingsOrdered DEF Messages
<1>2. /\ GuardInv' /\ forgotten \subseteq forgotten'
      /\ accepted' = accepted \/ \E a \in Entry : accepted' = Append(accepted, a)
  <2>1. CASE UNCHANGED guardVars
    <3>1. GuardInv'
      BY <1>0, <1>1, <2>1, GuardIdle
    <3> QED
      BY <2>1, <3>1 DEF guardVars
  <2>2. CASE \E verdict : Verify(strict = "guarded", m, r, verdict)
    BY <1>0, <2>2, VerifyStep
  <2> QED
    BY <2>1, <2>2 DEF PlainRejected, StrictRejected
<1>3. log' = log
  BY DEF PlainRejected, StrictRejected
<1>4. Purged(r.record) \subseteq routerSeen' /\ routerSeen' \subseteq Entry
  <2>1. Purged(r.record) \subseteq routerSeen
    BY DEF Purged
  <2>2. routerSeen' = routerSeen \/ routerSeen' = Purged(r.record)
    BY DEF PlainRejected, StrictRejected, CheckReplay
  <2> QED
    BY <1>0, <2>1, <2>2
<1>5. ASSUME NEW k \in Keys, NEW t \in Timestamps
      PROVE  /\ IsFiniteSet(Dispatches(k, t)')
             /\ ReplayProtected' /\ k \notin forgotten' =>
                  Cardinality(Dispatches(k, t)') <= Spent(k, t)'
  <2>1. Dispatches(k, t)' = Dispatches(k, t) /\ IsFiniteSet(Dispatches(k, t))
    BY <1>3 DEF Dispatches, RouterInv
  <2>2. SpentAtGuard(k, t) => SpentAtGuard(k, t)'
    BY <1>0, <1>2, StaysSpentAtGuard
  <2>3. SpentAtRouter(k, t) => SpentAtRouter(k, t)'
    BY <1>0, <1>1, <1>4, StaysSpentAtRouter
  <2>4. ReplayProtected /\ k \notin forgotten' => Cardinality(Dispatches(k, t)') <= Spent(k, t)'
    BY <1>2, <2>1, <2>2, <2>3, DeliveryKeeps
  <2> QED
    BY <2>1, <2>4 DEF ReplayProtected, OutlivesWindow
<1>6. RouterTypeOK'
  BY <1>3, <1>4 DEF RouterInv, RouterTypeOK
<1> QED
  BY <1>2, <1>5, <1>6 DEF RouterInv

\* A delivery that is accepted: at most its own dispatch more, which one cache pays for.
LEMMA RouterAccepts ==
  ASSUME RouterInv, NEW m \in Messages, NEW r \in Readings, clock' = r.token,
         signing' = signing, strict' = strict, PlainAccepted(m, r) \/ StrictAccepted(m, r)
  PROVE  RouterInv'
<1>0. /\ GuardInv /\ clock \in Nat /\ routerSeen \subseteq Entry /\ accepted \in Seq(Entry)
      /\ log \in Seq(LogEntry)
  BY DEF RouterInv, RouterTypeOK, GuardInv, TypeOK
<1>1. /\ m.id \in Keys /\ m.ts \in Timestamps /\ r.record \in Nat /\ r.token \in Nat
      /\ clock <= r.token /\ r.record <= r.token
  BY <1>0, ReadingsOrdered DEF Messages
<1>2. PICK o \in Outcomes :
        /\ log' = Append(log, [msg |-> m, at |-> r.record, until |-> r.token, outcome |-> o])
        /\ o = "dispatched" /\ signing => MessageVerify(m, r.again)
  BY RouterHandled DEF PlainAccepted, StrictAccepted
<1> DEFINE e == [msg |-> m, at |-> r.record, until |-> r.token, outcome |-> o]
<1>3. e \in LogEntry /\ e.msg = m /\ e.outcome = o /\ log' = Append(log, e)
  BY <1>1, <1>2 DEF LogEntry
<1> HIDE DEF e
<1>4. log' \in Seq(LogEntry)
  BY <1>0, <1>3, AppendProperties
<1>5. /\ GuardInv' /\ forgotten \subseteq forgotten'
      /\ accepted' = accepted \/ \E a \in Entry : accepted' = Append(accepted, a)
  <2>1. CASE UNCHANGED guardVars
    <3>1. GuardInv'
      BY <1>0, <1>1, <2>1, GuardIdle
    <3> QED
      BY <2>1, <3>1 DEF guardVars
  <2>2. CASE Verify(strict = "guarded", m, r, "ok")
    BY <1>0, <2>2, VerifyStep
  <2> QED
    BY <2>1, <2>2 DEF PlainAccepted, StrictAccepted
<1>6. Purged(r.record) \subseteq routerSeen' /\ routerSeen' \subseteq Entry
  <2>1. Purged(r.record) \subseteq routerSeen
    BY DEF Purged
  <2>2. [key |-> m.id, ts |-> r.record] \in Entry
    BY <1>1 DEF Entry
  <2>3. \/ routerSeen' = routerSeen
        \/ routerSeen' = Purged(r.record) \cup {[key |-> m.id, ts |-> r.record]}
    BY DEF PlainAccepted, StrictAccepted, CheckReplay
  <2> QED
    BY <1>0, <2>1, <2>2, <2>3
<1>7. ASSUME o = "dispatched", m.id \notin forgotten', ReplayProtected
      PROVE  \/ ~SpentAtGuard(m.id, m.ts) /\ SpentAtGuard(m.id, m.ts)'
             \/ ~SpentAtRouter(m.id, m.ts) /\ SpentAtRouter(m.id, m.ts)'
  <2>1. CASE PlainAccepted(m, r)
    <3>1. signing /\ MessageVerify(m, r.verify) /\ CheckReplay(m.id, r.record, FALSE)
          /\ MessageVerify(m, r.again)
      BY <1>2, <1>7, <2>1 DEF PlainAccepted
    <3> QED
      BY <1>0, <3>1, RouterSpends
  <2>2. CASE StrictAccepted(m, r)
    <3>0. strict = "guarded" /\ OutlivesWindow
      BY <1>7, <2>2 DEF StrictAccepted, ReplayProtected
    <3>1. Verify(TRUE, m, r, "ok")
      BY <2>2, <3>0 DEF StrictAccepted
    <3>2. /\ InWindow(m, r.verify)
          /\ accepted' = Append(accepted, [key |-> m.id, ts |-> r.record])
      BY <1>0, <3>1, VerifyStep
    <3> QED
      BY <1>0, <1>5, <1>7, <3>0, <3>2, GuardSpends
  <2> QED
    BY <2>1, <2>2
<1>8. ASSUME NEW k \in Keys, NEW t \in Timestamps
      PROVE  /\ IsFiniteSet(Dispatches(k, t)')
             /\ ReplayProtected' /\ k \notin forgotten' =>
                  Cardinality(Dispatches(k, t)') <= Spent(k, t)'
  <2>1. IsFiniteSet(Dispatches(k, t))
    BY DEF RouterInv
  <2>2. /\ IsFiniteSet(Dispatches(k, t)')
        /\ IF o = "dispatched" /\ m.id = k /\ m.ts = t
             THEN Cardinality(Dispatches(k, t)') = Cardinality(Dispatches(k, t)) + 1
             ELSE Dispatches(k, t)' = Dispatches(k, t)
    BY <1>0, <1>3, <2>1, DispatchesAppend
  <2>3. SpentAtGuard(k, t) => SpentAtGuard(k, t)'
    BY <1>0, <1>5, StaysSpentAtGuard
  <2>4. SpentAtRouter(k, t) => SpentAtRouter(k, t)'
    BY <1>0, <1>1, <1>6, StaysSpentAtRouter
  <2>5. ASSUME ReplayProtected, k \notin forgotten'
        PROVE  Cardinality(Dispatches(k, t)') <= Spent(k, t)'
    <3>1. \/ Dispatches(k, t)' = Dispatches(k, t)
          \/ /\ Cardinality(Dispatches(k, t)') = Cardinality(Dispatches(k, t)) + 1
             /\ \/ ~SpentAtGuard(k, t) /\ SpentAtGuard(k, t)'
                \/ ~SpentAtRouter(k, t) /\ SpentAtRouter(k, t)'
      BY <1>7, <2>2, <2>5
    <3>2. k \notin forgotten
      BY <1>5, <2>5
    <3> QED
      BY <2>2, <2>3, <2>4, <2>5, <3>1, <3>2, DeliveryKeeps
  <2> QED
    BY <2>2, <2>5 DEF ReplayProtected, OutlivesWindow
<1>9. RouterTypeOK'
  BY <1>4, <1>6 DEF RouterInv, RouterTypeOK
<1> QED
  BY <1>5, <1>8, <1>9 DEF RouterInv

\* The router keeps its invariant, whatever comes by whichever endpoint.
THEOREM RouterInvariance == RouterSpec => []RouterInv
<1>1. RouterInit => RouterInv
  <2> SUFFICES ASSUME RouterInit PROVE RouterInv
    OBVIOUS
  <2>1. clock \in Nat /\ GuardInit /\ log = <<>> /\ routerSeen = {} /\ signing \in BOOLEAN
        /\ strict \in {"none", "unguarded", "guarded"}
    BY DEF RouterInit, ServerInit
  <2>2. GuardInv
    BY <2>1, GuardFresh
  <2>3. ASSUME NEW k \in Keys, NEW t \in Timestamps
        PROVE  IsFiniteSet(Dispatches(k, t)) /\ Cardinality(Dispatches(k, t)) <= Spent(k, t)
    <3>1. Dispatches(k, t) = {}
      BY <2>1 DEF Dispatches
    <3>2. Spent(k, t) \in Nat
      BY DEF Spent
    <3> QED
      BY <3>1, <3>2, FS_EmptySet
  <2> QED
    BY <2>1, <2>2, <2>3 DEF RouterInv, RouterTypeOK
<1>2. RouterInv /\ [RouterNext]_routerVars => RouterInv'
  <2> SUFFICES ASSUME RouterInv, [RouterNext]_routerVars PROVE RouterInv'
    OBVIOUS
  <2>0. GuardInv /\ clock \in Nat /\ routerSeen \subseteq Entry /\ accepted \in Seq(Entry)
    BY DEF RouterInv, RouterTypeOK, GuardInv, TypeOK
  <2>1. CASE RouterReceive
    <3>1. PICK m \in Messages, r \in Readings :
            /\ PostMessage(m, r) \/ WebSocketMessage(m, r)
            /\ clock' = r.token /\ signing' = signing /\ strict' = strict
      BY <2>1 DEF RouterReceive
    <3>2. CASE PlainRejected(m, r) \/ StrictRejected(m, r)
      BY <3>1, <3>2, RouterRejects
    <3>3. CASE PlainAccepted(m, r) \/ StrictAccepted(m, r)
      BY <3>1, <3>3, RouterAccepts
    <3> QED
      BY <3>1, <3>2, <3>3 DEF PostMessage, WebSocketMessage
  <2>2. CASE RouterAdvance \/ UNCHANGED routerVars
    <3>1. /\ clock' \in Nat /\ clock <= clock'
          /\ UNCHANGED guardVars /\ UNCHANGED <<signing, log, strict, routerSeen>>
      BY <2>0, <2>2 DEF RouterAdvance, Advance, routerVars, serverVars, guardVars
    <3>2. GuardInv' /\ accepted' = accepted /\ forgotten' = forgotten
      BY <2>0, <3>1, GuardIdle DEF guardVars
    <3>3. Purged(clock) \subseteq routerSeen'
      BY <3>1 DEF Purged
    <3>4. ASSUME NEW k \in Keys, NEW t \in Timestamps
          PROVE  /\ IsFiniteSet(Dispatches(k, t)')
                 /\ ReplayProtected' /\ k \notin forgotten' =>
                  Cardinality(Dispatches(k, t)') <= Spent(k, t)'
      <4>1. Dispatches(k, t)' = Dispatches(k, t) /\ IsFiniteSet(Dispatches(k, t))
        BY <3>1 DEF Dispatches, RouterInv
      <4>2. SpentAtGuard(k, t) => SpentAtGuard(k, t)'
        BY <2>0, <3>1, <3>2, StaysSpentAtGuard
      <4>3. SpentAtRouter(k, t) => SpentAtRouter(k, t)'
        BY <2>0, <3>1, <3>3, StaysSpentAtRouter
      <4>4. ReplayProtected /\ k \notin forgotten' => Cardinality(Dispatches(k, t)') <= Spent(k, t)'
        BY <3>2, <4>1, <4>2, <4>3, DeliveryKeeps
      <4> QED
        BY <3>1, <4>1, <4>4 DEF ReplayProtected, OutlivesWindow
    <3>5. RouterTypeOK'
      BY <3>1 DEF RouterInv, RouterTypeOK
    <3> QED
      BY <3>2, <3>4, <3>5 DEF RouterInv
  <2> QED
    BY <2>1, <2>2 DEF RouterNext
<1> QED
  BY <1>1, <1>2, PTL DEF RouterSpec

(***************************************************************************)
(* A signed message is dispatched at most once by each cache, over both    *)
(* endpoints together, for any windows that RouterWindowAssumption allows  *)
(* and any guard that outlives the verifier's (DispatchedOncePerCache).    *)
(***************************************************************************)
THEOREM DispatchesOncePerCache == RouterSpec => []DispatchedOncePerCache
<1>1. RouterInv => DispatchedOncePerCache
  <2> SUFFICES ASSUME RouterInv, ReplayProtected,
                      NEW k \in Keys, NEW t \in Timestamps, k \notin forgotten
               PROVE  Cardinality(Dispatches(k, t)) <=
                        (IF strict = "guarded" /\ signing THEN 2 ELSE 1)
    BY DEF DispatchedOncePerCache
  <2> DEFINE n == Cardinality(Dispatches(k, t))
  <2>1. n \in Nat /\ n <= Spent(k, t)
    BY FS_CardinalityType DEF RouterInv
  <2> HIDE DEF n
  <2>2. SpentAtGuard(k, t) => strict = "guarded"
    BY DEF SpentAtGuard
  <2>3. SpentAtRouter(k, t) => signing
    BY DEF SpentAtRouter
  <2>4. n <= (IF strict = "guarded" /\ signing THEN 2 ELSE 1)
    BY <2>1, <2>2, <2>3 DEF Spent
  <2> QED
    BY <2>4 DEF n
<1> QED
  BY <1>1, RouterInvariance, PTL
=============================================================================
