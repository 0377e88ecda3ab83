----------------------------- MODULE Subsequence -----------------------------
(***************************************************************************)
(* The elements of a sequence at some of its places, in their order: what  *)
(* a loop that filters a list keeps of it.  SelectSeq says the same by     *)
(* recursion, about which little can be proved.                            *)
(***************************************************************************)
EXTENDS Integers, Sequences, FiniteSets, SequencesExt, SequenceTheorems,
        FiniteSetTheorems, WellFoundedInduction, TLAPS

\* The k-th of the numbers in S.
Nth(S, k) == CHOOSE i \in S : Cardinality({j \in S : j <= i}) = k

\* The elements of q at the places of S.
Picked(q, S) == [k \in 1 .. Cardinality(S) |-> q[Nth(S, k)]]

-----------------------------------------------------------------------------
\* Some of the numbers up to n are at most n many.
LEMMA PlacesFinite ==
  ASSUME NEW n \in Nat, NEW S \in SUBSET (1 .. n)
  PROVE  /\ S \subseteq Nat /\ IsFiniteSet(S)
         /\ Cardinality(S) \in Nat /\ Cardinality(S) <= n
<1>1. IsFiniteSet(1 .. n) /\ Cardinality(1 .. n) = n
  BY FS_Interval
<1>2. IsFiniteSet(S) /\ Cardinality(S) <= Cardinality(1 .. n)
  BY <1>1, FS_Subset
<1>3. Cardinality(S) \in Nat
  BY <1>2, FS_CardinalityType
<1>4. S \subseteq Nat
  OBVIOUS
<1> QED
  BY <1>1, <1>2, <1>3, <1>4

\* Of some numbers up to n there is a k-th, for every k up to how many they are.
LEMMA NthIs ==
  ASSUME NEW n \in Nat, NEW S \in SUBSET (1 .. n), NEW k \in 1 .. Cardinality(S)
  PROVE  Nth(S, k) \in S /\ Cardinality({j \in S : j <= Nth(S, k)}) = k
<1> DEFINE upTo(i) == {j \in S : j <= i}
           enough == {i \in 0 .. n : k <= Cardinality(upTo(i))}
<1>1. IsFiniteSet(S) /\ Cardinality(S) \in Nat /\ k \in Nat /\ k >= 1
  BY PlacesFinite
<1>0. \A j \in S : j \in Nat /\ 1 <= j /\ j <= n
  OBVIOUS
<1>2. \A i : IsFiniteSet(upTo(i)) /\ Cardinality(upTo(i)) \in Nat
  BY <1>1, FS_Subset, FS_CardinalityType
<1>3. n \in enough
  <2>1. upTo(n) = S
    BY <1>0
  <2> QED
    BY <1>1, <2>1
<1>4. PICK i \in enough : \A j \in enough : ~(j < i)
  <2>1. enough \subseteq Nat /\ enough # {}
    BY <1>3
  <2> HIDE DEF enough
  <2>2. PICK i \in enough : \A j \in enough : <<j, i>> \notin OpToRel(<, Nat)
    BY <2>1, WFMin, NatLessThanWellFounded, Zenon
  <2>3. i \in Nat /\ \A j \in enough : j \in Nat
    BY <2>1
  <2> QED
    BY <2>2, <2>3 DEF OpToRel
<1>5. i # 0
  <2>1. upTo(0) = {}
    <3>1. \A j \in S : ~(j <= 0)
      BY <1>0
    <3> QED
      BY <3>1
  <2>2. Cardinality(upTo(0)) = 0
    BY <2>1, FS_EmptySet
  <2> QED
    BY <1>1, <2>2
<1>6. i \in 1 .. n /\ i - 1 \in 0 .. n /\ i - 1 \notin enough
  <2>1. i \in 0 .. n /\ \A j \in 0 .. n : k <= Cardinality(upTo(j)) => ~(j < i)
    BY <1>4
  <2> HIDE DEF upTo
  <2>2. i \in 1 .. n /\ i - 1 \in 0 .. n /\ i - 1 < i
    BY <1>5, <2>1
  <2> HIDE DEF enough
  <2> QED
    BY <1>4, <2>2
<1>7. Cardinality(upTo(i - 1)) < k
  <2>1. ~(k <= Cardinality(upTo(i - 1)))
    BY <1>6
  <2>2. Cardinality(upTo(i - 1)) \in Nat
    BY <1>2
  <2> HIDE DEF upTo
  <2> QED
    BY <1>1, <2>1, <2>2
<1>n. k <= Cardinality(upTo(i)) /\ Cardinality(upTo(i)) \in Nat /\ Cardinality(upTo(i - 1)) \in Nat
  BY <1>2, <1>4
<1>8. i \in S
  <2> SUFFICES ASSUME i \notin S
               PROVE  FALSE
    OBVIOUS
  <2>1. upTo(i) = upTo(i - 1)
    <3>1. \A j \in S : j <= i <=> j <= i - 1
      BY <1>0, <1>6
    <3> QED
      BY <3>1
  <2> HIDE DEF upTo
  <2> QED
    BY <1>1, <1>n, <1>7, <2>1
<1>9. Cardinality(upTo(i)) = k
  <2>1. upTo(i) = upTo(i - 1) \cup {i} /\ i \notin upTo(i - 1)
    <3>1. \A j \in S : (j <= i <=> j <= i - 1 \/ j = i)
      BY <1>0, <1>6
    <3>2. ~(i <= i - 1) /\ i <= i
      BY <1>6
    <3> QED
      BY <1>8, <3>1, <3>2
  <2>2. Cardinality(upTo(i)) = Cardinality(upTo(i - 1)) + 1
    <3>1. IsFiniteSet(upTo(i - 1))
      BY <1>2
    <3> HIDE DEF upTo
    <3> QED
      BY <2>1, <3>1, FS_AddElement
  <2> HIDE DEF upTo
  <2> QED
    BY <1>1, <1>n, <1>7, <2>2
<1> QED
  BY <1>8, <1>9 DEF Nth

\* The k-th comes before the next ones.
LEMMA NthOrdered ==
  ASSUME NEW n \in Nat, NEW S \in SUBSET (1 .. n),
         NEW k \in 1 .. Cardinality(S), NEW l \in 1 .. Cardinality(S), k < l
  PROVE  Nth(S, k) < Nth(S, l)
<1> DEFINE upTo(i) == {j \in S : j <= i}
<1>1. /\ Nth(S, k) \in S /\ Cardinality(upTo(Nth(S, k))) = k
      /\ Nth(S, l) \in S /\ Cardinality(upTo(Nth(S, l))) = l
  BY NthIs
<1>2. SUFFICES ASSUME ~(Nth(S, k) < Nth(S, l))
               PROVE  FALSE
  OBVIOUS
<1>3. upTo(Nth(S, l)) \subseteq upTo(Nth(S, k))
  <2>1. PICK x \in S, y \in S : x = Nth(S, k) /\ y = Nth(S, l)
    BY <1>1
  <2>2. x \in Nat /\ y \in Nat /\ \A j \in S : j \in Nat
    BY PlacesFinite
  <2>3. \A j \in S : j <= y => j <= x
    BY <1>2, <2>1, <2>2
  <2> QED
    BY <2>1, <2>3
<1>4. IsFiniteSet(S)
  BY PlacesFinite
<1>5. IsFiniteSet(upTo(Nth(S, k)))
  BY <1>4, FS_Subset
<1>6. Cardinality(upTo(Nth(S, l))) <= Cardinality(upTo(Nth(S, k)))
  BY <1>3, <1>5, FS_Subset
<1>7. Cardinality(S) \in Nat
  BY <1>4, FS_CardinalityType
<1> QED
  BY <1>1, <1>6, <1>7

\* The elements of a sequence, of its tail, and of one that is longer by one.
LEMMA ElementsAre ==
  ASSUME NEW D, NEW q \in Seq(D)
  PROVE  /\ Len(q) \in Nat /\ \A a \in 1 .. Len(q) : q[a] \in D /\ q[a] \in ToSet(q)
         /\ \A x \in ToSet(q) : \E a \in 1 .. Len(q) : x = q[a]
         /\ ToSet(q) \subseteq D
BY DEF ToSet

\* The tail, element by element.
LEMMA TailElements ==
  ASSUME NEW D, NEW q \in Seq(D), q # <<>>
  PROVE  /\ Tail(q) \in Seq(D) /\ Len(Tail(q)) = Len(q) - 1 /\ Len(q) \in Nat /\ Len(q) >= 1
         /\ \A a \in 1 .. Len(Tail(q)) : a + 1 \in 1 .. Len(q) /\ Tail(q)[a] = q[a + 1]
         /\ Head(q) = q[1] /\ 1 \in 1 .. Len(q)
         /\ \A a \in 2 .. Len(q) : a - 1 \in 1 .. Len(Tail(q)) /\ Tail(q)[a - 1] = q[a]
<1>1. Len(q) \in Nat /\ Len(q) >= 1
  BY EmptySeq
<1>2. /\ Tail(q) \in Seq(D) /\ Len(Tail(q)) = Len(q) - 1 /\ Head(q) = q[1]
      /\ \A i \in 1 .. Len(Tail(q)) : Tail(q)[i] = q[i + 1]
  BY HeadTailProperties
<1>3. \A a \in 2 .. Len(q) : a - 1 \in 1 .. Len(q) - 1 /\ (a - 1) + 1 = a
  BY <1>1
<1>4. \A a \in 1 .. Len(q) - 1 : a + 1 \in 1 .. Len(q)
  BY <1>1
<1> QED
  BY <1>1, <1>2, <1>3, <1>4

\* A sequence with one more, element by element.
LEMMA AppendElements ==
  ASSUME NEW D, NEW q \in Seq(D), NEW e \in D
  PROVE  /\ Append(q, e) \in Seq(D) /\ Len(Append(q, e)) = Len(q) + 1 /\ Len(q) \in Nat
         /\ \A a \in 1 .. Len(q) : a \in 1 .. Len(q) + 1 /\ Append(q, e)[a] = q[a]
         /\ Append(q, e)[Len(q) + 1] = e /\ Len(q) + 1 \in 1 .. Len(q) + 1
         /\ \A a \in 1 .. Len(q) + 1 : a \in 1 .. Len(q) \/ a = Len(q) + 1
         /\ ToSet(Append(q, e)) = ToSet(q) \cup {e}
<1>1. /\ Append(q, e) \in Seq(D) /\ Len(Append(q, e)) = Len(q) + 1
      /\ \A a \in 1 .. Len(q) : Append(q, e)[a] = q[a]
      /\ Append(q, e)[Len(q) + 1] = e
  BY AppendProperties
<1>2. /\ Len(q) \in Nat /\ \A a \in 1 .. Len(q) : a \in 1 .. Len(q) + 1
      /\ \A a \in 1 .. Len(q) + 1 : a \in 1 .. Len(q) \/ a = Len(q) + 1
      /\ Len(q) + 1 \in 1 .. Len(q) + 1
  OBVIOUS
<1>3. ToSet(Append(q, e)) = {Append(q, e)[a] : a \in 1 .. Len(q) + 1}
  BY <1>1, <1>2 DEF ToSet
<1>4. ToSet(q) = {q[a] : a \in 1 .. Len(q)}
  BY DEF ToSet
<1>5. ToSet(Append(q, e)) = ToSet(q) \cup {e}
  BY <1>1, <1>2, <1>3, <1>4
<1> QED
  BY <1>1, <1>2, <1>5

(***************************************************************************)
(* A subsequence has the elements of its places, each of them, in their    *)
(* order.                                                                  *)
(***************************************************************************)
LEMMA PickedIs ==
  ASSUME NEW D, NEW q \in Seq(D), NEW places \in SUBSET (1 .. Len(q))
  PROVE  /\ Picked(q, places) \in Seq(D) /\ Len(Picked(q, places)) <= Len(q)
         /\ \A k \in 1 .. Len(Picked(q, places)) : \E i \in places : Picked(q, places)[k] = q[i]
         /\ \A k, l \in 1 .. Len(Picked(q, places)) : k < l =>
              \E i, j \in places : i < j /\ Picked(q, places)[k] = q[i] /\ Picked(q, places)[l] = q[j]
         /\ \A i \in places : \E k \in 1 .. Len(Picked(q, places)) : Picked(q, places)[k] = q[i]
<1> DEFINE m == Picked(q, places)
<1>2. Len(q) \in Nat /\ \A i \in 1 .. Len(q) : q[i] \in D
  BY ElementOfSeq, LenProperties
<1>3. IsFiniteSet(places) /\ Cardinality(places) \in Nat /\ Cardinality(places) <= Len(q)
  BY <1>2, PlacesFinite
<1>4. \A i \in places : i \in 1 .. Len(q)
  OBVIOUS
<1>6. \A k \in 1 .. Cardinality(places) :
        Nth(places, k) \in places /\ Cardinality({j \in places : j <= Nth(places, k)}) = k
  BY <1>2, NthIs
<1>7. \A k \in 1 .. Cardinality(places) : m[k] = q[Nth(places, k)] /\ m[k] \in D
  BY <1>2, <1>4, <1>6 DEF Picked
<1>8. m \in Seq(D) /\ Len(m) = Cardinality(places)
  <2>1. m \in [1 .. Cardinality(places) -> D]
    BY <1>2, <1>4, <1>6 DEF Picked
  <2> HIDE DEF m
  <2> QED
    BY <1>3, <2>1, IsASeq
<1> HIDE DEF m
<1>9. ASSUME NEW k \in 1 .. Len(m)
      PROVE  \E i \in places : m[k] = q[i]
  BY <1>4, <1>6, <1>7, <1>8
<1>10. ASSUME NEW k \in 1 .. Len(m), NEW l \in 1 .. Len(m), k < l
       PROVE  \E i, j \in places : i < j /\ m[k] = q[i] /\ m[l] = q[j]
  <2>1. Nth(places, k) < Nth(places, l)
    BY <1>2, <1>8, <1>10, NthOrdered
  <2> QED
    BY <1>4, <1>6, <1>7, <1>8, <2>1
<1>11. ASSUME NEW i \in places
       PROVE  \E k \in 1 .. Len(m) : m[k] = q[i]
  <2> DEFINE upTo(x) == {j \in places : j <= x}
             k == Cardinality(upTo(i))
  <2>1. i \in places /\ i \in upTo(i)
    BY <1>4
  <2>2. IsFiniteSet(upTo(i)) /\ k \in Nat /\ k <= Cardinality(places)
    BY <1>3, FS_Subset, FS_CardinalityType
  <2>3. k # 0
    BY <2>1, <2>2, FS_EmptySet
  <2>4. k \in 1 .. Cardinality(places)
    BY <1>3, <2>2, <2>3
  <2>5. Nth(places, k) \in places /\ Cardinality(upTo(Nth(places, k))) = k
    BY <1>6, <2>4
  <2>6. Nth(places, k) = i
    <3>1. PICK x \in places : x = Nth(places, k)
      BY <2>5
    <3>2. Cardinality(upTo(x)) = k
      BY <2>5, <3>1
    <3> HIDE DEF k
    <3>3. x \in Nat /\ i \in Nat /\ places \subseteq Nat
      BY <1>4, <2>1
    <3>4. CASE x < i
      <4>1. upTo(x) \subseteq upTo(i) /\ i \notin upTo(x)
        <5>1. (\A j \in places : j <= x => j <= i) /\ ~(i <= x)
          BY <3>3, <3>4
        <5> QED
          BY <5>1
      <4> QED
        BY <2>1, <2>2, <3>2, <4>1, FS_Subset DEF k
    <3>5. CASE i < x
      <4>1. upTo(i) \subseteq upTo(x) /\ x \notin upTo(i) /\ x \in upTo(x)
        <5>1. (\A j \in places : j <= i => j <= x) /\ ~(x <= i) /\ x <= x
          BY <3>3, <3>5
        <5> QED
          BY <5>1
      <4>2. IsFiniteSet(upTo(x))
        BY <1>3, FS_Subset
      <4> QED
        BY <2>2, <3>2, <4>1, <4>2, FS_Subset DEF k
    <3> QED
      BY <3>1, <3>3, <3>4, <3>5
  <2> QED
    BY <1>7, <1>8, <2>4, <2>6
<1> QED
  BY <1>3, <1>8, <1>9, <1>10, <1>11 DEF m
=============================================================================
