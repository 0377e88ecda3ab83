---------------------------- MODULE StreamProofs ----------------------------
(***************************************************************************)
(* Proofs about the event stream: the bus that queues events for its       *)
(* subscribers and the client that reads them from the wire, for any       *)
(* publishers, filters, queue and replay sizes, and any chunks.            *)
(***************************************************************************)
EXTENDS EventBus, SseReader

(***************************************************************************)
(* The bus                                                                 *)
(***************************************************************************)

\* What the matching events of a sequence are.
LEMMA MatchingIs ==
  ASSUME NEW s, NEW q \in Seq(Event)
  PROVE  /\ Matching(s, q) \in Seq(Event) /\ Len(Matching(s, q)) <= Len(q)
         /\ \A k \in 1 .. Len(Matching(s, q)) : \E i \in 1 .. Len(q) :
              Matching(s, q)[k] = q[i] /\ Matches(s, q[i])
         /\ \A k, l \in 1 .. Len(Matching(s, q)) : k < l =>
              \E i, j \in 1 .. Len(q) :
                i < j /\ Matching(s, q)[k] = q[i] /\ Matching(s, q)[l] = q[j]
         /\ \A i \in 1 .. Len(q) : Matches(s, q[i]) =>
              \E k \in 1 .. Len(Matching(s, q)) : Matching(s, q)[k] = q[i]
<1> DEFINE places == {i \in 1 .. Len(q) : Matches(s, q[i])}
<1>1. Matching(s, q) = Picked(q, places)
  BY DEF Matching
<1>2. places \in SUBSET (1 .. Len(q))
  OBVIOUS
<1>3. \A i \in 1 .. Len(q) : i \in places <=> Matches(s, q[i])
  OBVIOUS
<1> HIDE DEF places
<1>4. /\ Picked(q, places) \in Seq(Event) /\ Len(Picked(q, places)) <= Len(q)
      /\ \A k \in 1 .. Len(Picked(q, places)) : \E i \in places : Picked(q, places)[k] = q[i]
      /\ \A k, l \in 1 .. Len(Picked(q, places)) : k < l =>
           \E i, j \in places : i < j /\ Picked(q, places)[k] = q[i] /\ Picked(q, places)[l] = q[j]
      /\ \A i \in places : \E k \in 1 .. Len(Picked(q, places)) : Picked(q, places)[k] = q[i]
  BY <1>2, PickedIs
<1> QED
  BY <1>1, <1>2, <1>3, <1>4

(***************************************************************************)
(* Of a queue q of s and what has been published, pub: no event twice in   *)
(* pub, q keeps its order, s asks for what is in q, and from an event in q *)
(* on every one that s asks for is in q, those before `from' excepted.     *)
(***************************************************************************)
Distinct(pub) == \A i, j \in 1 .. Len(pub) : pub[i] = pub[j] => i = j

Ordered(q, pub) ==
  \A a, b \in 1 .. Len(q) :
    a < b => \E i, j \in 1 .. Len(pub) : i < j /\ pub[i] = q[a] /\ pub[j] = q[b]

From(s, q, pub) ==
  \A a \in 1 .. Len(q) : Matches(s, q[a]) /\ \E i \in 1 .. Len(pub) : pub[i] = q[a]

Closed(s, q, pub, from) ==
  \A i, j \in 1 .. Len(pub) :
    (i < j /\ pub[i] \in ToSet(q) /\ Matches(s, pub[j]) /\ (from < j \/ ReplaySize <= MaxSize))
      => pub[j] \in ToSet(q)

\* Order and filter survive that the head leaves and that something is published.
LEMMA TailKeeps ==
  ASSUME NEW s, NEW q \in Seq(Event), NEW pub, q # <<>>, Ordered(q, pub), From(s, q, pub)
  PROVE  Ordered(Tail(q), pub) /\ From(s, Tail(q), pub)
<1>1. Ordered(Tail(q), pub)
  <2> SUFFICES ASSUME NEW a \in 1 .. Len(Tail(q)), NEW b \in 1 .. Len(Tail(q)), a < b
               PROVE  \E i, j \in 1 .. Len(pub) :
                        i < j /\ pub[i] = Tail(q)[a] /\ pub[j] = Tail(q)[b]
    BY DEF Ordered
  <2>1. /\ a + 1 \in 1 .. Len(q) /\ b + 1 \in 1 .. Len(q)
        /\ Tail(q)[a] = q[a + 1] /\ Tail(q)[b] = q[b + 1]
    BY TailElements
  <2>2. a + 1 < b + 1
    BY TailElements
  <2> QED
    BY <2>1, <2>2 DEF Ordered
<1>2. From(s, Tail(q), pub)
  BY TailElements DEF From
<1> QED
  BY <1>1, <1>2

\* A queue is in the order of publication still when one more event is published,
LEMMA GrowKeeps ==
  ASSUME NEW s, NEW q \in Seq(Event), NEW pub \in Seq(Event), NEW e \in Event,
         Ordered(q, pub), From(s, q, pub)
  PROVE  Ordered(q, Append(pub, e)) /\ From(s, q, Append(pub, e))
<1>1. /\ Len(Append(pub, e)) = Len(pub) + 1
      /\ \A a \in 1 .. Len(pub) : a \in 1 .. Len(pub) + 1 /\ Append(pub, e)[a] = pub[a]
  BY AppendElements
<1> DEFINE more == Append(pub, e)
<1> HIDE DEF more
<1>2. Ordered(q, more)
  <2> SUFFICES ASSUME NEW a \in 1 .. Len(q), NEW b \in 1 .. Len(q), a < b
               PROVE  \E i, j \in 1 .. Len(more) : i < j /\ more[i] = q[a] /\ more[j] = q[b]
    BY DEF Ordered
  <2>1. PICK i \in 1 .. Len(pub), j \in 1 .. Len(pub) : i < j /\ pub[i] = q[a] /\ pub[j] = q[b]
    BY DEF Ordered
  <2> QED
    BY <1>1, <2>1 DEF more
<1>3. From(s, q, more)
  BY <1>1 DEF From, more
<1> QED
  BY <1>2, <1>3 DEF more

\* and when that event is offered to it.
LEMMA OfferKeeps ==
  ASSUME NEW s, NEW q \in Seq(Event), NEW pub \in Seq(Event), NEW e \in Event,
         Ordered(q, pub), From(s, q, pub), Matches(s, e)
  PROVE  Ordered(Append(q, e), Append(pub, e)) /\ From(s, Append(q, e), Append(pub, e))
<1> DEFINE more == Append(pub, e)
           long == Append(q, e)
<1>1. /\ Len(more) = Len(pub) + 1 /\ Len(pub) \in Nat
      /\ \A a \in 1 .. Len(pub) : a \in 1 .. Len(pub) + 1 /\ more[a] = pub[a]
      /\ more[Len(pub) + 1] = e /\ Len(pub) + 1 \in 1 .. Len(pub) + 1
  BY AppendElements
<1>2. /\ Len(long) = Len(q) + 1 /\ Len(q) \in Nat
      /\ \A a \in 1 .. Len(q) : long[a] = q[a]
      /\ long[Len(q) + 1] = e
      /\ \A a \in 1 .. Len(q) + 1 : a \in 1 .. Len(q) \/ a = Len(q) + 1
  BY AppendElements
<1> HIDE DEF more, long
<1>3. Ordered(long, more)
  <2> SUFFICES ASSUME NEW a \in 1 .. Len(long), NEW b \in 1 .. Len(long), a < b
               PROVE  \E i, j \in 1 .. Len(more) : i < j /\ more[i] = long[a] /\ more[j] = long[b]
    BY DEF Ordered
  <2>1. a \in 1 .. Len(q)
    BY <1>2
  <2>2. CASE b \in 1 .. Len(q)
    <3>1. PICK i \in 1 .. Len(pub), j \in 1 .. Len(pub) : i < j /\ pub[i] = q[a] /\ pub[j] = q[b]
      BY <2>1, <2>2 DEF Ordered
    <3> QED
      BY <1>1, <1>2, <2>1, <2>2, <3>1
  <2>3. CASE b = Len(q) + 1
    <3>1. PICK i \in 1 .. Len(pub) : pub[i] = q[a]
      BY <2>1 DEF From
    <3>2. i < Len(pub) + 1
      BY <1>1
    <3> QED
      BY <1>1, <1>2, <2>1, <2>3, <3>1, <3>2
  <2> QED
    BY <1>2, <2>2, <2>3
<1>4. From(s, long, more)
  <2> SUFFICES ASSUME NEW a \in 1 .. Len(long)
               PROVE  Matches(s, long[a]) /\ \E i \in 1 .. Len(more) : more[i] = long[a]
    BY DEF From
  <2>1. CASE a \in 1 .. Len(q)
    BY <1>1, <1>2, <2>1 DEF From
  <2>2. CASE a = Len(q) + 1
    BY <1>1, <1>2, <2>2
  <2> QED
    BY <1>2, <2>1, <2>2
<1> QED
  BY <1>3, <1>4 DEF more, long

\* The head is the oldest that is queued, and it is there once.
LEMMA HeadIsOldest ==
  ASSUME NEW q \in Seq(Event), NEW pub \in Seq(Event), q # <<>>, Distinct(pub), Ordered(q, pub)
  PROVE  /\ ToSet(Tail(q)) = ToSet(q) \ {Head(q)}
         /\ \A i, j \in 1 .. Len(pub) :
              pub[i] = Head(q) /\ pub[j] \in ToSet(Tail(q)) => i < j
<1>1. /\ Head(q) = q[1] /\ 1 \in 1 .. Len(q) /\ Len(q) \in Nat /\ Tail(q) \in Seq(Event)
      /\ \A a \in 1 .. Len(Tail(q)) : a + 1 \in 1 .. Len(q) /\ Tail(q)[a] = q[a + 1]
      /\ \A a \in 2 .. Len(q) : a - 1 \in 1 .. Len(Tail(q)) /\ Tail(q)[a - 1] = q[a]
  BY TailElements
<1>2. \A a \in 2 .. Len(q) : \E i, j \in 1 .. Len(pub) : i < j /\ pub[i] = Head(q) /\ pub[j] = q[a]
  <2> SUFFICES ASSUME NEW a \in 2 .. Len(q)
               PROVE  \E i, j \in 1 .. Len(pub) : i < j /\ pub[i] = Head(q) /\ pub[j] = q[a]
    OBVIOUS
  <2>1. a \in 1 .. Len(q) /\ 1 < a
    BY <1>1
  <2> QED
    BY <1>1, <2>1 DEF Ordered
<1>3. \A x \in ToSet(Tail(q)) : \E a \in 2 .. Len(q) : x = q[a]
  <2> SUFFICES ASSUME NEW x \in ToSet(Tail(q))
               PROVE  \E a \in 2 .. Len(q) : x = q[a]
    OBVIOUS
  <2>1. PICK b \in 1 .. Len(Tail(q)) : x = Tail(q)[b]
    BY <1>1, ElementsAre
  <2>2. b + 1 \in 2 .. Len(q) /\ x = q[b + 1]
    BY <1>1, <2>1
  <2> QED
    BY <2>2
<1>4. \A a \in 2 .. Len(q) : q[a] # Head(q)
  <2> SUFFICES ASSUME NEW a \in 2 .. Len(q)
               PROVE  q[a] # Head(q)
    OBVIOUS
  <2>1. PICK i \in 1 .. Len(pub), j \in 1 .. Len(pub) : i < j /\ pub[i] = Head(q) /\ pub[j] = q[a]
    BY <1>2
  <2>2. i # j
    BY <2>1
  <2> QED
    BY <2>1, <2>2 DEF Distinct
<1>5. ToSet(Tail(q)) \subseteq ToSet(q) \ {Head(q)}
  <2> SUFFICES ASSUME NEW x \in ToSet(Tail(q))
               PROVE  x \in ToSet(q) /\ x # Head(q)
    OBVIOUS
  <2>1. PICK a \in 2 .. Len(q) : x = q[a]
    BY <1>3
  <2>2. a \in 1 .. Len(q)
    BY <1>1
  <2> QED
    BY <1>4, <2>1, <2>2, ElementsAre
<1>6. ToSet(q) \ {Head(q)} \subseteq ToSet(Tail(q))
  <2> SUFFICES ASSUME NEW x \in ToSet(q), x # Head(q)
               PROVE  x \in ToSet(Tail(q))
    OBVIOUS
  <2>1. PICK a \in 1 .. Len(q) : x = q[a]
    BY ElementsAre
  <2>2. a \in 2 .. Len(q)
    BY <1>1, <2>1
  <2>3. a - 1 \in 1 .. Len(Tail(q)) /\ Tail(q)[a - 1] = x
    BY <1>1, <2>1, <2>2
  <2> QED
    BY <1>1, <2>3, ElementsAre
<1>7. ASSUME NEW i \in 1 .. Len(pub), NEW j \in 1 .. Len(pub),
             pub[i] = Head(q), pub[j] \in ToSet(Tail(q))
      PROVE  i < j
  <2>1. PICK a \in 2 .. Len(q) : pub[j] = q[a]
    BY <1>3, <1>7
  <2>2. PICK k \in 1 .. Len(pub), l \in 1 .. Len(pub) : k < l /\ pub[k] = Head(q) /\ pub[l] = q[a]
    BY <1>2
  <2> QED
    BY <1>7, <2>1, <2>2 DEF Distinct
<1> QED
  BY <1>5, <1>6, <1>7

\* Without its head, a queue has all that matches behind any of its events.
LEMMA TailStaysClosed ==
  ASSUME NEW s, NEW q \in Seq(Event), NEW pub \in Seq(Event), NEW from,
         q # <<>>, Distinct(pub), Ordered(q, pub), From(s, q, pub), Closed(s, q, pub, from)
  PROVE  Closed(s, Tail(q), pub, from)
<1> SUFFICES ASSUME NEW i \in 1 .. Len(pub), NEW j \in 1 .. Len(pub),
                    i < j, pub[i] \in ToSet(Tail(q)), Matches(s, pub[j]),
                    from < j \/ ReplaySize <= MaxSize
             PROVE  pub[j] \in ToSet(Tail(q))
  BY DEF Closed
<1>1. pub[i] \in ToSet(q)
  BY HeadIsOldest
<1>2. pub[j] \in ToSet(q)
  BY <1>1 DEF Closed
<1>3. PICK h \in 1 .. Len(pub) : pub[h] = Head(q)
  BY TailElements DEF From
<1>4. h < i
  BY <1>3, HeadIsOldest
<1>5. h # j
  BY <1>4
<1>6. pub[j] # Head(q)
  BY <1>3, <1>5 DEF Distinct
<1> QED
  BY <1>2, <1>6, HeadIsOldest

\* So has a queue that is offered what it asks for.
LEMMA OfferStaysClosed ==
  ASSUME NEW s, NEW q \in Seq(Event), NEW pub \in Seq(Event), NEW from, NEW e \in Event,
         Closed(s, q, pub, from), Distinct(Append(pub, e))
  PROVE  /\ Closed(s, Append(q, e), Append(pub, e), from)
         /\ ~Matches(s, e) => Closed(s, q, Append(pub, e), from)
<1> DEFINE more == Append(pub, e)
<1>1. /\ Len(more) = Len(pub) + 1 /\ Len(pub) \in Nat
      /\ \A a \in 1 .. Len(pub) : more[a] = pub[a]
      /\ more[Len(pub) + 1] = e
      /\ \A a \in 1 .. Len(pub) + 1 : a \in 1 .. Len(pub) \/ a = Len(pub) + 1
      /\ Len(pub) + 1 \in 1 .. Len(pub) + 1 /\ \A a \in 1 .. Len(pub) : a \in 1 .. Len(pub) + 1
      /\ ToSet(Append(q, e)) = ToSet(q) \cup {e}
  BY AppendElements
<1> HIDE DEF more
<1>2. \A a \in 1 .. Len(pub) : more[a] # e
  <2> SUFFICES ASSUME NEW a \in 1 .. Len(pub), more[a] = e
               PROVE  FALSE
    OBVIOUS
  <2>1. a = Len(pub) + 1
    BY <1>1 DEF Distinct, more
  <2> QED
    BY <1>1, <2>1
<1>3. ASSUME NEW i \in 1 .. Len(more), NEW j \in 1 .. Len(more),
             i < j, more[i] \in ToSet(q) \cup {e}, Matches(s, more[j]),
             from < j \/ ReplaySize <= MaxSize
      PROVE  /\ more[j] \in ToSet(q) \cup {e}
             /\ ~Matches(s, e) => more[j] \in ToSet(q)
  <2>1. i \in 1 .. Len(pub)
    BY <1>1, <1>3
  <2>2. more[i] = pub[i] /\ pub[i] \in ToSet(q)
    BY <1>1, <1>2, <1>3, <2>1
  <2>3. CASE j \in 1 .. Len(pub)
    BY <1>1, <1>3, <2>1, <2>2, <2>3 DEF Closed
  <2>4. CASE j = Len(pub) + 1
    BY <1>1, <1>3, <2>4
  <2> QED
    BY <1>1, <2>3, <2>4
<1> QED
  BY <1>1, <1>3 DEF Closed, more

\* What deque(maxlen = n) holds of a sequence.
LEMMA NewestIs ==
  ASSUME NEW q \in Seq(Event), NEW n \in Nat
  PROVE  /\ Newest(q, n) \in Seq(Event)
         /\ Len(Newest(q, n)) = (IF Len(q) > n THEN n ELSE Len(q))
         /\ \A i \in 1 .. Len(Newest(q, n)) : Newest(q, n)[i] = q[(Len(q) - Len(Newest(q, n))) + i]
<1> DEFINE m == IF Len(q) > n THEN Len(q) - n + 1 ELSE 1
           new == SubSeq(q, m, Len(q))
<1>1. Len(q) \in Nat /\ \A i \in 1 .. Len(q) : q[i] \in Event
  OBVIOUS
<1>2. m \in Int /\ m >= 1 /\ Len(q) - m + 1 = (IF Len(q) > n THEN n ELSE Len(q)) /\ m <= Len(q) + 1
  BY <1>1
<1> HIDE DEF m
<1>3. \A i \in m .. Len(q) : q[i] \in Event
  BY <1>1, <1>2
<1>4. /\ new \in Seq(Event) /\ Len(new) = (IF m <= Len(q) THEN Len(q) - m + 1 ELSE 0)
      /\ \A i \in 1 .. Len(q) - m + 1 : new[i] = q[m + i - 1]
  BY <1>1, <1>2, <1>3, SubSeqProperties
<1> HIDE DEF new
<1>5. Len(new) = Len(q) - m + 1
  BY <1>1, <1>2, <1>4
<1>6. \A i \in 1 .. Len(new) : m + i - 1 = (Len(q) - Len(new)) + i
  BY <1>1, <1>2, <1>5
<1>7. Newest(q, n) = new
  BY DEF Newest, new, m
<1> QED
  BY <1>2, <1>4, <1>5, <1>6, <1>7

(***************************************************************************)
(* The invariant of the bus: publishers number their events upwards, the   *)
(* replay buffer is the end of what was published, and every queue is      *)
(* ordered, matches its filter, and accounts for what it was offered.      *)
(***************************************************************************)
BusTypeOK ==
  /\ replay \in Seq(Event) /\ published \in Seq(Event)
  /\ subscriptions \subseteq Subs /\ closed \subseteq Subs /\ fresh \subseteq Subs
  /\ queue \in [Subs -> Seq(Event)] /\ received \in [Subs -> Seq(Event)]
  /\ sent \in [Publishers -> Nat]
  /\ {dropped, since, until, prefilled} \subseteq [Subs -> Nat]

PublishedInOrder ==
  /\ \A i \in 1 .. Len(published) : published[i].n <= sent[published[i].pub]
  /\ \A i, j \in 1 .. Len(published) :
       i < j /\ published[i].pub = published[j].pub => published[i].n < published[j].n

ReplayIsRecent ==
  /\ Len(replay) = (IF Len(published) > ReplaySize THEN ReplaySize ELSE Len(published))
  /\ \A i \in 1 .. Len(replay) : replay[i] = published[(Len(published) - Len(replay)) + i]

\* A subscription is made, is open, and is closed for good.
InOneState ==
  /\ subscriptions \cap closed = {}
  /\ \A s \in Subs : s \in fresh <=> s \notin subscriptions \cup closed
  /\ \A s \in fresh :
       /\ Len(queue[s]) = 0 /\ Len(received[s]) = 0
       /\ dropped[s] = 0 /\ prefilled[s] = 0
  /\ \A s \in closed : until[s] <= Len(published)
  /\ \A s \in Subs : since[s] <= Len(published)

Accounted(s) ==
  Len(received[s]) + Len(queue[s]) + dropped[s] = prefilled[s] + Cardinality(OfferedTo(s))

QueueSound(s) ==
  /\ Len(queue[s]) <= MaxSize
  /\ Ordered(queue[s], published) /\ From(s, queue[s], published)
  /\ s \in subscriptions => Closed(s, queue[s], published, since[s])
  /\ Accounted(s)

BusInv ==
  /\ BusTypeOK /\ PublishedInOrder /\ ReplayIsRecent /\ InOneState
  /\ \A s \in Subs : QueueSound(s)

\* No event is published twice.
LEMMA NothingTwice ==
  ASSUME BusTypeOK, PublishedInOrder
  PROVE  Distinct(published)
<1> SUFFICES ASSUME NEW i \in 1 .. Len(published), NEW j \in 1 .. Len(published),
                    published[i] = published[j], i # j
             PROVE  FALSE
  BY DEF Distinct
<1>1. published[i].n \in Nat
  <2>1. published[i] \in Event
    BY DEF BusTypeOK
  <2> QED
    BY <2>1 DEF Event
<1>2. i < j \/ j < i
  OBVIOUS
<1>3. published[i].n < published[j].n \/ published[j].n < published[i].n
  BY <1>2 DEF PublishedInOrder
<1> QED
  BY <1>1, <1>3

\* What a subscription starts with, whatever the sizes.
LEMMA PrefillIs ==
  ASSUME NEW s \in Subs, BusTypeOK, PublishedInOrder, ReplayIsRecent
  PROVE  /\ Prefill(s) \in Seq(Event) /\ Len(Prefill(s)) <= MaxSize
         /\ Ordered(Prefill(s), published) /\ From(s, Prefill(s), published)
         /\ Closed(s, Prefill(s), published, Len(published))
         /\ \A a \in 1 .. Len(Prefill(s)) : \E i \in 1 .. Len(replay) : Prefill(s)[a] = replay[i]
<1> DEFINE m == Matching(s, replay)
           c == IF Len(m) > MaxSize THEN MaxSize ELSE Len(m)
           first == SubSeq(m, 1, c)
           off == Len(published) - Len(replay)
<1>1. /\ m \in Seq(Event) /\ Len(m) <= Len(replay)
      /\ \A k \in 1 .. Len(m) : \E i \in 1 .. Len(replay) : m[k] = replay[i] /\ Matches(s, replay[i])
      /\ \A k, l \in 1 .. Len(m) : k < l =>
           \E i, j \in 1 .. Len(replay) : i < j /\ m[k] = replay[i] /\ m[l] = replay[j]
      /\ \A i \in 1 .. Len(replay) : Matches(s, replay[i]) => \E k \in 1 .. Len(m) : m[k] = replay[i]
  <2>1. replay \in Seq(Event)
    BY DEF BusTypeOK
  <2> QED
    BY <2>1, MatchingIs
<1>2. Prefill(s) = first
  BY DEF Prefill
<1> HIDE DEF m
<1>3. Len(m) \in Nat /\ MaxSize \in Nat /\ \A i \in 1 .. Len(m) : m[i] \in Event
  BY <1>1, BusAssumption
<1>4. c \in Nat /\ c <= Len(m) /\ c <= MaxSize
  BY <1>3
<1>5. ReplaySize <= MaxSize => c = Len(m)
  <2>1. ReplaySize \in Nat /\ Len(replay) \in Nat /\ Len(published) \in Nat
    BY BusAssumption DEF BusTypeOK
  <2>2. Len(replay) <= ReplaySize
    BY <2>1 DEF ReplayIsRecent
  <2> QED
    BY <1>1, <1>3, <2>1, <2>2
<1> HIDE DEF c
<1>6. first \in Seq(Event) /\ Len(first) = c /\ \A a \in 1 .. c : a \in 1 .. Len(m) /\ first[a] = m[a]
  <2>1. \A a \in 1 .. c : m[a] \in Event /\ a \in 1 .. Len(m)
    BY <1>3, <1>4
  <2>2. /\ first \in Seq(Event) /\ Len(first) = (IF 1 <= c THEN c - 1 + 1 ELSE 0)
        /\ \A i \in 1 .. c - 1 + 1 : first[i] = m[1 + i - 1]
    BY <1>4, <2>1, SubSeqProperties
  <2> HIDE DEF first
  <2>3. \A i \in 1 .. c : i \in 1 .. c - 1 + 1 /\ 1 + i - 1 = i
    BY <1>4
  <2>4. Len(first) = c
    BY <1>4, <2>2
  <2> QED
    BY <2>1, <2>2, <2>3, <2>4
<1> HIDE DEF first
<1>m. \A a \in 1 .. Len(first) :
        first[a] \in ToSet(first)
          /\ \E i \in 1 .. Len(replay) : first[a] = replay[i] /\ Matches(s, replay[i])
  <2> SUFFICES ASSUME NEW a \in 1 .. Len(first)
               PROVE  first[a] \in ToSet(first)
                        /\ \E i \in 1 .. Len(replay) : first[a] = replay[i] /\ Matches(s, replay[i])
    OBVIOUS
  <2>1. a \in 1 .. Len(m) /\ first[a] = m[a]
    BY <1>6
  <2>2. \E i \in 1 .. Len(replay) : m[a] = replay[i] /\ Matches(s, replay[i])
    BY <1>1, <2>1, Zenon
  <2>3. first[a] \in ToSet(first)
    BY <1>6, ElementsAre
  <2> QED
    BY <2>1, <2>2, <2>3
<1>7. /\ off \in Nat /\ Len(replay) \in Nat /\ Len(published) \in Nat
      /\ \A i \in 1 .. Len(replay) : off + i \in 1 .. Len(published) /\ replay[i] = published[off + i]
  <2>1. Len(replay) \in Nat /\ Len(published) \in Nat /\ ReplaySize \in Nat
    BY BusAssumption DEF BusTypeOK
  <2>2. off \in Nat /\ \A i \in 1 .. Len(replay) : off + i \in 1 .. Len(published)
    BY <2>1 DEF ReplayIsRecent
  <2> QED
    BY <2>1, <2>2 DEF ReplayIsRecent
<1>8. Ordered(first, published)
  <2> SUFFICES ASSUME NEW a \in 1 .. Len(first), NEW b \in 1 .. Len(first), a < b
               PROVE  \E i, j \in 1 .. Len(published) :
                        i < j /\ published[i] = first[a] /\ published[j] = first[b]
    BY DEF Ordered
  <2>1. PICK i \in 1 .. Len(replay), j \in 1 .. Len(replay) :
          i < j /\ first[a] = replay[i] /\ first[b] = replay[j]
    <3>1. a \in 1 .. Len(m) /\ b \in 1 .. Len(m) /\ first[a] = m[a] /\ first[b] = m[b]
      BY <1>6
    <3>2. \E i, j \in 1 .. Len(replay) : i < j /\ m[a] = replay[i] /\ m[b] = replay[j]
      BY <1>1, <3>1, Zenon
    <3> QED
      BY <3>1, <3>2
  <2>2. off + i < off + j
    BY <1>7, <2>1
  <2> HIDE DEF off
  <2> QED
    BY <1>7, <2>1, <2>2
<1>9. From(s, first, published)
  <2> HIDE DEF off
  <2> QED
    BY <1>m, <1>7 DEF From
<1>10. Closed(s, first, published, Len(published))
  <2> SUFFICES ASSUME NEW i \in 1 .. Len(published), NEW j \in 1 .. Len(published),
                      i < j, published[i] \in ToSet(first), Matches(s, published[j]),
                      Len(published) < j \/ ReplaySize <= MaxSize
               PROVE  published[j] \in ToSet(first)
    BY DEF Closed
  <2>1. ReplaySize <= MaxSize
    BY <1>7
  <2>2. PICK a \in 1 .. c : published[i] = first[a]
    BY <1>6, ElementsAre
  <2>3. PICK x \in 1 .. Len(replay) : first[a] = replay[x]
    BY <1>m, <1>6, <2>2
  <2>4. i = off + x
    BY <1>7, <2>2, <2>3, NothingTwice DEF Distinct
  <2>5. j - off \in 1 .. Len(replay) /\ off + (j - off) = j
    BY <1>7, <2>4
  <2>6. published[j] = replay[j - off]
    BY <1>7, <2>5
  <2>7. PICK k \in 1 .. Len(m) : m[k] = published[j]
    BY <1>1, <2>5, <2>6
  <2>8. first[k] = published[j] /\ k \in 1 .. Len(first)
    BY <1>5, <1>6, <2>1, <2>7
  <2> QED
    BY <1>6, <2>8, ElementsAre
<1>11. \A a \in 1 .. Len(first) : \E i \in 1 .. Len(replay) : first[a] = replay[i]
  BY <1>m
<1> QED
  BY <1>2, <1>4, <1>6, <1>8, <1>9, <1>10, <1>11

\* The events a subscription was offered are finitely many.
LEMMA OfferedFinite ==
  ASSUME BusTypeOK, NEW s \in Subs
  PROVE  IsFiniteSet(OfferedTo(s)) /\ Cardinality(OfferedTo(s)) \in Nat
<1>1. OfferedTo(s) \subseteq (since[s] + 1) .. (IF s \in closed THEN until[s] ELSE Len(published))
  BY DEF OfferedTo
<1>2. since[s] + 1 \in Int /\ (IF s \in closed THEN until[s] ELSE Len(published)) \in Int
  BY DEF BusTypeOK
<1> QED
  BY <1>1, <1>2, FS_Interval, FS_Subset, FS_CardinalityType

\* A new bus has no queue to account for.
LEMMA InitBusInv == BusInit => BusInv
<1> SUFFICES ASSUME BusInit
             PROVE  BusInv
  OBVIOUS
<1>0. /\ replay = <<>> /\ published = <<>> /\ subscriptions = {} /\ closed = {} /\ fresh = Subs
      /\ queue = [s \in Subs |-> <<>>] /\ received = [s \in Subs |-> <<>>]
      /\ sent = [p \in Publishers |-> 0] /\ dropped = [s \in Subs |-> 0] /\ since = [s \in Subs |-> 0]
      /\ until = [s \in Subs |-> 0] /\ prefilled = [s \in Subs |-> 0]
  BY DEF BusInit
<1>1. BusTypeOK
  <2>1. <<>> \in Seq(Event)
    OBVIOUS
  <2>2. queue \in [Subs -> Seq(Event)] /\ received \in [Subs -> Seq(Event)]
    BY <1>0, <2>1
  <2>3. {dropped, since, until, prefilled} \subseteq [Subs -> Nat] /\ sent \in [Publishers -> Nat]
    BY <1>0
  <2> QED
    BY <1>0, <2>1, <2>2, <2>3 DEF BusTypeOK
<1>2. Len(published) = 0 /\ Len(replay) = 0 /\ 1 .. 0 = {}
  BY <1>0
<1>3. PublishedInOrder
  BY <1>2 DEF PublishedInOrder
<1>4. ReplayIsRecent
  BY <1>2, BusAssumption DEF ReplayIsRecent
<1>5. InOneState
  BY <1>0, <1>2 DEF InOneState
<1>6. ASSUME NEW s \in Subs
      PROVE  QueueSound(s)
  <2>1. /\ Len(queue[s]) = 0 /\ Len(received[s]) = 0 /\ dropped[s] = 0 /\ prefilled[s] = 0
        /\ s \in fresh /\ s \notin subscriptions
    BY <1>0
  <2>2. OfferedTo(s) = {}
    BY <2>1 DEF OfferedTo
  <2>3. Cardinality(OfferedTo(s)) = 0
    BY <2>2, FS_EmptySet
  <2> QED
    BY <1>2, <2>1, <2>3, BusAssumption DEF QueueSound, Ordered, From, Accounted
<1> QED
  BY <1>1, <1>3, <1>4, <1>5, <1>6 DEF BusInv

\* What an invariant queue is, as facts for the provers.
LEMMA QueueIs ==
  ASSUME BusTypeOK, NEW s \in Subs
  PROVE  /\ queue[s] \in Seq(Event) /\ received[s] \in Seq(Event)
         /\ Len(queue[s]) \in Nat /\ Len(received[s]) \in Nat /\ Len(published) \in Nat
         /\ dropped[s] \in Nat /\ prefilled[s] \in Nat /\ since[s] \in Nat /\ until[s] \in Nat
BY DEF BusTypeOK

(***************************************************************************)
(* _QueuedFullDropOldest: each queue takes the event, at the cost of its   *)
(* head when it is full, and the drop is counted.                          *)
(***************************************************************************)
LEMMA PublishBusInv ==
  ASSUME BusInv, NEW p \in Publishers, Publish(p)
  PROVE  BusInv'
<1> DEFINE e == NextOf(p)
<1>0. BusTypeOK /\ PublishedInOrder /\ ReplayIsRecent /\ InOneState /\ \A s \in Subs : QueueSound(s)
  BY DEF BusInv
<1>1. /\ published' = Append(published, e) /\ sent' = [sent EXCEPT ![p] = @ + 1]
      /\ replay' = Newest(Append(replay, e), ReplaySize)
      /\ queue' = [s \in Subs |-> IF s \in Targets(e) THEN Offered(s, e) ELSE queue[s]]
      /\ dropped' = [s \in Subs |->
           IF s \in Targets(e) /\ Len(queue[s]) = MaxSize THEN dropped[s] + 1 ELSE dropped[s]]
      /\ UNCHANGED <<subscriptions, closed, fresh, since, until, prefilled, received>>
  BY DEF Publish
<1>2. e \in Event /\ e.pub = p /\ e.n = sent[p] + 1 /\ sent[p] \in Nat
  BY <1>0 DEF NextOf, Event, BusTypeOK
<1> HIDE DEF e
<1>3. published \in Seq(Event) /\ replay \in Seq(Event) /\ ReplaySize \in Nat /\ MaxSize \in Nat \ {0}
  BY <1>0, BusAssumption DEF BusTypeOK
<1>4. /\ published' \in Seq(Event) /\ Len(published') = Len(published) + 1 /\ Len(published) \in Nat
      /\ \A i \in 1 .. Len(published) : i \in 1 .. Len(published) + 1 /\ published'[i] = published[i]
      /\ published'[Len(published) + 1] = e /\ Len(published) + 1 \in 1 .. Len(published) + 1
      /\ \A i \in 1 .. Len(published) + 1 : i \in 1 .. Len(published) \/ i = Len(published) + 1
  BY <1>1, <1>2, <1>3, AppendElements
<1>5. PublishedInOrder'
  <2>1. /\ sent' \in [Publishers -> Nat] /\ sent'[p] = sent[p] + 1
        /\ \A q \in Publishers : q # p => sent'[q] = sent[q]
    BY <1>0, <1>1 DEF BusTypeOK
  <2>2. \A i \in 1 .. Len(published) : published[i] \in Event
    BY <1>3
  <2>3. \A i \in 1 .. Len(published) : published[i].pub \in Publishers /\ published[i].n \in Nat
    BY <2>2 DEF Event
  <2>4. ASSUME NEW i \in 1 .. Len(published')
        PROVE  published'[i].n <= sent'[published'[i].pub]
    <3>1. CASE i \in 1 .. Len(published)
      <4>1. published[i].n <= sent[published[i].pub] /\ published[i].pub \in Publishers /\ published[i].n \in Nat
        BY <1>0, <2>3, <3>1 DEF PublishedInOrder
      <4>2. published'[i] = published[i]
        BY <1>4, <3>1
      <4>3. CASE published[i].pub = p
        BY <1>2, <2>1, <4>1, <4>2, <4>3
      <4>4. CASE published[i].pub # p
        BY <2>1, <4>1, <4>2, <4>4
      <4> QED
        BY <4>3, <4>4
    <3>2. CASE i = Len(published) + 1
      BY <1>2, <1>4, <2>1, <3>2
    <3> QED
      BY <1>4, <3>1, <3>2
  <2>5. ASSUME NEW i \in 1 .. Len(published'), NEW j \in 1 .. Len(published'), i < j,
               published'[i].pub = published'[j].pub
        PROVE  published'[i].n < published'[j].n
    <3>1. i \in 1 .. Len(published)
      BY <1>4, <2>5
    <3>2. CASE j \in 1 .. Len(published)
      BY <1>0, <1>4, <2>5, <3>1, <3>2 DEF PublishedInOrder
    <3>3. CASE j = Len(published) + 1
      <4>1. published'[i] = published[i] /\ published'[j] = e
        BY <1>4, <3>1, <3>3
      <4>2. published[i].n <= sent[p] /\ published[i].n \in Nat
        BY <1>0, <1>2, <2>3, <2>5, <3>1, <4>1 DEF PublishedInOrder
      <4> QED
        BY <1>2, <4>1, <4>2
    <3> QED
      BY <1>4, <3>2, <3>3
  <2> QED
    BY <2>4, <2>5 DEF PublishedInOrder
<1>6. ReplayIsRecent' /\ replay' \in Seq(Event)
  <2> DEFINE long == Append(replay, e)
  <2>1. /\ long \in Seq(Event) /\ Len(long) = Len(replay) + 1 /\ Len(replay) \in Nat
        /\ \A a \in 1 .. Len(replay) : long[a] = replay[a]
        /\ long[Len(replay) + 1] = e
        /\ \A i \in 1 .. Len(replay) + 1 : i \in 1 .. Len(replay) \/ i = Len(replay) + 1
    BY <1>2, <1>3, AppendElements
  <2>2. replay' = Newest(long, ReplaySize)
    BY <1>1
  <2> HIDE DEF long
  <2>3. /\ replay' \in Seq(Event)
        /\ Len(replay') = (IF Len(long) > ReplaySize THEN ReplaySize ELSE Len(long))
        /\ \A i \in 1 .. Len(replay') : replay'[i] = long[(Len(long) - Len(replay')) + i]
    BY <1>3, <2>1, <2>2, NewestIs
  <2>4. /\ Len(replay) = (IF Len(published) > ReplaySize THEN ReplaySize ELSE Len(published))
        /\ \A i \in 1 .. Len(replay) : replay[i] = published[(Len(published) - Len(replay)) + i]
    BY <1>0 DEF ReplayIsRecent
  <2>5. Len(replay') = (IF Len(published') > ReplaySize THEN ReplaySize ELSE Len(published'))
    BY <1>3, <1>4, <2>1, <2>3, <2>4
  <2>6. ASSUME NEW i \in 1 .. Len(replay')
        PROVE  replay'[i] = published'[(Len(published') - Len(replay')) + i]
    <3> DEFINE x == (Len(long) - Len(replay')) + i
               off == Len(published) - Len(replay)
    <3>1. replay'[i] = long[x]
      BY <2>3
    <3>2. x \in 1 .. Len(replay) + 1 /\ (Len(published') - Len(replay')) + i = off + x
      BY <1>3, <1>4, <2>1, <2>3, <2>5
    <3> HIDE DEF x
    <3>3. CASE x \in 1 .. Len(replay)
      <4>1. long[x] = published[off + x]
        BY <2>1, <2>4, <3>3
      <4>2. off + x \in 1 .. Len(published)
        BY <1>3, <1>4, <2>1, <2>4, <3>3
      <4>3. published'[off + x] = published[off + x]
        BY <1>4, <4>2
      <4> QED
        BY <3>1, <3>2, <4>1, <4>3
    <3>4. CASE x = Len(replay) + 1
      <4>1. off + x = Len(published) + 1
        BY <1>4, <2>1, <3>4
      <4>2. long[x] = e
        BY <2>1, <3>4
      <4> QED
        BY <1>4, <3>1, <3>2, <4>1, <4>2
    <3> QED
      BY <2>1, <3>2, <3>3, <3>4
  <2> QED
    BY <2>3, <2>5, <2>6 DEF ReplayIsRecent
<1>7. ASSUME NEW s \in Subs
      PROVE  /\ queue'[s] \in Seq(Event) /\ dropped'[s] \in Nat
             /\ Len(queue'[s]) + dropped'[s]
                  = Len(queue[s]) + dropped[s] + (IF s \in Targets(e) THEN 1 ELSE 0)
             /\ Len(queue'[s]) <= MaxSize
             /\ Ordered(queue'[s], published') /\ From(s, queue'[s], published')
             /\ s \in subscriptions => Closed(s, queue'[s], published', since[s])
             /\ s \notin Targets(e) => queue'[s] = queue[s] /\ dropped'[s] = dropped[s]
  <2>0. /\ queue[s] \in Seq(Event) /\ Len(queue[s]) \in Nat /\ dropped[s] \in Nat
        /\ Len(queue[s]) <= MaxSize
        /\ Ordered(queue[s], published) /\ From(s, queue[s], published)
        /\ s \in subscriptions => Closed(s, queue[s], published, since[s])
    BY <1>0, QueueIs DEF QueueSound
  <2>1. Distinct(published)
    BY <1>0, NothingTwice
  <2>2. Distinct(Append(published, e))
    <3>2. \A i \in 1 .. Len(published') : published'[i] \in Event
      BY <1>4
    <3> SUFFICES ASSUME NEW i \in 1 .. Len(published'), NEW j \in 1 .. Len(published'),
                        published'[i] = published'[j], i # j
                 PROVE  FALSE
      BY <1>1 DEF Distinct
    <3>3. published'[i].n \in Nat
      BY <3>2 DEF Event
    <3>4. i < j \/ j < i
      OBVIOUS
    <3>5. published'[i].n < published'[j].n \/ published'[j].n < published'[i].n
      BY <1>5, <3>4 DEF PublishedInOrder
    <3> QED
      BY <3>3, <3>5
  <2>3. CASE s \notin Targets(e)
    <3>1. queue'[s] = queue[s] /\ dropped'[s] = dropped[s]
      BY <1>1, <2>3
    <3>2. Ordered(queue[s], published') /\ From(s, queue[s], published')
      BY <1>1, <1>2, <1>3, <2>0, GrowKeeps
    <3>3. ASSUME s \in subscriptions
          PROVE  Closed(s, queue[s], published', since[s])
      <4>1. ~Matches(s, e)
        BY <1>0, <2>3, <3>3 DEF Targets, InOneState
      <4> QED
        BY <1>1, <1>2, <1>3, <2>0, <2>2, <3>3, <4>1, OfferStaysClosed
    <3> QED
      BY <2>0, <2>3, <3>1, <3>2, <3>3
  <2>4. CASE s \in Targets(e)
    <3>0. Matches(s, e)
      BY <2>4 DEF Targets
    <3> DEFINE room == IF Len(queue[s]) = MaxSize THEN Tail(queue[s]) ELSE queue[s]
    <3>1. queue'[s] = Append(room, e)
      BY <1>1, <2>4 DEF Offered
    <3>2. /\ room \in Seq(Event) /\ Len(room) \in Nat /\ Len(room) < MaxSize
          /\ Len(room) + dropped'[s] = Len(queue[s]) + dropped[s] /\ dropped'[s] \in Nat
          /\ Ordered(room, published) /\ From(s, room, published)
          /\ s \in subscriptions => Closed(s, room, published, since[s])
      <4>1. CASE Len(queue[s]) = MaxSize
        <5>1. queue[s] # <<>>
          BY <1>3, <4>1
        <5>2. Tail(queue[s]) \in Seq(Event) /\ Len(Tail(queue[s])) = Len(queue[s]) - 1
          BY <2>0, <5>1, TailElements
        <5>3. Ordered(Tail(queue[s]), published) /\ From(s, Tail(queue[s]), published)
          BY <2>0, <5>1, TailKeeps
        <5>4. s \in subscriptions => Closed(s, Tail(queue[s]), published, since[s])
          BY <1>3, <2>0, <2>1, <5>1, TailStaysClosed
        <5>5. room = Tail(queue[s]) /\ dropped'[s] = dropped[s] + 1
          BY <1>1, <2>4, <4>1
        <5> HIDE DEF room
        <5>6. Len(room) \in Nat /\ Len(room) < MaxSize /\ Len(room) + dropped'[s] = Len(queue[s]) + dropped[s]
          <6>1. Len(room) = Len(queue[s]) - 1 /\ dropped'[s] = dropped[s] + 1
            BY <5>2, <5>5
          <6>2. Len(queue[s]) \in Nat /\ Len(queue[s]) >= 1 /\ dropped[s] \in Nat
            BY <1>3, <2>0, <4>1
          <6>3. Len(room) + dropped'[s] = Len(queue[s]) + dropped[s]
            BY <6>1, <6>2
          <6>4. Len(room) \in Nat /\ Len(room) < Len(queue[s])
            BY <6>1, <6>2
          <6> QED
            BY <4>1, <6>3, <6>4
        <5> QED
          BY <2>0, <5>2, <5>3, <5>4, <5>5, <5>6
      <4>2. CASE Len(queue[s]) # MaxSize
        <5>1. room = queue[s] /\ dropped'[s] = dropped[s]
          BY <1>1, <2>4, <4>2
        <5> QED
          BY <1>3, <2>0, <4>2, <5>1
      <4> QED
        BY <4>1, <4>2
    <3> HIDE DEF room
    <3>3. queue'[s] \in Seq(Event) /\ Len(queue'[s]) = Len(room) + 1
      BY <1>2, <3>1, <3>2, AppendElements
    <3>4. Ordered(queue'[s], published') /\ From(s, queue'[s], published')
      BY <1>1, <1>2, <1>3, <3>0, <3>1, <3>2, OfferKeeps
    <3>5. s \in subscriptions => Closed(s, queue'[s], published', since[s])
      BY <1>1, <1>2, <1>3, <2>2, <3>1, <3>2, OfferStaysClosed
    <3>6. Len(queue'[s]) + dropped'[s] = Len(queue[s]) + dropped[s] + 1 /\ Len(queue'[s]) <= MaxSize
      <4>1. Len(room) \in Nat /\ dropped'[s] \in Nat /\ Len(queue[s]) \in Nat /\ dropped[s] \in Nat
        BY <2>0, <3>2
      <4>2. Len(room) + 1 + dropped'[s] = Len(queue[s]) + dropped[s] + 1
        BY <3>2, <4>1
      <4>3. Len(room) + 1 <= MaxSize
        BY <1>3, <3>2, <4>1
      <4> QED
        BY <3>3, <4>2, <4>3
    <3> QED
      BY <2>4, <3>2, <3>3, <3>4, <3>5, <3>6
  <2> QED
    BY <2>3, <2>4
<1>8. BusTypeOK'
  <2>1. queue' \in [Subs -> Seq(Event)] /\ dropped' \in [Subs -> Nat]
    <3>1. queue' = [s \in Subs |-> queue'[s]] /\ dropped' = [s \in Subs |-> dropped'[s]]
      BY <1>1
    <3> QED
      BY <1>7, <3>1
  <2>2. sent' \in [Publishers -> Nat]
    BY <1>0, <1>1 DEF BusTypeOK
  <2> QED
    BY <1>0, <1>1, <1>4, <1>6, <2>1, <2>2 DEF BusTypeOK
<1>9. InOneState'
  <2>1. \A s \in fresh : s \in Subs /\ s \notin Targets(e)
    BY <1>0 DEF InOneState, Targets, BusTypeOK
  <2>2. \A s \in fresh : Len(queue'[s]) = 0 /\ dropped'[s] = 0
    BY <1>0, <1>7, <2>1 DEF InOneState
  <2>3. (\A s \in closed : until[s] <= Len(published')) /\ \A s \in Subs : since[s] <= Len(published')
    <3>1. (\A s \in closed : s \in Subs) /\ \A s \in Subs : until[s] \in Nat /\ since[s] \in Nat
      BY <1>0, QueueIs DEF BusTypeOK
    <3> QED
      BY <1>0, <1>4, <3>1 DEF InOneState
  <2> QED
    BY <1>0, <1>1, <2>2, <2>3 DEF InOneState
<1>10. ASSUME NEW s \in Subs
       PROVE  Accounted(s)'
  <2> DEFINE end == IF s \in closed THEN until[s] ELSE Len(published)
  <2>0. /\ Len(queue[s]) \in Nat /\ dropped[s] \in Nat /\ Len(received[s]) \in Nat
        /\ prefilled[s] \in Nat /\ since[s] \in Nat /\ until[s] \in Nat
        /\ received'[s] = received[s] /\ prefilled'[s] = prefilled[s]
        /\ Len(queue'[s]) \in Nat /\ dropped'[s] \in Nat
    BY <1>0, <1>1, <1>7, QueueIs
  <2>1. IsFiniteSet(OfferedTo(s)) /\ Cardinality(OfferedTo(s)) \in Nat
    BY <1>0, OfferedFinite
  <2>2. Len(received[s]) + Len(queue[s]) + dropped[s] = prefilled[s] + Cardinality(OfferedTo(s))
    BY <1>0 DEF QueueSound, Accounted
  <2>3. CASE s \in Targets(e)
    <3>1. s \in subscriptions /\ s \notin closed /\ s \notin fresh /\ Matches(s, e)
      BY <1>0, <2>3 DEF Targets, InOneState
    <3>2. OfferedTo(s) = {i \in (since[s] + 1) .. Len(published) : Matches(s, published[i])}
      BY <3>1 DEF OfferedTo
    <3>3. OfferedTo(s)' = {i \in (since[s] + 1) .. Len(published) + 1 : Matches(s, published'[i])}
      BY <1>1, <1>4, <3>1 DEF OfferedTo
    <3>4. since[s] <= Len(published)
      BY <1>0 DEF InOneState
    <3>5. OfferedTo(s)' = OfferedTo(s) \cup {Len(published) + 1}
      <4>1. \A i \in (since[s] + 1) .. Len(published) + 1 :
              i = Len(published) + 1 \/ i \in (since[s] + 1) .. Len(published)
        BY <1>4, <2>0
      <4>2. \A i \in (since[s] + 1) .. Len(published) :
              i \in (since[s] + 1) .. Len(published) + 1 /\ published'[i] = published[i]
        BY <1>4, <2>0
      <4>3. Len(published) + 1 \in (since[s] + 1) .. Len(published) + 1
        BY <1>4, <2>0, <3>4
      <4> QED
        BY <1>4, <3>1, <3>2, <3>3, <4>1, <4>2, <4>3
    <3>6. Len(published) + 1 \notin OfferedTo(s)
      BY <1>4, <2>0, <3>2
    <3>7. Cardinality(OfferedTo(s)') = Cardinality(OfferedTo(s)) + 1
      BY <2>1, <3>5, <3>6, FS_AddElement
    <3> QED
      <4>1. Len(queue'[s]) + dropped'[s] = Len(queue[s]) + dropped[s] + 1
        BY <1>7, <2>3
      <4>2. Len(received[s]) + Len(queue'[s]) + dropped'[s] = prefilled[s] + (Cardinality(OfferedTo(s)) + 1)
        <5> DEFINE a == Len(received[s])
                   b == Len(queue[s])
                   x == Len(queue'[s])
                   n == Cardinality(OfferedTo(s))
        <5>1. a \in Nat /\ b \in Nat /\ x \in Nat /\ n \in Nat
          BY <2>0, <2>1
        <5>2. a + b + dropped[s] = prefilled[s] + n /\ x + dropped'[s] = b + dropped[s] + 1
          BY <2>2, <4>1
        <5>3. dropped[s] \in Nat /\ dropped'[s] \in Nat /\ prefilled[s] \in Nat
          BY <2>0
        <5> HIDE DEF a, b, x, n
        <5>4. a + x + dropped'[s] = prefilled[s] + (n + 1)
          BY <5>1, <5>2, <5>3
        <5> QED
          BY <5>4 DEF a, x, n
      <4> QED
        BY <2>0, <3>7, <4>2 DEF Accounted
  <2>4. CASE s \notin Targets(e)
    <3>1. OfferedTo(s)' = OfferedTo(s)
      <4>1. CASE s \in fresh
        BY <1>1, <4>1 DEF OfferedTo
      <4>2. CASE s \in closed
        <5>1. until[s] <= Len(published)
          BY <1>0, <4>2 DEF InOneState
        <5>2. \A i \in (since[s] + 1) .. until[s] : published'[i] = published[i]
          BY <1>4, <2>0, <5>1
        <5>3. OfferedTo(s) = {i \in (since[s] + 1) .. until[s] : s \notin fresh /\ Matches(s, published[i])}
          BY <4>2 DEF OfferedTo
        <5>4. OfferedTo(s)' = {i \in (since[s] + 1) .. until[s] : s \notin fresh /\ Matches(s, published'[i])}
          BY <1>1, <4>2 DEF OfferedTo
        <5> QED
          BY <5>2, <5>3, <5>4
      <4>3. CASE s \in subscriptions /\ s \notin closed
        <5>1. ~Matches(s, e)
          BY <2>4, <4>3 DEF Targets
        <5>2. OfferedTo(s) = {i \in (since[s] + 1) .. Len(published) : s \notin fresh /\ Matches(s, published[i])}
          BY <4>3 DEF OfferedTo
        <5>3. OfferedTo(s)'
                = {i \in (since[s] + 1) .. Len(published) + 1 : s \notin fresh /\ Matches(s, published'[i])}
          BY <1>1, <1>4, <4>3 DEF OfferedTo
        <5>4. \A i \in (since[s] + 1) .. Len(published) + 1 :
                i = Len(published) + 1 \/ i \in (since[s] + 1) .. Len(published)
          BY <1>4, <2>0
        <5>5. \A i \in (since[s] + 1) .. Len(published) :
                i \in (since[s] + 1) .. Len(published) + 1 /\ published'[i] = published[i]
          BY <1>4, <2>0
        <5> QED
          BY <1>4, <5>1, <5>2, <5>3, <5>4, <5>5
      <4> QED
        BY <1>0, <4>1, <4>2, <4>3 DEF InOneState
    <3> QED
      BY <1>7, <2>0, <2>1, <2>2, <2>4, <3>1 DEF Accounted
  <2> QED
    BY <2>3, <2>4
<1>11. \A s \in Subs : QueueSound(s)'
  BY <1>1, <1>7, <1>10 DEF QueueSound
<1> QED
  BY <1>5, <1>6, <1>8, <1>9, <1>11 DEF BusInv

\* A subscription starts with its prefill, and what the prefill holds is accounted for.
LEMMA SubscribeBusInv ==
  ASSUME BusInv, NEW s \in Subs, NEW fill \in BOOLEAN, Subscribe(s, fill)
  PROVE  BusInv'
<1>0. BusTypeOK /\ PublishedInOrder /\ ReplayIsRecent /\ InOneState /\ \A t \in Subs : QueueSound(t)
  BY DEF BusInv
<1> DEFINE first == IF fill THEN Prefill(s) ELSE <<>>
<1>1. /\ s \in fresh /\ fresh' = fresh \ {s} /\ subscriptions' = subscriptions \cup {s}
      /\ queue' = [queue EXCEPT ![s] = first]
      /\ since' = [since EXCEPT ![s] = Len(published)]
      /\ prefilled' = [prefilled EXCEPT ![s] = Len(queue'[s])]
      /\ UNCHANGED <<replay, closed, waiting, dropped, published, sent, until, received>>
  BY DEF Subscribe
<1>2. /\ first \in Seq(Event) /\ Len(first) \in Nat /\ Len(first) <= MaxSize
      /\ Ordered(first, published) /\ From(s, first, published)
      /\ Closed(s, first, published, Len(published))
  <2>1. CASE fill
    BY <1>0, <2>1, PrefillIs
  <2>2. CASE ~fill
    <3>1. first = <<>> /\ <<>> \in Seq(Event) /\ Len(<<>>) = 0 /\ 1 .. 0 = {}
      BY <2>2
    <3>2. ToSet(<<>>) = {}
      BY DEF ToSet
    <3>3. Ordered(<<>>, published) /\ From(s, <<>>, published)
      BY <3>1 DEF Ordered, From
    <3>4. Closed(s, <<>>, published, Len(published))
      BY <3>2 DEF Closed
    <3> HIDE DEF first
    <3> QED
      BY <3>1, <3>3, <3>4, BusAssumption
  <2> QED
    BY <2>1, <2>2
<1> HIDE DEF first
<1>3. /\ queue \in [Subs -> Seq(Event)] /\ since \in [Subs -> Nat] /\ prefilled \in [Subs -> Nat]
      /\ Len(published) \in Nat
  BY <1>0 DEF BusTypeOK
<1>4. /\ queue'[s] = first /\ since'[s] = Len(published) /\ prefilled'[s] = Len(first)
      /\ \A t \in Subs : t # s => queue'[t] = queue[t] /\ since'[t] = since[t] /\ prefilled'[t] = prefilled[t]
  BY <1>1, <1>3
<1>5. BusTypeOK'
  <2>1. queue' \in [Subs -> Seq(Event)] /\ since' \in [Subs -> Nat] /\ prefilled' \in [Subs -> Nat]
    BY <1>1, <1>2, <1>3, <1>4
  <2> QED
    BY <1>0, <1>1, <2>1 DEF BusTypeOK
<1>6. PublishedInOrder' /\ ReplayIsRecent'
  BY <1>0, <1>1 DEF PublishedInOrder, ReplayIsRecent
<1>7. InOneState'
  <2>1. \A t \in fresh' : t # s /\ t \in fresh /\ t \in Subs
    BY <1>0, <1>1 DEF BusTypeOK
  <2>2. \A t \in fresh' : Len(queue'[t]) = 0 /\ Len(received'[t]) = 0 /\ dropped'[t] = 0 /\ prefilled'[t] = 0
    BY <1>0, <1>1, <1>4, <2>1 DEF InOneState
  <2>3. \A t \in Subs : since'[t] <= Len(published')
    BY <1>0, <1>1, <1>3, <1>4 DEF InOneState
  <2>4. (\A t \in Subs : t \in fresh' <=> t \notin subscriptions' \cup closed') /\ subscriptions' \cap closed' = {}
    BY <1>0, <1>1 DEF InOneState
  <2> QED
    BY <1>0, <1>1, <2>2, <2>3, <2>4 DEF InOneState
<1>8. ASSUME NEW t \in Subs
      PROVE  QueueSound(t)'
  <2>1. CASE t = s
    <3>1. Len(received[s]) = 0 /\ dropped[s] = 0
      BY <1>0, <1>1 DEF InOneState
    <3>2. s \notin closed
      BY <1>0, <1>1 DEF InOneState
    <3>3. OfferedTo(s)' = {}
      <4>1. (Len(published) + 1) .. Len(published) = {}
        BY <1>3
      <4> QED
        BY <1>1, <1>4, <3>2, <4>1 DEF OfferedTo
    <3>4. Cardinality(OfferedTo(s)') = 0
      BY <3>3, FS_EmptySet
    <3>5. Accounted(s)'
      BY <1>1, <1>2, <1>4, <3>1, <3>4 DEF Accounted
    <3> QED
      BY <1>1, <1>2, <1>4, <2>1, <3>5 DEF QueueSound
  <2>2. CASE t # s
    <3>1. queue'[t] = queue[t] /\ since'[t] = since[t] /\ prefilled'[t] = prefilled[t]
      BY <1>4, <2>2
    <3>2. (t \in subscriptions' <=> t \in subscriptions) /\ (t \in fresh' <=> t \in fresh)
      BY <1>1, <2>2
    <3>3. OfferedTo(t)' = OfferedTo(t)
      BY <1>1, <3>1, <3>2 DEF OfferedTo
    <3>4. Accounted(t)'
      BY <1>0, <1>1, <3>1, <3>3 DEF QueueSound, Accounted
    <3> QED
      BY <1>0, <1>1, <3>1, <3>2, <3>4 DEF QueueSound
  <2> QED
    BY <2>1, <2>2
<1> QED
  BY <1>5, <1>6, <1>7, <1>8 DEF BusInv

\* What the subscriber takes leaves the queue at its head.
LEMMA TakeBusInv ==
  ASSUME BusInv, NEW s \in Subs, Take(s)
  PROVE  BusInv'
<1>0. BusTypeOK /\ PublishedInOrder /\ ReplayIsRecent /\ InOneState /\ \A t \in Subs : QueueSound(t)
  BY DEF BusInv
<1>1. /\ queue[s] # <<>> /\ queue' = [queue EXCEPT ![s] = Tail(@)]
      /\ received' = [received EXCEPT ![s] = Append(@, Head(queue[s]))]
      /\ UNCHANGED <<replay, subscriptions, closed, dropped, published, sent, fresh, since, until, prefilled>>
  BY DEF Take
<1>2. /\ queue \in [Subs -> Seq(Event)] /\ received \in [Subs -> Seq(Event)]
      /\ queue[s] \in Seq(Event) /\ received[s] \in Seq(Event) /\ published \in Seq(Event)
  BY <1>0 DEF BusTypeOK
<1>3. /\ Tail(queue[s]) \in Seq(Event) /\ Len(Tail(queue[s])) = Len(queue[s]) - 1
      /\ Len(queue[s]) \in Nat /\ Len(queue[s]) >= 1 /\ Head(queue[s]) \in Event
  <2>1. Head(queue[s]) = queue[s][1] /\ 1 \in 1 .. Len(queue[s])
    BY <1>1, <1>2, TailElements
  <2> QED
    BY <1>1, <1>2, <2>1, TailElements
<1>4. /\ queue'[s] = Tail(queue[s]) /\ received'[s] = Append(received[s], Head(queue[s]))
      /\ \A t \in Subs : t # s => queue'[t] = queue[t] /\ received'[t] = received[t]
  BY <1>1, <1>2
<1>5. received'[s] \in Seq(Event) /\ Len(received'[s]) = Len(received[s]) + 1
  BY <1>2, <1>3, <1>4, AppendElements
<1>6. BusTypeOK'
  <2>1. queue' \in [Subs -> Seq(Event)] /\ received' \in [Subs -> Seq(Event)]
    BY <1>1, <1>2, <1>3, <1>5, <1>4
  <2> QED
    BY <1>0, <1>1, <2>1 DEF BusTypeOK
<1>7. PublishedInOrder' /\ ReplayIsRecent'
  BY <1>0, <1>1 DEF PublishedInOrder, ReplayIsRecent
<1>8. InOneState'
  <2>1. s \notin fresh
    BY <1>0, <1>3 DEF InOneState
  <2>2. \A t \in fresh : t \in Subs /\ t # s
    BY <1>0, <2>1 DEF BusTypeOK
  <2> QED
    BY <1>0, <1>1, <1>4, <2>2 DEF InOneState
<1>9. ASSUME NEW t \in Subs
      PROVE  QueueSound(t)'
  <2>1. OfferedTo(t)' = OfferedTo(t)
    BY <1>1 DEF OfferedTo
  <2>2. CASE t = s
    <3>1. /\ Len(queue[s]) <= MaxSize /\ Ordered(queue[s], published) /\ From(s, queue[s], published)
          /\ s \in subscriptions => Closed(s, queue[s], published, since[s])
      BY <1>0 DEF QueueSound
    <3>2. Ordered(Tail(queue[s]), published) /\ From(s, Tail(queue[s]), published)
      BY <1>1, <1>2, <3>1, TailKeeps
    <3>3. Distinct(published)
      BY <1>0, NothingTwice
    <3>4. s \in subscriptions => Closed(s, Tail(queue[s]), published, since[s])
      BY <1>1, <1>2, <3>1, <3>3, TailStaysClosed
    <3>5. Len(queue'[s]) <= MaxSize
      BY <1>3, <1>4, <3>1, BusAssumption
    <3>6. Accounted(s)'
      <4> DEFINE n == Cardinality(OfferedTo(s))
                 a == Len(received[s])
                 b == Len(queue[s])
      <4>1. n \in Nat /\ a \in Nat /\ b \in Nat /\ dropped[s] \in Nat /\ prefilled[s] \in Nat
        BY <1>0, OfferedFinite, QueueIs
      <4>2. a + b + dropped[s] = prefilled[s] + n
        BY <1>0 DEF QueueSound, Accounted
      <4> HIDE DEF n, a, b
      <4>3. (a + 1) + (b - 1) + dropped[s] = prefilled[s] + n
        BY <4>1, <4>2
      <4>4. Len(received'[s]) + Len(queue'[s]) + dropped'[s] = prefilled'[s] + n
        BY <1>1, <1>3, <1>4, <1>5, <4>3 DEF a, b
      <4> QED
        BY <2>1, <2>2, <4>4 DEF Accounted, n
    <3> QED
      BY <1>1, <1>4, <2>2, <3>2, <3>4, <3>5, <3>6 DEF QueueSound
  <2>3. CASE t # s
    <3>1. queue'[t] = queue[t] /\ received'[t] = received[t]
      BY <1>4, <2>3
    <3>2. Accounted(t)'
      BY <1>0, <1>1, <2>1, <3>1 DEF QueueSound, Accounted
    <3> QED
      BY <1>0, <1>1, <3>1, <3>2 DEF QueueSound
  <2> QED
    BY <2>2, <2>3
<1> QED
  BY <1>6, <1>7, <1>8, <1>9 DEF BusInv

\* A closed subscription keeps its queue and is offered nothing more.
LEMMA CloseBusInv ==
  ASSUME BusInv, NEW S, CloseThese(S)
  PROVE  BusInv'
<1>0. BusTypeOK /\ PublishedInOrder /\ ReplayIsRecent /\ InOneState /\ \A t \in Subs : QueueSound(t)
  BY DEF BusInv
<1>1. /\ S \subseteq subscriptions /\ subscriptions' = subscriptions \ S /\ closed' = closed \cup S
      /\ until' = [s \in Subs |-> IF s \in S THEN Len(published) ELSE until[s]]
      /\ UNCHANGED <<replay, queue, waiting, dropped, published, sent, fresh, since, prefilled, received>>
  BY DEF CloseThese
<1>2. until \in [Subs -> Nat] /\ Len(published) \in Nat /\ subscriptions \subseteq Subs /\ closed \subseteq Subs
  BY <1>0 DEF BusTypeOK
<1>3. BusTypeOK'
  BY <1>0, <1>1, <1>2 DEF BusTypeOK
<1>4. PublishedInOrder' /\ ReplayIsRecent'
  BY <1>0, <1>1 DEF PublishedInOrder, ReplayIsRecent
<1>5. InOneState'
  <2>1. \A s \in closed' : until'[s] <= Len(published')
    <3>1. \A s \in closed' : s \in Subs /\ (s \in S \/ s \in closed)
      BY <1>1, <1>2
    <3>2. Len(published) <= Len(published)
      BY <1>2
    <3> QED
      BY <1>0, <1>1, <3>1, <3>2 DEF InOneState
  <2>2. subscriptions' \cap closed' = {} /\ \A s \in Subs : s \in fresh' <=> s \notin subscriptions' \cup closed'
    BY <1>0, <1>1 DEF InOneState
  <2> QED
    BY <1>0, <1>1, <2>1, <2>2 DEF InOneState
<1>6. ASSUME NEW t \in Subs
      PROVE  QueueSound(t)'
  <2>1. OfferedTo(t)' = OfferedTo(t)
    <3>1. CASE t \in S
      <4>1. t \in closed' /\ t \notin closed /\ until'[t] = Len(published)
        BY <1>0, <1>1, <3>1 DEF InOneState
      <4> QED
        BY <1>1, <4>1 DEF OfferedTo
    <3>2. CASE t \notin S
      <4>1. (t \in closed' <=> t \in closed) /\ until'[t] = until[t]
        BY <1>1, <3>2
      <4> QED
        BY <1>1, <4>1 DEF OfferedTo
    <3> QED
      BY <3>1, <3>2
  <2>2. Accounted(t)'
    BY <1>0, <1>1, <2>1 DEF QueueSound, Accounted
  <2> QED
    BY <1>0, <1>1, <2>2 DEF QueueSound
<1> QED
  BY <1>3, <1>4, <1>5, <1>6 DEF BusInv

\* Each step keeps the accounts and the order of every queue.
THEOREM BusInvariance == BusSpec => []BusInv
<1>1. BusInv /\ [BusNext]_busVars => BusInv'
  <2> SUFFICES ASSUME BusInv, [BusNext]_busVars
               PROVE  BusInv'
    OBVIOUS
  <2>1. ASSUME UNCHANGED <<replay, subscriptions, closed, queue, dropped, history>>
        PROVE  BusInv'
    <3>1. UNCHANGED <<replay, subscriptions, closed, queue, dropped, published, sent, fresh, since, until,
                      prefilled, received>>
      BY <2>1 DEF history
    <3>2. BusTypeOK' /\ PublishedInOrder' /\ ReplayIsRecent' /\ InOneState'
      BY <3>1 DEF BusInv, BusTypeOK, PublishedInOrder, ReplayIsRecent, InOneState
    <3>3. ASSUME NEW s \in Subs
          PROVE  QueueSound(s)'
      <4>1. OfferedTo(s)' = OfferedTo(s)
        BY <3>1 DEF OfferedTo
      <4> QED
        BY <3>1, <4>1 DEF BusInv, QueueSound, Accounted
    <3> QED
      BY <3>2, <3>3 DEF BusInv
  <2>2. ASSUME NEW s \in Subs, Get(s)
        PROVE  BusInv'
    BY <2>1, <2>2, TakeBusInv DEF Get
  <2>3. CASE UNCHANGED busVars
    BY <2>1, <2>3 DEF busVars, busState
  <2>4. ASSUME NEW s \in Subs, Timeout(s)
        PROVE  BusInv'
    BY <2>1, <2>4 DEF Timeout
  <2> QED
    BY <2>2, <2>3, <2>4, PublishBusInv, SubscribeBusInv, TakeBusInv, CloseBusInv
       DEF BusNext, Resume, CloseOne, CloseAll
<1> QED
  BY <1>1, InitBusInv, PTL DEF BusSpec

(***************************************************************************)
(* Nothing is lost uncounted, and what is lost is the oldest.              *)
(***************************************************************************)
THEOREM LosesTheOldest == BusSpec => []OldestLostAndCounted
<1>1. BusInv => OldestLostAndCounted
  <2> SUFFICES ASSUME BusInv, NEW s \in Subs
               PROVE  /\ Len(received[s]) + Len(queue[s]) + dropped[s]
                           = prefilled[s] + Cardinality(OfferedTo(s))
                      /\ \A a, b \in 1 .. Len(queue[s]) :
                           a < b => \E i, j \in 1 .. Len(published) :
                                      i < j /\ published[i] = queue[s][a] /\ published[j] = queue[s][b]
                      /\ s \in subscriptions =>
                           \A i \in Queued(s), j \in 1 .. Len(published) :
                             i < j /\ Matches(s, published[j]) /\ (since[s] < j \/ ReplaySize <= MaxSize)
                               => j \in Queued(s)
    BY DEF OldestLostAndCounted
  <2>1. QueueSound(s)
    BY DEF BusInv
  <2>2. ASSUME s \in subscriptions, NEW i \in Queued(s), NEW j \in 1 .. Len(published), i < j,
               Matches(s, published[j]), since[s] < j \/ ReplaySize <= MaxSize
        PROVE  j \in Queued(s)
    BY <2>1, <2>2 DEF QueueSound, Closed, Queued
  <2> QED
    BY <2>1, <2>2 DEF QueueSound, Accounted, Ordered
<1> QED
  BY <1>1, BusInvariance, PTL

\* The events a subscription may still receive, as the feed sees them.
DueNow == [s \in Subs |-> ToSet(queue[s])]

\* A taken event is one the feed lets the subscriber receive.
LEMMA TakeIsReceive ==
  ASSUME BusInv, NEW s \in Subs, Take(s)
  PROVE  Feed!Receive(s)
<1>1. /\ queue[s] # <<>> /\ queue' = [queue EXCEPT ![s] = Tail(@)]
      /\ received' = [received EXCEPT ![s] = Append(@, Head(queue[s]))]
      /\ UNCHANGED <<published, sent, subscriptions, fresh>>
  BY DEF Take
<1>2. BusTypeOK /\ PublishedInOrder /\ QueueSound(s)
  BY DEF BusInv
<1>3. queue \in [Subs -> Seq(Event)] /\ queue[s] \in Seq(Event) /\ published \in Seq(Event)
  BY <1>2 DEF BusTypeOK
<1>4. Distinct(published) /\ Ordered(queue[s], published) /\ From(s, queue[s], published)
  BY <1>2, NothingTwice DEF QueueSound
<1>5. ToSet(Tail(queue[s])) = ToSet(queue[s]) \ {Head(queue[s])}
  BY <1>1, <1>3, <1>4, HeadIsOldest
<1>6. Head(queue[s]) = queue[s][1] /\ 1 \in 1 .. Len(queue[s]) /\ Head(queue[s]) \in ToSet(queue[s])
  BY <1>1, <1>3, TailElements, ElementsAre
<1>7. ASSUME NEW d \in ToSet(queue[s]), d.pub = Head(queue[s]).pub
      PROVE  Head(queue[s]).n <= d.n
  <2>1. PICK i \in 1 .. Len(published) : published[i] = Head(queue[s])
    BY <1>4, <1>6 DEF From
  <2>2. Head(queue[s]) \in Event
    BY <1>3, <1>6
  <2>3. Head(queue[s]).n \in Nat /\ d.n \in Nat
    <3>1. ToSet(queue[s]) \subseteq Event
      BY <1>3, ElementsAre
    <3> QED
      BY <2>2, <3>1 DEF Event
  <2>4. CASE d = Head(queue[s])
    BY <2>3, <2>4
  <2>5. CASE d # Head(queue[s])
    <3>1. d \in ToSet(Tail(queue[s]))
      BY <1>5, <2>5
    <3>2. PICK a \in 1 .. Len(queue[s]) : d = queue[s][a]
      BY <1>3, ElementsAre
    <3>3. PICK j \in 1 .. Len(published) : published[j] = d
      BY <1>4, <3>2 DEF From
    <3>4. i < j
      BY <1>1, <1>3, <1>4, <2>1, <3>1, <3>3, HeadIsOldest
    <3>5. Head(queue[s]).n < d.n
      BY <1>2, <1>7, <2>1, <3>3, <3>4 DEF PublishedInOrder
    <3> QED
      BY <2>3, <3>5
  <2> QED
    BY <2>4, <2>5
<1>8. DueNow' = [DueNow EXCEPT ![s] = @ \ {Head(queue[s])}]
  <2>1. queue'[s] = Tail(queue[s]) /\ \A t \in Subs : t # s => queue'[t] = queue[t]
    BY <1>1, <1>3
  <2> QED
    BY <1>5, <2>1 DEF DueNow
<1>9. DueNow[s] = ToSet(queue[s])
  BY DEF DueNow
<1> QED
  BY <1>1, <1>6, <1>7, <1>8, <1>9 DEF Feed!Receive, DueNow

\* What a prefill holds are recent events that the subscription asks for.
LEMMA SubscribeIsSubscribe ==
  ASSUME BusInv, NEW s \in Subs, NEW fill \in BOOLEAN, Subscribe(s, fill)
  PROVE  Feed!Subscribe(s)
<1>1. BusTypeOK /\ PublishedInOrder /\ ReplayIsRecent
  BY DEF BusInv
<1> DEFINE first == IF fill THEN Prefill(s) ELSE <<>>
<1>2. /\ s \in fresh /\ fresh' = fresh \ {s} /\ subscriptions' = subscriptions \cup {s}
      /\ queue' = [queue EXCEPT ![s] = first] /\ UNCHANGED <<published, sent, received>>
  BY DEF Subscribe
<1>3. queue \in [Subs -> Seq(Event)]
  BY <1>1 DEF BusTypeOK
<1>4. DueNow'[s] = ToSet(first) /\ \A t \in Subs \ {s} : DueNow'[t] = DueNow[t]
  <2> HIDE DEF first
  <2>1. queue'[s] = first /\ \A t \in Subs : t # s => queue'[t] = queue[t]
    BY <1>2, <1>3
  <2> QED
    BY <2>1 DEF DueNow
<1>5. ToSet(first) \subseteq {e \in Feed!Recent : Feed!Matches(s, e)}
  <2>1. CASE fill
    <3>1. /\ Prefill(s) \in Seq(Event) /\ From(s, Prefill(s), published)
          /\ \A a \in 1 .. Len(Prefill(s)) : \E i \in 1 .. Len(replay) : Prefill(s)[a] = replay[i]
      BY <1>1, PrefillIs
    <3> SUFFICES ASSUME NEW e \in ToSet(Prefill(s))
                 PROVE  e \in Feed!Recent /\ Feed!Matches(s, e)
      BY <2>1
    <3>2. PICK a \in 1 .. Len(Prefill(s)) : e = Prefill(s)[a]
      BY <3>1, ElementsAre
    <3>3. Matches(s, e)
      BY <3>1, <3>2 DEF From
    <3>4. PICK i \in 1 .. Len(replay) : e = replay[i]
      BY <3>1, <3>2
    <3> DEFINE j == (Len(published) - Len(replay)) + i
    <3>5. Len(replay) \in Nat /\ Len(published) \in Nat /\ ReplaySize \in Nat
      BY <1>1, BusAssumption DEF BusTypeOK
    <3>6. Len(replay) = (IF Len(published) > ReplaySize THEN ReplaySize ELSE Len(published))
      BY <1>1 DEF ReplayIsRecent
    <3>7. j \in 1 .. Len(published) /\ j > Len(published) - ReplaySize
      <4>1. i \in Nat /\ 1 <= i /\ i <= Len(replay)
        BY <3>5
      <4>2. CASE Len(published) > ReplaySize
        <5>1. Len(replay) = ReplaySize
          BY <3>6, <4>2
        <5>2. j \in Int /\ j > Len(published) - ReplaySize /\ j <= Len(published) /\ j >= 1
          BY <3>5, <4>1, <4>2, <5>1
        <5> HIDE DEF j
        <5> QED
          BY <3>5, <5>2
      <4>3. CASE ~(Len(published) > ReplaySize)
        <5>1. Len(replay) = Len(published)
          BY <3>6, <4>3
        <5>2. j = i
          BY <3>5, <4>1, <5>1
        <5>3. i > Len(published) - ReplaySize
          BY <3>5, <4>1, <4>3
        <5> HIDE DEF j
        <5> QED
          BY <3>5, <4>1, <5>1, <5>2, <5>3
      <4> QED
        BY <4>2, <4>3
    <3>8. e = published[j]
      BY <1>1, <3>4 DEF ReplayIsRecent
    <3> HIDE DEF j
    <3> QED
      BY <3>3, <3>7, <3>8 DEF Feed!Recent, Feed!Matches, Matches
  <2>2. CASE ~fill
    BY <2>2 DEF ToSet
  <2> QED
    BY <2>1, <2>2
<1> HIDE DEF first
<1> QED
  BY <1>2, <1>4, <1>5 DEF Feed!Subscribe, DueNow

\* A publication adds to no queue but those it is for, and to those the event.
LEMMA PublishIsPublish ==
  ASSUME BusInv, NEW p \in Publishers, Publish(p)
  PROVE  Feed!Publish(p)
<1> DEFINE e == NextOf(p)
<1>1. /\ published' = Append(published, e) /\ sent' = [sent EXCEPT ![p] = @ + 1]
      /\ queue' = [s \in Subs |-> IF s \in Targets(e) THEN Offered(s, e) ELSE queue[s]]
      /\ UNCHANGED <<subscriptions, fresh, received>>
  BY DEF Publish
<1>2. BusTypeOK
  BY DEF BusInv
<1>3. e \in Event
  BY <1>2 DEF NextOf, Event, BusTypeOK
<1>4. Feed!NextOf(p) = e
  BY DEF Feed!NextOf, NextOf
<1> HIDE DEF e
<1>5. ASSUME NEW s \in Subs
      PROVE  DueNow'[s] \subseteq DueNow[s] \cup (IF s \in subscriptions /\ Matches(s, e) THEN {e} ELSE {})
  <2>0. DueNow'[s] = ToSet(queue'[s]) /\ DueNow[s] = ToSet(queue[s]) /\ queue[s] \in Seq(Event)
    BY <1>2 DEF DueNow, BusTypeOK
  <2>1. CASE s \in Targets(e)
    <3> DEFINE room == IF Len(queue[s]) = MaxSize THEN Tail(queue[s]) ELSE queue[s]
    <3>1. queue'[s] = Append(room, e)
      BY <1>1, <2>1 DEF Offered
    <3>2. room \in Seq(Event) /\ ToSet(room) \subseteq ToSet(queue[s])
      <4>1. CASE Len(queue[s]) = MaxSize
        <5>1. queue[s] # <<>>
          BY <4>1, BusAssumption
        <5>2. /\ Tail(queue[s]) \in Seq(Event)
              /\ \A a \in 1 .. Len(Tail(queue[s])) :
                   a + 1 \in 1 .. Len(queue[s]) /\ Tail(queue[s])[a] = queue[s][a + 1]
          BY <2>0, <5>1, TailElements
        <5>3. ToSet(Tail(queue[s])) \subseteq ToSet(queue[s])
          <6> SUFFICES ASSUME NEW x \in ToSet(Tail(queue[s]))
                       PROVE  x \in ToSet(queue[s])
            OBVIOUS
          <6>1. PICK a \in 1 .. Len(Tail(queue[s])) : x = Tail(queue[s])[a]
            BY <5>2, ElementsAre
          <6> QED
            BY <2>0, <5>2, <6>1, ElementsAre
        <5> QED
          BY <4>1, <5>2, <5>3
      <4>2. CASE Len(queue[s]) # MaxSize
        BY <2>0, <4>2
      <4> QED
        BY <4>1, <4>2
    <3> HIDE DEF room
    <3>3. ToSet(queue'[s]) = ToSet(room) \cup {e}
      BY <1>3, <3>1, <3>2, AppendElements
    <3>4. s \in subscriptions /\ Matches(s, e)
      BY <2>1 DEF Targets
    <3> QED
      BY <2>0, <3>2, <3>3, <3>4
  <2>2. CASE s \notin Targets(e)
    BY <1>1, <2>0, <2>2
  <2> QED
    BY <2>1, <2>2
<1>6. \A s \in Subs : Feed!Matches(s, e) <=> Matches(s, e)
  BY DEF Feed!Matches, Matches
<1> QED
  BY <1>1, <1>4, <1>5, <1>6 DEF Feed!Publish, DueNow

(***************************************************************************)
(* The bus implements the feed: each of its steps is one of the feed's, or *)
(* changes nothing the feed speaks of.                                     *)
(***************************************************************************)
THEOREM BusImplementsFeed == BusSpec => ImplementsFeed
<1>1. BusInit => Feed!FeedInit
  <2> SUFFICES ASSUME BusInit
               PROVE  Feed!FeedInit
    OBVIOUS
  <2>1. [s \in Subs |-> ToSet(queue[s])] = [s \in Subs |-> {}]
    <3>1. ToSet(<<>>) = {}
      BY DEF ToSet
    <3>2. \A s \in Subs : queue[s] = <<>>
      BY DEF BusInit
    <3> QED
      BY <3>1, <3>2
  <2> QED
    BY <2>1 DEF BusInit, Feed!FeedInit
<1>2. BusInv /\ [BusNext]_busVars => [Feed!FeedNext]_(Feed!feedVars)
  <2> SUFFICES ASSUME BusInv, [BusNext]_busVars
               PROVE  Feed!FeedNext \/ UNCHANGED Feed!feedVars
    OBVIOUS
  <2>1. ASSUME NEW p \in Publishers, Publish(p)
        PROVE  Feed!FeedNext
    BY <2>1, PublishIsPublish DEF Feed!FeedNext
  <2>2. ASSUME NEW s \in Subs, NEW fill \in BOOLEAN, Subscribe(s, fill)
        PROVE  Feed!FeedNext
    BY <2>2, SubscribeIsSubscribe DEF Feed!FeedNext
  <2>3. ASSUME NEW s \in Subs, Take(s)
        PROVE  Feed!FeedNext
    BY <2>3, TakeIsReceive DEF Feed!FeedNext
  <2>4. ASSUME UNCHANGED <<queue, published, sent, fresh, received>>, subscriptions' \subseteq subscriptions
        PROVE  Feed!FeedNext
    BY <2>4 DEF Feed!FeedNext, Feed!Close
  <2>5. ASSUME UNCHANGED <<queue, published, sent, fresh, received, subscriptions>>
        PROVE  UNCHANGED Feed!feedVars
    BY <2>5 DEF Feed!feedVars
  <2>6. ASSUME NEW s \in Subs, Get(s) \/ Resume(s) \/ Timeout(s)
        PROVE  Feed!FeedNext \/ UNCHANGED Feed!feedVars
    BY <2>3, <2>5, <2>6 DEF Get, Resume, Timeout, history
  <2>7. ASSUME CloseOne \/ CloseAll
        PROVE  Feed!FeedNext
    BY <2>4, <2>7 DEF CloseOne, CloseAll, CloseThese
  <2>8. CASE UNCHANGED busVars
    BY <2>5, <2>8 DEF busVars, busState, history
  <2> QED
    BY <2>1, <2>2, <2>6, <2>7, <2>8 DEF BusNext
<1> QED
  BY <1>1, <1>2, BusInvariance, PTL DEF BusSpec, ImplementsFeed, Feed!FeedSpec

(***************************************************************************)
(* What a feed keeps: what a subscriber may still receive comes after all  *)
(* it has received of the same publisher, and nothing is ahead of what its *)
(* publisher has sent.                                                     *)
(***************************************************************************)
FeedTypeOK ==
  /\ sent \in [Publishers -> Nat] /\ published \in Seq(Event)
  /\ received \in [Subs -> Seq(Event)] /\ \A s \in Subs : DueNow[s] \subseteq Event

NothingAhead ==
  /\ \A i \in 1 .. Len(published) : published[i].n <= sent[published[i].pub]
  /\ \A s \in Subs :
       /\ \A d \in DueNow[s] : d.n <= sent[d.pub]
       /\ \A i \in 1 .. Len(received[s]) : received[s][i].n <= sent[received[s][i].pub]

DueIsLater ==
  \A s \in Subs : \A i \in 1 .. Len(received[s]), d \in DueNow[s] :
    received[s][i].pub = d.pub => received[s][i].n < d.n

FreshIsEmpty ==
  /\ subscriptions \cap fresh = {}
  /\ \A s \in fresh : s \in Subs /\ Len(received[s]) = 0 /\ DueNow[s] = {}

FeedInv ==
  FeedTypeOK /\ NothingAhead /\ DueIsLater /\ FreshIsEmpty /\ Feed!ReceivedInOrder

\* A publisher and the number of an event.
LEMMA EventIs ==
  ASSUME NEW e \in Event
  PROVE  e.pub \in Publishers /\ e.n \in Nat
BY DEF Event

\* The invariant of the feed, by its own steps alone.
LEMMA FeedInvariance == Feed!FeedSpec => []FeedInv
<1>1. Feed!FeedInit => FeedInv
  <2> SUFFICES ASSUME Feed!FeedInit
               PROVE  FeedInv
    OBVIOUS
  <2>1. /\ published = <<>> /\ sent = [p \in Publishers |-> 0] /\ subscriptions = {} /\ fresh = Subs
        /\ DueNow = [s \in Subs |-> {}] /\ received = [s \in Subs |-> <<>>]
    BY DEF Feed!FeedInit, DueNow
  <2>2. /\ Len(published) = 0 /\ 1 .. 0 = {} /\ <<>> \in Seq(Event)
        /\ \A s \in Subs : received[s] = <<>> /\ Len(received[s]) = 0 /\ DueNow[s] = {}
    BY <2>1
  <2>3. received \in [Subs -> Seq(Event)] /\ sent \in [Publishers -> Nat] /\ published \in Seq(Event)
    BY <2>1, <2>2
  <2>4. FeedTypeOK
    BY <2>2, <2>3 DEF FeedTypeOK
  <2>5. NothingAhead /\ DueIsLater
    BY <2>2 DEF NothingAhead, DueIsLater
  <2>6. FreshIsEmpty
    BY <2>1, <2>2 DEF FreshIsEmpty
  <2>7. Feed!ReceivedInOrder
    BY <2>2 DEF Feed!ReceivedInOrder
  <2> QED
    BY <2>4, <2>5, <2>6, <2>7 DEF FeedInv
<1>2. FeedInv /\ [Feed!FeedNext]_(Feed!feedVars) => FeedInv'
  <2> SUFFICES ASSUME FeedInv, Feed!FeedNext \/ UNCHANGED Feed!feedVars
               PROVE  FeedInv'
    OBVIOUS
  <2>0. FeedTypeOK /\ NothingAhead /\ DueIsLater /\ FreshIsEmpty /\ Feed!ReceivedInOrder
    BY DEF FeedInv
  <2>t. /\ sent \in [Publishers -> Nat] /\ published \in Seq(Event) /\ received \in [Subs -> Seq(Event)]
        /\ \A s \in Subs : DueNow[s] \subseteq Event /\ received[s] \in Seq(Event) /\ Len(received[s]) \in Nat
        /\ \A s \in Subs : \A i \in 1 .. Len(received[s]) : received[s][i] \in Event
    <3>1. /\ sent \in [Publishers -> Nat] /\ published \in Seq(Event)
          /\ received \in [Subs -> Seq(Event)] /\ \A s \in Subs : DueNow[s] \subseteq Event
      BY <2>0 DEF FeedTypeOK
    <3>2. \A s \in Subs : received[s] \in Seq(Event)
      BY <3>1
    <3>3. ASSUME NEW s \in Subs
          PROVE  Len(received[s]) \in Nat /\ \A i \in 1 .. Len(received[s]) : received[s][i] \in Event
      BY <3>2, ElementsAre
    <3> QED
      BY <3>1, <3>2, <3>3
  <2>1. ASSUME NEW p \in Publishers, Feed!Publish(p)
        PROVE  FeedInv'
    <3> DEFINE e == NextOf(p)
    <3>1. /\ published' = Append(published, e) /\ sent' = [sent EXCEPT ![p] = @ + 1]
          /\ \A s \in Subs : DueNow'[s] \subseteq DueNow[s] \cup (IF s \in subscriptions THEN {e} ELSE {})
          /\ UNCHANGED <<subscriptions, fresh, received>>
      <4>1. Feed!NextOf(p) = e
        BY DEF Feed!NextOf, NextOf
      <4> HIDE DEF e
      <4> QED
        BY <2>1, <4>1 DEF Feed!Publish, DueNow
    <3>2. e \in Event /\ e.pub = p /\ e.n = sent[p] + 1 /\ sent[p] \in Nat
      BY <2>t DEF NextOf, Event
    <3> HIDE DEF e
    <3>3. /\ sent' \in [Publishers -> Nat] /\ sent'[p] = sent[p] + 1
          /\ \A q \in Publishers : q # p => sent'[q] = sent[q]
      BY <2>t, <3>1, <3>2
    <3>4. \A x \in Event : x.n <= sent[x.pub] => x.n <= sent'[x.pub]
      <4> SUFFICES ASSUME NEW x \in Event, x.n <= sent[x.pub]
                   PROVE  x.n <= sent'[x.pub]
        OBVIOUS
      <4>1. x.pub \in Publishers /\ x.n \in Nat
        BY EventIs
      <4>2. CASE x.pub = p
        BY <3>2, <3>3, <4>1, <4>2
      <4>3. CASE x.pub # p
        BY <3>3, <4>1, <4>3
      <4> QED
        BY <4>2, <4>3
    <3>5. e.n <= sent'[e.pub]
      BY <3>2, <3>3
    <3>6. FeedTypeOK'
      <4>1. published' \in Seq(Event)
        BY <2>t, <3>1, <3>2, AppendElements
      <4>2. \A s \in Subs : DueNow'[s] \subseteq Event
        BY <2>t, <3>1, <3>2
      <4> QED
        BY <2>t, <3>1, <3>3, <4>1, <4>2 DEF FeedTypeOK
    <3>7. NothingAhead'
      <4>1. ASSUME NEW i \in 1 .. Len(published')
            PROVE  published'[i].n <= sent'[published'[i].pub]
        <5>1. i \in 1 .. Len(published) \/ published'[i] = e
          BY <2>t, <3>1, <3>2, AppendElements
        <5>2. CASE i \in 1 .. Len(published)
          <6>1. published'[i] = published[i] /\ published[i] \in Event
            BY <2>t, <3>1, <3>2, <5>2, AppendElements, ElementsAre
          <6> QED
            BY <2>0, <3>4, <5>2, <6>1 DEF NothingAhead
        <5> QED
          BY <3>5, <5>1, <5>2
      <4>2. ASSUME NEW s \in Subs, NEW d \in DueNow'[s]
            PROVE  d.n <= sent'[d.pub]
        <5>1. d = e \/ d \in DueNow[s]
          BY <3>1
        <5> QED
          BY <2>0, <2>t, <3>4, <3>5, <5>1 DEF NothingAhead
      <4>3. ASSUME NEW s \in Subs, NEW i \in 1 .. Len(received[s])
            PROVE  received[s][i].n <= sent'[received[s][i].pub]
        BY <2>0, <2>t, <3>4 DEF NothingAhead
      <4> QED
        BY <3>1, <4>1, <4>2, <4>3 DEF NothingAhead
    <3>8. DueIsLater'
      <4> SUFFICES ASSUME NEW s \in Subs, NEW i \in 1 .. Len(received[s]), NEW d \in DueNow'[s],
                          received[s][i].pub = d.pub
                   PROVE  received[s][i].n < d.n
        BY <3>1 DEF DueIsLater
      <4>1. CASE d \in DueNow[s]
        BY <2>0, <4>1 DEF DueIsLater
      <4>2. CASE d = e
        <5>1. received[s][i].n <= sent[p] /\ received[s][i].n \in Nat
          BY <2>0, <2>t, <3>2, <4>2, EventIs DEF NothingAhead
        <5> QED
          BY <3>2, <4>2, <5>1
      <4> QED
        BY <3>1, <4>1, <4>2
    <3>9. FreshIsEmpty'
      <4>1. \A s \in fresh : s \in Subs /\ s \notin subscriptions /\ DueNow[s] = {}
        BY <2>0 DEF FreshIsEmpty
      <4>2. \A s \in fresh : DueNow'[s] = {}
        BY <3>1, <4>1
      <4> QED
        BY <2>0, <3>1, <4>2 DEF FreshIsEmpty
    <3>10. Feed!ReceivedInOrder'
      BY <2>0, <3>1 DEF Feed!ReceivedInOrder
    <3> QED
      BY <3>6, <3>7, <3>8, <3>9, <3>10 DEF FeedInv
  <2>2. ASSUME NEW s \in Subs, Feed!Subscribe(s)
        PROVE  FeedInv'
    <3>1. /\ s \in fresh /\ fresh' = fresh \ {s} /\ subscriptions' = subscriptions \cup {s}
          /\ DueNow'[s] \subseteq Feed!Recent /\ \A t \in Subs \ {s} : DueNow'[t] = DueNow[t]
          /\ UNCHANGED <<published, sent, received>>
      BY <2>2 DEF Feed!Subscribe, DueNow
    <3>2. \A d \in Feed!Recent : \E i \in 1 .. Len(published) : d = published[i]
      BY DEF Feed!Recent
    <3>3. \A d \in Feed!Recent : d \in Event /\ d.n <= sent[d.pub]
      BY <2>0, <2>t, <3>2, ElementsAre DEF NothingAhead
    <3>4. Len(received[s]) = 0 /\ 1 .. 0 = {}
      BY <2>0, <3>1 DEF FreshIsEmpty
    <3>5. FeedTypeOK'
      <4>1. \A t \in Subs : DueNow'[t] \subseteq Event
        BY <2>t, <3>1, <3>3
      <4> QED
        BY <2>t, <3>1, <4>1 DEF FeedTypeOK
    <3>6. NothingAhead'
      <4>1. \A t \in Subs : \A d \in DueNow'[t] : d.n <= sent[d.pub]
        BY <2>0, <3>1, <3>3 DEF NothingAhead
      <4> QED
        BY <2>0, <3>1, <4>1 DEF NothingAhead
    <3>7. DueIsLater'
      BY <2>0, <3>1, <3>4 DEF DueIsLater
    <3>8. FreshIsEmpty'
      BY <2>0, <3>1 DEF FreshIsEmpty
    <3>9. Feed!ReceivedInOrder'
      BY <2>0, <3>1 DEF Feed!ReceivedInOrder
    <3> QED
      BY <3>5, <3>6, <3>7, <3>8, <3>9 DEF FeedInv
  <2>3. ASSUME NEW s \in Subs, Feed!Receive(s)
        PROVE  FeedInv'
    <3>1. PICK e \in DueNow[s] :
            /\ \A d \in DueNow[s] : d.pub = e.pub => e.n <= d.n
            /\ received' = [received EXCEPT ![s] = Append(@, e)]
            /\ DueNow' = [DueNow EXCEPT ![s] = @ \ {e}]
      BY <2>3 DEF Feed!Receive, DueNow
    <3>2. UNCHANGED <<published, sent, subscriptions, fresh>>
      BY <2>3 DEF Feed!Receive
    <3>3. e \in Event /\ e.pub \in Publishers /\ e.n \in Nat
      BY <2>t, EventIs
    <3>4. /\ received'[s] = Append(received[s], e) /\ DueNow'[s] = DueNow[s] \ {e}
          /\ \A t \in Subs : t # s => received'[t] = received[t] /\ DueNow'[t] = DueNow[t]
      BY <2>t, <3>1 DEF DueNow
    <3>5. /\ received'[s] \in Seq(Event) /\ Len(received'[s]) = Len(received[s]) + 1
          /\ \A i \in 1 .. Len(received[s]) : received'[s][i] = received[s][i]
          /\ received'[s][Len(received[s]) + 1] = e
          /\ \A i \in 1 .. Len(received'[s]) : i \in 1 .. Len(received[s]) \/ i = Len(received[s]) + 1
      BY <2>t, <3>3, <3>4, AppendElements
    <3>6. FeedTypeOK'
      <4>1. received' \in [Subs -> Seq(Event)]
        BY <2>t, <3>1, <3>4, <3>5
      <4>2. \A t \in Subs : DueNow'[t] \subseteq Event
        BY <2>t, <3>4
      <4> QED
        BY <2>t, <3>2, <4>1, <4>2 DEF FeedTypeOK
    <3>7. NothingAhead'
      <4>1. e.n <= sent[e.pub]
        BY <2>0 DEF NothingAhead
      <4>2. \A t \in Subs : \A d \in DueNow'[t] : d \in DueNow[t]
        BY <3>4
      <4>3. ASSUME NEW t \in Subs, NEW i \in 1 .. Len(received'[t])
            PROVE  received'[t][i].n <= sent[received'[t][i].pub]
        <5>1. CASE t = s
          BY <2>0, <3>5, <4>1, <5>1 DEF NothingAhead
        <5>2. CASE t # s
          BY <2>0, <3>4, <5>2 DEF NothingAhead
        <5> QED
          BY <5>1, <5>2
      <4> QED
        BY <2>0, <3>2, <4>2, <4>3 DEF NothingAhead
    <3>8. DueIsLater'
      <4> SUFFICES ASSUME NEW t \in Subs, NEW i \in 1 .. Len(received'[t]), NEW d \in DueNow'[t],
                          received'[t][i].pub = d.pub
                   PROVE  received'[t][i].n < d.n
        BY DEF DueIsLater
      <4>1. d \in DueNow[t]
        BY <3>4
      <4>2. CASE t # s
        BY <2>0, <3>4, <4>1, <4>2 DEF DueIsLater
      <4>3. CASE t = s /\ i \in 1 .. Len(received[s])
        BY <2>0, <3>5, <4>1, <4>3 DEF DueIsLater
      <4>4. CASE t = s /\ i = Len(received[s]) + 1
        <5>1. received'[t][i] = e /\ d # e /\ d \in Event
          BY <2>t, <3>4, <3>5, <4>1, <4>4
        <5>2. e.n <= d.n
          BY <3>1, <4>1, <4>4, <5>1
        <5>3. e.n # d.n
          BY <3>3, <5>1 DEF Event
        <5>4. d.n \in Nat
          BY <5>1, EventIs
        <5> QED
          BY <3>3, <5>1, <5>2, <5>3, <5>4
      <4> QED
        BY <3>5, <4>2, <4>3, <4>4
    <3>9. FreshIsEmpty'
      <4>1. s \notin fresh
        BY <2>0 DEF FreshIsEmpty
      <4> QED
        BY <2>0, <3>2, <3>4, <4>1 DEF FreshIsEmpty
    <3>10. Feed!ReceivedInOrder'
      <4> SUFFICES ASSUME NEW t \in Subs, NEW i \in 1 .. Len(received'[t]), NEW j \in 1 .. Len(received'[t]),
                          i < j, received'[t][i].pub = received'[t][j].pub
                   PROVE  received'[t][i].n < received'[t][j].n
        BY DEF Feed!ReceivedInOrder
      <4>1. CASE t # s
        BY <2>0, <3>4, <4>1 DEF Feed!ReceivedInOrder
      <4>2. CASE t = s /\ j \in 1 .. Len(received[s])
        <5>1. i \in 1 .. Len(received[s])
          BY <2>t, <4>2
        <5>2. received[s][i].n < received[s][j].n
          BY <2>0, <3>5, <4>2, <5>1 DEF Feed!ReceivedInOrder
        <5> QED
          BY <3>5, <4>2, <5>1, <5>2
      <4>3. CASE t = s /\ j = Len(received[s]) + 1
        <5>1. i \in 1 .. Len(received[s])
          BY <2>t, <3>5, <4>3
        <5>2. received'[s][i] = received[s][i] /\ received'[s][j] = e
          BY <3>5, <4>3, <5>1
        <5> QED
          BY <2>0, <4>3, <5>1, <5>2 DEF DueIsLater
      <4> QED
        BY <3>5, <4>1, <4>2, <4>3
    <3> QED
      BY <3>6, <3>7, <3>8, <3>9, <3>10 DEF FeedInv
  <2>4. ASSUME Feed!Close
        PROVE  FeedInv'
    <3>1. /\ subscriptions' \subseteq subscriptions /\ \A s \in Subs : DueNow'[s] \subseteq DueNow[s]
          /\ UNCHANGED <<published, sent, fresh, received>>
      BY <2>4 DEF Feed!Close, DueNow
    <3>2. FeedTypeOK'
      BY <2>0, <3>1 DEF FeedTypeOK
    <3>3. NothingAhead' /\ DueIsLater'
      BY <2>0, <3>1 DEF NothingAhead, DueIsLater
    <3>4. FreshIsEmpty'
      BY <2>0, <3>1 DEF FreshIsEmpty
    <3>5. Feed!ReceivedInOrder'
      BY <2>0, <3>1 DEF Feed!ReceivedInOrder
    <3> QED
      BY <3>2, <3>3, <3>4, <3>5 DEF FeedInv
  <2>5. CASE UNCHANGED Feed!feedVars
    <3>1. UNCHANGED <<published, sent, subscriptions, fresh, DueNow, received>>
      BY <2>5 DEF Feed!feedVars, DueNow
    <3> QED
      BY <2>0, <3>1 DEF FeedInv, FeedTypeOK, NothingAhead, DueIsLater, FreshIsEmpty, Feed!ReceivedInOrder
  <2> QED
    BY <2>1, <2>2, <2>3, <2>4, <2>5 DEF Feed!FeedNext
<1> QED
  BY <1>1, <1>2, PTL DEF Feed!FeedSpec

(***************************************************************************)
(* What the bus owes to the feed: no subscriber receives an event twice,   *)
(* nor one of a publisher after a later one of it.                         *)
(***************************************************************************)
THEOREM DeliversInOrder == BusSpec => []Feed!ReceivedInOrder
<1>1. FeedInv => Feed!ReceivedInOrder
  BY DEF FeedInv
<1> QED
  BY <1>1, BusImplementsFeed, FeedInvariance, PTL DEF ImplementsFeed

(***************************************************************************)
(* The event stream, read                                                  *)
(***************************************************************************)

Tokens == {"event", "data", "rest", "end"} \X Nat

\* The text that is not read yet: the buffer, and what the wire brings.
Unread == Len(buffer) + Len(wire)

Ahead(p) == IF p <= Len(buffer) THEN buffer[p] ELSE wire[p - Len(buffer)]

(***************************************************************************)
(* What has been yielded are the first events, and what is not read yet is *)
(* the text of all the others, one after the other.                        *)
(***************************************************************************)
ReaderTypeOK ==
  /\ written \in Nat
  /\ wire \in Seq(Tokens) /\ buffer \in Seq(Tokens) /\ yielded \in Seq(Nat)
  /\ Len(yielded) <= written

AheadInOrder ==
  /\ Unread = 6 * (written - Len(yielded))
  /\ \A m \in 0 .. written - Len(yielded) - 1, j \in 1 .. 6 :
       Ahead(6 * m + j) = Text(Len(yielded) + m + 1)[j]

ReaderInv ==
  /\ ReaderTypeOK
  /\ yielded = [i \in 1 .. Len(yielded) |-> i]
  /\ AheadInOrder

\* The text of an event, half line by half line.
LEMMA TextIs ==
  ASSUME NEW n \in Nat
  PROVE  /\ Text(n) \in Seq(Tokens) /\ Len(Text(n)) = 6
         /\ Text(n)[1] = <<"event", n>> /\ Text(n)[2] = LineEnd /\ Text(n)[3] = <<"data", n>>
         /\ Text(n)[4] = <<"rest", n>> /\ Text(n)[5] = LineEnd /\ Text(n)[6] = LineEnd
BY DEF Text, Tokens, LineEnd

\* Six half lines to an event.
LEMMA SixMore ==
  ASSUME NEW m \in Int, NEW n \in Int
  PROVE  /\ 6 * ((m + 1) - n) = 6 * (m - n) + 6
         /\ 6 * (m - n) = 6 * (m - (n + 1)) + 6
OBVIOUS

\* A place in texts of six is one of the six in one of the texts.
LEMMA PlaceIs ==
  ASSUME NEW n \in Nat, NEW p \in 1 .. 6 * n
  PROVE  \E m \in 0 .. n - 1, j \in 1 .. 6 : p = 6 * m + j
<1>1. p - 1 \in Nat /\ p \in Nat
  OBVIOUS
<1>2. PICK q \in Nat : q = p - 1
  BY <1>1
<1>3. PICK m \in Int : m = q \div 6
  OBVIOUS
<1>4. PICK j \in 0 .. 5 : j = q % 6
  OBVIOUS
<1>5. q = 6 * (q \div 6) + (q % 6)
  OBVIOUS
<1>6. p = 6 * m + (j + 1) /\ j + 1 \in 1 .. 6
  BY <1>1, <1>2, <1>3, <1>4, <1>5
<1>7. m \in 0 .. n - 1
  BY <1>6
<1> QED
  BY <1>6, <1>7

\* Only the end of an event has two line ends in a row.
LEMMA SeparatorsAre ==
  ASSUME ReaderTypeOK, AheadInOrder, NEW p \in Separators(buffer)
  PROVE  \E m \in 0 .. written - Len(yielded) - 1 : p = 6 * m + 5
<1> DEFINE k == Len(yielded)
           n == written - k
<1>1. k \in Nat /\ n \in Nat /\ Len(buffer) \in Nat /\ Len(wire) \in Nat
  BY DEF ReaderTypeOK
<1>2. /\ p \in 1 .. Len(buffer) /\ p + 1 \in 1 .. Len(buffer)
      /\ buffer[p] = LineEnd /\ buffer[p + 1] = LineEnd
  BY <1>1 DEF Separators
<1>3. Len(buffer) <= 6 * n
  BY <1>1 DEF AheadInOrder, Unread
<1>4. Ahead(p) = LineEnd /\ Ahead(p + 1) = LineEnd
  BY <1>2 DEF Ahead
<1>5. \A m \in 0 .. n - 1, j \in 1 .. 6 : Ahead(6 * m + j) = Text(k + m + 1)[j]
  BY DEF AheadInOrder
<1> HIDE DEF k, n
<1>6. PICK m \in 0 .. n - 1, j \in 1 .. 6 : p = 6 * m + j
  <2>1. p \in 1 .. 6 * n
    BY <1>1, <1>2, <1>3
  <2> QED
    BY <1>1, <2>1, PlaceIs
<1>7. k + m + 1 \in Nat /\ k + (m + 1) + 1 \in Nat /\ p \in Nat
  BY <1>1, <1>2
<1>8. Text(k + m + 1)[j] = LineEnd
  BY <1>4, <1>5, <1>6
<1>9. j \in {2, 5, 6}
  BY <1>7, <1>8, TextIs DEF LineEnd
<1>10. j # 2
  <2> SUFFICES ASSUME j = 2
               PROVE  FALSE
    OBVIOUS
  <2>1. p + 1 = 6 * m + 3
    BY <1>6
  <2>2. Text(k + m + 1)[3] = LineEnd
    BY <1>4, <1>5, <2>1
  <2> QED
    BY <1>7, <2>2, TextIs DEF LineEnd
<1>11. j # 6
  <2> SUFFICES ASSUME j = 6
               PROVE  FALSE
    OBVIOUS
  <2>1. p + 1 = 6 * (m + 1) + 1 /\ m + 1 \in 0 .. n - 1
    BY <1>1, <1>2, <1>3, <1>6
  <2>2. Text(k + (m + 1) + 1)[1] = LineEnd
    BY <1>4, <1>5, <2>1
  <2> QED
    BY <1>7, <2>2, TextIs DEF LineEnd
<1> QED
  BY <1>6, <1>9, <1>10, <1>11 DEF k, n

\* With a whole event in the buffer, its end is where the buffer is cut.
LEMMA CutIs ==
  ASSUME ReaderTypeOK, AheadInOrder
  PROVE  /\ Separators(buffer) # {} =>
              /\ Len(buffer) >= 6 /\ Cut(buffer) = 5 /\ Len(yielded) < written
         /\ Len(buffer) >= 6 => 5 \in Separators(buffer)
<1>1. /\ Len(buffer) \in Nat /\ Len(wire) \in Nat /\ Len(yielded) \in Nat /\ written \in Nat
      /\ Len(buffer) + Len(wire) = 6 * (written - Len(yielded))
  BY DEF ReaderTypeOK, AheadInOrder, Unread
<1>2. ASSUME Len(buffer) >= 6
      PROVE  5 \in Separators(buffer) /\ Len(yielded) < written
  <2>1. Len(yielded) < written
    BY <1>1, <1>2
  <2>2. 0 \in 0 .. written - Len(yielded) - 1
    BY <1>1, <2>1
  <2>3. \A j \in 1 .. 6 : Ahead(6 * 0 + j) = Text(Len(yielded) + 0 + 1)[j]
    BY <2>2 DEF AheadInOrder
  <2>4. Len(yielded) + 0 + 1 \in Nat
    BY <1>1
  <2>5. Ahead(5) = LineEnd /\ Ahead(6) = LineEnd
    BY <2>3, <2>4, TextIs
  <2>6. buffer[5] = LineEnd /\ buffer[6] = LineEnd
    BY <1>1, <1>2, <2>5 DEF Ahead
  <2> QED
    BY <1>1, <1>2, <2>1, <2>6 DEF Separators
<1>3. ASSUME NEW p \in Separators(buffer)
      PROVE  p >= 5 /\ Len(buffer) >= 6
  <2>1. PICK m \in 0 .. written - Len(yielded) - 1 : p = 6 * m + 5
    BY SeparatorsAre
  <2>2. p + 1 <= Len(buffer)
    BY <1>1 DEF Separators
  <2> QED
    BY <1>1, <2>1, <2>2
<1>4. ASSUME Separators(buffer) # {}
      PROVE  Cut(buffer) = 5
  <2>1. 5 \in Separators(buffer)
    BY <1>2, <1>3, <1>4
  <2>2. \A i \in Separators(buffer) : i \in Nat /\ 5 <= i
    BY <1>1, <1>3 DEF Separators
  <2> QED
    BY <2>1, <2>2 DEF Cut
<1> QED
  BY <1>2, <1>3, <1>4

\* The sequence of a set of one element.
LEMMA SeqOfOne ==
  ASSUME NEW x
  PROVE  SetToSeq({x}) = <<x>>
<1>1. Cardinality({x}) = 1
  BY FS_Singleton
<1>2. <<x>> \in [1 .. 1 -> {x}] /\ \A f \in [1 .. 1 -> {x}] : f = <<x>>
  OBVIOUS
<1>3. IsInjective(<<x>>)
  BY DEF IsInjective
<1> QED
  BY <1>1, <1>2, <1>3 DEF SetToSeq

\* The text of an event up to its end is parsed into the event.
LEMMA ParsesTheText ==
  ASSUME NEW n \in Nat, NEW b \in Seq(Tokens), Len(b) = 4, \A j \in 1 .. 4 : b[j] = Text(n)[j]
  PROVE  ParseSse(b) = {n}
<1>1. /\ b[1] = <<"event", n>> /\ b[2] = LineEnd /\ b[3] = <<"data", n>> /\ b[4] = <<"rest", n>>
      /\ DOMAIN b = 1 .. 4
  BY TextIs
<1> DEFINE starts == {i \in DOMAIN b : b[i][1] = "data" /\ (i = 1 \/ b[i - 1] = LineEnd)}
<1>2. starts = {3}
  BY <1>1 DEF LineEnd
<1>3. 3 < Len(b) /\ b[3 + 1] = <<"rest", b[3][2]>> /\ b[3][2] = n
  BY <1>1
<1>4. ParseSse(b) = {IF i < Len(b) /\ b[i + 1] = <<"rest", b[i][2]>> THEN b[i][2] ELSE 0 : i \in starts}
  BY DEF ParseSse
<1> HIDE DEF starts
<1> QED
  BY <1>2, <1>3, <1>4

\* However the text is cut, the client reads one event after the other.
THEOREM ReaderInvariance == ReaderSpec => []ReaderInv
<1>1. ReaderInit => ReaderInv
  <2> SUFFICES ASSUME ReaderInit
               PROVE  ReaderInv
    OBVIOUS
  <2>1. written = 0 /\ wire = <<>> /\ buffer = <<>> /\ yielded = <<>> /\ Len(yielded) = 0
    BY DEF ReaderInit
  <2>2. 0 .. written - Len(yielded) - 1 = {}
    BY <2>1
  <2>3. yielded = [i \in 1 .. Len(yielded) |-> i]
    BY <2>1
  <2> QED
    BY <2>1, <2>2, <2>3 DEF ReaderInv, ReaderTypeOK, AheadInOrder, Unread
<1>2. ReaderInv /\ [ReaderNext]_readerVars => ReaderInv'
  <2> SUFFICES ASSUME ReaderInv, [ReaderNext]_readerVars
               PROVE  ReaderInv'
    OBVIOUS
  <2>0. /\ written \in Nat /\ wire \in Seq(Tokens) /\ buffer \in Seq(Tokens) /\ yielded \in Seq(Nat)
        /\ Len(yielded) \in Nat /\ Len(buffer) \in Nat /\ Len(wire) \in Nat /\ Len(yielded) <= written
        /\ Len(buffer) + Len(wire) = 6 * (written - Len(yielded))
    BY DEF ReaderInv, ReaderTypeOK, AheadInOrder, Unread
  <2>i. \A m \in 0 .. written - Len(yielded) - 1, j \in 1 .. 6 :
          Ahead(6 * m + j) = Text(Len(yielded) + m + 1)[j]
    BY DEF ReaderInv, AheadInOrder
  <2>1. CASE WriteEvent
    <3>1. /\ written' = written + 1 /\ wire' = wire \o Text(written + 1)
          /\ buffer' = buffer /\ yielded' = yielded
      BY <2>1 DEF WriteEvent
    <3>2. Text(written + 1) \in Seq(Tokens) /\ Len(Text(written + 1)) = 6
      BY <2>0, TextIs
    <3>3. /\ wire' \in Seq(Tokens) /\ Len(wire') = Len(wire) + 6
          /\ \A i \in 1 .. Len(wire) + 6 :
               wire'[i] = IF i <= Len(wire) THEN wire[i] ELSE Text(written + 1)[i - Len(wire)]
      <4>1. /\ wire \o Text(written + 1) \in Seq(Tokens)
            /\ Len(wire \o Text(written + 1)) = Len(wire) + Len(Text(written + 1))
            /\ \A i \in 1 .. Len(wire) + Len(Text(written + 1)) :
                 (wire \o Text(written + 1))[i]
                   = IF i <= Len(wire) THEN wire[i] ELSE Text(written + 1)[i - Len(wire)]
        BY <2>0, <3>2, ConcatProperties
      <4> QED
        BY <3>1, <3>2, <4>1
    <3>4. ASSUME NEW m \in 0 .. written' - Len(yielded') - 1, NEW j \in 1 .. 6
          PROVE  Ahead(6 * m + j)' = Text(Len(yielded') + m + 1)[j]
      <4> DEFINE p == 6 * m + j
      <4>1. p \in Nat /\ p >= 1 /\ m <= written - Len(yielded)
        BY <2>0, <3>1
      <4>2. CASE m < written - Len(yielded)
        <5>1. m \in 0 .. written - Len(yielded) - 1 /\ p <= Len(buffer) + Len(wire)
          BY <2>0, <4>2
        <5>2. Ahead(p)' = Ahead(p)
          BY <2>0, <3>1, <3>3, <4>1, <5>1 DEF Ahead
        <5> QED
          BY <2>i, <3>1, <5>1, <5>2
      <4>3. CASE m = written - Len(yielded)
        <5>1. p = Len(buffer) + Len(wire) + j /\ Len(yielded) + m + 1 = written + 1
          <6>1. 6 * m = Len(buffer) + Len(wire)
            BY <2>0, <4>3
          <6>2. p = Len(buffer) + Len(wire) + j
            BY <6>1
          <6>3. Len(yielded) + (written - Len(yielded)) + 1 = written + 1
            BY <2>0
          <6> QED
            BY <4>3, <6>2, <6>3
        <5>2. p > Len(buffer) /\ p - Len(buffer) = Len(wire) + j /\ Len(wire) + j \in 1 .. Len(wire) + 6
          BY <2>0, <5>1
        <5>3. wire'[Len(wire) + j] = Text(written + 1)[j]
          <6>1. ~(Len(wire) + j <= Len(wire)) /\ (Len(wire) + j) - Len(wire) = j
            BY <2>0
          <6> QED
            BY <3>3, <5>2, <6>1
        <5>4. Ahead(p)' = wire'[Len(wire) + j]
          <6>1. ~(p <= Len(buffer)) /\ p - Len(buffer) = Len(wire) + j
            BY <2>0, <4>1, <5>2
          <6> HIDE DEF p
          <6> QED
            BY <3>1, <6>1 DEF Ahead
        <5> QED
          BY <3>1, <5>1, <5>3, <5>4
      <4> QED
        BY <2>0, <4>1, <4>2, <4>3
    <3>5. Unread' = 6 * (written' - Len(yielded'))
      <4>1. 6 * ((written + 1) - Len(yielded)) = 6 * (written - Len(yielded)) + 6
        BY <2>0, SixMore
      <4>2. Len(buffer) + Len(wire) + 6 = 6 * (written - Len(yielded)) + 6
        BY <2>0
      <4>3. Unread' = Len(buffer) + Len(wire) + 6
        <5>1. Len(buffer') = Len(buffer) /\ Len(wire') = Len(wire) + 6
          BY <3>1, <3>3
        <5>2. Len(buffer) + (Len(wire) + 6) = Len(buffer) + Len(wire) + 6
          BY <2>0
        <5> QED
          BY <5>1, <5>2 DEF Unread
      <4>4. written' = written + 1 /\ Len(yielded') = Len(yielded)
        BY <3>1
      <4> QED
        <5>1. Unread' = 6 * ((written + 1) - Len(yielded))
          BY <4>1, <4>2, <4>3
        <5>2. 6 * (written' - Len(yielded')) = 6 * ((written + 1) - Len(yielded))
          <6>1. written' - Len(yielded') = (written + 1) - Len(yielded)
            BY <4>4
          <6>2. (written + 1) - Len(yielded) \in Int
            BY <2>0
          <6> QED
            BY <6>1, <6>2
        <5> QED
          BY <5>1, <5>2
    <3>6. AheadInOrder'
      BY <3>4, <3>5 DEF AheadInOrder
    <3>7. ReaderTypeOK'
      BY <2>0, <3>1, <3>3 DEF ReaderTypeOK
    <3> QED
      BY <3>1, <3>6, <3>7 DEF ReaderInv
  <2>2. CASE Receive
    <3>1. PICK n \in 1 .. Len(wire) :
            buffer' = buffer \o SubSeq(wire, 1, n) /\ wire' = SubSeq(wire, n + 1, Len(wire))
      BY <2>2 DEF Receive
    <3>2. written' = written /\ yielded' = yielded
      BY <2>2 DEF Receive
    <3>3. \A i \in 1 .. Len(wire) : wire[i] \in Tokens
      BY <2>0
    <3>4. /\ SubSeq(wire, 1, n) \in Seq(Tokens) /\ Len(SubSeq(wire, 1, n)) = n
          /\ \A i \in 1 .. n : SubSeq(wire, 1, n)[i] = wire[i]
      <4>1. \A i \in 1 .. n : wire[i] \in Tokens
        BY <2>0, <3>3
      <4>2. n \in Nat /\ 1 <= n
        OBVIOUS
      <4>3. /\ SubSeq(wire, 1, n) \in Seq(Tokens)
            /\ Len(SubSeq(wire, 1, n)) = IF 1 <= n THEN n - 1 + 1 ELSE 0
            /\ \A i \in 1 .. n - 1 + 1 : SubSeq(wire, 1, n)[i] = wire[1 + i - 1]
        BY <4>1, <4>2, SubSeqProperties
      <4> QED
        BY <4>2, <4>3
    <3>5. /\ wire' \in Seq(Tokens) /\ Len(wire') = Len(wire) - n
          /\ \A i \in 1 .. Len(wire) - n : wire'[i] = wire[n + i]
      <4>1. \A i \in n + 1 .. Len(wire) : wire[i] \in Tokens
        BY <2>0, <3>3
      <4>2. n \in Nat /\ n <= Len(wire)
        OBVIOUS
      <4>3. /\ wire' \in Seq(Tokens)
            /\ Len(wire') = IF n + 1 <= Len(wire) THEN Len(wire) - (n + 1) + 1 ELSE 0
            /\ \A i \in 1 .. Len(wire) - (n + 1) + 1 : wire'[i] = wire[n + 1 + i - 1]
        BY <2>0, <3>1, <4>1, <4>2, SubSeqProperties
      <4> QED
        BY <2>0, <4>2, <4>3
    <3>6. /\ buffer' \in Seq(Tokens) /\ Len(buffer') = Len(buffer) + n
          /\ \A i \in 1 .. Len(buffer) + n :
               buffer'[i] = IF i <= Len(buffer) THEN buffer[i] ELSE SubSeq(wire, 1, n)[i - Len(buffer)]
      BY <2>0, <3>1, <3>4, ConcatProperties
    <3>7. ASSUME NEW p \in 1 .. Len(buffer) + Len(wire)
          PROVE  Ahead(p)' = Ahead(p)
      <4>1. CASE p <= Len(buffer)
        BY <2>0, <3>6, <4>1 DEF Ahead
      <4>2. CASE p > Len(buffer) /\ p <= Len(buffer) + n
        <5>1. p \in 1 .. Len(buffer) + n /\ p - Len(buffer) \in 1 .. n
          BY <2>0, <4>2
        <5>2. buffer'[p] = wire[p - Len(buffer)]
          BY <2>0, <3>4, <3>6, <4>2, <5>1
        <5> QED
          BY <2>0, <3>6, <4>2, <5>2 DEF Ahead
      <4>3. CASE p > Len(buffer) + n
        <5>1. p - (Len(buffer) + n) \in 1 .. Len(wire) - n
          BY <2>0, <4>3
        <5>2. wire'[p - (Len(buffer) + n)] = wire[n + (p - (Len(buffer) + n))]
          BY <3>5, <5>1
        <5>3. n + (p - (Len(buffer) + n)) = p - Len(buffer)
          BY <2>0
        <5> QED
          BY <2>0, <3>6, <4>3, <5>2, <5>3 DEF Ahead
      <4> QED
        BY <2>0, <4>1, <4>2, <4>3
    <3>8. ASSUME NEW m \in 0 .. written - Len(yielded) - 1, NEW j \in 1 .. 6
          PROVE  Ahead(6 * m + j)' = Text(Len(yielded') + m + 1)[j]
      <4>1. 6 * m + j \in 1 .. Len(buffer) + Len(wire)
        BY <2>0
      <4> QED
        BY <2>i, <3>2, <3>7, <4>1
    <3>9. Unread' = 6 * (written' - Len(yielded'))
      <4>1. Unread' = Len(buffer) + Len(wire)
        BY <2>0, <3>5, <3>6 DEF Unread
      <4> QED
        BY <2>0, <3>2, <4>1
    <3>10. AheadInOrder'
      BY <3>2, <3>8, <3>9 DEF AheadInOrder
    <3>11. ReaderTypeOK'
      BY <2>0, <3>2, <3>5, <3>6 DEF ReaderTypeOK
    <3> QED
      BY <3>2, <3>10, <3>11 DEF ReaderInv
  <2>3. CASE YieldEvent
    <3> DEFINE k == Len(yielded)
               b == SubSeq(buffer, 1, 4)
    <3>1. Len(buffer) >= 6 /\ Cut(buffer) = 5 /\ k < written
      BY <2>3, CutIs DEF YieldEvent, ReaderInv
    <3>2. /\ buffer' = SubSeq(buffer, 7, Len(buffer)) /\ yielded' = yielded \o SetToSeq(ParseSse(b))
          /\ written' = written /\ wire' = wire
      BY <2>3, <3>1 DEF YieldEvent
    <3>3. \A i \in 1 .. Len(buffer) : buffer[i] \in Tokens
      BY <2>0
    <3>4. b \in Seq(Tokens) /\ Len(b) = 4 /\ \A i \in 1 .. 4 : b[i] = buffer[i]
      <4>1. \A i \in 1 .. 4 : buffer[i] \in Tokens
        BY <2>0, <3>1, <3>3
      <4>2. /\ b \in Seq(Tokens)
            /\ Len(b) = IF 1 <= 4 THEN 4 - 1 + 1 ELSE 0
            /\ \A i \in 1 .. 4 - 1 + 1 : b[i] = buffer[1 + i - 1]
        BY <4>1, SubSeqProperties
      <4> HIDE DEF b
      <4>3. \A i \in 1 .. 4 : i \in 1 .. 4 - 1 + 1 /\ 1 + i - 1 = i
        OBVIOUS
      <4> QED
        BY <4>2, <4>3
    <3>5. /\ buffer' \in Seq(Tokens) /\ Len(buffer') = Len(buffer) - 6
          /\ \A i \in 1 .. Len(buffer) - 6 : buffer'[i] = buffer[6 + i]
      <4>1. \A i \in 7 .. Len(buffer) : buffer[i] \in Tokens
        BY <2>0, <3>3
      <4>2. /\ buffer' \in Seq(Tokens)
            /\ Len(buffer') = IF 7 <= Len(buffer) THEN Len(buffer) - 7 + 1 ELSE 0
            /\ \A i \in 1 .. Len(buffer) - 7 + 1 : buffer'[i] = buffer[7 + i - 1]
        BY <2>0, <3>2, <4>1, SubSeqProperties
      <4>3. \A i \in 1 .. Len(buffer) - 6 : i \in 1 .. Len(buffer) - 7 + 1 /\ 7 + i - 1 = 6 + i
        BY <2>0
      <4>4. Len(buffer') = Len(buffer) - 6
        <5>1. CASE 7 <= Len(buffer)
          BY <2>0, <4>2, <5>1
        <5>2. CASE ~(7 <= Len(buffer))
          <6>1. Len(buffer) \in Nat /\ Len(buffer) >= 6
            BY <2>0, <3>1
          <6>2. \A n \in Nat : n >= 6 /\ ~(7 <= n) => n - 6 = 0
            OBVIOUS
          <6>3. Len(buffer) - 6 = 0
            BY <5>2, <6>1, <6>2
          <6> QED
            BY <4>2, <5>2, <6>3
        <5> QED
          BY <5>1, <5>2
      <4> QED
        BY <4>2, <4>3, <4>4
    <3>6. \A j \in 1 .. 4 : b[j] = Text(k + 1)[j]
      <4>1. 0 \in 0 .. written - k - 1
        BY <2>0, <3>1
      <4>2. \A j \in 1 .. 6 : Ahead(6 * 0 + j) = Text(k + 0 + 1)[j]
        BY <2>i, <4>1
      <4>3. \A j \in 1 .. 4 : Ahead(j) = buffer[j]
        BY <2>0, <3>1 DEF Ahead
      <4> QED
        BY <2>0, <3>4, <4>2, <4>3
    <3>7. yielded' = yielded \o <<k + 1>>
      <4>1. k + 1 \in Nat
        BY <2>0
      <4> HIDE DEF k, b
      <4>2. ParseSse(b) = {k + 1}
        BY <3>4, <3>6, <4>1, ParsesTheText
      <4> QED
        BY <3>2, <4>2, SeqOfOne
    <3> HIDE DEF b
    <3>8. /\ yielded' \in Seq(Nat) /\ Len(yielded') = k + 1
          /\ \A i \in 1 .. k + 1 : yielded'[i] = IF i <= k THEN yielded[i] ELSE <<k + 1>>[i - k]
      <4>1. <<k + 1>> \in Seq(Nat) /\ Len(<<k + 1>>) = 1
        BY <2>0
      <4> QED
        BY <2>0, <3>7, <4>1, ConcatProperties
    <3>9. yielded' = [i \in 1 .. Len(yielded') |-> i]
      <4>1. \A i \in 1 .. k : yielded[i] = i
        BY DEF ReaderInv
      <4>2. ASSUME NEW i \in 1 .. k + 1
            PROVE  yielded'[i] = i
        <5>1. CASE i <= k
          <6>1. i \in 1 .. k
            BY <2>0, <5>1
          <6> QED
            BY <3>8, <4>1, <5>1, <6>1
        <5>2. CASE i = k + 1
          <6>1. ~(i <= k) /\ i - k = 1 /\ <<k + 1>>[1] = i
            BY <2>0, <5>2
          <6> QED
            BY <3>8, <6>1
        <5> QED
          BY <2>0, <5>1, <5>2
      <4>3. yielded' = [i \in 1 .. Len(yielded') |-> yielded'[i]]
        BY <3>8
      <4> QED
        BY <3>8, <4>2, <4>3
    <3>10. ASSUME NEW m \in 0 .. written' - Len(yielded') - 1, NEW j \in 1 .. 6
           PROVE  Ahead(6 * m + j)' = Text(Len(yielded') + m + 1)[j]
      <4>1. m + 1 \in 0 .. written - k - 1 /\ 6 * (m + 1) + j = (6 * m + j) + 6
        BY <2>0, <3>2, <3>8
      <4> DEFINE p == 6 * m + j
      <4>2. p \in Nat /\ p >= 1 /\ p + 6 <= Len(buffer) + Len(wire)
        BY <2>0, <4>1
      <4>3. Ahead(p)' = Ahead(p + 6)
        <5>1. CASE p <= Len(buffer) - 6
          BY <2>0, <3>5, <4>2, <5>1 DEF Ahead
        <5>2. CASE p > Len(buffer) - 6
          <6>1. /\ p - (Len(buffer) - 6) = (p + 6) - Len(buffer)
                /\ ~(p <= Len(buffer) - 6) /\ ~(p + 6 <= Len(buffer))
            BY <2>0, <4>2, <5>2
          <6> HIDE DEF p
          <6> QED
            BY <3>2, <3>5, <6>1 DEF Ahead
        <5> QED
          BY <2>0, <4>2, <5>1, <5>2
      <4>4. Ahead(6 * (m + 1) + j) = Text(k + (m + 1) + 1)[j]
        BY <2>i, <4>1
      <4>5. k + (m + 1) + 1 = Len(yielded') + m + 1
        BY <2>0, <3>8
      <4> QED
        BY <4>1, <4>3, <4>4, <4>5
    <3>11. Unread' = 6 * (written' - Len(yielded'))
      <4>1. Len(buffer) + Len(wire) = 6 * (written - (k + 1)) + 6
        BY <2>0, <3>1, SixMore
      <4>2. Unread' = Len(buffer) + Len(wire) - 6
        BY <2>0, <3>2, <3>5, <3>1 DEF Unread
      <4>3. 6 * (written - (k + 1)) \in Int
        BY <2>0
      <4> QED
        BY <2>0, <3>2, <3>8, <4>1, <4>2, <4>3
    <3>12. AheadInOrder'
      BY <3>10, <3>11 DEF AheadInOrder
    <3>13. ReaderTypeOK'
      BY <2>0, <3>1, <3>2, <3>5, <3>8 DEF ReaderTypeOK
    <3> QED
      BY <3>9, <3>12, <3>13 DEF ReaderInv
  <2>4. CASE UNCHANGED readerVars
    BY <2>4 DEF readerVars, ReaderInv, ReaderTypeOK, AheadInOrder, Ahead, Unread
  <2> QED
    BY <2>1, <2>2, <2>3, <2>4 DEF ReaderNext
<1> QED
  BY <1>1, <1>2, PTL DEF ReaderSpec

(***************************************************************************)
(* The client yields what was sent, in its order, and misses none.         *)
(***************************************************************************)
THEOREM ReadsInOrder == ReaderSpec => []StreamReadInOrder
<1>1. ReaderInv => StreamReadInOrder
  <2> SUFFICES ASSUME ReaderInv, wire = <<>>, Separators(buffer) = {}
               PROVE  Len(yielded) = written
    BY DEF StreamReadInOrder, ReaderInv
  <2>1. ~(Len(buffer) >= 6)
    BY CutIs DEF ReaderInv
  <2>2. /\ Len(buffer) \in Nat /\ Len(yielded) \in Nat /\ written \in Nat /\ Len(wire) = 0
        /\ Len(buffer) + Len(wire) = 6 * (written - Len(yielded)) /\ Len(yielded) <= written
    BY DEF ReaderInv, ReaderTypeOK, AheadInOrder, Unread
  <2> QED
    BY <2>1, <2>2
<1> QED
  BY <1>1, ReaderInvariance, PTL
=============================================================================
