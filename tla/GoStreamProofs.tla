--------------------------- MODULE GoStreamProofs ----------------------------
(***************************************************************************)
(* Proofs about the Go event bus, for any publishers, closing goroutines,  *)
(* filters, channel and replay sizes.                                      *)
(***************************************************************************)
EXTENDS GoEventBus

\* Publishers whose event for s is not in its channel yet, and may still get there.
OnTheWay(s) == {p \in Carrying(s) : ~(pc[p] = "sent" /\ target[p] = s)}

\* Publishers that took an event out of s's channel and have not counted it.
Dropping(s) == {p \in Publishers : pc[p] = "dropped" /\ target[p] = s}

\* Publishers in a call of Publish.
Busy == {p \in Publishers : pc[p] # "idle"}

\* The events s asks for that were published since it was made.
OfferedTo(s) == {i \in (since[s] + 1) .. Len(published) : Matches(s, published[i])}

Labels ==
  {"idle", "next", "send", "full", "retry", "sent", "dropped", "lost", "unsubscribe", "sweep", "done"}

GoTypeOK ==
  /\ replay \in Seq(Event) /\ published \in Seq(Event)
  /\ subscribers \subseteq Subs /\ fresh \subseteq Subs /\ shut \subseteq Subs /\ flagged \subseteq Subs
  /\ queue \in [Subs -> Seq(Event)] /\ received \in [Subs -> Seq(Event)]
  /\ sent \in [Publishers -> Nat]
  /\ {eventsDropped, since, prefilled} \subseteq [Subs -> Nat]
  /\ \A s \in Subs : since[s] <= Len(published)
  /\ pc \in [Threads -> Labels] /\ target \in [Threads -> Subs \cup {None}]
  /\ todo \in [Publishers -> SUBSET Subs] /\ carried \in [Publishers -> Event \cup {None}]

PublishedInOrder ==
  /\ \A i \in 1 .. Len(published) : published[i].n <= sent[published[i].pub]
  /\ \A i, j \in 1 .. Len(published) :
       i < j /\ published[i].pub = published[j].pub => published[i].n < published[j].n

\* The replay buffer is the end of what was published, or CloseAll emptied it.
ReplayIsRecent ==
  /\ Len(replay) <= Len(published) /\ Len(replay) <= ReplaySize
  /\ \A i \in 1 .. Len(replay) : replay[i] = published[(Len(published) - Len(replay)) + i]

(* A goroutine in Publish carries the last event of its publisher.  Its    *)
(* target asks for the event and is none of those it still has to visit.   *)
PublishersOK ==
  /\ IsFiniteSet(Busy)
  /\ \A p \in Busy :
       /\ carried[p] = [pub |-> p, n |-> sent[p]] /\ sent[p] >= 1
       /\ pc[p] # "next" =>
            target[p] \in Subs \ todo[p] /\ Matches(target[p], carried[p])

\* A subscription that has not been made has nothing and is known to nobody.
FreshIsUnknown ==
  /\ shut \cap subscribers = {}
  /\ \A s \in fresh :
       /\ s \notin subscribers \cup shut
       /\ Len(queue[s]) = 0 /\ Len(received[s]) = 0 /\ eventsDropped[s] = 0
       /\ \A p \in Publishers : s \notin todo[p] /\ (p \in Busy /\ pc[p] # "next" => target[p] # s)

\* Each publisher's events in the channel are in order, and before the one on its way.
ChannelInOrder(s) ==
  /\ \A a, b \in 1 .. Len(queue[s]) :
       a < b /\ queue[s][a].pub = queue[s][b].pub => queue[s][a].n < queue[s][b].n
  /\ \A a \in 1 .. Len(queue[s]) :
       /\ queue[s][a].n <= sent[queue[s][a].pub]
       /\ queue[s][a].pub \in OnTheWay(s) => queue[s][a].n < sent[queue[s][a].pub]

\* What was offered to a live subscription is somewhere, or is counted as dropped.
Accounted(s) ==
  Len(received[s]) + Len(queue[s]) + eventsDropped[s]
      + Cardinality(OnTheWay(s)) + Cardinality(Dropping(s))
    = prefilled[s] + Cardinality(OfferedTo(s))

GoInv ==
  /\ GoTypeOK /\ PublishedInOrder /\ ReplayIsRecent /\ PublishersOK /\ FreshIsUnknown
  /\ \A s \in Subs : ChannelInOrder(s)
  /\ \A s \in subscribers \ flagged : Accounted(s)

-----------------------------------------------------------------------------
\* What the counts of two sets are that agree but for one element.
LEMMA CountsDiffer ==
  ASSUME NEW S, NEW T, NEW p, IsFiniteSet(S), T \ {p} = S \ {p}
  PROVE  /\ IsFiniteSet(T) /\ Cardinality(S) \in Nat /\ Cardinality(T) \in Nat
         /\ Cardinality(T) + (IF p \in S THEN 1 ELSE 0) = Cardinality(S) + (IF p \in T THEN 1 ELSE 0)
<1> DEFINE R == S \ {p}
<1>1. IsFiniteSet(R) /\ Cardinality(R) \in Nat /\ p \notin R
  BY FS_Subset, FS_CardinalityType
<1>2. IsFiniteSet(R \cup {p}) /\ Cardinality(R \cup {p}) = Cardinality(R) + 1
  BY <1>1, FS_AddElement
<1>3. (p \in S => S = R \cup {p}) /\ (p \notin S => S = R)
  OBVIOUS
<1>4. (p \in T => T = R \cup {p}) /\ (p \notin T => T = R)
  OBVIOUS
<1> HIDE DEF R
<1>5. IsFiniteSet(T)
  BY <1>1, <1>2, <1>4
<1>6. Cardinality(S) = (IF p \in S THEN Cardinality(R) + 1 ELSE Cardinality(R))
  BY <1>2, <1>3
<1>7. Cardinality(T) = (IF p \in T THEN Cardinality(R) + 1 ELSE Cardinality(R))
  BY <1>2, <1>4
<1> QED
  BY <1>1, <1>5, <1>6, <1>7

\* Who is on the way or dropping is in a call of Publish: they are finitely many.
LEMMA BusyFew ==
  ASSUME GoInv, NEW s \in Subs
  PROVE  /\ OnTheWay(s) \subseteq Busy /\ Dropping(s) \subseteq Busy /\ Busy \subseteq Publishers
         /\ IsFiniteSet(OnTheWay(s)) /\ Cardinality(OnTheWay(s)) \in Nat
         /\ IsFiniteSet(Dropping(s)) /\ Cardinality(Dropping(s)) \in Nat
<1>1. OnTheWay(s) \subseteq Busy /\ Dropping(s) \subseteq Busy /\ Busy \subseteq Publishers
  BY DEF OnTheWay, Carrying, Dropping, Busy
<1>2. IsFiniteSet(Busy)
  BY DEF GoInv, PublishersOK
<1> QED
  BY <1>1, <1>2, FS_Subset, FS_CardinalityType

\* The events a subscription was offered are finitely many.
LEMMA OfferedFinite ==
  ASSUME GoTypeOK, NEW s \in Subs
  PROVE  IsFiniteSet(OfferedTo(s)) /\ Cardinality(OfferedTo(s)) \in Nat
<1>1. OfferedTo(s) \subseteq (since[s] + 1) .. Len(published)
  BY DEF OfferedTo
<1>2. since[s] + 1 \in Int /\ Len(published) \in Int
  BY DEF GoTypeOK
<1> QED
  BY <1>1, <1>2, FS_Interval, FS_Subset, FS_CardinalityType

\* What one publisher does leaves the others where they are.
LEMMA OthersStay ==
  ASSUME NEW p, NEW s,
         \A q \in Publishers \ {p} :
           pc'[q] = pc[q] /\ todo'[q] = todo[q] /\ target'[q] = target[q] /\ carried'[q] = carried[q]
  PROVE  /\ OnTheWay(s)' \ {p} = OnTheWay(s) \ {p}
         /\ Dropping(s)' \ {p} = Dropping(s) \ {p}
         /\ Busy' \ {p} = Busy \ {p}
<1>1. \A q \in Publishers \ {p} : q \in OnTheWay(s)' <=> q \in OnTheWay(s)
  BY DEF OnTheWay, Carrying, Matches
<1>2. OnTheWay(s) \subseteq Publishers /\ OnTheWay(s)' \subseteq Publishers
  BY DEF OnTheWay, Carrying
<1>3. Dropping(s)' \ {p} = Dropping(s) \ {p}
  BY DEF Dropping
<1>4. Busy' \ {p} = Busy \ {p}
  BY DEF Busy
<1> QED
  BY <1>1, <1>2, <1>3, <1>4

\* A channel stays in order when its head leaves and nobody sets out for it.
LEMMA ChannelStays ==
  ASSUME GoTypeOK, NEW s \in Subs, ChannelInOrder(s), sent' = sent,
         queue'[s] = queue[s] \/ (queue[s] # <<>> /\ queue'[s] = Tail(queue[s])),
         OnTheWay(s)' \subseteq OnTheWay(s)
  PROVE  ChannelInOrder(s)'
<1>1. queue[s] \in Seq(Event)
  BY DEF GoTypeOK
<1>2. CASE queue'[s] = queue[s]
  BY <1>2 DEF ChannelInOrder
<1>3. CASE queue[s] # <<>> /\ queue'[s] = Tail(queue[s])
  <2> DEFINE q == queue[s]
             r == queue'[s]
  <2>1. /\ Len(r) \in Nat /\ Len(q) \in Nat
        /\ \A a \in 1 .. Len(r) : a + 1 \in 1 .. Len(q) /\ r[a] = q[a + 1]
    <3>1. Tail(q) \in Seq(Event) /\ Len(Tail(q)) \in Nat /\ Len(q) \in Nat
      BY <1>1, <1>3, TailElements
    <3> QED
      BY <1>1, <1>3, <3>1, TailElements
  <2>2. /\ \A a, b \in 1 .. Len(q) : a < b /\ q[a].pub = q[b].pub => q[a].n < q[b].n
        /\ \A a \in 1 .. Len(q) :
             q[a].n <= sent[q[a].pub] /\ (q[a].pub \in OnTheWay(s) => q[a].n < sent[q[a].pub])
    BY DEF ChannelInOrder
  <2> HIDE DEF q, r
  <2>3. ASSUME NEW a \in 1 .. Len(r), NEW b \in 1 .. Len(r), a < b, r[a].pub = r[b].pub
        PROVE  r[a].n < r[b].n
    <3>1. a + 1 < b + 1
      BY <2>1, <2>3
    <3> QED
      BY <2>1, <2>2, <2>3, <3>1
  <2>4. ASSUME NEW a \in 1 .. Len(r)
        PROVE  r[a].n <= sent[r[a].pub] /\ (r[a].pub \in OnTheWay(s)' => r[a].n < sent[r[a].pub])
    BY <2>1, <2>2
  <2> QED
    BY <2>3, <2>4 DEF ChannelInOrder, r
<1> QED
  BY <1>2, <1>3

(***************************************************************************)
(* A publisher that goes on, with an event that was recorded before, keeps *)
(* the invariant if it keeps each channel in order, and if the channel,    *)
(* the counter and the publisher's own place have the same sum as before.  *)
(***************************************************************************)
One(p, S) == IF p \in S THEN 1 ELSE 0

\* A publisher that goes on leaves the others, and the channels it does not touch, as they are.
LEMMA PublisherKeeps ==
  ASSUME GoInv, NEW p \in Busy,
         UNCHANGED <<published, sent, fresh, since, prefilled, received, subscribers,
                     flagged, shut, replay, carried>>,
         queue' \in [Subs -> Seq(Event)], eventsDropped' \in [Subs -> Nat],
         pc' \in [Threads -> Labels], target' \in [Threads -> Subs \cup {None}],
         todo' \in [Publishers -> SUBSET Subs],
         \A q \in Publishers \ {p} : pc'[q] = pc[q] /\ todo'[q] = todo[q] /\ target'[q] = target[q],
         todo'[p] \subseteq todo[p],
         pc'[p] \notin {"idle", "next"} =>
           target'[p] \in Subs \ (todo'[p] \cup fresh) /\ Matches(target'[p], carried[p]),
         \A s \in fresh : eventsDropped'[s] = 0 /\ Len(queue'[s]) = 0,
         \A s \in Subs : ChannelInOrder(s)',
         \A s \in subscribers \ flagged :
           Len(queue'[s]) + eventsDropped'[s] + One(p, OnTheWay(s)') + One(p, Dropping(s)')
             = Len(queue[s]) + eventsDropped[s] + One(p, OnTheWay(s)) + One(p, Dropping(s))
  PROVE  GoInv'
<1>1. /\ GoTypeOK /\ PublishedInOrder /\ ReplayIsRecent /\ PublishersOK /\ FreshIsUnknown
      /\ \A s \in subscribers \ flagged : Accounted(s)
  BY DEF GoInv
<1>2. /\ p \in Publishers /\ Busy \subseteq Publishers /\ Busy' \subseteq Publishers
      /\ \A q \in Publishers \ {p} : carried'[q] = carried[q]
  BY DEF Busy
<1>3. GoTypeOK'
  BY <1>1 DEF GoTypeOK
<1>4. PublishedInOrder' /\ ReplayIsRecent'
  BY <1>1 DEF PublishedInOrder, ReplayIsRecent
<1>5. Busy' \ {p} = Busy \ {p}
  BY <1>2, OthersStay
<1>6. PublishersOK'
  <2>1. IsFiniteSet(Busy')
    <3>1. IsFiniteSet(Busy)
      BY <1>1 DEF PublishersOK
    <3>2. Busy' \subseteq Busy
      BY <1>5
    <3> QED
      BY <3>1, <3>2, FS_Subset
  <2>2. ASSUME NEW q \in Busy'
        PROVE  /\ carried'[q] = [pub |-> q, n |-> sent'[q]] /\ sent'[q] >= 1
               /\ pc'[q] # "next" =>
                    target'[q] \in Subs \ todo'[q] /\ Matches(target'[q], carried'[q])
    <3>1. CASE q = p
      <4>1. pc'[p] # "idle"
        BY <3>1 DEF Busy
      <4> QED
        BY <1>1, <3>1, <4>1 DEF PublishersOK
    <3>2. CASE q # p
      <4>1. q \in Busy /\ q \in Publishers \ {p}
        BY <1>2, <1>5, <3>2
      <4> QED
        BY <1>1, <4>1 DEF PublishersOK
    <3> QED
      BY <3>1, <3>2
  <2> QED
    BY <2>1, <2>2 DEF PublishersOK, Matches
<1>7. FreshIsUnknown'
  <2>1. shut' \cap subscribers' = {}
    BY <1>1 DEF FreshIsUnknown
  <2>2. ASSUME NEW s \in fresh'
        PROVE  /\ s \notin subscribers' \cup shut'
               /\ Len(queue'[s]) = 0 /\ Len(received'[s]) = 0 /\ eventsDropped'[s] = 0
    BY <1>1 DEF FreshIsUnknown
  <2>3. ASSUME NEW s \in fresh', NEW q \in Publishers
        PROVE  s \notin todo'[q] /\ (q \in Busy' /\ pc'[q] # "next" => target'[q] # s)
    <3>1. s \in fresh /\ s \notin todo[q] /\ (q \in Busy /\ pc[q] # "next" => target[q] # s)
      BY <1>1 DEF FreshIsUnknown
    <3>2. CASE q = p
      <4>1. q \in Busy' => pc'[p] # "idle"
        BY <3>2 DEF Busy
      <4> QED
        BY <3>1, <3>2, <4>1
    <3>3. CASE q # p
      <4>1. q \in Publishers \ {p} /\ (q \in Busy' <=> q \in Busy)
        BY <1>5, <3>3
      <4> QED
        BY <3>1, <4>1
    <3> QED
      BY <3>2, <3>3
  <2> QED
    BY <2>1, <2>2, <2>3 DEF FreshIsUnknown
<1>8. ASSUME NEW s \in subscribers' \ flagged'
      PROVE  Accounted(s)'
  <2> DEFINE W == OnTheWay(s)
             W2 == OnTheWay(s)'
             D == Dropping(s)
             D2 == Dropping(s)'
             o == prefilled[s] + Cardinality(OfferedTo(s))
             r == Len(received[s])
             l == Len(queue[s])
             l2 == Len(queue'[s])
             d == eventsDropped[s]
             d2 == eventsDropped'[s]
  <2>1. s \in subscribers \ flagged /\ s \in Subs
    BY <1>1 DEF GoTypeOK
  <2>2. W2 \ {p} = W \ {p} /\ D2 \ {p} = D \ {p}
    BY <1>2, OthersStay
  <2>3. IsFiniteSet(W) /\ IsFiniteSet(D)
    BY <2>1, BusyFew
  <2>4. l2 + d2 + One(p, W2) + One(p, D2) = l + d + One(p, W) + One(p, D)
    BY <2>1
  <2>5. r + l + d + Cardinality(W) + Cardinality(D) = o
    BY <1>1, <2>1 DEF Accounted
  <2>6. r \in Nat /\ l \in Nat /\ d \in Nat /\ l2 \in Nat /\ d2 \in Nat
    BY <1>1, <2>1 DEF GoTypeOK
  <2>7. prefilled'[s] + Cardinality(OfferedTo(s)') = o /\ Len(received'[s]) = r
    BY DEF OfferedTo, Matches
  <2> HIDE DEF W, W2, D, D2, o, r, l, l2, d, d2
  <2>8. /\ Cardinality(W) \in Nat /\ Cardinality(W2) \in Nat
        /\ Cardinality(W2) + One(p, W) = Cardinality(W) + One(p, W2)
    BY <2>2, <2>3, CountsDiffer DEF One
  <2>9. /\ Cardinality(D) \in Nat /\ Cardinality(D2) \in Nat
        /\ Cardinality(D2) + One(p, D) = Cardinality(D) + One(p, D2)
    BY <2>2, <2>3, CountsDiffer DEF One
  <2>10. One(p, W) \in Nat /\ One(p, W2) \in Nat /\ One(p, D) \in Nat /\ One(p, D2) \in Nat
    BY DEF One
  <2>11. r + l2 + d2 + Cardinality(W2) + Cardinality(D2) = o
    <3> DEFINE w == Cardinality(W)
               w2 == Cardinality(W2)
               c == Cardinality(D)
               c2 == Cardinality(D2)
               x == One(p, W)
               x2 == One(p, W2)
               y == One(p, D)
               y2 == One(p, D2)
    <3>1. w \in Nat /\ w2 \in Nat /\ c \in Nat /\ c2 \in Nat
      BY <2>8, <2>9
    <3>2. x \in Nat /\ x2 \in Nat /\ y \in Nat /\ y2 \in Nat
      BY <2>10
    <3>3. /\ w2 + x = w + x2 /\ c2 + y = c + y2
          /\ l2 + d2 + x2 + y2 = l + d + x + y /\ r + l + d + w + c = o
      BY <2>4, <2>5, <2>8, <2>9
    <3> HIDE DEF w, w2, c, c2, x, x2, y, y2
    <3>4. r + l2 + d2 + w2 + c2 = r + l + d + w + c
      BY <2>6, <3>1, <3>2, <3>3
    <3> QED
      BY <3>3, <3>4 DEF w2, c2
  <2> QED
    BY <2>7, <2>11 DEF Accounted, W2, D2, r, l2, d2
<1> QED
  BY <1>3, <1>4, <1>6, <1>7, <1>8 DEF GoInv

\* Where a publisher is.
LEMMA WhereIs ==
  ASSUME NEW p \in Publishers, NEW s
  PROVE  /\ p \in OnTheWay(s) <=>
              /\ pc[p] # "idle" /\ Matches(s, carried[p])
              /\ s \in todo[p] \/ (pc[p] # "next" /\ target[p] = s)
              /\ ~(pc[p] = "sent" /\ target[p] = s)
         /\ p \in OnTheWay(s)' <=>
              /\ pc'[p] # "idle" /\ Matches(s, carried'[p])
              /\ s \in todo'[p] \/ (pc'[p] # "next" /\ target'[p] = s)
              /\ ~(pc'[p] = "sent" /\ target'[p] = s)
         /\ p \in Dropping(s) <=> pc[p] = "dropped" /\ target[p] = s
         /\ p \in Dropping(s)' <=> pc'[p] = "dropped" /\ target'[p] = s
BY DEF OnTheWay, Carrying, Dropping, Matches

\* What a publisher in a call of Publish has in hand.
LEMMA AtWork ==
  ASSUME GoInv, NEW p \in Publishers, pc[p] # "idle"
  PROVE  /\ p \in Busy /\ p \in Threads /\ carried[p] \in Event
         /\ carried[p].pub = p /\ carried[p].n = sent[p]
         /\ pc[p] # "next" =>
              target[p] \in Subs \ (todo[p] \cup fresh) /\ Matches(target[p], carried[p])
<1>1. p \in Busy /\ p \in Threads
  BY DEF Busy, Threads
<1>2. /\ carried[p] = [pub |-> p, n |-> sent[p]] /\ sent[p] >= 1
      /\ pc[p] # "next" => target[p] \in Subs \ todo[p] /\ Matches(target[p], carried[p])
  BY <1>1 DEF GoInv, PublishersOK
<1>3. sent[p] \in Nat
  BY DEF GoInv, GoTypeOK
<1>4. carried[p] \in Event
  BY <1>2, <1>3 DEF Event
<1>5. pc[p] # "next" => target[p] \notin fresh
  BY <1>1 DEF GoInv, FreshIsUnknown
<1> QED
  BY <1>1, <1>2, <1>4, <1>5

\* What the invariant says of the variables that a publisher changes.
LEMMA PublisherTypes ==
  ASSUME GoInv
  PROVE  /\ queue \in [Subs -> Seq(Event)] /\ eventsDropped \in [Subs -> Nat]
         /\ pc \in [Threads -> Labels] /\ target \in [Threads -> Subs \cup {None}]
         /\ todo \in [Publishers -> SUBSET Subs] /\ subscribers \subseteq Subs /\ sent \in [Publishers -> Nat]
         /\ \A s \in fresh : s \in Subs /\ s \notin subscribers
         /\ \A s \in fresh : eventsDropped[s] = 0 /\ Len(queue[s]) = 0
         /\ \A s \in shut : s \notin subscribers /\ s \notin fresh
         /\ \A s \in Subs : ChannelInOrder(s)
BY DEF GoInv, GoTypeOK, FreshIsUnknown

(* A publisher that goes on sets out for nobody else, and what it puts     *)
(* into a channel was on its way there.                                    *)
Advances(p) ==
  \A t \in Subs :
    /\ OnTheWay(t)' \subseteq OnTheWay(t)
    /\ \/ queue'[t] = queue[t]
       \/ queue[t] # <<>> /\ queue'[t] = Tail(queue[t])
       \/ p \in OnTheWay(t) /\ queue'[t] = Append(queue[t], carried[p])

\* The next subscriber is visited.
LEMMA NextGoInv ==
  ASSUME GoInv, NEW p \in Publishers, PublishNext(p)
  PROVE  GoInv' /\ Advances(p)
<1>1. PICK s \in todo[p] :
        /\ todo' = [todo EXCEPT ![p] = @ \ {s}]
        /\ \/ /\ s \in flagged \/ ~Matches(s, carried[p])
              /\ UNCHANGED <<pc, target>>
           \/ /\ s \notin flagged /\ Matches(s, carried[p])
              /\ target' = [target EXCEPT ![p] = s]
              /\ pc' = [pc EXCEPT ![p] = "send"]
  BY DEF PublishNext, Goto
<1>2. /\ pc[p] = "next"
      /\ UNCHANGED <<published, sent, fresh, since, prefilled, received, subscribers,
                     flagged, shut, replay, carried, queue, eventsDropped>>
  BY DEF PublishNext, channels, counters, history
<1>3. /\ p \in Busy /\ p \in Threads /\ carried[p] \in Event
  BY <1>2, AtWork
<1>4. s \in Subs /\ s \notin fresh
  BY PublisherTypes DEF GoInv, FreshIsUnknown
<1>5. /\ todo' \in [Publishers -> SUBSET Subs] /\ todo'[p] = todo[p] \ {s}
      /\ pc' \in [Threads -> Labels] /\ target' \in [Threads -> Subs \cup {None}]
      /\ \A q \in Publishers \ {p} : pc'[q] = pc[q] /\ todo'[q] = todo[q] /\ target'[q] = target[q]
  <2>1. todo' \in [Publishers -> SUBSET Subs] /\ todo'[p] = todo[p] \ {s}
    BY <1>1, PublisherTypes
  <2>2. pc' \in [Threads -> Labels] /\ target' \in [Threads -> Subs \cup {None}]
    BY <1>1, <1>4, PublisherTypes DEF Labels
  <2>3. \A q \in Publishers \ {p} : pc'[q] = pc[q] /\ todo'[q] = todo[q] /\ target'[q] = target[q]
    BY <1>1, PublisherTypes DEF Threads
  <2> QED
    BY <2>1, <2>2, <2>3
<1>6. \/ /\ s \in flagged \/ ~Matches(s, carried[p])
         /\ pc'[p] = "next"
      \/ /\ Matches(s, carried[p])
         /\ target'[p] = s /\ pc'[p] = "send"
  BY <1>1, <1>2, <1>3, PublisherTypes
<1>7. ASSUME NEW t \in Subs
      PROVE  /\ OnTheWay(t)' \subseteq OnTheWay(t)
             /\ t \notin flagged => (p \in OnTheWay(t)' <=> p \in OnTheWay(t))
             /\ p \notin Dropping(t) /\ p \notin Dropping(t)'
  <2>1. /\ p \in OnTheWay(t)' => p \in OnTheWay(t)
        /\ t \notin flagged => (p \in OnTheWay(t)' <=> p \in OnTheWay(t))
    BY <1>2, <1>5, <1>6, WhereIs
  <2>2. OnTheWay(t)' \ {p} = OnTheWay(t) \ {p}
    BY <1>2, <1>5, OthersStay
  <2>3. p \notin Dropping(t) /\ p \notin Dropping(t)'
    BY <1>2, <1>6, WhereIs
  <2> QED
    BY <2>1, <2>2, <2>3
<1>8. \A t \in Subs : ChannelInOrder(t)'
  BY <1>2, <1>7, PublisherTypes, ChannelStays DEF GoInv
<1>9. \A t \in subscribers \ flagged :
        Len(queue'[t]) + eventsDropped'[t] + One(p, OnTheWay(t)') + One(p, Dropping(t)')
          = Len(queue[t]) + eventsDropped[t] + One(p, OnTheWay(t)) + One(p, Dropping(t))
  <2> SUFFICES ASSUME NEW t \in subscribers \ flagged
               PROVE  One(p, OnTheWay(t)') = One(p, OnTheWay(t)) /\ One(p, Dropping(t)') = One(p, Dropping(t))
    BY <1>2
  <2>1. t \in Subs
    BY PublisherTypes
  <2> QED
    BY <1>7, <2>1 DEF One
<1>10. pc'[p] \notin {"idle", "next"} =>
         target'[p] \in Subs \ (todo'[p] \cup fresh) /\ Matches(target'[p], carried[p])
  BY <1>4, <1>5, <1>6
<1>11. GoInv'
  BY <1>2, <1>3, <1>5, <1>8, <1>9, <1>10, PublisherKeeps, PublisherTypes
<1>12. Advances(p)
  BY <1>2, <1>7 DEF Advances
<1> QED
  BY <1>11, <1>12

\* All have been visited.
LEMMA ReturnGoInv ==
  ASSUME GoInv, NEW p \in Publishers, PublishReturn(p)
  PROVE  GoInv' /\ Advances(p)
<1>1. /\ pc[p] = "next" /\ todo[p] = {} /\ pc' = [pc EXCEPT ![p] = "idle"]
      /\ UNCHANGED <<published, sent, fresh, since, prefilled, received, subscribers,
                     flagged, shut, replay, carried, queue, eventsDropped, todo, target>>
  BY DEF PublishReturn, Goto, channels, counters, history
<1>2. p \in Busy /\ p \in Threads
  BY <1>1, AtWork
<1>3. /\ pc' \in [Threads -> Labels] /\ pc'[p] = "idle"
      /\ \A q \in Publishers \ {p} : pc'[q] = pc[q]
  BY <1>1, <1>2, PublisherTypes DEF Threads, Labels
<1>4. ASSUME NEW t \in Subs
      PROVE  /\ OnTheWay(t)' = OnTheWay(t)
             /\ p \notin Dropping(t) /\ p \notin Dropping(t)'
  <2>1. p \notin OnTheWay(t)' /\ p \notin OnTheWay(t)
    BY <1>1, <1>3, WhereIs
  <2>2. OnTheWay(t)' \ {p} = OnTheWay(t) \ {p}
    BY <1>1, <1>3, OthersStay
  <2>3. p \notin Dropping(t) /\ p \notin Dropping(t)'
    BY <1>1, <1>3, WhereIs
  <2> QED
    BY <2>1, <2>2, <2>3
<1>5. \A t \in Subs : ChannelInOrder(t)'
  BY <1>1, <1>4, PublisherTypes, ChannelStays DEF GoInv
<1>6. \A t \in subscribers \ flagged :
        Len(queue'[t]) + eventsDropped'[t] + One(p, OnTheWay(t)') + One(p, Dropping(t)')
          = Len(queue[t]) + eventsDropped[t] + One(p, OnTheWay(t)) + One(p, Dropping(t))
  BY <1>1, <1>4, PublisherTypes DEF One
<1>11. GoInv'
  BY <1>1, <1>2, <1>3, <1>5, <1>6, PublisherKeeps, PublisherTypes
<1>12. Advances(p)
  BY <1>1, <1>4 DEF Advances
<1> QED
  BY <1>11, <1>12

\* An event on its way is the latest of its publisher: it comes last.
LEMMA ChannelTakes ==
  ASSUME GoInv, NEW s \in Subs, NEW p \in Publishers, pc[p] # "idle", p \in OnTheWay(s), sent' = sent,
         queue'[s] = Append(queue[s], carried[p]),
         OnTheWay(s)' \subseteq OnTheWay(s), p \notin OnTheWay(s)'
  PROVE  ChannelInOrder(s)'
<1> DEFINE q == queue[s]
           r == queue'[s]
           e == carried[p]
<1>1. e \in Event /\ e.pub = p /\ e.n = sent[p] /\ sent[p] \in Nat
  BY AtWork, PublisherTypes
<1>2. /\ Len(r) = Len(q) + 1 /\ Len(q) \in Nat /\ \A a \in 1 .. Len(q) : r[a] = q[a]
      /\ r[Len(q) + 1] = e
      /\ \A a \in 1 .. Len(q) + 1 : a \in 1 .. Len(q) \/ a = Len(q) + 1
  <2>1. q \in Seq(Event)
    BY PublisherTypes
  <2>2. r = Append(q, e)
    OBVIOUS
  <2> HIDE DEF q, r, e
  <2> QED
    BY <1>1, <2>1, <2>2, AppendElements
<1>3. /\ \A a, b \in 1 .. Len(q) : a < b /\ q[a].pub = q[b].pub => q[a].n < q[b].n
      /\ \A a \in 1 .. Len(q) :
           q[a].n <= sent[q[a].pub] /\ (q[a].pub \in OnTheWay(s) => q[a].n < sent[q[a].pub])
  BY PublisherTypes DEF ChannelInOrder
<1> HIDE DEF q, r, e
<1>4. ASSUME NEW a \in 1 .. Len(r), NEW b \in 1 .. Len(r), a < b, r[a].pub = r[b].pub
      PROVE  r[a].n < r[b].n
  <2>1. a \in 1 .. Len(q)
    BY <1>2, <1>4
  <2>2. CASE b \in 1 .. Len(q)
    BY <1>2, <1>3, <1>4, <2>1, <2>2
  <2>3. CASE b = Len(q) + 1
    BY <1>1, <1>2, <1>3, <1>4, <2>1, <2>3
  <2> QED
    BY <1>2, <2>2, <2>3
<1>5. ASSUME NEW a \in 1 .. Len(r)
      PROVE  r[a].n <= sent[r[a].pub] /\ (r[a].pub \in OnTheWay(s)' => r[a].n < sent[r[a].pub])
  <2>1. CASE a \in 1 .. Len(q)
    BY <1>2, <1>3, <2>1
  <2>2. CASE a = Len(q) + 1
    BY <1>1, <1>2, <2>2
  <2> QED
    BY <1>2, <2>1, <2>2
<1> QED
  BY <1>4, <1>5 DEF ChannelInOrder, r

(***************************************************************************)
(* An attempt to send: the event moves from the publisher to the channel,  *)
(* or the publisher goes on to make room or to give it up.                 *)
(***************************************************************************)
LEMMA SendGoInv ==
  ASSUME GoInv, NEW p \in Publishers, PublishSend(p)
  PROVE  GoInv' /\ Advances(p)
<1>0. PICK s \in Subs : s = target[p]
  <2>1. pc[p] # "idle" /\ pc[p] # "next"
    BY DEF PublishSend
  <2> QED
    BY <2>1, AtWork
<1>1. /\ pc[p] \in {"send", "retry"}
      /\ UNCHANGED <<published, sent, fresh, since, prefilled, received, subscribers,
                     flagged, shut, replay, carried, eventsDropped, todo, target>>
      /\ \/ s \in shut /\ UNCHANGED <<pc, queue>>
         \/ /\ queue' = [queue EXCEPT ![s] = Append(@, carried[p])]
            /\ pc' = [pc EXCEPT ![p] = "sent"]
         \/ /\ pc' = [pc EXCEPT ![p] = IF pc[p] = "send" THEN "full" ELSE "lost"]
            /\ UNCHANGED queue
  BY <1>0 DEF PublishSend, Goto, counters, history
<1>2. /\ p \in Busy /\ p \in Threads /\ carried[p] \in Event
      /\ s \in Subs \ (todo[p] \cup fresh) /\ Matches(s, carried[p])
  BY <1>0, <1>1, AtWork
<1>3. /\ pc' \in [Threads -> Labels] /\ queue' \in [Subs -> Seq(Event)]
      /\ \A q \in Publishers \ {p} : pc'[q] = pc[q]
  <2>1. pc' \in [Threads -> Labels] /\ \A q \in Publishers \ {p} : pc'[q] = pc[q]
    BY <1>1, <1>2, PublisherTypes DEF Threads, Labels
  <2>2. queue' \in [Subs -> Seq(Event)]
    <3>1. Append(queue[s], carried[p]) \in Seq(Event)
      BY <1>2, PublisherTypes, AppendElements
    <3> QED
      BY <1>1, <1>2, <3>1, PublisherTypes
  <2> QED
    BY <2>1, <2>2
<1>4. \/ pc'[p] \in {"send", "retry", "full", "lost"} /\ queue' = queue
      \/ /\ pc'[p] = "sent" /\ queue'[s] = Append(queue[s], carried[p])
         /\ Len(queue'[s]) = Len(queue[s]) + 1
         /\ \A t \in Subs \ {s} : queue'[t] = queue[t]
  <2>1. queue \in [Subs -> Seq(Event)] /\ pc \in [Threads -> Labels]
    BY PublisherTypes
  <2>2. Len(Append(queue[s], carried[p])) = Len(queue[s]) + 1
    BY <1>2, <2>1, AppendElements
  <2>3. CASE UNCHANGED <<pc, queue>>
    BY <1>1, <2>3
  <2>4. CASE /\ queue' = [queue EXCEPT ![s] = Append(@, carried[p])]
             /\ pc' = [pc EXCEPT ![p] = "sent"]
    BY <1>2, <2>1, <2>2, <2>4
  <2>5. CASE /\ pc' = [pc EXCEPT ![p] = IF pc[p] = "send" THEN "full" ELSE "lost"]
             /\ UNCHANGED queue
    BY <1>2, <2>1, <2>5
  <2> QED
    BY <1>1, <2>3, <2>4, <2>5
<1>5. ASSUME NEW t \in Subs
      PROVE  /\ OnTheWay(t)' \subseteq OnTheWay(t)
             /\ t # s \/ pc'[p] # "sent" => (p \in OnTheWay(t)' <=> p \in OnTheWay(t))
             /\ p \in OnTheWay(s) /\ (pc'[p] = "sent" => p \notin OnTheWay(s)')
             /\ p \notin Dropping(t) /\ p \notin Dropping(t)'
  <2>1. /\ t # s \/ pc'[p] # "sent" => (p \in OnTheWay(t)' <=> p \in OnTheWay(t))
        /\ p \in OnTheWay(s) /\ (pc'[p] = "sent" => p \notin OnTheWay(s)')
    BY <1>0, <1>1, <1>2, <1>4, WhereIs
  <2>2. OnTheWay(t)' \ {p} = OnTheWay(t) \ {p}
    BY <1>1, <1>3, OthersStay
  <2>3. p \notin Dropping(t) /\ p \notin Dropping(t)'
    BY <1>1, <1>4, WhereIs
  <2> QED
    BY <2>1, <2>2, <2>3
<1>6. ASSUME NEW t \in Subs
      PROVE  ChannelInOrder(t)'
  <2>1. CASE queue'[t] = queue[t]
    BY <1>1, <1>5, <2>1, PublisherTypes, ChannelStays DEF GoInv
  <2>2. CASE t = s /\ pc'[p] = "sent" /\ queue'[s] = Append(queue[s], carried[p])
    <3>1. /\ pc[p] # "idle" /\ p \in OnTheWay(s) /\ p \notin OnTheWay(s)'
          /\ OnTheWay(s)' \subseteq OnTheWay(s) /\ s \in Subs /\ sent' = sent
      BY <1>1, <1>2, <1>5, <2>2
    <3>2. ChannelInOrder(s)'
      BY <2>2, <3>1, ChannelTakes
    <3> QED
      BY <2>2, <3>2
  <2> QED
    BY <1>4, <2>1, <2>2
<1>7. ASSUME NEW t \in subscribers \ flagged
      PROVE  Len(queue'[t]) + eventsDropped'[t] + One(p, OnTheWay(t)') + One(p, Dropping(t)')
          = Len(queue[t]) + eventsDropped[t] + One(p, OnTheWay(t)) + One(p, Dropping(t))
  <2>1. t \in Subs /\ Len(queue[t]) \in Nat /\ eventsDropped[t] \in Nat
    BY PublisherTypes
  <2>2. CASE t = s /\ pc'[p] = "sent" /\ Len(queue'[s]) = Len(queue[s]) + 1
    <3>1. /\ One(p, OnTheWay(t)') = 0 /\ One(p, OnTheWay(t)) = 1
          /\ One(p, Dropping(t)') = 0 /\ One(p, Dropping(t)) = 0
      BY <1>5, <2>1, <2>2 DEF One
    <3> QED
      BY <1>1, <2>1, <2>2, <3>1
  <2>3. CASE queue'[t] = queue[t] /\ (t # s \/ pc'[p] # "sent")
    BY <1>1, <1>5, <2>1, <2>3 DEF One
  <2> QED
    BY <1>4, <2>1, <2>2, <2>3
<1>8. target'[p] \in Subs \ (todo'[p] \cup fresh) /\ Matches(target'[p], carried[p])
  BY <1>0, <1>1, <1>2
<1>9. \A t \in fresh : eventsDropped'[t] = 0 /\ Len(queue'[t]) = 0
  BY <1>1, <1>2, <1>4, PublisherTypes
<1>11. GoInv'
  BY <1>1, <1>2, <1>3, <1>6, <1>7, <1>8, <1>9, PublisherKeeps, PublisherTypes
<1>12. Advances(p)
  BY <1>4, <1>5 DEF Advances
<1> QED
  BY <1>11, <1>12

\* Room is made: what leaves the channel is in the publisher's hands until it is counted.
LEMMA DropGoInv ==
  ASSUME GoInv, NEW p \in Publishers, PublishDrop(p)
  PROVE  GoInv' /\ Advances(p)
<1>0. PICK s \in Subs : s = target[p]
  <2>1. pc[p] # "idle" /\ pc[p] # "next"
    BY DEF PublishDrop
  <2> QED
    BY <2>1, AtWork
<1>1. /\ pc[p] = "full"
      /\ UNCHANGED <<published, sent, fresh, since, prefilled, received, subscribers,
                     flagged, shut, replay, carried, eventsDropped, todo, target>>
      /\ \/ /\ queue[s] # <<>>
            /\ queue' = [queue EXCEPT ![s] = Tail(@)]
            /\ pc' = [pc EXCEPT ![p] = "dropped"]
         \/ /\ pc' = [pc EXCEPT ![p] = IF s \in shut THEN "dropped" ELSE "retry"]
            /\ UNCHANGED queue
  BY <1>0 DEF PublishDrop, Goto, counters, history
<1>2. /\ p \in Busy /\ p \in Threads
      /\ s \in Subs \ (todo[p] \cup fresh) /\ Matches(s, carried[p])
  BY <1>0, <1>1, AtWork
<1>3. /\ pc' \in [Threads -> Labels] /\ queue' \in [Subs -> Seq(Event)]
      /\ \A q \in Publishers \ {p} : pc'[q] = pc[q]
  <2>1. pc' \in [Threads -> Labels] /\ \A q \in Publishers \ {p} : pc'[q] = pc[q]
    BY <1>1, <1>2, PublisherTypes DEF Threads, Labels
  <2>2. queue' \in [Subs -> Seq(Event)]
    <3>1. queue[s] # <<>> => Tail(queue[s]) \in Seq(Event)
      BY PublisherTypes, TailElements
    <3> QED
      BY <1>1, <3>1, PublisherTypes
  <2> QED
    BY <2>1, <2>2
<1>4. \/ /\ pc'[p] = "dropped" /\ queue[s] # <<>> /\ queue'[s] = Tail(queue[s])
         /\ Len(queue'[s]) = Len(queue[s]) - 1
         /\ \A t \in Subs \ {s} : queue'[t] = queue[t]
      \/ pc'[p] = "retry" /\ queue' = queue
      \/ pc'[p] = "dropped" /\ s \in shut /\ queue' = queue
  <2>1. queue \in [Subs -> Seq(Event)] /\ pc \in [Threads -> Labels]
    BY PublisherTypes
  <2>2. CASE /\ queue[s] # <<>>
             /\ queue' = [queue EXCEPT ![s] = Tail(@)]
             /\ pc' = [pc EXCEPT ![p] = "dropped"]
    <3>1. Len(Tail(queue[s])) = Len(queue[s]) - 1
      BY <2>1, <2>2, TailElements
    <3> QED
      BY <1>2, <2>1, <2>2, <3>1
  <2>3. CASE /\ pc' = [pc EXCEPT ![p] = IF s \in shut THEN "dropped" ELSE "retry"]
             /\ UNCHANGED queue
    BY <1>2, <2>1, <2>3
  <2> QED
    BY <1>1, <2>2, <2>3
<1>5. ASSUME NEW t \in Subs
      PROVE  /\ OnTheWay(t)' = OnTheWay(t)
             /\ p \notin Dropping(t) /\ (p \in Dropping(t)' <=> pc'[p] = "dropped" /\ t = s)
  <2>1. p \in OnTheWay(t)' <=> p \in OnTheWay(t)
    BY <1>0, <1>1, <1>2, <1>4, WhereIs
  <2>2. OnTheWay(t)' \ {p} = OnTheWay(t) \ {p}
    BY <1>1, <1>3, OthersStay
  <2>3. p \notin Dropping(t) /\ (p \in Dropping(t)' <=> pc'[p] = "dropped" /\ t = s)
    BY <1>0, <1>1, <1>4, WhereIs
  <2> QED
    BY <2>1, <2>2, <2>3
<1>6. ASSUME NEW t \in Subs
      PROVE  ChannelInOrder(t)'
  <2>1. queue'[t] = queue[t] \/ (queue[t] # <<>> /\ queue'[t] = Tail(queue[t]))
    BY <1>4
  <2> QED
    BY <1>1, <1>5, <2>1, PublisherTypes, ChannelStays DEF GoInv
<1>7. ASSUME NEW t \in subscribers \ flagged
      PROVE  Len(queue'[t]) + eventsDropped'[t] + One(p, OnTheWay(t)') + One(p, Dropping(t)')
          = Len(queue[t]) + eventsDropped[t] + One(p, OnTheWay(t)) + One(p, Dropping(t))
  <2>1. /\ t \in Subs /\ t \notin shut /\ Len(queue[t]) \in Nat /\ eventsDropped[t] \in Nat
        /\ One(p, OnTheWay(t)) \in Nat
    BY PublisherTypes DEF One
  <2>2. CASE t = s /\ pc'[p] = "dropped" /\ Len(queue'[s]) = Len(queue[s]) - 1
    <3>1. /\ One(p, OnTheWay(t)') = One(p, OnTheWay(t))
          /\ One(p, Dropping(t)') = 1 /\ One(p, Dropping(t)) = 0
      BY <1>5, <2>1, <2>2 DEF One
    <3> QED
      BY <1>1, <2>1, <2>2, <3>1
  <2>3. CASE queue'[t] = queue[t] /\ (t # s \/ pc'[p] # "dropped")
    <3>1. /\ One(p, OnTheWay(t)') = One(p, OnTheWay(t))
          /\ One(p, Dropping(t)') = One(p, Dropping(t))
      BY <1>5, <2>1, <2>3 DEF One
    <3> QED
      BY <1>1, <2>3, <3>1
  <2> QED
    BY <1>4, <2>1, <2>2, <2>3
<1>8. target'[p] \in Subs \ (todo'[p] \cup fresh) /\ Matches(target'[p], carried[p])
  BY <1>0, <1>1, <1>2
<1>9. \A t \in fresh : eventsDropped'[t] = 0 /\ Len(queue'[t]) = 0
  BY <1>1, <1>2, <1>4, PublisherTypes
<1>11. GoInv'
  BY <1>1, <1>2, <1>3, <1>6, <1>7, <1>8, <1>9, PublisherKeeps, PublisherTypes
<1>12. Advances(p)
  BY <1>4, <1>5 DEF Advances
<1> QED
  BY <1>11, <1>12

\* The counters are brought up to date, and what was dropped is not lost from the account.
LEMMA CountGoInv ==
  ASSUME GoInv, NEW p \in Publishers, PublishCount(p)
  PROVE  GoInv' /\ Advances(p)
<1>0. PICK s \in Subs : s = target[p]
  <2>1. pc[p] # "idle" /\ pc[p] # "next"
    BY DEF PublishCount
  <2> QED
    BY <2>1, AtWork
<1>1. /\ pc[p] \in {"sent", "dropped", "lost"}
      /\ UNCHANGED <<published, sent, fresh, since, prefilled, received, subscribers,
                     flagged, shut, replay, carried, queue, todo, target>>
      /\ pc' = [pc EXCEPT ![p] = IF pc[p] = "dropped" THEN "retry" ELSE "next"]
      /\ eventsDropped' = IF pc[p] = "sent" THEN eventsDropped ELSE [eventsDropped EXCEPT ![s] = @ + 1]
  BY <1>0 DEF PublishCount, Goto, channels, history
<1>2. /\ p \in Busy /\ p \in Threads
      /\ s \in Subs \ (todo[p] \cup fresh) /\ Matches(s, carried[p])
  BY <1>0, <1>1, AtWork
<1>3. /\ pc' \in [Threads -> Labels] /\ eventsDropped' \in [Subs -> Nat]
      /\ \A q \in Publishers \ {p} : pc'[q] = pc[q]
      /\ \A t \in Subs \ {s} : eventsDropped'[t] = eventsDropped[t]
      /\ eventsDropped'[s] = (IF pc[p] = "sent" THEN eventsDropped[s] ELSE eventsDropped[s] + 1)
      /\ pc'[p] = (IF pc[p] = "dropped" THEN "retry" ELSE "next")
  <2>1. /\ pc' \in [Threads -> Labels] /\ \A q \in Publishers \ {p} : pc'[q] = pc[q]
        /\ pc'[p] = (IF pc[p] = "dropped" THEN "retry" ELSE "next")
    BY <1>1, <1>2, PublisherTypes DEF Threads, Labels
  <2>2. /\ eventsDropped' \in [Subs -> Nat]
        /\ \A t \in Subs \ {s} : eventsDropped'[t] = eventsDropped[t]
        /\ eventsDropped'[s] = (IF pc[p] = "sent" THEN eventsDropped[s] ELSE eventsDropped[s] + 1)
    BY <1>1, PublisherTypes
  <2> QED
    BY <2>1, <2>2
<1>5. ASSUME NEW t \in Subs
      PROVE  /\ OnTheWay(t)' \subseteq OnTheWay(t)
             /\ p \in OnTheWay(t) /\ p \notin OnTheWay(t)' <=> t = s /\ pc[p] = "lost"
             /\ p \in Dropping(t) <=> t = s /\ pc[p] = "dropped"
             /\ p \notin Dropping(t)'
  <2>1. /\ p \in OnTheWay(t)' => p \in OnTheWay(t)
        /\ p \in OnTheWay(t) /\ p \notin OnTheWay(t)' <=> t = s /\ pc[p] = "lost"
    BY <1>0, <1>1, <1>2, <1>3, WhereIs
  <2>2. OnTheWay(t)' \ {p} = OnTheWay(t) \ {p}
    BY <1>1, <1>3, OthersStay
  <2>3. (p \in Dropping(t) <=> t = s /\ pc[p] = "dropped") /\ p \notin Dropping(t)'
    BY <1>0, <1>1, <1>3, WhereIs
  <2> QED
    BY <2>1, <2>2, <2>3
<1>6. ASSUME NEW t \in Subs
      PROVE  ChannelInOrder(t)'
  BY <1>1, <1>5, PublisherTypes, ChannelStays DEF GoInv
<1>7. ASSUME NEW t \in subscribers \ flagged
      PROVE  Len(queue'[t]) + eventsDropped'[t] + One(p, OnTheWay(t)') + One(p, Dropping(t)')
          = Len(queue[t]) + eventsDropped[t] + One(p, OnTheWay(t)) + One(p, Dropping(t))
  <2>1. /\ t \in Subs /\ Len(queue[t]) \in Nat /\ eventsDropped[t] \in Nat
        /\ One(p, OnTheWay(t)) \in Nat /\ Len(queue'[t]) = Len(queue[t])
    BY <1>1, PublisherTypes DEF One
  <2>2. CASE t = s /\ pc[p] = "dropped"
    <3>1. /\ One(p, OnTheWay(t)') = One(p, OnTheWay(t))
          /\ One(p, Dropping(t)') = 0 /\ One(p, Dropping(t)) = 1
          /\ eventsDropped'[t] = eventsDropped[t] + 1
      BY <1>3, <1>5, <2>1, <2>2 DEF One
    <3> QED
      BY <2>1, <3>1
  <2>3. CASE t = s /\ pc[p] = "lost"
    <3>1. /\ One(p, OnTheWay(t)') = 0 /\ One(p, OnTheWay(t)) = 1
          /\ One(p, Dropping(t)') = 0 /\ One(p, Dropping(t)) = 0
          /\ eventsDropped'[t] = eventsDropped[t] + 1
      BY <1>3, <1>5, <2>1, <2>3 DEF One
    <3> QED
      BY <2>1, <3>1
  <2>4. CASE t # s \/ pc[p] = "sent"
    <3>1. /\ One(p, OnTheWay(t)') = One(p, OnTheWay(t))
          /\ One(p, Dropping(t)') = 0 /\ One(p, Dropping(t)) = 0
          /\ eventsDropped'[t] = eventsDropped[t]
      BY <1>3, <1>5, <2>1, <2>4 DEF One
    <3> QED
      BY <2>1, <3>1
  <2> QED
    BY <1>1, <2>2, <2>3, <2>4
<1>8. target'[p] \in Subs \ (todo'[p] \cup fresh) /\ Matches(target'[p], carried[p])
  BY <1>0, <1>1, <1>2
<1>9. \A t \in fresh : eventsDropped'[t] = 0 /\ Len(queue'[t]) = 0
  BY <1>1, <1>2, <1>3, PublisherTypes
<1>10. /\ queue' \in [Subs -> Seq(Event)] /\ target' \in [Threads -> Subs \cup {None}]
       /\ todo' \in [Publishers -> SUBSET Subs] /\ todo'[p] \subseteq todo[p]
       /\ \A q \in Publishers \ {p} : pc'[q] = pc[q] /\ todo'[q] = todo[q] /\ target'[q] = target[q]
       /\ UNCHANGED <<published, sent, fresh, since, prefilled, received, subscribers,
                      flagged, shut, replay, carried>>
  BY <1>1, <1>3, PublisherTypes
<1>11. GoInv'
  BY <1>2, <1>3, <1>6, <1>7, <1>8, <1>9, <1>10, PublisherKeeps
<1>12. Advances(p)
  BY <1>1, <1>5 DEF Advances
<1> QED
  BY <1>11, <1>12

-----------------------------------------------------------------------------
\* What the replay buffer keeps of a sequence: its end.
LEMMA NewestIs ==
  ASSUME NEW q \in Seq(Event), NEW n \in Nat
  PROVE  /\ Newest(q, n) \in Seq(Event)
         /\ Len(Newest(q, n)) = (IF Len(q) > n THEN n ELSE Len(q))
         /\ \A i \in 1 .. Len(Newest(q, n)) : Newest(q, n)[i] = q[(Len(q) - Len(Newest(q, n))) + i]
<1> DEFINE m == IF Len(q) > n THEN Len(q) - n + 1 ELSE 1
           new == SubSeq(q, m, Len(q))
<1>1. Len(q) \in Nat /\ \A i \in 1 .. Len(q) : q[i] \in Event
  OBVIOUS
<1>2. m \in Int /\ m >= 1 /\ Len(q) - m + 1 = (IF Len(q) > n THEN n ELSE Len(q)) /\ m <= Len(q) + 1
  BY <1>1
<1> HIDE DEF m
<1>3. \A i \in m .. Len(q) : q[i] \in Event
  BY <1>1, <1>2
<1>4. /\ new \in Seq(Event) /\ Len(new) = (IF m <= Len(q) THEN Len(q) - m + 1 ELSE 0)
      /\ \A i \in 1 .. Len(q) - m + 1 : new[i] = q[m + i - 1]
  BY <1>1, <1>2, <1>3, SubSeqProperties
<1> HIDE DEF new
<1>5. Len(new) = Len(q) - m + 1
  BY <1>1, <1>2, <1>4
<1>6. \A i \in 1 .. Len(new) : m + i - 1 = (Len(q) - Len(new)) + i
  BY <1>1, <1>2, <1>5
<1>7. Newest(q, n) = new
  BY DEF Newest, new, m
<1> QED
  BY <1>2, <1>4, <1>5, <1>6, <1>7

\* A new event is recorded: its publisher sets out for those that subscribe now.
LEMMA RecordGoInv ==
  ASSUME GoInv, NEW p \in Publishers, PublishRecord(p)
  PROVE  GoInv'
<1> DEFINE e == NextOf(p)
<1>0. /\ GoTypeOK /\ PublishedInOrder /\ ReplayIsRecent /\ PublishersOK /\ FreshIsUnknown
      /\ \A s \in Subs : ChannelInOrder(s)
      /\ \A s \in subscribers \ flagged : Accounted(s)
  BY DEF GoInv
<1>1. /\ published' = Append(published, e) /\ sent' = [sent EXCEPT ![p] = @ + 1]
      /\ replay' = Newest(Append(replay, e), ReplaySize)
      /\ carried' = [carried EXCEPT ![p] = e] /\ todo' = [todo EXCEPT ![p] = subscribers]
      /\ pc[p] = "idle" /\ pc' = [pc EXCEPT ![p] = "next"]
      /\ UNCHANGED <<subscribers, flagged, shut, queue, eventsDropped, target, fresh, since,
                     prefilled, received>>
  BY DEF PublishRecord, Goto, channels, counters
<1>2. /\ e \in Event /\ e.pub = p /\ e.n = sent[p] + 1 /\ sent[p] \in Nat
      /\ e = [pub |-> p, n |-> sent[p] + 1]
  BY <1>0 DEF NextOf, Event, GoTypeOK
<1> HIDE DEF e
<1>3. published \in Seq(Event) /\ replay \in Seq(Event) /\ ReplaySize \in Nat /\ p \in Threads
  BY <1>0, GoBusAssumption DEF GoTypeOK, Threads
<1>4. /\ published' \in Seq(Event) /\ Len(published') = Len(published) + 1 /\ Len(published) \in Nat
      /\ \A i \in 1 .. Len(published) : i \in 1 .. Len(published) + 1 /\ published'[i] = published[i]
      /\ published'[Len(published) + 1] = e /\ Len(published) + 1 \in 1 .. Len(published) + 1
      /\ \A i \in 1 .. Len(published) + 1 : i \in 1 .. Len(published) \/ i = Len(published) + 1
  BY <1>1, <1>2, <1>3, AppendElements
<1>5. PublishedInOrder'
  <2>1. /\ sent' \in [Publishers -> Nat] /\ sent'[p] = sent[p] + 1
        /\ \A q \in Publishers : q # p => sent'[q] = sent[q]
    BY <1>0, <1>1 DEF GoTypeOK
  <2>2. \A i \in 1 .. Len(published) : published[i] \in Event
    BY <1>3
  <2>3. \A i \in 1 .. Len(published) : published[i].pub \in Publishers /\ published[i].n \in Nat
    BY <2>2 DEF Event
  <2>4. ASSUME NEW i \in 1 .. Len(published')
        PROVE  published'[i].n <= sent'[published'[i].pub]
    <3>1. CASE i \in 1 .. Len(published)
      <4>1. published[i].n <= sent[published[i].pub] /\ published[i].pub \in Publishers /\ published[i].n \in Nat
        BY <1>0, <2>3, <3>1 DEF PublishedInOrder
      <4>2. published'[i] = published[i]
        BY <1>4, <3>1
      <4>3. CASE published[i].pub = p
        BY <1>2, <2>1, <4>1, <4>2, <4>3
      <4>4. CASE published[i].pub # p
        BY <2>1, <4>1, <4>2, <4>4
      <4> QED
        BY <4>3, <4>4
    <3>2. CASE i = Len(published) + 1
      BY <1>2, <1>4, <2>1, <3>2
    <3> QED
      BY <1>4, <3>1, <3>2
  <2>5. ASSUME NEW i \in 1 .. Len(published'), NEW j \in 1 .. Len(published'), i < j,
               published'[i].pub = published'[j].pub
        PROVE  published'[i].n < published'[j].n
    <3>1. i \in 1 .. Len(published)
      BY <1>4, <2>5
    <3>2. CASE j \in 1 .. Len(published)
      BY <1>0, <1>4, <2>5, <3>1, <3>2 DEF PublishedInOrder
    <3>3. CASE j = Len(published) + 1
      <4>1. published'[i] = published[i] /\ published'[j] = e
        BY <1>4, <3>1, <3>3
      <4>2. published[i].n <= sent[p] /\ published[i].n \in Nat
        BY <1>0, <1>2, <2>3, <2>5, <3>1, <4>1 DEF PublishedInOrder
      <4> QED
        BY <1>2, <4>1, <4>2
    <3> QED
      BY <1>4, <3>2, <3>3
  <2> QED
    BY <2>4, <2>5 DEF PublishedInOrder
<1>6. ReplayIsRecent' /\ replay' \in Seq(Event)
  <2> DEFINE long == Append(replay, e)
             n == Len(replay)
             n2 == Len(replay')
             m == Len(published)
  <2>1. /\ long \in Seq(Event) /\ Len(long) = n + 1 /\ n \in Nat
        /\ \A a \in 1 .. n : long[a] = replay[a]
        /\ long[n + 1] = e
        /\ \A i \in 1 .. n + 1 : i \in 1 .. n \/ i = n + 1
    BY <1>2, <1>3, AppendElements
  <2>2. replay' = Newest(long, ReplaySize)
    BY <1>1
  <2> HIDE DEF long
  <2>3. /\ replay' \in Seq(Event)
        /\ Len(replay') = (IF Len(long) > ReplaySize THEN ReplaySize ELSE Len(long))
        /\ \A i \in 1 .. Len(replay') : replay'[i] = long[(Len(long) - Len(replay')) + i]
    BY <1>3, <2>1, <2>2, NewestIs
  <2>4. /\ n <= m /\ n <= ReplaySize
        /\ \A i \in 1 .. n : replay[i] = published[(m - n) + i]
    BY <1>0 DEF ReplayIsRecent
  <2>n. n2 \in Nat /\ m \in Nat
    BY <1>3, <2>3
  <2> HIDE DEF n, n2, m
  <2>5. n2 <= n + 1 /\ n2 <= ReplaySize /\ n2 <= m + 1
    BY <1>3, <2>1, <2>3, <2>4, <2>n DEF n2
  <2>6. ASSUME NEW i \in 1 .. n2
        PROVE  replay'[i] = published'[((m + 1) - n2) + i]
    <3> DEFINE x == ((n + 1) - n2) + i
               off == m - n
    <3>1. replay'[i] = long[x]
      BY <2>1, <2>3 DEF n2
    <3>2. x \in 1 .. n + 1 /\ ((m + 1) - n2) + i = off + x
      BY <2>1, <2>5, <2>n
    <3> HIDE DEF x
    <3>3. CASE x \in 1 .. n
      <4>1. long[x] = published[off + x]
        BY <2>1, <2>4, <3>3
      <4>2. off + x \in 1 .. m
        BY <2>1, <2>4, <2>n, <3>3
      <4>3. published'[off + x] = published[off + x]
        BY <1>4, <4>2 DEF m
      <4> QED
        BY <3>1, <3>2, <4>1, <4>3
    <3>4. CASE x = n + 1
      <4>1. off + x = m + 1
        BY <2>1, <2>n, <3>4
      <4>2. long[x] = e
        BY <2>1, <3>4
      <4>3. published'[m + 1] = e
        BY <1>4 DEF m
      <4> QED
        BY <3>1, <3>2, <4>1, <4>2, <4>3
    <3> QED
      BY <2>1, <3>2, <3>3, <3>4
  <2>7. Len(published') = m + 1
    BY <1>4 DEF m
  <2> QED
    BY <2>3, <2>5, <2>6, <2>7 DEF ReplayIsRecent, n2
<1>7. /\ carried' \in [Publishers -> Event \cup {None}] /\ carried'[p] = e
      /\ sent' \in [Publishers -> Nat] /\ sent'[p] = sent[p] + 1
      /\ todo' \in [Publishers -> SUBSET Subs] /\ todo'[p] = subscribers
      /\ pc' \in [Threads -> Labels] /\ pc'[p] = "next"
      /\ \A q \in Publishers \ {p} :
           /\ pc'[q] = pc[q] /\ todo'[q] = todo[q] /\ target'[q] = target[q]
           /\ carried'[q] = carried[q] /\ sent'[q] = sent[q]
  BY <1>0, <1>1, <1>2, <1>3 DEF GoTypeOK, Labels, Threads
<1>8. GoTypeOK'
  BY <1>0, <1>1, <1>4, <1>6, <1>7 DEF GoTypeOK
<1>9. /\ p \in Busy' /\ p \notin Busy /\ Busy' = Busy \cup {p} /\ Busy \subseteq Publishers
  <2>1. p \in Busy' /\ p \notin Busy /\ Busy \subseteq Publishers
    BY <1>1, <1>7 DEF Busy
  <2>2. Busy' \ {p} = Busy \ {p}
    BY <1>7, OthersStay
  <2> QED
    BY <2>1, <2>2
<1>10. PublishersOK'
  <2>1. IsFiniteSet(Busy')
    BY <1>0, <1>9, FS_AddElement DEF PublishersOK
  <2>2. ASSUME NEW q \in Busy'
        PROVE  /\ carried'[q] = [pub |-> q, n |-> sent'[q]] /\ sent'[q] >= 1
               /\ pc'[q] # "next" =>
                    target'[q] \in Subs \ todo'[q] /\ Matches(target'[q], carried'[q])
    <3>1. CASE q = p
      BY <1>2, <1>7, <3>1
    <3>2. CASE q # p
      <4>1. q \in Busy /\ q \in Publishers \ {p}
        BY <1>9, <3>2
      <4> QED
        BY <1>0, <1>7, <4>1 DEF PublishersOK
    <3> QED
      BY <3>1, <3>2
  <2> QED
    BY <2>1, <2>2 DEF PublishersOK, Matches
<1>11. FreshIsUnknown'
  <2>1. ASSUME NEW s \in fresh', NEW q \in Publishers
        PROVE  s \notin todo'[q] /\ (q \in Busy' /\ pc'[q] # "next" => target'[q] # s)
    <3>1. CASE q = p
      BY <1>0, <1>1, <1>7, <2>1, <3>1 DEF FreshIsUnknown
    <3>2. CASE q # p
      <4>1. q \in Publishers \ {p} /\ (q \in Busy' => q \in Busy)
        BY <1>9, <3>2
      <4> QED
        BY <1>0, <1>1, <1>7, <2>1, <4>1 DEF FreshIsUnknown
    <3> QED
      BY <3>1, <3>2
  <2> QED
    BY <1>0, <1>1, <2>1 DEF FreshIsUnknown
<1>12. ASSUME NEW s \in Subs
       PROVE  /\ OnTheWay(s)' \ {p} = OnTheWay(s) \ {p} /\ p \notin OnTheWay(s)
              /\ p \in OnTheWay(s)' <=> s \in subscribers /\ Matches(s, e)
              /\ Dropping(s)' = Dropping(s)
  <2>1. OnTheWay(s)' \ {p} = OnTheWay(s) \ {p} /\ Dropping(s)' \ {p} = Dropping(s) \ {p}
    BY <1>7, OthersStay
  <2>2. /\ p \notin OnTheWay(s) /\ p \notin Dropping(s) /\ p \notin Dropping(s)'
        /\ p \in OnTheWay(s)' <=> s \in subscribers /\ Matches(s, e)
    BY <1>1, <1>7, WhereIs
  <2> QED
    BY <2>1, <2>2
<1>13. ASSUME NEW s \in Subs
       PROVE  ChannelInOrder(s)'
  <2>1. /\ \A a, b \in 1 .. Len(queue[s]) :
             a < b /\ queue[s][a].pub = queue[s][b].pub => queue[s][a].n < queue[s][b].n
        /\ \A a \in 1 .. Len(queue[s]) :
             /\ queue[s][a].n <= sent[queue[s][a].pub]
             /\ queue[s][a].pub \in OnTheWay(s) => queue[s][a].n < sent[queue[s][a].pub]
    BY <1>0 DEF ChannelInOrder
  <2>2. ASSUME NEW a \in 1 .. Len(queue[s])
        PROVE  /\ queue[s][a].n <= sent'[queue[s][a].pub]
               /\ queue[s][a].pub \in OnTheWay(s)' => queue[s][a].n < sent'[queue[s][a].pub]
    <3>1. queue[s][a] \in Event
      BY <1>0 DEF GoTypeOK
    <3>2. queue[s][a].pub \in Publishers /\ queue[s][a].n \in Nat
      BY <3>1 DEF Event
    <3>3. CASE queue[s][a].pub = p
      BY <1>2, <1>7, <2>1, <3>2, <3>3
    <3>4. CASE queue[s][a].pub # p
      BY <1>7, <1>12, <2>1, <3>2, <3>4
    <3> QED
      BY <3>3, <3>4
  <2> QED
    BY <1>1, <2>1, <2>2 DEF ChannelInOrder
<1>14. ASSUME NEW s \in subscribers' \ flagged'
       PROVE  Accounted(s)'
  <2> DEFINE O == OfferedTo(s)
             O2 == OfferedTo(s)'
             W == OnTheWay(s)
             W2 == OnTheWay(s)'
             x == Len(published) + 1
             rest == Len(received[s]) + Len(queue[s]) + eventsDropped[s] 
             d == Cardinality(Dropping(s))
             f == prefilled[s]
  <2>1. s \in subscribers \ flagged /\ s \in Subs
    BY <1>0, <1>1 DEF GoTypeOK
  <2>2. /\ rest + Cardinality(W) + d = f + Cardinality(O)
        /\ rest \in Nat /\ f \in Nat /\ d \in Nat /\ IsFiniteSet(W) /\ IsFiniteSet(O)
    <3>1. rest + Cardinality(W) + d = f + Cardinality(O)
      BY <1>0, <2>1 DEF Accounted
    <3>2. rest \in Nat /\ f \in Nat
      BY <1>0, <2>1 DEF GoTypeOK
    <3>3. d \in Nat /\ IsFiniteSet(W) /\ IsFiniteSet(O)
      BY <1>0, <2>1, BusyFew, OfferedFinite
    <3> QED
      BY <3>1, <3>2, <3>3
  <2>3. O2 \ {x} = O \ {x} /\ x \notin O /\ (x \in O2 <=> Matches(s, e))
    <3>1. since[s] \in Nat /\ since'[s] = since[s]
      BY <1>0, <1>1, <2>1 DEF GoTypeOK
    <3>2. \A i \in 1 .. Len(published) : Matches(s, published'[i]) <=> Matches(s, published[i])
      BY <1>4
    <3>3. O = {i \in (since[s] + 1) .. Len(published) : Matches(s, published[i])}
      BY DEF OfferedTo
    <3>4. O2 = {i \in (since[s] + 1) .. Len(published) + 1 : Matches(s, published'[i])}
      BY <1>4, <3>1 DEF OfferedTo, Matches
    <3>5. since[s] <= Len(published)
      BY <1>0, <2>1 DEF GoTypeOK
    <3> HIDE DEF O, O2
    <3> QED
      BY <1>4, <3>1, <3>2, <3>3, <3>4, <3>5
  <2>4. W2 \ {p} = W \ {p} /\ p \notin W /\ (p \in W2 <=> Matches(s, e))
    BY <1>12, <2>1
  <2>5. /\ rest = Len(received'[s]) + Len(queue'[s]) + eventsDropped'[s]
        /\ d = Cardinality(Dropping(s)') /\ f = prefilled'[s]
    BY <1>1, <1>12, <2>1
  <2> HIDE DEF O, O2, W, W2, rest, d, f
  <2>6. /\ Cardinality(W) \in Nat /\ Cardinality(W2) \in Nat
        /\ Cardinality(W2) + 0 = Cardinality(W) + (IF Matches(s, e) THEN 1 ELSE 0)
    BY <2>2, <2>4, CountsDiffer
  <2>7. /\ Cardinality(O) \in Nat /\ Cardinality(O2) \in Nat
        /\ Cardinality(O2) + 0 = Cardinality(O) + (IF Matches(s, e) THEN 1 ELSE 0)
    BY <2>2, <2>3, CountsDiffer
  <2>8. rest + Cardinality(W2) + d = f + Cardinality(O2)
    BY <2>2, <2>6, <2>7
  <2> QED
    BY <2>5, <2>8 DEF Accounted, O2, W2
<1> QED
  BY <1>5, <1>6, <1>8, <1>10, <1>11, <1>13, <1>14 DEF GoInv

\* What the matching events of the replay buffer are.
LEMMA PrefillIs ==
  ASSUME GoInv, NEW s \in Subs
  PROVE  /\ Prefill(s) \in Seq(Event)
         /\ \A a \in 1 .. Len(Prefill(s)) : \E i \in 1 .. Len(published) :
              /\ i > Len(published) - ReplaySize
              /\ Prefill(s)[a] = published[i] /\ Matches(s, published[i])
         /\ \A a, b \in 1 .. Len(Prefill(s)) :
              a < b /\ Prefill(s)[a].pub = Prefill(s)[b].pub => Prefill(s)[a].n < Prefill(s)[b].n
<1> DEFINE places == {i \in 1 .. Len(replay) : Matches(s, replay[i])}
           m == Matching(s, replay)
           c == IF Len(m) > Capacity THEN Capacity ELSE Len(m)
           first == SubSeq(m, 1, c)
           off == Len(published) - Len(replay)
<1>0. GoTypeOK /\ PublishedInOrder /\ ReplayIsRecent
  BY DEF GoInv
<1>1. /\ m \in Seq(Event)
      /\ \A k \in 1 .. Len(m) : \E i \in 1 .. Len(replay) : m[k] = replay[i] /\ Matches(s, replay[i])
      /\ \A k, l \in 1 .. Len(m) : k < l =>
           \E i, j \in 1 .. Len(replay) : i < j /\ m[k] = replay[i] /\ m[l] = replay[j]
  <2>1. m = Picked(replay, places)
    BY DEF Matching
  <2>2. places \in SUBSET (1 .. Len(replay)) /\ \A i \in places : Matches(s, replay[i])
    OBVIOUS
  <2>3. replay \in Seq(Event)
    BY <1>0 DEF GoTypeOK
  <2> HIDE DEF places, m
  <2>4. /\ Picked(replay, places) \in Seq(Event)
        /\ \A k \in 1 .. Len(Picked(replay, places)) : \E i \in places : Picked(replay, places)[k] = replay[i]
        /\ \A k, l \in 1 .. Len(Picked(replay, places)) : k < l =>
             \E i, j \in places :
               i < j /\ Picked(replay, places)[k] = replay[i] /\ Picked(replay, places)[l] = replay[j]
    BY <2>2, <2>3, PickedIs
  <2> QED
    BY <2>1, <2>2, <2>4
<1>2. Prefill(s) = first
  BY DEF Prefill
<1> HIDE DEF m
<1>3. Len(m) \in Nat /\ Capacity \in Nat /\ \A i \in 1 .. Len(m) : m[i] \in Event
  BY <1>1, GoBusAssumption
<1>4. c \in Nat /\ c <= Len(m)
  BY <1>3
<1> HIDE DEF c
<1>6. first \in Seq(Event) /\ Len(first) = c /\ \A a \in 1 .. c : a \in 1 .. Len(m) /\ first[a] = m[a]
  <2>1. \A a \in 1 .. c : m[a] \in Event /\ a \in 1 .. Len(m)
    BY <1>3, <1>4
  <2>2. /\ first \in Seq(Event) /\ Len(first) = (IF 1 <= c THEN c - 1 + 1 ELSE 0)
        /\ \A i \in 1 .. c - 1 + 1 : first[i] = m[1 + i - 1]
    BY <1>4, <2>1, SubSeqProperties
  <2> HIDE DEF first
  <2>3. \A i \in 1 .. c : i \in 1 .. c - 1 + 1 /\ 1 + i - 1 = i
    BY <1>4
  <2>4. Len(first) = c
    BY <1>4, <2>2
  <2> QED
    BY <2>1, <2>2, <2>3, <2>4
<1> HIDE DEF first
<1>7. \A i \in 1 .. Len(replay) :
        /\ off + i \in 1 .. Len(published) /\ off + i > Len(published) - ReplaySize
        /\ replay[i] = published[off + i]
  <2>1. Len(replay) \in Nat /\ Len(published) \in Nat /\ ReplaySize \in Nat
    BY <1>0, GoBusAssumption DEF GoTypeOK
  <2>2. \A i \in 1 .. Len(replay) : off + i \in 1 .. Len(published) /\ off + i > Len(published) - ReplaySize
    BY <1>0, <2>1 DEF ReplayIsRecent
  <2> QED
    BY <1>0, <2>1, <2>2 DEF ReplayIsRecent
<1>8. off \in Int /\ \A i, j \in 1 .. Len(replay) : i < j => off + i < off + j
  <2>1. Len(replay) \in Nat /\ Len(published) \in Nat
    BY <1>0 DEF GoTypeOK
  <2> QED
    BY <2>1
<1> HIDE DEF off
<1>9. ASSUME NEW a \in 1 .. Len(first)
      PROVE  \E i \in 1 .. Len(published) :
               i > Len(published) - ReplaySize /\ first[a] = published[i] /\ Matches(s, published[i])
  <2>1. PICK i \in 1 .. Len(replay) : m[a] = replay[i] /\ Matches(s, replay[i])
    BY <1>1, <1>6
  <2> QED
    BY <1>6, <1>7, <2>1
<1>10. ASSUME NEW a \in 1 .. Len(first), NEW b \in 1 .. Len(first), a < b, first[a].pub = first[b].pub
       PROVE  first[a].n < first[b].n
  <2>1. a \in 1 .. Len(m) /\ b \in 1 .. Len(m) /\ first[a] = m[a] /\ first[b] = m[b]
    BY <1>6
  <2>2. PICK i \in 1 .. Len(replay), j \in 1 .. Len(replay) : i < j /\ m[a] = replay[i] /\ m[b] = replay[j]
    BY <1>1, <1>10, <2>1, Zenon
  <2> QED
    BY <1>0, <1>7, <1>8, <1>10, <2>1, <2>2 DEF PublishedInOrder
<1> QED
  BY <1>2, <1>6, <1>9, <1>10

\* A subscription is made: nothing was offered to it yet but what it starts with.
LEMMA SubscribeGoInv ==
  ASSUME GoInv, NEW s \in Subs, NEW fill \in BOOLEAN, Subscribe(s, fill)
  PROVE  GoInv'
<1>0. /\ GoTypeOK /\ PublishedInOrder /\ ReplayIsRecent /\ PublishersOK /\ FreshIsUnknown
      /\ \A t \in Subs : ChannelInOrder(t)
      /\ \A t \in subscribers \ flagged : Accounted(t)
  BY DEF GoInv
<1>1. /\ s \in fresh /\ fresh' = fresh \ {s} /\ subscribers' = subscribers \cup {s}
      /\ queue' = [queue EXCEPT ![s] = IF fill THEN Prefill(s) ELSE <<>>]
      /\ since' = [since EXCEPT ![s] = Len(published)]
      /\ prefilled' = [prefilled EXCEPT ![s] = Len(queue'[s])]
      /\ UNCHANGED <<replay, flagged, shut, eventsDropped, pc, todo, target, carried,
                     published, sent, received>>
  BY DEF Subscribe, locals
<1>2. /\ (IF fill THEN Prefill(s) ELSE <<>>) \in Seq(Event)
      /\ queue' \in [Subs -> Seq(Event)] /\ queue'[s] = (IF fill THEN Prefill(s) ELSE <<>>)
      /\ \A t \in Subs \ {s} : queue'[t] = queue[t] /\ since'[t] = since[t] /\ prefilled'[t] = prefilled[t]
      /\ since'[s] = Len(published) /\ since' \in [Subs -> Nat]
  <2>1. Prefill(s) \in Seq(Event) /\ <<>> \in Seq(Event)
    BY PrefillIs
  <2>2. Len(published) \in Nat
    BY <1>0 DEF GoTypeOK
  <2> QED
    BY <1>0, <1>1, <2>1, <2>2 DEF GoTypeOK
<1>3. Len(queue'[s]) \in Nat /\ prefilled' \in [Subs -> Nat] /\ prefilled'[s] = Len(queue'[s])
  <2>1. Len(queue'[s]) \in Nat
    BY <1>2
  <2> QED
    BY <1>0, <1>1, <2>1 DEF GoTypeOK
<1>4. GoTypeOK'
  <2>1. ASSUME NEW t \in Subs
        PROVE  since'[t] <= Len(published)
    <3>1. Len(published) \in Nat /\ since[t] <= Len(published)
      BY <1>0 DEF GoTypeOK
    <3>2. CASE t = s
      BY <1>2, <3>1, <3>2
    <3>3. CASE t # s
      BY <1>2, <3>1, <3>3
    <3> QED
      BY <3>2, <3>3
  <2> QED
    BY <1>0, <1>1, <1>2, <1>3, <2>1 DEF GoTypeOK
<1>5. PublishedInOrder' /\ ReplayIsRecent'
  BY <1>0, <1>1 DEF PublishedInOrder, ReplayIsRecent
<1>6. Busy' = Busy /\ \A t : OnTheWay(t)' = OnTheWay(t) /\ Dropping(t)' = Dropping(t)
  BY <1>1 DEF Busy, OnTheWay, Carrying, Dropping, Matches
<1>7. PublishersOK'
  BY <1>0, <1>1, <1>6 DEF PublishersOK, Matches
<1>8. FreshIsUnknown'
  BY <1>0, <1>1, <1>6 DEF FreshIsUnknown
<1>9. OnTheWay(s) = {} /\ Dropping(s) = {}
  <2>1. \A p \in Publishers : s \notin todo[p] /\ (p \in Busy /\ pc[p] # "next" => target[p] # s)
    BY <1>0, <1>1 DEF FreshIsUnknown
  <2> QED
    BY <2>1 DEF OnTheWay, Carrying, Dropping, Busy
<1>10. ASSUME NEW t \in Subs
       PROVE  ChannelInOrder(t)'
  <2>1. CASE t # s
    BY <1>0, <1>1, <1>2, <1>6, <2>1 DEF ChannelInOrder
  <2>2. CASE t = s /\ fill
    <3> DEFINE q == Prefill(s)
    <3>1. /\ \A a, b \in 1 .. Len(q) : a < b /\ q[a].pub = q[b].pub => q[a].n < q[b].n
          /\ \A a \in 1 .. Len(q) : \E i \in 1 .. Len(published) : q[a] = published[i]
      BY PrefillIs
    <3> HIDE DEF q
    <3>2. \A a \in 1 .. Len(q) : q[a].n <= sent[q[a].pub]
      BY <1>0, <3>1 DEF PublishedInOrder
    <3>3. queue'[s] = q
      BY <1>2, <2>2 DEF q
    <3> QED
      BY <1>1, <1>6, <1>9, <2>2, <3>1, <3>2, <3>3 DEF ChannelInOrder
  <2>3. CASE t = s /\ ~fill
    <3>1. Len(queue'[s]) = 0 /\ 1 .. 0 = {}
      BY <1>2, <2>3
    <3> QED
      BY <2>3, <3>1 DEF ChannelInOrder
  <2> QED
    BY <2>1, <2>2, <2>3
<1>11. ASSUME NEW t \in subscribers' \ flagged'
       PROVE  Accounted(t)'
  <2>1. CASE t # s
    <3>1. t \in subscribers \ flagged /\ t \in Subs
      BY <1>0, <1>1, <2>1 DEF GoTypeOK
    <3>2. OfferedTo(t)' = OfferedTo(t)
      BY <1>1, <1>2, <2>1, <3>1 DEF OfferedTo, Matches
    <3> QED
      BY <1>0, <1>1, <1>2, <1>6, <2>1, <3>1, <3>2 DEF Accounted
  <2>2. CASE t = s
    <3>1. OfferedTo(s)' = {}
      <4>1. Len(published) \in Nat
        BY <1>0 DEF GoTypeOK
      <4>2. (Len(published) + 1) .. Len(published) = {}
        BY <4>1
      <4> QED
        BY <1>1, <1>2, <4>2 DEF OfferedTo
    <3>2. Len(received'[s]) = 0 /\ eventsDropped'[s] = 0
      BY <1>0, <1>1 DEF FreshIsUnknown
    <3>3. /\ Cardinality(OfferedTo(s)') = 0
          /\ Cardinality(OnTheWay(s)') = 0 /\ Cardinality(Dropping(s)') = 0
      BY <1>6, <1>9, <3>1, FS_EmptySet
    <3> QED
      BY <1>3, <2>2, <3>2, <3>3 DEF Accounted
  <2> QED
    BY <2>1, <2>2
<1> QED
  BY <1>4, <1>5, <1>7, <1>8, <1>10, <1>11 DEF GoInv

\* An event is received: it moves from the channel to the subscriber.
LEMMA ReceiveGoInv ==
  ASSUME GoInv, NEW s \in Subs, Receive(s)
  PROVE  GoInv'
<1>0. /\ GoTypeOK /\ PublishedInOrder /\ ReplayIsRecent /\ PublishersOK /\ FreshIsUnknown
      /\ \A t \in Subs : ChannelInOrder(t)
      /\ \A t \in subscribers \ flagged : Accounted(t)
  BY DEF GoInv
<1>1. /\ queue[s] # <<>> /\ queue' = [queue EXCEPT ![s] = Tail(@)]
      /\ received' = [received EXCEPT ![s] = Append(@, Head(queue[s]))]
      /\ UNCHANGED <<replay, subscribers, flagged, shut, eventsDropped, pc, todo, target, carried,
                     published, sent, fresh, since, prefilled>>
  BY DEF Receive, counters, locals
<1>2. /\ queue' \in [Subs -> Seq(Event)] /\ received' \in [Subs -> Seq(Event)]
      /\ queue'[s] = Tail(queue[s]) /\ received'[s] = Append(received[s], Head(queue[s]))
      /\ Len(queue'[s]) = Len(queue[s]) - 1 /\ Len(queue[s]) \in Nat /\ Len(queue[s]) >= 1
      /\ Len(received'[s]) = Len(received[s]) + 1 /\ Len(received[s]) \in Nat
      /\ \A t \in Subs \ {s} : queue'[t] = queue[t] /\ received'[t] = received[t]
  <2>1. queue \in [Subs -> Seq(Event)] /\ received \in [Subs -> Seq(Event)]
    BY <1>0 DEF GoTypeOK
  <2>2. /\ Tail(queue[s]) \in Seq(Event) /\ Len(Tail(queue[s])) = Len(queue[s]) - 1
        /\ Len(queue[s]) \in Nat /\ Len(queue[s]) >= 1
        /\ Head(queue[s]) = queue[s][1] /\ 1 \in 1 .. Len(queue[s])
    BY <1>1, <2>1, TailElements
  <2>3. Head(queue[s]) \in Event
    BY <2>1, <2>2
  <2>4. /\ Append(received[s], Head(queue[s])) \in Seq(Event) /\ Len(received[s]) \in Nat
        /\ Len(Append(received[s], Head(queue[s]))) = Len(received[s]) + 1
    BY <2>1, <2>3, AppendElements
  <2> QED
    BY <1>1, <2>1, <2>2, <2>4
<1>3. GoTypeOK'
  BY <1>0, <1>1, <1>2 DEF GoTypeOK
<1>4. PublishedInOrder' /\ ReplayIsRecent'
  BY <1>0, <1>1 DEF PublishedInOrder, ReplayIsRecent
<1>5. Busy' = Busy /\ \A t : OnTheWay(t)' = OnTheWay(t) /\ Dropping(t)' = Dropping(t)
  BY <1>1 DEF Busy, OnTheWay, Carrying, Dropping, Matches
<1>6. PublishersOK'
  BY <1>0, <1>1, <1>5 DEF PublishersOK, Matches
<1>7. \A t \in Subs : ChannelInOrder(t)'
  BY <1>0, <1>1, <1>2, <1>5, ChannelStays
<1>8. s \notin fresh
  BY <1>0, <1>1, <1>2 DEF FreshIsUnknown
<1>9. FreshIsUnknown'
  BY <1>0, <1>1, <1>2, <1>5, <1>8 DEF FreshIsUnknown, GoTypeOK
<1>10. ASSUME NEW t \in subscribers' \ flagged'
       PROVE  Accounted(t)'
  <2>1. t \in subscribers \ flagged /\ t \in Subs /\ OfferedTo(t)' = OfferedTo(t)
    <3>1. OfferedTo(t)' = OfferedTo(t)
      BY <1>1 DEF OfferedTo, Matches
    <3> QED
      BY <1>0, <1>1, <3>1 DEF GoTypeOK
  <2>2. Len(received'[t]) + Len(queue'[t]) = Len(received[t]) + Len(queue[t])
    <3>1. CASE t = s
      <4> DEFINE r == Len(received[s])
                 l == Len(queue[s])
      <4>1. /\ r \in Nat /\ l \in Nat
            /\ Len(received'[t]) = r + 1 /\ Len(queue'[t]) = l - 1
        BY <1>2, <3>1
      <4> HIDE DEF r, l
      <4>2. Len(received'[t]) + Len(queue'[t]) = r + l
        BY <4>1
      <4> QED
        BY <3>1, <4>2 DEF r, l
    <3>2. CASE t # s
      BY <1>2, <2>1, <3>2
    <3> QED
      BY <3>1, <3>2
  <2>3. eventsDropped'[t] = eventsDropped[t] /\ prefilled'[t] = prefilled[t]
    BY <1>1
  <2> QED
    BY <1>0, <1>5, <2>1, <2>2, <2>3 DEF Accounted
<1> QED
  BY <1>3, <1>4, <1>6, <1>7, <1>9, <1>10 DEF GoInv

(***************************************************************************)
(* Closing, from whichever side: subscriptions become fewer, channels of   *)
(* subscriptions that have gone are shut, publishers notice nothing yet.   *)
(***************************************************************************)
LEMMA CloseGoInv ==
  ASSUME GoInv,
         UNCHANGED <<queue, eventsDropped, todo, carried, published, sent, fresh, since,
                     prefilled, received>>,
         subscribers' \subseteq subscribers, flagged \subseteq flagged', flagged' \subseteq Subs,
         \/ UNCHANGED shut
         \/ \E s \in subscribers : shut' = shut \cup {s} /\ s \notin subscribers',
         replay' = replay \/ replay' = <<>>,
         pc' \in [Threads -> Labels], target' \in [Threads -> Subs \cup {None}],
         \A p \in Publishers : pc'[p] = pc[p] /\ target'[p] = target[p]
  PROVE  GoInv'
<1>0. /\ GoTypeOK /\ PublishedInOrder /\ ReplayIsRecent /\ PublishersOK /\ FreshIsUnknown
      /\ \A t \in Subs : ChannelInOrder(t)
      /\ \A t \in subscribers \ flagged : Accounted(t)
  BY DEF GoInv
<1>1. Busy' = Busy /\ \A t : OnTheWay(t)' = OnTheWay(t) /\ Dropping(t)' = Dropping(t)
  <2>1. Busy' = Busy
    BY DEF Busy
  <2>2. ASSUME NEW t
        PROVE  OnTheWay(t)' = OnTheWay(t) /\ Dropping(t)' = Dropping(t)
    BY DEF OnTheWay, Carrying, Dropping, Matches
  <2> QED
    BY <2>1, <2>2
<1>2. shut' \subseteq Subs /\ shut' \cap subscribers' = {} /\ \A t \in fresh : t \notin shut'
  BY <1>0 DEF GoTypeOK, FreshIsUnknown
<1>3. GoTypeOK'
  <2>1. <<>> \in Seq(Event)
    OBVIOUS
  <2> QED
    BY <1>0, <1>2, <2>1 DEF GoTypeOK
<1>4. PublishedInOrder'
  BY <1>0 DEF PublishedInOrder
<1>5. ReplayIsRecent'
  <2>1. CASE replay' = replay
    BY <1>0, <2>1 DEF ReplayIsRecent
  <2>2. CASE replay' = <<>>
    <3>1. Len(replay') = 0 /\ 1 .. 0 = {} /\ Len(published) \in Nat /\ ReplaySize \in Nat
      BY <1>0, <2>2, GoBusAssumption DEF GoTypeOK
    <3> QED
      BY <3>1 DEF ReplayIsRecent
  <2> QED
    BY <2>1, <2>2
<1>6. PublishersOK'
  BY <1>0, <1>1 DEF PublishersOK, Matches, Busy
<1>7. FreshIsUnknown'
  BY <1>0, <1>1, <1>2 DEF FreshIsUnknown
<1>8. \A t \in Subs : ChannelInOrder(t)'
  BY <1>0, <1>1 DEF ChannelInOrder
<1>9. ASSUME NEW t \in subscribers' \ flagged'
      PROVE  Accounted(t)'
  <2>1. t \in subscribers \ flagged
    OBVIOUS
  <2>2. OfferedTo(t)' = OfferedTo(t)
    BY DEF OfferedTo, Matches
  <2> QED
    BY <1>0, <1>1, <2>1, <2>2 DEF Accounted
<1> QED
  BY <1>3, <1>4, <1>5, <1>6, <1>7, <1>8, <1>9 DEF GoInv

\* A new bus has nothing to account for.
LEMMA InitGoInv == GoInit => GoInv
<1> SUFFICES ASSUME GoInit
             PROVE  GoInv
  OBVIOUS
<1>0. /\ replay = <<>> /\ published = <<>> /\ subscribers = {} /\ flagged = {} /\ shut = {} /\ fresh = Subs
      /\ queue = [s \in Subs |-> <<>>] /\ received = [s \in Subs |-> <<>>]
      /\ eventsDropped = [s \in Subs |-> 0] /\ since = [s \in Subs |-> 0] /\ prefilled = [s \in Subs |-> 0]
      /\ sent = [p \in Publishers |-> 0] /\ pc = [t \in Threads |-> "idle"]
      /\ todo = [p \in Publishers |-> {}] /\ target = [t \in Threads |-> None]
      /\ carried = [p \in Publishers |-> None]
  BY DEF GoInit
<1>1. Len(published) = 0 /\ Len(replay) = 0 /\ 1 .. 0 = {} /\ <<>> \in Seq(Event) /\ Len(<<>>) = 0
  BY <1>0
<1>2. GoTypeOK
  <2>1. queue \in [Subs -> Seq(Event)] /\ received \in [Subs -> Seq(Event)]
    BY <1>0, <1>1
  <2>2. {eventsDropped, since, prefilled} \subseteq [Subs -> Nat] /\ sent \in [Publishers -> Nat]
    BY <1>0
  <2>3. \A s \in Subs : since[s] <= Len(published)
    BY <1>0, <1>1
  <2>4. pc \in [Threads -> Labels]
    BY <1>0 DEF Labels
  <2> QED
    BY <1>0, <1>1, <2>1, <2>2, <2>3, <2>4 DEF GoTypeOK
<1>3. PublishedInOrder /\ ReplayIsRecent
  BY <1>1, GoBusAssumption DEF PublishedInOrder, ReplayIsRecent
<1>4. Busy = {}
  BY <1>0 DEF Busy, Threads
<1>5. PublishersOK
  BY <1>4, FS_EmptySet DEF PublishersOK
<1>6. FreshIsUnknown
  BY <1>0, <1>1, <1>4 DEF FreshIsUnknown
<1>7. \A s \in Subs : ChannelInOrder(s)
  BY <1>0, <1>1 DEF ChannelInOrder
<1> QED
  BY <1>0, <1>2, <1>3, <1>5, <1>6, <1>7 DEF GoInv

\* Goroutines that close do nothing else.
LEMMA ClosersGoInv ==
  ASSUME GoInv, NEW c \in Closers, CloseBegin(c) \/ CloseEnd(c)
  PROVE  GoInv'
<1>1. c \in Threads /\ c \notin Publishers /\ GoTypeOK
  BY GoBusAssumption DEF Threads, GoInv
<1>2. ASSUME CloseBegin(c)
      PROVE  GoInv'
  <2>1. PICK s \in Subs \ (fresh \cup flagged) :
          flagged' = flagged \cup {s} /\ target' = [target EXCEPT ![c] = s]
    BY <1>2 DEF CloseBegin
  <2>2. /\ pc' = [pc EXCEPT ![c] = "unsubscribe"]
        /\ UNCHANGED <<subscribers, replay, queue, shut, eventsDropped, todo, carried,
                       published, sent, fresh, since, prefilled, received>>
    BY <1>2 DEF CloseBegin, Goto, channels, counters, history
  <2>3. /\ pc' \in [Threads -> Labels] /\ target' \in [Threads -> Subs \cup {None}]
        /\ \A p \in Publishers : pc'[p] = pc[p] /\ target'[p] = target[p]
    BY <1>1, <2>1, <2>2 DEF GoTypeOK, Labels, Threads
  <2>4. flagged \subseteq flagged' /\ flagged' \subseteq Subs
    BY <1>1, <2>1 DEF GoTypeOK
  <2> QED
    BY <2>2, <2>3, <2>4, CloseGoInv
<1>3. ASSUME CloseEnd(c)
      PROVE  GoInv'
  <2>1. /\ pc' = [pc EXCEPT ![c] = "idle"] /\ subscribers' = subscribers \ {target[c]}
        /\ \/ UNCHANGED shut
           \/ target[c] \in subscribers /\ shut' = shut \cup {target[c]}
        /\ UNCHANGED <<flagged, target, replay, queue, eventsDropped, todo, carried,
                       published, sent, fresh, since, prefilled, received>>
    BY <1>3 DEF CloseEnd, CloseChannel, Goto, counters, history
  <2>2. /\ pc' \in [Threads -> Labels] /\ target' \in [Threads -> Subs \cup {None}]
        /\ \A p \in Publishers : pc'[p] = pc[p] /\ target'[p] = target[p]
    BY <1>1, <2>1 DEF GoTypeOK, Labels, Threads
  <2>3. flagged' \subseteq Subs
    BY <1>1, <2>1 DEF GoTypeOK
  <2> QED
    BY <2>1, <2>2, <2>3, CloseGoInv
<1> QED
  BY <1>2, <1>3

\* CloseAll, up to and after the subscriptions it closes.
LEMMA SweepersGoInv ==
  ASSUME GoInv, NEW w \in Sweepers, SweepBegin(w) \/ SweepOne(w) \/ SweepEnd(w)
  PROVE  GoInv'
<1>1. w \in Threads /\ w \notin Publishers /\ GoTypeOK
  BY GoBusAssumption DEF Threads, GoInv
<1>2. ASSUME SweepBegin(w) \/ SweepEnd(w)
      PROVE  GoInv'
  <2>1. /\ pc' = [pc EXCEPT ![w] = "sweep"] \/ pc' = [pc EXCEPT ![w] = "done"]
        /\ replay' = replay \/ replay' = <<>>
        /\ UNCHANGED <<subscribers, flagged, target, queue, shut, eventsDropped, todo, carried,
                       published, sent, fresh, since, prefilled, received>>
    BY <1>2 DEF SweepBegin, SweepEnd, Goto, channels, counters, history
  <2>2. /\ pc' \in [Threads -> Labels] /\ target' \in [Threads -> Subs \cup {None}]
        /\ \A p \in Publishers : pc'[p] = pc[p] /\ target'[p] = target[p]
    BY <1>1, <2>1 DEF GoTypeOK, Labels, Threads
  <2>3. flagged' \subseteq Subs
    BY <1>1, <2>1 DEF GoTypeOK
  <2> QED
    BY <2>1, <2>2, <2>3, CloseGoInv
<1>3. ASSUME SweepOne(w)
      PROVE  GoInv'
  <2>1. PICK s \in subscribers :
          /\ flagged' = flagged \cup {s} /\ subscribers' = subscribers \ {s}
          /\ UNCHANGED shut \/ shut' = shut \cup {s}
    BY <1>3 DEF SweepOne, CloseChannel
  <2>2. UNCHANGED <<pc, target, replay, queue, eventsDropped, todo, carried,
                    published, sent, fresh, since, prefilled, received>>
    BY <1>3 DEF SweepOne, counters, locals, history
  <2>3. /\ pc' \in [Threads -> Labels] /\ target' \in [Threads -> Subs \cup {None}]
        /\ \A p \in Publishers : pc'[p] = pc[p] /\ target'[p] = target[p]
    BY <1>1, <2>2 DEF GoTypeOK
  <2>4. flagged \subseteq flagged' /\ flagged' \subseteq Subs
    BY <1>1, <2>1 DEF GoTypeOK
  <2> QED
    BY <2>1, <2>2, <2>3, <2>4, CloseGoInv
<1> QED
  BY <1>2, <1>3

\* A stutter.
LEMMA SameGoInv ==
  ASSUME GoInv, UNCHANGED goVars
  PROVE  GoInv'
<1>1. UNCHANGED <<queue, eventsDropped, todo, carried, published, sent, fresh, since, prefilled,
                  received, subscribers, flagged, shut, replay, pc, target>>
  BY DEF goVars, locks, channels, counters, locals, history
<1>2. GoTypeOK
  BY DEF GoInv
<1> QED
  BY <1>1, <1>2, CloseGoInv DEF GoTypeOK

(***************************************************************************)
(* The invariant of the Go bus: every goroutine in Publish carries its     *)
(* publisher's last event and goes on to subscriptions that ask for it,    *)
(* every channel is in order, and every account is balanced.               *)
(***************************************************************************)
THEOREM GoBusInvariance == GoSpec => []GoInv
<1>1. GoInv /\ [GoNext]_goVars => GoInv'
  <2> SUFFICES ASSUME GoInv, [GoNext]_goVars
               PROVE  GoInv'
    OBVIOUS
  <2>1. CASE UNCHANGED goVars
    BY <2>1, SameGoInv
  <2>2. ASSUME NEW t \in Threads, Step(t)
        PROVE  GoInv'
    <3>1. CASE t \in Publishers /\ PublishStep(t)
      BY <3>1, RecordGoInv, NextGoInv, ReturnGoInv, SendGoInv, DropGoInv, CountGoInv DEF PublishStep
    <3>2. CASE t \in Closers /\ (CloseBegin(t) \/ CloseEnd(t))
      BY <3>2, ClosersGoInv
    <3>3. CASE t \in Sweepers /\ (SweepBegin(t) \/ SweepOne(t) \/ SweepEnd(t))
      BY <3>3, SweepersGoInv
    <3> QED
      BY <2>2, <3>1, <3>2, <3>3 DEF Step
  <2>3. ASSUME NEW s \in Subs, Receive(s) \/ \E fill \in BOOLEAN : Subscribe(s, fill)
        PROVE  GoInv'
    BY <2>3, ReceiveGoInv, SubscribeGoInv
  <2> QED
    BY <2>1, <2>2, <2>3 DEF GoNext
<1> QED
  BY <1>1, InitGoInv, PTL DEF GoSpec

(***************************************************************************)
(* NothingLostUncounted: the account of a live subscription that nobody is *)
(* at has three entries left.                                              *)
(***************************************************************************)
THEOREM LosesNothingUncounted == GoSpec => []NothingLostUncounted
<1>1. GoInv => NothingLostUncounted
  <2> SUFFICES ASSUME GoInv, NEW s \in subscribers \ flagged, Carrying(s) = {}
               PROVE  Len(received[s]) + Len(queue[s]) + eventsDropped[s]
                        = prefilled[s] + Cardinality(OfferedTo(s))
    BY DEF NothingLostUncounted, OfferedTo
  <2>1. GoTypeOK /\ PublishersOK /\ Accounted(s) /\ s \in Subs
    BY DEF GoInv, GoTypeOK
  <2>2. OnTheWay(s) = {} /\ Dropping(s) = {}
    <3>1. \A p \in Dropping(s) : p \in Carrying(s)
      BY <2>1 DEF Dropping, Carrying, PublishersOK, Busy
    <3> QED
      BY <3>1 DEF OnTheWay
  <2>3. Cardinality(OnTheWay(s)) = 0 /\ Cardinality(Dropping(s)) = 0
    BY <2>2, FS_EmptySet
  <2> DEFINE x == Len(received[s]) + Len(queue[s]) + eventsDropped[s]
  <2>4. x \in Nat
    BY <2>1 DEF GoTypeOK
  <2>5. x + Cardinality(OnTheWay(s)) + Cardinality(Dropping(s))
          = prefilled[s] + Cardinality(OfferedTo(s))
    BY <2>1 DEF Accounted
  <2> HIDE DEF x
  <2>6. x = prefilled[s] + Cardinality(OfferedTo(s))
    BY <2>3, <2>4, <2>5
  <2> QED
    BY <2>6 DEF x
<1> QED
  BY <1>1, GoBusInvariance, PTL

-----------------------------------------------------------------------------
\* What a subscription may still receive, as the feed sees it.
DueNow == [s \in Subs |-> ToSet(queue[s]) \cup {carried[p] : p \in OnTheWay(s)}]

\* The elements that are left when the head leaves.
LEMMA HeadLeaves ==
  ASSUME GoInv, NEW s \in Subs, queue[s] # <<>>
  PROVE  /\ Head(queue[s]) \in Event /\ Head(queue[s]) \in ToSet(queue[s])
         /\ ToSet(Tail(queue[s])) = ToSet(queue[s]) \ {Head(queue[s])}
         /\ \A d \in ToSet(queue[s]) : d.pub = Head(queue[s]).pub => Head(queue[s]).n <= d.n
         /\ \A p \in OnTheWay(s) :
              /\ carried[p] # Head(queue[s])
              /\ carried[p].pub = Head(queue[s]).pub => Head(queue[s]).n <= carried[p].n
<1> DEFINE q == queue[s]
           r == Tail(q)
           h == Head(q)
<1>1. /\ q \in Seq(Event) /\ \A a \in 1 .. Len(q) : q[a] \in Event
      /\ \A a, b \in 1 .. Len(q) : a < b /\ q[a].pub = q[b].pub => q[a].n < q[b].n
      /\ \A a \in 1 .. Len(q) :
           q[a].n <= sent[q[a].pub] /\ (q[a].pub \in OnTheWay(s) => q[a].n < sent[q[a].pub])
  BY PublisherTypes DEF ChannelInOrder
<1>2. /\ h = q[1] /\ 1 \in 1 .. Len(q) /\ Len(q) \in Nat /\ r \in Seq(Event)
      /\ \A a \in 1 .. Len(r) : a + 1 \in 1 .. Len(q) /\ r[a] = q[a + 1]
      /\ \A a \in 2 .. Len(q) : a - 1 \in 1 .. Len(r) /\ r[a - 1] = q[a]
  BY <1>1, TailElements
<1>3. /\ \A x \in ToSet(q) : \E a \in 1 .. Len(q) : x = q[a]
      /\ \A a \in 1 .. Len(q) : q[a] \in ToSet(q)
      /\ \A x \in ToSet(r) : \E a \in 1 .. Len(r) : x = r[a]
      /\ \A a \in 1 .. Len(r) : r[a] \in ToSet(r)
  BY <1>1, <1>2, ElementsAre
<1> HIDE DEF q, r, h
<1>4. \A a \in 1 .. Len(q) : q[a].n \in Nat
  BY <1>1 DEF Event
<1>5. \A a \in 1 .. Len(q) : a = 1 \/ (a \in 2 .. Len(q) /\ 1 < a)
  BY <1>2
<1>6. ASSUME NEW a \in 2 .. Len(q)
      PROVE  a \in 1 .. Len(q) /\ 1 < a /\ q[a] # h
  <2>1. a \in 1 .. Len(q) /\ 1 < a
    BY <1>2
  <2>2. q[1].pub = q[a].pub => q[1].n < q[a].n /\ q[a].n \in Nat
    BY <1>1, <1>2, <1>4, <2>1
  <2>3. q[a] # q[1]
    BY <2>2
  <2> QED
    BY <1>2, <2>1, <2>3
<1>7. ToSet(r) = ToSet(q) \ {h}
  <2>1. ASSUME NEW x \in ToSet(r)
        PROVE  x \in ToSet(q) /\ x # h
    <3>1. PICK a \in 1 .. Len(r) : x = r[a]
      BY <1>3
    <3>2. a + 1 \in 2 .. Len(q) /\ x = q[a + 1]
      BY <1>2, <3>1
    <3> QED
      BY <1>3, <1>6, <3>2
  <2>2. ASSUME NEW x \in ToSet(q), x # h
        PROVE  x \in ToSet(r)
    <3>1. PICK a \in 1 .. Len(q) : x = q[a]
      BY <1>3
    <3>2. a \in 2 .. Len(q)
      BY <1>2, <1>5, <2>2, <3>1
    <3> QED
      BY <1>2, <1>3, <3>1, <3>2
  <2> QED
    BY <2>1, <2>2
<1>8. \A d \in ToSet(q) : d.pub = h.pub => h.n <= d.n
  <2> SUFFICES ASSUME NEW d \in ToSet(q), d.pub = h.pub
               PROVE  h.n <= d.n
    OBVIOUS
  <2>1. PICK a \in 1 .. Len(q) : d = q[a]
    BY <1>3
  <2> QED
    BY <1>1, <1>2, <1>4, <1>5, <2>1
<1>9. ASSUME NEW p \in OnTheWay(s)
      PROVE  carried[p] # h /\ (carried[p].pub = h.pub => h.n <= carried[p].n)
  <2>1. p \in Publishers /\ pc[p] # "idle"
    BY DEF OnTheWay, Carrying
  <2>2. carried[p].pub = p /\ carried[p].n = sent[p] /\ sent[p] \in Nat
    BY <2>1, AtWork, PublisherTypes
  <2>3. h.pub = p => h.n < sent[p]
    BY <1>1, <1>2
  <2>4. h.n \in Nat
    BY <1>2, <1>4
  <2> QED
    BY <2>2, <2>3, <2>4
<1> QED
  BY <1>1, <1>2, <1>3, <1>7, <1>8, <1>9 DEF q, r, h

\* A received event is one the feed lets the subscriber receive.
LEMMA ReceiveIsReceive ==
  ASSUME GoInv, NEW s \in Subs, Receive(s)
  PROVE  Feed!Receive(s)
<1>1. /\ queue[s] # <<>> /\ queue' = [queue EXCEPT ![s] = Tail(@)]
      /\ received' = [received EXCEPT ![s] = Append(@, Head(queue[s]))]
      /\ UNCHANGED <<pc, todo, target, carried, published, sent, subscribers, fresh>>
  BY DEF Receive, locals
<1>2. queue \in [Subs -> Seq(Event)]
  BY PublisherTypes
<1>3. \A t : OnTheWay(t)' = OnTheWay(t)
  BY <1>1 DEF OnTheWay, Carrying, Matches
<1>4. DueNow' = [DueNow EXCEPT ![s] = @ \ {Head(queue[s])}]
  <2>1. queue'[s] = Tail(queue[s]) /\ \A t \in Subs : t # s => queue'[t] = queue[t]
    BY <1>1, <1>2
  <2>2. ToSet(Tail(queue[s])) = ToSet(queue[s]) \ {Head(queue[s])}
    BY <1>1, HeadLeaves
  <2>3. \A p \in OnTheWay(s) : carried[p] # Head(queue[s])
    BY <1>1, HeadLeaves
  <2>4. ToSet(queue'[s]) \cup {carried[p] : p \in OnTheWay(s)}
          = (ToSet(queue[s]) \cup {carried[p] : p \in OnTheWay(s)}) \ {Head(queue[s])}
    BY <2>1, <2>2, <2>3
  <2>5. DueNow' = [t \in Subs |-> ToSet(queue'[t]) \cup {carried[p] : p \in OnTheWay(t)}]
    BY <1>1, <1>3 DEF DueNow
  <2>6. DueNow[s] = ToSet(queue[s]) \cup {carried[p] : p \in OnTheWay(s)}
    BY DEF DueNow
  <2>7. \A t \in Subs \ {s} : DueNow[t] = ToSet(queue'[t]) \cup {carried[p] : p \in OnTheWay(t)}
    BY <2>1 DEF DueNow
  <2>8. DueNow'[s] = DueNow[s] \ {Head(queue[s])} /\ \A t \in Subs \ {s} : DueNow'[t] = DueNow[t]
    BY <2>4, <2>5, <2>6, <2>7
  <2> QED
    BY <2>5, <2>8 DEF DueNow
<1>5. DueNow[s] = ToSet(queue[s]) \cup {carried[p] : p \in OnTheWay(s)}
  BY DEF DueNow
<1>6. /\ Head(queue[s]) \in DueNow[s]
      /\ \A d \in DueNow[s] : d.pub = Head(queue[s]).pub => Head(queue[s]).n <= d.n
  BY <1>1, <1>5, HeadLeaves
<1> QED
  BY <1>1, <1>4, <1>6 DEF Feed!Receive, DueNow, OnTheWay

\* A subscription starts with recent events that it asks for.
LEMMA SubscribeIsSubscribe ==
  ASSUME GoInv, NEW s \in Subs, NEW fill \in BOOLEAN, Subscribe(s, fill)
  PROVE  Feed!Subscribe(s)
<1> DEFINE first == IF fill THEN Prefill(s) ELSE <<>>
<1>1. /\ s \in fresh /\ fresh' = fresh \ {s} /\ subscribers' = subscribers \cup {s}
      /\ queue' = [queue EXCEPT ![s] = first]
      /\ UNCHANGED <<pc, todo, target, carried, published, sent, received>>
  BY DEF Subscribe, locals
<1>2. queue \in [Subs -> Seq(Event)]
  BY PublisherTypes
<1>3. OnTheWay(s)' = {} /\ \A t : OnTheWay(t)' = OnTheWay(t)
  <2>1. \A p \in Publishers : s \notin todo[p] /\ (p \in Busy /\ pc[p] # "next" => target[p] # s)
    BY <1>1 DEF GoInv, FreshIsUnknown
  <2>2. OnTheWay(s) = {}
    BY <2>1 DEF OnTheWay, Carrying, Busy
  <2>3. \A t : OnTheWay(t)' = OnTheWay(t)
    BY <1>1 DEF OnTheWay, Carrying, Matches
  <2> QED
    BY <2>2, <2>3
<1>4. ToSet(first) \subseteq {e \in Feed!Recent : Feed!Matches(s, e)}
  <2>1. CASE fill
    <3>1. /\ Prefill(s) \in Seq(Event)
          /\ \A a \in 1 .. Len(Prefill(s)) : \E i \in 1 .. Len(published) :
               /\ i > Len(published) - ReplaySize
               /\ Prefill(s)[a] = published[i] /\ Matches(s, published[i])
      BY PrefillIs
    <3> SUFFICES ASSUME NEW e \in ToSet(Prefill(s))
                 PROVE  e \in Feed!Recent /\ Feed!Matches(s, e)
      BY <2>1
    <3>2. PICK a \in 1 .. Len(Prefill(s)) : e = Prefill(s)[a]
      BY <3>1, ElementsAre
    <3> QED
      BY <3>1, <3>2 DEF Feed!Recent, Feed!Matches, Matches
  <2>2. CASE ~fill
    BY <2>2 DEF ToSet
  <2> QED
    BY <2>1, <2>2
<1> HIDE DEF first
<1>5. DueNow'[s] = ToSet(first) /\ \A t \in Subs \ {s} : DueNow'[t] = DueNow[t]
  <2>1. queue'[s] = first /\ \A t \in Subs : t # s => queue'[t] = queue[t]
    BY <1>1, <1>2
  <2>2. DueNow' = [t \in Subs |-> ToSet(queue'[t]) \cup {carried[p] : p \in OnTheWay(t)}]
    BY <1>1, <1>3 DEF DueNow
  <2>3. DueNow'[s] = ToSet(first)
    BY <1>3, <2>1, <2>2
  <2>4. \A t \in Subs \ {s} : DueNow'[t] = DueNow[t]
    BY <2>1, <2>2 DEF DueNow
  <2> QED
    BY <2>3, <2>4
<1> QED
  BY <1>1, <1>4, <1>5 DEF Feed!Subscribe, DueNow, OnTheWay

\* A recorded event is due to nobody but those who subscribe and ask for it.
LEMMA RecordIsPublish ==
  ASSUME GoInv, NEW p \in Publishers, PublishRecord(p)
  PROVE  Feed!Publish(p)
<1> DEFINE e == NextOf(p)
<1>1. /\ published' = Append(published, e) /\ sent' = [sent EXCEPT ![p] = @ + 1]
      /\ carried' = [carried EXCEPT ![p] = e] /\ todo' = [todo EXCEPT ![p] = subscribers]
      /\ pc[p] = "idle" /\ pc' = [pc EXCEPT ![p] = "next"]
      /\ UNCHANGED <<subscribers, queue, target, fresh, received>>
  BY DEF PublishRecord, Goto, channels
<1>2. /\ Feed!NextOf(p) = e /\ \A s \in Subs : Feed!Matches(s, e) <=> Matches(s, e)
  BY DEF Feed!NextOf, NextOf, Feed!Matches, Matches
<1> HIDE DEF e
<1>3. /\ carried'[p] = e /\ todo'[p] = subscribers /\ pc'[p] = "next"
      /\ \A q \in Publishers \ {p} :
           /\ pc'[q] = pc[q] /\ todo'[q] = todo[q] /\ target'[q] = target[q] /\ carried'[q] = carried[q]
  <2>1. carried \in [Publishers -> Event \cup {None}] /\ p \in Threads
    BY DEF GoInv, GoTypeOK, Threads
  <2> QED
    BY <1>1, <2>1, PublisherTypes DEF Threads
<1>4. ASSUME NEW s \in Subs
      PROVE  DueNow'[s] \subseteq DueNow[s] \cup (IF s \in subscribers /\ Matches(s, e) THEN {e} ELSE {})
  <2>1. OnTheWay(s)' \ {p} = OnTheWay(s) \ {p}
    BY <1>3, OthersStay
  <2>2. p \in OnTheWay(s)' => s \in subscribers /\ Matches(s, e)
    BY <1>3, WhereIs
  <2>3. /\ DueNow'[s] = ToSet(queue[s]) \cup {carried'[q] : q \in OnTheWay(s)'}
        /\ DueNow[s] = ToSet(queue[s]) \cup {carried[q] : q \in OnTheWay(s)}
    BY <1>1 DEF DueNow
  <2>4. OnTheWay(s)' \subseteq Publishers
    BY DEF OnTheWay, Carrying
  <2>5. ASSUME NEW q \in OnTheWay(s)'
        PROVE  (q = p /\ carried'[q] = e) \/ (q \in OnTheWay(s) /\ carried'[q] = carried[q])
    BY <1>3, <2>1, <2>4
  <2> QED
    BY <2>2, <2>3, <2>5
<1> QED
  BY <1>1, <1>2, <1>4 DEF Feed!Publish, DueNow, OnTheWay

\* Steps of publishers that make nothing due, and steps that close.
LEMMA RestIsClose ==
  ASSUME GoInv, UNCHANGED <<published, sent, fresh, received, carried>>, subscribers' \subseteq subscribers,
         \A s \in Subs :
           /\ OnTheWay(s)' \subseteq OnTheWay(s)
           /\ \/ queue'[s] = queue[s]
              \/ queue[s] # <<>> /\ queue'[s] = Tail(queue[s])
              \/ \E p \in OnTheWay(s) : queue'[s] = Append(queue[s], carried[p])
  PROVE  Feed!Close
<1>1. ASSUME NEW s \in Subs
      PROVE  DueNow'[s] \subseteq DueNow[s]
  <2>1. /\ DueNow'[s] = ToSet(queue'[s]) \cup {carried[q] : q \in OnTheWay(s)'}
        /\ DueNow[s] = ToSet(queue[s]) \cup {carried[q] : q \in OnTheWay(s)}
    BY DEF DueNow
  <2>2. CASE queue'[s] = queue[s]
    BY <2>1, <2>2
  <2>3. CASE queue[s] # <<>> /\ queue'[s] = Tail(queue[s])
    BY <2>1, <2>3, HeadLeaves
  <2>4. ASSUME NEW p \in OnTheWay(s), queue'[s] = Append(queue[s], carried[p])
        PROVE  DueNow'[s] \subseteq DueNow[s]
    <3>1. p \in Publishers /\ pc[p] # "idle"
      BY DEF OnTheWay, Carrying
    <3>2. carried[p] \in Event /\ queue[s] \in Seq(Event)
      BY <3>1, AtWork, PublisherTypes
    <3>3. ToSet(Append(queue[s], carried[p])) = ToSet(queue[s]) \cup {carried[p]}
      BY <3>2, AppendElements
    <3> QED
      BY <2>1, <2>4, <3>3
  <2> QED
    BY <2>2, <2>3, <2>4
<1> QED
  BY <1>1 DEF Feed!Close, DueNow, OnTheWay

(***************************************************************************)
(* The Go bus implements the feed: recording an event publishes it, and    *)
(* all that goroutines do until it is in a channel, or is given up, only   *)
(* makes less due.                                                         *)
(***************************************************************************)
THEOREM GoBusImplementsFeed == GoSpec => ImplementsFeed
<1>1. GoInit => Feed!FeedInit
  <2> SUFFICES ASSUME GoInit
               PROVE  Feed!FeedInit
    OBVIOUS
  <2>1. DueNow = [s \in Subs |-> {}]
    <3>1. ToSet(<<>>) = {}
      BY DEF ToSet
    <3>2. \A s \in Subs : queue[s] = <<>> /\ OnTheWay(s) = {}
      BY DEF GoInit, OnTheWay, Carrying, Threads
    <3> QED
      BY <3>1, <3>2 DEF DueNow
  <2> QED
    BY <2>1 DEF GoInit, Feed!FeedInit, DueNow, OnTheWay
<1>2. GoInv /\ [GoNext]_goVars => [Feed!FeedNext]_(Feed!feedVars)
  <2> SUFFICES ASSUME GoInv, [GoNext]_goVars
               PROVE  Feed!FeedNext
    OBVIOUS
  <2>1. ASSUME NEW p \in Publishers, PublishStep(p)
        PROVE  Feed!FeedNext
    <3>1. CASE PublishRecord(p)
      BY <3>1, RecordIsPublish DEF Feed!FeedNext
    <3>2. CASE ~PublishRecord(p)
      <4>1. UNCHANGED <<published, sent, fresh, received, carried, subscribers>>
        BY <2>1, <3>2 DEF PublishStep, PublishNext, PublishReturn, PublishSend, PublishDrop,
             PublishCount, history
      <4>2. Advances(p)
        BY <2>1, <3>2, NextGoInv, ReturnGoInv, SendGoInv, DropGoInv, CountGoInv DEF PublishStep
      <4> QED
        BY <4>1, <4>2, RestIsClose DEF Feed!FeedNext, Advances
    <3> QED
      BY <3>1, <3>2
  <2>2. ASSUME UNCHANGED <<queue, published, sent, fresh, received, carried, todo>>,
               subscribers' \subseteq subscribers,
               \A p \in Publishers : pc'[p] = pc[p] /\ target'[p] = target[p]
        PROVE  Feed!FeedNext
    <3>1. \A s \in Subs : OnTheWay(s)' = OnTheWay(s)
      BY <2>2 DEF OnTheWay, Carrying, Matches
    <3> QED
      BY <2>2, <3>1, RestIsClose DEF Feed!FeedNext
  <2>3. pc \in [Threads -> Labels] /\ target \in [Threads -> Subs \cup {None}]
    BY PublisherTypes
  <2>4. ASSUME NEW c \in Closers, CloseBegin(c) \/ CloseEnd(c)
        PROVE  Feed!FeedNext
    <3>1. c \notin Publishers
      BY GoBusAssumption
    <3>2. /\ UNCHANGED <<queue, published, sent, fresh, received, carried, todo>>
          /\ subscribers' \subseteq subscribers
      BY <2>4 DEF CloseBegin, CloseEnd, channels, history
    <3>3. \A p \in Publishers : pc'[p] = pc[p] /\ target'[p] = target[p]
      BY <2>3, <2>4, <3>1 DEF CloseBegin, CloseEnd, Goto, Threads
    <3> QED
      BY <2>2, <3>2, <3>3
  <2>5. ASSUME NEW w \in Sweepers, SweepBegin(w) \/ SweepOne(w) \/ SweepEnd(w)
        PROVE  Feed!FeedNext
    <3>1. w \notin Publishers
      BY GoBusAssumption
    <3>2. /\ UNCHANGED <<queue, published, sent, fresh, received, carried, todo>>
          /\ subscribers' \subseteq subscribers
      BY <2>5 DEF SweepBegin, SweepOne, SweepEnd, channels, locals, history
    <3>3. \A p \in Publishers : pc'[p] = pc[p] /\ target'[p] = target[p]
      BY <2>3, <2>5, <3>1 DEF SweepBegin, SweepOne, SweepEnd, Goto, Threads, locals
    <3> QED
      BY <2>2, <3>2, <3>3
  <2>6. ASSUME NEW s \in Subs, Receive(s) \/ \E fill \in BOOLEAN : Subscribe(s, fill)
        PROVE  Feed!FeedNext
    BY <2>6, ReceiveIsReceive, SubscribeIsSubscribe DEF Feed!FeedNext
  <2>7. CASE UNCHANGED goVars
    BY <2>2, <2>7 DEF goVars, channels, locals, history
  <2> QED
    BY <2>1, <2>4, <2>5, <2>6, <2>7 DEF GoNext, Step
<1> QED
  BY <1>1, <1>2, GoBusInvariance, PTL DEF GoSpec, ImplementsFeed, Feed!FeedSpec
=============================================================================
