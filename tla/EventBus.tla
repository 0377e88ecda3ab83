------------------------------ MODULE EventBus -------------------------------
(***************************************************************************)
(* The event bus of the Python SDK (streaming.py) on one event loop.       *)
(* publish never awaits, so it is one step; a subscriber that waits in     *)
(* get() or in the iterator is resumed, or times out, in a step of its     *)
(* own, and the bus may move on in between.                                *)
(*                                                                         *)
(* A subscription reads from one task.  The filter is the constant         *)
(* Sources.  `published', `sent', `fresh', `since', `until', `prefilled'   *)
(* and `received' are history variables.                                   *)
(***************************************************************************)
EXTENDS SequencesExt, Subsequence

CONSTANTS
  Subs, Publishers, Sources, ReplaySize,
  MaxSize,    \* maxsize of the queue of each subscription
  MaxEvents   \* bound: events published

ASSUME BusAssumption ==
  /\ Sources \in [Subs -> SUBSET Publishers]
  /\ ReplaySize \in Nat
  /\ MaxSize \in Nat \ {0}
  /\ MaxEvents \in Nat

VARIABLES
  replay,        \* _replay_buffer
  subscriptions, \* _subscriptions
  closed,        \* subscriptions with _closed set
  queue,         \* _queue of each subscription
  waiting,       \* subscriptions whose get is suspended on the queue
  dropped,       \* events_dropped
  published, sent, fresh, since, until, prefilled, received

busState == <<replay, subscriptions, closed, queue, waiting, dropped>>
history == <<published, sent, fresh, since, until, prefilled, received>>
busVars == <<busState, history>>

Event == [pub : Publishers, n : Nat \ {0}]

Matches(s, e) == e.pub \in Sources[s]

NextOf(p) == [pub |-> p, n |-> sent[p] + 1]

\* The last n elements of q: deque(maxlen = n).
Newest(q, n) == SubSeq(q, IF Len(q) > n THEN Len(q) - n + 1 ELSE 1, Len(q))

\* The events of q that s asks for, in their order.
Matching(s, q) == Picked(q, {i \in 1 .. Len(q) : Matches(s, q[i])})

(* subscribe fills the queue from the replay buffer until it is full: in a *)
(* queue smaller than the buffer, the newest events find no place.         *)
Prefill(s) ==
  LET matching == Matching(s, replay) IN
  SubSeq(matching, 1, IF Len(matching) > MaxSize THEN MaxSize ELSE Len(matching))

\* Mutant: the filter is not asked.
TargetsUnfiltered(e) == subscriptions \ closed

\* The live subscriptions an event is for.
Targets(e) == {s \in subscriptions : s \notin closed /\ Matches(s, e)}

\* Mutant: a full queue drops its oldest event and the new one.
OfferedBoth(s, e) == IF Len(queue[s]) = MaxSize THEN Tail(queue[s]) ELSE Append(queue[s], e)

\* The queue after an event: a full one drops its oldest event first.
Offered(s, e) ==
  Append(IF Len(queue[s]) = MaxSize THEN Tail(queue[s]) ELSE queue[s], e)

-----------------------------------------------------------------------------
BusInit ==
  /\ replay = <<>>
  /\ subscriptions = {}
  /\ closed = {}
  /\ queue = [s \in Subs |-> <<>>]
  /\ waiting = {}
  /\ dropped = [s \in Subs |-> 0]
  /\ published = <<>>
  /\ sent = [p \in Publishers |-> 0]
  /\ fresh = Subs
  /\ since = [s \in Subs |-> 0]
  /\ until = [s \in Subs |-> 0]
  /\ prefilled = [s \in Subs |-> 0]
  /\ received = [s \in Subs |-> <<>>]

Subscribe(s, fill) ==
  /\ s \in fresh
  /\ fresh' = fresh \ {s}
  /\ subscriptions' = subscriptions \cup {s}
  /\ queue' = [queue EXCEPT ![s] = IF fill THEN Prefill(s) ELSE <<>>]
  /\ since' = [since EXCEPT ![s] = Len(published)]
  /\ prefilled' = [prefilled EXCEPT ![s] = Len(queue'[s])]
  /\ UNCHANGED <<replay, closed, waiting, dropped, published, sent, until, received>>

Publish(p) ==
  LET e == NextOf(p) IN
  /\ Len(published) < MaxEvents
  /\ published' = Append(published, e)
  /\ sent' = [sent EXCEPT ![p] = @ + 1]
  /\ replay' = Newest(Append(replay, e), ReplaySize)
  /\ queue' = [s \in Subs |-> IF s \in Targets(e) THEN Offered(s, e) ELSE queue[s]]
  /\ dropped' = [s \in Subs |->
       IF s \in Targets(e) /\ Len(queue[s]) = MaxSize THEN dropped[s] + 1 ELSE dropped[s]]
  /\ UNCHANGED <<subscriptions, closed, waiting, fresh, since, until, prefilled, received>>

\* The item at the head of the queue reaches the subscriber.
Take(s) ==
  /\ queue[s] # <<>>
  /\ queue' = [queue EXCEPT ![s] = Tail(@)]
  /\ received' = [received EXCEPT ![s] = Append(@, Head(queue[s]))]
  /\ UNCHANGED <<replay, subscriptions, closed, dropped, published, sent, fresh, since, until, prefilled>>

\* get(), or one round of the iterator: a closed subscription gives nothing.
Get(s) ==
  /\ s \notin fresh \cup closed \cup waiting
  /\ \/ Take(s) /\ UNCHANGED waiting
     \/ /\ queue[s] = <<>>
        /\ waiting' = waiting \cup {s}
        /\ UNCHANGED <<replay, subscriptions, closed, queue, dropped, history>>

\* An item has come; it is delivered even if the subscription closed since.
Resume(s) ==
  /\ s \in waiting
  /\ Take(s)
  /\ waiting' = waiting \ {s}

Timeout(s) ==
  /\ s \in waiting
  /\ waiting' = waiting \ {s}
  /\ UNCHANGED <<replay, subscriptions, closed, queue, dropped, history>>

\* Subscription.close and, for S = subscriptions, EventBus.close_all.
CloseThese(S) ==
  /\ S \subseteq subscriptions
  /\ subscriptions' = subscriptions \ S
  /\ closed' = closed \cup S
  /\ until' = [s \in Subs |-> IF s \in S THEN Len(published) ELSE until[s]]
  /\ UNCHANGED <<replay, queue, waiting, dropped, published, sent, fresh, since, prefilled, received>>

CloseOne == \E s \in subscriptions : CloseThese({s})

CloseAll == subscriptions # {} /\ CloseThese(subscriptions)

BusNext ==
  \/ \E p \in Publishers : Publish(p)
  \/ \E s \in Subs :
       \/ \E fill \in BOOLEAN : Subscribe(s, fill)
       \/ Get(s)
       \/ Resume(s)
       \/ Timeout(s)
  \/ CloseOne
  \/ CloseAll

BusSpec == BusInit /\ [][BusNext]_busVars

-----------------------------------------------------------------------------

\* Positions of the matching events published while s was open.
OfferedTo(s) ==
  {i \in (since[s] + 1) .. (IF s \in closed THEN until[s] ELSE Len(published)) :
     s \notin fresh /\ Matches(s, published[i])}

Queued(s) == {i \in 1 .. Len(published) : published[i] \in ToSet(queue[s])}

(* "Backpressure: when a queue is full, the oldest event is dropped"       *)
(* (streaming.py:5), and nothing is lost unseen: every matching event that *)
(* was published while a subscription was open, and every event of its     *)
(* prefill, was received, is still queued, or is counted in                *)
(* events_dropped; and what is queued are the newest matching events in    *)
(* the order of publication.  A prefill that finds no place for the whole  *)
(* replay buffer is excepted: it keeps the oldest.                         *)
OldestLostAndCounted ==
  \A s \in Subs :
    /\ Len(received[s]) + Len(queue[s]) + dropped[s] = prefilled[s] + Cardinality(OfferedTo(s))
    /\ \A a, b \in 1 .. Len(queue[s]) :
         a < b => \E i, j \in 1 .. Len(published) :
                    i < j /\ published[i] = queue[s][a] /\ published[j] = queue[s][b]
    /\ s \in subscriptions =>
         \A i \in Queued(s), j \in 1 .. Len(published) :
           i < j /\ Matches(s, published[j]) /\ (since[s] < j \/ ReplaySize <= MaxSize)
             => j \in Queued(s)

\* The event feed that this bus is: what is queued is due.
Feed == INSTANCE EventFeed WITH
  open <- subscriptions,
  due <- [s \in Subs |-> ToSet(queue[s])]

(* The bus keeps the promise of an event feed: at most once, only matching *)
(* events, nothing published after the close, each publisher in order.     *)
ImplementsFeed == Feed!FeedSpec
=============================================================================
