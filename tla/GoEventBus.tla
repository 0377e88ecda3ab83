----------------------------- MODULE GoEventBus ------------------------------
(***************************************************************************)
(* The event bus of the Go SDK (go/streaming.go), used by many goroutines. *)
(* Each Subscription has a mutex s.mu (subLock) and a channel Events, the  *)
(* bus a mutex b.mu (busLock).  One step is one stretch of code between    *)
(* two operations on a mutex or a channel; a stretch that holds b.mu and   *)
(* takes nothing else is one step.                                         *)
(*                                                                         *)
(* Sending on a closed channel and closing one twice panic, which ends the *)
(* process: nothing happens afterwards.                                    *)
(***************************************************************************)
EXTENDS SequencesExt, Subsequence

CONSTANTS
  Subs, Publishers, Sources, ReplaySize,
  Closers,    \* goroutines that call Subscription.Close
  Sweepers,   \* goroutines that call EventBus.CloseAll, once each
  Capacity,   \* size of the channel of each subscription
  MaxEvents,  \* bound: events of each publisher
  None

Threads == Publishers \cup Closers \cup Sweepers

ASSUME GoBusAssumption ==
  /\ Sources \in [Subs -> SUBSET Publishers]
  /\ ReplaySize \in Nat
  /\ Capacity \in Nat \ {0}
  /\ MaxEvents \in [Publishers -> Nat]
  /\ None \notin Threads \cup Subs
  /\ Publishers \cap (Closers \cup Sweepers) = {}

VARIABLES
  busLock, subLock,  \* the goroutine that holds the mutex between two steps, or None
  subscribers,       \* b.subscribers
  replay,            \* b.replay
  flagged,           \* subscriptions with closed = true
  shut,              \* subscriptions whose channel is closed
  queue,             \* what the channel of each subscription holds
  eventsReceived, eventsDropped,
  pc, todo, target, carried,  \* locals of the goroutines
  panicked,          \* "no", or what the process died of
  published, sent, fresh, since, prefilled, received  \* history

locks == <<busLock, subLock>>
channels == <<queue, shut>>
counters == <<eventsReceived, eventsDropped>>
locals == <<pc, todo, target, carried>>
history == <<published, sent, fresh, since, prefilled, received>>
goVars == <<locks, subscribers, replay, flagged, channels, counters, locals, panicked, history>>

Event == [pub : Publishers, n : Nat \ {0}]

Matches(s, e) == e.pub \in Sources[s]

NextOf(p) == [pub |-> p, n |-> sent[p] + 1]

Newest(q, n) == SubSeq(q, IF Len(q) > n THEN Len(q) - n + 1 ELSE 1, Len(q))

\* The events of q that s asks for, in their order.
Matching(s, q) == Picked(q, {i \in 1 .. Len(q) : Matches(s, q[i])})

\* The oldest of the replay buffer, until the channel is full.
Prefill(s) ==
  LET matching == Matching(s, replay) IN
  SubSeq(matching, 1, IF Len(matching) > Capacity THEN Capacity ELSE Len(matching))

Goto(t, label) == pc' = [pc EXCEPT ![t] = label]

-----------------------------------------------------------------------------
GoInit ==
  /\ busLock = None
  /\ subLock = [s \in Subs |-> None]
  /\ subscribers = {}
  /\ replay = <<>>
  /\ flagged = {}
  /\ shut = {}
  /\ queue = [s \in Subs |-> <<>>]
  /\ eventsReceived = [s \in Subs |-> 0]
  /\ eventsDropped = [s \in Subs |-> 0]
  /\ pc = [t \in Threads |-> "idle"]
  /\ todo = [p \in Publishers |-> {}]
  /\ target = [t \in Threads |-> None]
  /\ carried = [p \in Publishers |-> None]
  /\ panicked = "no"
  /\ published = <<>>
  /\ sent = [p \in Publishers |-> 0]
  /\ fresh = Subs
  /\ since = [s \in Subs |-> 0]
  /\ prefilled = [s \in Subs |-> 0]
  /\ received = [s \in Subs |-> <<>>]

\* Subscribe: registered and prefilled under b.mu.
Subscribe(s, fill) ==
  /\ s \in fresh
  /\ busLock = None
  /\ fresh' = fresh \ {s}
  /\ subscribers' = subscribers \cup {s}
  /\ queue' = [queue EXCEPT ![s] = IF fill THEN Prefill(s) ELSE <<>>]
  /\ eventsReceived' = [eventsReceived EXCEPT ![s] = Len(queue'[s])]
  /\ since' = [since EXCEPT ![s] = Len(published)]
  /\ prefilled' = [prefilled EXCEPT ![s] = Len(queue'[s])]
  /\ UNCHANGED <<locks, replay, flagged, shut, eventsDropped, locals, panicked,
                 published, sent, received>>

-----------------------------------------------------------------------------
\* Publish under b.mu: the replay buffer, and a snapshot of the subscribers.
PublishRecord(p) ==
  LET e == NextOf(p) IN
  /\ pc[p] = "idle"
  /\ sent[p] < MaxEvents[p]
  /\ busLock = None
  /\ replay' = Newest(Append(replay, e), ReplaySize)
  /\ published' = Append(published, e)
  /\ sent' = [sent EXCEPT ![p] = @ + 1]
  /\ carried' = [carried EXCEPT ![p] = e]
  /\ todo' = [todo EXCEPT ![p] = subscribers]
  /\ Goto(p, "next")
  /\ UNCHANGED <<locks, subscribers, flagged, channels, counters, target, panicked,
                 fresh, since, prefilled, received>>

\* The next subscriber of the snapshot: IsClosed, then the filter.
PublishNext(p) ==
  /\ pc[p] = "next"
  /\ \E s \in todo[p] :
       /\ subLock[s] = None
       /\ todo' = [todo EXCEPT ![p] = @ \ {s}]
       /\ \/ /\ s \in flagged \/ ~Matches(s, carried[p])
             /\ UNCHANGED <<pc, target>>
          \/ /\ s \notin flagged /\ Matches(s, carried[p])
             /\ target' = [target EXCEPT ![p] = s]
             /\ Goto(p, "send")
  /\ UNCHANGED <<locks, subscribers, replay, flagged, channels, counters, carried,
                 panicked, history>>

PublishReturn(p) ==
  /\ pc[p] = "next"
  /\ todo[p] = {}
  /\ Goto(p, "idle")
  /\ UNCHANGED <<locks, subscribers, replay, flagged, channels, counters, todo, target,
                 carried, panicked, history>>

(* select { case sub.Events <- event; default }: the first attempt goes on *)
(* to make room when the channel is full, the second gives the event up.   *)
PublishSend(p) ==
  LET s == target[p] IN
  /\ pc[p] \in {"send", "retry"}
  /\ \/ /\ s \in shut
        /\ panicked' = "send on closed channel"
        /\ UNCHANGED <<pc, queue>>
     \/ /\ s \notin shut /\ Len(queue[s]) < Capacity
        /\ queue' = [queue EXCEPT ![s] = Append(@, carried[p])]
        /\ Goto(p, "sent")
        /\ UNCHANGED panicked
     \/ /\ s \notin shut /\ Len(queue[s]) = Capacity
        /\ Goto(p, IF pc[p] = "send" THEN "full" ELSE "lost")
        /\ UNCHANGED <<queue, panicked>>
  /\ UNCHANGED <<locks, subscribers, replay, flagged, shut, counters, todo, target,
                 carried, history>>

\* select { case <-sub.Events; default }: a closed empty channel yields a zero event.
PublishDrop(p) ==
  LET s == target[p] IN
  /\ pc[p] = "full"
  /\ \/ /\ queue[s] # <<>>
        /\ queue' = [queue EXCEPT ![s] = Tail(@)]
        /\ Goto(p, "dropped")
     \/ /\ queue[s] = <<>>
        /\ Goto(p, IF s \in shut THEN "dropped" ELSE "retry")
        /\ UNCHANGED queue
  /\ UNCHANGED <<locks, subscribers, replay, flagged, shut, counters, todo, target,
                 carried, panicked, history>>

\* Mutant: an event that finds no room twice is not counted.
PublishCountSome(p) ==
  LET s == target[p] IN
  /\ pc[p] \in {"sent", "dropped", "lost"}
  /\ subLock[s] = None
  /\ Goto(p, IF pc[p] = "dropped" THEN "retry" ELSE "next")
  /\ eventsReceived' = [eventsReceived EXCEPT ![s] = IF pc[p] = "sent" THEN @ + 1 ELSE @]
  /\ eventsDropped' = [eventsDropped EXCEPT ![s] = IF pc[p] = "dropped" THEN @ + 1 ELSE @]
  /\ UNCHANGED <<locks, subscribers, replay, flagged, channels, todo, target, carried,
                 panicked, history>>

\* Mutant: an event that was sent is tried again.
PublishCountAgain(p) ==
  LET s == target[p] IN
  /\ pc[p] \in {"sent", "dropped", "lost"}
  /\ subLock[s] = None
  /\ Goto(p, IF pc[p] = "lost" THEN "next" ELSE "retry")
  /\ UNCHANGED <<locks, subscribers, replay, flagged, channels, counters, todo, target,
                 carried, panicked, history>>

\* The counters, under s.mu.
PublishCount(p) ==
  LET s == target[p] IN
  /\ pc[p] \in {"sent", "dropped", "lost"}
  /\ subLock[s] = None
  /\ Goto(p, IF pc[p] = "dropped" THEN "retry" ELSE "next")
  /\ IF pc[p] = "sent"
       THEN /\ eventsReceived' = [eventsReceived EXCEPT ![s] = @ + 1]
            /\ UNCHANGED eventsDropped
       ELSE /\ eventsDropped' = [eventsDropped EXCEPT ![s] = @ + 1]
            /\ UNCHANGED eventsReceived
  /\ UNCHANGED <<locks, subscribers, replay, flagged, channels, todo, target, carried,
                 panicked, history>>

\* Subscription.Next; without an event it changes nothing.
Receive(s) ==
  /\ queue[s] # <<>>
  /\ queue' = [queue EXCEPT ![s] = Tail(@)]
  /\ received' = [received EXCEPT ![s] = Append(@, Head(queue[s]))]
  /\ UNCHANGED <<locks, subscribers, replay, flagged, shut, counters, locals, panicked,
                 published, sent, fresh, since, prefilled>>

-----------------------------------------------------------------------------
\* close(sub.Events), which panics on a closed channel.
CloseChannel(s) ==
  \/ s \in shut /\ panicked' = "close of closed channel" /\ UNCHANGED shut
  \/ s \notin shut /\ shut' = shut \cup {s} /\ UNCHANGED panicked

\* Subscription.Close up to unsubscribe: s.mu stays locked.
CloseBegin(c) ==
  /\ pc[c] = "idle"
  /\ \E s \in Subs \ (fresh \cup flagged) :
       /\ subLock[s] = None
       /\ subLock' = [subLock EXCEPT ![s] = c]
       /\ flagged' = flagged \cup {s}
       /\ target' = [target EXCEPT ![c] = s]
  /\ Goto(c, "unsubscribe")
  /\ UNCHANGED <<busLock, subscribers, replay, channels, counters, todo, carried,
                 panicked, history>>

\* Mutant: s.mu stays locked.
CloseEndHeld(c) ==
  LET s == target[c] IN
  /\ pc[c] = "unsubscribe"
  /\ busLock = None
  /\ CloseChannel(s)
  /\ subscribers' = subscribers \ {s}
  /\ Goto(c, "idle")
  /\ UNCHANGED <<locks, replay, flagged, queue, counters, todo, target, carried, history>>

\* unsubscribe takes b.mu as well; then both are released.
CloseEnd(c) ==
  LET s == target[c] IN
  /\ pc[c] = "unsubscribe"
  /\ busLock = None
  /\ \/ s \in subscribers /\ CloseChannel(s)
     \/ s \notin subscribers /\ UNCHANGED <<shut, panicked>>
  /\ subscribers' = subscribers \ {s}
  /\ subLock' = [subLock EXCEPT ![s] = None]
  /\ Goto(c, "idle")
  /\ UNCHANGED <<busLock, replay, flagged, queue, counters, todo, target, carried, history>>

\* CloseAll holds b.mu throughout and takes s.mu of each subscriber in turn.
SweepBegin(w) ==
  /\ pc[w] = "idle"
  /\ busLock = None
  /\ busLock' = w
  /\ Goto(w, "sweep")
  /\ UNCHANGED <<subLock, subscribers, replay, flagged, channels, counters, todo, target,
                 carried, panicked, history>>

SweepOne(w) ==
  /\ pc[w] = "sweep"
  /\ \E s \in subscribers :
       /\ subLock[s] = None
       /\ flagged' = flagged \cup {s}
       /\ CloseChannel(s)
       /\ subscribers' = subscribers \ {s}
  /\ UNCHANGED <<locks, replay, queue, counters, locals, history>>

SweepEnd(w) ==
  /\ pc[w] = "sweep"
  /\ subscribers = {}
  /\ replay' = <<>>
  /\ busLock' = None
  /\ Goto(w, "done")
  /\ UNCHANGED <<subLock, subscribers, flagged, channels, counters, todo, target, carried,
                 panicked, history>>

-----------------------------------------------------------------------------
PublishStep(p) ==
  \/ PublishRecord(p) \/ PublishNext(p) \/ PublishReturn(p)
  \/ PublishSend(p) \/ PublishDrop(p) \/ PublishCount(p)

Step(t) ==
  \/ t \in Publishers /\ PublishStep(t)
  \/ t \in Closers /\ (CloseBegin(t) \/ CloseEnd(t))
  \/ t \in Sweepers /\ (SweepBegin(t) \/ SweepOne(t) \/ SweepEnd(t))

GoNext ==
  /\ panicked = "no"
  /\ \/ \E t \in Threads : Step(t)
     \/ \E s \in Subs : Receive(s) \/ \E fill \in BOOLEAN : Subscribe(s, fill)

GoSpec == GoInit /\ [][GoNext]_goVars

(* Goroutines that can run do run.  A subscription is closed once and a    *)
(* publisher p has MaxEvents[p] events, so a mutex that is wanted is free  *)
(* for good in the end, unless the goroutines block one another.           *)
GoFairSpec ==
  GoSpec /\ \A t \in Threads : WF_goVars(panicked = "no" /\ Step(t))

-----------------------------------------------------------------------------

\* Publishers with an event for s in hand.
Carrying(s) ==
  {p \in Publishers :
     /\ pc[p] # "idle"
     /\ Matches(s, carried[p])
     /\ s \in todo[p] \/ (pc[p] # "next" /\ target[p] = s)}

(* Nothing is lost unseen: once no publisher is at an open subscription,   *)
(* every matching event since it was made was received, is in the channel  *)
(* or is counted in EventsDropped, however publishers and the receiver     *)
(* interleave.                                                             *)
NothingLostUncounted ==
  \A s \in subscribers \ flagged :
    Carrying(s) = {} =>
      Len(received[s]) + Len(queue[s]) + eventsDropped[s] =
        prefilled[s]
          + Cardinality({i \in (since[s] + 1) .. Len(published) : Matches(s, published[i])})

(* "Publish sends an event to all matching subscribers.  Returns the       *)
(* number of subscribers that received the event." (go/streaming.go:180):  *)
(* it does not panic because a subscriber closes meanwhile.                *)
PublishSurvivesClose == panicked # "send on closed channel"

(* Every call of Publish and Close returns: a goroutine waits for a mutex  *)
(* forever only when a Close, which takes s.mu and then b.mu, has met a    *)
(* CloseAll, which takes them the other way round; there is no other way   *)
(* for goroutines to block one another.                                    *)
CallsReturn ==
  \A t \in Publishers \cup Closers :
    pc[t] \notin {"idle", "done"} ~>
      \/ pc[t] \in {"idle", "done"}
      \/ panicked # "no"
      \/ \E c \in Closers : pc[c] = "unsubscribe" /\ busLock \in Sweepers

\* The event feed that this bus is: what is queued or on its way is due.
Feed == INSTANCE EventFeed WITH
  open <- subscribers,
  due <- [s \in Subs |-> ToSet(queue[s]) \cup
            {carried[p] : p \in {q \in Carrying(s) : ~(pc[q] = "sent" /\ target[q] = s)}}]

(* The bus keeps the promise of an event feed: at most once, only matching *)
(* events, nothing published after the close, each publisher in order.     *)
ImplementsFeed == Feed!FeedSpec
=============================================================================
