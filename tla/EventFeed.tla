------------------------------ MODULE EventFeed ------------------------------
(***************************************************************************)
(* What an event bus promises its subscribers, whatever its locks, queues  *)
(* and threads: the abstract specification that the Python bus (EventBus)  *)
(* and the Go bus (GoEventBus) are shown to implement.                     *)
(*                                                                         *)
(* An event is [pub, n], the n-th event of its publisher.  due[s] are the  *)
(* events s may still receive; a bus may lose events, that is forget them  *)
(* from due, but never returns one to it.                                  *)
(***************************************************************************)
EXTENDS Integers, Sequences

CONSTANTS
  Subs,        \* subscriptions
  Publishers,  \* sources of events
  Sources,     \* the filter: which publishers a subscription listens to
  ReplaySize   \* replay_size: how many past events a subscription may ask for

VARIABLES
  published,  \* every event, in the order of publication
  sent,       \* how many events each publisher has published
  open,       \* subscriptions that new events are for
  fresh,      \* subscriptions that have not been made yet
  due,
  received    \* what each subscriber received, in order

feedVars == <<published, sent, open, fresh, due, received>>

Event == [pub : Publishers, n : Nat \ {0}]

Matches(s, e) == e.pub \in Sources[s]

\* The next event of p: it publishes one after the other.
NextOf(p) == [pub |-> p, n |-> sent[p] + 1]

\* The last ReplaySize events.
Recent ==
  {published[i] : i \in {j \in 1 .. Len(published) : j > Len(published) - ReplaySize}}

-----------------------------------------------------------------------------
FeedInit ==
  /\ published = <<>>
  /\ sent = [p \in Publishers |-> 0]
  /\ open = {}
  /\ fresh = Subs
  /\ due = [s \in Subs |-> {}]
  /\ received = [s \in Subs |-> <<>>]

Publish(p) ==
  /\ published' = Append(published, NextOf(p))
  /\ sent' = [sent EXCEPT ![p] = @ + 1]
  /\ \A s \in Subs :
       due'[s] \subseteq due[s] \cup
         (IF s \in open /\ Matches(s, NextOf(p)) THEN {NextOf(p)} ELSE {})
  /\ UNCHANGED <<open, fresh, received>>

Subscribe(s) ==
  /\ s \in fresh
  /\ fresh' = fresh \ {s}
  /\ open' = open \cup {s}
  /\ due'[s] \subseteq {e \in Recent : Matches(s, e)}
  /\ \A t \in Subs \ {s} : due'[t] = due[t]
  /\ UNCHANGED <<published, sent, received>>

\* The subscriber takes an event; it is not overtaken by one of its publisher.
Receive(s) ==
  /\ \E e \in due[s] :
       /\ \A d \in due[s] : d.pub = e.pub => e.n <= d.n
       /\ received' = [received EXCEPT ![s] = Append(@, e)]
       /\ due' = [due EXCEPT ![s] = @ \ {e}]
  /\ UNCHANGED <<published, sent, open, fresh>>

\* Subscriptions end; what they have not received may be lost with them.
Close ==
  /\ open' \subseteq open
  /\ \A s \in Subs : due'[s] \subseteq due[s]
  /\ UNCHANGED <<published, sent, fresh, received>>

FeedNext ==
  \/ \E p \in Publishers : Publish(p)
  \/ \E s \in Subs : Subscribe(s) \/ Receive(s)
  \/ Close

FeedSpec == FeedInit /\ [][FeedNext]_feedVars

-----------------------------------------------------------------------------
(* No subscriber receives an event twice, nor an event of a publisher      *)
(* after a later one of the same publisher.                                *)
ReceivedInOrder ==
  \A s \in Subs : \A i, j \in 1 .. Len(received[s]) :
    i < j /\ received[s][i].pub = received[s][j].pub =>
      received[s][i].n < received[s][j].n
=============================================================================
