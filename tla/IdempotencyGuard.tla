-------------------------- MODULE IdempotencyGuard --------------------------
(***************************************************************************)
(* The deduplication guard of the Python SDK (dedup.py, IdempotencyGuard). *)
(*                                                                         *)
(* `seen' is the OrderedDict of the code: a sequence of [key, ts] entries  *)
(* in insertion order, the front being the next one popitem(last=False)    *)
(* removes.  Time is a natural number.  A call of is_duplicate reads the   *)
(* clock twice, once in _evict_expired and once for `now'; the clock may   *)
(* advance by at most Lag during one call.                                 *)
(*                                                                         *)
(* `accepted' and `forgotten' are history variables: the keys the guard    *)
(* answered False for, with the time it recorded, since it was last empty  *)
(* by construction or clear(), and the keys that its capacity loop popped  *)
(* in that time.                                                           *)
(***************************************************************************)
EXTENDS Integers, Sequences, SequencesExt

CONSTANTS
  Keys,        \* idempotency keys (message ids)
  MaxKeys,     \* max_keys
  TTL,         \* ttl_seconds
  Lag,         \* longest time one call takes
  Horizon,     \* bound: the clock stops here
  MaxAccepts   \* bound: number of False answers recorded in `accepted'

ASSUME GuardAssumption ==
  /\ MaxKeys \in Nat \ {0}
  /\ TTL \in Nat
  /\ Lag \in Nat
  /\ Horizon \in Nat
  /\ MaxAccepts \in Nat

VARIABLES clock, seen, accepted, forgotten

guardVars == <<seen, accepted, forgotten>>

Entry == [key : Keys, ts : Nat]

\* The times a clock read during one call may return.
Now == {t \in clock .. (clock + Lag) : t <= Horizon}

-----------------------------------------------------------------------------
\* Mutant: entries leave one unit of time before their TTL.
ExpiredPrefixEarly(s, n, t) ==
  /\ \A i \in 1 .. n : s[i].ts <= t - TTL + 1
  /\ n < Len(s) => s[n + 1].ts > t - TTL + 1

\* Mutant: expired entries stay until the capacity loop pops them.
ExpiredPrefixNever(s, n, t) == n = 0

(* _evict_expired stops after n entries: everything before is past the     *)
(* TTL at time t and entry n + 1, if any, is not.                          *)
ExpiredPrefix(s, n, t) ==
  /\ \A i \in 1 .. n : s[i].ts <= t - TTL
  /\ n < Len(s) => s[n + 1].ts > t - TTL

\* Mutant: an entry stops counting one unit of time before its TTL.
HoldsFreshLess(s, k, t) ==
  \E i \in 1 .. Len(s) : s[i].key = k /\ t - s[i].ts < TTL - 1

\* `key in self._seen' and recorded less than ttl_seconds before t.
HoldsFresh(s, k, t) ==
  \E i \in 1 .. Len(s) : s[i].key = k /\ t - s[i].ts < TTL

\* `del self._seen[key]' if it is there.
Without(s, k) ==
  IF \E i \in 1 .. Len(s) : s[i].key = k
    THEN RemoveAt(s, CHOOSE i \in 1 .. Len(s) : s[i].key = k)
    ELSE s

\* How many entries the capacity loop pops from the front.
Excess(s) == IF Len(s) > MaxKeys THEN Len(s) - MaxKeys ELSE 0

\* `while len(self._seen) > self._max_keys: popitem(last=False)'.
Trim(s) ==
  /\ seen' = SubSeq(s, Excess(s) + 1, Len(s))
  /\ forgotten' = forgotten \cup {s[i].key : i \in 1 .. Excess(s)}

(* is_duplicate(k) answering dup; `evict' and `now' are its clock reads.   *)
IsDuplicate(k, evict, now, dup) ==
  \E n \in 0 .. Len(seen) :
    LET live == SubSeq(seen, n + 1, Len(seen)) IN
    /\ ExpiredPrefix(seen, n, evict)
    /\ dup = HoldsFresh(live, k, now)
    /\ \/ /\ dup
          /\ seen' = live
          /\ UNCHANGED <<accepted, forgotten>>
       \/ /\ ~dup
          /\ Trim(Append(Without(live, k), [key |-> k, ts |-> now]))
          /\ accepted' = Append(accepted, [key |-> k, ts |-> now])

(* mark_seen(k): assigning an existing key keeps its place in the order.   *)
MarkSeen(k, now) ==
  /\ \/ \E i \in 1 .. Len(seen) :
          /\ seen[i].key = k
          /\ Trim([seen EXCEPT ![i] = [key |-> k, ts |-> now]])
     \/ /\ \A i \in 1 .. Len(seen) : seen[i].key # k
        /\ Trim(Append(seen, [key |-> k, ts |-> now]))
  /\ UNCHANGED accepted

(* clear(): the history starts again with it. *)
Clear ==
  /\ seen' = <<>>
  /\ accepted' = <<>>
  /\ forgotten' = {}

-----------------------------------------------------------------------------
GuardInit ==
  /\ seen = <<>>
  /\ accepted = <<>>
  /\ forgotten = {}

Init ==
  /\ GuardInit
  /\ clock = 0

Tick ==
  /\ clock < Horizon
  /\ clock' = clock + 1
  /\ UNCHANGED guardVars

CallIsDuplicate ==
  \E k \in Keys, dup \in BOOLEAN, evict \in Now, now \in Now :
    /\ evict <= now
    /\ Len(accepted) < MaxAccepts
    /\ IsDuplicate(k, evict, now, dup)
    /\ clock' = now

CallMarkSeen ==
  \E k \in Keys : MarkSeen(k, clock) /\ UNCHANGED clock

CallClear == seen # <<>> /\ Clear /\ UNCHANGED clock

Next == Tick \/ CallIsDuplicate \/ CallMarkSeen \/ CallClear

vars == <<clock, guardVars>>

Spec == Init /\ [][Next]_vars

-----------------------------------------------------------------------------
(* Types; the guard never holds more than max_keys entries, each of them   *)
(* under its own key and recorded in the past.                             *)
TypeOK ==
  /\ clock \in Nat
  /\ seen \in Seq(Entry)
  /\ Len(seen) <= MaxKeys
  /\ accepted \in Seq(Entry)
  /\ forgotten \in SUBSET Keys
  /\ \A i \in 1 .. Len(seen) : seen[i].ts <= clock
  /\ \A i \in 1 .. Len(accepted) : accepted[i].ts <= clock
  /\ \A i, j \in 1 .. Len(seen) : seen[i].key = seen[j].key => i = j

(* A key the guard let through is still held, at least as recent, until    *)
(* its TTL has passed, unless the capacity loop popped it: neither an      *)
(* eviction that runs on an order mark_seen has disturbed, nor the         *)
(* deletion of a stale entry, loses it earlier.                            *)
RemembersWindow ==
  \A a \in 1 .. Len(accepted) :
    \/ accepted[a].key \in forgotten
    \/ accepted[a].ts + TTL <= clock
    \/ \E i \in 1 .. Len(seen) :
         seen[i].key = accepted[a].key /\ seen[i].ts >= accepted[a].ts

(* is_duplicate answers False twice for one key only TTL apart, or when    *)
(* the capacity loop has popped it ("True if the key was seen within the   *)
(* TTL window").                                                           *)
AcceptedOnceInWindow ==
  \A a, b \in 1 .. Len(accepted) :
    a < b /\ accepted[a].key = accepted[b].key =>
      \/ accepted[a].key \in forgotten
      \/ accepted[a].ts + TTL <= accepted[b].ts
=============================================================================
