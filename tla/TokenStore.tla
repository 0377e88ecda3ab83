----------------------------- MODULE TokenStore -----------------------------
(***************************************************************************)
(* The use counters of delegation tokens (token_store.py).  StoreTTL is    *)
(* None for InMemoryTokenStore, whose counters live as long as the         *)
(* process; for RedisTokenStore it is the EXPIRE that every successful     *)
(* increment sets again on the counter.                                    *)
(***************************************************************************)
EXTENDS Integers

CONSTANTS TokenIds, StoreTTL, NoLimit

ASSUME StoreAssumption ==
  /\ NoLimit \notin Nat
  /\ StoreTTL \in Nat \cup {NoLimit}

VARIABLES
  uses,      \* use count per token id
  touched    \* time of the last successful increment

storeVars == <<uses, touched>>

InMemory == StoreTTL = NoLimit

StoreInit ==
  /\ uses = [t \in TokenIds |-> 0]
  /\ touched = [t \in TokenIds |-> 0]

\* get_count: a Redis key that has expired reads as zero.
Count(t, now) ==
  IF ~InMemory /\ now >= touched[t] + StoreTTL THEN 0 ELSE uses[t]

\* Mutant: one use too many.
WithinLimitOver(t, max, now) == max = NoLimit \/ Count(t, now) <= max

WithinLimit(t, max, now) == max = NoLimit \/ Count(t, now) < max

\* get_and_increment(t, max) answering ok.
GetAndIncrement(t, max, now, ok) ==
  /\ ok = WithinLimit(t, max, now)
  /\ \/ /\ ok
        /\ uses' = [uses EXCEPT ![t] = Count(t, now) + 1]
        /\ touched' = [touched EXCEPT ![t] = now]
     \/ /\ ~ok
        /\ UNCHANGED storeVars

\* The process restarts: only the in-memory counters are lost.
StoreRestart ==
  IF InMemory
    THEN /\ uses' = [t \in TokenIds |-> 0]
         /\ touched' = [t \in TokenIds |-> 0]
    ELSE UNCHANGED storeVars
=============================================================================
