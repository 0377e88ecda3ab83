---------------------------- MODULE TokenBucket -----------------------------
(***************************************************************************)
(* The rate limiter of the FastAPI router (router.py, TokenBucket).        *)
(*                                                                         *)
(* The code counts tokens in floating point and refills rate_limit / 60 of *)
(* them per second.  Here the bucket is counted in parts of a token, Part  *)
(* of them to a token, so that Rate parts per unit of time is an integer.  *)
(* `admitted' is a history variable: when each admitted request came.      *)
(***************************************************************************)
EXTENDS Integers, Sequences

CONSTANTS
  Burst,     \* max_tokens
  Rate,      \* parts added per unit of time
  Part,      \* parts of one token
  MaxTime,   \* bound: the clock stops here
  MaxAdmits  \* bound: admitted requests

ASSUME BucketAssumption ==
  /\ Burst \in Nat /\ Rate \in Nat /\ Part \in Nat \ {0}
  /\ MaxTime \in Nat /\ MaxAdmits \in Nat

VARIABLES time, bucket, last, admitted

bucketVars == <<bucket, last, admitted>>
limiterVars == <<time, bucketVars>>

Capacity == Burst * Part

BucketInit ==
  /\ bucket = Capacity
  /\ last = 0
  /\ admitted = <<>>

\* min(max, tokens + elapsed * rate)
Refilled(now) ==
  LET full == bucket + (now - last) * Rate IN
  IF full > Capacity THEN Capacity ELSE full

\* Mutant: a part of a token admits a request.
ConsumePart(now, ok) ==
  /\ ok = (Refilled(now) > 0)
  /\ last' = now
  /\ \/ /\ ok
        /\ bucket' = Refilled(now) - Part
        /\ admitted' = Append(admitted, now)
     \/ /\ ~ok
        /\ bucket' = Refilled(now)
        /\ UNCHANGED admitted

\* consume() at time now, answering ok.
Consume(now, ok) ==
  /\ ok = (Refilled(now) >= Part)
  /\ last' = now
  /\ \/ /\ ok
        /\ bucket' = Refilled(now) - Part
        /\ admitted' = Append(admitted, now)
     \/ /\ ~ok
        /\ bucket' = Refilled(now)
        /\ UNCHANGED admitted

-----------------------------------------------------------------------------
LimiterInit == time = 0 /\ BucketInit

Wait ==
  /\ time < MaxTime
  /\ time' = time + 1
  /\ UNCHANGED bucketVars

Request ==
  /\ Len(admitted) < MaxAdmits
  /\ \E ok \in BOOLEAN : Consume(time, ok)
  /\ UNCHANGED time

LimiterNext == Wait \/ Request

LimiterSpec == LimiterInit /\ [][LimiterNext]_limiterVars

-----------------------------------------------------------------------------
\* Types; the bucket never holds more than max_tokens nor less than nothing.
BucketTypeOK ==
  /\ time \in Nat
  /\ bucket \in 0 .. Capacity
  /\ last \in Nat
  /\ last <= time
  /\ admitted \in Seq(Nat)

(* The limit over every interval: between any two admitted requests, both  *)
(* counted, there are no more than the burst and what the interval itself  *)
(* refilled, whatever requests were refused meanwhile.                     *)
RateBounded ==
  \A i, j \in 1 .. Len(admitted) :
    i <= j => (j - i + 1) * Part <= Capacity + (admitted[j] - admitted[i]) * Rate

(* A refused request costs nothing: the bucket is as full as if the        *)
(* refused requests had never come, so waiting for a token is never longer *)
(* than the refill of one token.                                           *)
RefusalIsFree ==
  admitted # <<>> /\ Burst >= 1 /\ (time - admitted[Len(admitted)]) * Rate >= Part =>
    Refilled(time) >= Part
=============================================================================
