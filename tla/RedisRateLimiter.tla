-------------------------- MODULE RedisRateLimiter --------------------------
(***************************************************************************)
(* The rate limit middleware (middleware/rate_limiter.py): the requests of *)
(* one client, handled by server processes that share the counters in      *)
(* Redis.  A process does not yield between the two checks, but others run *)
(* in between, time passes, and Redis may fail at any call.  The clocks of *)
(* the processes and of Redis are one.                                     *)
(***************************************************************************)
EXTENDS Clock, FiniteSets

CONSTANTS
  Requests,
  PerMinute,  \* _per_minute
  PerHour,    \* _per_hour
  Minute,     \* the ticks of a minute
  Hour        \* the ticks of an hour

ASSUME RateAssumption == {PerMinute, PerHour, Minute, Hour} \subseteq Nat \ {0}

VARIABLES
  failOpen,   \* _fail_open
  counts,     \* the keys in Redis: <<"m", minute>> and <<"h", hour>> -> [n, until]
  request     \* each request: where dispatch is, its windows and counts, its runs

rateVars == <<failOpen, counts, request>>

\* inMinute and inHour: it was counted before the window it read was over.
Unsent ==
  [at |-> "unsent", minute |-> 0, hour |-> 0, minuteCount |-> 0, hourCount |-> 0,
   inMinute |-> FALSE, inHour |-> FALSE, runs |-> 0]

RateKeys == {"m", "h"} \X (0 .. LastTick)

MinuteKey(q) == <<"m", request[q].minute>>
HourKey(q) == <<"h", request[q].hour>>

\* Mutant: both counters are kept for a minute.
AMinute(key) == Minute

\* What _check_limit is called with for a key.
Window(key) == IF key[1] = "m" THEN Minute ELSE Hour

\* A key without an expiry stays; one that has expired is as if it were not.
Never == LastTick + 1
Count(key) == IF now >= counts[key].until THEN 0 ELSE counts[key].n

Is(q, at) == request[q].at = at

To(q, at) == request' = [request EXCEPT ![q].at = at]

-----------------------------------------------------------------------------
RateInit ==
  /\ failOpen \in BOOLEAN
  /\ counts = [k \in RateKeys |-> [n |-> 0, until |-> Never]]
  /\ request = [q \in Requests |-> Unsent]

\* dispatch: without a client the policy decides, else the minute is read.
Dispatch(q) ==
  /\ Is(q, "unsent")
  /\ \/ request' = [request EXCEPT ![q].at = "clock", ![q].minute = now \div Minute]
     \/ To(q, IF failOpen THEN "passed" ELSE "refused")
  /\ UNCHANGED <<failOpen, counts>>

\* The second time.time(): the hour need not be that of the minute.
ReadHour(q) ==
  /\ Is(q, "clock")
  /\ request' = [request EXCEPT ![q].at = "minute", ![q].hour = now \div Hour]
  /\ UNCHANGED <<failOpen, counts>>

(* INCR and EXPIRE in one transaction, of which either may fail: INCR      *)
(* makes a key without an expiry, or leaves that of the key, and EXPIRE    *)
(* does nothing for a key that is not there.                               *)
RunPipeline(key, incr, expire) ==
  LET n == Count(key) + IF incr THEN 1 ELSE 0 IN
  counts' = [counts EXCEPT ![key] =
    [n |-> n,
     until |-> IF expire /\ n > 0 THEN now + Window(key)
               ELSE IF Count(key) = 0 THEN Never
               ELSE counts[key].until]]

\* _check_limit
CheckMinute(q) ==
  /\ Is(q, "minute")
  /\ RunPipeline(MinuteKey(q), TRUE, TRUE)
  /\ request' = [request EXCEPT
       ![q].at = "hour", ![q].minuteCount = Count(MinuteKey(q)) + 1,
       ![q].inMinute = now \div Minute = request[q].minute]
  /\ UNCHANGED failOpen

CheckHour(q) ==
  /\ Is(q, "hour")
  /\ RunPipeline(HourKey(q), TRUE, TRUE)
  /\ request' = [request EXCEPT
       ![q].at = "decide", ![q].hourCount = Count(HourKey(q)) + 1,
       ![q].inHour = now \div Hour = request[q].hour]
  /\ UNCHANGED failOpen

(* A call of Redis raises: nothing, one or both of the commands have been  *)
(* executed, and by the policy the request is refused with 503 or handled. *)
CheckRaises(q, incr, expire) ==
  /\ \/ Is(q, "minute") /\ RunPipeline(MinuteKey(q), incr, expire)
     \/ Is(q, "hour") /\ RunPipeline(HourKey(q), incr, expire)
  /\ To(q, IF failOpen THEN "passed" ELSE "refused")
  /\ UNCHANGED failOpen

Within(q) == request[q].minuteCount <= PerMinute /\ request[q].hourCount <= PerHour

\* 429 without a run, or call_next.
Decide(q) ==
  /\ Is(q, "decide")
  /\ IF Within(q) THEN request' = [request EXCEPT ![q].at = "running", ![q].runs = @ + 1]
     ELSE To(q, "refused")
  /\ UNCHANGED <<failOpen, counts>>

Returns(q) ==
  /\ Is(q, "running") \/ Is(q, "again")
  /\ To(q, "answered")
  /\ UNCHANGED <<failOpen, counts>>

\* The try covers call_next, too: a handler that raised is refused, or called again.
HandlerRaises(q) ==
  /\ Is(q, "running")
  /\ To(q, IF failOpen THEN "passed" ELSE "refused")
  /\ UNCHANGED <<failOpen, counts>>

PassThrough(q) ==
  /\ Is(q, "passed")
  /\ request' = [request EXCEPT ![q].at = "again", ![q].runs = @ + 1]
  /\ UNCHANGED <<failOpen, counts>>

\* A handler that was called outside the try may raise, too.
Escapes(q) ==
  /\ Is(q, "again")
  /\ To(q, "raised")
  /\ UNCHANGED <<failOpen, counts>>

RateNext ==
  \/ Tick /\ UNCHANGED rateVars
  \/ /\ UNCHANGED now
     /\ \E q \in Requests :
          \/ Dispatch(q) \/ ReadHour(q) \/ CheckMinute(q) \/ CheckHour(q) \/ Decide(q)
          \/ \E incr, expire \in BOOLEAN : CheckRaises(q, incr, expire)
          \/ Returns(q) \/ HandlerRaises(q) \/ PassThrough(q) \/ Escapes(q)

RateSpec == ClockInit /\ RateInit /\ [][RateNext]_<<now, rateVars>>

-----------------------------------------------------------------------------
RunsIn(qs) == {q \in qs : request[q].runs > 0}

(* Failing closed, the limits hold whatever the processes interleave and   *)
(* wherever Redis fails, also between INCR and EXPIRE: of the requests     *)
(* that came and were counted within one calendar minute, and within one   *)
(* calendar hour, no more are handled than allowed.  (One that is counted  *)
(* only in the next minute may find the counter gone.)  A handler that     *)
(* raises is run once, though its answer is the 503 of a refused request;  *)
(* failing open it is run twice, and never more.                           *)
LimitsHold ==
  /\ \A q \in Requests : request[q].runs <= IF failOpen THEN 2 ELSE 1
  /\ ~failOpen =>
       \A t \in 0 .. LastTick :
         /\ Cardinality(RunsIn({q \in Requests : request[q].minute = t /\ request[q].inMinute}))
              <= PerMinute
         /\ Cardinality(RunsIn({q \in Requests : request[q].hour = t /\ request[q].inHour}))
              <= PerHour
=============================================================================
