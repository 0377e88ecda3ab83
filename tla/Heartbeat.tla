------------------------------ MODULE Heartbeat -----------------------------
(***************************************************************************)
(* Liveness detection (heartbeat.py): HeartbeatClient in each agent posts  *)
(* a beat and sleeps, HeartbeatTracker at the hub records the beats and    *)
(* reaps the agents that have been silent too long.                        *)
(*                                                                         *)
(* The hub records a beat when the request reaches it; the client goes on  *)
(* to sleep when the answer reaches it, or is given up.  A post may also   *)
(* be lost, or time out at the client while the beat is still on its way;  *)
(* one that is `late' may reach the hub at any moment, even after the      *)
(* agent has left.  Sleeping loops wake on time: the clock does not pass a *)
(* loop that has something to do.                                          *)
(***************************************************************************)
EXTENDS Clock, FiniteSets

CONSTANTS
  Beating,     \* the agents
  Interval,    \* HeartbeatClient._interval
  PostTimeout, \* the longest a post lasts: _timeout bounds each phase of it
  Timeout,     \* HeartbeatTracker._timeout
  MaxLost      \* bound: beats of an agent lost in a row

ASSUME HeartbeatAssumption ==
  /\ {Interval, PostTimeout, Timeout} \subseteq Nat \ {0}
  /\ MaxLost \in Nat

VARIABLES
  pulse,   \* _agents: the last_beat of each agent that has one
  loop,    \* _task of each agent: what it does, and until when
  lostRow, \* beats lost in a row, by agent
  late,    \* agents with a beat on its way that the client gave up
  firstTry \* agents whose loop has had a beat through since it was started

heartbeatVars == <<pulse, loop, lostRow, late, firstTry>>

Off == [doing |-> "off", until |-> 0]

\* AgentPulse.age_seconds, of an agent the tracker knows.
Age(a) == now - pulse[a]

\* is_alive
IsAlive(a) == a \in DOMAIN pulse /\ Age(a) < Timeout

DeadAgents == {a \in DOMAIN pulse : Age(a) >= Timeout}

-----------------------------------------------------------------------------
HeartbeatInit ==
  /\ pulse = <<>>
  /\ loop = [a \in Beating |-> Off]
  /\ lostRow = [a \in Beating |-> 0]
  /\ late = {}
  /\ firstTry = {}

\* Mutant: only an agent's first beat is recorded.
BeatOnce(a) ==
  pulse' = [b \in DOMAIN pulse \cup {a} |-> IF b \in DOMAIN pulse THEN pulse[b] ELSE now]

\* beat: an unknown agent is added.
Beat(a) ==
  pulse' = [b \in DOMAIN pulse \cup {a} |-> IF b = a THEN now ELSE pulse[b]]

\* start does nothing while there is a task; the new loop posts at once.
StartLoop(a) ==
  /\ loop[a] = Off
  /\ loop' = [loop EXCEPT ![a] = [doing |-> "posting", until |-> now + PostTimeout]]
  /\ UNCHANGED <<pulse, lostRow, late, firstTry>>

\* stop cancels the task wherever it waits; a post under way may still arrive.
StopLoop(a) ==
  /\ loop[a] # Off
  /\ loop' = [loop EXCEPT ![a] = Off]
  /\ \/ loop[a].doing = "posting" /\ late' = late \cup {a}
     \/ late' = late
  /\ lostRow' = [lostRow EXCEPT ![a] = 0]
  /\ firstTry' = firstTry \ {a}
  /\ UNCHANGED pulse

Sleep(a) == [loop EXCEPT ![a] = [doing |-> "sleeping", until |-> now + Interval]]

\* The hub records the beat, while the client awaits the answer.
Recorded(a) ==
  /\ loop[a].doing = "posting"
  /\ Beat(a)
  /\ loop' = [loop EXCEPT ![a] = [doing |-> "answering", until |-> loop[a].until]]
  /\ lostRow' = [lostRow EXCEPT ![a] = 0]
  /\ firstTry' = firstTry \cup {a}
  /\ UNCHANGED late

\* Whether the answer comes or is given up, the loop goes on to sleep.
PostEnds(a) ==
  /\ loop[a].doing = "answering"
  /\ loop' = Sleep(a)
  /\ UNCHANGED <<pulse, lostRow, late, firstTry>>

\* _beat_once returns False, and the loop goes on: there is no retry.
Failed(a) ==
  /\ loop[a].doing = "posting"
  /\ lostRow[a] < MaxLost
  /\ loop' = Sleep(a)
  /\ lostRow' = [lostRow EXCEPT ![a] = @ + 1]
  /\ \/ late' = late
     \/ now = loop[a].until /\ late' = late \cup {a}
  /\ UNCHANGED <<pulse, firstTry>>

Wakes(a) ==
  /\ loop[a].doing = "sleeping" /\ loop[a].until = now
  /\ loop' = [loop EXCEPT ![a] = [doing |-> "posting", until |-> now + PostTimeout]]
  /\ UNCHANGED <<pulse, lostRow, late, firstTry>>

ArrivesLate(a) ==
  /\ a \in late
  /\ Beat(a)
  /\ late' = late \ {a}
  /\ UNCHANGED <<loop, lostRow, firstTry>>

\* reap; on_dead of each, whose exceptions are logged, changes nothing here.
Reap ==
  /\ DeadAgents # {}
  /\ pulse' = [a \in DOMAIN pulse \ DeadAgents |-> pulse[a]]
  /\ UNCHANGED <<loop, lostRow, late, firstTry>>

Unregister(a) ==
  /\ a \in DOMAIN pulse /\ loop[a] = Off
  /\ pulse' = [b \in DOMAIN pulse \ {a} |-> pulse[b]]
  /\ UNCHANGED <<loop, lostRow, late, firstTry>>

HeartbeatNext ==
  \/ /\ \A a \in Beating : loop[a] # Off => now < loop[a].until
     /\ Tick
     /\ UNCHANGED heartbeatVars
  \/ /\ UNCHANGED now
     /\ \/ Reap
        \/ \E a \in Beating :
             \/ StartLoop(a) \/ StopLoop(a) \/ Recorded(a) \/ PostEnds(a) \/ Failed(a)
             \/ Wakes(a) \/ ArrivesLate(a) \/ Unregister(a)

HeartbeatSpec ==
  ClockInit /\ HeartbeatInit /\ [][HeartbeatNext]_<<now, heartbeatVars>>

-----------------------------------------------------------------------------
(* A running agent is never taken for dead: once a beat of its loop has    *)
(* been recorded, the tracker holds it and is_alive says so, as long as    *)
(* the timeout outlasts the beats that can be lost in a row, each an       *)
(* interval and a post, and one post more: the answer to the beat that was *)
(* recorded may take as long.                                              *)
RunningIsAlive ==
  (MaxLost + 1) * (Interval + PostTimeout) + PostTimeout < Timeout =>
    \A a \in firstTry : IsAlive(a)
=============================================================================
