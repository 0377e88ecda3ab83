------------------------------- MODULE Clock --------------------------------
(***************************************************************************)
(* The wall clock, time.time(), of the components that keep deadlines.     *)
(***************************************************************************)
EXTENDS Integers

CONSTANT LastTick  \* bound: the clock stops here

ASSUME ClockAssumption == LastTick \in Nat

VARIABLE now

ClockInit == now = 0

Tick ==
  /\ now < LastTick
  /\ now' = now + 1
=============================================================================
