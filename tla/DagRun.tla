-------------------------------- MODULE DagRun -------------------------------
(***************************************************************************)
(* What running a workflow promises: the abstract specification that the   *)
(* workflow engine (Workflow) is shown to implement, interruptions and     *)
(* checkpoints included.                                                   *)
(*                                                                         *)
(* A task is open until it is started, which happens once everything it    *)
(* depends on has completed; it is decided while it is under way, once and *)
(* for all.  Tasks are cancelled only when nothing is under way and none   *)
(* can be started: then all that is open has waited in vain.  Only going   *)
(* back to a checkpoint takes a decision back.                             *)
(***************************************************************************)
CONSTANTS Tasks, DependsOn

VARIABLES
  known,
  outcome,   \* of each task: open, running, completed, failed, cancelled
  underWay,  \* tasks that are being executed
  kept       \* the last checkpoint, if any: a set of at most one

dagVars == <<known, outcome, underWay, kept>>

DagInit ==
  /\ known = {}
  /\ outcome = [t \in Tasks |-> "open"]
  /\ underWay = {}
  /\ kept = {}

Add(t) ==
  /\ t \in Tasks \ known
  /\ DependsOn[t] \subseteq known
  /\ known' = known \cup {t}
  /\ UNCHANGED <<outcome, underWay, kept>>

Startable(t) ==
  /\ t \in known
  /\ outcome[t] = "open"
  /\ \A d \in DependsOn[t] : outcome[d] = "completed"

Start(t) ==
  /\ Startable(t)
  /\ outcome' = [outcome EXCEPT ![t] = "running"]
  /\ underWay' = underWay \cup {t}
  /\ UNCHANGED <<known, kept>>

Decide(t) ==
  /\ t \in underWay
  /\ \E o \in {"completed", "failed"} : outcome' = [outcome EXCEPT ![t] = o]
  /\ underWay' = underWay \ {t}
  /\ UNCHANGED <<known, kept>>

GiveUp ==
  /\ underWay = {}
  /\ \A t \in Tasks : ~Startable(t)
  /\ outcome' = [t \in Tasks |->
       IF t \in known /\ outcome[t] = "open" THEN "cancelled" ELSE outcome[t]]
  /\ UNCHANGED <<known, underWay, kept>>

\* The run is cut off: what was under way stays undecided.
Interrupt ==
  /\ underWay' = {}
  /\ UNCHANGED <<known, outcome, kept>>

Keep ==
  /\ kept' = {[known |-> known, outcome |-> outcome]}
  /\ UNCHANGED <<known, outcome, underWay>>

GoBack ==
  /\ \E c \in kept : known' = c.known /\ outcome' = c.outcome
  /\ underWay' = {}
  /\ UNCHANGED kept

DagNext ==
  \/ \E t \in Tasks : Add(t) \/ Start(t) \/ Decide(t)
  \/ GiveUp \/ Interrupt \/ Keep \/ GoBack

DagSpec == DagInit /\ [][DagNext]_dagVars
=============================================================================
