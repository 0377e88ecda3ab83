------------------------------ MODULE Workflow -------------------------------
(***************************************************************************)
(* Workflow orchestration of the Python SDK (workflow.py): a Workflow and  *)
(* one WorkflowEngine that runs it on an event loop.                       *)
(*                                                                         *)
(* run() looks for ready tasks, hands them to asyncio.gather and looks     *)
(* again when all of them have ended.  Between two awaits nothing else     *)
(* runs; at every await other coroutines may add tasks, cancel tasks or    *)
(* save a checkpoint, the coroutine of run() may be cancelled, and the     *)
(* process may be restarted from the last checkpoint.                      *)
(***************************************************************************)
EXTENDS Integers, FiniteSets

CONSTANTS
  Tasks,
  DependsOn,      \* depends_on of each task
  MaxRetries,     \* max_retries of each task
  Cancelling,     \* other coroutines call cancel_task
  Interruptions,  \* run() is cancelled, or the process restarted
  None

ASSUME WorkflowAssumption ==
  /\ DependsOn \in [Tasks -> SUBSET Tasks]
  /\ MaxRetries \in [Tasks -> Nat]
  /\ Cancelling \in BOOLEAN
  /\ Interruptions \in BOOLEAN

VARIABLES
  added,       \* tasks in _tasks
  status,      \* status of each task
  retryCount,  \* retry_count of each task
  engine,      \* where run() is: idle, looping, gathering, returned
  coroutine,   \* where _execute_task is for each task: none, scheduled, sending
  attempt,     \* its loop variable, from 1
  saved,       \* the last to_dict(), or None
  results,     \* what run() returned last, or None
  sends,       \* history: send_fn calls for each task in this process
  completed,   \* history: tasks that were COMPLETED at some time
  withdrawn    \* history: tasks other coroutines cancelled

tasksVars == <<added, status, retryCount>>
engineVars == <<engine, coroutine, attempt, results>>
historyVars == <<sends, completed, withdrawn>>
workflowVars == <<tasksVars, engineVars, saved, historyVars>>

Terminal == {"completed", "failed", "cancelled"}
Statuses == Terminal \cup {"pending", "running"}

\* What to_dict() keeps.
Snapshots == [added : SUBSET Tasks, status : [Tasks -> Statuses], retryCount : [Tasks -> Nat]]

ASSUME NoneAssumption == None \notin Snapshots

-----------------------------------------------------------------------------
WorkflowInit ==
  /\ added = {}
  /\ status = [t \in Tasks |-> "pending"]
  /\ retryCount = [t \in Tasks |-> 0]
  /\ engine = "idle"
  /\ coroutine = [t \in Tasks |-> "none"]
  /\ attempt = [t \in Tasks |-> 0]
  /\ saved = None
  /\ results = None
  /\ sends = [t \in Tasks |-> 0]
  /\ completed = {}
  /\ withdrawn = {}

\* add_task: the dependencies must be there, so no cycle can arise.
AddTask(t) ==
  /\ t \notin added
  /\ DependsOn[t] \subseteq added
  /\ added' = added \cup {t}
  /\ UNCHANGED <<status, retryCount, engineVars, saved, historyVars>>

\* cancel_task, whatever the task is doing.
CancelTask(t) ==
  /\ Cancelling
  /\ t \in added
  /\ status[t] # "cancelled"
  /\ status' = [status EXCEPT ![t] = "cancelled"]
  /\ withdrawn' = withdrawn \cup {t}
  /\ UNCHANGED <<added, retryCount, engineVars, saved, sends, completed>>

\* Mutant: a dependency that has ended is enough.
ReadyAfterEnd ==
  {t \in added : status[t] = "pending" /\ \A d \in DependsOn[t] : status[d] \in Terminal}

\* get_ready_tasks
Ready ==
  {t \in added : status[t] = "pending" /\ \A d \in DependsOn[t] : status[d] = "completed"}

\* is_complete
IsComplete == \A t \in added : status[t] \in Terminal

-----------------------------------------------------------------------------
StartRun ==
  /\ engine \in {"idle", "returned"}
  /\ engine' = "looping"
  /\ UNCHANGED <<tasksVars, coroutine, attempt, results, saved, historyVars>>

\* The loop of run() ends; the results are built from the statuses.
Return(final) ==
  /\ engine' = "returned"
  /\ results' = [t \in added |-> final[t]]
  /\ status' = final
  /\ UNCHANGED <<added, retryCount, coroutine, attempt, saved, historyVars>>

LoopComplete ==
  /\ engine = "looping"
  /\ IsComplete
  /\ Return(status)

\* Mutant: pending tasks are left as they are.
LoopBlockedLeft ==
  /\ engine = "looping"
  /\ ~IsComplete
  /\ Ready = {}
  /\ Return(status)

\* Mutant: run() waits for a task to become ready.
LoopBlockedWaits ==
  /\ engine = "looping"
  /\ ~IsComplete
  /\ Ready = {}
  /\ UNCHANGED workflowVars

\* Mutant: pending tasks are marked failed.
LoopBlockedFailed ==
  /\ engine = "looping"
  /\ ~IsComplete
  /\ Ready = {}
  /\ Return([t \in Tasks |->
       IF t \in added /\ status[t] = "pending" THEN "failed" ELSE status[t]])

\* No task is ready: what is pending is cancelled.
LoopBlocked ==
  /\ engine = "looping"
  /\ ~IsComplete
  /\ Ready = {}
  /\ Return([t \in Tasks |->
       IF t \in added /\ status[t] = "pending" THEN "cancelled" ELSE status[t]])

LoopGather ==
  /\ engine = "looping"
  /\ Ready # {}
  /\ engine' = "gathering"
  /\ coroutine' = [t \in Tasks |-> IF t \in Ready THEN "scheduled" ELSE coroutine[t]]
  /\ UNCHANGED <<tasksVars, attempt, results, saved, historyVars>>

GatherReturns ==
  /\ engine = "gathering"
  /\ \A t \in Tasks : coroutine[t] = "none"
  /\ engine' = "looping"
  /\ UNCHANGED <<tasksVars, coroutine, attempt, results, saved, historyVars>>

\* _execute_task up to its first await.
StartTask(t) ==
  /\ coroutine[t] = "scheduled"
  /\ status' = [status EXCEPT ![t] = "running"]
  /\ coroutine' = [coroutine EXCEPT ![t] = "sending"]
  /\ attempt' = [attempt EXCEPT ![t] = 1]
  /\ sends' = [sends EXCEPT ![t] = @ + 1]
  /\ UNCHANGED <<added, retryCount, engine, results, saved, completed, withdrawn>>

SendSucceeds(t) ==
  /\ coroutine[t] = "sending"
  /\ status' = [status EXCEPT ![t] = "completed"]
  /\ completed' = completed \cup {t}
  /\ coroutine' = [coroutine EXCEPT ![t] = "none"]
  /\ UNCHANGED <<added, retryCount, engine, attempt, results, saved, sends, withdrawn>>

\* send_fn raises, or timeout_seconds have passed: the next attempt, or the last.
SendRaises(t) ==
  /\ coroutine[t] = "sending"
  /\ retryCount' = [retryCount EXCEPT ![t] = attempt[t]]
  /\ \/ /\ attempt[t] <= MaxRetries[t]
        /\ status' = [status EXCEPT ![t] = "running"]
        /\ attempt' = [attempt EXCEPT ![t] = @ + 1]
        /\ sends' = [sends EXCEPT ![t] = @ + 1]
        /\ UNCHANGED coroutine
     \/ /\ attempt[t] > MaxRetries[t]
        /\ status' = [status EXCEPT ![t] = "failed"]
        /\ coroutine' = [coroutine EXCEPT ![t] = "none"]
        /\ UNCHANGED <<attempt, sends>>
  /\ UNCHANGED <<added, engine, results, saved, completed, withdrawn>>

-----------------------------------------------------------------------------
\* to_dict
Checkpoint ==
  /\ Interruptions
  /\ saved' = [added |-> added, status |-> status, retryCount |-> retryCount]
  /\ UNCHANGED <<tasksVars, engineVars, historyVars>>

\* The coroutine of run() is cancelled, and the gathered ones with it.
Abort ==
  /\ Interruptions
  /\ engine = "gathering"
  /\ engine' = "idle"
  /\ coroutine' = [t \in Tasks |-> "none"]
  /\ UNCHANGED <<tasksVars, attempt, results, saved, historyVars>>

\* Mutant: what was running at the checkpoint is taken to be done.
RestartOptimistic ==
  /\ Interruptions
  /\ saved # None
  /\ added' = saved.added
  /\ status' = [t \in Tasks |->
       IF saved.status[t] = "running" THEN "completed" ELSE saved.status[t]]
  /\ retryCount' = saved.retryCount
  /\ engine' = "idle"
  /\ coroutine' = [t \in Tasks |-> "none"]
  /\ attempt' = [t \in Tasks |-> 0]
  /\ results' = None
  /\ sends' = [t \in Tasks |-> 0]
  /\ UNCHANGED <<saved, completed, withdrawn>>

\* A new process: from_dict of the last checkpoint, and a new engine.
Restart ==
  /\ Interruptions
  /\ saved # None
  /\ added' = saved.added
  /\ status' = saved.status
  /\ retryCount' = saved.retryCount
  /\ engine' = "idle"
  /\ coroutine' = [t \in Tasks |-> "none"]
  /\ attempt' = [t \in Tasks |-> 0]
  /\ results' = None
  /\ sends' = [t \in Tasks |-> 0]
  /\ UNCHANGED <<saved, completed, withdrawn>>

EngineStep ==
  \/ LoopComplete \/ LoopBlocked \/ LoopGather \/ GatherReturns
  \/ \E t \in Tasks : StartTask(t) \/ SendSucceeds(t) \/ SendRaises(t)

WorkflowNext ==
  \/ \E t \in Tasks : AddTask(t) \/ CancelTask(t)
  \/ StartRun
  \/ EngineStep
  \/ Checkpoint \/ Abort \/ Restart

WorkflowSpec == WorkflowInit /\ [][WorkflowNext]_workflowVars

(* The event loop runs what can run, and every send ends: asyncio.wait_for *)
(* raises after timeout_seconds.                                           *)
WorkflowFairness == WF_workflowVars(EngineStep)

WorkflowFairSpec == WorkflowSpec /\ WorkflowFairness

-----------------------------------------------------------------------------
\* Types; coroutines exist only while gather runs, and only for tasks that were added.
WorkflowTypeOK ==
  /\ added \subseteq Tasks
  /\ status \in [Tasks -> Statuses]
  /\ retryCount \in [Tasks -> Nat]
  /\ engine \in {"idle", "looping", "gathering", "returned"}
  /\ coroutine \in [Tasks -> {"none", "scheduled", "sending"}]
  /\ attempt \in [Tasks -> Nat]
  /\ engine # "gathering" => \A t \in Tasks : coroutine[t] = "none"
  /\ \A t \in Tasks \ added : status[t] = "pending" /\ coroutine[t] = "none"

(* Nothing is sent before everything it depends on has completed, also     *)
(* when tasks are added, and run() is interrupted, while others run.       *)
DependenciesFirst ==
  \A t \in Tasks : sends[t] > 0 => DependsOn[t] \subseteq completed

\* One run of the engine sends a task at most 1 + max_retries times.
AttemptsBounded ==
  \A t \in Tasks : sends[t] <= 1 + MaxRetries[t]

(* run() gives a task up only for a reason: a task is cancelled because a  *)
(* dependency did not complete or somebody cancelled it, and it fails only *)
(* when every attempt is used up.                                          *)
GivenUpForCause ==
  engine = "returned" =>
    \A t \in added :
      /\ status[t] = "cancelled" =>
           t \in withdrawn \/ \E d \in DependsOn[t] : status[d] # "completed"
      /\ status[t] = "failed" => retryCount[t] = 1 + MaxRetries[t]

(* "Execute the workflow to completion" (workflow.py:339): every task has  *)
(* a final status in what run() returns.                                   *)
RunsToCompletion ==
  results # None => \A t \in DOMAIN results : results[t] \in Terminal

(* A run that is not interrupted returns, whatever fails, times out or is  *)
(* cancelled.                                                              *)
RunReturns == engine \in {"looping", "gathering"} ~> engine = "returned"

\* DagRun calls a pending task open.
Outcome(st) == [t \in Tasks |-> IF st[t] = "pending" THEN "open" ELSE st[t]]

Dag == INSTANCE DagRun WITH
  known <- added,
  outcome <- Outcome(status),
  underWay <- {t \in Tasks : coroutine[t] = "sending"},
  kept <- IF saved = None THEN {}
          ELSE {[known |-> saved.added, outcome |-> Outcome(saved.status)]}

(* The engine runs a DAG as DagRun promises: each task once, after its     *)
(* dependencies, cancelled only when nothing can be started, and back only *)
(* to a checkpoint (without cancel_task from outside).                     *)
ImplementsDagRun == Dag!DagSpec
=============================================================================
