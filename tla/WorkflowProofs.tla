--------------------------- MODULE WorkflowProofs ----------------------------
(***************************************************************************)
(* Proofs about the workflow engine: for any DAG, any numbers of retries,  *)
(* and whatever other coroutines, interruptions and restarts do; and about *)
(* the graph algorithms of a workflow, for any graph of finitely many      *)
(* tasks.                                                                  *)
(***************************************************************************)
EXTENDS Workflow, ExecutionOrder, FiniteSetTheorems, TLAPS

\* A task that will not complete any more: it has a status, and not that one.
Stuck == {"running", "failed", "cancelled"}

(* What holds of the tasks at any time, and therefore in every checkpoint. *)
SnapshotOK(add, st, retries) ==
  /\ add \subseteq Tasks
  /\ st \in [Tasks -> Statuses]
  /\ retries \in [Tasks -> Nat]
  /\ \A t \in add : DependsOn[t] \subseteq add
  /\ \A t \in Tasks \ add : st[t] = "pending"
  /\ \A t \in Tasks : st[t] = "completed" => t \in completed
  /\ \A t \in Tasks : st[t] = "failed" => retries[t] = 1 + MaxRetries[t]
  /\ \A t \in Tasks : st[t] = "cancelled" =>
       t \in withdrawn \/ \E d \in DependsOn[t] : st[d] \in Stuck

\* Coroutines, attempts and statuses agree.
CoroutineOK(t) ==
  /\ coroutine[t] # "none" => DependsOn[t] \subseteq completed /\ t \in added
  /\ coroutine[t] = "scheduled" => sends[t] = 0 /\ status[t] \in {"pending", "cancelled"}
  /\ coroutine[t] = "sending" => sends[t] = attempt[t] /\ attempt[t] <= 1 + MaxRetries[t]
  /\ status[t] = "pending" => sends[t] = 0 /\ coroutine[t] # "sending"
  /\ status[t] = "failed" => coroutine[t] = "none"
  /\ status[t] = "cancelled" =>
       \/ t \in withdrawn
       \/ \E d \in DependsOn[t] : status[d] \in Stuck /\ coroutine[d] = "none"
  /\ sends[t] <= 1 + MaxRetries[t]
  /\ sends[t] > 0 => DependsOn[t] \subseteq completed

ControlOK ==
  /\ engine \in {"idle", "looping", "gathering", "returned"}
  /\ coroutine \in [Tasks -> {"none", "scheduled", "sending"}]
  /\ attempt \in [Tasks -> Nat]
  /\ sends \in [Tasks -> Nat]
  /\ engine # "gathering" => \A t \in Tasks : coroutine[t] = "none"

WorkflowInv ==
  /\ ControlOK
  /\ SnapshotOK(added, status, retryCount)
  /\ saved # None => SnapshotOK(saved.added, saved.status, saved.retryCount)
  /\ \A t \in Tasks : CoroutineOK(t)

\* The invariant holds in the initial state.
LEMMA InitWorkflowInv == WorkflowInit => WorkflowInv
  BY WorkflowAssumption
     DEF WorkflowInit, WorkflowInv, ControlOK, SnapshotOK, CoroutineOK, Statuses, Terminal

(***************************************************************************)
(* A step that keeps the tasks and what is known of them, and takes        *)
(* nothing back, keeps the checkpoint sound.                               *)
(***************************************************************************)
LEMMA SavedKept ==
  ASSUME WorkflowInv, saved' = saved, completed \subseteq completed', withdrawn \subseteq withdrawn'
  PROVE  saved' # None => SnapshotOK(saved.added, saved.status, saved.retryCount)'
  BY DEF WorkflowInv, SnapshotOK

\* A task is added with its dependencies in place.
LEMMA AddTaskInv ==
  ASSUME WorkflowInv, NEW t \in Tasks, AddTask(t)
  PROVE  WorkflowInv'
<1> USE WorkflowAssumption
<1>1. ControlOK'
  BY DEF AddTask, WorkflowInv, ControlOK, engineVars, historyVars
<1>2. SnapshotOK(added, status, retryCount)'
  BY DEF AddTask, WorkflowInv, SnapshotOK, historyVars
<1>3. saved' # None => SnapshotOK(saved.added, saved.status, saved.retryCount)'
  BY SavedKept DEF AddTask, historyVars
<1>4. \A u \in Tasks : CoroutineOK(u)'
  BY DEF AddTask, WorkflowInv, CoroutineOK, engineVars, historyVars
<1> QED
  BY <1>1, <1>2, <1>3, <1>4 DEF WorkflowInv

\* A cancelled task was cancelled by somebody.
LEMMA CancelTaskInv ==
  ASSUME WorkflowInv, NEW t \in Tasks, CancelTask(t)
  PROVE  WorkflowInv'
<1> USE WorkflowAssumption
<1>1. ControlOK'
  BY DEF CancelTask, WorkflowInv, ControlOK, engineVars
<1>2. SnapshotOK(added, status, retryCount)'
  BY DEF CancelTask, WorkflowInv, SnapshotOK, Statuses, Terminal, Stuck
<1>3. saved' # None => SnapshotOK(saved.added, saved.status, saved.retryCount)'
  BY SavedKept DEF CancelTask
<1>4. \A u \in Tasks : CoroutineOK(u)'
  BY DEF CancelTask, WorkflowInv, SnapshotOK, CoroutineOK, engineVars, Stuck
<1> QED
  BY <1>1, <1>2, <1>3, <1>4 DEF WorkflowInv

\* What gather starts is scheduled and has sent nothing.
LEMMA LoopGatherInv ==
  ASSUME WorkflowInv, LoopGather
  PROVE  WorkflowInv'
<1> USE WorkflowAssumption
<1>1. ControlOK'
  BY DEF LoopGather, WorkflowInv, ControlOK, tasksVars, historyVars
<1>2. SnapshotOK(added, status, retryCount)'
  BY DEF LoopGather, WorkflowInv, SnapshotOK, tasksVars, historyVars
<1>3. saved' # None => SnapshotOK(saved.added, saved.status, saved.retryCount)'
  BY SavedKept DEF LoopGather, historyVars
<1>4. \A u \in Tasks : CoroutineOK(u)'
  BY DEF LoopGather, Ready, WorkflowInv, SnapshotOK, CoroutineOK, ControlOK, tasksVars, historyVars, Stuck
<1> QED
  BY <1>1, <1>2, <1>3, <1>4 DEF WorkflowInv

\* The loop ends: all tasks are done, or those that never get ready are given up.
LEMMA ReturnInv ==
  ASSUME WorkflowInv, LoopComplete \/ LoopBlocked
  PROVE  WorkflowInv'
<1> USE WorkflowAssumption
<1>1. engine = "looping" /\ \A t \in Tasks : coroutine[t] = "none"
  BY DEF LoopComplete, LoopBlocked, WorkflowInv, ControlOK
<1>2. /\ added' = added /\ retryCount' = retryCount /\ coroutine' = coroutine
      /\ attempt' = attempt /\ saved' = saved /\ sends' = sends
      /\ completed' = completed /\ withdrawn' = withdrawn
      /\ engine' = "returned"
  BY DEF LoopComplete, LoopBlocked, Return, historyVars
<1>3. \/ status' = status
      \/ /\ Ready = {}
         /\ status' = [t \in Tasks |->
              IF t \in added /\ status[t] = "pending" THEN "cancelled" ELSE status[t]]
  BY DEF LoopComplete, LoopBlocked, Return
<1>4. ControlOK'
  BY <1>1, <1>2 DEF WorkflowInv, ControlOK
<1>5. \A t \in Tasks : status'[t] = "cancelled" =>
        t \in withdrawn \/ \E d \in DependsOn[t] : status'[d] \in Stuck
  <2> SUFFICES ASSUME NEW t \in Tasks, status'[t] = "cancelled", t \notin withdrawn
               PROVE  \E d \in DependsOn[t] : status'[d] \in Stuck
    OBVIOUS
  <2>1. CASE status[t] = "cancelled"
    BY <1>3, <2>1 DEF WorkflowInv, SnapshotOK, Stuck
  <2>2. CASE status[t] # "cancelled"
    <3>1. Ready = {} /\ t \in added /\ status[t] = "pending"
      BY <1>3, <2>2
    <3>2. PICK d \in DependsOn[t] : status[d] # "completed"
      BY <3>1 DEF Ready
    <3>3. d \in added /\ d \in Tasks /\ status[d] \in Statuses
      BY <3>1, <3>2 DEF WorkflowInv, SnapshotOK
    <3>4. status'[d] \in Stuck
      BY <1>3, <2>2, <3>2, <3>3 DEF Statuses, Terminal, Stuck
    <3> QED
      BY <3>4
  <2> QED
    BY <2>1, <2>2
<1>6. SnapshotOK(added, status, retryCount)'
  BY <1>2, <1>3, <1>5 DEF WorkflowInv, SnapshotOK, Statuses, Terminal
<1>7. saved' # None => SnapshotOK(saved.added, saved.status, saved.retryCount)'
  BY <1>2, SavedKept
<1>8. \A u \in Tasks : CoroutineOK(u)'
  BY <1>1, <1>2, <1>3, <1>5 DEF WorkflowInv, SnapshotOK, CoroutineOK
<1> QED
  BY <1>4, <1>6, <1>7, <1>8 DEF WorkflowInv
\* run() begins, and gather returns: only engine changes.
LEMMA LoopInv ==
  ASSUME WorkflowInv, StartRun \/ GatherReturns
  PROVE  WorkflowInv'
<1> USE WorkflowAssumption
<1>1. ControlOK'
  BY DEF StartRun, GatherReturns, WorkflowInv, ControlOK, tasksVars, historyVars
<1>2. SnapshotOK(added, status, retryCount)'
  BY DEF StartRun, GatherReturns, WorkflowInv, SnapshotOK, tasksVars, historyVars
<1>3. saved' # None => SnapshotOK(saved.added, saved.status, saved.retryCount)'
  BY SavedKept DEF StartRun, GatherReturns, historyVars
<1>4. \A u \in Tasks : CoroutineOK(u)'
  BY DEF StartRun, GatherReturns, WorkflowInv, SnapshotOK, CoroutineOK, ControlOK, tasksVars, historyVars
<1> QED
  BY <1>1, <1>2, <1>3, <1>4 DEF WorkflowInv

\* A task that is sent was pending, or cancelled since it was scheduled.
LEMMA StartTaskInv ==
  ASSUME WorkflowInv, NEW t \in Tasks, StartTask(t)
  PROVE  WorkflowInv'
<1> USE WorkflowAssumption
<1>1. ControlOK'
  BY DEF StartTask, WorkflowInv, ControlOK
<1>2. SnapshotOK(added, status, retryCount)'
  BY DEF StartTask, WorkflowInv, SnapshotOK, CoroutineOK, Statuses, Terminal, Stuck
<1>3. saved' # None => SnapshotOK(saved.added, saved.status, saved.retryCount)'
  BY SavedKept DEF StartTask
<1>4. ASSUME NEW u \in Tasks
      PROVE  CoroutineOK(u)'
  <2>1. CASE u = t
    <3>1. /\ coroutine[t] # "none" /\ sends[t] = 0 /\ MaxRetries[t] \in Nat
          /\ DependsOn[t] \subseteq completed /\ t \in added
      BY DEF StartTask, WorkflowInv, CoroutineOK
    <3>2. /\ coroutine'[t] = "sending" /\ status'[t] = "running"
          /\ sends'[t] = 1 /\ attempt'[t] = 1
      BY <3>1 DEF StartTask, WorkflowInv, ControlOK, SnapshotOK
    <3> QED
      BY <2>1, <3>1, <3>2 DEF StartTask, CoroutineOK
  <2>2. CASE u # t
    <3>1. /\ coroutine'[u] = coroutine[u] /\ status'[u] = status[u]
          /\ sends'[u] = sends[u] /\ attempt'[u] = attempt[u]
      BY <2>2 DEF StartTask, WorkflowInv, ControlOK, SnapshotOK
    <3>2. \A d \in DependsOn[u] : status[d] \in Stuck /\ coroutine[d] = "none" =>
            status'[d] \in Stuck /\ coroutine'[d] = "none"
      BY DEF StartTask, WorkflowInv, ControlOK, SnapshotOK
    <3> QED
      BY <3>1, <3>2 DEF StartTask, WorkflowInv, CoroutineOK
  <2> QED
    BY <2>1, <2>2
<1> QED
  BY <1>1, <1>2, <1>3, <1>4 DEF WorkflowInv

\* A success makes no task that is given up for its sake wrong: that one counted on a stuck task.
LEMMA SendSucceedsInv ==
  ASSUME WorkflowInv, NEW t \in Tasks, SendSucceeds(t)
  PROVE  WorkflowInv'
<1> USE WorkflowAssumption
<1>1. ControlOK'
  BY DEF SendSucceeds, WorkflowInv, ControlOK
<1>2. SnapshotOK(added, status, retryCount)'
  BY DEF SendSucceeds, WorkflowInv, SnapshotOK, CoroutineOK, Statuses, Terminal, Stuck
<1>3. saved' # None => SnapshotOK(saved.added, saved.status, saved.retryCount)'
  BY SavedKept DEF SendSucceeds
<1>4. \A u \in Tasks : CoroutineOK(u)'
  BY DEF SendSucceeds, WorkflowInv, SnapshotOK, CoroutineOK, ControlOK, Stuck
<1> QED
  BY <1>1, <1>2, <1>3, <1>4 DEF WorkflowInv

\* After a failed attempt there is another one, or the task has failed.
LEMMA SendRaisesInv ==
  ASSUME WorkflowInv, NEW t \in Tasks, SendRaises(t)
  PROVE  WorkflowInv'
<1> USE WorkflowAssumption
<1>1. ControlOK'
  BY DEF SendRaises, WorkflowInv, ControlOK
<1>5. /\ coroutine[t] = "sending" /\ sends[t] = attempt[t] /\ attempt[t] \in Nat
      /\ attempt[t] <= 1 + MaxRetries[t] /\ MaxRetries[t] \in Nat /\ t \in added
      /\ DependsOn[t] \subseteq completed
  BY DEF SendRaises, WorkflowInv, ControlOK, CoroutineOK
<1>6. \/ /\ status'[t] = "running" /\ coroutine'[t] = "sending"
         /\ sends'[t] = attempt[t] + 1 /\ attempt'[t] = attempt[t] + 1
         /\ attempt[t] + 1 <= 1 + MaxRetries[t]
      \/ /\ status'[t] = "failed" /\ coroutine'[t] = "none"
         /\ sends'[t] = attempt[t] /\ attempt[t] = 1 + MaxRetries[t]
         /\ retryCount'[t] = 1 + MaxRetries[t]
  BY <1>5 DEF SendRaises, WorkflowInv, ControlOK, SnapshotOK
<1>7. \A u \in Tasks \ {t} :
        /\ coroutine'[u] = coroutine[u] /\ status'[u] = status[u]
        /\ sends'[u] = sends[u] /\ attempt'[u] = attempt[u]
        /\ retryCount'[u] = retryCount[u]
  BY DEF SendRaises, WorkflowInv, ControlOK, SnapshotOK
<1>8. \A u \in Tasks : \A d \in DependsOn[u] :
        status[d] \in Stuck /\ coroutine[d] = "none" =>
          status'[d] \in Stuck /\ coroutine'[d] = "none"
  BY <1>5, <1>7
<1>2. SnapshotOK(added, status, retryCount)'
  <2>1. status' \in [Tasks -> Statuses] /\ retryCount' \in [Tasks -> Nat]
    BY <1>5 DEF SendRaises, WorkflowInv, SnapshotOK, Statuses, Terminal
  <2>2. \A u \in Tasks : status'[u] = "cancelled" =>
          u \in withdrawn \/ \E d \in DependsOn[u] : status'[d] \in Stuck
    BY <1>6, <1>7, <1>8 DEF WorkflowInv, CoroutineOK
  <2> QED
    BY <1>5, <1>6, <1>7, <2>1, <2>2 DEF SendRaises, WorkflowInv, SnapshotOK
<1>3. saved' # None => SnapshotOK(saved.added, saved.status, saved.retryCount)'
  BY SavedKept DEF SendRaises
<1>4. ASSUME NEW u \in Tasks
      PROVE  CoroutineOK(u)'
  <2>1. CASE u = t
    BY <1>5, <1>6, <2>1 DEF SendRaises, CoroutineOK
  <2>2. CASE u # t
    BY <1>7, <1>8, <2>2 DEF SendRaises, WorkflowInv, CoroutineOK
  <2> QED
    BY <2>1, <2>2
<1> QED
  BY <1>1, <1>2, <1>3, <1>4 DEF WorkflowInv

\* What is saved are the tasks as they are.
LEMMA CheckpointInv ==
  ASSUME WorkflowInv, Checkpoint
  PROVE  WorkflowInv'
<1>1. ControlOK'
  BY DEF Checkpoint, WorkflowInv, ControlOK, engineVars, historyVars
<1>2. SnapshotOK(added, status, retryCount)'
  BY DEF Checkpoint, WorkflowInv, SnapshotOK, tasksVars, historyVars
<1>3. SnapshotOK(saved.added, saved.status, saved.retryCount)'
  BY DEF Checkpoint, WorkflowInv, SnapshotOK, historyVars
<1>4. \A u \in Tasks : CoroutineOK(u)'
  BY DEF Checkpoint, WorkflowInv, CoroutineOK, tasksVars, engineVars, historyVars
<1> QED
  BY <1>1, <1>2, <1>3, <1>4 DEF WorkflowInv

\* All coroutines are gone; the tasks stay as they are.
LEMMA AbortInv ==
  ASSUME WorkflowInv, Abort
  PROVE  WorkflowInv'
<1> USE WorkflowAssumption
<1>1. ControlOK'
  BY DEF Abort, WorkflowInv, ControlOK, historyVars
<1>2. SnapshotOK(added, status, retryCount)'
  BY DEF Abort, WorkflowInv, SnapshotOK, tasksVars, historyVars
<1>3. saved' # None => SnapshotOK(saved.added, saved.status, saved.retryCount)'
  BY SavedKept DEF Abort, historyVars
<1>4. \A u \in Tasks : CoroutineOK(u)'
  BY DEF Abort, WorkflowInv, CoroutineOK, tasksVars, historyVars
<1> QED
  BY <1>1, <1>2, <1>3, <1>4 DEF WorkflowInv

\* A checkpoint is a sound state of the tasks, and nothing has been sent yet.
LEMMA RestartInv ==
  ASSUME WorkflowInv, Restart
  PROVE  WorkflowInv'
<1> USE WorkflowAssumption
<1>1. ControlOK'
  BY DEF Restart, ControlOK
<1>2. SnapshotOK(added, status, retryCount)'
  BY DEF Restart, WorkflowInv, SnapshotOK
<1>3. saved' # None => SnapshotOK(saved.added, saved.status, saved.retryCount)'
  BY SavedKept DEF Restart
<1>4. \A u \in Tasks : CoroutineOK(u)'
  BY DEF Restart, WorkflowInv, SnapshotOK, CoroutineOK
<1> QED
  BY <1>1, <1>2, <1>3, <1>4 DEF WorkflowInv

(* The inductive invariant of the engine: a task is not sent before what   *)
(* it depends on has completed, it is given up for a cause, and every      *)
(* checkpoint could have been the state of the tasks.                      *)
THEOREM WorkflowInvariance == WorkflowSpec => []WorkflowInv
<1>1. WorkflowInv /\ [WorkflowNext]_workflowVars => WorkflowInv'
  <2> SUFFICES ASSUME WorkflowInv, [WorkflowNext]_workflowVars
               PROVE  WorkflowInv'
    OBVIOUS
  <2>1. CASE UNCHANGED workflowVars
    BY <2>1 DEF WorkflowInv, ControlOK, SnapshotOK, CoroutineOK,
                workflowVars, tasksVars, engineVars, historyVars
  <2>2. CASE \E t \in Tasks : AddTask(t) \/ CancelTask(t)
    BY <2>2, AddTaskInv, CancelTaskInv
  <2>3. CASE StartRun \/ GatherReturns
    BY <2>3, LoopInv
  <2>4. CASE LoopComplete \/ LoopBlocked
    BY <2>4, ReturnInv
  <2>5. CASE LoopGather
    BY <2>5, LoopGatherInv
  <2>6. CASE \E t \in Tasks : StartTask(t) \/ SendSucceeds(t) \/ SendRaises(t)
    BY <2>6, StartTaskInv, SendSucceedsInv, SendRaisesInv
  <2>7. CASE Checkpoint \/ Abort \/ Restart
    BY <2>7, CheckpointInv, AbortInv, RestartInv
  <2> QED
    BY <2>1, <2>2, <2>3, <2>4, <2>5, <2>6, <2>7 DEF WorkflowNext, EngineStep
<1> QED
  BY <1>1, InitWorkflowInv, PTL DEF WorkflowSpec

\* Types; coroutines exist only while gather runs, and only for tasks that were added.
THEOREM WorkflowTypeCorrect == WorkflowSpec => []WorkflowTypeOK
<1>1. WorkflowInv => WorkflowTypeOK
  BY DEF WorkflowInv, WorkflowTypeOK, ControlOK, SnapshotOK, CoroutineOK
<1> QED
  BY <1>1, WorkflowInvariance, PTL

(* Nothing is sent before everything it depends on has completed, in this  *)
(* process or, after a restart, before the checkpoint.                     *)
THEOREM SendsAfterDependencies == WorkflowSpec => []DependenciesFirst
<1>1. WorkflowInv => DependenciesFirst
  BY DEF WorkflowInv, DependenciesFirst, CoroutineOK
<1> QED
  BY <1>1, WorkflowInvariance, PTL

\* One engine sends a task at most 1 + max_retries times, however often run() is called.
THEOREM BoundsAttempts == WorkflowSpec => []AttemptsBounded
<1>1. WorkflowInv => AttemptsBounded
  BY DEF WorkflowInv, AttemptsBounded, CoroutineOK
<1> QED
  BY <1>1, WorkflowInvariance, PTL

(* run() gives a task up only because somebody cancelled it, a dependency  *)
(* did not complete, or every attempt was used up.                         *)
THEOREM GivesUpForCause == WorkflowSpec => []GivenUpForCause
<1>1. WorkflowInv => GivenUpForCause
  BY DEF WorkflowInv, GivenUpForCause, SnapshotOK, Stuck
<1> QED
  BY <1>1, WorkflowInvariance, PTL
(***************************************************************************)
(* The engine implements DagRun while nobody calls cancel_task.  What is   *)
(* scheduled can still be started when its turn comes: its dependencies    *)
(* are completed, and stay so.                                             *)
(***************************************************************************)
Undisturbed ==
  \A t \in Tasks :
    /\ coroutine[t] = "scheduled" =>
         status[t] = "pending" /\ \A d \in DependsOn[t] : status[d] = "completed"
    /\ coroutine[t] = "sending" => status[t] = "running"

\* Tasks that wait for their turn are disturbed by cancel_task only.
LEMMA UndisturbedStep ==
  ASSUME ~Cancelling, WorkflowInv, Undisturbed, [WorkflowNext]_workflowVars
  PROVE  Undisturbed'
<1> USE WorkflowAssumption
<1>1. ASSUME NEW t \in Tasks, StartTask(t)
      PROVE  Undisturbed'
  BY <1>1 DEF StartTask, Undisturbed, WorkflowInv, ControlOK, SnapshotOK
<1>2. ASSUME NEW t \in Tasks, SendSucceeds(t)
      PROVE  Undisturbed'
  BY <1>2 DEF SendSucceeds, Undisturbed, WorkflowInv, ControlOK, SnapshotOK
<1>3. ASSUME NEW t \in Tasks, SendRaises(t)
      PROVE  Undisturbed'
  BY <1>3 DEF SendRaises, Undisturbed, WorkflowInv, ControlOK, SnapshotOK
<1>4. CASE LoopGather
  BY <1>4 DEF LoopGather, Ready, Undisturbed, WorkflowInv, ControlOK, tasksVars
<1>5. CASE LoopComplete \/ LoopBlocked
  <2>1. coroutine' = coroutine /\ \A t \in Tasks : coroutine[t] = "none"
    BY <1>5 DEF LoopComplete, LoopBlocked, Return, WorkflowInv, ControlOK
  <2> QED
    BY <2>1 DEF Undisturbed
<1>6. CASE Abort \/ Restart
  BY <1>6 DEF Abort, Restart, Undisturbed
<1>7. CASE \/ UNCHANGED workflowVars
           \/ \E t \in Tasks : AddTask(t)
           \/ StartRun \/ GatherReturns \/ Checkpoint
  BY <1>7 DEF Undisturbed, workflowVars, tasksVars, engineVars, historyVars,
              AddTask, StartRun, GatherReturns, Checkpoint
<1>8. \A t \in Tasks : ~CancelTask(t)
  BY DEF CancelTask
<1> QED
  BY <1>1, <1>2, <1>3, <1>4, <1>5, <1>6, <1>7, <1>8 DEF WorkflowNext, EngineStep

\* The tasks that DagRun sees under way.
Sending == {t \in Tasks : coroutine[t] = "sending"}

\* The engine starts in an initial state of DagRun.
LEMMA DagStart == WorkflowInit => Dag!DagInit
  BY DEF WorkflowInit, Dag!DagInit, Outcome

\* A first send starts the task, an answer or the last failure decides it.
LEMMA DagTaskSteps ==
  ASSUME WorkflowInv, Undisturbed, NEW t \in Tasks
  PROVE  /\ StartTask(t) => Dag!Start(t)
         /\ SendSucceeds(t) => Dag!Decide(t)
         /\ SendRaises(t) => Dag!Decide(t) \/ UNCHANGED Dag!dagVars
<1>1. ASSUME StartTask(t)
      PROVE  Dag!Start(t)
  <2>1. Dag!Startable(t)
    BY <1>1 DEF StartTask, Undisturbed, WorkflowInv, SnapshotOK, CoroutineOK, Dag!Startable, Outcome
  <2>2. Outcome(status)' = [Outcome(status) EXCEPT ![t] = "running"]
    BY <1>1 DEF StartTask, WorkflowInv, SnapshotOK, Outcome
  <2>3. Sending' = Sending \cup {t}
    BY <1>1 DEF StartTask, WorkflowInv, ControlOK, Sending
  <2> QED
    BY <1>1, <2>1, <2>2, <2>3 DEF StartTask, Dag!Start, Sending
<1>2. ASSUME SendSucceeds(t)
      PROVE  Dag!Decide(t)
  <2>1. Outcome(status)' = [Outcome(status) EXCEPT ![t] = "completed"]
    BY <1>2 DEF SendSucceeds, WorkflowInv, SnapshotOK, Outcome
  <2>2. Sending' = Sending \ {t} /\ t \in Sending
    BY <1>2 DEF SendSucceeds, WorkflowInv, ControlOK, Sending
  <2> QED
    BY <1>2, <2>1, <2>2 DEF SendSucceeds, Dag!Decide, Sending
<1>3. ASSUME SendRaises(t)
      PROVE  Dag!Decide(t) \/ UNCHANGED Dag!dagVars
  <2>1. CASE attempt[t] <= MaxRetries[t]
    <3>1. attempt[t] \in Nat /\ MaxRetries[t] \in Nat
      BY WorkflowAssumption DEF WorkflowInv, ControlOK
    <3>2. status' = [status EXCEPT ![t] = "running"] /\ coroutine' = coroutine
      BY <1>3, <2>1, <3>1 DEF SendRaises
    <3>3. status[t] = "running" /\ status \in [Tasks -> Statuses]
      BY <1>3 DEF SendRaises, Undisturbed, WorkflowInv, SnapshotOK
    <3>4. status' = status
      BY <3>2, <3>3
    <3> QED
      BY <1>3, <3>2, <3>4 DEF SendRaises, Dag!dagVars
  <2>2. CASE ~(attempt[t] <= MaxRetries[t])
    <3>1. Outcome(status)' = [Outcome(status) EXCEPT ![t] = "failed"]
      BY <1>3, <2>2 DEF SendRaises, WorkflowInv, SnapshotOK, Outcome
    <3>2. Sending' = Sending \ {t} /\ t \in Sending
      BY <1>3, <2>2 DEF SendRaises, WorkflowInv, ControlOK, Sending
    <3> QED
      BY <1>3, <3>1, <3>2 DEF SendRaises, Dag!Decide, Sending
  <2> QED
    BY <2>1, <2>2
<1> QED
  BY <1>1, <1>2, <1>3

\* When run() gives up, nothing is under way and nothing can be started.
LEMMA DagGiveUp ==
  ASSUME WorkflowInv, LoopBlocked
  PROVE  Dag!GiveUp
<1>1. Sending = {} /\ Sending' = {}
  BY DEF LoopBlocked, Return, WorkflowInv, ControlOK, Sending
<1>2. \A t \in Tasks : ~Dag!Startable(t)
  <2> SUFFICES ASSUME NEW t \in Tasks, Dag!Startable(t)
               PROVE  FALSE
    OBVIOUS
  <2>1. t \in added /\ DependsOn[t] \subseteq Tasks
    BY WorkflowAssumption DEF Dag!Startable
  <2>2. status[t] = "pending" /\ \A d \in DependsOn[t] : status[d] = "completed"
    BY <2>1 DEF Dag!Startable, Outcome, WorkflowInv, SnapshotOK, Statuses, Terminal
  <2> QED
    BY <2>1, <2>2 DEF LoopBlocked, Ready
<1>3. Outcome(status)' = [t \in Tasks |->
        IF t \in added /\ Outcome(status)[t] = "open" THEN "cancelled" ELSE Outcome(status)[t]]
  BY DEF LoopBlocked, Return, Outcome, WorkflowInv, SnapshotOK, Statuses, Terminal
<1> QED
  BY <1>1, <1>2, <1>3 DEF LoopBlocked, Return, Dag!GiveUp, Sending

\* Every other step is a step of DagRun or changes nothing that it sees.
LEMMA DagOtherSteps ==
  ASSUME WorkflowInv
  PROVE  /\ \A t \in Tasks : AddTask(t) => Dag!Add(t)
         /\ LoopComplete => UNCHANGED Dag!dagVars
         /\ StartRun \/ GatherReturns => UNCHANGED Dag!dagVars
         /\ LoopGather => UNCHANGED Dag!dagVars
         /\ Checkpoint => Dag!Keep
         /\ Abort => Dag!Interrupt
         /\ Restart => Dag!GoBack
<1>1. \A t \in Tasks : AddTask(t) => Dag!Add(t)
  BY DEF AddTask, Dag!Add, engineVars, historyVars
<1>2. LoopComplete => UNCHANGED Dag!dagVars
  BY DEF LoopComplete, Return, Dag!dagVars
<1>3. StartRun \/ GatherReturns => UNCHANGED Dag!dagVars
  BY DEF StartRun, GatherReturns, Dag!dagVars, tasksVars
<1>4. LoopGather => UNCHANGED Dag!dagVars
  <2> SUFFICES ASSUME LoopGather
               PROVE  UNCHANGED Dag!dagVars
    OBVIOUS
  <2>1. \A t \in Tasks : coroutine[t] = "none" /\ coroutine'[t] # "sending"
    BY DEF LoopGather, WorkflowInv, ControlOK
  <2>2. Sending' = Sending
    BY <2>1 DEF Sending
  <2> QED
    BY <2>2 DEF LoopGather, tasksVars, Dag!dagVars, Sending
<1>5. Checkpoint => Dag!Keep
  <2>1. Checkpoint => saved' # None
    BY NoneAssumption DEF Checkpoint, WorkflowInv, SnapshotOK, Snapshots
  <2>2. Checkpoint => saved'.added = added /\ saved'.status = status
    BY DEF Checkpoint
  <2> QED
    BY <2>1, <2>2 DEF Checkpoint, Dag!Keep, tasksVars, engineVars
<1>6. Abort => Dag!Interrupt
  BY DEF Abort, Dag!Interrupt, tasksVars
<1>7. Restart => Dag!GoBack
  BY DEF Restart, Dag!GoBack
<1> QED
  BY <1>1, <1>2, <1>3, <1>4, <1>5, <1>6, <1>7

(* The engine implements the abstract DAG run, checkpoints, interruptions  *)
(* and restarts included, as long as nobody calls cancel_task.             *)
THEOREM EngineImplementsDagRun ==
  ASSUME ~Cancelling
  PROVE  WorkflowSpec => ImplementsDagRun
<1>1. WorkflowInit => Undisturbed
  BY DEF WorkflowInit, Undisturbed
<1>2. WorkflowInv /\ Undisturbed /\ [WorkflowNext]_workflowVars => Undisturbed'
  BY UndisturbedStep
<1>3. WorkflowInv /\ Undisturbed /\ [WorkflowNext]_workflowVars => [Dag!DagNext]_Dag!dagVars
  <2> SUFFICES ASSUME WorkflowInv, Undisturbed, [WorkflowNext]_workflowVars
               PROVE  [Dag!DagNext]_Dag!dagVars
    OBVIOUS
  <2>1. CASE UNCHANGED workflowVars
    BY <2>1 DEF workflowVars, tasksVars, engineVars, Dag!dagVars
  <2>2. CASE \E t \in Tasks : StartTask(t) \/ SendSucceeds(t) \/ SendRaises(t)
    BY <2>2, DagTaskSteps DEF Dag!DagNext
  <2>3. CASE LoopBlocked
    BY <2>3, DagGiveUp DEF Dag!DagNext
  <2>4. CASE \/ \E t \in Tasks : AddTask(t)
             \/ LoopComplete \/ StartRun \/ GatherReturns \/ LoopGather
             \/ Checkpoint \/ Abort \/ Restart
    BY <2>4, DagOtherSteps DEF Dag!DagNext
  <2>5. \A t \in Tasks : ~CancelTask(t)
    BY DEF CancelTask
  <2> QED
    BY <2>1, <2>2, <2>3, <2>4, <2>5 DEF WorkflowNext, EngineStep
<1> QED
  BY <1>1, <1>2, <1>3, DagStart, WorkflowInvariance, PTL
     DEF WorkflowSpec, ImplementsDagRun, Dag!DagSpec
\* Without interruptions a running task is one that is being sent.
Accounted ==
  /\ \A t \in Tasks : status[t] = "running" => coroutine[t] = "sending"
  /\ results # None => \A t \in DOMAIN results : results[t] \in Terminal

\* What run() returns is complete, and no task is left running.
LEMMA AccountedStep ==
  ASSUME ~Interruptions, WorkflowInv, Accounted, [WorkflowNext]_workflowVars
  PROVE  Accounted'
<1>1. ASSUME NEW t \in Tasks, StartTask(t) \/ SendSucceeds(t) \/ SendRaises(t)
      PROVE  Accounted'
  BY <1>1 DEF StartTask, SendSucceeds, SendRaises, Accounted, WorkflowInv, ControlOK, SnapshotOK
<1>2. ASSUME NEW t \in Tasks, CancelTask(t)
      PROVE  Accounted'
  BY <1>2 DEF CancelTask, Accounted, WorkflowInv, SnapshotOK, engineVars
<1>3. CASE LoopComplete \/ LoopBlocked
  <2>1. /\ added' = added /\ coroutine' = coroutine
        /\ results' = [t \in added |-> status'[t]]
    BY <1>3 DEF LoopComplete, LoopBlocked, Return
  <2>2. \A t \in Tasks : status[t] # "running" /\ status[t] \in Statuses
    BY <1>3 DEF LoopComplete, LoopBlocked, WorkflowInv, ControlOK, SnapshotOK, Accounted
  <2>3. \A t \in Tasks : status'[t] # "running"
    BY <1>3, <2>2 DEF LoopComplete, LoopBlocked, Return
  <2>4. \A t \in added : status'[t] \in Terminal
    <3> SUFFICES ASSUME NEW t \in added
                 PROVE  status'[t] \in Terminal
      OBVIOUS
    <3>1. t \in Tasks
      BY DEF WorkflowInv, SnapshotOK
    <3>2. CASE LoopComplete
      BY <3>2 DEF LoopComplete, Return, IsComplete
    <3>3. CASE LoopBlocked
      BY <2>2, <3>1, <3>3 DEF LoopBlocked, Return, Statuses, Terminal
    <3> QED
      BY <1>3, <3>2, <3>3
  <2> QED
    BY <2>1, <2>3, <2>4 DEF Accounted
<1>4. CASE LoopGather
  BY <1>4 DEF LoopGather, Accounted, WorkflowInv, ControlOK, tasksVars
<1>5. CASE \/ UNCHANGED workflowVars
           \/ \E t \in Tasks : AddTask(t)
           \/ StartRun \/ GatherReturns
  BY <1>5 DEF Accounted, workflowVars, tasksVars, engineVars, historyVars,
              AddTask, StartRun, GatherReturns
<1>6. ~Checkpoint /\ ~Abort /\ ~Restart
  BY DEF Checkpoint, Abort, Restart
<1> QED
  BY <1>1, <1>2, <1>3, <1>4, <1>5, <1>6 DEF WorkflowNext, EngineStep

(* run() executes the workflow to completion: every task has a final       *)
(* status in what it returns, as long as run() is not cancelled and the    *)
(* process is not restarted.                                               *)
THEOREM CompletesUninterrupted ==
  ASSUME ~Interruptions
  PROVE  WorkflowSpec => []RunsToCompletion
<1>1. WorkflowInit => Accounted
  BY DEF WorkflowInit, Accounted
<1>2. WorkflowInv /\ Accounted /\ [WorkflowNext]_workflowVars => Accounted'
  BY AccountedStep
<1>3. Accounted => RunsToCompletion
  BY DEF Accounted, RunsToCompletion
<1> QED
  BY <1>1, <1>2, <1>3, WorkflowInvariance, PTL DEF WorkflowSpec

-----------------------------------------------------------------------------
(***************************************************************************)
(* The graph algorithms                                                    *)
(***************************************************************************)

\* Every task of S names one of S.
Closing(S) == \A t \in S : \E d \in S : edges[t][d] > 0

\* The tasks that are in a batch.
Placed == UNION {batches[i] : i \in 1 .. Len(batches)}

\* The unfinished tasks t names.
Unfinished(t) == {d \in remaining : edges[t][d] > 0}

OrderTypeOK ==
  /\ edges \in [Nodes -> [Nodes -> 0 .. Multiplicity]]
  /\ remaining \subseteq Nodes
  /\ stage \in {"checking", "ordering", "cyclic", "done"}
  /\ inDegree \in [Nodes -> Int]
  /\ queue \subseteq Nodes /\ visited \subseteq Nodes
  /\ batches \in Seq(SUBSET Nodes)

\* In-degrees are those without the visited tasks, and no cycle has one of those.
CheckingOK ==
  /\ batches = <<>>
  /\ \A t \in Nodes : inDegree[t] = Degree(t, Nodes \ visited)
  /\ \A t \in visited : inDegree[t] = 0
  /\ queue = {t \in Nodes \ visited : inDegree[t] = 0}
  /\ \A S \in SUBSET Nodes : Closing(S) => S \cap visited = {}

\* In-degrees are those without the tasks in batches.
OrderingOK ==
  /\ \A t \in remaining : inDegree[t] = Degree(t, remaining \ Placed)
  /\ queue = {t \in remaining \ Placed : inDegree[t] = 0}
  /\ Len(batches) > 0 => \A t \in queue : Unfinished(t) \cap batches[Len(batches)] # {}

\* A task of a batch waits for earlier batches only, and for the one just before it.
BatchesOK ==
  /\ Placed \subseteq remaining
  /\ \A i, j \in 1 .. Len(batches) : i # j => batches[i] \cap batches[j] = {}
  /\ \A i \in 1 .. Len(batches) : \A t \in batches[i] :
       /\ \A d \in Unfinished(t) : \E j \in 1 .. i - 1 : d \in batches[j]
       /\ i > 1 => Unfinished(t) \cap batches[i - 1] # {}

\* What holds at each stage of the two algorithms.
OrderInv ==
  /\ OrderTypeOK
  /\ stage = "checking" => CheckingOK
  /\ stage = "cyclic" => Cyclic
  /\ stage \in {"ordering", "done"} => ~Cyclic /\ BatchesOK
  /\ stage = "ordering" => OrderingOK
  /\ stage = "done" => Placed = remaining

-----------------------------------------------------------------------------
\* A list names the tasks of two sets apart; it names none just when no edge leads there.
LEMMA DegreeIs ==
  ASSUME edges \in [Nodes -> [Nodes -> 0 .. Multiplicity]],
         NEW t \in Nodes, NEW S \in SUBSET Nodes
  PROVE  /\ Degree(t, S) \in Nat
         /\ Degree(t, S) = 0 <=> \A d \in S : ~(edges[t][d] > 0)
         /\ \A T \in SUBSET S : Degree(t, S \ T) = Degree(t, S) - Degree(t, T)
<1>1. ASSUME NEW T \in SUBSET Nodes
      PROVE  IsFiniteSet(Named(t, T))
  <2>1. IsFiniteSet(T) /\ IsFiniteSet(1 .. Multiplicity)
    BY OrderAssumption, FS_Subset, FS_Interval
  <2>2. IsFiniteSet(T \X (1 .. Multiplicity))
    BY <2>1, FS_Product
  <2> QED
    BY <2>2, FS_Subset DEF Named
<1>2. ASSUME NEW T \in SUBSET Nodes
      PROVE  Degree(t, T) \in Nat
  BY <1>1, FS_CardinalityType DEF Degree
<1>3. Named(t, S) = {} <=> \A d \in S : ~(edges[t][d] > 0)
  <2>1. ASSUME NEW d \in S, edges[t][d] > 0
        PROVE  <<d, 1>> \in Named(t, S)
    BY <2>1, OrderAssumption DEF Named
  <2>2. ASSUME NEW x \in Named(t, S)
        PROVE  x[1] \in S /\ edges[t][x[1]] > 0
    <3>1. x[1] \in S /\ x[2] \in 1 .. Multiplicity /\ x[2] <= edges[t][x[1]]
      BY DEF Named
    <3>2. edges[t][x[1]] \in 0 .. Multiplicity
      BY <3>1
    <3> QED
      BY <3>1, <3>2, OrderAssumption
  <2> QED
    BY <2>1, <2>2
<1>4. Degree(t, S) = 0 <=> Named(t, S) = {}
  BY <1>1, FS_EmptySet DEF Degree
<1>5. ASSUME NEW T \in SUBSET S
      PROVE  Degree(t, S \ T) = Degree(t, S) - Degree(t, T)
  <2>1. Named(t, S) = Named(t, S \ T) \cup Named(t, T)
    BY DEF Named
  <2>2. Named(t, S \ T) \cap Named(t, T) = {}
    BY DEF Named
  <2>3. IsFiniteSet(Named(t, S \ T)) /\ IsFiniteSet(Named(t, T))
    BY <1>1
  <2>4. Cardinality(Named(t, S \ T) \cup Named(t, T))
          = Cardinality(Named(t, S \ T)) + Cardinality(Named(t, T)) - Cardinality({})
    BY <2>2, <2>3, FS_Union
  <2>5. Degree(t, S) = Degree(t, S \ T) + Degree(t, T) - 0
    BY <2>1, <2>4, FS_EmptySet DEF Degree
  <2> QED
    BY <1>2, <2>5
<1> QED
  BY <1>2, <1>3, <1>4, <1>5

\* A set that no edge is missing from is a cycle, unless it is empty.
LEMMA ClosingIsCyclic ==
  Cyclic <=> \E S \in SUBSET Nodes : S # {} /\ Closing(S)
BY DEF Cyclic, Closing

\* Before the first visit.
LEMMA InitOrderInv == OrderInit => OrderInv
<1> SUFFICES ASSUME OrderInit PROVE OrderInv
  OBVIOUS
<1>1. /\ edges \in [Nodes -> [Nodes -> 0 .. Multiplicity]] /\ remaining \subseteq Nodes
      /\ stage = "checking" /\ visited = {} /\ batches = <<>>
      /\ inDegree = [t \in Nodes |-> Degree(t, Nodes)]
      /\ queue = {t \in Nodes : inDegree[t] = 0}
  BY DEF OrderInit
<1>2. \A t \in Nodes : Degree(t, Nodes) \in Nat
  BY <1>1, DegreeIs
<1>3. OrderTypeOK
  BY <1>1, <1>2 DEF OrderTypeOK
<1>4. CheckingOK
  <2>1. Nodes \ visited = Nodes
    BY <1>1
  <2> QED
    BY <1>1, <2>1 DEF CheckingOK
<1> QED
  BY <1>1, <1>3, <1>4 DEF OrderInv

\* Every task of a cycle waits for another one of it, so none is ever visited.
LEMMA VisitInv ==
  ASSUME OrderInv, Visit
  PROVE  OrderInv'
<1>1. PICK node \in queue :
        /\ queue' = (queue \ {node}) \cup Freed({node}, Nodes)
        /\ inDegree' = Lowered({node})
        /\ visited' = visited \cup {node}
  BY DEF Visit
<1>2. /\ OrderTypeOK /\ CheckingOK /\ stage = "checking"
      /\ UNCHANGED <<edges, remaining, stage, batches>>
  BY DEF OrderInv, Visit
<1>3. /\ edges \in [Nodes -> [Nodes -> 0 .. Multiplicity]]
      /\ node \in Nodes \ visited /\ inDegree[node] = 0
      /\ queue \subseteq Nodes /\ visited \subseteq Nodes
  BY <1>2 DEF OrderTypeOK, CheckingOK
<1>4. ASSUME NEW t \in Nodes
      PROVE  /\ inDegree[t] \in Nat /\ Degree(t, {node}) \in Nat
             /\ inDegree'[t] = inDegree[t] - Degree(t, {node})
             /\ inDegree'[t] = Degree(t, Nodes \ visited') /\ inDegree'[t] \in Nat
             /\ Degree(t, Nodes \ visited)' = Degree(t, Nodes \ visited')
  <2>1. {node} \in SUBSET (Nodes \ visited)
    BY <1>3
  <2>2. (Nodes \ visited) \ {node} = Nodes \ visited'
    BY <1>1
  <2>3. inDegree[t] = Degree(t, Nodes \ visited)
    BY <1>2 DEF CheckingOK
  <2>4. inDegree'[t] = inDegree[t] - Degree(t, {node})
    BY <1>1 DEF Lowered
  <2>5. /\ Degree(t, Nodes \ visited) \in Nat /\ Degree(t, {node}) \in Nat
        /\ Degree(t, Nodes \ visited') \in Nat
    BY <1>3, DegreeIs
  <2>6. Degree(t, (Nodes \ visited) \ {node}) = Degree(t, Nodes \ visited) - Degree(t, {node})
    BY <1>3, <2>1, DegreeIs
  <2>7. Degree(t, Nodes \ visited)' = Degree(t, Nodes \ visited')
    BY <1>2 DEF Degree, Named
  <2> QED
    BY <2>2, <2>3, <2>4, <2>5, <2>6, <2>7
<1>5. \A t \in visited' : inDegree[t] = 0
  BY <1>1, <1>2, <1>3 DEF CheckingOK
<1>6. visited' \subseteq Nodes
  BY <1>1, <1>3
<1>7. \A t \in visited' : inDegree'[t] = 0 /\ Degree(t, {node}) = 0
  BY <1>4, <1>5, <1>6
<1>8. queue' = {t \in Nodes \ visited' : inDegree'[t] = 0}
  <2>1. Freed({node}, Nodes) = {t \in Nodes : Degree(t, {node}) > 0 /\ inDegree'[t] = 0}
    BY <1>1 DEF Freed
  <2>2. queue = {t \in Nodes \ visited : inDegree[t] = 0}
    BY <1>2 DEF CheckingOK
  <2>3. ASSUME NEW t \in Nodes
        PROVE  t \in queue' <=> t \in Nodes \ visited' /\ inDegree'[t] = 0
    <3>1. CASE t \in visited'
      <4>1. t \notin queue \ {node}
        BY <1>1, <2>2, <3>1
      <4>2. t \notin Freed({node}, Nodes)
        BY <1>7, <2>1, <3>1
      <4> QED
        BY <1>1, <3>1, <4>1, <4>2
    <3>2. CASE t \notin visited'
      <4>1. t \in queue \ {node} <=> inDegree[t] = 0
        BY <1>1, <2>2, <3>2
      <4>2. t \in Freed({node}, Nodes) <=> Degree(t, {node}) > 0 /\ inDegree'[t] = 0
        BY <2>1
      <4>3. inDegree[t] = 0 \/ (Degree(t, {node}) > 0 /\ inDegree'[t] = 0) <=> inDegree'[t] = 0
        <5>1. /\ inDegree[t] \in Nat /\ Degree(t, {node}) \in Nat /\ inDegree'[t] \in Nat
              /\ inDegree'[t] = inDegree[t] - Degree(t, {node})
          BY <1>4
        <5> QED
          BY <5>1
      <4> QED
        BY <1>1, <3>2, <4>1, <4>2, <4>3
    <3> QED
      BY <3>1, <3>2
  <2>4. queue' \subseteq Nodes
    BY <1>1, <1>3, <2>1
  <2> QED
    BY <2>3, <2>4
<1>9. ASSUME NEW S \in SUBSET Nodes, Closing(S)'
      PROVE  S \cap visited' = {}
  <2>1. Closing(S) /\ S \cap visited = {}
    BY <1>2, <1>9 DEF CheckingOK, Closing
  <2>2. node \notin S
    <3>1. Degree(node, Nodes \ visited) = 0
      BY <1>2, <1>3 DEF CheckingOK
    <3>2. \A d \in Nodes \ visited : ~(edges[node][d] > 0)
      BY <1>3, <3>1, DegreeIs
    <3> QED
      BY <2>1, <3>2 DEF Closing
  <2> QED
    BY <1>1, <2>1, <2>2
<1>10. OrderTypeOK'
  <2>1. inDegree' \in [Nodes -> Int]
    <3>1. inDegree' = [t \in Nodes |-> inDegree[t] - Degree(t, {node})]
      BY <1>1 DEF Lowered
    <3>2. \A t \in Nodes : inDegree[t] - Degree(t, {node}) \in Int
      BY <1>4
    <3> QED
      BY <3>1, <3>2
  <2> QED
    BY <1>2, <1>6, <1>8, <2>1 DEF OrderTypeOK
<1>11. CheckingOK'
  BY <1>2, <1>4, <1>7, <1>8, <1>9 DEF CheckingOK
<1> QED
  BY <1>2, <1>10, <1>11 DEF OrderInv

\* What is left when nothing is ready is a cycle; nothing left means there is none.
LEMMA VerdictInv ==
  ASSUME OrderInv, Verdict
  PROVE  OrderInv'
<1>1. /\ OrderTypeOK /\ CheckingOK /\ stage = "checking" /\ queue = {}
      /\ UNCHANGED <<edges, remaining, visited, batches>>
  BY DEF OrderInv, Verdict
<1>2. edges \in [Nodes -> [Nodes -> 0 .. Multiplicity]] /\ visited \subseteq Nodes /\ remaining \subseteq Nodes
  BY <1>1 DEF OrderTypeOK
<1>3. CASE visited # Nodes
  <2>1. stage' = "cyclic" /\ UNCHANGED <<inDegree, queue>>
    BY <1>3 DEF Verdict
  <2>2. Closing(Nodes \ visited)
    <3>1. ASSUME NEW t \in Nodes \ visited
          PROVE  \E d \in Nodes \ visited : edges[t][d] > 0
      <4>1. Degree(t, Nodes \ visited) # 0
        BY <1>1 DEF CheckingOK
      <4> QED
        BY <1>2, <4>1, DegreeIs
    <3> QED
      BY <3>1 DEF Closing
  <2>3. Cyclic
    BY <1>2, <1>3, <2>2, ClosingIsCyclic
  <2>4. Cyclic'
    BY <1>1, <2>3 DEF Cyclic
  <2>5. OrderTypeOK'
    BY <1>1, <2>1 DEF OrderTypeOK
  <2> QED
    BY <2>1, <2>4, <2>5 DEF OrderInv
<1>4. CASE visited = Nodes
  <2>1. /\ stage' = "ordering"
        /\ inDegree' = [t \in Nodes |-> IF t \in remaining THEN Degree(t, remaining) ELSE 0]
        /\ queue' = {t \in remaining : inDegree'[t] = 0}
    BY <1>4 DEF Verdict
  <2>2. ~Cyclic'
    <3>1. ~Cyclic
      BY <1>1, <1>4, ClosingIsCyclic DEF CheckingOK
    <3> QED
      BY <1>1, <3>1 DEF Cyclic
  <2>3. batches' = <<>> /\ Len(batches') = 0 /\ Placed' = {}
    BY <1>1 DEF CheckingOK, Placed
  <2>4. \A t \in Nodes : Degree(t, remaining) \in Nat
    BY <1>2, DegreeIs
  <2>5. OrderTypeOK'
    BY <1>1, <1>2, <2>1, <2>4 DEF OrderTypeOK
  <2>6. BatchesOK'
    BY <2>3 DEF BatchesOK
  <2>7. OrderingOK'
    <3>1. ASSUME NEW t \in remaining
          PROVE  inDegree'[t] = Degree(t, remaining \ Placed)'
      <4>1. Degree(t, remaining \ Placed)' = Degree(t, remaining)
        BY <1>1, <2>3 DEF Degree, Named
      <4> QED
        BY <1>2, <2>1, <4>1
    <3>2. queue' = {t \in (remaining \ Placed)' : inDegree'[t] = 0}
      BY <1>1, <2>1, <2>3
    <3> QED
      BY <1>1, <2>3, <3>1, <3>2 DEF OrderingOK
  <2> QED
    BY <2>1, <2>2, <2>5, <2>6, <2>7 DEF OrderInv
<1> QED
  BY <1>3, <1>4

\* A batch holds what waits for nothing that is left; what it frees waited for one of it.
LEMMA BatchInv ==
  ASSUME OrderInv, Batch
  PROVE  OrderInv'
<1> DEFINE n == Len(batches)
<1>1. /\ OrderTypeOK /\ BatchesOK /\ OrderingOK /\ ~Cyclic /\ stage = "ordering" /\ queue # {}
      /\ batches' = Append(batches, queue)
      /\ inDegree' = [t \in Nodes |-> IF t \in remaining THEN Lowered(queue)[t] ELSE 0]
      /\ queue' = Freed(queue, remaining)
      /\ UNCHANGED <<edges, remaining, stage, visited>>
  BY DEF OrderInv, Batch
<1>2. /\ edges \in [Nodes -> [Nodes -> 0 .. Multiplicity]]
      /\ remaining \subseteq Nodes /\ queue \subseteq remaining \ Placed /\ Placed \subseteq remaining
      /\ inDegree \in [Nodes -> Int]
  BY <1>1 DEF OrderTypeOK, OrderingOK, BatchesOK
<1>3. /\ n \in Nat /\ Len(batches') = n + 1 /\ batches' \in Seq(SUBSET Nodes)
      /\ \A i \in 1 .. n : batches'[i] = batches[i]
      /\ batches'[n + 1] = queue
  BY <1>1, <1>2 DEF OrderTypeOK
<1>4. Placed' = Placed \cup queue
  <2>1. ASSUME NEW x
        PROVE  x \in Placed' <=> x \in Placed \/ x \in queue
    BY <1>3 DEF Placed
  <2> QED
    BY <2>1
<1>5. ASSUME NEW t \in remaining
      PROVE  /\ inDegree[t] = Degree(t, remaining \ Placed)
             /\ inDegree[t] \in Nat /\ Degree(t, queue) \in Nat
             /\ inDegree'[t] = inDegree[t] - Degree(t, queue)
             /\ inDegree'[t] = Degree(t, remaining \ Placed)' /\ inDegree'[t] \in Nat
  <2>1. t \in Nodes
    BY <1>2
  <2>2. inDegree'[t] = inDegree[t] - Degree(t, queue)
    BY <1>1, <2>1 DEF Lowered
  <2>3. (remaining \ Placed) \ queue = (remaining \ Placed)'
    BY <1>1, <1>4
  <2>4. Degree(t, remaining \ Placed)' = Degree(t, (remaining \ Placed)')
    BY <1>1 DEF Degree, Named
  <2>5. Degree(t, (remaining \ Placed) \ queue) = Degree(t, remaining \ Placed) - Degree(t, queue)
    BY <1>2, <2>1, DegreeIs
  <2>6. /\ Degree(t, remaining \ Placed) \in Nat /\ Degree(t, queue) \in Nat
        /\ Degree(t, (remaining \ Placed) \ queue) \in Nat
    BY <1>2, <2>1, DegreeIs
  <2>7. inDegree[t] = Degree(t, remaining \ Placed)
    BY <1>1 DEF OrderingOK
  <2> QED
    BY <2>2, <2>3, <2>4, <2>5, <2>6, <2>7
<1>6. ASSUME NEW i \in 1 .. n, NEW t \in batches[i], NEW d \in Unfinished(t)
      PROVE  d \in Placed
  <2>1. PICK j \in 1 .. i - 1 : d \in batches[j]
    BY <1>1, <1>6 DEF BatchesOK
  <2>2. j \in 1 .. n
    BY <1>3
  <2> QED
    BY <2>1, <2>2 DEF Placed
<1>7. ASSUME NEW t \in queue
      PROVE  Unfinished(t) \subseteq Placed
  <2>1. Degree(t, remaining \ Placed) = 0
    BY <1>1, <1>2, <1>5 DEF OrderingOK
  <2>2. \A d \in remaining \ Placed : ~(edges[t][d] > 0)
    BY <1>2, <2>1, DegreeIs
  <2> QED
    BY <2>2 DEF Unfinished
<1>8. ASSUME NEW t \in Placed'
      PROVE  t \in remaining /\ Degree(t, queue) = 0
  <2>1. Unfinished(t) \subseteq Placed
    BY <1>4, <1>6, <1>7 DEF Placed
  <2>2. t \in remaining
    BY <1>2, <1>4
  <2>3. \A d \in queue : ~(edges[t][d] > 0)
    BY <1>2, <2>1 DEF Unfinished
  <2> QED
    BY <1>2, <2>2, <2>3, DegreeIs
<1>9. queue' = {t \in (remaining \ Placed)' : inDegree'[t] = 0}
  <2>1. ASSUME NEW t \in remaining
        PROVE  t \in queue' <=> Degree(t, queue) > 0 /\ inDegree'[t] = 0
    BY <1>1, <1>2 DEF Freed, Lowered
  <2>2. queue' \subseteq remaining
    BY <1>1 DEF Freed
  <2>3. ASSUME NEW t \in remaining, t \notin Placed', inDegree'[t] = 0
        PROVE  Degree(t, queue) > 0
    <3>1. inDegree[t] # 0
      BY <1>1, <1>4, <2>3 DEF OrderingOK
    <3> QED
      BY <1>5, <2>3, <3>1
  <2> QED
    BY <1>1, <1>8, <2>1, <2>2, <2>3
<1>10. \A t \in Nodes : Unfinished(t)' = Unfinished(t)
  BY <1>1 DEF Unfinished
<1>11. OrderingOK'
  <2>1. ASSUME NEW t \in queue'
        PROVE  Unfinished(t)' \cap batches'[n + 1] # {}
    <3>1. t \in Nodes /\ Degree(t, queue) > 0
      BY <1>1, <1>2 DEF Freed
    <3>2. \E d \in queue : edges[t][d] > 0
      BY <1>2, <3>1, DegreeIs
    <3> QED
      BY <1>2, <1>3, <1>10, <3>1, <3>2 DEF Unfinished
  <2>2. \A t \in remaining' : inDegree'[t] = Degree(t, remaining \ Placed)'
    BY <1>1, <1>5
  <2> QED
    BY <1>3, <1>9, <2>1, <2>2 DEF OrderingOK
<1>12. BatchesOK'
  <2>1. (Placed \subseteq remaining)'
    BY <1>1, <1>2, <1>4
  <2>2. ASSUME NEW i \in 1 .. n + 1, NEW j \in 1 .. n + 1, i # j
        PROVE  batches'[i] \cap batches'[j] = {}
    <3>1. ASSUME NEW k \in 1 .. n
          PROVE  batches[k] \cap queue = {}
      BY <1>2 DEF Placed
    <3>2. CASE i \in 1 .. n /\ j \in 1 .. n
      BY <1>1, <1>3, <2>2, <3>2 DEF BatchesOK
    <3>3. CASE i = n + 1
      BY <1>3, <2>2, <3>1, <3>3
    <3>4. CASE j = n + 1
      BY <1>3, <2>2, <3>1, <3>4
    <3> QED
      BY <1>3, <3>2, <3>3, <3>4
  <2>3. ASSUME NEW i \in 1 .. n + 1, NEW t \in batches'[i]
        PROVE  /\ \A d \in Unfinished(t)' : \E j \in 1 .. i - 1 : d \in batches'[j]
               /\ i > 1 => Unfinished(t)' \cap batches'[i - 1] # {}
    <3>1. CASE i \in 1 .. n
      <4>1. t \in batches[i] /\ t \in Nodes
        BY <1>2, <1>3, <3>1 DEF Placed
      <4>2. /\ \A d \in Unfinished(t) : \E j \in 1 .. i - 1 : d \in batches[j]
            /\ i > 1 => Unfinished(t) \cap batches[i - 1] # {}
        BY <1>1, <3>1, <4>1 DEF BatchesOK
      <4>3. \A j \in 1 .. i - 1 : batches'[j] = batches[j]
        BY <1>3, <3>1
      <4>4. i > 1 => i - 1 \in 1 .. i - 1
        BY <3>1
      <4> QED
        BY <1>10, <4>1, <4>2, <4>3, <4>4
    <3>2. CASE i = n + 1
      <4>1. t \in queue /\ t \in Nodes
        BY <1>2, <1>3, <3>2
      <4>2. \A d \in Unfinished(t) : \E j \in 1 .. n : d \in batches[j]
        BY <1>7, <4>1 DEF Placed
      <4>3. n > 0 => Unfinished(t) \cap batches[n] # {} /\ n \in 1 .. n
        BY <1>1, <1>3, <4>1 DEF OrderingOK
      <4>4. i - 1 = n /\ (i > 1 => n > 0)
        BY <1>3, <3>2
      <4> QED
        BY <1>3, <1>10, <4>1, <4>2, <4>3, <4>4
    <3> QED
      BY <1>3, <3>1, <3>2
  <2> QED
    BY <1>3, <2>1, <2>2, <2>3 DEF BatchesOK
<1>13. OrderTypeOK'
  <2>1. inDegree' \in [Nodes -> Int]
    <3>1. \A t \in Nodes : (IF t \in remaining THEN Lowered(queue)[t] ELSE 0) \in Int
      <4>1. ASSUME NEW t \in remaining
            PROVE  Lowered(queue)[t] \in Int
        BY <1>2, <1>5 DEF Lowered
      <4> QED
        BY <4>1
    <3> QED
      BY <1>1, <3>1
  <2>2. queue' \subseteq Nodes
    BY <1>1, <1>2 DEF Freed
  <2> QED
    BY <1>1, <1>3, <2>1, <2>2 DEF OrderTypeOK
<1>14. ~Cyclic'
  BY <1>1 DEF Cyclic
<1> QED
  BY <1>1, <1>11, <1>12, <1>13, <1>14 DEF OrderInv

\* Without a cycle nothing is left when nothing is ready.
LEMMA FinishInv ==
  ASSUME OrderInv, Finish
  PROVE  OrderInv'
<1>1. /\ OrderTypeOK /\ BatchesOK /\ OrderingOK /\ ~Cyclic /\ queue = {}
      /\ stage' = "done" /\ UNCHANGED <<edges, remaining, inDegree, queue, visited, batches>>
  BY DEF OrderInv, Finish
<1>2. edges \in [Nodes -> [Nodes -> 0 .. Multiplicity]] /\ remaining \subseteq Nodes
  BY <1>1 DEF OrderTypeOK
<1>3. Closing(remaining \ Placed)
  <2>1. ASSUME NEW t \in remaining \ Placed
        PROVE  \E d \in remaining \ Placed : edges[t][d] > 0
    <3>1. Degree(t, remaining \ Placed) # 0
      BY <1>1 DEF OrderingOK
    <3> QED
      BY <1>2, <3>1, DegreeIs
  <2> QED
    BY <2>1 DEF Closing
<1>4. Placed = remaining
  BY <1>1, <1>2, <1>3, ClosingIsCyclic DEF BatchesOK
<1>5. Placed' = remaining' /\ BatchesOK' /\ ~Cyclic'
  BY <1>1, <1>4 DEF Placed, BatchesOK, Unfinished, Cyclic
<1>6. OrderTypeOK'
  BY <1>1 DEF OrderTypeOK
<1> QED
  BY <1>1, <1>5, <1>6 DEF OrderInv

(* The in-degrees are those without what was visited, or placed; no cycle  *)
(* is ever visited; and each batch waits for the one before it.            *)
THEOREM OrderInvariance == OrderSpec => []OrderInv
<1>1. OrderInv /\ [OrderNext]_orderVars => OrderInv'
  <2> SUFFICES ASSUME OrderInv, [OrderNext]_orderVars
               PROVE  OrderInv'
    OBVIOUS
  <2>1. CASE UNCHANGED orderVars
    <3>1. UNCHANGED <<edges, remaining, stage, inDegree, queue, visited, batches>>
      BY <2>1 DEF orderVars
    <3>2. /\ \A S : Closing(S)' <=> Closing(S)
          /\ \A t, S : Degree(t, S)' = Degree(t, S)
          /\ \A t : Unfinished(t)' = Unfinished(t)
          /\ Placed' = Placed /\ (Cyclic' <=> Cyclic)
      BY <3>1 DEF Closing, Degree, Named, Unfinished, Placed, Cyclic
    <3>3. OrderTypeOK' <=> OrderTypeOK
      BY <3>1 DEF OrderTypeOK
    <3>4. CheckingOK => CheckingOK'
      BY <3>1, <3>2 DEF CheckingOK
    <3>5. OrderingOK => OrderingOK'
      BY <3>1, <3>2 DEF OrderingOK
    <3>6. BatchesOK => BatchesOK'
      BY <3>1, <3>2 DEF BatchesOK
    <3> QED
      BY <3>1, <3>2, <3>3, <3>4, <3>5, <3>6 DEF OrderInv
  <2> QED
    BY <2>1, VisitInv, VerdictInv, BatchInv, FinishInv DEF OrderNext
<1> QED
  BY <1>1, InitOrderInv, PTL DEF OrderSpec

(***************************************************************************)
(* _check_cycles raises for the graphs with a cycle and for no others, and *)
(* get_execution_order places every unfinished task once, right after the  *)
(* last of the unfinished tasks it names.                                  *)
(***************************************************************************)
THEOREM RaisesOrOrders == OrderSpec => []OrdersOrRaises
<1>1. ASSUME OrderInv
      PROVE  OrdersOrRaises
  <2>1. ASSUME stage = "done", NEW t \in remaining
        PROVE  LET unfinished == {d \in remaining : edges[t][d] > 0} IN
               IF unfinished = {} THEN BatchOf(t) = 1
                 ELSE BatchOf(t) = 1 + Max({BatchOf(d) : d \in unfinished})
    <3>1. BatchesOK /\ Placed = remaining /\ Len(batches) \in Nat
      BY <1>1, <2>1 DEF OrderInv, OrderTypeOK
    <3>2. ASSUME NEW x, NEW i \in 1 .. Len(batches), x \in batches[i]
          PROVE  BatchOf(x) = i
      <4>1. BatchOf(x) \in 1 .. Len(batches) /\ x \in batches[BatchOf(x)]
        BY <3>2 DEF BatchOf
      <4>2. BatchOf(x) # i => batches[BatchOf(x)] \cap batches[i] = {}
        BY <3>1, <4>1 DEF BatchesOK
      <4> QED
        BY <3>2, <4>1, <4>2
    <3>3. PICK i \in 1 .. Len(batches) : t \in batches[i]
      BY <3>1 DEF Placed
    <3>4. BatchOf(t) = i
      BY <3>2, <3>3
    <3>5. /\ \A d \in Unfinished(t) : \E j \in 1 .. i - 1 : d \in batches[j]
          /\ i > 1 => Unfinished(t) \cap batches[i - 1] # {}
      BY <3>1, <3>3 DEF BatchesOK
    <3>6. CASE Unfinished(t) = {}
      BY <3>3, <3>4, <3>5, <3>6 DEF Unfinished
    <3>7. CASE Unfinished(t) # {}
      <4> DEFINE places == {BatchOf(d) : d \in Unfinished(t)}
      <4>1. ASSUME NEW d \in Unfinished(t)
            PROVE  BatchOf(d) \in 1 .. i - 1
        <5>1. PICK j \in 1 .. i - 1 : d \in batches[j]
          BY <3>5
        <5>2. j \in 1 .. Len(batches)
          BY <3>1, <3>3
        <5> QED
          BY <3>2, <5>1, <5>2
      <4>2. i > 1
        BY <3>3, <3>7, <4>1
      <4>3. i - 1 \in places
        <5>1. PICK d \in Unfinished(t) : d \in batches[i - 1]
          BY <3>5, <4>2
        <5>2. i - 1 \in 1 .. Len(batches)
          BY <3>1, <3>3, <4>2
        <5>3. BatchOf(d) = i - 1
          BY <3>2, <5>1, <5>2
        <5> QED
          BY <5>1, <5>3
      <4>4. \A x \in places : x \in Int /\ x <= i - 1
        BY <3>3, <4>1
      <4> HIDE DEF places
      <4>5. Max(places) = i - 1
        <5>1. \E x \in places : \A y \in places : x >= y
          BY <4>3, <4>4
        <5>2. Max(places) \in places /\ \A y \in places : Max(places) >= y
          BY <5>1 DEF Max
        <5> QED
          BY <3>3, <4>3, <4>4, <5>2
      <4> QED
        BY <3>3, <3>4, <3>7, <4>5 DEF places, Unfinished
    <3> QED
      BY <3>6, <3>7
  <2>2. stage = "done" =>
          /\ UNION {batches[i] : i \in 1 .. Len(batches)} = remaining
          /\ \A i, j \in 1 .. Len(batches) : i # j => batches[i] \cap batches[j] = {}
    BY <1>1 DEF OrderInv, BatchesOK, Placed
  <2> QED
    BY <1>1, <2>1, <2>2 DEF OrderInv, OrdersOrRaises
<1> QED
  BY <1>1, OrderInvariance, PTL
=============================================================================
