---------------------------- MODULE ExecutionOrder ---------------------------
(***************************************************************************)
(* The two graph algorithms of Workflow (workflow.py): _check_cycles,      *)
(* Kahn's algorithm, and get_execution_order, the batches of tasks that    *)
(* may run together.                                                       *)
(*                                                                         *)
(* depends_on is a list and may name a task more than once: edges[t][d] is *)
(* how often t names d.  Which node popleft returns is left open: the      *)
(* order of the dict must not matter.                                      *)
(***************************************************************************)
EXTENDS Integers, Sequences, FiniteSets, FiniteSetsExt

CONSTANTS
  Nodes,
  Multiplicity  \* bound: how often a list names one task at most

ASSUME OrderAssumption ==
  /\ IsFiniteSet(Nodes)
  /\ Multiplicity \in Nat \ {0}

VARIABLES
  edges,
  remaining,  \* the tasks that are PENDING or RUNNING
  stage,      \* checking, ordering, cyclic (the error is raised) or done
  inDegree,
  queue,      \* nodes of in-degree zero not visited yet; the current batch
  visited,
  batches

orderVars == <<edges, remaining, stage, inDegree, queue, visited, batches>>

\* Where t's list names tasks of S: the task, and how many of its names it is.
Named(t, S) == {x \in S \X (1 .. Multiplicity) : x[2] <= edges[t][x[1]]}

\* How often t names tasks of S.
Degree(t, S) == Cardinality(Named(t, S))

\* Mutant: a task that names another twice is counted once.
LoweredOnce(nodes) ==
  [t \in Nodes |-> inDegree[t] - Cardinality({d \in nodes : edges[t][d] > 0})]

\* The in-degrees when the edges out of nodes are gone.
Lowered(nodes) == [t \in Nodes |-> inDegree[t] - Degree(t, nodes)]

\* Nodes whose in-degree reaches zero with that.
Freed(nodes, among) ==
  {t \in among : Degree(t, nodes) > 0 /\ Lowered(nodes)[t] = 0}

-----------------------------------------------------------------------------
OrderInit ==
  /\ edges \in [Nodes -> [Nodes -> 0 .. Multiplicity]]
  /\ remaining \in SUBSET Nodes
  /\ stage = "checking"
  /\ inDegree = [t \in Nodes |-> Degree(t, Nodes)]
  /\ queue = {t \in Nodes : inDegree[t] = 0}
  /\ visited = {}
  /\ batches = <<>>

\* One round of the loop of _check_cycles.
Visit ==
  /\ stage = "checking"
  /\ \E node \in queue :
       /\ queue' = (queue \ {node}) \cup Freed({node}, Nodes)
       /\ inDegree' = Lowered({node})
       /\ visited' = visited \cup {node}
  /\ UNCHANGED <<edges, remaining, stage, batches>>

\* The verdict; without a cycle get_execution_order starts on what remains.
Verdict ==
  /\ stage = "checking"
  /\ queue = {}
  /\ \/ /\ visited # Nodes
        /\ stage' = "cyclic"
        /\ UNCHANGED <<inDegree, queue>>
     \/ /\ visited = Nodes
        /\ stage' = "ordering"
        /\ inDegree' = [t \in Nodes |-> IF t \in remaining THEN Degree(t, remaining) ELSE 0]
        /\ queue' = {t \in remaining : inDegree'[t] = 0}
  /\ UNCHANGED <<edges, remaining, visited, batches>>

\* One batch.
Batch ==
  /\ stage = "ordering"
  /\ queue # {}
  /\ batches' = Append(batches, queue)
  /\ inDegree' = [t \in Nodes |-> IF t \in remaining THEN Lowered(queue)[t] ELSE 0]
  /\ queue' = Freed(queue, remaining)
  /\ UNCHANGED <<edges, remaining, stage, visited>>

Finish ==
  /\ stage = "ordering"
  /\ queue = {}
  /\ stage' = "done"
  /\ UNCHANGED <<edges, remaining, inDegree, queue, visited, batches>>

OrderNext == Visit \/ Verdict \/ Batch \/ Finish

OrderSpec == OrderInit /\ [][OrderNext]_orderVars

-----------------------------------------------------------------------------
\* Reference: a cycle is a set of tasks each of which depends on one of them.
Cyclic ==
  \E S \in (SUBSET Nodes) \ {{}} : \A t \in S : \E d \in S : edges[t][d] > 0

\* The batch a task is in.
BatchOf(t) == CHOOSE i \in 1 .. Len(batches) : t \in batches[i]

(* CyclicDependencyError is raised for exactly the graphs with a cycle,    *)
(* lists that name a task twice included, in whatever order the queue is   *)
(* served; without one the batches hold every unfinished task once, each   *)
(* as early as its unfinished dependencies allow: one batch after the last *)
(* of them.                                                                *)
OrdersOrRaises ==
  /\ stage = "cyclic" => Cyclic
  /\ stage \in {"ordering", "done"} => ~Cyclic
  /\ stage = "done" =>
       /\ UNION {batches[i] : i \in 1 .. Len(batches)} = remaining
       /\ \A i, j \in 1 .. Len(batches) : i # j => batches[i] \cap batches[j] = {}
       /\ \A t \in remaining :
            LET unfinished == {d \in remaining : edges[t][d] > 0} IN
            IF unfinished = {} THEN BatchOf(t) = 1
              ELSE BatchOf(t) = 1 + Max({BatchOf(d) : d \in unfinished})
=============================================================================
