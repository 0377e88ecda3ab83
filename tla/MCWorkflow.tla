----------------------------- MODULE MCWorkflow ------------------------------
(***************************************************************************)
(* Instances of the coordinators: the workflow engine on the diamond of    *)
(* the module's usage example, fetch, then parse and validate, then store, *)
(* where parse is tried twice; the graph algorithms of workflows; and the  *)
(* cluster client.  They share no state, so in a behaviour one of them,    *)
(* `part', moves and the others keep their initial states.                 *)
(***************************************************************************)
EXTENDS Workflow, ExecutionOrder, HubCluster

CONSTANT Parts  \* the components a run is about

VARIABLE part

Diamond ==
  [t \in Tasks |->
     CASE t = "fetch" -> {}
       [] t = "parse" -> {"fetch"}
       [] t = "validate" -> {"fetch"}
       [] t = "store" -> {"parse", "validate"}]

RetryParse == [t \in Tasks |-> IF t = "parse" THEN 1 ELSE 0]

-----------------------------------------------------------------------------
\* A component that does not move starts in one of its initial states.
MCInit ==
  /\ part \in Parts
  /\ WorkflowInit /\ OrderInit /\ ClusterInit
  /\ part = "order" \/ (remaining = {} /\ \A t \in Nodes : inDegree[t] = 0)

MCNext ==
  /\ UNCHANGED part
  /\ \/ part = "workflow" /\ WorkflowNext /\ UNCHANGED <<orderVars, clusterVars>>
     \/ part = "order" /\ OrderNext /\ UNCHANGED <<workflowVars, clusterVars>>
     \/ part = "cluster" /\ ClusterNext /\ UNCHANGED <<workflowVars, orderVars>>

MCSpec == MCInit /\ [][MCNext]_<<part, workflowVars, orderVars, clusterVars>>

\* Fairness is owed by the component that moves.
MCFairSpec ==
  /\ MCSpec
  /\ part = "workflow" => WorkflowFairness
  /\ part = "cluster" => ClusterFairness
=============================================================================
