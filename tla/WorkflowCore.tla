---------------------------- MODULE WorkflowCore ----------------------------
(***************************************************************************)
(* The workflow half of WorkspaceRuntime: the vote that opens a workflow   *)
(* and the walk over the workflow graph, one node per completed dispatch.  *)
(* As in RuntimeCore, WorkspaceWorkflowRuntimeState is a record and each   *)
(* method an operator on it.                                               *)
(*                                                                         *)
(* The stage id always goes with the node id and is left out.  Of a vote   *)
(* window and of a request message only the presence is kept.              *)
(***************************************************************************)
EXTENDS RuntimeCore

CONSTANTS
  Edges,           \* spec.workflow.edges: a sequence of [from, when, to]
  NodeRole,        \* resolve_workflow_node_role_id per node, None where nobody can take it
  Verdicts,        \* per node, the edge conditions its type can read in a completed result
  SuccessNodes,    \* completion_policy.success_node_ids
  FailureNodes,    \* completion_policy.failure_node_ids
  CompleteNodes,   \* the nodes of type Complete
  DoneByDefault    \* completion_policy.default_status is Done

WorkspaceMode == {"group_chat", "workflow_vote", "workflow_running"}

EdgeCondition ==
  {"always", "success", "failure", "timeout", "pass", "fail", "approved", "rejected",
   "improved", "equal_or_worse", "crash"}

ASSUME EdgesAssumption == Edges \in Seq([from: Nodes, when: EdgeCondition, to: Nodes])
ASSUME NodeRoleAssumption == NodeRole \in [Nodes -> Maybe(Roles)]
ASSUME VerdictsAssumption == Verdicts \in [Nodes -> SUBSET EdgeCondition]

WorkflowState ==
  [mode: WorkspaceMode, vote: BOOLEAN, request: BOOLEAN, node: Maybe(Nodes)]

NewWorkflow == [mode |-> "group_chat", vote |-> FALSE, request |-> FALSE, node |-> None]

----------------------------------------------------------------------------
(* The vote *)

OpenVote(wf) == [wf EXCEPT !.mode = "workflow_vote", !.vote = TRUE]

\* A rejected vote returns to group chat and leaves the active node and request in place.
CloseVote(wf, approved) ==
  [wf EXCEPT !.vote = FALSE, !.mode = IF approved THEN "workflow_running" ELSE "group_chat"]

\* Faulty variant: the workflow keeps the node it was at.
StartWhereItWas(wf, node) == [wf EXCEPT !.mode = "workflow_running", !.request = TRUE]

StartWorkflow(wf, node) ==
  [wf EXCEPT !.mode = "workflow_running", !.request = TRUE, !.node = node]

----------------------------------------------------------------------------
(* advance_workflow_after_dispatch, for a dispatch with the given node and status *)

Advances(wf, node) == wf.mode = "workflow_running" /\ node \in Nodes

\* A node listed for success or failure is judged by that list alone; a default status of
\* Done keeps a completed node of type Complete from ending the workflow.
IsTerminalNode(node, status) ==
  \/ node \in SuccessNodes /\ status = "completed"
  \/ node \in FailureNodes \ SuccessNodes /\ status \in {"failed", "stopped"}
  \/ node \in CompleteNodes \ (SuccessNodes \cup FailureNodes)
     /\ ~DoneByDefault /\ status = "completed"

\* resolve_workflow_edge_condition; what a completed result says is any of the verdicts
EdgeConditions(node, status) ==
  CASE status = "failed"    -> {"failure"}
    [] status = "stopped"   -> {"timeout"}
    [] status = "completed" -> Verdicts[node]
    [] OTHER                -> {"always"}

\* Faulty variant: any edge with the condition will do.
EdgesFromAnywhere(node, condition) == {i \in DOMAIN Edges : Edges[i].when = condition}

\* The edges out of a node that are for a condition, by their index
EdgesFrom(node, condition) ==
  {i \in DOMAIN Edges : Edges[i].from = node /\ Edges[i].when = condition}

\* The first edge with the exact condition, else the first unconditional one, else none.
NextNode(node, condition) ==
  LET exact == EdgesFrom(node, condition)
      edges == IF exact # {} THEN exact ELSE EdgesFrom(node, "always")
  IN  IF edges = {} THEN None ELSE Edges[CHOOSE i \in edges : \A j \in edges : i <= j].to

EndWorkflow(wf) == [wf EXCEPT !.mode = "group_chat", !.node = None, !.request = FALSE]

\* A node without a matching edge leaves the workflow running where it is.
MoveWorkflow(wf, next) == IF next = None THEN wf ELSE [wf EXCEPT !.node = next]

\* Faulty variant: the request is for the node that has just been left.
FollowupsForOldNode(wf, next) ==
  IF next # None /\ wf.request /\ wf.node # None /\ NodeRole[wf.node] # None
  THEN {[role |-> NodeRole[wf.node], node |-> wf.node]} ELSE {}

\* The followup request for the next node: at most one, and only while a request is known.
Followups(wf, next) ==
  IF next # None /\ wf.request /\ NodeRole[next] # None
  THEN {[role |-> NodeRole[next], node |-> next]} ELSE {}

\* What advancing after dispatch d can lead to: the next state and the followup requests
Advanced(wf, d) ==
  IF ~Advances(wf, d.node) THEN {[wf |-> wf, followups |-> {}]}
  ELSE IF IsTerminalNode(d.node, d.status) THEN {[wf |-> EndWorkflow(wf), followups |-> {}]}
  ELSE {LET next == NextNode(d.node, condition)
        IN  [wf |-> MoveWorkflow(wf, next), followups |-> Followups(wf, next)] :
          condition \in EdgeConditions(d.node, d.status)}
=============================================================================
