--------------------------- MODULE MCCtenoWorkspace ---------------------------
(***************************************************************************)
(* Model-checking instance of CtenoWorkspace: a lead, who also reviews,    *)
(* and a coder.  The workflow is a short coding loop: a plan that either   *)
(* of them may claim, its review, the implementation and the end.          *)
(***************************************************************************)
EXTENDS CtenoWorkspace, TLC

Lead == 1
Coder == 2

Plan == 1
Review == 2
Implement == 3
Complete == 4

Node(type, role, reviewer, candidates) ==
  [type |-> type, role |-> role, reviewer |-> reviewer, candidates |-> candidates]

MCWorkspace ==
  [roles |-> <<Lead, Coder>>, coordinator |-> Lead, default |-> Lead,
   claim |-> [max |-> 1, fallback |-> Lead, supporting |-> TRUE],
   vote |-> [minimum |-> 1, ratio |-> 1, candidates |-> <<Lead>>],
   workflow |->
     [entry |-> Plan, loop |-> TRUE,
      nodes |-> << Node("claim", None, None, {Lead, Coder}),
                   Node("review", None, Lead, {}),
                   Node("assign", Coder, None, {}),
                   Node("complete", None, None, {}) >>]]

MCEdges ==
  << [from |-> Plan, when |-> "always", to |-> Review],
     [from |-> Review, when |-> "pass", to |-> Implement],
     [from |-> Review, when |-> "fail", to |-> Plan],
     [from |-> Implement, when |-> "success", to |-> Complete] >>

MCNodeRole == <<Coder, Lead, Coder, None>>

MCVerdicts == <<{"success"}, {"pass", "fail"}, {"success"}, {"success"}>>

\* A message to the lead, and one to everybody that suits the coder.
Addressed ==
  [max |-> None, prefer |-> Lead, loopWords |-> FALSE,
   affinity |-> <<0, 1>>, tokens |-> <<0, 0, 0, 0>>]
Discussed == [Addressed EXCEPT !.prefer = None]

MCMessages == {Addressed, Discussed}

MCClaimAnswers ==
  {[decision |-> "claim", confidence |-> None], [decision |-> "decline", confidence |-> None]}

MCCoordinatorAnswers ==
  {[kind |-> kind, target |-> None] : kind \in {"respond", "propose_workflow"}}

MCTaskRequests == {[role |-> Lead, node |-> None]}

MCTaskIds == Sessions \X (DispatchIds \cup {0})

==============================================================================
