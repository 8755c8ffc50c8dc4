--------------------------- MODULE MCWorkspaceTurn ---------------------------
(***************************************************************************)
(* Model-checking instance of WorkspaceTurn: four workspaces of the same   *)
(* three roles, the first two shaped like the coding studio and the auto-  *)
(* research template, and messages that suit the roles to different        *)
(* degrees.                                                                *)
(***************************************************************************)
EXTENDS WorkspaceTurn, TLC

Lead == 1
Reviewer == 2
Coder == 3
Stranger == 7  \* an id that no role has

Node(type, role, reviewer, candidates) ==
  [type |-> type, role |-> role, reviewer |-> reviewer, candidates |-> candidates]

Studio ==
  [roles |-> <<Lead, Reviewer, Coder>>, coordinator |-> Lead, default |-> Lead,
   claim |-> [max |-> 1, fallback |-> Lead, supporting |-> TRUE],
   vote |-> [minimum |-> 1, ratio |-> 1, candidates |-> None],
   workflow |->
     [entry |-> 1, loop |-> FALSE,
      nodes |-> << Node("claim", None, None, {Lead, Coder}),
                   Node("assign", Coder, None, {}),
                   Node("review", None, Reviewer, {}),
                   Node("complete", None, None, {}) >>]]

\* The lead has a part only as a reviewer, votes have to be two, and two may work.
Research ==
  [Studio EXCEPT
     !.claim = [max |-> 2, fallback |-> Lead, supporting |-> TRUE],
     !.vote = [minimum |-> 2, ratio |-> 1, candidates |-> <<Reviewer, Coder, Stranger>>],
     !.workflow = [entry |-> 1, loop |-> TRUE,
                   nodes |-> << Node("assign", Stranger, Lead, {}),
                                Node("shell", Coder, None, {}),
                                Node("evaluate", None, None, {}) >>]]

\* Nobody can take the entry node, nobody supports, and half the votes are enough.
Gated ==
  [Studio EXCEPT
     !.coordinator = None, !.default = Reviewer,
     !.claim = [max |-> 2, fallback |-> None, supporting |-> FALSE],
     !.vote = [minimum |-> None, ratio |-> 2, candidates |-> None],
     !.workflow = [entry |-> 1, loop |-> TRUE,
                   nodes |-> << Node("announce", None, None, {}),
                                Node("branch", None, None, {Coder, Stranger}),
                                Node("review", None, Reviewer, {}) >>]]

Chat ==
  [Studio EXCEPT !.roles = <<Coder, Lead, Reviewer>>, !.workflow = None,
                 !.claim = [max |-> None, fallback |-> Coder, supporting |-> TRUE]]

MCSpecs == {Studio, Research, Gated, Chat}

\* max is what infer_group_reply_max_assignments makes of the message: nothing, or everybody.
MCRequests ==
  [max: {None, 3}, prefer: {None, Reviewer}, loopWords: BOOLEAN,
   affinity: {<<0, 0, 0>>, <<1, 0, 3>>, <<1, 1, 0>>}, tokens: {<<0, 0, 0, 0>>, <<3, 0, 1, 2>>}]

MCClaimAnswers ==
  [decision: {"claim"}, confidence: {30, 90}] \cup
  [decision: {"support"}, confidence: {80}] \cup
  [decision: {"decline", "unreadable"}, confidence: {None}]

MCCoordinatorAnswers ==
  [kind: {"respond", "delegate", "propose_workflow"}, target: {Reviewer, Stranger}]

==============================================================================
