---------------------------- MODULE WorkspaceTurn ----------------------------
(***************************************************************************)
(* One workspace turn, from the message to the plan.  The Cteno adapter    *)
(* asks the members (send_workspace_turn, rust/crates/multi-agent-runtime- *)
(* cteno/src/adapter.rs): all at once, and it takes their answers in the   *)
(* order in which they were asked, so that only what they answer matters,  *)
(* or that they fail or time out.  The Codex and Claude adapters plan a    *)
(* turn alone (run_workspace_turn).                                        *)
(***************************************************************************)
EXTENDS TurnPlanning

CONSTANTS
  Specs,              \* the workspaces, with a coordinator or a default role
  Requests,           \* the messages
  ClaimAnswers,       \* the decisions and confidences that a member may answer
  CoordinatorAnswers  \* the kinds and targets that a coordinator may answer

ASSUME SpecsAssumption ==
  \A ws \in Specs : IsSpec(ws) /\ OrElse(ws.coordinator, ws.default) # None
ASSUME RequestsAssumption ==
  \A ws \in Specs, request \in Requests : IsRequest(ws, request)
ASSUME AnswersAssumption == \A a \in ClaimAnswers : a.confidence \in Int \cup {None}

VARIABLES
  ws,        \* the workspace
  request,   \* the message
  stage,     \* what the turn is waiting for
  claims,    \* claim_responses, by member
  decision,  \* coordinator_decision
  votes,     \* workflow_vote_responses
  plan       \* claim_plan, and in the end plan

vars == <<ws, request, stage, claims, decision, votes, plan>>

Silence == Decision("respond", None)

Init ==
  /\ ws \in Specs
  /\ request \in Requests
  /\ stage = "claims"
  /\ claims = <<>>
  /\ decision = Silence
  /\ votes = <<>>
  /\ plan = <<>>

----------------------------------------------------------------------------

PlanAlone ==
  /\ stage = "claims" /\ claims = <<>>
  /\ decision' = DecideCoordinator(ws, request)
  /\ plan' = LonePlan(ws, request)
  /\ stage' = "planned"
  /\ UNCHANGED <<ws, request, claims, votes>>

\* A message that addresses nobody: every member is a candidate, and the next one answers, or
\* fails or is too late.
MemberClaims ==
  /\ stage = "claims" /\ request.prefer = None
  /\ Cardinality(DOMAIN claims) < Len(ws.roles)
  /\ LET r == ws.roles[Cardinality(DOMAIN claims) + 1]
     IN  \E claim \in {NoClaim} \cup {ParsedClaim(ws, request, r, a) : a \in ClaimAnswers} :
           claims' = [q \in DOMAIN claims \cup {r} |-> IF q = r THEN claim ELSE claims[q]]
  /\ UNCHANGED <<ws, request, stage, decision, votes, plan>>

\* close_claim_window, and the choice of whom to ask next
CloseClaims ==
  /\ stage = "claims"
  /\ DOMAIN claims = ClaimCandidates(ws, request)
  /\ plan' = GroupPlan(ws, request, claims)
  /\ stage' = IF AsksCoordinator(ws, request, plan') THEN "coordinator" ELSE "planned"
  /\ UNCHANGED <<ws, request, claims, decision, votes>>

\* Anything but a proposal settles the plan.
CoordinatorDecides ==
  /\ stage = "coordinator"
  /\ \E answer \in {None} \cup CoordinatorAnswers :
       decision' = CoordinatorDecision(ws, request, answer)
  /\ IF decision'.kind = "propose_workflow"
     THEN /\ stage' = "votes"
          /\ UNCHANGED plan
     ELSE /\ stage' = "planned"
          /\ plan' = FinalPlan(ws, request, plan, decision', FALSE)
  /\ UNCHANGED <<ws, request, claims, votes>>

\* A failed or late vote is an abstention, unlike one that cannot be read.
MemberVotes ==
  /\ stage = "votes"
  /\ Len(votes) < Len(VoteCandidates(ws))
  /\ LET r == VoteCandidates(ws)[Len(votes) + 1]
     IN  \E vote \in {"abstain"} \cup
                     {NormalizedVote(ws, request, decision.kind, r, v) : v \in VoteDecision} :
           votes' = Append(votes, vote)
  /\ UNCHANGED <<ws, request, stage, claims, decision, plan>>

\* close_workflow_vote_window
CloseVote ==
  /\ stage = "votes"
  /\ Len(votes) = Len(VoteCandidates(ws))
  /\ stage' = "planned"
  /\ plan' = FinalPlan(ws, request, plan, decision, Approves(ws, votes))
  /\ UNCHANGED <<ws, request, claims, decision, votes>>

Next == PlanAlone \/ MemberClaims \/ CloseClaims \/ CoordinatorDecides \/ MemberVotes \/ CloseVote

Spec == Init /\ [][Next]_vars
----------------------------------------------------------------------------
(* Properties *)

\* The variables have the shape of the locals of send_workspace_turn, and a plan never has
\* more assignments than allowed, nor a role twice.
TypeOK ==
  /\ stage \in {"claims", "coordinator", "votes", "planned"}
  /\ DOMAIN claims \subseteq KnownRoles(ws)
  /\ \A r \in DOMAIN claims : claims[r] \in ClaimResponse
  /\ decision.kind \in DecisionKind /\ decision.target \in MaybeId
  /\ votes \in Seq(VoteDecision)
  /\ \A i \in DOMAIN plan : plan[i] \in Assignment
  /\ Len(plan) <= MaxAssignments(ws, request)
  /\ \A i, j \in DOMAIN plan : plan[i].role = plan[j].role => i = j

Everybody == DOMAIN claims = KnownRoles(ws)

\* Claiming is never worse than supporting, nor confidence than doubt: a member that gets
\* work keeps it if it answers more strongly and the others answer the same.
StrongerAnswerKeepsWork ==
  stage = "claims" /\ Everybody =>
    \A r \in Range(Chosen(ws, request, claims)) :
      \A claim \in [decision: {"claim", claims[r].decision},
                    confidence: {claims[r].confidence, 100}] :
        r \in Range(Chosen(ws, request, [claims EXCEPT ![r] = claim]))

\* A member that declines is left alone, except as the one role that a message falls back on
\* when there is only support and the policy takes none; and nobody is made to help while a
\* member that claims has nothing.
DeclinersLeftAlone ==
  stage = "claims" /\ Everybody =>
    LET workers == Workers(GroupPlan(ws, request, claims))
        owners  == Responders(claims, "claim")
    IN  /\ workers \cap Responders(claims, "decline") # {} =>
             owners = {} /\ ~ws.claim.supporting /\ Cardinality(workers) = 1
        /\ owners \subseteq workers \/ workers \subseteq owners

\* Whoever is sent to a workflow node has a place there: what a node is about, by words, never
\* brings work to a role that it does not name.
NodesFitRoles ==
  stage = "planned" =>
    \A i \in DOMAIN plan :
      plan[i].node # None => plan[i].role \in RoleIds(ws.workflow.nodes[plan[i].node])

\* A message is worked on when some member speaks up for it, however the coordinator and the
\* vote turn out; when nobody is asked, unless it calls for the workflow and not enough voters
\* have a part in that; and in both cases unless nobody can take the workflow's entry.
TurnIsWorked ==
  stage = "planned" /\ plan = <<>> =>
    LET voters  == VoteCandidates(ws)
        backers == {i \in DOMAIN voters :
                      Participates(ws, voters[i]) \/ voters[i] = OrElse(ws.coordinator, ws.default)}
    IN  \/ decision.kind = "propose_workflow" /\ EntryPlan(ws, request) = <<>>
        \/ /\ claims # <<>>
           /\ \A r \in KnownRoles(ws) : claims[r].decision = "decline"
        \/ /\ claims = <<>>
           /\ ShouldPropose(ws, request)
           /\ Cardinality(backers) < AtLeastOne(OrElse(ws.vote.minimum, 1))
=============================================================================
