------------------------ MODULE WorkspaceTurnProofs ------------------------
(***************************************************************************)
(* What a turn of WorkspaceTurn plans, for any workspaces and messages,    *)
(* and whatever the members and the coordinator answer.                    *)
(***************************************************************************)
EXTENDS WorkspaceTurn, TurnPlanningProofs

----------------------------------------------------------------------------
(* The turn *)

IInv ==
  /\ ws \in Specs /\ request \in Requests
  /\ stage \in {"claims", "coordinator", "votes", "planned"}
  /\ GoodClaims(ws, claims)
  /\ decision.kind \in DecisionKind /\ decision.target \in MaybeId
  /\ votes \in Seq(VoteDecision)
  /\ GoodPlan(ws, request, plan, MaxAssignments(ws, request))
  /\ stage \in {"coordinator", "votes"} =>
       DOMAIN claims = KnownRoles(ws) /\ plan = GroupPlan(ws, request, claims)
  /\ stage = "votes" => decision.kind = "propose_workflow"
  /\ TurnIsWorked

LEMMA TurnGood ==
  ASSUME IInv
  PROVE  GoodTurn(ws, request)
BY SpecsAssumption, RequestsAssumption DEF IInv, GoodTurn

LEMMA InitGood == Init => IInv
<1> SUFFICES ASSUME Init PROVE IInv
  OBVIOUS
<1>1. GoodTurn(ws, request)
  BY SpecsAssumption, RequestsAssumption DEF Init, GoodTurn
<1>2. GoodPlan(ws, request, plan, MaxAssignments(ws, request))
  BY <1>1, EmptyPlanGood DEF Init
<1>3. GoodClaims(ws, claims)
  BY DEF Init, GoodClaims
<1>4. decision.kind \in DecisionKind /\ decision.target \in MaybeId
  BY DEF Init, Silence, Decision, DecisionKind, MaybeId, Maybe
<1>5. TurnIsWorked
  BY DEF Init, TurnIsWorked
<1> QED BY <1>2, <1>3, <1>4, <1>5 DEF Init, IInv

LEMMA PlanAloneGood == IInv /\ PlanAlone => IInv'
<1> SUFFICES ASSUME IInv, PlanAlone PROVE IInv'
  OBVIOUS
<1>1. GoodTurn(ws, request) /\ GoodTurn(ws', request')
  BY TurnGood DEF PlanAlone
<1> DEFINE d == DecideCoordinator(ws, request)
<1>2. /\ d.kind \in DecisionKind /\ d.target \in MaybeId
      /\ IF ShouldPropose(ws, request) THEN d.kind = "propose_workflow"
         ELSE d.kind = "delegate" /\ d.target \in Named(ws, request)
  BY <1>1, LoneDecisionTyped
<1> HIDE DEF d
<1>3. decision' = d /\ plan' = LonePlan(ws, request)
  BY DEF PlanAlone, d
<1>4. MaxAssignments(ws, request) \in Nat \ {0}
  BY <1>1, FallbackTyped
<1>5. CASE LoneApproval(ws, request)
  <2>1. plan' = EntryPlan(ws, request) /\ decision'.kind = "propose_workflow"
    BY <1>3, <1>5 DEF LonePlan, LoneApproval, d
  <2>2. GoodPlan(ws, request, plan', MaxAssignments(ws, request))
    BY <1>1, <2>1, EntryPlanGood
  <2>3. TurnIsWorked'
    BY <2>1 DEF TurnIsWorked, PlanAlone
  <2> QED BY <1>2, <1>3, <2>2, <2>3 DEF IInv, PlanAlone
<1>6. CASE ~LoneApproval(ws, request) /\ d.kind = "delegate"
  <2>1. plan' = DirectPlan(d.target)
    BY <1>3, <1>6 DEF LonePlan, d
  <2>2. d.target \in Named(ws, request)
    BY <1>2, <1>6
  <2>3. GoodPlan(ws, request, plan', MaxAssignments(ws, request)) /\ plan' # <<>>
    BY <1>1, <1>4, <2>1, <2>2, DirectPlanGood
  <2>4. TurnIsWorked'
    BY <2>3 DEF TurnIsWorked
  <2> QED BY <1>2, <1>3, <2>3, <2>4 DEF IInv, PlanAlone
<1>7. CASE ~LoneApproval(ws, request) /\ d.kind # "delegate"
  <2>1. plan' = <<>>
    BY <1>3, <1>7 DEF LonePlan, d
  <2>2. ShouldPropose(ws, request) /\ d.kind = "propose_workflow"
    BY <1>2, <1>7
  <2>3. ~Approves(ws, SynthesizedVotes(ws, request, "propose_workflow"))
    BY <1>7, <2>2 DEF LoneApproval, d
  <2>4. Cardinality(Backers(ws)) < AtLeastOne(OrElse(ws.vote.minimum, 1))
    BY <1>1, <2>2, <2>3, LoneVote
  <2>5. GoodPlan(ws, request, plan', MaxAssignments(ws, request))
    BY <1>1, <2>1, EmptyPlanGood
  <2>6. TurnIsWorked'
    BY <2>2, <2>4 DEF TurnIsWorked, Backers, PlanAlone
  <2> QED BY <1>2, <1>3, <2>5, <2>6 DEF IInv, PlanAlone
<1> QED BY <1>5, <1>6, <1>7

LEMMA MemberClaimsGood == IInv /\ MemberClaims => IInv'
<1> SUFFICES ASSUME IInv, MemberClaims PROVE IInv'
  OBVIOUS
<1>1. GoodTurn(ws, request)
  BY TurnGood
<1> DEFINE r == ws.roles[Cardinality(DOMAIN claims) + 1]
<1>2. r \in KnownRoles(ws)
  <2>1. ws.roles \in Seq(Ids)
    BY <1>1 DEF GoodTurn, IsSpec
  <2>2. IsFiniteSet(DOMAIN claims)
    BY <1>1, FallbackTyped, FS_Subset DEF IInv, GoodClaims
  <2>3. Cardinality(DOMAIN claims) \in Nat /\ Cardinality(DOMAIN claims) < Len(ws.roles)
    BY <2>2, FS_CardinalityType DEF MemberClaims
  <2>4. Cardinality(DOMAIN claims) + 1 \in DOMAIN ws.roles
    BY <2>1, <2>3
  <2> QED BY <2>4 DEF KnownRoles, Range
<1>3. PICK claim \in {NoClaim} \cup {ParsedClaim(ws, request, r, a) : a \in ClaimAnswers} :
        claims' = [x \in DOMAIN claims \cup {r} |-> IF x = r THEN claim ELSE claims[x]]
  BY DEF MemberClaims
<1>4. claim \in ClaimResponse
  <2>1. NoClaim \in ClaimResponse
    BY DEF NoClaim, ClaimResponse, ClaimDecision
  <2>2. \A a \in ClaimAnswers : ParsedClaim(ws, request, r, a) \in ClaimResponse
    BY ParsedClaimTyped, AnswersAssumption
  <2> QED BY <1>3, <2>1, <2>2
<1> HIDE DEF r
<1>5. GoodClaims(ws, claims')
  BY <1>2, <1>3, <1>4 DEF GoodClaims, IInv
<1>6. stage' = "claims" /\ UNCHANGED <<ws, request, decision, votes, plan>>
  BY DEF MemberClaims
<1>7. TurnIsWorked'
  BY <1>6 DEF TurnIsWorked
<1> QED BY <1>5, <1>6, <1>7 DEF IInv

LEMMA CloseClaimsGood == IInv /\ CloseClaims => IInv'
<1> SUFFICES ASSUME IInv, CloseClaims PROVE IInv'
  OBVIOUS
<1>1. GoodTurn(ws, request) /\ GoodClaims(ws, claims)
  BY TurnGood DEF IInv
<1>2. /\ plan' = GroupPlan(ws, request, claims) /\ DOMAIN claims = KnownRoles(ws)
      /\ stage' \in {"coordinator", "planned"} /\ UNCHANGED <<ws, request, claims, decision, votes>>
      /\ stage' = "planned" => plan' # <<>>
  BY DEF CloseClaims, ClaimCandidates, AsksCoordinator
<1>3. GoodPlan(ws, request, plan', MaxAssignments(ws, request))
  BY <1>1, <1>2, GroupPlanGood
<1>4. TurnIsWorked'
  BY <1>2 DEF TurnIsWorked
<1> QED BY <1>2, <1>3, <1>4 DEF IInv

\* A plan that is left as the claims made it is empty only if all declined.
LEMMA ClaimPlanWorked ==
  ASSUME IInv, stage \in {"coordinator", "votes"}, plan = <<>>
  PROVE  claims # <<>> /\ \A r \in KnownRoles(ws) : claims[r].decision = "decline"
BY TurnGood, AllDecline DEF IInv

LEMMA CoordinatorDecidesGood == IInv /\ CoordinatorDecides => IInv'
<1> SUFFICES ASSUME IInv, CoordinatorDecides PROVE IInv'
  OBVIOUS
<1>1. GoodTurn(ws, request)
  BY TurnGood
<1>2. PICK answer \in {None} \cup CoordinatorAnswers :
        decision' = CoordinatorDecision(ws, request, answer)
  BY DEF CoordinatorDecides
<1>3. /\ decision'.kind \in DecisionKind /\ decision'.target \in MaybeId
      /\ decision'.kind = "delegate" => decision'.target \in Named(ws, request)
  BY <1>1, <1>2, DecisionTyped
<1>4. UNCHANGED <<ws, request, claims, votes>> /\ stage = "coordinator"
  BY DEF CoordinatorDecides
<1>5. CASE decision'.kind = "propose_workflow"
  <2>1. stage' = "votes" /\ plan' = plan
    BY <1>5 DEF CoordinatorDecides
  <2>2. TurnIsWorked'
    BY <2>1 DEF TurnIsWorked
  <2> QED BY <1>3, <1>4, <1>5, <2>1, <2>2 DEF IInv
<1>6. CASE decision'.kind # "propose_workflow"
  <2>1. stage' = "planned" /\ plan' = FinalPlan(ws, request, plan, decision', FALSE)
    BY <1>6 DEF CoordinatorDecides
  <2>2. CASE decision'.kind = "delegate" /\ plan = <<>>
    <3>1. plan' = DirectPlan(decision'.target)
      BY <2>1, <2>2 DEF FinalPlan
    <3>2. GoodPlan(ws, request, plan', MaxAssignments(ws, request)) /\ plan' # <<>>
      BY <1>1, <1>3, <2>2, <3>1, FallbackTyped, DirectPlanGood
    <3>3. TurnIsWorked'
      BY <3>2 DEF TurnIsWorked
    <3> QED BY <1>3, <1>4, <2>1, <3>2, <3>3 DEF IInv
  <2>3. CASE ~(decision'.kind = "delegate" /\ plan = <<>>)
    <3>1. plan' = plan
      BY <1>6, <2>1, <2>3 DEF FinalPlan
    <3>2. TurnIsWorked'
      BY <1>4, <3>1, ClaimPlanWorked DEF TurnIsWorked
    <3> QED BY <1>3, <1>4, <2>1, <3>1, <3>2 DEF IInv
  <2> QED BY <2>2, <2>3
<1> QED BY <1>5, <1>6

LEMMA MemberVotesGood == IInv /\ MemberVotes => IInv'
<1> SUFFICES ASSUME IInv, MemberVotes PROVE IInv'
  OBVIOUS
<1>1. stage' = "votes" /\ stage = "votes" /\ UNCHANGED <<ws, request, claims, decision, plan>>
  BY DEF MemberVotes
<1>2. PICK vote \in VoteDecision : votes' = Append(votes, vote)
  BY VoteTyped DEF MemberVotes, VoteDecision
<1>3. votes' \in Seq(VoteDecision)
  BY <1>2 DEF IInv
<1>4. TurnIsWorked'
  BY <1>1 DEF TurnIsWorked
<1> QED BY <1>1, <1>3, <1>4 DEF IInv

LEMMA CloseVoteGood == IInv /\ CloseVote => IInv'
<1> SUFFICES ASSUME IInv, CloseVote PROVE IInv'
  OBVIOUS
<1>1. GoodTurn(ws, request) /\ decision.kind = "propose_workflow"
  BY TurnGood DEF IInv, CloseVote
<1>2. /\ stage = "votes" /\ stage' = "planned" /\ UNCHANGED <<ws, request, claims, decision, votes>>
      /\ plan' = FinalPlan(ws, request, plan, decision, Approves(ws, votes))
  BY DEF CloseVote
<1>3. CASE Approves(ws, votes)
  <2>1. plan' = EntryPlan(ws, request)
    BY <1>1, <1>2, <1>3 DEF FinalPlan
  <2>2. GoodPlan(ws, request, plan', MaxAssignments(ws, request))
    BY <1>1, <2>1, EntryPlanGood
  <2>3. TurnIsWorked'
    BY <1>1, <1>2, <2>1 DEF TurnIsWorked
  <2> QED BY <1>2, <2>2, <2>3 DEF IInv
<1>4. CASE ~Approves(ws, votes)
  <2>1. plan' = plan
    BY <1>1, <1>2, <1>4 DEF FinalPlan
  <2>2. TurnIsWorked'
    BY <1>2, <2>1, ClaimPlanWorked DEF TurnIsWorked
  <2> QED BY <1>2, <2>1, <2>2 DEF IInv
<1> QED BY <1>3, <1>4

LEMMA Invariance == Spec => []IInv
<1>1. ASSUME IInv, [Next]_vars PROVE IInv'
  <2>1. CASE UNCHANGED vars
    BY <1>1, <2>1 DEF vars, IInv, TurnIsWorked
  <2>2. CASE Next
    BY <1>1, <2>2, PlanAloneGood, MemberClaimsGood, CloseClaimsGood, CoordinatorDecidesGood,
       MemberVotesGood, CloseVoteGood DEF Next
  <2> QED BY <1>1, <2>1, <2>2
<1> QED BY <1>1, InitGood, PTL DEF Spec

----------------------------------------------------------------------------
(* Theorems *)

\* Whatever members and coordinator answer, a turn ends with a plan of at most as many
\* assignments as the message or the policy allows (max_assignments), each for another role,
\* although claimers and supporters, the best nodes and the best roles are picked separately.
THEOREM TypeCorrect == Spec => []TypeOK
<1>1. IInv => TypeOK
  <2> SUFFICES ASSUME IInv PROVE TypeOK
    OBVIOUS
  <2>1. \A i \in DOMAIN plan : plan[i] \in Assignment
    BY DEF IInv, GoodPlan
  <2> QED BY <2>1 DEF IInv, GoodPlan, GoodClaims, TypeOK
<1> QED BY <1>1, Invariance, PTL

\* build_plan_from_claim_responses is monotone: whoever is chosen stays chosen when it answers
\* more strongly, for any number of members, any scores and any limit.
THEOREM StrengthCounts == Spec => []StrongerAnswerKeepsWork
<1>1. IInv => StrongerAnswerKeepsWork
  <2> SUFFICES ASSUME IInv, NEW r \in Range(Chosen(ws, request, claims)),
                      NEW claim \in [decision: {"claim", claims[r].decision},
                                     confidence: {claims[r].confidence, 100}]
               PROVE  r \in Range(Chosen(ws, request, [claims EXCEPT ![r] = claim]))
    BY DEF StrongerAnswerKeepsWork
  <2>1. GoodTurn(ws, request) /\ GoodClaims(ws, claims)
    BY TurnGood DEF IInv
  <2>2. r \in DOMAIN claims
    <3>1. Chosen(ws, request, claims) \in Seq(DOMAIN claims)
      BY <2>1, ChosenByRank
    <3> QED BY <3>1 DEF Range
  <2>3. claim \in ClaimResponse
    BY <2>1, <2>2 DEF GoodClaims, ClaimResponse, ClaimDecision
  <2> QED BY <2>1, <2>3, StrongerKeeps
<1> QED BY <1>1, Invariance, PTL

\* build_plan_from_claim_responses gives no work to a member that declines while somebody claims
\* or may support, nor any to a supporter before all who claim have some.
THEOREM DecliningCounts == Spec => []DeclinersLeftAlone
<1>1. IInv => DeclinersLeftAlone
  <2> SUFFICES ASSUME IInv PROVE DeclinersLeftAlone
    OBVIOUS
  <2>1. GoodTurn(ws, request) /\ GoodClaims(ws, claims)
    BY TurnGood DEF IInv
  <2> QED BY <2>1, DeclinersRest DEF DeclinersLeftAlone, Owners
<1> QED BY <1>1, Invariance, PTL

\* No way to a plan, by claims, by the entry of an approved workflow, or by the heuristics, sends
\* a role to a node that does not name it (build_assignment and its callers).
THEOREM RolesFit == Spec => []NodesFitRoles
<1>1. IInv => NodesFitRoles
  BY DEF IInv, GoodPlan, PlanFits, NodesFitRoles
<1> QED BY <1>1, Invariance, PTL

\* send_workspace_turn and run_workspace_turn end without a plan only if every member declined,
\* too few voters have a part in the workflow, or nobody can take its entry: no answer of the
\* coordinator and no vote drops a message that somebody would work on.
THEOREM MessagesAreWorkedOn == Spec => []TurnIsWorked
<1>1. IInv => TurnIsWorked
  BY DEF IInv
<1> QED BY <1>1, Invariance, PTL

=============================================================================
