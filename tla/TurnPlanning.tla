---------------------------- MODULE TurnPlanning ----------------------------
(***************************************************************************)
(* The planning of a workspace turn (rust/crates/multi-agent-protocol/src/ *)
(* workspace_turn.rs): who takes a message, from what the members claim,   *)
(* what the coordinator decides and how the members vote.  All of it is    *)
(* pure; ws is the WorkspaceSpec and request the WorkspaceTurnRequest.     *)
(*                                                                         *)
(* Role and node ids are naturals, since of these strings only equality    *)
(* and order matter.  A message is known by how well it suits each role    *)
(* (score_role_for_message) and each node (its token score), and whether   *)
(* it uses the words of a loop.  A confidence is in percent.  An assign-   *)
(* ment is the role and the node; instructions and texts are left out.     *)
(***************************************************************************)
EXTENDS Option, Integers, Sequences, FiniteSets, Functions, FiniteSetsExt

ASSUME NoneIsNoNumber == None \notin Int

----------------------------------------------------------------------------
(* Types *)

Ids == Nat
MaybeId == Maybe(Ids)

NodeType ==
  {"announce", "assign", "claim", "shell", "evaluate", "review", "branch", "loop",
   "artifact", "commit", "revert", "merge", "complete"}

\* The role ids of a node are a set: every use of them ranks them or looks one up.
NodeSpec == [type: NodeType, role: MaybeId, reviewer: MaybeId, candidates: SUBSET Ids]

\* ws.claim and ws.vote stand for the claim and the workflow vote policy, whose fields are
\* None (supporting: FALSE) where the policy or the field is absent.
IsSpec(ws) ==
  /\ ws.roles \in Seq(Ids) /\ ws.roles # <<>> /\ IsInjective(ws.roles)
  /\ ws.coordinator \in MaybeId /\ ws.default \in MaybeId
  /\ ws.claim \in [max: MaybeId, fallback: MaybeId, supporting: BOOLEAN]
  /\ ws.vote.minimum \in MaybeId /\ ws.vote.ratio \in MaybeId
  /\ ws.vote.candidates # None => ws.vote.candidates \in Seq(Ids)
  /\ ws.workflow # None =>
       /\ ws.workflow.entry \in Ids /\ ws.workflow.loop \in BOOLEAN
       /\ DOMAIN ws.workflow.nodes \subseteq Ids /\ IsFiniteSet(DOMAIN ws.workflow.nodes)
       /\ \A n \in DOMAIN ws.workflow.nodes :
            /\ ws.workflow.nodes[n] \in NodeSpec
            /\ IsFiniteSet(ws.workflow.nodes[n].candidates)

\* A message is known by its scores, for every role and node that there is.
IsRequest(ws, request) ==
  /\ request.max \in MaybeId /\ request.prefer \in MaybeId /\ request.loopWords \in BOOLEAN
  /\ \A r \in Range(ws.roles) : request.affinity[r] \in Nat
  /\ ws.workflow # None => \A n \in DOMAIN ws.workflow.nodes : request.tokens[n] \in Nat

ClaimDecision == {"claim", "support", "decline"}
VoteDecision == {"approve", "reject", "abstain"}
DecisionKind == {"respond", "delegate", "propose_workflow"}

ClaimResponse == [decision: ClaimDecision, confidence: 0..100]
Assignment == [role: Ids, node: MaybeId]

----------------------------------------------------------------------------
(* Helpers *)

OrElse(x, y) == IF x = None THEN y ELSE x
AtLeastOne(n) == IF n > 1 THEN n ELSE 1

\* The members of S in the strict total order R, a set of pairs; sort_by and its comparison
Ahead(S, R, x) == {y \in S : <<y, x>> \in R}
InOrder(S, R) == [i \in 1..Cardinality(S) |-> CHOOSE x \in S : Cardinality(Ahead(S, R, x)) = i - 1]

FirstN(s, n) == SubSeq(s, 1, IF n < Len(s) THEN n ELSE Len(s))

KnownRoles(ws) == Range(ws.roles)

CoordinatorRole(ws) == OrElse(OrElse(ws.coordinator, ws.default), ws.roles[1])
FallbackRole(ws) == OrElse(OrElse(ws.claim.fallback, ws.default), CoordinatorRole(ws))

MaxAssignments(ws, request) == AtLeastOne(OrElse(OrElse(request.max, ws.claim.max), 1))

\* score_role_for_message, 0 for an id that is no role
Affinity(ws, request, r) == IF r \in KnownRoles(ws) THEN request.affinity[r] ELSE 0

\* The better affinity goes first, the lower id among equals.
ByAffinity(ws, request, ids) ==
  {p \in ids \X ids :
     \/ Affinity(ws, request, p[1]) > Affinity(ws, request, p[2])
     \/ Affinity(ws, request, p[1]) = Affinity(ws, request, p[2]) /\ p[1] < p[2]}

BestRole(ws, request, ids) == InOrder(ids, ByAffinity(ws, request, ids))[1]

\* The first role with the best affinity, or the fallback when no role has any
GuessFallbackRole(ws, request) ==
  LET score == [i \in DOMAIN ws.roles |-> Affinity(ws, request, ws.roles[i])]
      best  == Max(Range(score))
  IN  IF best = 0 THEN FallbackRole(ws)
      ELSE ws.roles[Min({i \in DOMAIN score : score[i] = best})]

----------------------------------------------------------------------------
(* Workflow candidates: the nodes a message may be about *)

RoleIds(node) == ({node.role, node.reviewer} \ {None}) \cup node.candidates

NodePriority(type) ==
  CASE type = "assign"   -> 6
    [] type = "review"   -> 5
    [] type = "shell"    -> 4
    [] type = "evaluate" -> 3
    [] type = "claim"    -> 1
    [] OTHER             -> 0

JointAffinity(ws, request, ids) ==
  LET Suits(r) == Affinity(ws, request, r) IN MapThenSumSet(Suits, ids)

NodeScore(ws, request, n) ==
  LET node == ws.workflow.nodes[n]
  IN  request.tokens[n] + JointAffinity(ws, request, RoleIds(node)) + NodePriority(node.type)

WorkflowCandidates(ws, request) ==
  IF ws.workflow = None THEN {}
  ELSE {n \in DOMAIN ws.workflow.nodes :
          RoleIds(ws.workflow.nodes[n]) # {} /\ NodeScore(ws, request, n) > 0}

\* The candidates among nodes, best score first, by id among equals
ByScore(ws, request, nodes) ==
  {p \in nodes \X nodes :
     \/ NodeScore(ws, request, p[1]) > NodeScore(ws, request, p[2])
     \/ NodeScore(ws, request, p[1]) = NodeScore(ws, request, p[2]) /\ p[1] < p[2]}

RankedNodes(ws, request, nodes) == InOrder(nodes, ByScore(ws, request, nodes))

\* Faulty variant: the best node, whether or not it has a place for the role.
BestNodeForAnyone(ws, request, r) ==
  LET nodes == WorkflowCandidates(ws, request)
  IN  IF nodes = {} THEN None ELSE RankedNodes(ws, request, nodes)[1]

\* The best node that has a place for role r
BestNodeFor(ws, request, r) ==
  LET lanes == {n \in WorkflowCandidates(ws, request) : r \in RoleIds(ws.workflow.nodes[n])}
  IN  IF lanes = {} THEN None ELSE RankedNodes(ws, request, lanes)[1]

\* The role a node is dispatched to: an owner or a reviewer only if it is a known role, a
\* candidate even if it is not.
ResolveNodeRole(ws, request, node) ==
  IF node.role \in KnownRoles(ws) THEN node.role
  ELSE IF node.reviewer \in KnownRoles(ws) THEN node.reviewer
  ELSE IF node.candidates # {} THEN BestRole(ws, request, node.candidates)
  ELSE None

\* Does the message call for staged execution?
ShouldPropose(ws, request) ==
  /\ ws.workflow # None
  /\ \/ \E n \in WorkflowCandidates(ws, request) :
          ws.workflow.nodes[n].type \in {"shell", "evaluate", "loop", "commit", "revert", "merge"}
     \/ ws.workflow.loop /\ request.loopWords

----------------------------------------------------------------------------
(* Plans: sequences of assignments *)

Workers(plan) == {plan[i].role : i \in DOMAIN plan}

DirectPlan(r) == <<[role |-> r, node |-> None]>>

\* One node per role: of the nodes whose best role is the same, the best one counts.
HeuristicPlan(ws, request, max) ==
  LET nodes   == WorkflowCandidates(ws, request)
      Who(n)  == BestRole(ws, request, RoleIds(ws.workflow.nodes[n]))
      ranked  == RankedNodes(ws, request, nodes)
      firsts  == {ranked[i] : i \in {i \in DOMAIN ranked :
                    \A j \in 1..(i - 1) : Who(ranked[j]) # Who(ranked[i])}}
      perRole == FirstN(RankedNodes(ws, request, firsts), max)
      suited  == {r \in KnownRoles(ws) : Affinity(ws, request, r) > 0}
      byRole  == FirstN(InOrder(suited, ByAffinity(ws, request, suited)), max)
  IN  IF nodes # {} THEN [i \in DOMAIN perRole |-> [role |-> Who(perRole[i]), node |-> perRole[i]]]
      ELSE IF suited # {} THEN [i \in DOMAIN byRole |-> [role |-> byRole[i], node |-> None]]
      ELSE DirectPlan(FallbackRole(ws))

PlanTurn(ws, request) ==
  IF request.prefer # None THEN DirectPlan(request.prefer)
  ELSE HeuristicPlan(ws, request, MaxAssignments(ws, request))

\* The plan of an approved workflow: its entry node, for which there may be nobody.
EntryPlan(ws, request) ==
  IF ws.workflow = None \/ ws.workflow.entry \notin DOMAIN ws.workflow.nodes
  THEN PlanTurn(ws, request)
  ELSE LET entry == ws.workflow.entry
           r == ResolveNodeRole(ws, request, ws.workflow.nodes[entry])
       IN  IF r = None THEN <<>> ELSE <<[role |-> r, node |-> entry]>>

----------------------------------------------------------------------------
(* Claims.  claims maps the members that were asked to their responses. *)

\* Every role is asked, each once, in an order that nothing depends on.
ClaimCandidates(ws, request) == KnownRoles(ws)

\* An answer that is not one of the three words is judged by the role's affinity.
NormalizedClaim(ws, request, r, decision) ==
  IF decision \in ClaimDecision THEN decision
  ELSE IF Affinity(ws, request, r) >= 3 THEN "claim"
  ELSE IF Affinity(ws, request, r) > 0 THEN "support"
  ELSE "decline"

NormalizedConfidence(confidence, decision) ==
  IF confidence # None THEN Max({0, Min({confidence, 100})})
  ELSE IF decision = "claim" THEN 90 ELSE IF decision = "support" THEN 60 ELSE 25

ParsedClaim(ws, request, r, answer) ==
  LET decision == NormalizedClaim(ws, request, r, answer.decision)
  IN  [decision |-> decision, confidence |-> NormalizedConfidence(answer.confidence, decision)]

\* The response recorded for a member that failed or timed out
NoClaim == [decision |-> "decline", confidence |-> 10]

ClaimScore(ws, request, r, claim) ==
  LET affinity == Affinity(ws, request, r)
  IN  claim.confidence + 10 * affinity
        + IF affinity = 0 THEN 0 ELSE IF r = CoordinatorRole(ws) THEN -3 ELSE 1

Responders(claims, decision) == {r \in DOMAIN claims : claims[r].decision = decision}

\* Faulty variant: the less confident response goes first.
OutranksByDoubt(ws, request, claims, q, r) ==
  LET Score(x) == ClaimScore(ws, request, x, claims[x])
  IN  \/ Score(q) < Score(r)
      \/ Score(q) = Score(r) /\ q < r

Outranks(ws, request, claims, q, r) ==
  LET Score(x) == ClaimScore(ws, request, x, claims[x])
  IN  \/ Score(q) > Score(r)
      \/ /\ Score(q) = Score(r)
         /\ \/ claims[q].confidence > claims[r].confidence
            \/ claims[q].confidence = claims[r].confidence /\ q < r

\* The order of the responses of some members
ByClaim(ws, request, claims, members) ==
  {p \in members \X members : Outranks(ws, request, claims, p[1], p[2])}

RankedMembers(ws, request, claims, members) ==
  InOrder(members, ByClaim(ws, request, claims, members))

\* Faulty variant: whoever did not claim is taken as a supporter.
ChosenWithDecliners(ws, request, claims) ==
  LET Ranked(members) == RankedMembers(ws, request, claims, members)
      max    == MaxAssignments(ws, request)
      owners == FirstN(Ranked(Responders(claims, "claim")), max)
  IN  owners \o FirstN(Ranked(DOMAIN claims \ Responders(claims, "claim")), max - Len(owners))

\* Faulty variant: the places that claimers take are not counted.
ChosenUncounted(ws, request, claims) ==
  LET Ranked(members) == RankedMembers(ws, request, claims, members)
      max == MaxAssignments(ws, request)
  IN  FirstN(Ranked(Responders(claims, "claim")), max)
        \o FirstN(Ranked(Responders(claims, "support")), max)

\* The members that a claim plan takes: claimers first, then supporters if the policy has it.
\* Each member responds once, so that unique_assignments has nothing to remove.
Chosen(ws, request, claims) ==
  LET Ranked(members) == RankedMembers(ws, request, claims, members)
      max     == MaxAssignments(ws, request)
      owners  == FirstN(Ranked(Responders(claims, "claim")), max)
      helpers == FirstN(Ranked(Responders(claims, "support")), max - Len(owners))
  IN  owners \o IF ws.claim.supporting THEN helpers ELSE <<>>

ClaimPlan(ws, request, claims) ==
  LET chosen == Chosen(ws, request, claims)
  IN  IF chosen = <<>> THEN DirectPlan(GuessFallbackRole(ws, request))
      ELSE [i \in DOMAIN chosen |->
              [role |-> chosen[i], node |-> BestNodeFor(ws, request, chosen[i])]]

----------------------------------------------------------------------------
(* The coordinator.  An answer has the kind that it names, anything but the *)
(* three is unreadable, and the target that it names or None.               *)

Decision(kind, target) == [kind |-> kind, target |-> target]

\* An answer that names no kind is one that delegates.
ParsedDecision(ws, request, answer) ==
  LET target == IF answer.target \in KnownRoles(ws) THEN answer.target ELSE None
      proposes == \/ answer.kind = "propose_workflow" /\ ws.workflow # None
                  \/ ShouldPropose(ws, request)
  IN  IF proposes
      THEN Decision("propose_workflow", target)
      ELSE IF answer.kind = "delegate" /\ target # None THEN Decision("delegate", target)
      ELSE Decision("respond", target)

\* The decision without asking anybody, as the Codex and Claude adapters take it.  There is
\* always somebody to delegate to, so it never is to respond.
DecideCoordinator(ws, request) ==
  IF ShouldPropose(ws, request) THEN Decision("propose_workflow", None)
  ELSE Decision("delegate", OrElse(request.prefer, HeuristicPlan(ws, request, 1)[1].role))

----------------------------------------------------------------------------
(* The vote.  votes[i] is the vote of the i-th candidate, which may be one  *)
(* that the policy lists twice.                                             *)

VoteCandidates(ws) ==
  LET named == IF ws.vote.candidates = None THEN <<>> ELSE ws.vote.candidates
      valid == {i \in DOMAIN named : named[i] \in KnownRoles(ws)}
      kept  == InOrder(valid, {p \in valid \X valid : p[1] < p[2]})
  IN  IF valid = {} THEN ws.roles ELSE [k \in DOMAIN kept |-> named[kept[k]]]

Participates(ws, r) ==
  /\ ws.workflow # None
  /\ \E n \in DOMAIN ws.workflow.nodes : r \in RoleIds(ws.workflow.nodes[n])

\* An abstention, or an answer that cannot be read, is an approval by whoever has a part in
\* the workflow or proposed it.
NormalizedVote(ws, request, kind, r, vote) ==
  IF vote \in {"approve", "reject"} THEN vote
  ELSE LET proposed == /\ kind = "propose_workflow"
                       /\ r = OrElse(ws.coordinator, ws.default) \/ Participates(ws, r)
           hasLane  == /\ ShouldPropose(ws, request)
                       /\ \E n \in WorkflowCandidates(ws, request) :
                            r \in RoleIds(ws.workflow.nodes[n])
       IN  IF proposed \/ hasLane THEN "approve" ELSE "abstain"

\* synthesize_workflow_vote_response: what the Codex and Claude adapters record per candidate
SynthesizedVotes(ws, request, kind) ==
  [i \in DOMAIN VoteCandidates(ws) |->
     NormalizedVote(ws, request, kind, VoteCandidates(ws)[i], "abstain")]

VotesFor(votes, vote) == {i \in DOMAIN votes : votes[i] = vote}

\* A minimum of at least 1 also asks for a decisive vote.
Approves(ws, votes) ==
  LET approvals == Cardinality(VotesFor(votes, "approve"))
      decisive  == approvals + Cardinality(VotesFor(votes, "reject"))
  IN  /\ approvals >= AtLeastOne(OrElse(ws.vote.minimum, 1))
      /\ approvals * AtLeastOne(OrElse(ws.vote.ratio, 1)) >= decisive

----------------------------------------------------------------------------
(* A turn that addresses nobody, as the Cteno adapter conducts it: the      *)
(* members claim; the coordinator is asked when the message calls for the   *)
(* workflow or nobody spoke up; if it proposes the workflow the members     *)
(* vote on it.                                                              *)

\* The plan by claims, empty when every member declined
GroupPlan(ws, request, claims) ==
  IF \A r \in DOMAIN claims : claims[r].decision = "decline" THEN <<>>
  ELSE ClaimPlan(ws, request, claims)

AsksCoordinator(ws, request, claimPlan) == ShouldPropose(ws, request) \/ claimPlan = <<>>

\* answer is None when the coordinator failed or timed out
CoordinatorDecision(ws, request, answer) ==
  IF answer = None THEN Decision("respond", None) ELSE ParsedDecision(ws, request, answer)

\* Faulty variant: a vote that fails ends the turn without a plan.
FinalPlanDropped(ws, request, claimPlan, decision, approved) ==
  IF decision.kind = "propose_workflow"
  THEN IF approved THEN EntryPlan(ws, request) ELSE <<>>
  ELSE claimPlan

\* A delegation counts only when there is no claim plan.
FinalPlan(ws, request, claimPlan, decision, approved) ==
  IF decision.kind = "propose_workflow" /\ approved THEN EntryPlan(ws, request)
  ELSE IF decision.kind = "delegate" /\ claimPlan = <<>> THEN DirectPlan(decision.target)
  ELSE claimPlan

----------------------------------------------------------------------------
(* A turn of the Codex and Claude adapters, which ask nobody: the runtime  *)
(* decides for the coordinator and synthesizes the votes.                  *)

LoneApproval(ws, request) ==
  LET decision == DecideCoordinator(ws, request)
  IN  /\ decision.kind = "propose_workflow"
      /\ Approves(ws, SynthesizedVotes(ws, request, decision.kind))

LonePlan(ws, request) ==
  IF LoneApproval(ws, request) THEN EntryPlan(ws, request)
  ELSE IF DecideCoordinator(ws, request).kind = "delegate"
  THEN DirectPlan(DecideCoordinator(ws, request).target)
  ELSE <<>>
=============================================================================
