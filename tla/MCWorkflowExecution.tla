----------------------- MODULE MCWorkflowExecution -----------------------
(* Instances of WorkflowExecution: the two worklist workflows of            *)
(* tests/e2e/templateCases.mjs and the template src/templates/autoresearch  *)
EXTENDS WorkflowExecution, TLC

CONSTANTS a, b, c

Edge(x, y, cond) == [from |-> x, to |-> y, when |-> cond]

(* hybrid-task-worklist: a lead plans a finite list, a reviewer judges.      *)
FiniteKind == "plan_tasks" :> "assign" @@ "implement_tasks" :> "worklist"
              @@ "review" :> "review" @@ "complete" :> "complete"
FiniteNodes == DOMAIN FiniteKind
FiniteStage == [n \in FiniteNodes |-> IF n = "plan_tasks" THEN "plan" ELSE "build"]
FiniteEdges == << Edge("plan_tasks", "implement_tasks", "success"),
                  Edge("implement_tasks", "review", "success"),
                  Edge("implement_tasks", "plan_tasks", "failure"),
                  Edge("review", "complete", "approved"),
                  Edge("review", "implement_tasks", "rejected") >>

(* autoresearch-worklist: the node asks its planner when the list is empty.  *)
QueueKind == "frame_hypothesis" :> "assign" @@ "experiment_loop" :> "worklist"
             @@ "complete" :> "complete"
QueueNodes == DOMAIN QueueKind
QueueStage == [n \in QueueNodes |-> "research"]
QueueEdges == << Edge("frame_hypothesis", "experiment_loop", "success"),
                 Edge("experiment_loop", "complete", "success"),
                 Edge("experiment_loop", "frame_hypothesis", "failure") >>

(* autoresearch: no role resolves for its evaluate, commit, revert and loop  *)
(* nodes.                                                                    *)
ResearchNodes == {"frame_hypothesis", "claim_evidence", "collect_evidence", "run_experiment",
                  "evaluate_results", "decide_outcome", "keep", "discard", "loop_next"}
ResearchKind ==
  [n \in ResearchNodes |->
     CASE n \in {"frame_hypothesis", "claim_evidence", "collect_evidence", "run_experiment"} -> "assign"
       [] n = "decide_outcome" -> "review"
       [] OTHER -> "bare"]
ResearchStage ==
  [n \in ResearchNodes |-> IF n \in {"decide_outcome", "keep", "discard", "loop_next"}
                           THEN "iteration" ELSE "research"]
ResearchEdges == << Edge("frame_hypothesis", "claim_evidence", "success"),
                    Edge("claim_evidence", "collect_evidence", "success"),
                    Edge("collect_evidence", "run_experiment", "success"),
                    Edge("run_experiment", "evaluate_results", "success"),
                    Edge("run_experiment", "discard", "failure"),
                    Edge("run_experiment", "discard", "timeout"),
                    Edge("evaluate_results", "keep", "improved"),
                    Edge("evaluate_results", "discard", "equal_or_worse"),
                    Edge("evaluate_results", "discard", "crash"),
                    Edge("keep", "loop_next", "success"),
                    Edge("discard", "loop_next", "success"),
                    Edge("loop_next", "frame_hypothesis", "retry") >>

(* b waits for a; c and a may fail once more than b.                         *)
Waits == a :> {} @@ b :> {a} @@ c :> {}
Free == a :> {} @@ b :> {} @@ c :> {}
Attempts == a :> 2 @@ b :> 1 @@ c :> 0
NoSuccess == {}
CompleteNode == {"complete"}
KeepNode == {"keep"}
DiscardNode == {"discard"}
PlanNode == {"plan_tasks"}
=============================================================================
