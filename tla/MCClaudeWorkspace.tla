-------------------------- MODULE MCClaudeWorkspace --------------------------
(***************************************************************************)
(* Model-checking instance of ClaudeWorkspace, small enough for liveness,  *)
(* with the workflow of MCCodexWorkspace: an attempt that is tried again   *)
(* unless it is an improvement, and kept, which ends the workflow.         *)
(***************************************************************************)
EXTENDS ClaudeWorkspace, TLC

CONSTANTS r1, r2, attempt, keep, loop_next

MCEdges ==
  << [from |-> keep, when |-> "always", to |-> loop_next],
     [from |-> attempt, when |-> "improved", to |-> keep],
     [from |-> attempt, when |-> "always", to |-> attempt] >>

MCNodeRole == (attempt :> r1) @@ (keep :> r2) @@ (loop_next :> r1)

MCVerdicts ==
  (attempt :> {"improved", "equal_or_worse"}) @@ (keep :> {"success"}) @@ (loop_next :> {"success"})

============================================================================
