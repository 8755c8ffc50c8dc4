-------------------------- MODULE MCCodexWorkspace --------------------------
(***************************************************************************)
(* Model-checking instance of CodexWorkspace.  Its workflow is the end of  *)
(* the autoresearch template in small: an attempt that is evaluated, tried *)
(* again unless it is an improvement, and kept, which ends the workflow    *)
(* although the node has an edge to a further one.                         *)
(***************************************************************************)
EXTENDS CodexWorkspace, TLC

CONSTANTS r1, r2, attempt, keep, loop_next

MCEdges ==
  << [from |-> keep, when |-> "always", to |-> loop_next],
     [from |-> attempt, when |-> "improved", to |-> keep],
     [from |-> attempt, when |-> "always", to |-> attempt] >>

MCNodeRole == (attempt :> r1) @@ (keep :> r2) @@ (loop_next :> r1)

MCVerdicts ==
  (attempt :> {"improved", "equal_or_worse"}) @@ (keep :> {"success"}) @@ (loop_next :> {"success"})

\* A task that names a workflow node, for a role that is not the node's
MCCallerRequests == {[role |-> r2, node |-> attempt]}

MCSymmetry == Permutations(TaskIds)

============================================================================
