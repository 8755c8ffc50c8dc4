------------------------- MODULE MCDispatchRuntime -------------------------
(* Model-checking instance of DispatchRuntime. *)
EXTENDS DispatchRuntime, TLC

CONSTANTS r1, t1, t2

MCSymmetry == Permutations(TaskIds)

============================================================================
