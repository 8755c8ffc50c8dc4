----------------------- MODULE MCClaudeAgentWorkspace -----------------------
(***************************************************************************)
(* Model-checking instance of ClaudeAgentWorkspace.                        *)
(***************************************************************************)
EXTENDS ClaudeAgentWorkspace, TLC

MCSymmetry == Permutations(DispatchIds)

=============================================================================
