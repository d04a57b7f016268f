----------------------------- MODULE MCMcpBridge -----------------------------
(***************************************************************************)
(* Model-checking McpBridge.                                               *)
(***************************************************************************)
EXTENDS McpBridge, TLC

Symmetry == Permutations(Tool)
=============================================================================
