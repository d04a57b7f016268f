--------------------------- MODULE MCRouterPrewarm ---------------------------
(***************************************************************************)
(* Model-checking RouterPrewarm: tasks and calls are interchangeable.      *)
(***************************************************************************)
EXTENDS RouterPrewarm, TLC

Symmetry == Permutations(Job) \union Permutations(Call)
=============================================================================
