---------------------------- MODULE MCMemoryWrite ----------------------------
(***************************************************************************)
(* Model-checking MemoryWrite with three facts, one of which contradicts   *)
(* the two others.                                                         *)
(***************************************************************************)
EXTENDS MemoryWrite, TLC

CONSTANTS quiet, calm, loud

MCFact == {quiet, calm, loud}
MCContradicts == {<<loud, quiet>>, <<calm, loud>>}

Symmetry == Permutations(Memory) \union Permutations(Writer)
=============================================================================
