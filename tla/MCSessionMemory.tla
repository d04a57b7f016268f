--------------------------- MODULE MCSessionMemory ---------------------------
(***************************************************************************)
(* Model-checking SessionMemory: sessions, exchanges and pool processes    *)
(* are interchangeable.                                                    *)
(***************************************************************************)
EXTENDS SessionMemory, TLC

Symmetry ==
  Permutations(Session) \union Permutations(Turn) \union Permutations(Runner)

\* Mishaps in the first 45 minutes only, and of two kinds at most (a bound).
Scope == mishap = {} \/ (now <= 3 /\ Cardinality(mishap) <= 2)
=============================================================================
