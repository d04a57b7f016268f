----------------------------- MODULE MCMoodWatch -----------------------------
(***************************************************************************)
(* Model-checking MoodWatch: objects, drafts, tasks and turns are          *)
(* interchangeable.  The nearest pattern stands for the three nearest, and *)
(* one row makes a bucket busy.  A behaviour is followed until two kinds   *)
(* of mishap have come together (a bound).                                 *)
(***************************************************************************)
EXTENDS MoodWatch, TLC

Symmetry ==
  Permutations(Pattern) \union Permutations(Draft) \union Permutations(Task)
    \union Permutations(Turn)

OneMishap == Cardinality(mishap) <= 1
=============================================================================
