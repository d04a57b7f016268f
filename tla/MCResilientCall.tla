--------------------------- MODULE MCResilientCall ---------------------------
(***************************************************************************)
(* Model-checking ResilientCall with the timing of its slower user, the    *)
(* Brave client, in ticks of 3 s: attempts of 12 s, one retry after 0.5 s  *)
(* (a tick), 30 s of cooldown.  Two failed calls stand for five.           *)
(***************************************************************************)
EXTENDS ResilientCall, TLC

MCBackoff == [a \in 0..1 |-> 1]
MCRest == (0 :> 5) @@ (1 :> 0)

Symmetry == Permutations(Caller)
=============================================================================
