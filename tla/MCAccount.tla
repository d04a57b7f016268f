------------------------------- MODULE MCAccount -------------------------------
(***************************************************************************)
(* Model-checking Account with two Spotify accounts, one that gives its    *)
(* e-mail address and one that does not.                                   *)
(***************************************************************************)
EXTENDS Account, TLC

CONSTANTS a1, a2, m1

MCAddress == (a1 :> m1) @@ (a2 :> NoMail)

Symmetry == Permutations(User) \union Permutations(Login) \union Permutations(Callback)
=============================================================================
