--------------------------- MODULE MCRealtimeVoice ---------------------------
(***************************************************************************)
(* Model-checking RealtimeVoice.                                           *)
(***************************************************************************)
EXTENDS RealtimeVoice, TLC

Symmetry == Permutations(Call)
=============================================================================
