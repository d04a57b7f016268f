---------------------------- MODULE MCVoiceClient ----------------------------
(* Two sessions and two turns: what a stop leaves behind meets the next    *)
(* session, and one turn's events meet the next turn.                      *)
EXTENDS VoiceClient
=============================================================================
