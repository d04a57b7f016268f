---------------------------- MODULE MCVoiceStream ----------------------------
(***************************************************************************)
(* Model-checking VoiceStream.                                             *)
(***************************************************************************)
EXTENDS VoiceStream
=============================================================================
