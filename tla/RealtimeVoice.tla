---------------------------- MODULE RealtimeVoice ----------------------------
(***************************************************************************)
(* The /voice/realtime endpoint (api/voice_realtime.py) on top of a        *)
(* RealtimeSession: pump_down handles the session's events one after the   *)
(* other, synthesis tasks turn the reply text into audio frames, and a     *)
(* barge-in cancels them and flushes what the browser still has to play.   *)
(* The mode with the model's own voice has no synthesis and is left out.   *)
(***************************************************************************)
EXTENDS RealtimeSession

CONSTANTS
  StreamMode   \* tts_stream_sentences

ASSUME VoiceConstants == StreamMode \in BOOLEAN

VARIABLES
  conn,      \* the endpoint: being set up, serving, on its way out, or over
  pump,      \* pump_down is running
  at,        \* where it stands in handling the event
  deltaQ,    \* delta_q: the synthesis fed with the reply's text, 0 if none
  synth,     \* every synthesis task so far
  awaited,   \* tasks the endpoint waits for before it ends
  lastUser   \* last_user_text: a turn, 0 if empty

voiceVars == <<conn, pump, at, deltaQ, synth, awaited, lastUser>>
allVars == <<vars, voiceVars>>

SynthState ==
  [pc : {"run", "cancelled", "over"},
   resp : Nat,               \* the response that started it
   queued : Nat,             \* text it has still to speak
   closed : BOOLEAN,         \* no more text follows
   started : BOOLEAN]        \* audio_start is sent

\* The browser's socket is accepted and pump_down not yet started.
Opening == {"accepted", "instructed", "connected"}

VoiceTypeOK ==
  /\ TypeOK
  /\ conn \in Opening \union {"open", "closing", "waiting", "over"} /\ pump \in BOOLEAN
  /\ at \in {"idle", "await", "flush"}
  /\ synth \in Seq(SynthState)
  /\ deltaQ \in 0..Len(synth) /\ awaited \subseteq DOMAIN synth
  /\ lastUser \in Nat

VoiceInit ==
  /\ Init
  /\ conn = "accepted" /\ pump = FALSE /\ at = "idle"
  /\ deltaQ = 0 /\ synth = <<>> /\ awaited = {}
  /\ lastUser = 0

-----------------------------------------------------------------------------
(* Setting up.                                                             *)

Step(from, to) ==
  /\ conn = from /\ conn' = to
  /\ UNCHANGED <<vars, at, deltaQ, synth, awaited, lastUser>>

\* Another voice mode, or no key: an error frame, and the socket is closed.
Refuse == Step("accepted", "over") /\ UNCHANGED pump

\* The prompt, with what is known of the listener or without if that fails.
Instruct == Step("accepted", "instructed") /\ UNCHANGED pump

\* __aenter__: the service is reached, or the endpoint ends with an error frame.
Connect ==
  (\E to \in {"connected", "closing"} : Step("instructed", to)) /\ UNCHANGED pump

\* session.update is sent, the browser told that it can speak, and pump_down
\* started, unless a socket is closed.
Configure ==
  \/ Step("connected", "open") /\ pump' = TRUE
  \/ Step("connected", "closing") /\ UNCHANGED pump

-----------------------------------------------------------------------------
(* pump_down.                                                              *)

Handling(kind) == pump /\ at = "idle" /\ event.kind = kind

Handled == Resumed /\ UNCHANGED <<serviceVars, down, up, active, batch>>

Started(r, whole) ==
  Append(synth, [pc |-> "run", resp |-> r, queued |-> 1, closed |-> whole,
                 started |-> FALSE])

\* Text goes to the synthesis of the reply, which its first piece starts.
HandleDelta ==
  /\ Handling("delta") /\ Handled
  /\ IF ~StreamMode THEN UNCHANGED <<deltaQ, synth>>
     ELSE IF deltaQ = 0
     THEN /\ synth' = Started(event.resp, FALSE)
          /\ deltaQ' = Len(synth) + 1
     ELSE /\ synth' = [synth EXCEPT ![deltaQ].queued = @ + 1]
          /\ UNCHANGED deltaQ
  /\ UNCHANGED <<conn, pump, at, awaited, lastUser>>

\* An exchange is persisted, with what the user said last.
Persisted == lastUser' = 0

\* Fault: the queue is dropped without the end mark.
HandleText_NoEnd ==
  /\ Handling("text") /\ Handled /\ Persisted
  /\ IF ~StreamMode
     THEN synth' = Started(event.resp, TRUE) /\ UNCHANGED deltaQ
     ELSE deltaQ' = 0 /\ UNCHANGED synth
  /\ UNCHANGED <<conn, pump, at, awaited>>

\* The reply is complete: its synthesis gets the end mark, or the whole of it, and
\* the exchange is persisted.
HandleText ==
  /\ Handling("text") /\ Handled /\ Persisted
  /\ IF ~StreamMode
     THEN synth' = Started(event.resp, TRUE) /\ UNCHANGED deltaQ
     ELSE /\ synth' = IF deltaQ = 0 THEN synth
                      ELSE [synth EXCEPT ![deltaQ].closed = TRUE]
          /\ deltaQ' = 0
  /\ UNCHANGED <<conn, pump, at, awaited>>

HandleTranscript ==
  /\ Handling("transcript") /\ Handled
  /\ lastUser' = event.resp
  /\ UNCHANGED <<conn, pump, at, deltaQ, synth, awaited>>

\* tool, response_done and error frames.
HandleOther ==
  /\ Handling("tool") \/ Handling("done") \/ Handling("error")
  /\ Handled
  /\ UNCHANGED voiceVars

\* cancel_synth.
Cancelled ==
  /\ deltaQ' = 0
  /\ synth' = [i \in DOMAIN synth |->
                 IF synth[i].pc = "run" THEN [synth[i] EXCEPT !.pc = "cancelled"]
                 ELSE synth[i]]

\* Fault: the tasks are cancelled and not waited for.
HandleSpeech_NoWait ==
  /\ Handling("speech")
  /\ Cancelled
  /\ at' = "flush"
  /\ UNCHANGED <<vars, conn, pump, awaited, lastUser>>

\* Barge-in: cancel every synthesis,
HandleSpeech ==
  /\ Handling("speech")
  /\ Cancelled
  /\ at' = "await"
  /\ UNCHANGED <<vars, conn, pump, awaited, lastUser>>

\* wait for the tasks to end,
Settle ==
  /\ pump /\ at = "await"
  /\ \A i \in DOMAIN synth : synth[i].pc = "over"
  /\ at' = "flush"
  /\ UNCHANGED <<vars, conn, pump, deltaQ, synth, awaited, lastUser>>

\* then flush.
Flush ==
  /\ pump /\ at = "flush"
  /\ at' = "idle"
  /\ Handled
  /\ UNCHANGED <<conn, pump, deltaQ, synth, awaited, lastUser>>

-----------------------------------------------------------------------------
(* Synthesis tasks.                                                        *)

SynthStep(i, after) ==
  /\ synth' = [synth EXCEPT ![i] = after]
  /\ UNCHANGED <<vars, conn, pump, at, deltaQ, awaited, lastUser>>

\* A sentence is synthesised and its audio sent, or the TTS fails and it is lost.
Utter(i) ==
  /\ synth[i].pc = "run" /\ synth[i].queued > 0
  /\ \E ok \in {TRUE, synth[i].started} :
       SynthStep(i, [synth[i] EXCEPT !.queued = @ - 1, !.started = ok])

\* audio_end.
Conclude(i) ==
  /\ synth[i].pc = "run" /\ synth[i].queued = 0 /\ synth[i].closed
  /\ SynthStep(i, [synth[i] EXCEPT !.pc = "over"])

\* CancelledError reaches the task.
Unwind(i) ==
  /\ synth[i].pc = "cancelled"
  /\ SynthStep(i, [synth[i] EXCEPT !.pc = "over"])

-----------------------------------------------------------------------------
(* The end of the endpoint.                                                *)

\* The browser has disconnected, or stopped five seconds ago: pump_down is
\* cancelled.
Leave ==
  /\ conn = "open"
  /\ conn' = "closing" /\ pump' = FALSE
  /\ UNCHANGED <<vars, at, deltaQ, synth, awaited, lastUser>>

\* The service has closed its socket and send_audio raises: pump_down goes on.
Break ==
  /\ conn = "open"
  /\ conn' = "closing"
  /\ UNCHANGED <<vars, pump, at, deltaQ, synth, awaited, lastUser>>

\* Fault: the endpoint does not cancel what it leaves.
Exit_Leaves ==
  /\ conn = "closing"
  /\ conn' = "over"
  /\ UNCHANGED <<vars, pump, at, deltaQ, synth, awaited, lastUser>>

\* The session is left, which cancels the tools, and finally every synthesis.
Exit ==
  /\ conn = "closing"
  /\ conn' = "waiting"
  /\ tool' = [k \in Call |-> IF tool[k] \in {"running", "sent"} THEN "over" ELSE tool[k]]
  /\ Cancelled
  /\ awaited' = DOMAIN synth
  /\ UNCHANGED <<serviceVars, down, up, active, event, batch, pump, at, lastUser>>

\* The last task has ended.
Over ==
  /\ conn = "waiting" /\ \A i \in awaited : synth[i].pc = "over"
  /\ conn' = "over"
  /\ UNCHANGED <<vars, pump, at, deltaQ, synth, awaited, lastUser>>

Pump ==
  \/ /\ pump /\ conn # "over"
     /\ Reader
     /\ UNCHANGED voiceVars
  \/ HandleDelta \/ HandleText \/ HandleTranscript \/ HandleOther
  \/ HandleSpeech \/ Settle \/ Flush

Synth(i) == Utter(i) \/ Conclude(i) \/ Unwind(i)

Running(k) == conn = "open" /\ ToolTask(k) /\ UNCHANGED voiceVars

VoiceNext ==
  \/ conn = "open" /\ Service /\ UNCHANGED voiceVars
  \/ \E k \in Call : Running(k)
  \/ Pump
  \/ \E i \in DOMAIN synth : Synth(i)
  \/ Refuse \/ Instruct \/ Connect \/ Configure
  \/ Leave \/ Break \/ Exit \/ Over

VoiceSpec == VoiceInit /\ [][VoiceNext]_allVars

MaxSynth == MaxResponse * MaxDelta

\* Tasks run, the TTS service answers, and the model ends its responses.
VoiceFairSpec ==
  /\ VoiceSpec
  /\ WF_allVars(Pump)
  /\ \A i \in 1..MaxSynth : WF_allVars(i \in DOMAIN synth /\ Synth(i))
  /\ WF_allVars(conn = "open" /\ Finish /\ UNCHANGED voiceVars)
  /\ WF_allVars(Exit) /\ WF_allVars(Over)

-----------------------------------------------------------------------------
(* Properties.                                                             *)

\* When a flush is sent every synthesis that was started is over, so no frame of one
\* that is being cancelled follows it.  (Text of the interrupted response that is read
\* later starts another synthesis, whose audio does follow.)
FlushAlone == at = "flush" => \A i \in DOMAIN synth : synth[i].pc = "over"

\* The service closed its socket first: pump_down outlives the endpoint's wait.
Broken == pump /\ conn # "open"

\* What has begun to play comes to an end, by audio_end or by a flush or because
\* the call is over.
AudioEnds ==
  \A i \in 1..MaxSynth :
    (i \in DOMAIN synth /\ synth[i].started)
      ~> (Broken \/ (i \in DOMAIN synth /\ synth[i].pc = "over"))

\* The endpoint leaves no synthesis behind.
NoOrphan ==
  conn = "over" /\ ~Broken => \A i \in DOMAIN synth : synth[i].pc = "over"
=============================================================================
