----------------------------- MODULE VoiceClient -----------------------------
(***************************************************************************)
(* The browser's voice session (lib/useVoiceSession.ts) with its two       *)
(* players (lib/audio.ts), the recogniser's socket (lib/sttStream.ts) and  *)
(* the microphone capture (lib/pcm.ts), in the pipeline mode: the user     *)
(* speaks or types, /chat streams the reply, Gia's voice plays, listening  *)
(* resumes.  JavaScript is single threaded: an action is what runs between *)
(* two awaits or one event's callback.                                     *)
(*                                                                         *)
(* Left out: eager transcripts (RouterPrewarm has their other end), push   *)
(* to talk and speak(), which no screen calls, and the realtime mode.      *)
(***************************************************************************)
EXTENDS Naturals, FiniteSets

CONSTANTS
  MaxStart,    \* calls of start() (a bound)
  MaxTurn,     \* chat turns (a bound)
  MaxDone,     \* taps, typed and spoken turns (a bound)
  MaxPending   \* chunks that wait for the source buffer (a bound)

ASSUME ClientConstants == {MaxStart, MaxTurn, MaxDone, MaxPending} \subseteq Nat

Start == 1..MaxStart
Turn == 1..MaxTurn

VARIABLES
  phase,        \* phaseRef
  active,       \* activeRef
  streaming,    \* streamingRef: a /chat stream is in flight
  run,          \* the calls of start(), each with what it opened
  mic,          \* streamRef: the call whose microphone stop() will release, or 0
  line,         \* fluxRef and pcmRef: the call whose socket and capture are current, or 0
  streamUp,     \* streamActiveRef
  capturing,    \* capturingRef
  rec,          \* the recorder in recorderRef runs; recorders no reference is left to;
                \* recorders that have stopped and not reported
  transcribing, \* transcriptions under way
  typing,       \* typed turns that wait for the audio context
  turn,         \* the chat turns, by what has arrived of them
  queue,        \* AudioPlayer: files that wait
  playing,      \* AudioPlayer: one is playing
  sp,           \* StreamPlayer
  done,         \* what the user has done: taps, typed and spoken turns (a bound)
  odd           \* what has happened that the properties make a condition

session == <<phase, active, streaming>>
opened == <<run, mic, line, streamUp>>
batch == <<rec, transcribing>>
players == <<queue, playing, sp>>
vars == <<session, opened, capturing, batch, typing, turn, players, done, odd>>

Arriving == {"open", "acked", "audio", "ended"}

Call ==
  [pc : {"none", "asking", "greeting", "done"},
   mic : BOOLEAN,     \* its microphone is open
   sock : {"none", "opening", "ready", "aborted", "closing", "closed"},
   cap : {"none", "starting", "on", "off"},
   heard : BOOLEAN]   \* audio was sent that no final answers yet

Stream ==
  [active : BOOLEAN,
   ended : BOOLEAN,                            \* the server has sent audio_end
   ms : {"none", "opening", "open", "ended"},  \* mediaSource
   sb : {"none", "idle", "busy"},              \* sourceBuffer
   pending : 0..MaxPending,
   sounds : BOOLEAN]                           \* the element has audio to play

TypeOK ==
  /\ phase \in {"idle", "listening", "thinking", "speaking", "error"}
  /\ active \in BOOLEAN /\ streaming \in BOOLEAN
  /\ run \in [Start -> Call]
  /\ mic \in {0} \cup Start /\ line \in {0} \cup Start
  /\ streamUp \in BOOLEAN /\ capturing \in BOOLEAN
  /\ rec \in {"none", "on", "ending"}
  /\ transcribing \in Nat /\ typing \in Nat
  /\ turn \in [Turn -> {"none", "over"} \cup Arriving]
  /\ queue \in Nat /\ playing \in BOOLEAN /\ (queue > 0 => playing)
  /\ sp \in Stream
  /\ done \in 0..MaxDone
  /\ odd \subseteq {"line", "turn", "cut", "refused"}

\* No media source: what is pushed or marked until the next begin() has no effect.
NoStream ==
  [active |-> FALSE, ended |-> FALSE, ms |-> "none", sb |-> "none", pending |-> 0,
   sounds |-> FALSE]

Init ==
  /\ phase = "idle" /\ active = FALSE /\ streaming = FALSE
  /\ run = [i \in Start |-> [pc |-> "none", mic |-> FALSE, sock |-> "none",
                              cap |-> "none", heard |-> FALSE]]
  /\ mic = 0 /\ line = 0 /\ streamUp = FALSE /\ capturing = FALSE
  /\ rec = "none"
  /\ transcribing = 0 /\ typing = 0
  /\ turn = [c \in Turn |-> "none"]
  /\ queue = 0 /\ playing = FALSE
  /\ sp = NoStream
  /\ done = 0 /\ odd = {}

UserActs == done < MaxDone /\ done' = done + 1

-----------------------------------------------------------------------------
(* Resuming.                                                               *)

\* resumeListening, given whether a session is active.
Resume(on) ==
  IF on THEN phase' = "listening" /\ capturing' = FALSE
  ELSE UNCHANGED <<phase, capturing>>

\* Fault: the callback is not wired.
Drained_Never ==
  UNCHANGED <<phase, capturing>>

\* onDrained of either player.
Drained ==
  IF streaming THEN UNCHANGED <<phase, capturing>> ELSE Resume(active)

-----------------------------------------------------------------------------
(* AudioPlayer.                                                            *)

\* Fault: the file is queued, and nothing starts it.
Enqueue_Only ==
  /\ queue' = queue + 1
  /\ UNCHANGED playing

\* enqueueBuffer.
Enqueue ==
  /\ playing' = TRUE
  /\ queue' = IF playing THEN queue + 1 ELSE queue

\* A file is over, or cannot be decoded: the next one, or drained.
Played ==
  /\ playing
  /\ IF queue > 0
     THEN queue' = queue - 1 /\ UNCHANGED <<playing, phase, capturing>>
     ELSE playing' = FALSE /\ Drained /\ UNCHANGED queue
  /\ UNCHANGED <<active, streaming, opened, batch, typing, turn, sp, done, odd>>

-----------------------------------------------------------------------------
(* StreamPlayer.                                                           *)

Begun ==
  [active |-> TRUE, ended |-> FALSE, ms |-> "opening", sb |-> "none", pending |-> 0,
   sounds |-> FALSE]

\* flush: append the next chunk, which the element plays, or end the stream.
Flushed(p) ==
  IF p.sb # "idle" THEN p
  ELSE IF p.pending > 0
  THEN [p EXCEPT !.pending = @ - 1, !.sb = "busy", !.ms = "open", !.sounds = TRUE]
  ELSE IF p.ended THEN [p EXCEPT !.ms = "ended"] ELSE p

\* pushBase64 and end.
Pushed(p) == IF p.ms = "none" THEN p ELSE Flushed([p EXCEPT !.pending = @ + 1])
Ended(p) == IF p.ms = "none" THEN p ELSE Flushed([p EXCEPT !.ended = TRUE])

PlayerStep ==
  UNCHANGED <<active, streaming, opened, batch, typing, turn, queue, playing, done>>

SourceOpen ==
  /\ sp.ms = "opening"
  /\ sp' = Flushed([sp EXCEPT !.ms = "open", !.sb = "idle"])
  /\ UNCHANGED <<phase, capturing, odd>> /\ PlayerStep

UpdateEnd ==
  /\ sp.sb = "busy"
  /\ sp' = Flushed([sp EXCEPT !.sb = "idle"])
  /\ UNCHANGED <<phase, capturing, odd>> /\ PlayerStep

\* The element has played what it was given: it waits for more, or is over.
RunsDry ==
  /\ sp.sounds
  /\ sp' = [sp EXCEPT !.sounds = FALSE]
  /\ UNCHANGED <<phase, capturing, odd>> /\ PlayerStep

\* finish: the element has played everything,
Finish ==
  /\ sp.active /\ sp.ms = "ended" /\ sp.sb = "idle"
  /\ sp' = [sp EXCEPT !.active = FALSE, !.sounds = FALSE]
  /\ Drained /\ UNCHANGED odd /\ PlayerStep

\* or addSourceBuffer or appendBuffer throws, and a chunk is lost: finish leaves the
\* element alone, which plays on with what it has.
Refused ==
  /\ \/ /\ sp.ms = "opening" /\ sp' = [sp EXCEPT !.active = FALSE, !.ms = "open"]
        /\ UNCHANGED odd
     \/ /\ sp.sb = "busy" /\ sp.pending > 0
        /\ sp' = [sp EXCEPT !.active = FALSE, !.sb = "idle", !.pending = @ - 1]
        /\ odd' = odd \cup {"refused"}
  /\ IF sp.active THEN Drained ELSE UNCHANGED <<phase, capturing>>
  /\ PlayerStep

-----------------------------------------------------------------------------
(* A chat turn.                                                            *)

\* Something else than this turn sounds or is awaited.
Busy ==
  \/ streaming \/ playing \/ sp.active \/ transcribing' > 0
  \/ rec # "none"
  \/ \E i \in Start : run[i].pc = "greeting"

\* runChat up to the request.
RunChat(c) ==
  /\ turn[c] = "none" /\ \A d \in Turn : d < c => turn[d] # "none"
  /\ turn' = [turn EXCEPT ![c] = "open"]
  /\ phase' = "thinking" /\ streaming' = TRUE
  /\ odd' = odd \cup IF Busy THEN {"turn"} ELSE {}

InTurn(c) ==
  /\ turn[c] \in Arriving
  /\ UNCHANGED <<active, streaming, opened, batch, typing>>

ReplyChunk(c) ==
  /\ InTurn(c) /\ turn[c] \in {"open", "acked"}
  /\ phase' = "speaking"
  /\ UNCHANGED <<capturing, turn, players, done, odd>>

\* The acknowledgment: a whole file, before the reply's audio.
Acknowledgment(c) ==
  /\ InTurn(c) /\ turn[c] = "open"
  /\ turn' = [turn EXCEPT ![c] = "acked"]
  /\ phase' = "speaking" /\ Enqueue
  /\ UNCHANGED <<capturing, sp, done, odd>>

AudioStart(c) ==
  /\ InTurn(c) /\ turn[c] \in {"open", "acked"}
  /\ turn' = [turn EXCEPT ![c] = "audio"]
  /\ phase' = "speaking" /\ sp' = Begun
  /\ odd' = odd \cup IF playing THEN {"turn"} ELSE {}
  /\ UNCHANGED <<capturing, queue, playing, done>>

\* pushBase64; the source buffer may refuse the chunk at once.
AudioChunk(c) ==
  /\ InTurn(c) /\ turn[c] = "audio" /\ sp.pending < MaxPending
  /\ phase' = "speaking"
  /\ \/ sp' = Pushed(sp) /\ UNCHANGED <<capturing, odd>>
     \/ /\ sp.sb = "idle"
        /\ sp' = [sp EXCEPT !.active = FALSE]
        /\ capturing' = (capturing /\ ~(sp.active /\ ~streaming /\ active))
        /\ odd' = odd \cup {"refused"}
  /\ UNCHANGED <<turn, queue, playing, done>>

AudioEnd(c) ==
  /\ InTurn(c) /\ turn[c] = "audio"
  /\ turn' = [turn EXCEPT ![c] = "ended"]
  /\ sp' = Ended(sp)
  /\ UNCHANGED <<phase, capturing, queue, playing, done, odd>>

\* Fault: the players are not asked whether they still sound.
ChatEnds_AtOnce(c) ==
  /\ turn[c] \in Arriving
  /\ turn' = [turn EXCEPT ![c] = "over"]
  /\ streaming' = FALSE
  /\ Resume(active)
  /\ odd' = odd \cup IF turn[c] = "audio" THEN {"cut"} ELSE {}
  /\ UNCHANGED <<active, opened, batch, typing, players, done>>

\* The stream is over or breaks: runChat's finally.
ChatEnds(c) ==
  /\ turn[c] \in Arriving
  /\ turn' = [turn EXCEPT ![c] = "over"]
  /\ streaming' = FALSE
  /\ IF playing \/ sp.active THEN UNCHANGED <<phase, capturing>> ELSE Resume(active)
  /\ odd' = odd \cup IF turn[c] = "audio" THEN {"cut"} ELSE {}
  /\ UNCHANGED <<active, opened, batch, typing, players, done>>

\* sendText, and what it does when the audio context runs.
SendText ==
  /\ UserActs
  /\ ~streaming /\ typing = 0   \* (a bound)
  /\ typing' = typing + 1
  /\ UNCHANGED <<session, opened, capturing, batch, turn, players, odd>>

Typed(c) ==
  /\ typing > 0 /\ typing' = typing - 1
  /\ UNCHANGED <<active, opened, capturing, batch, players, done>>
  /\ RunChat(c)

-----------------------------------------------------------------------------
(* The recogniser's socket and the capture that feeds it.                  *)

\* Fault: the socket is closed and the capture goes on.
Shut_Socket(r, i) ==
  IF i = 0 THEN r
  ELSE [r EXCEPT ![i].sock = CASE @ = "opening" -> "aborted"
                               [] @ = "ready" -> "closing"
                               [] OTHER -> @,
                 ![i].heard = FALSE]

\* FluxStream.close and PcmCapture.stop on the current line, if there is one; a
\* capture that is still starting is not reached.
Shut(r, i) ==
  IF i = 0 THEN r
  ELSE [r EXCEPT ![i].sock = CASE @ = "opening" -> "aborted"
                               [] @ = "ready" -> "closing"
                               [] OTHER -> @,
                 ![i].cap = IF @ = "on" THEN "off" ELSE @,
                 ![i].heard = FALSE]

Missed(r) == IF line # 0 /\ r[line].cap = "starting" THEN {"line"} ELSE {}

\* teardown, wherever it is called from: it shuts the line that is current now.
Teardown(r) ==
  /\ run' = Shut(r, line) /\ line' = 0 /\ streamUp' = FALSE
  /\ odd' = odd \cup Missed(r)
  /\ UNCHANGED <<session, mic, capturing, batch, typing, turn, players, done>>

LineStep == UNCHANGED <<session, capturing, batch, typing, turn, players, done, odd>>

Ready(i) ==
  /\ run[i].sock = "opening"
  /\ run' = [run EXCEPT ![i].sock = "ready"]
  /\ streamUp' = TRUE
  /\ UNCHANGED <<mic, line>> /\ LineStep

\* An error frame, or a connection that fails, or was closed while it opened:
\* error, then close.
SocketError(i) ==
  /\ run[i].sock \in {"opening", "ready", "aborted"}
  /\ IF run[i].sock = "ready" THEN Teardown(run)
     ELSE Teardown([run EXCEPT ![i].sock = "closed"])

\* onclose.
SocketCloses(i) ==
  /\ run[i].sock \in {"ready", "closing"}
  /\ run' = [run EXCEPT ![i].sock = "closed", ![i].heard = FALSE]
  /\ streamUp' = FALSE
  /\ UNCHANGED <<mic, line>> /\ LineStep

\* PcmCapture.start comes to its end,
CaptureOn(i) ==
  /\ run[i].cap = "starting"
  /\ run' = [run EXCEPT ![i].cap = "on"]
  /\ UNCHANGED <<mic, line, streamUp>> /\ LineStep

\* or fails.
CaptureFails(i) ==
  /\ run[i].cap = "starting"
  /\ Teardown([run EXCEPT ![i].cap = "off"])

\* onFrame of the i-th capture lets a frame through.
Feeds(i) ==
  /\ run[i].cap = "on"
  /\ streamUp /\ phase = "listening" /\ ~streaming
  /\ line # 0 /\ run[line].sock = "ready"

Frame(i) ==
  /\ Feeds(i)
  /\ run' = [run EXCEPT ![line].heard = TRUE]
  /\ UNCHANGED <<mic, line, streamUp>> /\ LineStep

\* handleStreamFinal; short finals are noise and left out.
Final(i, c) ==
  /\ run[i].sock = "ready" /\ run[i].heard
  /\ run' = [run EXCEPT ![i].heard = FALSE]
  /\ UNCHANGED <<active, mic, line, streamUp, capturing, batch, typing, players, done>>
  /\ IF active /\ ~streaming THEN RunChat(c)
     ELSE UNCHANGED <<turn, phase, streaming, odd>>

-----------------------------------------------------------------------------
(* The recorder, when the recogniser's socket is not up.                   *)

BatchStep == UNCHANGED <<active, streaming, opened, typing, players, turn, odd>>

\* startRecorder.  A recorder that still runs is forgotten: it stops with its tracks,
\* when the session is over.
Speech ==
  /\ UserActs
  /\ active /\ phase = "listening" /\ ~streamUp /\ ~capturing /\ mic # 0
  /\ rec # "ending"   \* (a bound)
  /\ rec' = "on" /\ capturing' = TRUE
  /\ BatchStep /\ UNCHANGED <<phase, transcribing>>

\* The user has been silent for a second.
Silence ==
  /\ active /\ phase = "listening" /\ ~streamUp /\ capturing
  /\ rec = "on" /\ rec' = "ending"
  /\ BatchStep /\ UNCHANGED <<phase, capturing, transcribing, done>>

\* onstop and finalizeTurn up to the transcription.
Finalize ==
  /\ rec = "ending" /\ rec' = "none"
  /\ capturing' = FALSE
  /\ \/ phase' = (IF active THEN "listening" ELSE phase) /\ UNCHANGED transcribing
     \/ active /\ phase' = "thinking" /\ transcribing' = transcribing + 1
  /\ BatchStep /\ UNCHANGED done

\* The transcription is empty (or has failed),
Nothing ==
  /\ transcribing > 0 /\ transcribing' = transcribing - 1
  /\ Resume(active)
  /\ BatchStep /\ UNCHANGED <<rec, done>>

\* or is a turn.
Transcribed(c) ==
  /\ transcribing > 0 /\ transcribing' = transcribing - 1
  /\ UNCHANGED <<active, opened, capturing, rec, typing, players, done>>
  /\ RunChat(c)

-----------------------------------------------------------------------------
(* Starting and stopping.                                                  *)

\* start(), which returns at once if a session is up.  The screen calls it for a tap
\* while the phase is idle; for the first one only when it has the opening line.
Tap(i) ==
  /\ UserActs
  /\ ~active /\ (phase = "idle" \/ i = 1)
  /\ run[i].pc = "none" /\ \A j \in Start : j < i => run[j].pc # "none"
  /\ run' = [run EXCEPT ![i].pc = "asking"]
  /\ odd' = odd \cup IF \E j \in Start : run[j].pc = "asking" THEN {"line"} ELSE {}
  /\ UNCHANGED <<session, mic, line, streamUp, capturing, batch, typing, turn, players>>

StartStep == UNCHANGED <<streaming, batch, typing, turn, sp, done>>

\* The microphone is granted: the session is up, setupStreaming opens a line, and the
\* first session asks for the greeting.
Opened(i) ==
  /\ run[i].pc = "asking"
  /\ active' = TRUE /\ mic' = i /\ line' = i
  /\ \E greeting \in {"done", "greeting"} :
       /\ greeting = "greeting" => i = 1
       /\ run' = [run EXCEPT ![i].pc = greeting, ![i].mic = TRUE,
                              ![i].sock = "opening", ![i].cap = "starting"]
       /\ IF greeting = "done" THEN Resume(TRUE) ELSE UNCHANGED <<phase, capturing>>
  /\ StartStep
  /\ odd' = odd \cup IF Busy THEN {"turn"} ELSE {}
  /\ UNCHANGED <<streamUp, queue, playing>>

Denied(i) ==
  /\ run[i].pc = "asking"
  /\ run' = [run EXCEPT ![i].pc = "done"]
  /\ phase' = "error"
  /\ StartStep /\ UNCHANGED <<active, mic, line, streamUp, capturing, queue, playing, odd>>

\* speakApi answers, with audio or without.
Greeted(i) ==
  /\ run[i].pc = "greeting"
  /\ run' = [run EXCEPT ![i].pc = "done"]
  /\ \/ phase' = "speaking" /\ Enqueue /\ UNCHANGED capturing
     \/ Resume(active) /\ UNCHANGED <<queue, playing>>
  /\ StartStep /\ UNCHANGED <<active, mic, line, streamUp, odd>>

\* What is under way and survives a stop.
Pending ==
  \/ \E i \in Start : run[i].pc \in {"asking", "greeting"} \/ run[i].cap = "starting"
  \/ \E c \in Turn : turn[c] \in Arriving
  \/ transcribing > 0 \/ rec # "none" \/ typing > 0 \/ playing

\* Fault: the microphone's tracks are left running.
Stop_KeepTracks ==
  /\ active' = FALSE /\ phase' = "idle" /\ streamUp' = FALSE /\ capturing' = FALSE
  /\ sp' = NoStream
  /\ rec' = IF rec = "on" THEN "ending" ELSE rec
  /\ run' = Shut(run, line)
  /\ mic' = 0 /\ line' = 0
  /\ odd' = odd \cup Missed(run) \cup IF Pending THEN {"turn"} ELSE {}
  /\ UNCHANGED <<streaming, transcribing, typing, turn, queue, playing, done>>

\* stop(): the chat stream, the AudioPlayer and what is awaited are left alone.
Stop ==
  /\ active' = FALSE /\ phase' = "idle" /\ streamUp' = FALSE /\ capturing' = FALSE
  /\ sp' = NoStream
  /\ rec' = IF rec = "on" THEN "ending" ELSE rec
  /\ run' = LET r == Shut(run, line) IN IF mic = 0 THEN r ELSE [r EXCEPT ![mic].mic = FALSE]
  /\ mic' = 0 /\ line' = 0
  /\ odd' = odd \cup Missed(run) \cup IF Pending THEN {"turn"} ELSE {}
  /\ UNCHANGED <<streaming, transcribing, typing, turn, queue, playing, done>>

\* The user taps again,
TapStop == phase # "idle" /\ Stop

\* or says nothing for ten seconds.
AutoClose ==
  /\ active /\ phase = "listening" /\ ~streaming /\ (streamUp \/ ~capturing)
  /\ Stop

Next ==
  \/ Played \/ SourceOpen \/ UpdateEnd \/ RunsDry \/ Finish \/ Refused
  \/ \E c \in Turn : ReplyChunk(c) \/ Acknowledgment(c) \/ AudioStart(c) \/ AudioChunk(c)
                     \/ AudioEnd(c) \/ ChatEnds(c) \/ Typed(c) \/ Transcribed(c)
                     \/ \E i \in Start : Final(i, c)
  \/ \E i \in Start : Ready(i) \/ SocketError(i) \/ SocketCloses(i) \/ CaptureOn(i)
                      \/ CaptureFails(i) \/ Frame(i) \/ Tap(i) \/ Opened(i) \/ Denied(i)
                      \/ Greeted(i)
  \/ SendText \/ Speech \/ Silence \/ Finalize \/ Nothing \/ TapStop \/ AutoClose

Spec == Init /\ [][Next]_vars

-----------------------------------------------------------------------------
(* Properties.                                                             *)

\* What is heard: a file that plays, or a stream's element, whatever the code's flag says.
Sounding == playing \/ sp.sounds

\* No frame goes to the recogniser while Gia is heard ("never feed Gia's own TTS back to
\* the recogniser", useVoiceSession.ts:470), as long as one thing happens at a time and the
\* source buffer takes every chunk: every path back to listening waits for both players'
\* flags, except that each player's onDrained looks at its own queue only, and a refused
\* chunk clears the flag of an element that plays on.
NotHerself ==
  odd \cap {"line", "turn", "refused"} = {} => \A i \in Start : Feeds(i) => ~Sounding

\* The recogniser hears the microphone once: of all the captures that were ever started
\* one at most lets frames through, as long as starts do not overlap and no capture is
\* shut while it is still loading its worklet (pcm.ts has no way to stop it then).
OneFeed ==
  "line" \notin odd => \A i, j \in Start : Feeds(i) /\ Feeds(j) => i = j

\* No microphone is left behind: one that is open belongs to a session that is up, and is
\* the one its stop() will release, wherever stops and broken lines come, as long as
\* starts do not overlap.  A microphone granted after a stop opens a session all the same.
MicReleased ==
  "line" \notin odd => \A i \in Start : run[i].mic => active /\ i = mic

\* What brings the session back to listening: the end of a turn, of a file, of a
\* transcription or greeting, or of a reply that is complete.
Underway ==
  \/ \E c \in Turn : turn[c] \in Arriving
  \/ playing \/ transcribing > 0 \/ (sp.active /\ sp.ended)
  \/ \E i \in Start : run[i].pc = "greeting"

\* A session never goes deaf: while it is not listening, something is under way whose
\* end resumes it, whatever overlaps, unless the server's stream broke off between
\* audio_start and audio_end: then the player waits for ever.
WillResume ==
  active /\ phase \in {"thinking", "speaking"} /\ "cut" \notin odd => Underway

=============================================================================
