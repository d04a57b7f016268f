----------------------------- MODULE VoiceStream -----------------------------
(***************************************************************************)
(* One /voice/stream socket (api/voice_stream.py): the browser's audio     *)
(* goes up to a speech-recognition provider through an adapter             *)
(* (providers/stt_stream.py), and the provider's transcript events come    *)
(* down as frames.  pump_up runs in the endpoint itself, pump_down in a    *)
(* task beside it.  The browser and the provider are external: either may  *)
(* close its socket at any time.                                           *)
(*                                                                         *)
(* A text is the set of the turns whose words are in it.                   *)
(***************************************************************************)
EXTENDS Naturals, Sequences, SequencesExt

CONSTANTS
  Adapter,   \* what get_streaming_transcriber may build: "none" for a batch provider
  MaxTurn,   \* turns the user speaks (a bound)
  MaxEvent,  \* events of the provider (a bound)
  MaxInbox   \* browser messages not yet received (a bound)

ASSUME StreamConstants ==
  /\ Adapter \subseteq {"none", "flux", "openai"}
  /\ {MaxTurn, MaxEvent, MaxInbox} \subseteq Nat

VARIABLES
  \* The browser.
  browser,  \* its socket: open, stopped (it has sent stop) or gone
  inbox,    \* what it has sent
  \* The provider.
  turn,     \* turn[t]: whether its words are being recognised
  guess,    \* an EagerEndOfTurn stands
  pipe,     \* events on their way
  up,       \* the provider's socket
  asked,    \* it has been told that no more audio comes
  \* The endpoint.
  adapter,
  pc,       \* where the endpoint stands
  why,      \* why it leaves the session
  app,      \* application_state is CONNECTED
  down,     \* the task of pump_down
  buffer,   \* _buffer of the OpenAI adapter
  frames,   \* transcript frames sent
  \* History.
  meant,    \* the frames that the provider's events stand for
  mixed     \* the OpenAI service has recognised two turns at once

browserVars == <<browser, inbox>>
providerVars == <<turn, guess, pipe, asked, meant, mixed>>
streamVars == <<browserVars, providerVars, up, adapter, pc, why, app, down, buffer, frames>>

Turns == 1..MaxTurn

EventKind == {"update", "eager", "resumed", "end", "delta", "completed"}

Event == [kind : EventKind, turn : Turns, words : BOOLEAN]

Frame == [type : {"partial", "eager", "resumed", "final"}, text : SUBSET Turns]

StreamTypeOK ==
  /\ browser \in {"open", "stopped", "gone"}
  /\ inbox \in Seq({"audio", "stop", "disconnect"})
  /\ turn \in [Turns -> {"todo", "open", "done"}]
  /\ pipe \in Seq(Event)
  /\ up \in {"none", "open", "ended", "broken", "closed"}
  /\ adapter \in Adapter
  /\ pc \in {"accept", "connect", "ready", "receive", "flush", "exit", "tell", "close", "over"}
  /\ why \in {"", "late", "left", "error"}
  /\ down \in {"none", "reading", "done", "failed", "left", "cancelled"}
  /\ buffer \in SUBSET Turns
  /\ frames \in Seq(Frame) /\ meant \in Seq(Frame)
  /\ {guess, asked, app, mixed} \subseteq BOOLEAN

StreamInit ==
  /\ browser = "open" /\ inbox = <<>>
  /\ turn = [t \in Turns |-> "todo"] /\ guess = FALSE /\ pipe = <<>> /\ up = "none"
  /\ asked = FALSE
  /\ adapter \in Adapter
  /\ pc = "accept" /\ why = "" /\ app = TRUE /\ down = "none"
  /\ buffer = {} /\ frames = <<>> /\ meant = <<>> /\ mixed = FALSE

-----------------------------------------------------------------------------
(* The browser: the microphone's frames, then stop or nothing more.        *)

BrowserSends(message) ==
  /\ pc # "over"
  /\ inbox' = Append(inbox, message)
  /\ UNCHANGED <<providerVars, up, adapter, pc, why, app, down, buffer, frames>>

SendAudio ==
  /\ browser = "open" /\ Len(inbox) < MaxInbox
  /\ UNCHANGED browser
  /\ BrowserSends("audio")

SendStop ==
  /\ browser = "open"
  /\ browser' = "stopped"
  /\ BrowserSends("stop")

Leave ==
  /\ browser # "gone"
  /\ browser' = "gone"
  /\ BrowserSends("disconnect")

-----------------------------------------------------------------------------
(* The provider.                                                           *)

\* Event e is sent, which stands for a frame of this type and text, or for none.
Emit(e, stands, type, text) ==
  /\ up = "open" /\ Len(pipe) + Len(meant) < MaxEvent
  /\ pipe' = Append(pipe, e)
  /\ meant' = IF stands THEN Append(meant, [type |-> type, text |-> text]) ELSE meant
  /\ UNCHANGED <<browserVars, up, asked, adapter, pc, why, app, down, buffer, frames>>

\* Flux hears one turn after the other; TurnResumed takes an EagerEndOfTurn back.
FluxEvent(t) ==
  \E kind \in {"update", "eager", "resumed", "end"}, words \in BOOLEAN :
    LET type == [update |-> "partial", eager |-> "eager", resumed |-> "resumed",
                 end |-> "final"][kind]
    IN
    /\ adapter = "flux"
    /\ \A u \in Turns : u < t => turn[u] = "done"
    /\ turn[t] # "done"
    /\ kind = "resumed" <=> guess /\ kind # "end"
    /\ turn' = [turn EXCEPT ![t] = IF kind = "end" THEN "done" ELSE "open"]
    /\ guess' = (kind = "eager")
    /\ Emit([kind |-> kind, turn |-> t, words |-> words], words \/ kind = "resumed",
            type, {u \in {t} : words})
    /\ UNCHANGED mixed

\* The OpenAI service sends a turn's words piece by piece, and when it is over the
\* whole of them or nothing; it does not promise to end turns in order.
OpenAIEvent(t) ==
  \E kind \in {"delta", "completed"}, words \in BOOLEAN :
    /\ adapter = "openai"
    /\ turn[t] # "done"
    /\ kind = "delta" => words
    /\ turn' = [turn EXCEPT ![t] = IF kind = "delta" THEN "open" ELSE "done"]
    /\ mixed' = (mixed \/ \E u \in Turns \ {t} : turn[u] = "open")
    /\ Emit([kind |-> kind, turn |-> t, words |-> words], words \/ turn[t] = "open",
            IF kind = "delta" THEN "partial" ELSE "final", {t})
    /\ UNCHANGED guess

\* The socket's end, of the provider's own accord or, Flux only, because it was sent
\* CloseStream; to OpenAI a stop is the end of a segment.
EndStream(how) ==
  /\ up = "open"
  /\ up' = how
  /\ UNCHANGED <<browserVars, providerVars, adapter, pc, why, app, down, buffer, frames>>

ProviderStep ==
  \/ \E t \in Turns : FluxEvent(t) \/ OpenAIEvent(t)
  \/ \E how \in {"ended", "broken"} : EndStream(how)

-----------------------------------------------------------------------------
(* The endpoint.                                                           *)

Endpoint(from, to) ==
  /\ pc = from /\ pc' = to
  /\ UNCHANGED <<browser, turn, guess, pipe, adapter, buffer, frames, meant, mixed>>

\* A batch provider, or one without a key.
NoTranscriber == adapter = "none"

\* Without a transcriber an error frame and the end.
Accept ==
  /\ Endpoint("accept", IF NoTranscriber THEN "tell" ELSE "connect")
  /\ why' = IF NoTranscriber THEN "error" ELSE why
  /\ UNCHANGED <<inbox, up, asked, app, down>>

\* __aenter__, which raises if the provider cannot be reached.
Connect ==
  \/ /\ Endpoint("connect", "ready")
     /\ up' = "open"
     /\ UNCHANGED <<inbox, asked, why, app, down>>
  \/ /\ Endpoint("connect", "tell")
     /\ why' = "error"
     /\ UNCHANGED <<inbox, up, asked, app, down>>

\* "ready", unless the send tells that the browser is gone.
Ready ==
  \/ /\ Endpoint("ready", "receive")
     /\ down' = "reading"
     /\ UNCHANGED <<inbox, up, asked, why, app>>
  \/ /\ browser = "gone"
     /\ Endpoint("ready", "exit")
     /\ why' = "left" /\ app' = FALSE
     /\ UNCHANGED <<inbox, up, asked, down>>

Receive(message) ==
  /\ inbox # <<>> /\ Head(inbox) = message
  /\ inbox' = Tail(inbox)

\* send_audio: pump_down is left as it is if it raises.
ForwardAudio ==
  \/ /\ Endpoint("receive", "receive")
     /\ Receive("audio")
     /\ up = "open"
     /\ UNCHANGED <<up, asked, why, app, down>>
  \/ /\ Endpoint("receive", "exit")
     /\ Receive("audio")
     /\ up # "open"
     /\ why' = "error"
     /\ UNCHANGED <<up, asked, app, down>>

\* Fault: pump_down is not waited for.
HandleStop_Cancel ==
  /\ Endpoint("receive", "exit")
  /\ Receive("stop")
  /\ asked' = (up = "open")
  /\ down' = IF down = "reading" THEN "cancelled" ELSE down
  /\ UNCHANGED <<up, why, app>>

\* finish(), whose failure is suppressed.
HandleStop ==
  /\ Endpoint("receive", "flush")
  /\ Receive("stop")
  /\ asked' = (up = "open")
  /\ UNCHANGED <<up, why, app, down>>

HandleDisconnect ==
  /\ Endpoint("receive", "exit")
  /\ Receive("disconnect")
  /\ down' = IF down = "reading" THEN "cancelled" ELSE down
  /\ why' = "left"
  /\ UNCHANGED <<up, asked, app>>

\* Fault: the wait is not bounded.
AwaitDown_Unbounded ==
  /\ Endpoint("flush", "exit")
  /\ down # "reading"
  /\ why' = IF down = "failed" THEN "error" ELSE IF down = "left" THEN "left" ELSE why
  /\ UNCHANGED <<inbox, up, asked, app, down>>

\* wait_for(down, 5): pump_down is over, its exception is raised here, or it is
\* cancelled for taking longer.
AwaitDown ==
  \/ /\ Endpoint("flush", "exit")
     /\ down # "reading"
     /\ why' = IF down = "failed" THEN "error" ELSE IF down = "left" THEN "left" ELSE why
     /\ UNCHANGED <<inbox, up, asked, app, down>>
  \/ /\ Endpoint("flush", "exit")
     /\ down = "reading"
     /\ down' = "cancelled" /\ why' = "late"
     /\ UNCHANGED <<inbox, up, asked, app>>

\* __aexit__ closes the provider's socket.
ExitSession ==
  /\ Endpoint("exit", IF why = "error" THEN "tell" ELSE "close")
  /\ up' = "closed"
  /\ UNCHANGED <<inbox, asked, why, app, down>>

\* The error frame, if the socket is still connected.
Tell ==
  /\ Endpoint("tell", "close")
  /\ app' \in {app, app /\ browser # "gone"}
  /\ UNCHANGED <<inbox, up, asked, why, down>>

CloseSocket ==
  /\ Endpoint("close", "over")
  /\ app' = FALSE
  /\ UNCHANGED <<inbox, up, asked, why, down>>

EndpointStep ==
  \/ Accept \/ Connect \/ Ready \/ ForwardAudio \/ HandleStop \/ HandleDisconnect
  \/ AwaitDown \/ ExitSession \/ Tell \/ CloseSocket

-----------------------------------------------------------------------------
(* pump_down.                                                              *)

\* The adapters' events(): the interim text of an OpenAI turn grows piece by piece,
\* and stands in for a completed text that is blank.
Text(e) ==
  IF e.kind = "delta" THEN buffer \union {e.turn}
  ELSE IF e.words THEN {e.turn}
  ELSE IF e.kind = "completed" THEN buffer ELSE {}

\* Fault: an event without words is dropped, whatever it says.
Yielded_Words(e) == Text(e) # {}

\* TurnResumed is a signal, and goes on without any words.
Yielded(e) == Text(e) # {} \/ e.kind = "resumed"

Buffered(e) ==
  IF e.kind = "delta" THEN Text(e) ELSE IF e.kind = "completed" THEN {} ELSE buffer

\* Fault: the event goes out under the provider's own name.
FrameOf_Kind(e) == [type |-> e.kind, text |-> Text(e)]

\* _frame
FrameOf(e) ==
  [type |-> IF e.kind \in {"eager", "resumed"} THEN e.kind
            ELSE IF e.kind \in {"end", "completed"} THEN "final" ELSE "partial",
   text |-> Text(e)]

\* The next event: its frame is sent, unless the socket is closed, or the send tells
\* that the browser is gone.
Relay ==
  LET e == Head(pipe) IN
  /\ down = "reading" /\ pipe # <<>>
  /\ pipe' = Tail(pipe)
  /\ buffer' = Buffered(e)
  /\ \/ /\ ~Yielded(e)
        /\ UNCHANGED <<down, app, frames>>
     \/ /\ Yielded(e) /\ ~app
        /\ down' = "done"
        /\ UNCHANGED <<app, frames>>
     \/ /\ Yielded(e) /\ app
        /\ frames' = Append(frames, FrameOf(e))
        /\ UNCHANGED <<down, app>>
     \/ /\ Yielded(e) /\ app /\ browser = "gone"
        /\ down' = "left" /\ app' = FALSE
        /\ UNCHANGED frames
  /\ UNCHANGED <<browserVars, turn, guess, up, asked, adapter, pc, why, meant, mixed>>

\* The provider's socket has ended, for better or worse; what was still to be read
\* may be lost if it is the endpoint that closed it.
EndOfEvents ==
  /\ down = "reading"
  /\ \/ pipe = <<>> /\ up \in {"ended", "broken", "closed"}
     \/ up = "closed"
  /\ down' = IF up = "broken" THEN "failed" ELSE "done"
  /\ UNCHANGED <<browserVars, providerVars, up, adapter, pc, why, app, buffer, frames>>

DownStep == Relay \/ EndOfEvents

StreamNext == SendAudio \/ SendStop \/ Leave \/ ProviderStep \/ EndpointStep \/ DownStep

StreamSpec == StreamInit /\ [][StreamNext]_streamVars

\* The two tasks run.  Nothing is asked of the provider, nor of the browser, which sends
\* audio only while it listens.
FairStreamSpec ==
  StreamSpec /\ WF_streamVars(EndpointStep) /\ WF_streamVars(DownStep)

-----------------------------------------------------------------------------
(* Properties.                                                             *)

\* What the browser is sent is what the provider said, in its order and with each
\* turn's own words: a guess that was taken back is never left standing, and no
\* interim text runs on into the next turn, unless the service mixes turns.
Relayed == ~mixed => IsPrefix(frames, meant)

\* "let the provider flush remaining finals": when a clean stop ends with the
\* provider's own end of the stream, all that it recognised has been sent.
Flushed ==
  ~mixed /\ pc = "over" /\ browser = "stopped" /\ why = "" => frames = meant

\* "It closes when the client sends stop, disconnects" (voice_stream.py:67), whatever the
\* provider does, and pump_down does not outlive it.  Of the third case the text names, the
\* provider's own end, the endpoint hears only with the browser's next message.
Ends ==
  browser # "open" ~> (pc = "over" /\ up # "open" /\ down # "reading")
=============================================================================
