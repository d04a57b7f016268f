--------------------------- MODULE RealtimeSession ---------------------------
(***************************************************************************)
(* RealtimeSession (providers/realtime.py): one speech-to-speech session   *)
(* with the OpenAI Realtime service.  A reader task turns the service's    *)
(* messages into events for the endpoint, which handles one before the     *)
(* next message is read; each tool the model calls runs as a task of its   *)
(* own and hands its result back over the same socket.                     *)
(*                                                                         *)
(* The service is external: it detects speech, answers each of the user's *)
(* turns with a response, may call tools in it, and obeys what it is sent. *)
(* The socket delivers both ways in order.                                 *)
(***************************************************************************)
EXTENDS Naturals, Sequences, FiniteSets

CONSTANTS
  Call,     \* tool calls the model can make (a bound)
  MaxTurn,  \* times the user speaks (a bound)
  MaxDelta, \* pieces of a reply's text (a bound)
  NoCall

ASSUME SessionConstants ==
  /\ IsFiniteSet(Call) /\ NoCall \notin Call
  /\ MaxTurn \in Nat /\ MaxDelta \in Nat \ {0}

\* Each response answers a turn or follows a tool's result.
MaxResponse == MaxTurn + Cardinality(Call)

Nothing == [kind |-> "nothing", resp |-> 0, call |-> NoCall]

Event == [kind : {"nothing", "delta", "text", "transcript", "speech", "tool", "done",
                  "error"},
          resp : Nat, call : Call \union {NoCall}]

Message == [kind : {"created", "delta", "text", "transcript", "speech", "done", "error"},
            resp : Nat, calls : SUBSET Call]

Request ==
  [kind : {"cancel", "create"}, call : {NoCall}] \union [kind : {"output"}, call : Call]

VARIABLES
  \* The service.
  speaking,  \* the user is talking
  turns,     \* turns begun
  heard,     \* turns whose transcript is out
  resp,      \* the response being generated, 0 if none
  created,   \* responses so far
  said,      \* pieces of its text that are out
  wants,     \* the calls in it
  given,     \* calls whose result is in the conversation
  used,      \* calls whose result a later response was created with
  \* The socket.
  down, up,
  \* The session.
  active,    \* _response_active
  event,     \* the event the endpoint is handling
  batch,     \* calls of the response.done being handled, not yet announced
  tool       \* tool[k]: what the task of call k does

serviceVars == <<speaking, turns, heard, resp, created, said, wants, given,
                 used>>
sessionVars == <<active, event, batch, tool>>
vars == <<serviceVars, down, up, sessionVars>>

TypeOK ==
  /\ speaking \in BOOLEAN /\ active \in BOOLEAN
  /\ turns \in Nat /\ heard \in Nat /\ resp \in Nat /\ created \in Nat /\ said \in Nat
  /\ wants \in SUBSET Call /\ given \in SUBSET Call /\ used \in SUBSET Call
  /\ batch \in SUBSET Call
  /\ down \in Seq(Message) /\ up \in Seq(Request)
  /\ event \in Event
  /\ tool \in [Call -> {"none", "called", "running", "sent", "over"}]

Init ==
  /\ speaking = FALSE /\ said = 0 /\ active = FALSE
  /\ turns = 0 /\ heard = 0 /\ resp = 0 /\ created = 0
  /\ wants = {} /\ given = {} /\ used = {} /\ batch = {}
  /\ down = <<>> /\ up = <<>>
  /\ event = Nothing
  /\ tool = [k \in Call |-> "none"]

Msg(kind, r, calls) == [kind |-> kind, resp |-> r, calls |-> calls]

-----------------------------------------------------------------------------
(* The service.                                                            *)

Speak ==
  /\ ~speaking /\ turns < MaxTurn
  /\ speaking' = TRUE /\ turns' = turns + 1
  /\ down' = Append(down, Msg("speech", resp, {}))
  /\ UNCHANGED <<heard, resp, created, said, wants, given, used, up, sessionVars>>

\* A new response takes the whole conversation into account.
Respond ==
  /\ resp' = created + 1 /\ created' = created + 1
  /\ said' = 0 /\ wants' = {}
  /\ used' = used \union given
  /\ down' = Append(down, Msg("created", created + 1, {}))

EndTurn ==
  /\ speaking
  /\ speaking' = FALSE
  /\ IF resp = 0 THEN Respond
     ELSE UNCHANGED <<resp, created, said, wants, used, down>>
  /\ UNCHANGED <<turns, heard, given, up, sessionVars>>

\* Transcription runs beside the response: its result comes before or after it.
Transcribe ==
  /\ heard < (IF speaking THEN turns - 1 ELSE turns)
  /\ heard' = heard + 1
  /\ down' = Append(down, Msg("transcript", heard + 1, {}))
  /\ UNCHANGED <<speaking, turns, resp, created, said, wants, given, used, up,
                 sessionVars>>

Say ==
  /\ resp # 0 /\ said < MaxDelta
  /\ said' = said + 1
  /\ down' = Append(down, Msg("delta", resp, {}))
  /\ UNCHANGED <<speaking, turns, heard, resp, created, wants, given, used, up,
                 sessionVars>>

CallTool(k) ==
  /\ resp # 0 /\ tool[k] = "none"
  /\ tool' = [tool EXCEPT ![k] = "called"]
  /\ wants' = wants \union {k}
  /\ UNCHANGED <<speaking, turns, heard, resp, created, said, given, used, down, up, active,
                 event, batch>>

\* The end of a response, complete or cancelled: output_text.done if it has text,
\* then response.done.
Ending ==
  (IF said > 0 THEN <<Msg("text", resp, {})>> ELSE <<>>) \o <<Msg("done", resp, wants)>>

Finish ==
  /\ resp # 0
  /\ resp' = 0
  /\ down' = down \o Ending
  /\ UNCHANGED <<speaking, turns, heard, created, said, wants, given, used, up, sessionVars>>

OnCancel ==
  /\ up # <<>> /\ Head(up).kind = "cancel"
  /\ up' = Tail(up)
  /\ resp' = 0
  /\ down' = IF resp # 0 THEN down \o Ending ELSE Append(down, Msg("error", 0, {}))
  /\ UNCHANGED <<speaking, turns, heard, created, said, wants, given, used, sessionVars>>

OnOutput ==
  /\ up # <<>> /\ Head(up).kind = "output"
  /\ up' = Tail(up)
  /\ given' = given \union {Head(up).call}
  /\ UNCHANGED <<speaking, turns, heard, resp, created, said, wants, used, down,
                 sessionVars>>

OnCreate ==
  /\ up # <<>> /\ Head(up).kind = "create"
  /\ up' = Tail(up)
  /\ IF resp = 0
     THEN Respond
     ELSE /\ down' = Append(down, Msg("error", 0, {}))
          /\ UNCHANGED <<resp, created, said, wants, used>>
  /\ UNCHANGED <<speaking, turns, heard, given, sessionVars>>

-----------------------------------------------------------------------------
(* The session.                                                            *)

Yield(kind, r, k) == event' = [kind |-> kind, resp |-> r, call |-> k]

Incoming(kind) ==
  /\ event = Nothing /\ batch = {}
  /\ down # <<>> /\ Head(down).kind = kind
  /\ down' = Tail(down)

\* Fault: response.created is not looked at.
ReadCreated_Ignore ==
  /\ Incoming("created")
  /\ UNCHANGED <<serviceVars, up, sessionVars>>

ReadCreated ==
  /\ Incoming("created")
  /\ active' = TRUE
  /\ UNCHANGED <<serviceVars, up, event, batch, tool>>

\* Messages the endpoint gets as they are.
ReadPlain ==
  /\ \E kind \in {"delta", "text", "transcript", "error"} :
       Incoming(kind) /\ Yield(kind, Head(down).resp, NoCall)
  /\ UNCHANGED <<serviceVars, up, active, batch, tool>>

\* Barge-in: _cancel_response, unless nothing is being generated.
ReadSpeech ==
  /\ Incoming("speech")
  /\ Yield("speech", Head(down).resp, NoCall)
  /\ active' = FALSE
  /\ up' = IF active THEN Append(up, [kind |-> "cancel", call |-> NoCall]) ELSE up
  /\ UNCHANGED <<serviceVars, batch, tool>>

\* response.done, whatever its status: the turn is complete, or there are calls to
\* dispatch.
ReadDone ==
  /\ Incoming("done")
  /\ active' = FALSE
  /\ batch' = Head(down).calls
  /\ IF Head(down).calls = {} THEN Yield("done", Head(down).resp, NoCall)
     ELSE UNCHANGED event
  /\ UNCHANGED <<serviceVars, up, tool>>

\* The next call of the batch is announced.
Announce(k) ==
  /\ event = Nothing /\ k \in batch
  /\ batch' = batch \ {k}
  /\ Yield("tool", 0, k)
  /\ UNCHANGED <<serviceVars, down, up, active, tool>>

\* The endpoint is done with the event; the task of an announced call starts.
Resumed ==
  /\ event # Nothing
  /\ event' = Nothing
  /\ tool' = IF event.kind = "tool" THEN [tool EXCEPT ![event.call] = "running"] ELSE tool

Resume ==
  /\ Resumed
  /\ UNCHANGED <<serviceVars, down, up, active, batch>>

\* What dispatch comes to, whatever happens to the tool: an error is a result too.
Result(k) == [kind |-> "output", call |-> k]

\* dispatch returns and the result is sent.
SendOutput(k) ==
  /\ tool[k] = "running"
  /\ tool' = [tool EXCEPT ![k] = "sent"]
  /\ up' = Append(up, Result(k))
  /\ UNCHANGED <<serviceVars, down, active, event, batch>>

\* Then a response is asked for, unless one is being generated.
AskResponse(k) ==
  /\ tool[k] = "sent"
  /\ tool' = [tool EXCEPT ![k] = "over"]
  /\ active' = TRUE
  /\ up' = IF active THEN up ELSE Append(up, [kind |-> "create", call |-> NoCall])
  /\ UNCHANGED <<serviceVars, down, event, batch>>

Service ==
  \/ Speak \/ EndTurn \/ Transcribe \/ Say \/ Finish \/ OnCancel \/ OnOutput \/ OnCreate
  \/ \E k \in Call : CallTool(k)

Reader == ReadCreated \/ ReadPlain \/ ReadSpeech \/ ReadDone \/ \E k \in Call : Announce(k)

ToolTask(k) == SendOutput(k) \/ AskResponse(k)

Next == Service \/ Reader \/ Resume \/ \E k \in Call : ToolTask(k)

Spec == Init /\ [][Next]_vars

-----------------------------------------------------------------------------
(* Properties.                                                             *)

\* Once everything sent has been read, the session knows whether the service is
\* generating: a barge-in then cancels what is there, and only that.
FlagSettles ==
  down = <<>> /\ up = <<>> => (active <=> resp # 0)
=============================================================================
