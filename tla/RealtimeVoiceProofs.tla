------------------------- MODULE RealtimeVoiceProofs -------------------------
(***************************************************************************)
(* RealtimeVoice: types; nothing is left to speak when a flush is sent,    *)
(* nor, unless the service closed its socket, when the endpoint is over;   *)
(* and the session knows whether the service is replying, whenever nothing *)
(* is under way between them: for any number of turns, tools and replies.  *)
(***************************************************************************)
EXTENDS RealtimeVoice, SequenceTheorems, TLAPS

\* What the argument needs of the types.
SocketOK ==
  /\ down \in Seq(Message)
  /\ resp \in Nat /\ created \in Nat /\ heard \in Nat /\ wants \in SUBSET Call
  /\ event.resp \in Nat

SynthOK == synth \in Seq(SynthState)

\* While pump_down is in a barge-in no synthesis runs: it alone starts them.
Hushed == at # "idle" => \A i \in DOMAIN synth : synth[i].pc # "run"

\* On its way out with pump_down stopped, the endpoint waits for every task.
Leaving ==
  ~pump /\ conn \in {"waiting", "over"} =>
    awaited = DOMAIN synth /\ \A i \in DOMAIN synth : synth[i].pc # "run"

\* No task is older than pump_down.
Fresh == conn \in Opening => ~pump /\ synth = <<>> /\ awaited = {}

Inv == SocketOK /\ SynthOK /\ Hushed /\ FlushAlone

-----------------------------------------------------------------------------
(* The socket.                                                             *)

LEMMA MsgIs ==
  ASSUME NEW kind \in {"created", "delta", "text", "transcript", "speech", "done", "error"},
         NEW r \in Nat, NEW calls \in SUBSET Call
  PROVE  Msg(kind, r, calls) \in Message
  BY DEF Msg, Message

LEMMA Sends ==
  ASSUME SocketOK, NEW m \in Message
  PROVE  Append(down, m) \in Seq(Message)
  BY DEF SocketOK

LEMMA Ends ==
  ASSUME SocketOK
  PROVE  down \o Ending \in Seq(Message)
<1> DEFINE text == Msg("text", resp, {})
           over == Msg("done", resp, wants)
<1>1. text \in Message /\ over \in Message
  BY MsgIs DEF SocketOK
<1>. HIDE DEF text, over
<1>2. <<text>> \in Seq(Message) /\ <<over>> \in Seq(Message) /\ <<>> \in Seq(Message)
  BY <1>1
<1>3. (IF said > 0 THEN <<text>> ELSE <<>>) \in Seq(Message)
  BY <1>2
<1>4. Ending \in Seq(Message)
  BY <1>2, <1>3, ConcatProperties DEF Ending, text, over
<1>. QED BY <1>4, ConcatProperties DEF SocketOK

LEMMA RespondKeeps ==
  ASSUME SocketOK, Respond
  PROVE  /\ down' \in Seq(Message)
         /\ resp' \in Nat /\ created' \in Nat /\ wants' \in SUBSET Call
<1>1. Msg("created", created + 1, {}) \in Message
  BY MsgIs DEF SocketOK
<1>. QED BY <1>1, Sends DEF Respond, SocketOK

LEMMA ServiceKeeps == ASSUME SocketOK, Service PROVE SocketOK'
<1>1. CASE Speak
  <2>1. Msg("speech", resp, {}) \in Message
    BY MsgIs DEF SocketOK
  <2>. QED BY <1>1, <2>1, Sends DEF Speak, SocketOK, sessionVars
<1>2. CASE EndTurn
  BY <1>2, RespondKeeps DEF EndTurn, SocketOK, sessionVars
<1>3. CASE Transcribe
  <2>1. Msg("transcript", heard + 1, {}) \in Message
    BY MsgIs DEF SocketOK
  <2>. QED BY <1>3, <2>1, Sends DEF Transcribe, SocketOK, sessionVars
<1>4. CASE Say
  <2>1. Msg("delta", resp, {}) \in Message
    BY MsgIs DEF SocketOK
  <2>. QED BY <1>4, <2>1, Sends DEF Say, SocketOK, sessionVars
<1>5. CASE Finish
  BY <1>5, Ends DEF Finish, SocketOK, sessionVars
<1>6. CASE OnCancel
  <2>1. Msg("error", 0, {}) \in Message
    BY MsgIs
  <2>2. UNCHANGED <<created, heard, wants, event>> /\ resp' \in {0, resp}
    BY <1>6 DEF OnCancel, sessionVars
  <2>3. down' \in Seq(Message)
    <3>1. down' = down \o Ending \/ down' = Append(down, Msg("error", 0, {}))
      BY <1>6 DEF OnCancel
    <3>. QED BY <2>1, <3>1, Sends, Ends
  <2>. QED BY <2>2, <2>3 DEF SocketOK
<1>7. CASE OnOutput
  BY <1>7 DEF OnOutput, SocketOK, sessionVars
<1>8. CASE OnCreate
  <2>1. Msg("error", 0, {}) \in Message
    BY MsgIs
  <2>. QED BY <1>8, <2>1, Sends, RespondKeeps DEF OnCreate, SocketOK, sessionVars
<1>9. CASE \E k \in Call : CallTool(k)
  BY <1>9 DEF CallTool, SocketOK
<1>. QED BY <1>1, <1>2, <1>3, <1>4, <1>5, <1>6, <1>7, <1>8, <1>9 DEF Service

LEMMA TakesMessage ==
  ASSUME SocketOK, NEW kind, Incoming(kind)
  PROVE  down' \in Seq(Message) /\ Head(down).resp \in Nat
<1>1. Head(down) \in Message /\ Tail(down) \in Seq(Message)
  BY HeadTailProperties DEF Incoming, SocketOK
<1>. QED BY <1>1 DEF Incoming, Message

LEMMA ReaderKeeps == ASSUME SocketOK, Reader PROVE SocketOK'
<1>1. CASE ReadCreated
  BY <1>1, TakesMessage DEF ReadCreated, SocketOK, serviceVars
<1>2. CASE ReadPlain
  BY <1>2, TakesMessage DEF ReadPlain, Yield, SocketOK, serviceVars
<1>3. CASE ReadSpeech
  BY <1>3, TakesMessage DEF ReadSpeech, Yield, SocketOK, serviceVars
<1>4. CASE ReadDone
  BY <1>4, TakesMessage DEF ReadDone, Yield, SocketOK, serviceVars
<1>5. CASE \E k \in Call : Announce(k)
  BY <1>5 DEF Announce, Yield, SocketOK, serviceVars
<1>. QED BY <1>1, <1>2, <1>3, <1>4, <1>5 DEF Reader

LEMMA HandledKeeps == ASSUME SocketOK, Handled PROVE SocketOK'
  BY DEF Handled, Resumed, Nothing, SocketOK, serviceVars

LEMMA VarsKeep == ASSUME SocketOK, UNCHANGED vars PROVE SocketOK'
  BY DEF vars, serviceVars, sessionVars, SocketOK

-----------------------------------------------------------------------------
(* The tasks.                                                              *)

LEMMA Tasks ==
  ASSUME SynthOK
  PROVE  /\ DOMAIN synth = 1..Len(synth) /\ Len(synth) \in Nat
         /\ \A i \in DOMAIN synth : synth[i] \in SynthState
  BY DEF SynthOK

LEMMA OneTask ==
  ASSUME SynthOK, NEW i \in DOMAIN synth, NEW x \in SynthState,
         synth' = [synth EXCEPT ![i] = x]
  PROVE  /\ SynthOK'
         /\ DOMAIN synth' = DOMAIN synth /\ synth'[i] = x
         /\ \A j \in DOMAIN synth : j # i => synth'[j] = synth[j]
<1>1. synth' \in Seq(SynthState)
  BY Tasks, ExceptSeq DEF SynthOK
<1>. QED BY <1>1 DEF SynthOK

LEMMA CancelAll ==
  ASSUME SynthOK, Cancelled
  PROVE  /\ SynthOK'
         /\ DOMAIN synth' = DOMAIN synth
         /\ \A i \in DOMAIN synth : synth'[i].pc # "run"
         /\ \A i \in DOMAIN synth : synth[i].pc = "over" => synth'[i].pc = "over"
<1>1. \A i \in DOMAIN synth : [synth[i] EXCEPT !.pc = "cancelled"] \in SynthState
  BY Tasks DEF SynthState
<1>2. \A i \in DOMAIN synth : [synth[i] EXCEPT !.pc = "cancelled"].pc = "cancelled"
  BY Tasks DEF SynthState
<1>3. /\ DOMAIN synth' = DOMAIN synth
      /\ \A i \in DOMAIN synth :
           synth'[i] = IF synth[i].pc = "run" THEN [synth[i] EXCEPT !.pc = "cancelled"]
                       ELSE synth[i]
  BY DEF Cancelled
<1>4. synth' \in [1..Len(synth) -> SynthState]
  BY <1>1, <1>3, Tasks DEF Cancelled
<1>5. SynthOK'
  BY <1>4, Tasks DEF SynthOK
<1>. QED BY <1>2, <1>3, <1>5

LEMMA NewTask ==
  ASSUME SocketOK, SynthOK, NEW whole \in BOOLEAN
  PROVE  Started(event.resp, whole) \in Seq(SynthState)
<1>1. [pc |-> "run", resp |-> event.resp, queued |-> 1, closed |-> whole,
       started |-> FALSE] \in SynthState
  BY DEF SocketOK, SynthState
<1>. QED BY <1>1 DEF Started, SynthOK

LEMMA Uttered ==
  ASSUME NEW s \in SynthState, NEW n \in Nat, NEW ok \in BOOLEAN
  PROVE  /\ [s EXCEPT !.queued = n, !.started = ok] \in SynthState
         /\ [s EXCEPT !.queued = n, !.started = ok].pc = s.pc
  BY DEF SynthState

LEMMA SynthKeeps ==
  ASSUME Inv, NEW i \in DOMAIN synth, Synth(i)
  PROVE  /\ Inv' /\ DOMAIN synth' = DOMAIN synth
         /\ \A j \in DOMAIN synth : synth'[j].pc = "run" => synth[j].pc = "run"
         /\ \A j \in DOMAIN synth : synth[j].pc = "over" => synth'[j].pc = "over"
<1> DEFINE s == synth[i]
<1>0. SocketOK /\ SynthOK /\ s \in SynthState
  BY Tasks DEF Inv
<1>1. PICK x \in SynthState : /\ synth' = [synth EXCEPT ![i] = x]
                              /\ x.pc = "run" => s.pc = "run"
                              /\ s.pc # "over"
  <2>1. CASE Utter(i)
    <3>1. PICK ok \in {TRUE, s.started} :
            synth' = [synth EXCEPT ![i] = [s EXCEPT !.queued = s.queued - 1, !.started = ok]]
      BY <2>1 DEF Utter, SynthStep
    <3> DEFINE x == [s EXCEPT !.queued = s.queued - 1, !.started = ok]
    <3>2. s.queued - 1 \in Nat /\ s.started \in BOOLEAN
      BY <1>0, <2>1 DEF SynthState, Utter
    <3>3. x \in SynthState /\ x.pc = s.pc
      BY <1>0, <3>2, Uttered
    <3>. QED BY <2>1, <3>1, <3>3 DEF Utter
  <2>2. CASE Conclude(i) \/ Unwind(i)
    <3> DEFINE x == [s EXCEPT !.pc = "over"]
    <3>1. x \in SynthState /\ x.pc = "over"
      BY <1>0 DEF SynthState
    <3>. QED BY <2>2, <3>1 DEF Conclude, Unwind, SynthStep
  <2>. QED BY <2>1, <2>2 DEF Synth
<1>2. /\ SynthOK' /\ DOMAIN synth' = DOMAIN synth /\ synth'[i] = x
      /\ \A j \in DOMAIN synth : j # i => synth'[j] = synth[j]
  BY <1>0, <1>1, OneTask
<1>3. UNCHANGED <<vars, conn, pump, at, awaited>>
  BY DEF Synth, Utter, Conclude, Unwind, SynthStep
<1>4. SocketOK'
  BY <1>0, <1>3, VarsKeep
<1>5. /\ \A j \in DOMAIN synth : synth'[j].pc = "run" => synth[j].pc = "run"
      /\ \A j \in DOMAIN synth : synth[j].pc = "over" => synth'[j].pc = "over"
  BY <1>1, <1>2
<1>6. Hushed' /\ FlushAlone'
  BY <1>2, <1>3, <1>5 DEF Inv, Hushed, FlushAlone
<1>. QED BY <1>2, <1>4, <1>5, <1>6 DEF Inv

-----------------------------------------------------------------------------
(* The endpoint.                                                           *)

LEMMA PumpKeeps == ASSUME Inv, Pump PROVE Inv'
<1>0. SocketOK /\ SynthOK /\ Hushed /\ FlushAlone
  BY DEF Inv
<1>1. CASE Reader /\ UNCHANGED voiceVars
  BY <1>0, <1>1, ReaderKeeps DEF voiceVars, Inv, SynthOK, Hushed, FlushAlone
<1>2. CASE HandleDelta
  <2>1. SocketOK' /\ at' = "idle"
    BY <1>0, <1>2, HandledKeeps DEF HandleDelta, Handling
  <2>2. SynthOK'
    <3>1. CASE UNCHANGED synth
      BY <1>0, <3>1 DEF SynthOK
    <3>2. CASE synth' = Started(event.resp, FALSE)
      BY <1>0, <3>2, NewTask DEF SynthOK
    <3>3. CASE synth' = [synth EXCEPT ![deltaQ].queued = @ + 1]
      <4>1. CASE deltaQ \in DOMAIN synth
        <5> DEFINE x == [synth[deltaQ] EXCEPT !.queued = synth[deltaQ].queued + 1]
        <5>1. x \in SynthState
          BY <1>0, <4>1, Tasks DEF SynthState
        <5>2. synth' = [synth EXCEPT ![deltaQ] = x]
          BY <3>3
        <5>. HIDE DEF x
        <5>. QED BY <1>0, <4>1, <5>1, <5>2, OneTask
      <4>2. CASE deltaQ \notin DOMAIN synth
        <5>1. synth' = synth
          BY <1>0, <3>3, <4>2, Tasks DEF SynthOK
        <5>. QED BY <1>0, <5>1 DEF SynthOK
      <4>. QED BY <4>1, <4>2
    <3>. QED BY <1>2, <3>1, <3>2, <3>3 DEF HandleDelta
  <2>. QED BY <2>1, <2>2 DEF Inv, Hushed, FlushAlone
<1>3. CASE HandleText
  <2>1. SocketOK' /\ at' = "idle"
    BY <1>0, <1>3, HandledKeeps DEF HandleText, Handling
  <2>2. SynthOK'
    <3>1. CASE UNCHANGED synth
      BY <1>0, <3>1 DEF SynthOK
    <3>2. CASE synth' = Started(event.resp, TRUE)
      BY <1>0, <3>2, NewTask DEF SynthOK
    <3>3. CASE synth' = [synth EXCEPT ![deltaQ].closed = TRUE]
      <4>1. CASE deltaQ \in DOMAIN synth
        <5> DEFINE x == [synth[deltaQ] EXCEPT !.closed = TRUE]
        <5>1. x \in SynthState
          BY <1>0, <4>1, Tasks DEF SynthState
        <5>2. synth' = [synth EXCEPT ![deltaQ] = x]
          BY <3>3
        <5>. HIDE DEF x
        <5>. QED BY <1>0, <4>1, <5>1, <5>2, OneTask
      <4>2. CASE deltaQ \notin DOMAIN synth
        <5>1. synth' = synth
          BY <1>0, <3>3, <4>2, Tasks DEF SynthOK
        <5>. QED BY <1>0, <5>1 DEF SynthOK
      <4>. QED BY <4>1, <4>2
    <3>. QED BY <1>3, <3>1, <3>2, <3>3 DEF HandleText
  <2>. QED BY <2>1, <2>2 DEF Inv, Hushed, FlushAlone
<1>4. CASE HandleTranscript \/ HandleOther
  <2>1. SocketOK' /\ UNCHANGED <<at, synth>>
    BY <1>0, <1>4, HandledKeeps DEF HandleTranscript, HandleOther, voiceVars
  <2>. QED BY <1>0, <2>1 DEF Inv, SynthOK, Hushed, FlushAlone
<1>5. CASE HandleSpeech
  <2>1. SocketOK' /\ at' = "await" /\ Cancelled
    BY <1>0, <1>5, VarsKeep DEF HandleSpeech
  <2>. QED BY <1>0, <2>1, CancelAll DEF Inv, Hushed, FlushAlone
<1>6. CASE Settle
  <2>1. SocketOK' /\ UNCHANGED synth /\ \A i \in DOMAIN synth : synth[i].pc = "over"
    BY <1>0, <1>6, VarsKeep DEF Settle
  <2>. QED BY <1>0, <2>1 DEF Inv, SynthOK, Hushed, FlushAlone
<1>7. CASE Flush
  <2>1. SocketOK' /\ UNCHANGED synth /\ at' = "idle"
    BY <1>0, <1>7, HandledKeeps DEF Flush
  <2>. QED BY <1>0, <2>1 DEF Inv, SynthOK, Hushed, FlushAlone
<1>. QED BY <1>1, <1>2, <1>3, <1>4, <1>5, <1>6, <1>7 DEF Pump

LEMMA RestKeeps ==
  ASSUME Inv, \/ conn = "open" /\ Service /\ UNCHANGED voiceVars
              \/ \E k \in Call : Running(k)
              \/ Refuse \/ Instruct \/ Connect \/ Configure
              \/ Leave \/ Break \/ Exit \/ Over
  PROVE  Inv'
<1>0. SocketOK /\ SynthOK /\ Hushed /\ FlushAlone
  BY DEF Inv
<1>1. CASE Exit
  <2>1. SocketOK' /\ at' = at /\ Cancelled
    BY <1>0, <1>1 DEF Exit, SocketOK, serviceVars
  <2>2. /\ SynthOK' /\ DOMAIN synth' = DOMAIN synth
        /\ \A i \in DOMAIN synth : synth'[i].pc # "run"
        /\ \A i \in DOMAIN synth : synth[i].pc = "over" => synth'[i].pc = "over"
    BY <1>0, <2>1, CancelAll
  <2>. QED BY <1>0, <2>1, <2>2 DEF Inv, Hushed, FlushAlone
<1>2. CASE Refuse \/ Instruct \/ Connect \/ Configure \/ Leave \/ Break \/ Over
  <2>1. UNCHANGED <<at, synth>> /\ SocketOK'
    BY <1>0, <1>2, VarsKeep DEF Refuse, Instruct, Connect, Configure, Step, Leave, Break,
       Over
  <2>. QED BY <1>0, <2>1 DEF Inv, SynthOK, Hushed, FlushAlone
<1>3. CASE Service /\ UNCHANGED voiceVars
  BY <1>0, <1>3, ServiceKeeps DEF voiceVars, Inv, SynthOK, Hushed, FlushAlone
<1>4. CASE \E k \in Call : Running(k)
  <2>1. UNCHANGED voiceVars /\ SocketOK'
    BY <1>0, <1>4 DEF Running, ToolTask, SendOutput, Result, AskResponse, SocketOK, serviceVars
  <2>. QED BY <1>0, <2>1 DEF voiceVars, Inv, SynthOK, Hushed, FlushAlone
<1>. QED BY <1>1, <1>2, <1>3, <1>4

LEMMA InvInductive == VoiceSpec => []Inv
<1>1. VoiceInit => Inv
  <2> SUFFICES ASSUME VoiceInit PROVE Inv
    OBVIOUS
  <2>1. <<>> \in Seq(Message) /\ <<>> \in Seq(SynthState)
    OBVIOUS
  <2>2. SocketOK /\ SynthOK
    BY <2>1 DEF VoiceInit, Init, SocketOK, SynthOK, Nothing
  <2>. QED BY <2>2 DEF VoiceInit, Inv, Hushed, FlushAlone
<1>2. Inv /\ [VoiceNext]_allVars => Inv'
  <2> SUFFICES ASSUME Inv, [VoiceNext]_allVars PROVE Inv'
    OBVIOUS
  <2>1. CASE UNCHANGED allVars
    <3>1. SocketOK' /\ UNCHANGED <<at, synth>>
      BY <2>1, VarsKeep DEF allVars, voiceVars, Inv
    <3>. QED BY <3>1 DEF Inv, SynthOK, Hushed, FlushAlone
  <2>2. CASE Pump
    BY <2>2, PumpKeeps
  <2>3. CASE \E i \in DOMAIN synth : Synth(i)
    BY <2>3, SynthKeeps
  <2>. QED BY <2>1, <2>2, <2>3, RestKeeps DEF VoiceNext
<1>. QED BY <1>1, <1>2, PTL DEF VoiceSpec

\* When a flush is sent no synthesis task is left, so none that is being cancelled sends a
\* frame after it, in either mode and for any number of turns, calls and pieces of text.
THEOREM FlushFindsNone == VoiceSpec => []FlushAlone
<1>1. Inv => FlushAlone
  BY DEF Inv
<1>. QED BY <1>1, InvInductive, PTL

-----------------------------------------------------------------------------
(* Types.                                                                  *)

\* The part of the types that does not concern the messages down and the tasks.
SessionOK ==
  /\ speaking \in BOOLEAN /\ active \in BOOLEAN /\ turns \in Nat /\ said \in Nat
  /\ given \in SUBSET Call /\ used \in SUBSET Call /\ batch \in SUBSET Call
  /\ up \in Seq(Request)
  /\ event \in Event
  /\ tool \in [Call -> {"none", "called", "running", "sent", "over"}]

EndpointOK ==
  /\ conn \in Opening \union {"open", "closing", "waiting", "over"} /\ pump \in BOOLEAN
  /\ at \in {"idle", "await", "flush"}
  /\ deltaQ \in 0..Len(synth) /\ awaited \subseteq DOMAIN synth
  /\ lastUser \in Nat

LEMMA Asks ==
  ASSUME SessionOK
  PROVE  /\ Append(up, [kind |-> "cancel", call |-> NoCall]) \in Seq(Request)
         /\ Append(up, [kind |-> "create", call |-> NoCall]) \in Seq(Request)
         /\ \A k \in Call : Append(up, Result(k)) \in Seq(Request)
<1>1. /\ [kind |-> "cancel", call |-> NoCall] \in Request
      /\ [kind |-> "create", call |-> NoCall] \in Request
      /\ \A k \in Call : Result(k) \in Request
  BY DEF Request, Result
<1>. QED BY <1>1 DEF SessionOK

LEMMA ServiceTyped == ASSUME SocketOK, SessionOK, Service PROVE SessionOK'
<1>1. CASE Speak \/ Transcribe \/ Say \/ Finish
  <2>1. /\ UNCHANGED <<given, used, up, active, event, batch, tool>>
        /\ speaking' \in {TRUE, speaking}
    BY <1>1 DEF Speak, Transcribe, Say, Finish, sessionVars
  <2>2. turns' \in {turns, turns + 1} /\ said' \in {said, said + 1}
    BY <1>1 DEF Speak, Transcribe, Say, Finish
  <2>3. turns' \in Nat /\ said' \in Nat
    BY <2>2 DEF SessionOK
  <2>. QED BY <2>1, <2>3, Zenon DEF SessionOK
<1>4. CASE EndTurn
  <2>1. /\ UNCHANGED <<turns, given, up, active, event, batch, tool>> /\ speaking' = FALSE
        /\ said' \in {0, said} /\ used' \in {used, used \union given}
    BY <1>4 DEF EndTurn, Respond, sessionVars
  <2>2. said' \in Nat /\ used' \in SUBSET Call
    BY <2>1 DEF SessionOK
  <2>. QED BY <2>1, <2>2, Zenon DEF SessionOK
<1>2. CASE OnCancel \/ OnOutput \/ OnCreate
  <2>1. Head(up) \in Request /\ up' \in Seq(Request)
    BY <1>2, HeadTailProperties DEF OnCancel, OnOutput, OnCreate, SessionOK
  <2>2. Head(up).kind = "output" => Head(up).call \in Call
    BY <2>1 DEF Request
  <2>. QED BY <1>2, <2>1, <2>2 DEF OnCancel, OnOutput, OnCreate, Respond, SessionOK,
       sessionVars
<1>3. CASE \E k \in Call : CallTool(k)
  BY <1>3 DEF CallTool, SessionOK
<1>. QED BY <1>1, <1>2, <1>3, <1>4 DEF Service

LEMMA ReaderTyped == ASSUME SocketOK, SessionOK, Reader PROVE SessionOK'
<1>0. ASSUME NEW kind, Incoming(kind)
      PROVE  Head(down) \in Message /\ Head(down).resp \in Nat
             /\ Head(down).calls \in SUBSET Call
  <2>1. Head(down) \in Message
    BY <1>0, HeadTailProperties DEF Incoming, SocketOK
  <2>. QED BY <2>1 DEF Message
<1>1. ASSUME NEW kind \in {"delta", "text", "transcript", "speech", "tool", "done", "error"},
             NEW r \in Nat, NEW k \in Call \union {NoCall}, Yield(kind, r, k)
      PROVE  event' \in Event
  BY <1>1 DEF Yield, Event
<1>2. CASE ReadCreated
  BY <1>2 DEF ReadCreated, SessionOK, serviceVars
<1>3. CASE ReadPlain
  BY <1>0, <1>1, <1>3 DEF ReadPlain, SessionOK, serviceVars
<1>4. CASE ReadSpeech
  BY <1>0, <1>1, <1>4, Asks DEF ReadSpeech, SessionOK, serviceVars
<1>5. CASE ReadDone
  BY <1>0, <1>1, <1>5 DEF ReadDone, SessionOK, serviceVars
<1>6. CASE \E k \in Call : Announce(k)
  BY <1>1, <1>6 DEF Announce, SessionOK, serviceVars
<1>. QED BY <1>2, <1>3, <1>4, <1>5, <1>6 DEF Reader

LEMMA HandledTyped == ASSUME SessionOK, Handled PROVE SessionOK'
<1>1. Nothing \in Event
  BY DEF Nothing, Event
<1>. QED BY <1>1 DEF Handled, Resumed, SessionOK, serviceVars

LEMMA SessionTyped ==
  ASSUME SocketOK, SessionOK, [VoiceNext]_allVars
  PROVE  SessionOK'
<1>1. CASE UNCHANGED vars
  BY <1>1 DEF vars, serviceVars, sessionVars, SessionOK
<1>2. CASE Service
  BY <1>2, ServiceTyped
<1>3. CASE Reader
  BY <1>3, ReaderTyped
<1>4. CASE Handled
  BY <1>4, HandledTyped
<1>5. CASE \E k \in Call : ToolTask(k)
  BY <1>5, Asks DEF ToolTask, SendOutput, AskResponse, SessionOK, serviceVars
<1>6. CASE Exit
  BY <1>6 DEF Exit, SessionOK, serviceVars
<1>. QED BY <1>1, <1>2, <1>3, <1>4, <1>5, <1>6 DEF VoiceNext, allVars, Running, Pump,
     HandleDelta, HandleText, HandleTranscript, HandleOther, HandleSpeech, Settle, Flush,
     Synth, Utter, Conclude, Unwind, SynthStep, Refuse, Instruct, Connect, Configure, Step,
     Leave, Break, Over

LEMMA Longer ==
  ASSUME NEW n \in Nat, NEW m \in {n, n + 1}
  PROVE  0..n \subseteq 0..m /\ 1..n \subseteq 1..m /\ m \in 0..m /\ 0 \in 0..m
  OBVIOUS

LEMMA EndpointTyped ==
  ASSUME Inv, SessionOK, EndpointOK, [VoiceNext]_allVars
  PROVE  EndpointOK'
<1>0. SocketOK /\ SynthOK
  BY DEF Inv
<1>1. CASE UNCHANGED voiceVars
  BY <1>1 DEF voiceVars, EndpointOK
<1>2. CASE HandleDelta \/ HandleText
  <2>1. /\ UNCHANGED <<conn, pump, at, awaited>> /\ lastUser' \in Nat
    <3>1. UNCHANGED <<conn, pump, at, awaited>> /\ lastUser' \in {0, lastUser}
      BY <1>2 DEF HandleDelta, HandleText, Persisted
    <3>. QED BY <3>1 DEF EndpointOK
  <2>2. \A whole \in BOOLEAN : Len(Started(event.resp, whole)) = Len(synth) + 1
    BY <1>0 DEF Started, SynthOK
  <2>3. Len(synth) \in Nat /\ DOMAIN synth = 1..Len(synth)
    BY <1>0, Tasks
  <2>4. synth' \in Seq(SynthState)
    BY <1>2, PumpKeeps DEF Pump, Inv, SynthOK
  <2>5. DOMAIN synth' = 1..Len(synth') /\ Len(synth') \in Nat
    BY <2>4
  <2>6. Len(synth') \in {Len(synth), Len(synth) + 1}
    <3>1. CASE \E whole \in BOOLEAN : synth' = Started(event.resp, whole)
      BY <2>2, <3>1
    <3>2. CASE DOMAIN synth' = DOMAIN synth
      BY <1>0, <2>4, <3>2 DEF SynthOK
    <3>. QED BY <1>2, <3>1, <3>2 DEF HandleDelta, HandleText
  <2>7. deltaQ' \in 0..Len(synth')
    <3>1. CASE deltaQ' \in {0, deltaQ}
      BY <2>3, <2>6, <3>1, Longer DEF EndpointOK
    <3>2. CASE deltaQ' = Len(synth) + 1 /\ synth' = Started(event.resp, FALSE)
      <4>1. Len(synth') = Len(synth) + 1
        BY <2>2, <3>2
      <4>. QED BY <2>3, <3>2, <4>1, Longer
    <3>. QED BY <1>2, <3>1, <3>2 DEF HandleDelta, HandleText
  <2>8. awaited' \subseteq DOMAIN synth'
    <3>1. DOMAIN synth \subseteq DOMAIN synth'
      BY <2>3, <2>5, <2>6, Longer
    <3>. QED BY <2>1, <3>1 DEF EndpointOK
  <2>. QED BY <2>1, <2>7, <2>8 DEF EndpointOK
<1>3. CASE HandleTranscript
  BY <1>0, <1>3 DEF HandleTranscript, SocketOK, EndpointOK
<1>4. CASE HandleSpeech \/ Exit
  <2>1. /\ Cancelled /\ UNCHANGED <<pump, lastUser>>
        /\ conn' \in {conn, "waiting"} /\ at' \in {at, "await"}
        /\ awaited' \in {awaited, DOMAIN synth}
    BY <1>4 DEF HandleSpeech, Exit
  <2>2. DOMAIN synth' = DOMAIN synth /\ SynthOK'
    BY <1>0, <2>1, CancelAll
  <2>3. Len(synth') \in Nat
    BY <2>2 DEF SynthOK
  <2>. QED BY <2>1, <2>2, <2>3 DEF Cancelled, EndpointOK
<1>5. CASE \E i \in DOMAIN synth : Synth(i)
  <2>1. UNCHANGED <<conn, pump, at, deltaQ, awaited, lastUser>>
    BY <1>5 DEF Synth, Utter, Conclude, Unwind, SynthStep
  <2>2. DOMAIN synth' = DOMAIN synth /\ SynthOK'
    BY <1>5, SynthKeeps DEF Inv
  <2>3. Len(synth') = Len(synth)
    BY <1>0, <2>2 DEF SynthOK
  <2>. QED BY <2>1, <2>2, <2>3 DEF EndpointOK
<1>6. CASE Settle \/ Flush \/ Leave \/ Break \/ Over \/ Refuse \/ Instruct \/ Connect
           \/ Configure
  BY <1>6 DEF Settle, Flush, Leave, Break, Over, Refuse, Instruct, Connect, Configure, Step,
     Opening, EndpointOK
<1>. QED BY <1>1, <1>2, <1>3, <1>4, <1>5, <1>6 DEF VoiceNext, allVars, Running, Pump,
     HandleOther

\* Requests name a call only to hand back its result, and the text queue is that of a
\* synthesis that was started.
THEOREM TypeCorrect == VoiceSpec => []VoiceTypeOK
<1> DEFINE Typed == SessionOK /\ EndpointOK
<1>1. VoiceInit => Typed
  <2> SUFFICES ASSUME VoiceInit PROVE Typed
    OBVIOUS
  <2>1. Nothing \in Event /\ <<>> \in Seq(Request) /\ Len(<<>>) = 0
    BY DEF Nothing, Event
  <2>2. SessionOK
    BY <2>1 DEF VoiceInit, Init, SessionOK
  <2>3. EndpointOK
    <3>1. Len(synth) = 0 /\ deltaQ = 0 /\ 0 \in 0..0
      BY <2>1 DEF VoiceInit
    <3>2. conn \in Opening /\ pump = FALSE /\ at = "idle" /\ awaited = {} /\ lastUser = 0
      BY DEF VoiceInit, Opening
    <3>. QED BY <3>1, <3>2 DEF EndpointOK
  <2>. QED BY <2>2, <2>3
<1>2. Inv /\ Typed /\ [VoiceNext]_allVars => Typed'
  BY SessionTyped, EndpointTyped DEF Inv
<1>3. Inv /\ Typed => VoiceTypeOK
  BY DEF Inv, SocketOK, SynthOK, SessionOK, EndpointOK, VoiceTypeOK, TypeOK
<1>. QED BY <1>1, <1>2, <1>3, InvInductive, PTL DEF VoiceSpec

-----------------------------------------------------------------------------
(* The end.                                                                *)

LEMMA LeavingInductive == VoiceSpec => [](Leaving /\ NoOrphan /\ Fresh)
<1> DEFINE Out == Leaving /\ NoOrphan /\ Fresh
           SettingUp == Refuse \/ Instruct \/ Connect \/ Configure
<1>1. VoiceInit => Out
  BY DEF VoiceInit, Leaving, NoOrphan, Fresh, Opening
<1>2. Inv /\ Out /\ [VoiceNext]_allVars => Out'
  <2> SUFFICES ASSUME Inv, Leaving, NoOrphan, Fresh, [VoiceNext]_allVars
               PROVE  Leaving' /\ NoOrphan' /\ Fresh'
    OBVIOUS
  <2>1. CASE conn = "open" /\ ~Exit
    <3>1. conn' \in {"open", "closing"}
      <4>1. conn' = conn \/ Leave \/ Break
        BY <2>1 DEF VoiceNext, allVars, voiceVars, Running, Pump, HandleDelta,
           HandleText, HandleTranscript, HandleOther, HandleSpeech, Settle, Flush, Synth,
           Utter, Conclude, Unwind, SynthStep, Over, Refuse, Instruct, Connect, Configure,
           Step
      <4>. QED BY <2>1, <4>1 DEF Leave, Break
    <3>. QED BY <3>1 DEF Leaving, NoOrphan, Fresh, Opening
  <2>2. CASE pump
    <3>0. conn \notin Opening /\ conn' \notin Opening
      <4>1. conn \notin Opening
        BY <2>2 DEF Fresh
      <4>. QED BY <4>1 DEF VoiceNext, allVars, voiceVars, Running, Pump, HandleDelta,
         HandleText, HandleTranscript, HandleOther, HandleSpeech, Settle, Flush, Synth,
         Utter, Conclude, Unwind, SynthStep, Break, Exit, Over, Leave, Refuse, Instruct,
         Connect, Configure, Step, Opening
    <3>1. pump' \/ Leave
      BY <2>2 DEF VoiceNext, allVars, voiceVars, Running, Pump, HandleDelta,
         HandleText, HandleTranscript, HandleOther, HandleSpeech, Settle, Flush, Synth,
         Utter, Conclude, Unwind, SynthStep, Break, Exit, Over, Refuse, Instruct, Connect,
         Configure, Step
    <3>2. CASE pump'
      <4>1. conn' = "over" => conn' # "open"
        OBVIOUS
      <4>. QED BY <3>0, <3>2, <4>1 DEF Leaving, NoOrphan, Broken, Fresh
    <3>3. CASE Leave
      BY <3>3 DEF Leave, Leaving, NoOrphan, Fresh, Opening
    <3>. QED BY <3>1, <3>2, <3>3
  <2>3. CASE SettingUp /\ conn \in Opening
    <3>1. ~pump /\ synth = <<>> /\ awaited = {} /\ UNCHANGED <<synth, awaited>>
      BY <2>3 DEF Fresh, Refuse, Instruct, Connect, Configure, Step
    <3>2. pump' => conn' = "open"
      BY <2>3, <3>1 DEF Refuse, Instruct, Connect, Configure, Step
    <3>3. DOMAIN synth' = {}
      BY <3>1
    <3>. QED BY <3>1, <3>2, <3>3 DEF Leaving, NoOrphan, Fresh, Opening
  <2>4. CASE ~pump /\ (conn # "open" \/ Exit) /\ ~SettingUp
    <3>1. CASE Exit
      <4>1. Cancelled /\ conn' = "waiting" /\ awaited' = DOMAIN synth
        BY <3>1 DEF Exit
      <4>2. DOMAIN synth' = DOMAIN synth /\ \A i \in DOMAIN synth : synth'[i].pc # "run"
        BY <4>1, CancelAll DEF Inv
      <4>. QED BY <4>1, <4>2 DEF Leaving, NoOrphan, Fresh, Opening
    <3>2. CASE Over
      BY <2>4, <3>2 DEF Over, Leaving, NoOrphan, Fresh, Opening
    <3>3. CASE \E i \in DOMAIN synth : Synth(i)
      <4>1. PICK i \in DOMAIN synth : Synth(i)
        BY <3>3
      <4>2. /\ DOMAIN synth' = DOMAIN synth
            /\ \A j \in DOMAIN synth : synth'[j].pc = "run" => synth[j].pc = "run"
            /\ \A j \in DOMAIN synth : synth[j].pc = "over" => synth'[j].pc = "over"
        BY <4>1, SynthKeeps
      <4>3. UNCHANGED <<conn, pump, awaited>>
        BY <4>1 DEF Synth, Utter, Conclude, Unwind, SynthStep
      <4>4. conn \notin Opening
        BY <4>1 DEF Fresh
      <4>. QED BY <2>4, <4>2, <4>3, <4>4 DEF Leaving, NoOrphan, Broken, Fresh
    <3>4. CASE UNCHANGED <<conn, pump, awaited, synth>>
      BY <3>4 DEF Leaving, NoOrphan, Broken, Fresh
    <3>. QED BY <2>4, <3>1, <3>2, <3>3, <3>4 DEF VoiceNext, allVars, voiceVars, Running,
         Pump, HandleDelta, HandleText, HandleTranscript, HandleOther, HandleSpeech,
         Handling, Settle, Flush, Leave, Break
  <2>5. SettingUp => conn \in Opening
    BY DEF Refuse, Instruct, Connect, Configure, Step, Opening
  <2>. QED BY <2>1, <2>2, <2>3, <2>4, <2>5
<1>. QED BY <1>1, <1>2, InvInductive, PTL DEF VoiceSpec

\* No synthesis outlives the endpoint, unless the service closed its socket.
THEOREM NoneOrphaned == VoiceSpec => []NoOrphan
<1>1. Leaving /\ NoOrphan /\ Fresh => NoOrphan
  OBVIOUS
<1>. QED BY <1>1, LeavingInductive, PTL
-----------------------------------------------------------------------------
(* What the session knows of the service.                                  *)

\* _response_active after the first n messages of q, starting from a.
On(q, a, n) ==
  \E i \in 0..n : /\ (i = 0 /\ a) \/ (i > 0 /\ q[i].kind = "created")
                  /\ \A j \in (i+1)..n : q[j].kind \notin {"done", "speech"}

Pending(kind) == \E i \in DOMAIN up : up[i].kind = kind

\* A speech among the unread messages that finds the flag set will be answered
\* with a cancel.
WillCancel ==
  \E n \in DOMAIN down : down[n].kind = "speech" /\ On(down, active, n - 1)

\* After everything unread the flag is only set if a response is generated or
\* asked for; a response it misses is about to be cancelled.
Settling ==
  /\ On(down, active, Len(down)) => resp # 0 \/ Pending("create")
  /\ resp # 0 => On(down, active, Len(down)) \/ Pending("cancel") \/ WillCancel

LEMMA OnAppend ==
  ASSUME NEW q \in Seq(Message), NEW m \in Message, NEW a \in BOOLEAN
  PROVE  /\ \A n \in 0..Len(q) : On(Append(q, m), a, n) <=> On(q, a, n)
         /\ m.kind = "created" => On(Append(q, m), a, Len(q) + 1)
         /\ m.kind \notin {"created", "done", "speech"} =>
              (On(Append(q, m), a, Len(q) + 1) <=> On(q, a, Len(q)))
<1> DEFINE p == Append(q, m)
<1>1. /\ Len(q) \in Nat
      /\ \A i \in 1..Len(q) : p[i] = q[i]
      /\ p[Len(q) + 1] = m
  BY AppendProperties, LenProperties
<1>. HIDE DEF p
<1>2. ASSUME NEW n \in 0..Len(q) PROVE On(p, a, n) <=> On(q, a, n)
  <2>1. \A i \in 0..n : i > 0 => p[i] = q[i]
    BY <1>1
  <2>2. \A i \in 0..n : \A j \in (i+1)..n : p[j] = q[j]
    BY <1>1
  <2>. QED BY <2>1, <2>2 DEF On
<1>3. m.kind = "created" => On(p, a, Len(q) + 1)
  BY <1>1 DEF On
<1>4. ASSUME m.kind \notin {"created", "done", "speech"}
      PROVE  On(p, a, Len(q) + 1) <=> On(p, a, Len(q))
  <2>1. ASSUME On(p, a, Len(q) + 1) PROVE On(p, a, Len(q))
    <3>1. PICK i \in 0..(Len(q) + 1) :
            /\ (i = 0 /\ a) \/ (i > 0 /\ p[i].kind = "created")
            /\ \A j \in (i+1)..(Len(q) + 1) : p[j].kind \notin {"done", "speech"}
      BY <2>1 DEF On
    <3>2. i \in 0..Len(q)
      BY <1>1, <1>4, <3>1
    <3>3. \A j \in (i+1)..Len(q) : j \in (i+1)..(Len(q) + 1)
      BY <1>1
    <3>. QED BY <3>1, <3>2, <3>3 DEF On
  <2>2. ASSUME On(p, a, Len(q)) PROVE On(p, a, Len(q) + 1)
    <3>1. PICK i \in 0..Len(q) :
            /\ (i = 0 /\ a) \/ (i > 0 /\ p[i].kind = "created")
            /\ \A j \in (i+1)..Len(q) : p[j].kind \notin {"done", "speech"}
      BY <2>2 DEF On
    <3>2. \A j \in (i+1)..(Len(q) + 1) : j \in (i+1)..Len(q) \/ j = Len(q) + 1
      BY <1>1
    <3>3. \A j \in (i+1)..(Len(q) + 1) : p[j].kind \notin {"done", "speech"}
      BY <1>1, <1>4, <3>1, <3>2
    <3>4. i \in 0..(Len(q) + 1)
      BY <1>1
    <3>. QED BY <3>1, <3>3, <3>4 DEF On
  <2>. QED BY <2>1, <2>2
<1>. QED BY <1>1, <1>2, <1>3, <1>4 DEF p

LEMMA OnLast ==
  ASSUME NEW q, NEW a, NEW n \in Nat \ {0}, q[n].kind \in {"done", "speech"}
  PROVE  ~On(q, a, n)
<1>1. \A i \in 0..n : i = n \/ n \in (i+1)..n
  OBVIOUS
<1>. QED BY <1>1 DEF On

\* Reading a message moves the flag by one.
LEMMA OnTail ==
  ASSUME NEW q \in Seq(Message), q # <<>>, NEW a \in BOOLEAN, NEW b \in BOOLEAN,
         Head(q).kind = "created" => b,
         Head(q).kind \in {"done", "speech"} => ~b,
         Head(q).kind \notin {"created", "done", "speech"} => (b <=> a),
         NEW n \in 0..(Len(q) - 1)
  PROVE  On(Tail(q), b, n) <=> On(q, a, n + 1)
<1> DEFINE p == Tail(q)
<1>1. /\ Len(q) \in Nat \ {0} /\ Head(q) = q[1]
      /\ \A i \in 1..(Len(q) - 1) : p[i] = q[i+1]
  BY HeadTailProperties, LenProperties, EmptySeq
<1>. HIDE DEF p
<1>2. ASSUME On(p, b, n) PROVE On(q, a, n + 1)
  <2>1. PICK i \in 0..n :
          /\ (i = 0 /\ b) \/ (i > 0 /\ p[i].kind = "created")
          /\ \A j \in (i+1)..n : p[j].kind \notin {"done", "speech"}
    BY <1>2 DEF On
  <2>2. \A j \in (i+2)..(n+1) : j - 1 \in (i+1)..n /\ q[j] = p[j-1]
    BY <1>1
  <2>3. \A j \in (i+2)..(n+1) : q[j].kind \notin {"done", "speech"}
    BY <2>1, <2>2
  <2>4. CASE i > 0 \/ q[1].kind = "created"
    <3>1. q[i+1].kind = "created"
      <4>1. CASE i > 0
        BY <1>1, <2>1, <4>1
      <4>2. CASE i = 0
        BY <2>4, <4>2
      <4>. QED BY <4>1, <4>2
    <3>2. i + 1 \in 0..(n+1) /\ i + 1 > 0 /\ (i + 1) + 1 = i + 2
      OBVIOUS
    <3>. QED BY <2>3, <3>1, <3>2 DEF On
  <2>5. CASE i = 0 /\ q[1].kind # "created"
    <3>1. b
      BY <2>1, <2>5
    <3>2. a /\ q[1].kind \notin {"done", "speech"}
      BY <1>1, <2>5, <3>1
    <3>3. \A j \in 1..(n+1) : j = 1 \/ j \in (i+2)..(n+1)
      BY <2>5
    <3>4. \A j \in (0+1)..(n+1) : q[j].kind \notin {"done", "speech"}
      BY <2>3, <3>2, <3>3
    <3>5. 0 \in 0..(n+1)
      OBVIOUS
    <3>. QED BY <3>2, <3>4, <3>5 DEF On
  <2>. QED BY <2>4, <2>5
<1>3. ASSUME On(q, a, n + 1) PROVE On(p, b, n)
  <2>1. PICK i \in 0..(n+1) :
          /\ (i = 0 /\ a) \/ (i > 0 /\ q[i].kind = "created")
          /\ \A j \in (i+1)..(n+1) : q[j].kind \notin {"done", "speech"}
    BY <1>3 DEF On
  <2>2. \A j \in 1..n : j >= i => q[j+1].kind \notin {"done", "speech"} /\ p[j] = q[j+1]
    <3>1. \A j \in 1..n : j >= i => j + 1 \in (i+1)..(n+1)
      OBVIOUS
    <3>. QED BY <1>1, <2>1, <3>1
  <2>3. CASE i > 1
    <3>1. i - 1 \in 0..n /\ i - 1 > 0 /\ (i - 1) + 1 = i
      BY <2>3
    <3>2. p[i - 1].kind = "created"
      <4>1. i - 1 \in 1..(Len(q) - 1) /\ (i - 1) + 1 = i
        BY <1>1, <2>3
      <4>. QED BY <1>1, <2>1, <2>3, <4>1
    <3>3. \A j \in i..n : p[j].kind \notin {"done", "speech"}
      BY <2>2, <2>3
    <3>. QED BY <3>1, <3>2, <3>3 DEF On
  <2>4. CASE i = 0 \/ i = 1
    <3>1. b
      <4>1. CASE i = 1
        BY <1>1, <2>1, <4>1
      <4>2. CASE i = 0
        <5>1. a /\ q[1].kind \notin {"done", "speech"}
          BY <2>1, <4>2
        <5>. QED BY <1>1, <5>1
      <4>. QED BY <2>4, <4>1, <4>2
    <3>2. \A j \in (0+1)..n : p[j].kind \notin {"done", "speech"}
      BY <2>2, <2>4
    <3>3. 0 \in 0..n
      OBVIOUS
    <3>. QED BY <3>1, <3>2, <3>3 DEF On
  <2>. QED BY <2>3, <2>4
<1>. QED BY <1>2, <1>3 DEF p

LEMMA PendingMoves ==
  ASSUME up \in Seq(Request)
  PROVE  /\ \A x \in Request : up' = Append(up, x) =>
              Pending(x.kind)' /\ \A kind : Pending(kind) => Pending(kind)'
         /\ up # <<>> /\ up' = Tail(up) =>
              \A kind : Pending(kind) /\ Head(up).kind # kind => Pending(kind)'
<1>1. ASSUME NEW x \in Request, up' = Append(up, x)
      PROVE  Pending(x.kind)' /\ \A kind : Pending(kind) => Pending(kind)'
  <2>1. /\ Len(up) \in Nat /\ DOMAIN up = 1..Len(up)
        /\ DOMAIN up' = 1..(Len(up) + 1)
        /\ \A i \in 1..Len(up) : up'[i] = up[i]
        /\ up'[Len(up) + 1] = x
    BY <1>1, AppendProperties, LenProperties
  <2>2. Len(up) + 1 \in DOMAIN up' /\ \A i \in DOMAIN up : i \in DOMAIN up'
    BY <2>1
  <2>. QED BY <2>1, <2>2 DEF Pending
<1>2. ASSUME up # <<>>, up' = Tail(up), NEW kind, Pending(kind), Head(up).kind # kind
      PROVE  Pending(kind)'
  <2>1. /\ Len(up) \in Nat /\ DOMAIN up = 1..Len(up) /\ Head(up) = up[1]
        /\ DOMAIN up' = 1..(Len(up) - 1)
        /\ \A i \in 1..(Len(up) - 1) : up'[i] = up[i+1]
    BY <1>2, HeadTailProperties, LenProperties, EmptySeq
  <2>2. PICK i \in DOMAIN up : up[i].kind = kind
    BY <1>2 DEF Pending
  <2>3. i - 1 \in 1..(Len(up) - 1) /\ (i - 1) + 1 = i
    BY <1>2, <2>1, <2>2
  <2>. QED BY <2>1, <2>2, <2>3 DEF Pending
<1>. QED BY <1>1, <1>2

\* The service sends a message.
LEMMA FlagSent ==
  ASSUME SocketOK, active \in BOOLEAN, active' = active, NEW m \in Message,
         down' = Append(down, m)
  PROVE  /\ WillCancel => WillCancel'
         /\ m.kind = "created" => On(down, active, Len(down))'
         /\ m.kind \in {"done", "speech"} => ~On(down, active, Len(down))'
         /\ m.kind \notin {"created", "done", "speech"} =>
              (On(down, active, Len(down))' <=> On(down, active, Len(down)))
         /\ m.kind = "speech" /\ On(down, active, Len(down)) => WillCancel'
<1>0. down \in Seq(Message)
  BY DEF SocketOK
<1>1. /\ Len(down) \in Nat /\ DOMAIN down = 1..Len(down)
      /\ Len(down') = Len(down) + 1 /\ DOMAIN down' = 1..(Len(down) + 1)
      /\ \A i \in 1..Len(down) : down'[i] = down[i]
      /\ down'[Len(down) + 1] = m
  BY <1>0, AppendProperties, LenProperties
<1>2. \A n \in 0..Len(down) : On(down', active, n) <=> On(down, active, n)
  BY <1>0, OnAppend
<1>3. WillCancel => WillCancel'
  <2>1. \A n \in DOMAIN down : n \in DOMAIN down' /\ n - 1 \in 0..Len(down)
    BY <1>1
  <2>. QED BY <1>1, <1>2, <2>1 DEF WillCancel
<1>4. m.kind \in {"done", "speech"} => ~On(down', active, Len(down'))
  <2>1. Len(down) + 1 \in Nat \ {0}
    BY <1>1
  <2>. QED BY <1>1, <2>1, OnLast
<1>5. m.kind = "speech" /\ On(down, active, Len(down)) => WillCancel'
  <2>1. /\ Len(down) + 1 \in DOMAIN down' /\ (Len(down) + 1) - 1 = Len(down)
        /\ Len(down) \in 0..Len(down)
    BY <1>1
  <2>. QED BY <1>1, <1>2, <2>1 DEF WillCancel
<1>. QED BY <1>0, <1>1, <1>3, <1>4, <1>5, OnAppend

\* The end of a response clears the flag.
LEMMA FlagEnded ==
  ASSUME SocketOK, down' = down \o Ending
  PROVE  ~On(down, active, Len(down))'
<1> DEFINE over == Msg("done", resp, wants)
           text == IF said > 0 THEN <<Msg("text", resp, {})>> ELSE <<>>
<1>1. /\ over \in Message /\ text \in Seq(Message) /\ down \in Seq(Message)
      /\ over.kind = "done" /\ Ending = text \o <<over>>
  <2>1. over \in Message /\ Msg("text", resp, {}) \in Message
    BY MsgIs DEF SocketOK
  <2>. QED BY <2>1 DEF Ending, Msg, SocketOK
<1>. HIDE DEF over, text
<1>2. down' = Append(down \o text, over)
  BY <1>1
<1>3. down \o text \in Seq(Message)
  BY <1>1, ConcatProperties
<1>4. Len(down') = Len(down \o text) + 1 /\ down'[Len(down')] = over /\ Len(down') \in Nat \ {0}
  BY <1>1, <1>2, <1>3, AppendProperties, LenProperties
<1>. QED BY <1>1, <1>4, OnLast

\* The session reads one.
LEMMA FlagRead ==
  ASSUME SocketOK, active \in BOOLEAN, active' \in BOOLEAN, NEW kind, Incoming(kind),
         kind = "created" => active',
         kind \in {"done", "speech"} => ~active',
         kind \notin {"created", "done", "speech"} => (active' <=> active)
  PROVE  /\ On(down, active, Len(down))' <=> On(down, active, Len(down))
         /\ WillCancel => WillCancel' \/ (kind = "speech" /\ active)
<1>0. down \in Seq(Message) /\ down # <<>> /\ Head(down).kind = kind /\ down' = Tail(down)
  BY DEF SocketOK, Incoming
<1>1. /\ Len(down) \in Nat \ {0} /\ DOMAIN down = 1..Len(down) /\ Head(down) = down[1]
      /\ Len(down') = Len(down) - 1 /\ DOMAIN down' = 1..(Len(down) - 1)
      /\ \A i \in 1..(Len(down) - 1) : down'[i] = down[i+1]
  BY <1>0, HeadTailProperties, LenProperties, EmptySeq
<1>2. \A n \in 0..(Len(down) - 1) : On(down', active', n) <=> On(down, active, n + 1)
  BY <1>0, OnTail
<1>3. On(down', active', Len(down')) <=> On(down, active, Len(down))
  <2>1. Len(down') \in 0..(Len(down) - 1) /\ Len(down') + 1 = Len(down)
    BY <1>1
  <2>. QED BY <1>2, <2>1
<1>4. ASSUME WillCancel PROVE WillCancel' \/ (kind = "speech" /\ active)
  <2>1. PICK n \in DOMAIN down : down[n].kind = "speech" /\ On(down, active, n - 1)
    BY <1>4 DEF WillCancel
  <2>2. CASE n = 1
    <3>1. On(down, active, 0)
      BY <2>1, <2>2
    <3>2. active
      BY <3>1 DEF On
    <3>. QED BY <1>0, <1>1, <2>1, <2>2, <3>2
  <2>3. CASE n # 1
    <3>1. /\ n - 1 \in DOMAIN down' /\ (n - 1) + 1 = n
          /\ (n - 1) - 1 \in 0..(Len(down) - 1) /\ ((n - 1) - 1) + 1 = n - 1
      BY <1>1, <2>1, <2>3
    <3>2. down'[n - 1].kind = "speech"
      BY <1>1, <2>1, <3>1
    <3>3. On(down', active', (n - 1) - 1)
      BY <1>2, <2>1, <3>1
    <3>. QED BY <3>1, <3>2, <3>3 DEF WillCancel
  <2>. QED BY <2>2, <2>3
<1>. QED BY <1>3, <1>4

\* A flag set early leaves no less set.
LEMMA FlagSet ==
  ASSUME active', down' = down
  PROVE  /\ On(down, active, Len(down)) => On(down, active, Len(down))'
         /\ WillCancel => WillCancel'
<1>1. \A n : On(down, active, n) => On(down', active', n)
  BY DEF On
<1>. QED BY <1>1 DEF WillCancel

LEMMA MsgHas ==
  ASSUME NEW kind, NEW r, NEW calls
  PROVE  Msg(kind, r, calls).kind = kind
  BY DEF Msg

LEMMA ServiceSettles ==
  ASSUME SocketOK, SessionOK, Settling, Service
  PROVE  Settling'
<1>0. up \in Seq(Request) /\ active \in BOOLEAN /\ active' = active
  BY DEF SessionOK, Service, Speak, EndTurn, Transcribe, Say, Finish, OnCancel, OnOutput,
     OnCreate, CallTool, sessionVars
<1>a. created + 1 # 0
  BY DEF SocketOK
<1>1. CASE Speak
  <2>1. /\ Msg("speech", resp, {}) \in Message /\ Msg("speech", resp, {}).kind = "speech"
        /\ down' = Append(down, Msg("speech", resp, {})) /\ UNCHANGED <<resp, up>>
    BY <1>1, MsgIs, MsgHas DEF SocketOK, Speak
  <2>2. /\ WillCancel => WillCancel'
        /\ ~On(down, active, Len(down))'
        /\ On(down, active, Len(down)) => WillCancel'
    BY <1>0, <2>1, FlagSent
  <2>3. \A kind : Pending(kind)' <=> Pending(kind)
    BY <2>1 DEF Pending
  <2>. QED BY <2>1, <2>2, <2>3 DEF Settling
<1>2. CASE Respond /\ UNCHANGED up
  <2>1. On(down, active, Len(down))' /\ resp' # 0
    <3>1. /\ Msg("created", created + 1, {}) \in Message
          /\ Msg("created", created + 1, {}).kind = "created"
      BY MsgIs, MsgHas DEF SocketOK
    <3>. QED BY <1>0, <1>a, <1>2, <3>1, FlagSent DEF Respond
  <2>. QED BY <2>1 DEF Settling
<1>3. CASE Transcribe \/ Say
  <2>1. PICK m \in Message : /\ m.kind \in {"transcript", "delta"} /\ down' = Append(down, m)
                             /\ UNCHANGED <<resp, up>>
    <3>1. /\ Msg("transcript", heard + 1, {}) \in Message /\ Msg("delta", resp, {}) \in Message
          /\ Msg("transcript", heard + 1, {}).kind = "transcript"
          /\ Msg("delta", resp, {}).kind = "delta"
      BY MsgIs, MsgHas DEF SocketOK
    <3>. QED BY <1>3, <3>1 DEF Transcribe, Say
  <2>2. /\ WillCancel => WillCancel'
        /\ On(down, active, Len(down))' <=> On(down, active, Len(down))
    BY <1>0, <2>1, FlagSent
  <2>. QED BY <2>1, <2>2 DEF Settling, Pending
<1>4. CASE down' = down \o Ending /\ resp' = 0
  <2>1. ~On(down, active, Len(down))'
    BY <1>4, FlagEnded
  <2>. QED BY <1>4, <2>1 DEF Settling
<1>5. ASSUME resp' = resp, up # <<>>, up' = Tail(up),
             \/ Head(up).kind = "cancel" /\ resp = 0
             \/ Head(up).kind = "create" /\ resp # 0,
             down' = Append(down, Msg("error", 0, {}))
      PROVE  Settling'
  <2>1. Msg("error", 0, {}) \in Message /\ Msg("error", 0, {}).kind = "error"
    BY MsgIs DEF Msg
  <2>2. /\ WillCancel => WillCancel'
        /\ On(down, active, Len(down))' <=> On(down, active, Len(down))
    BY <1>0, <1>5, <2>1, FlagSent
  <2>3. \A kind : Pending(kind) /\ Head(up).kind # kind => Pending(kind)'
    BY <1>0, <1>5, PendingMoves
  <2>4. CASE Head(up).kind = "cancel" /\ resp = 0
    BY <1>5, <2>2, <2>3, <2>4 DEF Settling
  <2>5. CASE Head(up).kind = "create" /\ resp # 0
    BY <1>5, <2>2, <2>3, <2>5 DEF Settling
  <2>. QED BY <1>5, <2>4, <2>5
<1>6. CASE OnCancel
  BY <1>4, <1>5, <1>6 DEF OnCancel
<1>7. CASE OnOutput
  <2>1. \A kind \in {"create", "cancel"} : Pending(kind) => Pending(kind)'
    BY <1>0, <1>7, PendingMoves DEF OnOutput
  <2>2. UNCHANGED <<down, resp>>
    BY <1>7 DEF OnOutput
  <2>. QED BY <1>0, <2>1, <2>2 DEF Settling, WillCancel
<1>8. CASE OnCreate
  <2>1. CASE resp = 0
    <3>1. On(down, active, Len(down))' /\ resp' # 0
      <4>1. /\ Msg("created", created + 1, {}) \in Message
            /\ Msg("created", created + 1, {}).kind = "created"
        BY MsgIs, MsgHas DEF SocketOK
      <4>. QED BY <1>0, <1>a, <1>8, <2>1, <4>1, FlagSent DEF OnCreate, Respond
    <3>. QED BY <3>1 DEF Settling
  <2>2. CASE resp # 0
    BY <1>5, <1>8, <2>2 DEF OnCreate
  <2>. QED BY <2>1, <2>2
<1>9. CASE UNCHANGED <<down, up, resp>>
  BY <1>0, <1>9 DEF Settling, Pending, WillCancel
<1>. QED BY <1>1, <1>2, <1>3, <1>4, <1>6, <1>7, <1>8, <1>9
     DEF Service, EndTurn, Finish, CallTool

LEMMA ReaderSettles ==
  ASSUME SocketOK, SessionOK, Settling, Reader
  PROVE  Settling'
<1>0. up \in Seq(Request) /\ active \in BOOLEAN /\ resp' = resp
  BY DEF SessionOK, Reader, ReadCreated, ReadPlain, ReadSpeech, ReadDone, Announce, serviceVars
<1>1. CASE ReadCreated
  <2>1. Incoming("created") /\ active' = TRUE /\ up' = up
    BY <1>1 DEF ReadCreated
  <2>2. /\ On(down, active, Len(down))' <=> On(down, active, Len(down))
        /\ WillCancel => WillCancel'
    BY <1>0, <2>1, FlagRead
  <2>. QED BY <1>0, <2>1, <2>2 DEF Settling, Pending
<1>2. CASE ReadPlain
  <2>1. PICK kind \in {"delta", "text", "transcript", "error"} : Incoming(kind)
    BY <1>2 DEF ReadPlain
  <2>2. active' = active /\ up' = up
    BY <1>2 DEF ReadPlain
  <2>3. /\ On(down, active, Len(down))' <=> On(down, active, Len(down))
        /\ WillCancel => WillCancel'
    BY <1>0, <2>1, <2>2, FlagRead
  <2>. QED BY <1>0, <2>2, <2>3 DEF Settling, Pending
<1>3. CASE ReadSpeech
  <2>1. Incoming("speech") /\ active' = FALSE
    BY <1>3 DEF ReadSpeech
  <2>2. /\ On(down, active, Len(down))' <=> On(down, active, Len(down))
        /\ WillCancel => WillCancel' \/ active
    BY <1>0, <2>1, FlagRead
  <2>3. CASE active
    <3>1. /\ [kind |-> "cancel", call |-> NoCall] \in Request
          /\ up' = Append(up, [kind |-> "cancel", call |-> NoCall])
      BY <1>3, <2>3 DEF ReadSpeech, Request
    <3>2. Pending("cancel")' /\ (Pending("create") => Pending("create")')
      BY <1>0, <3>1, PendingMoves
    <3>. QED BY <1>0, <2>2, <3>2 DEF Settling
  <2>4. CASE ~active
    <3>1. up' = up
      BY <1>3, <2>4 DEF ReadSpeech
    <3>. QED BY <1>0, <2>2, <2>4, <3>1 DEF Settling, Pending
  <2>. QED BY <2>3, <2>4
<1>4. CASE ReadDone
  <2>1. Incoming("done") /\ active' = FALSE /\ up' = up
    BY <1>4 DEF ReadDone
  <2>2. /\ On(down, active, Len(down))' <=> On(down, active, Len(down))
        /\ WillCancel => WillCancel'
    BY <1>0, <2>1, FlagRead
  <2>. QED BY <1>0, <2>1, <2>2 DEF Settling, Pending
<1>5. CASE \E k \in Call : Announce(k)
  BY <1>0, <1>5 DEF Announce, Settling, Pending, WillCancel
<1>. QED BY <1>1, <1>2, <1>3, <1>4, <1>5 DEF Reader

LEMMA ToolSettles ==
  ASSUME SocketOK, SessionOK, Settling, NEW k \in Call, ToolTask(k)
  PROVE  Settling'
<1>0. up \in Seq(Request) /\ active \in BOOLEAN /\ UNCHANGED <<resp, down>>
  BY DEF SessionOK, ToolTask, SendOutput, AskResponse, serviceVars
<1>1. CASE SendOutput(k)
  <2>1. active' = active /\ up' = Append(up, Result(k)) /\ Result(k) \in Request
    BY <1>1 DEF SendOutput, Result, Request
  <2>2. \A kind : Pending(kind) => Pending(kind)'
    BY <1>0, <2>1, PendingMoves
  <2>. QED BY <1>0, <2>1, <2>2 DEF Settling, WillCancel
<1>2. CASE AskResponse(k)
  <2>1. active'
    BY <1>2 DEF AskResponse
  <2>2. /\ On(down, active, Len(down)) => On(down, active, Len(down))'
        /\ WillCancel => WillCancel'
    BY <1>0, <2>1, FlagSet
  <2>3. CASE active
    <3>1. up' = up /\ active' = active
      BY <1>0, <1>2, <2>3 DEF AskResponse
    <3>. QED BY <1>0, <3>1 DEF Settling, Pending, WillCancel
  <2>4. CASE ~active
    <3>1. /\ [kind |-> "create", call |-> NoCall] \in Request
          /\ up' = Append(up, [kind |-> "create", call |-> NoCall])
      BY <1>2, <2>4 DEF AskResponse, Request
    <3>2. Pending("create")' /\ (Pending("cancel") => Pending("cancel")')
      BY <1>0, <3>1, PendingMoves
    <3>. QED BY <1>0, <2>2, <3>2 DEF Settling
  <2>. QED BY <2>3, <2>4
<1>. QED BY <1>1, <1>2 DEF ToolTask

LEMMA SettlingKept ==
  ASSUME SocketOK, SessionOK, Settling, [VoiceNext]_allVars
  PROVE  Settling'
<1>1. CASE Service
  BY <1>1, ServiceSettles
<1>2. CASE Reader
  BY <1>2, ReaderSettles
<1>3. CASE \E k \in Call : ToolTask(k)
  BY <1>3, ToolSettles
<1>4. CASE UNCHANGED <<down, up, active, resp>>
  BY <1>4 DEF Settling, Pending, WillCancel
<1>5. ASSUME UNCHANGED vars \/ Handled \/ Exit PROVE UNCHANGED <<down, up, active, resp>>
  BY <1>5 DEF vars, serviceVars, sessionVars, Handled, Exit
<1>. QED BY <1>1, <1>2, <1>3, <1>4, <1>5 DEF VoiceNext, allVars, Running, Pump,
     HandleDelta, HandleText, HandleTranscript, HandleOther, HandleSpeech, Settle, Flush,
     Synth, Utter, Conclude, Unwind, SynthStep, Refuse, Instruct, Connect, Configure, Step,
     Leave, Break, Over

\* Once everything sent has been read, the session knows whether the service is
\* generating: for any turns and tools, in any order of barge-ins, cancels, ends
\* of responses and requests for new ones that cross on the socket.
THEOREM FlagIsRight == VoiceSpec => []FlagSettles
<1>1. VoiceInit => SessionOK /\ Settling
  <2> SUFFICES ASSUME VoiceInit PROVE SessionOK /\ Settling
    OBVIOUS
  <2>1. Nothing \in Event /\ <<>> \in Seq(Request) /\ Len(<<>>) = 0
    BY DEF Nothing, Event
  <2>2. SessionOK
    BY <2>1 DEF VoiceInit, Init, SessionOK
  <2>3. resp = 0 /\ ~active /\ Len(down) = 0
    BY <2>1 DEF VoiceInit, Init
  <2>4. ~On(down, active, 0)
    BY <2>3 DEF On
  <2>. QED BY <2>2, <2>3, <2>4 DEF Settling
<1>2. Inv /\ SessionOK /\ Settling /\ [VoiceNext]_allVars => SessionOK' /\ Settling'
  BY SessionTyped, SettlingKept DEF Inv
<1>3. Settling => FlagSettles
  <2> SUFFICES ASSUME Settling, down = <<>>, up = <<>> PROVE active <=> resp # 0
    BY DEF FlagSettles
  <2>1. Len(down) = 0 /\ ~WillCancel /\ \A kind : ~Pending(kind)
    BY DEF WillCancel, Pending
  <2>2. On(down, active, 0) <=> active
    BY DEF On
  <2>. QED BY <2>1, <2>2 DEF Settling
<1>. QED BY <1>1, <1>2, <1>3, InvInductive, PTL DEF VoiceSpec

=============================================================================
