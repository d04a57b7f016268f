-------------------------- MODULE VoiceClientProofs --------------------------
(***************************************************************************)
(* VoiceClient, for any number of starts, turns and taps: types; no        *)
(* microphone is open but the session's own and one capture feeds the      *)
(* recogniser, as long as starts do not overlap; Gia is not fed her own    *)
(* voice as long as one thing happens at a time and no chunk is refused;   *)
(* and a session never goes deaf.                                          *)
(***************************************************************************)
EXTENDS VoiceClient, TLAPS

-----------------------------------------------------------------------------
(* Types.                                                                  *)

LEMMA Bounds ==
  MaxStart \in Nat /\ MaxTurn \in Nat /\ MaxDone \in Nat /\ MaxPending \in Nat
  BY ClientConstants DEF ClientConstants

LEMMA StreamsAre == Begun \in Stream /\ NoStream \in Stream
  BY Bounds DEF Begun, NoStream, Stream

\* What flush keeps of a player, and what it needs to end its stream.
LEMMA FlushedIs ==
  ASSUME NEW p \in Stream
  PROVE  /\ Flushed(p) \in Stream
         /\ Flushed(p).active = p.active /\ Flushed(p).ended = p.ended
         /\ p.ms # "none" => Flushed(p).ms # "none"
<1>1. CASE p.sb = "idle" /\ p.pending > 0
  <2>1. Flushed(p) = [p EXCEPT !.pending = p.pending - 1, !.sb = "busy", !.ms = "open",
                                 !.sounds = TRUE]
    BY <1>1 DEF Flushed
  <2>2. p.pending - 1 \in 0..MaxPending
    BY <1>1, Bounds DEF Stream
  <2>. QED BY <2>1, <2>2 DEF Stream
<1>2. CASE p.sb # "idle" \/ ~(p.pending > 0)
  BY <1>2 DEF Flushed, Stream
<1>. QED BY <1>1, <1>2

LEMMA PushedIs ==
  ASSUME NEW p \in Stream, p.pending < MaxPending
  PROVE  /\ Pushed(p) \in Stream
         /\ Pushed(p).active = p.active /\ Pushed(p).ended = p.ended
         /\ p.ms # "none" => Pushed(p).ms # "none"
<1> DEFINE q == [p EXCEPT !.pending = p.pending + 1]
<1>1. p.pending + 1 \in 0..MaxPending
  BY Bounds DEF Stream
<1>2. q \in Stream /\ q.active = p.active /\ q.ended = p.ended /\ q.ms = p.ms
  BY <1>1 DEF Stream
<1>3. Pushed(p) = IF p.ms = "none" THEN p ELSE Flushed(q)
  BY DEF Pushed
<1>. HIDE DEF q
<1>. QED BY <1>2, <1>3, FlushedIs

LEMMA EndedIs ==
  ASSUME NEW p \in Stream
  PROVE  /\ Ended(p) \in Stream
         /\ Ended(p).active = p.active
         /\ p.ms # "none" => Ended(p).ms # "none" /\ Ended(p).ended
         /\ p.ended => Ended(p).ended
<1> DEFINE q == [p EXCEPT !.ended = TRUE]
<1>1. q \in Stream /\ q.active = p.active /\ q.ended = TRUE /\ q.ms = p.ms
  BY DEF Stream
<1>2. Ended(p) = IF p.ms = "none" THEN p ELSE Flushed(q)
  BY DEF Ended
<1>. HIDE DEF q
<1>. QED BY <1>1, <1>2, FlushedIs

\* Shut changes nothing of a call but its socket, its capture and what it has heard.
LEMMA ShutIs ==
  ASSUME NEW r \in [Start -> Call], NEW i \in {0} \cup Start
  PROVE  /\ Shut(r, i) \in [Start -> Call]
         /\ \A j \in Start : Shut(r, i)[j].pc = r[j].pc /\ Shut(r, i)[j].mic = r[j].mic
         /\ \A j \in Start : j # i => Shut(r, i)[j] = r[j]
         /\ i # 0 => Shut(r, i)[i].cap = IF r[i].cap = "on" THEN "off" ELSE r[i].cap
<1>1. CASE i = 0
  BY <1>1 DEF Shut, Start
<1>2. CASE i \in Start
  <2> DEFINE s == CASE r[i].sock = "opening" -> "aborted"
                    [] r[i].sock = "ready" -> "closing"
                    [] OTHER -> r[i].sock
             x == [r[i] EXCEPT !.sock = s, !.heard = FALSE,
                               !.cap = IF r[i].cap = "on" THEN "off" ELSE r[i].cap]
  <2>0. i # 0
    BY <1>2, Bounds DEF Start
  <2>1. s \in {"none", "opening", "ready", "aborted", "closing", "closed"}
    BY <1>2 DEF Call
  <2>. HIDE DEF s
  <2>2. /\ x \in Call /\ x.pc = r[i].pc /\ x.mic = r[i].mic
        /\ x.cap = IF r[i].cap = "on" THEN "off" ELSE r[i].cap
    BY <1>2, <2>1 DEF Call
  <2>3. Shut(r, i) = [r EXCEPT ![i] = x]
    BY <1>2, <2>0 DEF Shut, s, Call
  <2>. HIDE DEF x
  <2>. QED BY <1>2, <2>0, <2>2, <2>3
<1>. QED BY <1>1, <1>2

\* The calls, with one field of one of them set.
SetSock(r, i, v) == [r EXCEPT ![i].sock = v]
SetHeard(r, i, v) == [r EXCEPT ![i].heard = v]
SetCap(r, i, v) == [r EXCEPT ![i].cap = v]
SetPc(r, i, v) == [r EXCEPT ![i].pc = v]

\* What the updates of one call leave of all of them.
LEMMA SockIs ==
  ASSUME NEW r \in [Start -> Call], NEW i \in Start,
         NEW v \in {"none", "opening", "ready", "aborted", "closing", "closed"}
  PROVE  /\ SetSock(r, i, v) \in [Start -> Call]
         /\ \A j \in Start : /\ SetSock(r, i, v)[j].pc = r[j].pc
                             /\ SetSock(r, i, v)[j].mic = r[j].mic
                             /\ SetSock(r, i, v)[j].cap = r[j].cap
<1> DEFINE x == [r[i] EXCEPT !.sock = v]
<1>1. x \in Call /\ x.pc = r[i].pc /\ x.mic = r[i].mic /\ x.cap = r[i].cap
  BY DEF Call
<1>2. SetSock(r, i, v) = [r EXCEPT ![i] = x]
  BY DEF SetSock
<1>. HIDE DEF x
<1>. QED BY <1>1, <1>2

LEMMA HeardIs ==
  ASSUME NEW r \in [Start -> Call], NEW i \in Start, NEW v \in BOOLEAN
  PROVE  /\ SetHeard(r, i, v) \in [Start -> Call]
         /\ \A j \in Start : /\ SetHeard(r, i, v)[j].pc = r[j].pc
                             /\ SetHeard(r, i, v)[j].mic = r[j].mic
                             /\ SetHeard(r, i, v)[j].cap = r[j].cap
<1> DEFINE x == [r[i] EXCEPT !.heard = v]
<1>1. x \in Call /\ x.pc = r[i].pc /\ x.mic = r[i].mic /\ x.cap = r[i].cap
  BY DEF Call
<1>2. SetHeard(r, i, v) = [r EXCEPT ![i] = x]
  BY DEF SetHeard
<1>. HIDE DEF x
<1>. QED BY <1>1, <1>2

LEMMA CapIs ==
  ASSUME NEW r \in [Start -> Call], NEW i \in Start, NEW v \in {"none", "starting", "on", "off"}
  PROVE  /\ SetCap(r, i, v) \in [Start -> Call]
         /\ \A j \in Start : /\ SetCap(r, i, v)[j].pc = r[j].pc
                             /\ SetCap(r, i, v)[j].mic = r[j].mic
                             /\ SetCap(r, i, v)[j].cap = IF j = i THEN v ELSE r[j].cap
<1> DEFINE x == [r[i] EXCEPT !.cap = v]
<1>1. x \in Call /\ x.pc = r[i].pc /\ x.mic = r[i].mic /\ x.cap = v
  BY DEF Call
<1>2. SetCap(r, i, v) = [r EXCEPT ![i] = x]
  BY DEF SetCap
<1>. HIDE DEF x
<1>. QED BY <1>1, <1>2

LEMMA MicIs ==
  ASSUME NEW r \in [Start -> Call], NEW i \in Start
  PROVE  /\ [r EXCEPT ![i].mic = FALSE] \in [Start -> Call]
         /\ \A j \in Start : /\ [r EXCEPT ![i].mic = FALSE][j].pc = r[j].pc
                             /\ [r EXCEPT ![i].mic = FALSE][j].cap = r[j].cap
                             /\ [r EXCEPT ![i].mic = FALSE][j].mic => r[j].mic /\ j # i
<1> DEFINE x == [r[i] EXCEPT !.mic = FALSE]
<1>1. x \in Call /\ x.pc = r[i].pc /\ x.cap = r[i].cap /\ ~x.mic
  BY DEF Call
<1>2. [r EXCEPT ![i].mic = FALSE] = [r EXCEPT ![i] = x]
  OBVIOUS
<1>. HIDE DEF x
<1>. QED BY <1>1, <1>2

LEMMA PcIs ==
  ASSUME NEW r \in [Start -> Call], NEW i \in Start,
         NEW v \in {"none", "asking", "greeting", "done"}
  PROVE  /\ SetPc(r, i, v) \in [Start -> Call]
         /\ \A j \in Start : /\ SetPc(r, i, v)[j].pc = IF j = i THEN v ELSE r[j].pc
                             /\ SetPc(r, i, v)[j].mic = r[j].mic
                             /\ SetPc(r, i, v)[j].cap = r[j].cap
<1> DEFINE x == [r[i] EXCEPT !.pc = v]
<1>1. x \in Call /\ x.pc = v /\ x.mic = r[i].mic /\ x.cap = r[i].cap
  BY DEF Call
<1>2. SetPc(r, i, v) = [r EXCEPT ![i] = x]
  BY DEF SetPc
<1>. HIDE DEF x
<1>. QED BY <1>1, <1>2

\* The calls after the steps that change one of them themselves.
LEMMA SameCalls ==
  ASSUME TypeOK, NEW i \in Start,
         Ready(i) \/ SocketCloses(i) \/ Frame(i) \/ (\E c \in Turn : Final(i, c))
  PROVE  /\ run' \in [Start -> Call]
         /\ \A j \in Start : /\ run'[j].pc = run[j].pc /\ run'[j].mic = run[j].mic
                             /\ run'[j].cap = run[j].cap
<1>1. run \in [Start -> Call]
  BY DEF TypeOK
<1>2. CASE Ready(i)
  <2>1. run' = SetSock(run, i, "ready")
    BY <1>2 DEF Ready, SetSock
  <2>. QED BY <1>1, <2>1, SockIs
<1>3. CASE SocketCloses(i)
  <2> DEFINE r == SetSock(run, i, "closed")
  <2>1. /\ r \in [Start -> Call]
        /\ \A j \in Start : r[j].pc = run[j].pc /\ r[j].mic = run[j].mic /\ r[j].cap = run[j].cap
    BY <1>1, SockIs
  <2>2. run' = SetHeard(r, i, FALSE)
    BY <1>1, <1>3 DEF SocketCloses, SetSock, SetHeard
  <2>. HIDE DEF r
  <2>3. /\ run' \in [Start -> Call]
        /\ \A j \in Start : run'[j].pc = r[j].pc /\ run'[j].mic = r[j].mic /\ run'[j].cap = r[j].cap
    BY <2>1, <2>2, HeardIs
  <2>. QED BY <2>1, <2>3
<1>4. CASE Frame(i)
  <2>1. line \in Start
    BY <1>4 DEF TypeOK, Frame, Feeds
  <2>2. run' = SetHeard(run, line, TRUE)
    BY <1>4 DEF Frame, SetHeard
  <2>. QED BY <1>1, <2>1, <2>2, HeardIs
<1>5. CASE \E c \in Turn : Final(i, c)
  <2>1. run' = SetHeard(run, i, FALSE)
    BY <1>5 DEF Final, SetHeard
  <2>. QED BY <1>1, <2>1, HeardIs
<1>. QED BY <1>2, <1>3, <1>4, <1>5

LEMMA CaptureIs ==
  ASSUME TypeOK, NEW i \in Start, CaptureOn(i)
  PROVE  /\ run' \in [Start -> Call]
         /\ \A j \in Start : /\ run'[j].pc = run[j].pc /\ run'[j].mic = run[j].mic
                             /\ run'[j].cap = IF j = i THEN "on" ELSE run[j].cap
<1>1. run \in [Start -> Call]
  BY DEF TypeOK
<1>2. run' = SetCap(run, i, "on")
  BY DEF CaptureOn, SetCap
<1>. QED BY <1>1, <1>2, CapIs

LEMMA TapIs ==
  ASSUME TypeOK, NEW i \in Start, Tap(i)
  PROVE  /\ run' \in [Start -> Call]
         /\ \A j \in Start : /\ run'[j].pc = IF j = i THEN "asking" ELSE run[j].pc
                             /\ run'[j].mic = run[j].mic /\ run'[j].cap = run[j].cap
<1>1. run \in [Start -> Call]
  BY DEF TypeOK
<1>2. run' = SetPc(run, i, "asking")
  BY DEF Tap, SetPc
<1>. QED BY <1>1, <1>2, PcIs

LEMMA AnswerIs ==
  ASSUME TypeOK, NEW i \in Start, Denied(i) \/ Greeted(i)
  PROVE  /\ run' \in [Start -> Call]
         /\ \A j \in Start : /\ run'[j].pc = IF j = i THEN "done" ELSE run[j].pc
                             /\ run'[j].mic = run[j].mic /\ run'[j].cap = run[j].cap
<1>1. run \in [Start -> Call]
  BY DEF TypeOK
<1>2. run' = SetPc(run, i, "done")
  BY DEF Denied, Greeted, SetPc
<1>. QED BY <1>1, <1>2, PcIs

\* A microphone that is granted opens a line.
LEMMA OpenedIs ==
  ASSUME TypeOK, NEW i \in Start, Opened(i)
  PROVE  /\ run' \in [Start -> Call]
         /\ run'[i].pc \in {"done", "greeting"} /\ run'[i].mic /\ run'[i].cap = "starting"
         /\ \A j \in Start : j # i => run'[j] = run[j]
         /\ \/ run'[i].pc = "done" /\ phase' = "listening" /\ capturing' = FALSE
            \/ run'[i].pc = "greeting" /\ i = 1 /\ UNCHANGED <<phase, capturing>>
<1>1. run \in [Start -> Call]
  BY DEF TypeOK
<1>2. PICK g \in {"done", "greeting"} :
        /\ g = "greeting" => i = 1
        /\ run' = [run EXCEPT ![i].pc = g, ![i].mic = TRUE, ![i].sock = "opening",
                              ![i].cap = "starting"]
        /\ IF g = "done" THEN Resume(TRUE) ELSE UNCHANGED <<phase, capturing>>
  BY DEF Opened
<1> DEFINE x == [run[i] EXCEPT !.pc = g, !.mic = TRUE, !.sock = "opening", !.cap = "starting"]
<1>3. x \in Call /\ x.pc = g /\ x.mic /\ x.cap = "starting"
  BY <1>1 DEF Call
<1>4. run' = [run EXCEPT ![i] = x]
  BY <1>1, <1>2
<1>. HIDE DEF x
<1>5. run' \in [Start -> Call] /\ run'[i] = x /\ \A j \in Start : j # i => run'[j] = run[j]
  BY <1>1, <1>3, <1>4
<1>. QED BY <1>2, <1>3, <1>5 DEF Resume

LEMMA TeardownIs ==
  ASSUME TypeOK, NEW r \in [Start -> Call], Teardown(r)
  PROVE  /\ TypeOK'
         /\ \A j \in Start : run'[j].pc = r[j].pc /\ run'[j].mic = r[j].mic
         /\ \A j \in Start : j # line => run'[j] = r[j]
         /\ line # 0 => run'[line].cap = IF r[line].cap = "on" THEN "off" ELSE r[line].cap
<1>1. line \in {0} \cup Start /\ run' = Shut(r, line)
  BY DEF TypeOK, Teardown
<1>2. /\ run' \in [Start -> Call] /\ line' \in {0} \cup Start /\ streamUp' \in BOOLEAN
      /\ odd' \subseteq {"line", "turn", "cut", "refused"}
  <2>1. run' \in [Start -> Call]
    BY <1>1, ShutIs
  <2>2. Missed(r) \subseteq {"line"}
    BY DEF Missed
  <2>. QED BY <2>1, <2>2 DEF TypeOK, Teardown
<1>3. TypeOK'
  BY <1>2 DEF TypeOK, Teardown, session, batch, players
<1>. QED BY <1>1, <1>3, ShutIs

LEMMA RunChatIs ==
  ASSUME TypeOK, NEW c \in Turn, RunChat(c)
  PROVE  /\ turn' \in [Turn -> {"none", "over"} \cup Arriving]
         /\ phase' = "thinking" /\ streaming' = TRUE
         /\ odd' \subseteq {"line", "turn", "cut", "refused"}
  BY DEF TypeOK, RunChat, Arriving

LEMMA StopIs ==
  ASSUME TypeOK, Stop
  PROVE  /\ TypeOK'
         /\ \A j \in Start : /\ run'[j].pc = run[j].pc
                             /\ run'[j].mic => run[j].mic /\ j # mic
                             /\ run'[j].cap = IF j = line /\ run[j].cap = "on" THEN "off"
                                              ELSE run[j].cap
<1> DEFINE r == Shut(run, line)
<1>1. /\ run \in [Start -> Call] /\ line \in {0} \cup Start /\ mic \in {0} \cup Start
      /\ 0 \notin Start
  BY Bounds DEF TypeOK, Start
<1>2. /\ r \in [Start -> Call]
      /\ \A j \in Start : r[j].pc = run[j].pc /\ r[j].mic = run[j].mic
      /\ \A j \in Start : j # line => r[j] = run[j]
      /\ line # 0 => r[line].cap = IF run[line].cap = "on" THEN "off" ELSE run[line].cap
  BY <1>1, ShutIs
<1>3. run' = IF mic = 0 THEN r ELSE [r EXCEPT ![mic].mic = FALSE]
  BY DEF Stop
<1>. HIDE DEF r
<1>4. /\ run' \in [Start -> Call]
      /\ \A j \in Start : /\ run'[j].pc = r[j].pc /\ run'[j].cap = r[j].cap
                          /\ run'[j].mic => r[j].mic /\ j # mic
  <2>1. CASE mic = 0
    BY <1>1, <1>2, <1>3, <2>1
  <2>2. CASE mic \in Start
    BY <1>1, <1>2, <1>3, <2>2, MicIs
  <2>. QED BY <1>1, <2>1, <2>2
<1>5. TypeOK'
  <2>1. odd' \subseteq {"line", "turn", "cut", "refused"}
    BY DEF TypeOK, Stop, Missed
  <2>2. sp' \in Stream /\ rec' \in {"none", "on", "ending"}
    BY StreamsAre DEF TypeOK, Stop
  <2>. QED BY <1>4, <2>1, <2>2 DEF TypeOK, Stop
<1>6. \A j \in Start : run'[j].cap = IF j = line /\ run[j].cap = "on" THEN "off"
                                     ELSE run[j].cap
  BY <1>1, <1>2, <1>4
<1>. QED BY <1>2, <1>4, <1>5, <1>6

\* TypeOK, in three parts: what a session is, its calls, and its players.
SessionOK ==
  /\ phase \in {"idle", "listening", "thinking", "speaking", "error"}
  /\ active \in BOOLEAN /\ streaming \in BOOLEAN
  /\ streamUp \in BOOLEAN /\ capturing \in BOOLEAN
  /\ rec \in {"none", "on", "ending"}
  /\ transcribing \in Nat /\ typing \in Nat

CallsOK ==
  /\ run \in [Start -> Call]
  /\ mic \in {0} \cup Start /\ line \in {0} \cup Start
  /\ turn \in [Turn -> {"none", "over"} \cup Arriving]
  /\ done \in 0..MaxDone
  /\ odd \subseteq {"line", "turn", "cut", "refused"}

PlayersOK ==
  /\ queue \in Nat /\ playing \in BOOLEAN /\ (queue > 0 => playing)
  /\ sp \in Stream

LEMMA TypeParts == TypeOK <=> SessionOK /\ CallsOK /\ PlayersOK
  BY DEF TypeOK, SessionOK, CallsOK, PlayersOK

LEMMA TypeParts1 == TypeOK' <=> SessionOK' /\ CallsOK' /\ PlayersOK'
  BY DEF TypeOK, SessionOK, CallsOK, PlayersOK

LEMMA SessionStep ==
  ASSUME SessionOK, [Next]_vars
  PROVE  SessionOK'
<1> USE DEF session, opened, batch, players
<1>1. CASE Played \/ SourceOpen \/ UpdateEnd \/ RunsDry \/ Finish \/ Refused
  <2>1. /\ phase' \in {phase, "listening"} /\ capturing' \in {capturing, FALSE}
        /\ UNCHANGED <<active, streaming, streamUp, rec, transcribing, typing>>
    BY <1>1 DEF Played, SourceOpen, UpdateEnd, RunsDry, Finish, Refused, Drained, Resume, PlayerStep
  <2>. QED BY <2>1 DEF SessionOK
<1>2. ASSUME NEW c \in Turn,
             ReplyChunk(c) \/ Acknowledgment(c) \/ AudioStart(c) \/ AudioEnd(c)
      PROVE  SessionOK'
  <2>1. /\ phase' \in {phase, "speaking"}
        /\ UNCHANGED <<active, streaming, streamUp, capturing, rec, transcribing, typing>>
    BY <1>2 DEF InTurn, ReplyChunk, Acknowledgment, AudioStart, AudioEnd
  <2>. QED BY <2>1 DEF SessionOK
<1>3. ASSUME NEW c \in Turn, AudioChunk(c) PROVE SessionOK'
  <2>1. /\ phase' = "speaking" /\ capturing' \in BOOLEAN
        /\ UNCHANGED <<active, streaming, streamUp, rec, transcribing, typing>>
    BY <1>3 DEF SessionOK, InTurn, AudioChunk
  <2>. QED BY <2>1 DEF SessionOK
<1>4. ASSUME NEW c \in Turn, ChatEnds(c) PROVE SessionOK'
  BY <1>4 DEF SessionOK, ChatEnds, Resume
<1>5. ASSUME NEW c \in Turn, Typed(c) \/ Transcribed(c) PROVE SessionOK'
  <2>1. /\ phase' = "thinking" /\ streaming' = TRUE
        /\ UNCHANGED <<active, streamUp, capturing, rec>>
    BY <1>5 DEF Typed, Transcribed, RunChat
  <2>2. CASE Typed(c)
    BY <2>1, <2>2 DEF SessionOK, Typed
  <2>3. CASE Transcribed(c)
    BY <2>1, <2>3 DEF SessionOK, Transcribed
  <2>. QED BY <1>5, <2>2, <2>3
<1>6. ASSUME NEW c \in Turn, NEW i \in Start, Final(i, c) PROVE SessionOK'
  BY <1>6 DEF SessionOK, Final, RunChat
<1>7. ASSUME NEW i \in Start, Ready(i) \/ SocketCloses(i) \/ CaptureOn(i) \/ Frame(i)
      PROVE  SessionOK'
  <2>1. /\ UNCHANGED <<phase, active, streaming, capturing, rec, transcribing, typing>>
        /\ streamUp' \in {streamUp, TRUE, FALSE}
    BY <1>7 DEF Ready, SocketCloses, CaptureOn, Frame, LineStep
  <2>. QED BY <2>1 DEF SessionOK
<1>8. ASSUME NEW i \in Start, SocketError(i) \/ CaptureFails(i) PROVE SessionOK'
  <2>1. /\ UNCHANGED <<phase, active, streaming, capturing, rec, transcribing, typing>>
        /\ streamUp' = FALSE
    BY <1>8 DEF SocketError, CaptureFails, Teardown
  <2>. QED BY <2>1 DEF SessionOK
<1>9. ASSUME NEW i \in Start, Tap(i) \/ Denied(i) \/ Greeted(i) \/ Opened(i) PROVE SessionOK'
  <2>1. /\ phase' \in {phase, "listening", "speaking", "error"}
        /\ active' \in {active, TRUE} /\ capturing' \in {capturing, FALSE}
        /\ UNCHANGED <<streaming, streamUp, rec, transcribing, typing>>
    BY <1>9 DEF Tap, Denied, Greeted, Opened, StartStep, Resume
  <2>. QED BY <2>1 DEF SessionOK
<1>10. CASE SendText
  BY <1>10 DEF SessionOK, SendText
<1>11. CASE Speech \/ Silence
  <2>1. /\ phase' = phase /\ rec' \in {"on", "ending"} /\ capturing' \in {capturing, TRUE}
        /\ UNCHANGED <<active, streaming, streamUp, transcribing, typing>>
    BY <1>11 DEF Speech, Silence, BatchStep
  <2>. QED BY <2>1 DEF SessionOK
<1>12. CASE Finalize
  <2>1. /\ phase' \in {phase, "listening", "thinking"} /\ rec' = "none" /\ capturing' = FALSE
        /\ UNCHANGED <<active, streaming, streamUp, typing>>
    BY <1>12 DEF Finalize, BatchStep
  <2>2. transcribing' \in Nat
    BY <1>12 DEF SessionOK, Finalize
  <2>. QED BY <2>1, <2>2 DEF SessionOK
<1>13. CASE Nothing
  <2>1. /\ phase' \in {phase, "listening"} /\ capturing' \in {capturing, FALSE}
        /\ UNCHANGED <<active, streaming, streamUp, rec, typing>>
    BY <1>13 DEF Nothing, BatchStep, Resume
  <2>2. transcribing' \in Nat
    BY <1>13 DEF SessionOK, Nothing
  <2>. QED BY <2>1, <2>2 DEF SessionOK
<1>14. CASE TapStop \/ AutoClose
  BY <1>14 DEF SessionOK, TapStop, AutoClose, Stop
<1>15. CASE UNCHANGED vars
  BY <1>15 DEF SessionOK, vars
<1>. QED
  BY <1>1, <1>2, <1>3, <1>4, <1>5, <1>6, <1>7, <1>8, <1>9, <1>10, <1>11, <1>12, <1>13, <1>14,
     <1>15 DEF Next

LEMMA CallsStep ==
  ASSUME TypeOK, [Next]_vars
  PROVE  CallsOK'
<1> USE DEF session, opened, batch, players
<1>0. CallsOK
  BY TypeParts
<1>1. CASE Played \/ SourceOpen \/ UpdateEnd \/ RunsDry \/ Finish \/ Refused
  <2>1. UNCHANGED <<run, mic, line, turn, done>> /\ odd' \subseteq odd \cup {"refused"}
    BY <1>1 DEF Played, SourceOpen, UpdateEnd, RunsDry, Finish, Refused, PlayerStep
  <2>. QED BY <1>0, <2>1 DEF CallsOK
<1>2. ASSUME NEW c \in Turn,
             ReplyChunk(c) \/ Acknowledgment(c) \/ AudioStart(c) \/ AudioChunk(c) \/ AudioEnd(c)
             \/ ChatEnds(c)
      PROVE  CallsOK'
  <2>1. UNCHANGED <<run, mic, line, done>>
    BY <1>2 DEF InTurn, ReplyChunk, Acknowledgment, AudioStart, AudioChunk, AudioEnd, ChatEnds
  <2>2. odd' \subseteq odd \cup {"turn", "cut", "refused"}
    BY <1>2 DEF ReplyChunk, Acknowledgment, AudioStart, AudioChunk, AudioEnd, ChatEnds
  <2>3. \/ turn' = turn
        \/ \E v \in {"acked", "audio", "ended", "over"} : turn' = [turn EXCEPT ![c] = v]
    BY <1>2 DEF ReplyChunk, Acknowledgment, AudioStart, AudioChunk, AudioEnd, ChatEnds
  <2>. QED BY <1>0, <2>1, <2>2, <2>3 DEF CallsOK, Arriving
<1>3. ASSUME NEW c \in Turn, Typed(c) \/ Transcribed(c) PROVE CallsOK'
  <2>1. UNCHANGED <<run, mic, line, done>> /\ RunChat(c)
    BY <1>3 DEF Typed, Transcribed
  <2>. QED BY <1>0, <2>1, RunChatIs DEF CallsOK
<1>4. ASSUME NEW c \in Turn, NEW i \in Start, Final(i, c) PROVE CallsOK'
  <2>1. UNCHANGED <<mic, line, done>> /\ run' \in [Start -> Call]
    BY <1>4, SameCalls DEF Final
  <2>2. /\ turn' \in [Turn -> {"none", "over"} \cup Arriving]
        /\ odd' \subseteq {"line", "turn", "cut", "refused"}
    <3>1. RunChat(c) \/ UNCHANGED <<turn, odd>>
      BY <1>4 DEF Final
    <3>. QED BY <1>0, <3>1, RunChatIs DEF CallsOK
  <2>. QED BY <1>0, <2>1, <2>2 DEF CallsOK
<1>5. ASSUME NEW i \in Start, Ready(i) \/ SocketCloses(i) \/ CaptureOn(i) \/ Frame(i)
      PROVE  CallsOK'
  <2>1. UNCHANGED <<mic, line, turn, done, odd>>
    BY <1>5 DEF Ready, SocketCloses, CaptureOn, Frame, LineStep
  <2>2. run' \in [Start -> Call]
    BY <1>5, SameCalls, CaptureIs
  <2>. QED BY <1>0, <2>1, <2>2 DEF CallsOK
<1>6. ASSUME NEW i \in Start, SocketError(i) \/ CaptureFails(i) PROVE CallsOK'
  <2>1. Teardown(run) \/ Teardown(SetSock(run, i, "closed")) \/ Teardown(SetCap(run, i, "off"))
    BY <1>6 DEF SocketError, CaptureFails, SetSock, SetCap
  <2>2. /\ run \in [Start -> Call] /\ SetSock(run, i, "closed") \in [Start -> Call]
        /\ SetCap(run, i, "off") \in [Start -> Call]
    BY <1>0, SockIs, CapIs DEF CallsOK
  <2>3. TypeOK'
    BY <2>1, <2>2, TeardownIs
  <2>. QED BY <2>3, TypeParts1
<1>7. ASSUME NEW i \in Start, Tap(i) \/ Denied(i) \/ Greeted(i) \/ Opened(i) PROVE CallsOK'
  <2>1. run' \in [Start -> Call]
    BY <1>7, TapIs, AnswerIs, OpenedIs
  <2>2. done' \in 0..MaxDone
    <3>1. done' = done \/ UserActs
      BY <1>7 DEF Tap, Denied, Greeted, Opened, StartStep
    <3>. QED BY <1>0, <3>1, Bounds DEF CallsOK, UserActs
  <2>3. odd' \subseteq odd \cup {"line", "turn"}
    BY <1>7 DEF Tap, Denied, Greeted, Opened
  <2>4. mic' \in {mic, i} /\ line' \in {line, i} /\ turn' = turn
    BY <1>7 DEF Tap, Denied, Greeted, Opened, StartStep
  <2>. QED BY <1>0, <2>1, <2>2, <2>3, <2>4 DEF CallsOK
<1>8. CASE SendText \/ Speech \/ Silence \/ Finalize \/ Nothing
  <2>1. UNCHANGED <<run, mic, line, turn, odd>>
    BY <1>8 DEF SendText, Speech, Silence, Finalize, Nothing, BatchStep
  <2>2. done' \in 0..MaxDone
    BY <1>0, <1>8, Bounds DEF CallsOK, SendText, Speech, Silence, Finalize, Nothing, UserActs
  <2>. QED BY <1>0, <2>1, <2>2 DEF CallsOK
<1>9. CASE TapStop \/ AutoClose
  BY <1>9, StopIs, TypeParts1 DEF TapStop, AutoClose
<1>10. CASE UNCHANGED vars
  BY <1>0, <1>10 DEF CallsOK, vars
<1>. QED
  BY <1>1, <1>2, <1>3, <1>4, <1>5, <1>6, <1>7, <1>8, <1>9, <1>10 DEF Next

\* The player's own steps.
LEMMA FedIs ==
  ASSUME sp \in Stream, SourceOpen \/ UpdateEnd
  PROVE  /\ sp' \in Stream /\ sp'.active = sp.active /\ sp'.ended = sp.ended
         /\ sp.ms # "none" => sp'.ms # "none"
<1>1. PICK q \in {[sp EXCEPT !.ms = "open", !.sb = "idle"], [sp EXCEPT !.sb = "idle"]} :
        sp' = Flushed(q)
  BY DEF SourceOpen, UpdateEnd
<1>2. /\ q \in Stream /\ q.active = sp.active /\ q.ended = sp.ended
      /\ sp.ms # "none" => q.ms # "none"
  BY <1>1 DEF Stream
<1>. QED BY <1>1, <1>2, FlushedIs

LEMMA DryIs ==
  ASSUME sp \in Stream, RunsDry
  PROVE  sp' \in Stream /\ sp'.active = sp.active /\ sp'.ended = sp.ended /\ sp'.ms = sp.ms
  BY DEF RunsDry, Stream

LEMMA HaltedIs ==
  ASSUME sp \in Stream, Finish \/ Refused
  PROVE  /\ sp' \in Stream /\ ~sp'.active /\ sp'.ended = sp.ended
         /\ sp.ms # "none" => sp'.ms # "none"
<1>1. CASE Finish
  BY <1>1 DEF Finish, Stream
<1>2. CASE sp' = [sp EXCEPT !.active = FALSE, !.ms = "open"]
  BY <1>2 DEF Stream
<1>3. CASE sp.pending > 0 /\ sp' = [sp EXCEPT !.active = FALSE, !.sb = "idle", !.pending = @ - 1]
  <2>1. sp.pending - 1 \in 0..MaxPending
    BY <1>3, Bounds DEF Stream
  <2>. QED BY <1>3, <2>1 DEF Stream
<1>. QED BY <1>1, <1>2, <1>3 DEF Refused

LEMMA PlayersStep ==
  ASSUME PlayersOK, [Next]_vars
  PROVE  PlayersOK'
<1> USE DEF session, opened, batch, players
<1>1. CASE Played
  <2>1. sp' = sp /\ playing
    BY <1>1 DEF Played
  <2>2. CASE queue > 0
    <3>1. queue' = queue - 1 /\ playing' = playing
      BY <1>1, <2>2 DEF Played
    <3>. QED BY <2>1, <2>2, <3>1 DEF PlayersOK
  <2>3. CASE ~(queue > 0)
    <3>1. queue' = queue /\ playing' = FALSE
      BY <1>1, <2>3 DEF Played
    <3>. QED BY <2>1, <2>3, <3>1 DEF PlayersOK
  <2>. QED BY <2>2, <2>3
<1>2. CASE SourceOpen \/ UpdateEnd \/ RunsDry \/ Finish \/ Refused
  <2>1. UNCHANGED <<queue, playing>>
    BY <1>2 DEF SourceOpen, UpdateEnd, RunsDry, Finish, Refused, PlayerStep
  <2>. QED BY <1>2, <2>1, FedIs, DryIs, HaltedIs DEF PlayersOK
<1>3. ASSUME NEW c \in Turn, ReplyChunk(c) \/ ChatEnds(c) \/ Typed(c) \/ Transcribed(c)
                             \/ \E i \in Start : Final(i, c)
      PROVE  PlayersOK'
  <2>1. UNCHANGED <<queue, playing, sp>>
    BY <1>3 DEF ReplyChunk, ChatEnds, Typed, Transcribed, Final
  <2>. QED BY <2>1 DEF PlayersOK
<1>4. ASSUME NEW c \in Turn, Acknowledgment(c) PROVE PlayersOK'
  BY <1>4 DEF PlayersOK, Acknowledgment, Enqueue
<1>5. ASSUME NEW c \in Turn, AudioStart(c) \/ AudioChunk(c) \/ AudioEnd(c) PROVE PlayersOK'
  <2>1. UNCHANGED <<queue, playing>>
    BY <1>5 DEF AudioStart, AudioChunk, AudioEnd
  <2>2. sp \in Stream
    BY DEF PlayersOK
  <2>3. sp' \in Stream
    <3>1. [sp EXCEPT !.active = FALSE] \in Stream
      BY <2>2 DEF Stream
    <3>2. CASE AudioChunk(c)
      BY <2>2, <3>1, <3>2, PushedIs DEF AudioChunk
    <3>3. CASE AudioStart(c) \/ AudioEnd(c)
      BY <2>2, <3>3, StreamsAre, EndedIs DEF AudioStart, AudioEnd
    <3>. QED BY <1>5, <3>2, <3>3
  <2>. QED BY <2>1, <2>3 DEF PlayersOK
<1>6. ASSUME NEW i \in Start, Ready(i) \/ SocketCloses(i) \/ CaptureOn(i) \/ Frame(i)
                              \/ SocketError(i) \/ CaptureFails(i) \/ Tap(i) \/ Denied(i)
      PROVE  PlayersOK'
  <2>1. UNCHANGED <<queue, playing, sp>>
    BY <1>6 DEF Ready, SocketCloses, CaptureOn, Frame, LineStep, SocketError, CaptureFails,
       Teardown, Tap, Denied, StartStep
  <2>. QED BY <2>1 DEF PlayersOK
<1>7. ASSUME NEW i \in Start, Opened(i) \/ Greeted(i) PROVE PlayersOK'
  <2>1. sp' = sp /\ (UNCHANGED <<queue, playing>> \/ Enqueue)
    BY <1>7 DEF Opened, Greeted, StartStep
  <2>2. queue' \in Nat /\ playing' \in BOOLEAN
    <3>1. CASE Enqueue
      BY <3>1 DEF PlayersOK, Enqueue
    <3>2. CASE UNCHANGED <<queue, playing>>
      BY <3>2 DEF PlayersOK
    <3>. QED BY <2>1, <3>1, <3>2
  <2>3. queue' > 0 => playing'
    <3>1. CASE Enqueue
      BY <3>1 DEF Enqueue
    <3>2. CASE UNCHANGED <<queue, playing>>
      BY <3>2 DEF PlayersOK
    <3>. QED BY <2>1, <3>1, <3>2
  <2>. QED BY <2>1, <2>2, <2>3 DEF PlayersOK
<1>8. CASE SendText \/ Speech \/ Silence \/ Finalize \/ Nothing
  <2>1. UNCHANGED <<queue, playing, sp>>
    BY <1>8 DEF SendText, Speech, Silence, Finalize, Nothing, BatchStep
  <2>. QED BY <2>1 DEF PlayersOK
<1>9. CASE TapStop \/ AutoClose
  BY <1>9, StreamsAre DEF PlayersOK, TapStop, AutoClose, Stop
<1>10. CASE UNCHANGED vars
  BY <1>10 DEF PlayersOK, vars
<1>. QED
  BY <1>1, <1>2, <1>3, <1>4, <1>5, <1>6, <1>7, <1>8, <1>9, <1>10 DEF Next

LEMMA InitType == Init => TypeOK
<1> SUFFICES ASSUME Init PROVE TypeOK
  OBVIOUS
<1>1. [pc |-> "none", mic |-> FALSE, sock |-> "none", cap |-> "none", heard |-> FALSE] \in Call
  BY DEF Call
<1>2. run \in [Start -> Call] /\ turn \in [Turn -> {"none", "over"} \cup Arriving]
  BY <1>1 DEF Init
<1>3. SessionOK
  BY DEF Init, SessionOK
<1>4. CallsOK
  BY <1>2, Bounds DEF Init, CallsOK
<1>5. PlayersOK
  <2>1. queue = 0 /\ playing = FALSE /\ sp = NoStream
    BY DEF Init
  <2>2. queue \in Nat /\ ~(queue > 0)
    BY <2>1
  <2>. QED BY <2>1, <2>2, StreamsAre DEF PlayersOK
<1>. QED BY <1>3, <1>4, <1>5, TypeParts

LEMMA StepType == TypeOK /\ [Next]_vars => TypeOK'
  BY SessionStep, CallsStep, PlayersStep, TypeParts, TypeParts1

\* The types of the session's state: files wait only behind one that plays, and no more
\* chunks wait for the source buffer than its bound.
THEOREM TypeCorrect == Spec => []TypeOK
  BY InitType, StepType, PTL DEF Spec

-----------------------------------------------------------------------------
(* One microphone, one line.                                               *)

\* One call of start() at a time asks, while no session is up; what has a microphone open
\* or a capture that runs or is starting is the session's own call.
LineInv ==
  /\ \A i, j \in Start : run[i].pc = "asking" /\ run[j].pc = "asking" => i = j
  /\ \A i \in Start : run[i].pc = "asking" => ~active
  /\ \A i \in Start : run[i].mic => i = mic
  /\ mic # 0 => active
  /\ \A i \in Start : run[i].cap \in {"starting", "on"} => i = line
  /\ line # 0 => active

LineHeld == "line" \notin odd => LineInv

LEMMA OddGrows == [Next]_vars => odd \subseteq odd'
  BY DEF Next, vars, Played, SourceOpen, UpdateEnd, RunsDry, Finish, Refused, PlayerStep, ReplyChunk,
     Acknowledgment, AudioStart, AudioChunk, AudioEnd, ChatEnds, SendText, Typed, RunChat, Ready,
     SocketError, Teardown, SocketCloses, CaptureOn, CaptureFails, Frame, LineStep, Final, Speech,
     Silence, Finalize, Nothing, BatchStep, Transcribed, Tap, Opened, Denied, Greeted, TapStop,
     AutoClose, Stop

\* The lines of a teardown: whatever was current is shut, and it was not starting.
LEMMA TeardownKeepsLine ==
  ASSUME TypeOK, LineInv, NEW r \in [Start -> Call], Teardown(r), "line" \notin odd',
         \A j \in Start : /\ r[j].pc = run[j].pc /\ r[j].mic = run[j].mic
                          /\ r[j].cap \in {run[j].cap, "off"}
  PROVE  LineInv'
<1>1. /\ \A j \in Start : run'[j].pc = r[j].pc /\ run'[j].mic = r[j].mic
      /\ \A j \in Start : j # line => run'[j] = r[j]
      /\ line # 0 => run'[line].cap = IF r[line].cap = "on" THEN "off" ELSE r[line].cap
  BY TeardownIs
<1>2. active' = active /\ mic' = mic /\ line' = 0 /\ (line # 0 => r[line].cap # "starting")
  BY DEF Teardown, Missed, session
<1>3. \A j \in Start : run'[j].cap \notin {"starting", "on"}
  <2> SUFFICES ASSUME NEW j \in Start PROVE run'[j].cap \notin {"starting", "on"}
    OBVIOUS
  <2>1. CASE j = line
    <3>1. line # 0
      BY <2>1, Bounds DEF Start
    <3>. QED BY <1>1, <1>2, <2>1, <3>1
  <2>2. CASE j # line
    BY <1>1, <2>2 DEF LineInv
  <2>. QED BY <2>1, <2>2
<1>. QED BY <1>1, <1>2, <1>3 DEF LineInv

LEMMA LineStays ==
  ASSUME TypeOK, LineHeld, [Next]_vars
  PROVE  LineHeld'
<1> SUFFICES ASSUME "line" \notin odd' PROVE LineInv'
  BY DEF LineHeld
<1>1. "line" \notin odd /\ LineInv
  BY OddGrows DEF LineHeld
<1>0. run \in [Start -> Call]
  BY DEF TypeOK
<1> USE DEF session, opened, batch, players
<1>2. ASSUME /\ \A j \in Start : /\ run'[j].pc = run[j].pc /\ run'[j].mic = run[j].mic
                                 /\ run'[j].cap = run[j].cap
             /\ UNCHANGED <<mic, line, active>>
      PROVE  LineInv'
  BY <1>1, <1>2 DEF LineInv
<1>3. CASE Played \/ SourceOpen \/ UpdateEnd \/ RunsDry \/ Finish \/ Refused \/ SendText \/ Speech
           \/ Silence \/ Finalize \/ Nothing \/ UNCHANGED vars
  <2>1. UNCHANGED <<run, mic, line, active>>
    BY <1>3 DEF Played, SourceOpen, UpdateEnd, RunsDry, Finish, Refused, PlayerStep, SendText, Speech,
       Silence, Finalize, Nothing, BatchStep, vars
  <2>. QED BY <1>2, <2>1
<1>4. ASSUME NEW c \in Turn,
             ReplyChunk(c) \/ Acknowledgment(c) \/ AudioStart(c) \/ AudioChunk(c) \/ AudioEnd(c)
             \/ ChatEnds(c) \/ Typed(c) \/ Transcribed(c)
      PROVE  LineInv'
  <2>1. UNCHANGED <<run, mic, line, active>>
    BY <1>4 DEF InTurn, ReplyChunk, Acknowledgment, AudioStart, AudioChunk, AudioEnd, ChatEnds,
       Typed, Transcribed
  <2>. QED BY <1>2, <2>1
<1>5. ASSUME NEW c \in Turn, NEW i \in Start, Final(i, c) PROVE LineInv'
  <2>1. UNCHANGED <<mic, line, active>>
    BY <1>5 DEF Final
  <2>. QED BY <1>2, <1>5, <2>1, SameCalls
<1>6. ASSUME NEW i \in Start, Ready(i) \/ SocketCloses(i) \/ Frame(i) PROVE LineInv'
  <2>1. UNCHANGED <<mic, line, active>>
    BY <1>6 DEF Ready, SocketCloses, Frame, LineStep
  <2>. QED BY <1>2, <1>6, <2>1, SameCalls
<1>7. ASSUME NEW i \in Start, CaptureOn(i) PROVE LineInv'
  <2>1. UNCHANGED <<mic, line, active>> /\ run[i].cap = "starting"
    BY <1>7 DEF CaptureOn, LineStep
  <2>. QED BY <1>1, <1>7, <2>1, CaptureIs DEF LineInv
<1>8. ASSUME NEW i \in Start, SocketError(i) \/ CaptureFails(i) PROVE LineInv'
  <2>1. CASE Teardown(run)
    BY <1>0, <1>1, <2>1, TeardownKeepsLine
  <2>2. CASE Teardown(SetSock(run, i, "closed"))
    <3> DEFINE r == SetSock(run, i, "closed")
    <3>1. /\ r \in [Start -> Call]
          /\ \A j \in Start : /\ r[j].pc = run[j].pc /\ r[j].mic = run[j].mic
                              /\ r[j].cap \in {run[j].cap, "off"}
      BY <1>0, SockIs
    <3>. HIDE DEF r
    <3>2. Teardown(r)
      BY <2>2 DEF r
    <3>. QED BY <1>1, <3>1, <3>2, TeardownKeepsLine
  <2>3. CASE Teardown(SetCap(run, i, "off"))
    <3> DEFINE r == SetCap(run, i, "off")
    <3>1. /\ r \in [Start -> Call]
          /\ \A j \in Start : /\ r[j].pc = run[j].pc /\ r[j].mic = run[j].mic
                              /\ r[j].cap \in {run[j].cap, "off"}
      BY <1>0, CapIs
    <3>. HIDE DEF r
    <3>2. Teardown(r)
      BY <2>3 DEF r
    <3>. QED BY <1>1, <3>1, <3>2, TeardownKeepsLine
  <2>. QED BY <1>8, <2>1, <2>2, <2>3 DEF SocketError, CaptureFails, SetSock, SetCap
<1>9. ASSUME NEW i \in Start, Tap(i) PROVE LineInv'
  <2>1. /\ UNCHANGED <<mic, line, active>> /\ ~active
        /\ \A j \in Start : run[j].pc # "asking"
    BY <1>9 DEF Tap
  <2>. QED BY <1>1, <1>9, <2>1, TapIs DEF LineInv
<1>10. ASSUME NEW i \in Start, Opened(i) PROVE LineInv'
  <2>1. active' = TRUE /\ mic' = i /\ line' = i /\ run[i].pc = "asking"
    BY <1>10 DEF Opened
  <2>2. mic = 0 /\ line = 0 /\ \A j \in Start : run[j].pc = "asking" => j = i
    BY <1>1, <2>1 DEF LineInv
  <2>3. \A j \in Start : ~run[j].mic /\ run[j].cap \notin {"starting", "on"}
    BY <1>1, <2>2, Bounds DEF LineInv, Start
  <2>4. \A j \in Start : /\ run'[j].pc # "asking"
                         /\ run'[j].mic => j = i
                         /\ run'[j].cap \in {"starting", "on"} => j = i
    BY <1>10, <2>2, <2>3, OpenedIs
  <2>. QED BY <2>1, <2>4 DEF LineInv
<1>11. ASSUME NEW i \in Start, Denied(i) \/ Greeted(i) PROVE LineInv'
  <2>1. UNCHANGED <<mic, line, active>>
    BY <1>11 DEF Denied, Greeted
  <2>2. \A j \in Start : /\ run'[j].pc = "asking" => run[j].pc = "asking"
                         /\ run'[j].mic = run[j].mic /\ run'[j].cap = run[j].cap
    BY <1>11, AnswerIs
  <2>. QED BY <1>1, <2>1, <2>2 DEF LineInv
<1>12. CASE TapStop \/ AutoClose
  <2>1. Stop
    BY <1>12 DEF TapStop, AutoClose
  <2>2. /\ active' = FALSE /\ mic' = 0 /\ line' = 0
        /\ line # 0 => run[line].cap # "starting"
    BY <2>1 DEF Stop, Missed
  <2>3. \A j \in Start : run'[j].pc = run[j].pc /\ ~run'[j].mic
    BY <1>1, <2>1, StopIs DEF LineInv
  <2>4. \A j \in Start : run'[j].cap \notin {"starting", "on"}
    BY <1>1, <2>1, <2>2, StopIs, Bounds DEF LineInv, Start
  <2>. QED BY <1>1, <2>2, <2>3, <2>4 DEF LineInv
<1>. QED
  BY <1>3, <1>4, <1>5, <1>6, <1>7, <1>8, <1>9, <1>10, <1>11, <1>12 DEF Next

\* What is typed and has one line at a time.
SessionInv == TypeOK /\ LineHeld

LEMMA SessionInvInit == Init => SessionInv
  BY InitType DEF Init, SessionInv, LineHeld, LineInv

THEOREM SessionCorrect == Spec => []SessionInv
<1>1. SessionInv /\ [Next]_vars => SessionInv'
  BY StepType, LineStays DEF SessionInv
<1>. QED BY <1>1, SessionInvInit, PTL DEF Spec

\* No microphone is left behind, whatever stops, broken lines and replies come between: an
\* open one belongs to a session that is up, whose stop will release it, as long as starts
\* do not overlap.  (A microphone granted after a stop opens a session.)
THEOREM MicrophoneReleased == Spec => []MicReleased
<1>1. SessionInv => MicReleased
  <2> SUFFICES ASSUME TypeOK, LineInv, NEW i \in Start, run[i].mic
               PROVE  active /\ i = mic
    BY DEF SessionInv, LineHeld, MicReleased
  <2>. QED BY Bounds DEF LineInv, Start
<1>. QED BY <1>1, SessionCorrect, PTL

\* One capture at most feeds the recogniser, as long as starts do not overlap and none is
\* shut while it is starting.
THEOREM FedOnce == Spec => []OneFeed
<1>1. SessionInv => OneFeed
  BY DEF SessionInv, LineHeld, LineInv, OneFeed, Feeds
<1>. QED BY <1>1, SessionCorrect, PTL

-----------------------------------------------------------------------------
(* One thing at a time.                                                    *)

Greeting == \E i \in Start : run[i].pc = "greeting"
InFlight == \E c \in Turn : turn[c] \in Arriving

\* What the code takes for Gia's speaking: both players' flags.
Speaking == playing \/ sp.active

\* While one thing happens at a time, each of them excludes the others: a turn in flight, a
\* greeting awaited, a recording or a transcription, a player whose flag is set.  So
\* listening, which only the end of one of them resumes, finds both flags down.
TalkInv ==
  /\ phase = "listening" => active
  /\ \A c, d \in Turn : turn[c] \in Arriving /\ turn[d] \in Arriving => c = d
  /\ streaming <=> InFlight
  /\ ~(playing /\ sp.active)
  /\ phase = "listening" /\ ~streaming => ~Speaking
  /\ \A i \in Start : run[i].pc = "greeting" => i = 1
  /\ Greeting => /\ ~streaming /\ ~Speaking /\ phase # "listening"
                 /\ transcribing = 0 /\ rec = "none"
  /\ streaming => phase # "listening" /\ transcribing = 0 /\ rec = "none"
  /\ transcribing > 0 \/ rec # "none" => ~Speaking
  /\ \A c \in Turn : turn[c] \in {"open", "acked"} => ~sp.active

TalkHeld == odd \cap {"line", "turn"} = {} => TalkInv

\* A turn that begins while nothing else sounds or is awaited.
LEMMA TurnBegins ==
  ASSUME TypeOK, TalkInv, NEW c \in Turn, RunChat(c), "turn" \notin odd',
         \A j \in Start : run'[j].pc = run[j].pc,
         transcribing' \in Nat, UNCHANGED <<playing, sp, rec>>
  PROVE  TalkInv'
<1>1. /\ ~streaming /\ ~playing /\ ~sp.active /\ ~(transcribing' > 0) /\ rec = "none"
      /\ ~Greeting
  BY DEF RunChat, Busy, Greeting
<1>2. transcribing' = 0
  BY <1>1
<1>3. ~InFlight /\ turn \in [Turn -> {"none", "over"} \cup Arriving]
  BY <1>1 DEF TypeOK, TalkInv
<1>4. /\ turn' = [turn EXCEPT ![c] = "open"] /\ phase' = "thinking" /\ streaming' = TRUE
  BY DEF RunChat
<1>5. /\ \A d \in Turn : turn'[d] \in Arriving => d = c
      /\ turn'[c] \in Arriving
  BY <1>3, <1>4 DEF InFlight, Arriving
<1>6. ~Greeting'
  BY <1>1 DEF Greeting
<1>7. ~Speaking'
  BY <1>1 DEF Speaking
<1>8. InFlight'
  BY <1>5 DEF InFlight
<1>. QED BY <1>1, <1>2, <1>4, <1>5, <1>6, <1>7, <1>8 DEF TalkInv, Greeting, Speaking

\* A step that only lets a player fall silent.
LEMMA TalkSame ==
  ASSUME TalkInv, UNCHANGED <<phase, active, streaming, turn, transcribing, rec>>,
         \A j \in Start : run'[j].pc = run[j].pc,
         playing' => playing, sp'.active => sp.active
  PROVE  TalkInv'
<1>1. Greeting' = Greeting /\ InFlight' = InFlight /\ (Speaking' => Speaking)
  BY DEF Greeting, InFlight, Speaking
<1>. QED BY <1>1 DEF TalkInv

LEMMA DrainedIs ==
  Drained => UNCHANGED phase \/ (phase' = "listening" /\ active /\ ~streaming)
<1>1. CASE streaming
  BY <1>1 DEF Drained
<1>2. CASE ~streaming /\ active
  BY <1>2 DEF Drained, Resume
<1>3. CASE ~streaming /\ ~active
  BY <1>3 DEF Drained, Resume
<1>. QED BY <1>1, <1>2, <1>3

\* What is over resumes listening, when nothing sounds any more.
LEMMA TalkResumes ==
  ASSUME TalkInv, ~Greeting, ~Speaking', \/ UNCHANGED phase
                                         \/ phase' = "listening" /\ active /\ ~streaming,
         UNCHANGED <<active, streaming, turn, run>>,
         streaming => UNCHANGED <<transcribing, rec>>
  PROVE  TalkInv'
<1>1. ~Greeting' /\ InFlight' = InFlight
  BY DEF Greeting, InFlight
<1>2. ~(playing' /\ sp'.active) /\ ~sp'.active
  BY DEF Speaking
<1>3. \A i \in Start : run'[i].pc # "greeting"
  BY <1>1 DEF Greeting
<1>. QED BY <1>1, <1>2, <1>3 DEF TalkInv

LEMMA GreetingsStay ==
  ASSUME TypeOK, NEW i \in Start, SocketError(i) \/ CaptureFails(i)
  PROVE  \A j \in Start : run'[j].pc = run[j].pc
<1>1. PICK r \in {run, SetSock(run, i, "closed"), SetCap(run, i, "off")} : Teardown(r)
  BY DEF SocketError, CaptureFails, SetSock, SetCap
<1>2. run \in [Start -> Call]
  BY DEF TypeOK
<1>3. r \in [Start -> Call]
  BY <1>1, <1>2, SockIs, CapIs
<1>4. \A j \in Start : r[j].pc = run[j].pc
  <2>1. CASE r = SetSock(run, i, "closed")
    BY <1>2, <2>1, SockIs
  <2>2. CASE r = SetCap(run, i, "off")
    BY <1>2, <2>2, CapIs
  <2>. QED BY <1>1, <2>1, <2>2
<1>. QED BY <1>1, <1>3, <1>4, TeardownIs

LEMMA TalkStays ==
  ASSUME SessionInv, TalkHeld, [Next]_vars
  PROVE  TalkHeld'
<1> SUFFICES ASSUME odd' \cap {"line", "turn"} = {} PROVE TalkInv'
  BY DEF TalkHeld
<1>1. TypeOK /\ LineInv /\ TalkInv /\ "turn" \notin odd'
  BY OddGrows DEF TalkHeld, SessionInv, LineHeld
<1>0. /\ sp \in Stream /\ run \in [Start -> Call] /\ streaming \in BOOLEAN /\ active \in BOOLEAN
      /\ turn \in [Turn -> {"none", "over"} \cup Arriving] /\ transcribing \in Nat
  BY <1>1 DEF TypeOK
<1> USE DEF session, opened, batch, players
<1>2. CASE Played
  <2>1. /\ playing /\ ~sp.active /\ ~Greeting /\ (transcribing = 0) /\ rec = "none"
    BY <1>0, <1>1, <1>2 DEF Played, TalkInv, Speaking
  <2>2. CASE queue > 0
    <3>1. UNCHANGED <<phase, active, streaming, turn, transcribing, rec, run, playing, sp>>
      BY <1>2, <2>2 DEF Played
    <3>. QED BY <1>1, <3>1, TalkSame
  <2>3. CASE ~(queue > 0)
    <3>1. /\ ~playing' /\ ~sp'.active /\ Drained
          /\ UNCHANGED <<active, streaming, turn, transcribing, rec, run>>
      BY <1>2, <2>1, <2>3 DEF Played
    <3>2. UNCHANGED phase \/ (phase' = "listening" /\ active /\ ~streaming)
      BY <3>1, DrainedIs
    <3>. QED BY <1>1, <2>1, <3>1, <3>2, TalkResumes DEF Speaking
  <2>. QED BY <2>2, <2>3
<1>3. CASE SourceOpen \/ UpdateEnd \/ RunsDry
  <2>1. /\ UNCHANGED <<phase, active, streaming, turn, transcribing, rec, run, playing>>
        /\ sp'.active = sp.active
    BY <1>0, <1>3, FedIs, DryIs DEF SourceOpen, UpdateEnd, RunsDry, PlayerStep
  <2>. QED BY <1>1, <2>1, TalkSame
<1>4. CASE Finish \/ Refused
  <2>1. UNCHANGED <<active, streaming, turn, transcribing, rec, run, playing>> /\ ~sp'.active
    BY <1>0, <1>4, HaltedIs DEF Finish, Refused, PlayerStep
  <2>2. CASE ~sp.active
    <3>1. UNCHANGED phase
      BY <1>4, <2>2 DEF Finish, Refused
    <3>. QED BY <1>1, <2>1, <3>1, TalkSame
  <2>3. CASE sp.active
    <3>1. ~playing /\ ~Greeting
      BY <1>1, <2>3 DEF TalkInv, Speaking
    <3>2. UNCHANGED phase \/ (phase' = "listening" /\ active /\ ~streaming)
      BY <1>4, <2>3, DrainedIs DEF Finish, Refused
    <3>. QED BY <1>1, <2>1, <3>1, <3>2, TalkResumes DEF Speaking
  <2>. QED BY <2>2, <2>3
\* In a turn's own events nothing but its turn is under way.
<1>5. ASSUME NEW c \in Turn, turn[c] \in Arriving
      PROVE  /\ streaming /\ transcribing = 0 /\ rec = "none" /\ ~Greeting
             /\ phase # "listening" /\ \A d \in Turn : turn[d] \in Arriving => d = c
  BY <1>1, <1>5 DEF TalkInv, InFlight
<1>6. ASSUME NEW c \in Turn, turn[c] \in Arriving, turn'[c] \in Arriving,
             \A d \in Turn : d # c => turn'[d] = turn[d],
             UNCHANGED <<active, streaming, run, transcribing, rec>>, phase' # "listening",
             ~(playing' /\ sp'.active), turn'[c] \in {"open", "acked"} => ~sp'.active
      PROVE  TalkInv'
  <2>1. /\ ~Greeting' /\ InFlight' /\ \A d \in Turn : turn'[d] \in Arriving => d = c
    BY <1>5, <1>6 DEF Greeting, InFlight
  <2>2. \A i \in Start : run'[i].pc # "greeting"
    BY <2>1 DEF Greeting
  <2>3. \A d \in Turn : turn'[d] \in {"open", "acked"} => ~sp'.active
    BY <1>6, <2>1 DEF Arriving
  <2>. QED BY <1>5, <1>6, <2>1, <2>2, <2>3 DEF TalkInv
<1>7. ASSUME NEW c \in Turn, ReplyChunk(c) PROVE TalkInv'
  <2>1. /\ turn[c] \in Arriving /\ phase' = "speaking" /\ turn' = turn
        /\ UNCHANGED <<active, streaming, run, transcribing, rec, playing, sp>>
    BY <1>7 DEF ReplyChunk, InTurn
  <2>2. ~(playing /\ sp.active) /\ (turn[c] \in {"open", "acked"} => ~sp.active)
    BY <1>1 DEF TalkInv
  <2>. QED BY <1>6, <2>1, <2>2
<1>8. ASSUME NEW c \in Turn, Acknowledgment(c) PROVE TalkInv'
  <2>1. /\ turn[c] \in Arriving /\ phase' = "speaking" /\ turn' = [turn EXCEPT ![c] = "acked"]
        /\ UNCHANGED <<active, streaming, run, transcribing, rec, sp>> /\ turn[c] = "open"
    BY <1>8 DEF Acknowledgment, InTurn
  <2>2. ~sp.active
    BY <1>1, <2>1 DEF TalkInv
  <2>3. turn'[c] \in Arriving /\ \A d \in Turn : d # c => turn'[d] = turn[d]
    BY <1>0, <2>1 DEF Arriving
  <2>. QED BY <1>6, <2>1, <2>2, <2>3
<1>9. ASSUME NEW c \in Turn, AudioStart(c) PROVE TalkInv'
  <2>1. /\ turn[c] \in Arriving /\ phase' = "speaking" /\ turn' = [turn EXCEPT ![c] = "audio"]
        /\ UNCHANGED <<active, streaming, run, transcribing, rec>> /\ playing' = playing
    BY <1>9 DEF AudioStart, InTurn
  <2>2. ~playing
    BY <1>1, <1>9 DEF AudioStart
  <2>3. /\ turn'[c] \in Arriving /\ turn'[c] = "audio"
        /\ \A d \in Turn : d # c => turn'[d] = turn[d]
    BY <1>0, <2>1 DEF Arriving
  <2>. QED BY <1>6, <2>1, <2>2, <2>3
<1>10. ASSUME NEW c \in Turn, AudioChunk(c) PROVE TalkInv'
  <2>1. /\ turn[c] \in Arriving /\ phase' = "speaking" /\ turn' = turn /\ turn[c] = "audio"
        /\ UNCHANGED <<active, streaming, run, transcribing, rec, playing>>
    BY <1>10 DEF AudioChunk, InTurn
  <2>2. sp'.active => sp.active
    BY <1>0, <1>10, PushedIs DEF AudioChunk, Stream
  <2>3. ~(playing /\ sp.active)
    BY <1>1 DEF TalkInv
  <2>. QED BY <1>6, <2>1, <2>2, <2>3
<1>11. ASSUME NEW c \in Turn, AudioEnd(c) PROVE TalkInv'
  <2>1. /\ turn[c] \in Arriving /\ phase' = phase /\ turn' = [turn EXCEPT ![c] = "ended"]
        /\ UNCHANGED <<active, streaming, run, transcribing, rec, playing>>
    BY <1>11 DEF AudioEnd, InTurn
  <2>2. sp'.active => sp.active
    BY <1>0, <1>11, EndedIs DEF AudioEnd
  <2>3. ~(playing /\ sp.active)
    BY <1>1 DEF TalkInv
  <2>4. /\ turn'[c] \in Arriving /\ turn'[c] = "ended"
        /\ \A d \in Turn : d # c => turn'[d] = turn[d]
    BY <1>0, <2>1 DEF Arriving
  <2>5. phase' # "listening"
    BY <1>5, <2>1
  <2>. QED BY <1>6, <2>1, <2>2, <2>3, <2>4, <2>5
<1>12. ASSUME NEW c \in Turn, ChatEnds(c) PROVE TalkInv'
  <2>1. /\ turn[c] \in Arriving /\ turn' = [turn EXCEPT ![c] = "over"] /\ ~streaming'
        /\ UNCHANGED <<active, run, transcribing, rec, playing, sp>>
        /\ IF playing \/ sp.active THEN UNCHANGED phase ELSE Resume(active)
    BY <1>12 DEF ChatEnds
  <2>2. \A d \in Turn : turn'[d] \notin Arriving
    BY <1>0, <1>5, <2>1 DEF Arriving
  <2>3. ~InFlight' /\ ~Greeting' /\ (\A i \in Start : run'[i].pc # "greeting")
    BY <1>5, <2>1, <2>2 DEF InFlight, Greeting
  <2>4. phase' = "listening" => active /\ ~Speaking'
    BY <1>5, <2>1 DEF Resume, Speaking
  <2>5. ~(playing /\ sp.active) /\ transcribing = 0 /\ rec = "none"
    BY <1>1, <1>5, <2>1 DEF TalkInv
  <2>6. \A d \in Turn : turn'[d] \notin {"open", "acked"}
    BY <2>2 DEF Arriving
  <2>. QED BY <2>1, <2>2, <2>3, <2>4, <2>5, <2>6 DEF TalkInv
<1>13. ASSUME NEW c \in Turn, Typed(c) \/ Transcribed(c) PROVE TalkInv'
  <2>1. RunChat(c) /\ UNCHANGED <<run, playing, sp, rec>>
    BY <1>13 DEF Typed, Transcribed
  <2>2. transcribing' \in Nat
    BY <1>1, StepType DEF TypeOK
  <2>. QED BY <1>1, <2>1, <2>2, TurnBegins
<1>14. ASSUME NEW c \in Turn, NEW i \in Start, Final(i, c) PROVE TalkInv'
  <2>1. /\ UNCHANGED <<active, playing, sp, rec, transcribing>>
        /\ RunChat(c) \/ UNCHANGED <<turn, phase, streaming>>
    BY <1>14 DEF Final
  <2>2. \A j \in Start : run'[j].pc = run[j].pc
    BY <1>1, <1>14, SameCalls
  <2>3. CASE RunChat(c)
    BY <1>0, <1>1, <2>1, <2>2, <2>3, TurnBegins
  <2>4. CASE UNCHANGED <<turn, phase, streaming>>
    BY <1>1, <2>1, <2>2, <2>4, TalkSame
  <2>. QED BY <2>1, <2>3, <2>4
<1>15. ASSUME NEW i \in Start, Ready(i) \/ SocketCloses(i) \/ Frame(i) \/ CaptureOn(i)
                               \/ SocketError(i) \/ CaptureFails(i) \/ Tap(i)
       PROVE  TalkInv'
  <2>1. UNCHANGED <<phase, active, streaming, turn, transcribing, rec, playing, sp>>
    BY <1>15 DEF Ready, SocketCloses, Frame, CaptureOn, LineStep, SocketError, CaptureFails,
       Teardown, Tap
  <2>2. \A j \in Start : run'[j].pc = "greeting" <=> run[j].pc = "greeting"
    <3>1. CASE SocketError(i) \/ CaptureFails(i)
      BY <1>1, <3>1, GreetingsStay
    <3>2. CASE Tap(i)
      BY <1>1, <3>2, TapIs DEF Tap
    <3>. QED BY <1>1, <1>15, <3>1, <3>2, SameCalls, CaptureIs
  <2>3. Greeting' = Greeting /\ InFlight' = InFlight /\ Speaking' = Speaking
    BY <2>1, <2>2 DEF Greeting, InFlight, Speaking
  <2>. QED BY <1>1, <2>1, <2>2, <2>3 DEF TalkInv
<1>16. CASE SendText
  <2>1. UNCHANGED <<phase, active, streaming, turn, transcribing, rec, playing, sp, run>>
    BY <1>16 DEF SendText
  <2>. QED BY <1>1, <2>1, TalkSame
<1>17. CASE Speech \/ Silence
  <2>1. /\ UNCHANGED <<phase, active, streaming, turn, transcribing, playing, sp, run>>
        /\ phase = "listening"
    BY <1>17 DEF Speech, Silence, BatchStep
  <2>2. ~streaming /\ ~Speaking /\ ~Greeting
    BY <1>1, <2>1 DEF TalkInv
  <2>3. ~Speaking' /\ ~streaming'
    BY <2>1, <2>2 DEF Speaking
  <2>. QED BY <1>1, <2>1, <2>2, <2>3, TalkResumes
<1>18. CASE Finalize \/ Nothing
  <2>1. UNCHANGED <<active, streaming, turn, playing, sp, run>>
    BY <1>18 DEF Finalize, Nothing, BatchStep
  <2>2. ~streaming /\ ~Speaking /\ ~Greeting
    BY <1>0, <1>1, <1>18 DEF Finalize, Nothing, TalkInv
  <2>3. phase' = "listening" => active
    BY <1>1, <1>18 DEF Finalize, Nothing, Resume, TalkInv
  <2>4. ~Speaking' /\ ~Greeting' /\ InFlight' = InFlight /\ ~streaming' /\ ~sp'.active
    BY <2>1, <2>2 DEF Speaking, Greeting, InFlight
  <2>. QED BY <1>1, <2>1, <2>2, <2>3, <2>4 DEF TalkInv, Speaking, Greeting
<1>19. ASSUME NEW i \in Start, Opened(i) PROVE TalkInv'
  <2>1. /\ UNCHANGED <<streaming, turn, transcribing, rec, playing, sp>> /\ active' = TRUE
    BY <1>19 DEF Opened, StartStep
  <2>2. /\ ~streaming /\ ~playing /\ ~sp.active /\ ~(transcribing > 0) /\ rec = "none"
        /\ ~Greeting
    BY <1>1, <1>19, <2>1 DEF Opened, Busy, Greeting
  <2>3. transcribing = 0
    BY <1>0, <2>2
  <2>4. ~active /\ phase # "listening"
    BY <1>1, <1>19 DEF Opened, LineInv, TalkInv
  <2>5. /\ \A j \in Start : run'[j].pc = "greeting" => j = i /\ i = 1
        /\ phase' = "listening" => run'[i].pc # "greeting"
    BY <1>1, <1>19, <2>2, <2>4, OpenedIs DEF Greeting
  <2>6. ~Speaking' /\ InFlight' = InFlight
    BY <2>1, <2>2 DEF Speaking, InFlight
  <2>7. Greeting' => phase' # "listening"
    BY <2>5 DEF Greeting
  <2>. QED BY <1>1, <2>1, <2>2, <2>3, <2>5, <2>6, <2>7 DEF TalkInv
<1>20. ASSUME NEW i \in Start, Denied(i) PROVE TalkInv'
  <2>1. UNCHANGED <<active, streaming, turn, transcribing, rec, playing, sp>> /\ phase' = "error"
    BY <1>20 DEF Denied, StartStep
  <2>2. \A j \in Start : run'[j].pc = "greeting" => run[j].pc = "greeting"
    BY <1>1, <1>20, AnswerIs
  <2>3. (Greeting' => Greeting) /\ InFlight' = InFlight /\ Speaking' = Speaking
    BY <2>1, <2>2 DEF Greeting, InFlight, Speaking
  <2>. QED BY <1>1, <2>1, <2>2, <2>3 DEF TalkInv
<1>21. ASSUME NEW i \in Start, Greeted(i) PROVE TalkInv'
  <2>1. /\ UNCHANGED <<active, streaming, turn, transcribing, rec, sp>> /\ run[i].pc = "greeting"
        /\ \/ phase' = "speaking"
           \/ Resume(active) /\ playing' = playing
    BY <1>21 DEF Greeted, StartStep
  <2>2. /\ ~streaming /\ ~Speaking /\ phase # "listening" /\ transcribing = 0 /\ rec = "none"
        /\ i = 1 /\ Greeting
    BY <1>1, <2>1 DEF TalkInv, Greeting
  <2>3. \A j \in Start : run'[j].pc # "greeting"
    BY <1>1, <1>21, <2>2, AnswerIs DEF TalkInv
  <2>4. ~Greeting' /\ InFlight' = InFlight /\ ~sp'.active
    BY <2>1, <2>2, <2>3 DEF Greeting, InFlight, Speaking
  <2>5. phase' = "listening" => active /\ ~Speaking'
    BY <2>1, <2>2 DEF Resume, Speaking
  <2>. QED BY <1>1, <2>1, <2>2, <2>3, <2>4, <2>5 DEF TalkInv
<1>22. CASE TapStop \/ AutoClose
  <2>1. Stop
    BY <1>22 DEF TapStop, AutoClose
  <2>2. ~Pending
    BY <1>1, <2>1 DEF Stop
  <2>3. /\ ~InFlight /\ ~Greeting /\ ~(transcribing > 0) /\ rec = "none" /\ ~playing
    BY <2>2 DEF Pending, InFlight, Greeting
  <2>4. /\ active' = FALSE /\ phase' = "idle" /\ sp' = NoStream /\ rec' = "none"
        /\ UNCHANGED <<streaming, transcribing, turn, playing>>
    BY <2>1, <2>3 DEF Stop
  <2>5. ~sp'.active /\ ~Speaking'
    BY <2>3, <2>4 DEF NoStream, Speaking
  <2>6. \A j \in Start : run'[j].pc # "greeting"
    BY <1>1, <2>1, <2>3, StopIs DEF Greeting
  <2>7. ~Greeting' /\ ~InFlight' /\ ~streaming'
    BY <1>1, <2>3, <2>4, <2>6 DEF Greeting, InFlight, TalkInv
  <2>8. \A c, d \in Turn : turn'[c] \in Arriving /\ turn'[d] \in Arriving => c = d
    BY <1>1, <2>4 DEF TalkInv
  <2>. QED BY <2>3, <2>4, <2>5, <2>6, <2>7, <2>8 DEF TalkInv, Speaking
<1>23. CASE UNCHANGED vars
  <2>1. UNCHANGED <<phase, active, streaming, turn, transcribing, rec, playing, sp, run>>
    BY <1>23 DEF vars
  <2>. QED BY <1>1, <2>1, TalkSame
<1>. QED
  BY <1>2, <1>3, <1>4, <1>7, <1>8, <1>9, <1>10, <1>11, <1>12, <1>13, <1>14, <1>15, <1>16, <1>17,
     <1>18, <1>19, <1>20, <1>21, <1>22, <1>23 DEF Next

LEMMA TalkInit == Init => TalkInv
<1> SUFFICES ASSUME Init PROVE TalkInv
  OBVIOUS
<1>1. /\ phase = "idle" /\ streaming = FALSE /\ playing = FALSE /\ ~sp.active
      /\ transcribing = 0 /\ ~(transcribing > 0) /\ rec = "none"
      /\ \A c \in Turn : turn[c] = "none"
      /\ \A i \in Start : run[i].pc # "greeting"
  BY DEF Init, NoStream
<1>. QED BY <1>1 DEF TalkInv, Greeting, InFlight, Speaking, Arriving

\* While no chunk is refused an element has audio to play only while its flag is set: nothing
\* is appended after it falls, because a turn that still sends audio keeps it up, or has no
\* source buffer.
SoundInv ==
  /\ sp.sounds \/ sp.sb = "busy" \/ sp.ms = "opening" => sp.active
  /\ sp.ms = "opening" => sp.sb = "none" /\ ~sp.sounds
  /\ sp.ms = "none" => sp.sb = "none"
  /\ \A c \in Turn : turn[c] = "audio" =>
       /\ ~sp.ended /\ sp.ms # "ended"
       /\ sp.active \/ sp.sb = "none"

SoundHeld == odd \cap {"line", "turn", "refused"} = {} => SoundInv

LEMMA SoundInit == Init => SoundInv
<1> SUFFICES ASSUME Init PROVE SoundInv
  OBVIOUS
<1>1. sp = NoStream /\ \A c \in Turn : turn[c] = "none"
  BY DEF Init
<1>. QED BY <1>1 DEF SoundInv, NoStream

\* A step of a player that keeps the turns, with its flag up or nothing to play.
LEMMA SoundFlushed ==
  ASSUME NEW p \in Stream, p.active \/ p.sb # "idle" \/ p.pending = 0,
         p.sounds \/ p.sb = "busy" \/ p.ms = "opening" => p.active,
         p.ms = "opening" => p.sb = "none" /\ ~p.sounds, p.ms = "none" => p.sb = "none"
  PROVE  LET q == Flushed(p) IN
         /\ q.sounds \/ q.sb = "busy" \/ q.ms = "opening" => q.active
         /\ q.ms = "opening" => q.sb = "none" /\ ~q.sounds
         /\ q.ms = "none" => q.sb = "none"
         /\ q.active = p.active /\ q.ended = p.ended
         /\ q.sb = "none" <=> p.sb = "none"
         /\ ~p.ended /\ p.ms # "ended" => q.ms # "ended"
<1>1. CASE p.sb # "idle"
  BY <1>1 DEF Flushed
<1>2. CASE p.sb = "idle" /\ p.pending > 0
  <2>1. /\ Flushed(p) = [p EXCEPT !.pending = p.pending - 1, !.sb = "busy", !.ms = "open",
                                  !.sounds = TRUE]
        /\ p.active
    BY <1>2 DEF Flushed
  <2>. QED BY <1>2, <2>1 DEF Stream
<1>3. CASE p.sb = "idle" /\ ~(p.pending > 0)
  <2>1. Flushed(p) = IF p.ended THEN [p EXCEPT !.ms = "ended"] ELSE p
    BY <1>3 DEF Flushed
  <2>. QED BY <1>3, <2>1 DEF Stream
<1>. QED BY <1>1, <1>2, <1>3

\* A step that leaves the stream's player and starts no audio.
LEMMA SoundKept ==
  ASSUME SoundInv, sp' = sp, \A c \in Turn : turn'[c] = "audio" => turn[c] = "audio"
  PROVE  SoundInv'
  BY DEF SoundInv

\* A player that has flushed, in the turns that go on sending.
LEMMA SoundFed ==
  ASSUME SoundInv, NEW p \in Stream, sp' = Flushed(p),
         p.active \/ p.sb # "idle" \/ p.pending = 0,
         p.sounds \/ p.sb = "busy" \/ p.ms = "opening" => p.active,
         p.ms = "opening" => p.sb = "none" /\ ~p.sounds, p.ms = "none" => p.sb = "none",
         \A c \in Turn : turn'[c] = "audio" =>
           ~p.ended /\ p.ms # "ended" /\ (p.active \/ p.sb = "none")
  PROVE  SoundInv'
  BY SoundFlushed DEF SoundInv

LEMMA SoundStays ==
  ASSUME SessionInv, TalkHeld, SoundHeld, [Next]_vars
  PROVE  SoundHeld'
<1> SUFFICES ASSUME odd' \cap {"line", "turn", "refused"} = {} PROVE SoundInv'
  BY DEF SoundHeld
<1>1. /\ TypeOK /\ TalkInv /\ SoundInv
      /\ "line" \notin odd' /\ "turn" \notin odd' /\ "refused" \notin odd'
  BY OddGrows DEF TalkHeld, SoundHeld, SessionInv
<1>2. sp \in Stream /\ turn \in [Turn -> {"none", "over"} \cup Arriving]
  BY <1>1 DEF TypeOK
<1> USE DEF session, opened, batch, players
<1>3. CASE SourceOpen
  <2> DEFINE p == [sp EXCEPT !.ms = "open", !.sb = "idle"]
  <2>1. sp' = Flushed(p) /\ sp.ms = "opening" /\ turn' = turn
    BY <1>3 DEF SourceOpen, PlayerStep
  <2>2. sp.active /\ p \in Stream
    BY <1>1, <1>2, <2>1 DEF SoundInv, Stream
  <2>3. /\ p.active = sp.active /\ p.ms = "open" /\ p.ended = sp.ended
    BY <1>2 DEF Stream
  <2>. HIDE DEF p
  <2>. QED BY <1>1, <2>1, <2>2, <2>3, SoundFed DEF SoundInv
<1>4. CASE UpdateEnd
  <2> DEFINE p == [sp EXCEPT !.sb = "idle"]
  <2>1. sp' = Flushed(p) /\ sp.sb = "busy" /\ turn' = turn
    BY <1>4 DEF UpdateEnd, PlayerStep
  <2>2. sp.active /\ p \in Stream
    BY <1>1, <1>2, <2>1 DEF SoundInv, Stream
  <2>3. p.active = sp.active /\ p.ms = sp.ms /\ p.ended = sp.ended
    BY <1>2 DEF Stream
  <2>4. sp.ms # "opening" /\ sp.ms # "none"
    BY <1>1, <2>1 DEF SoundInv
  <2>. HIDE DEF p
  <2>. QED BY <1>1, <2>1, <2>2, <2>3, <2>4, SoundFed DEF SoundInv
<1>5. CASE RunsDry
  <2>1. /\ sp' = [sp EXCEPT !.sounds = FALSE] /\ turn' = turn
    BY <1>5 DEF RunsDry, PlayerStep
  <2>. QED BY <1>1, <1>2, <2>1 DEF SoundInv, Stream
<1>6. CASE Finish
  <2>1. /\ sp' = [sp EXCEPT !.active = FALSE, !.sounds = FALSE] /\ turn' = turn
        /\ sp.ms = "ended" /\ sp.sb = "idle"
    BY <1>6 DEF Finish, PlayerStep
  <2>2. \A c \in Turn : turn[c] # "audio"
    BY <1>1, <2>1 DEF SoundInv
  <2>. QED BY <1>1, <1>2, <2>1, <2>2 DEF SoundInv, Stream
<1>7. CASE Refused
  <2>1. /\ sp.ms = "opening" /\ sp' = [sp EXCEPT !.active = FALSE, !.ms = "open"]
        /\ turn' = turn
    BY <1>1, <1>7 DEF Refused, PlayerStep
  <2>2. sp.sb = "none" /\ ~sp.sounds
    BY <1>1, <2>1 DEF SoundInv
  <2>. QED BY <1>1, <1>2, <2>1, <2>2 DEF SoundInv, Stream
<1>8. ASSUME NEW c \in Turn, AudioStart(c) PROVE SoundInv'
  <2>1. sp' = Begun
    BY <1>8 DEF AudioStart
  <2>. QED BY <2>1 DEF SoundInv, Begun
<1>9. ASSUME NEW c \in Turn, AudioChunk(c) PROVE SoundInv'
  <2>1. sp' = Pushed(sp) /\ turn[c] = "audio" /\ turn' = turn /\ sp.pending < MaxPending
    BY <1>1, <1>9 DEF AudioChunk
  <2>2. CASE sp.ms = "none"
    BY <1>1, <2>1, <2>2, SoundKept DEF Pushed
  <2>3. CASE sp.ms # "none"
    <3> DEFINE p == [sp EXCEPT !.pending = sp.pending + 1]
    <3>1. sp' = Flushed(p)
      BY <2>1, <2>3 DEF Pushed
    <3>2. sp.pending + 1 \in 0..MaxPending
      BY <1>2, <2>1, Bounds DEF Stream
    <3>3. /\ p \in Stream /\ p.active = sp.active /\ p.ms = sp.ms /\ p.ended = sp.ended
          /\ p.sb = sp.sb /\ p.sounds = sp.sounds
      BY <1>2, <3>2 DEF Stream
    <3>4. sp.active \/ sp.sb # "idle"
      BY <1>1, <2>1 DEF SoundInv
    <3>. HIDE DEF p
    <3>. QED BY <1>1, <2>1, <3>1, <3>3, <3>4, SoundFed DEF SoundInv
  <2>. QED BY <2>2, <2>3
<1>10. ASSUME NEW c \in Turn, AudioEnd(c) PROVE SoundInv'
  <2>1. /\ sp' = Ended(sp) /\ turn[c] = "audio" /\ turn' = [turn EXCEPT ![c] = "ended"]
    BY <1>10 DEF AudioEnd
  <2>2. \A d \in Turn : turn'[d] # "audio"
    BY <1>1, <1>2, <2>1 DEF TalkInv, Arriving
  <2>3. CASE sp.ms = "none"
    BY <1>1, <2>1, <2>2, <2>3, SoundKept DEF Ended
  <2>4. CASE sp.ms # "none"
    <3> DEFINE p == [sp EXCEPT !.ended = TRUE]
    <3>1. sp' = Flushed(p)
      BY <2>1, <2>4 DEF Ended
    <3>2. /\ p \in Stream /\ p.active = sp.active /\ p.ms = sp.ms /\ p.sb = sp.sb
          /\ p.sounds = sp.sounds
      BY <1>2 DEF Stream
    <3>3. sp.active \/ sp.sb # "idle"
      BY <1>1, <2>1 DEF SoundInv
    <3>. HIDE DEF p
    <3>. QED BY <1>1, <2>2, <3>1, <3>2, <3>3, SoundFed DEF SoundInv
  <2>. QED BY <2>3, <2>4
<1>11. ASSUME NEW c \in Turn, ReplyChunk(c) \/ Acknowledgment(c) \/ ChatEnds(c) \/ Typed(c)
                              \/ Transcribed(c) \/ \E i \in Start : Final(i, c)
       PROVE  SoundInv'
  <2>1. sp' = sp
    BY <1>11 DEF ReplyChunk, Acknowledgment, ChatEnds, Typed, Transcribed, Final
  <2>2. turn' = turn \/ \E v \in {"acked", "over", "open"} : turn' = [turn EXCEPT ![c] = v]
    BY <1>11 DEF ReplyChunk, Acknowledgment, ChatEnds, Typed, Transcribed, Final, RunChat
  <2>3. \A d \in Turn : turn'[d] = "audio" => turn[d] = "audio"
    BY <1>2, <2>2
  <2>. QED BY <1>1, <2>1, <2>3, SoundKept
<1>12. ASSUME NEW i \in Start, Ready(i) \/ SocketError(i) \/ SocketCloses(i) \/ CaptureOn(i)
                               \/ CaptureFails(i) \/ Frame(i) \/ Tap(i) \/ Opened(i)
                               \/ Denied(i) \/ Greeted(i)
       PROVE  SoundInv'
  <2>1. sp' = sp /\ turn' = turn
    BY <1>12 DEF Ready, SocketError, Teardown, SocketCloses, CaptureOn, CaptureFails, Frame,
       LineStep, Tap, Opened, Denied, Greeted, StartStep
  <2>. QED BY <1>1, <2>1, SoundKept
<1>13. CASE Played \/ SendText \/ Speech \/ Silence \/ Finalize \/ Nothing \/ UNCHANGED vars
  <2>1. sp' = sp /\ turn' = turn
    BY <1>13 DEF Played, SendText, Speech, Silence, Finalize, Nothing, BatchStep, vars
  <2>. QED BY <1>1, <2>1, SoundKept
<1>14. CASE TapStop \/ AutoClose
  <2>1. sp' = NoStream
    BY <1>14 DEF TapStop, AutoClose, Stop
  <2>2. \A c \in Turn : turn'[c] # "audio"
    BY <1>1, <1>14 DEF TapStop, AutoClose, Stop, Pending, Arriving
  <2>. QED BY <2>1, <2>2 DEF SoundInv, NoStream
<1>. QED
  BY <1>3, <1>4, <1>5, <1>6, <1>7, <1>8, <1>9, <1>10, <1>11, <1>12, <1>13, <1>14 DEF Next

\* No frame reaches the recogniser while a file plays or a stream's element is heard, as long
\* as one thing happens at a time and the source buffer takes every chunk.
THEOREM NeverFedHerself == Spec => []NotHerself
<1> DEFINE I == SessionInv /\ TalkHeld /\ SoundHeld
<1>1. Init => I
  BY SessionInvInit, TalkInit, SoundInit DEF TalkHeld, SoundHeld
<1>2. I /\ [Next]_vars => I'
  BY StepType, LineStays, TalkStays, SoundStays DEF SessionInv
<1>3. I => NotHerself
  BY DEF TalkHeld, TalkInv, SoundHeld, SoundInv, NotHerself, Feeds, Sounding, Speaking
<1>. QED BY <1>1, <1>2, <1>3, PTL DEF Spec

-----------------------------------------------------------------------------
(* The way back to listening.                                              *)

\* A stream in flight has its turn; a player that sounds has a source, and waits for the
\* end of a turn that still sends it audio, or has been told the end.
ResumeInv ==
  /\ streaming => InFlight
  /\ sp.active => sp.ms # "none"
  /\ (sp.active /\ ~sp.ended /\ "cut" \notin odd) => \E c \in Turn : turn[c] = "audio"

\* A step that leaves a reason to resume, or resumes.
LEMMA ResumeSame ==
  ASSUME ResumeInv, WillResume, odd \subseteq odd',
         UNCHANGED <<phase, active, streaming, turn, transcribing>>,
         \A j \in Start : run[j].pc = "greeting" => run'[j].pc = "greeting",
         playing => playing', sp'.active = sp.active, sp'.ended = sp.ended,
         sp.ms # "none" => sp'.ms # "none"
  PROVE  ResumeInv' /\ WillResume'
<1>1. InFlight' = InFlight /\ (Underway => Underway')
  BY DEF InFlight, Underway
<1>. QED BY <1>1 DEF ResumeInv, WillResume

LEMMA TurnResumes ==
  ASSUME TypeOK, NEW c \in Turn, RunChat(c), sp' = sp, ResumeInv
  PROVE  ResumeInv' /\ WillResume'
<1>1. /\ turn' = [turn EXCEPT ![c] = "open"] /\ turn[c] = "none" /\ odd \subseteq odd'
      /\ turn \in [Turn -> {"none", "over"} \cup Arriving]
  BY DEF RunChat, TypeOK
<1>2. turn'[c] \in Arriving /\ \A d \in Turn : turn[d] = "audio" => turn'[d] = "audio"
  BY <1>1 DEF Arriving
<1>3. InFlight' /\ Underway'
  BY <1>2 DEF InFlight, Underway
<1>. QED BY <1>1, <1>2, <1>3 DEF ResumeInv, WillResume

LEMMA ResumeStays ==
  ASSUME TypeOK, ResumeInv, WillResume, [Next]_vars
  PROVE  ResumeInv' /\ WillResume'
<1> USE DEF session, opened, batch, players
<1>0. /\ sp \in Stream /\ turn \in [Turn -> {"none", "over"} \cup Arriving]
      /\ odd \subseteq odd'
  BY OddGrows DEF TypeOK
\* What ends while no stream is in flight resumes listening.
<1>1. ASSUME Drained, UNCHANGED <<active, streaming, turn>>,
             ~sp'.active, sp.ms # "none" => sp'.ms # "none"
      PROVE  ResumeInv' /\ WillResume'
  <2>1. InFlight' = InFlight /\ (InFlight' => Underway')
    BY <1>1 DEF InFlight, Underway
  <2>2. streaming \/ (active' => phase' = "listening")
    BY <1>1 DEF Drained, Resume
  <2>. QED BY <1>1, <2>1, <2>2 DEF ResumeInv, WillResume
<1>2. CASE Played
  <2>1. CASE queue > 0
    <3>1. UNCHANGED <<phase, active, streaming, turn, transcribing, run, playing, sp>>
      BY <1>2, <2>1 DEF Played
    <3>. QED BY <1>0, <3>1, ResumeSame
  <2>2. CASE ~(queue > 0)
    <3>1. Drained /\ UNCHANGED <<active, streaming, turn, sp, odd>>
      BY <1>2, <2>2 DEF Played
    <3>2. InFlight' = InFlight /\ (InFlight' => Underway')
      BY <3>1 DEF InFlight, Underway
    <3>3. streaming \/ (active' => phase' = "listening")
      BY <3>1 DEF Drained, Resume
    <3>. QED BY <3>1, <3>2, <3>3 DEF ResumeInv, WillResume
  <2>. QED BY <2>1, <2>2
<1>3. CASE SourceOpen \/ UpdateEnd \/ RunsDry
  <2>1. UNCHANGED <<phase, active, streaming, turn, transcribing, run, playing>>
    BY <1>3 DEF SourceOpen, UpdateEnd, RunsDry, PlayerStep
  <2>. QED BY <1>0, <1>3, <2>1, FedIs, DryIs, ResumeSame
<1>4. CASE Finish \/ Refused
  <2>1. /\ UNCHANGED <<active, streaming, turn, transcribing, run, playing>>
        /\ ~sp'.active /\ sp'.ended = sp.ended /\ (sp.ms # "none" => sp'.ms # "none")
    BY <1>0, <1>4, HaltedIs DEF Finish, Refused, PlayerStep
  <2>2. CASE ~sp.active
    <3>1. UNCHANGED phase
      BY <1>4, <2>2 DEF Finish, Refused
    <3>2. sp'.active = sp.active
      BY <1>0, <1>4, <2>1, <2>2 DEF Stream, Finish, Refused
    <3>. QED BY <1>0, <2>1, <3>1, <3>2, ResumeSame
  <2>3. CASE sp.active
    <3>1. Drained
      BY <1>4, <2>3 DEF Finish, Refused
    <3>. QED BY <1>1, <2>1, <3>1
  <2>. QED BY <2>2, <2>3
\* A turn's events leave its turn in flight.
<1>5. ASSUME NEW c \in Turn, turn'[c] \in Arriving,
             sp'.active => sp'.ms # "none",
             (sp'.active /\ ~sp'.ended /\ "cut" \notin odd') => \E d \in Turn : turn'[d] = "audio"
      PROVE  ResumeInv' /\ WillResume'
  <2>1. InFlight' /\ Underway'
    BY <1>5 DEF InFlight, Underway
  <2>. QED BY <1>5, <2>1 DEF ResumeInv, WillResume
<1>6. ASSUME NEW c \in Turn, ReplyChunk(c) PROVE ResumeInv' /\ WillResume'
  <2>1. turn[c] \in Arriving /\ UNCHANGED <<turn, sp, odd>>
    BY <1>6 DEF ReplyChunk, InTurn
  <2>. QED BY <1>5, <2>1 DEF ResumeInv
<1>7. ASSUME NEW c \in Turn, Acknowledgment(c) PROVE ResumeInv' /\ WillResume'
  <2>1. turn[c] = "open" /\ turn' = [turn EXCEPT ![c] = "acked"] /\ UNCHANGED <<sp, odd>>
    BY <1>7 DEF Acknowledgment
  <2>2. turn'[c] \in Arriving /\ \A d \in Turn : turn[d] = "audio" => turn'[d] = "audio"
    BY <1>0, <2>1 DEF Arriving
  <2>. QED BY <1>5, <2>1, <2>2 DEF ResumeInv
<1>8. ASSUME NEW c \in Turn, AudioStart(c) PROVE ResumeInv' /\ WillResume'
  <2>1. turn' = [turn EXCEPT ![c] = "audio"] /\ sp' = Begun
    BY <1>8 DEF AudioStart
  <2>2. turn'[c] \in Arriving /\ turn'[c] = "audio" /\ sp'.ms # "none"
    BY <1>0, <2>1 DEF Arriving, Begun
  <2>. QED BY <1>5, <2>2
<1>9. ASSUME NEW c \in Turn, AudioChunk(c) PROVE ResumeInv' /\ WillResume'
  <2>1. turn[c] = "audio" /\ turn' = turn
    BY <1>9 DEF AudioChunk
  <2>2. (sp'.active => sp.active) /\ (sp.ms # "none" => sp'.ms # "none")
    <3>1. CASE sp' = Pushed(sp)
      BY <1>0, <1>9, <3>1, PushedIs DEF AudioChunk
    <3>2. CASE sp' = [sp EXCEPT !.active = FALSE]
      BY <1>0, <3>2 DEF Stream
    <3>. QED BY <1>9, <3>1, <3>2 DEF AudioChunk
  <2>. QED BY <1>5, <2>1, <2>2 DEF ResumeInv, Arriving
<1>10. ASSUME NEW c \in Turn, AudioEnd(c) PROVE ResumeInv' /\ WillResume'
  <2>1. turn[c] = "audio" /\ turn' = [turn EXCEPT ![c] = "ended"] /\ sp' = Ended(sp)
    BY <1>10 DEF AudioEnd
  <2>2. turn'[c] \in Arriving
    BY <1>0, <2>1 DEF Arriving
  <2>3. sp'.active => sp'.ms # "none" /\ sp'.ended
    BY <1>0, <2>1, EndedIs DEF ResumeInv
  <2>. QED BY <1>5, <2>2, <2>3
<1>11. ASSUME NEW c \in Turn, ChatEnds(c) PROVE ResumeInv' /\ WillResume'
  <2>1. /\ turn[c] \in Arriving /\ turn' = [turn EXCEPT ![c] = "over"] /\ ~streaming'
        /\ UNCHANGED <<active, playing, sp>>
        /\ turn[c] = "audio" => "cut" \in odd'
        /\ IF playing \/ sp.active THEN UNCHANGED phase ELSE Resume(active)
    BY <1>11 DEF ChatEnds
  <2>2. ASSUME sp.active, ~sp.ended, "cut" \notin odd'
        PROVE  \E d \in Turn : turn'[d] = "audio"
    <3>1. PICK d \in Turn : turn[d] = "audio"
      BY <1>0, <2>2 DEF ResumeInv
    <3>2. d # c
      BY <2>1, <2>2, <3>1
    <3>3. turn'[d] = "audio"
      BY <1>0, <2>1, <3>1, <3>2
    <3>. QED BY <3>3
  <2>3. ResumeInv'
    BY <2>1, <2>2 DEF ResumeInv
  <2>4. WillResume'
    <3> SUFFICES ASSUME active', phase' \in {"thinking", "speaking"}, "cut" \notin odd'
                 PROVE  Underway'
      BY DEF WillResume
    <3>1. playing \/ sp.active
      BY <2>1 DEF Resume
    <3>2. CASE playing
      BY <2>1, <3>2 DEF Underway
    <3>3. CASE sp.active /\ sp.ended
      BY <2>1, <3>3 DEF Underway
    <3>4. CASE sp.active /\ ~sp.ended
      BY <2>2, <3>4 DEF Underway, Arriving
    <3>. QED BY <3>1, <3>2, <3>3, <3>4
  <2>. QED BY <2>3, <2>4
<1>12. ASSUME NEW c \in Turn, Typed(c) \/ Transcribed(c) PROVE ResumeInv' /\ WillResume'
  BY <1>12, TurnResumes DEF Typed, Transcribed
<1>13. ASSUME NEW c \in Turn, NEW i \in Start, Final(i, c) PROVE ResumeInv' /\ WillResume'
  <2>1. CASE RunChat(c)
    BY <1>13, <2>1, TurnResumes DEF Final
  <2>2. CASE UNCHANGED <<turn, phase, streaming>>
    <3>1. UNCHANGED <<active, transcribing, playing, sp>>
      BY <1>13 DEF Final
    <3>. QED BY <1>0, <1>13, <2>2, <3>1, SameCalls, ResumeSame
  <2>. QED BY <1>13, <2>1, <2>2 DEF Final
<1>14. ASSUME NEW i \in Start, Ready(i) \/ SocketCloses(i) \/ Frame(i) \/ CaptureOn(i)
                               \/ SocketError(i) \/ CaptureFails(i) \/ Tap(i)
       PROVE  ResumeInv' /\ WillResume'
  <2>1. UNCHANGED <<phase, active, streaming, turn, transcribing, playing, sp>>
    BY <1>14 DEF Ready, SocketCloses, Frame, CaptureOn, LineStep, SocketError, CaptureFails,
       Teardown, Tap
  <2>2. \A j \in Start : run[j].pc = "greeting" => run'[j].pc = "greeting"
    <3>1. CASE SocketError(i) \/ CaptureFails(i)
      BY <3>1, GreetingsStay
    <3>2. CASE Tap(i)
      BY <3>2, TapIs DEF Tap
    <3>. QED BY <1>14, <3>1, <3>2, SameCalls, CaptureIs
  <2>. QED BY <1>0, <2>1, <2>2, ResumeSame
<1>15. CASE SendText \/ Speech \/ Silence \/ UNCHANGED vars
  <2>1. UNCHANGED <<phase, active, streaming, turn, transcribing, playing, sp, run>>
    BY <1>15 DEF SendText, Speech, Silence, BatchStep, vars
  <2>. QED BY <1>0, <2>1, ResumeSame
<1>16. CASE Finalize \/ Nothing
  <2>1. UNCHANGED <<active, streaming, turn, playing, sp, run, odd>>
    BY <1>16 DEF Finalize, Nothing, BatchStep
  <2>2. InFlight' = InFlight
    BY <2>1 DEF InFlight
  <2>3. (active' => phase' = "listening") \/ transcribing' > 0
    <3>1. CASE Nothing
      BY <3>1 DEF Nothing, Resume, BatchStep
    <3>2. CASE Finalize
      BY <3>2 DEF TypeOK, Finalize, BatchStep
    <3>. QED BY <1>16, <3>1, <3>2
  <2>. QED BY <2>1, <2>2, <2>3 DEF ResumeInv, WillResume, Underway
<1>17. ASSUME NEW i \in Start, Opened(i) PROVE ResumeInv' /\ WillResume'
  <2>1. UNCHANGED <<streaming, turn, sp>>
    BY <1>17 DEF Opened, StartStep
  <2>2. phase' = "listening" \/ run'[i].pc = "greeting"
    BY <1>17, OpenedIs
  <2>3. InFlight' = InFlight /\ (phase' = "listening" \/ Underway')
    BY <2>1, <2>2 DEF InFlight, Underway
  <2>. QED BY <1>0, <2>1, <2>3 DEF ResumeInv, WillResume
<1>18. ASSUME NEW i \in Start, Denied(i) \/ Greeted(i) PROVE ResumeInv' /\ WillResume'
  <2>1. UNCHANGED <<active, streaming, turn, sp>>
    BY <1>18 DEF Denied, Greeted, StartStep
  <2>2. phase' = "error" \/ playing' \/ (active' => phase' = "listening")
    <3>1. CASE Denied(i)
      BY <3>1 DEF Denied
    <3>2. CASE Greeted(i)
      BY <2>1, <3>2 DEF Greeted, Enqueue, Resume
    <3>. QED BY <1>18, <3>1, <3>2
  <2>3. InFlight' = InFlight
    BY <2>1 DEF InFlight
  <2>. QED BY <1>0, <2>1, <2>2, <2>3 DEF ResumeInv, WillResume, Underway
<1>19. CASE TapStop \/ AutoClose
  <2>1. /\ active' = FALSE /\ ~sp'.active /\ UNCHANGED <<streaming, turn>>
    BY <1>19 DEF TapStop, AutoClose, Stop, NoStream
  <2>2. InFlight' = InFlight
    BY <2>1 DEF InFlight
  <2>. QED BY <2>1, <2>2 DEF ResumeInv, WillResume
<1>. QED
  BY <1>2, <1>3, <1>4, <1>6, <1>7, <1>8, <1>9, <1>10, <1>11, <1>12, <1>13, <1>14, <1>15, <1>16,
     <1>17, <1>18, <1>19 DEF Next

\* While a session is not listening, something is under way whose end resumes it, unless a
\* reply's audio broke off.
THEOREM NeverDeaf == Spec => []WillResume
<1>1. Init => ResumeInv /\ WillResume
  BY DEF Init, NoStream, ResumeInv, WillResume
<1>2. TypeOK /\ ResumeInv /\ WillResume /\ [Next]_vars => (ResumeInv /\ WillResume)'
  BY ResumeStays
<1>. QED BY <1>1, <1>2, TypeCorrect, PTL DEF Spec

=============================================================================
