---------------------------- MODULE ChatTurnProofs ----------------------------
(***************************************************************************)
(* Music starts only when asked for, the memory task never meets the       *)
(* turn's own use of the database, a reply made ahead of the decision is   *)
(* used only if it knows what the turn knows, and nothing is heard before  *)
(* the exchange was to be recorded: for any messages, any decisions and    *)
(* any interleaving of the tasks.                                          *)
(***************************************************************************)
EXTENDS ChatTurn, TLAPS

Undecided == {"history", "draft", "route", "classify"}
Gathering == {"context", "weather", "search", "playing"}
Music == {"dj", "ack", "find", "queue"}
Speaking == {"artist", "mood", "chat"}
Telling == {"user", "gia", "speak", "audio", "ingest"}

MusicInv ==
  /\ decision.play /\ decision.intent = "music_queue" => request.playVerb
  /\ playing => decision.play /\ "dj" \in Steps
  /\ playing => at \notin Undecided \union Gathering \union {"dj", "ack", "find"}
  /\ at \in {"ack", "find", "queue"} => "dj" \in Steps

\* The generator is past its wait for the memory task.
Remembered == {"weather", "search", "playing"} \union Music \union Speaking \union Telling

MemoryInv ==
  /\ at \in Remembered => task["memory"] \notin {"running", "cancelling", "cancelled"}
  /\ ~db => at = "over"
  /\ at = "over" => task["memory"] \notin {"running", "cancelling"}

Memorised == {n \in {"memory"} : task["memory"] = "done"}

GroundInv ==
  /\ at = "history" => task["general"] = "none"
  /\ task["general"] # "failed"
  /\ task["general"] = "done" => /\ task["memory"] \notin {"running", "cancelling"}
                                 /\ basis = Memorised
  /\ at \in Undecided \union {"context"} => "chat" \notin parts
  /\ at \in Remembered \ Telling => /\ "chat" \notin parts
                                    /\ notes \ {"weather", "search"} = Memorised
                                    /\ "weather" \in notes => "dj" \in Steps
  /\ at \in Speaking /\ "dj" \in Steps => parts # {}
  /\ Grounded

-----------------------------------------------------------------------------

LEMMA DjStep ==
  "dj" \in Steps <=> /\ ~request.nowPlaying
                     /\ \/ decision.intent \in MusicIntents
                        \/ decision.intent = "mixed" /\ decision.music
BY DEF Steps

\* Every decision the turn can hold is one.
LEMMA Decided ==
  ASSUME NEW d \in Decision, Decide(d)
  PROVE  /\ decision' \in DecisionType
         /\ decision'.intent = d.intent
         /\ decision'.play = (d.play /\ (d.intent = "music_queue" => request.playVerb))
<1>1. d \in DecisionType
  BY ChatConstants DEF ChatConstants
<1>. QED BY <1>1 DEF Decide, DecisionType

TaskState == {"none", "running", "done", "failed", "cancelling", "cancelled"}

LEMMA Tasked ==
  ASSUME TypeOK, NEW T
  PROVE  Started(T) \in [Task -> TaskState] /\ Cancelled(T) \in [Task -> TaskState]
BY DEF TypeOK, Started, Cancelled, TaskState

LEMMA InitType == Init => TypeOK
BY ChatConstants DEF ChatConstants, Init, TypeOK, Task, Working

LEMMA StepType == TypeOK /\ [Next]_vars => TypeOK'
<1> SUFFICES ASSUME TypeOK, [Next]_vars PROVE TypeOK'
  OBVIOUS
<1>1. CASE Begin
  <2>1. /\ UNCHANGED <<request, decision, prompt, reply, life>>
        /\ at' \in {"draft", "route"} /\ proactive' \in {proactive, FALSE}
    BY <1>1 DEF Begin, Launch
  <2>2. task' \in [Task -> TaskState]
    BY <1>1, Tasked DEF Begin, Launch
  <2>. QED BY <2>1, <2>2 DEF TypeOK, TaskState, Working, prompt, reply, life
<1>2. CASE PopDraft
  BY <1>2, Tasked DEF TypeOK, PopDraft, Launch, TaskState, Working, prompt, reply, life
<1>3. CASE RouteCold
  BY <1>3, Tasked DEF TypeOK, RouteCold, TaskState, Working, prompt, reply, life
<1>4. CASE Route
  <2>1. PICK d \in Decision : RouteReady(d) \/ Classified(d)
    BY <1>4 DEF Route
  <2>2. Decide(d) /\ UNCHANGED task
    BY <2>1 DEF RouteReady, Classified
  <2>. QED BY <2>2, Decided DEF TypeOK, Decide, Working, prompt, reply, life
<1>5. CASE GetContext
  BY <1>5 DEF TypeOK, GetContext, Working, Note, reply, life
<1>6. CASE GetWeather \/ GetResults
  BY <1>6 DEF TypeOK, GetWeather, GetResults, Gather, Working, Note, reply, life
<1>7. CASE ReportPlaying \/ StartDj \/ Acknowledge \/ QueueTracks
  BY <1>7 DEF TypeOK, ReportPlaying, StartDj, Acknowledge, QueueTracks, Working, prompt,
              reply, life
<1>8. CASE Recommend
  <2>1. decision.play \in BOOLEAN
    BY DEF TypeOK, DecisionType
  <2>. QED BY <1>8, <2>1 DEF TypeOK, Recommend, Working, prompt, life
<1>9. CASE RunArtist \/ RunMood \/ Converse
  BY <1>9 DEF TypeOK, RunArtist, RunMood, Consult, Converse, Working, prompt, reply, life
<1>10. CASE RecordUser \/ RecordReply \/ Speak \/ Audio \/ Finish
  BY <1>10 DEF TypeOK, RecordUser, RecordReply, AppendTurn, Message, Speak, Audio, Finish, Working, prompt, reply,
               life
<1>11. CASE Disconnect \/ Cancel
  BY <1>11, Tasked DEF TypeOK, Disconnect, Cancel, TaskState, prompt, reply, life
<1>12. CASE Close
  BY <1>12 DEF TypeOK, Close, prompt, reply
<1>13. ASSUME NEW t \in Task, Background(t)
       PROVE  TypeOK'
  BY <1>13 DEF TypeOK, Background, Resolve, Generate, Perish, Outcome, Note, reply, life
<1>14. CASE UNCHANGED vars
  BY <1>14 DEF TypeOK, vars, prompt, reply, life
<1>. QED
  BY <1>1, <1>2, <1>3, <1>4, <1>5, <1>6, <1>7, <1>8, <1>9, <1>10, <1>11, <1>12, <1>13, <1>14
  DEF Next, Turn

\* Type correctness of a turn, for any messages and decisions.
THEOREM TypeCorrect == Spec => []TypeOK
BY InitType, StepType, PTL DEF Spec

-----------------------------------------------------------------------------

LEMMA StepsKept == UNCHANGED <<request, decision>> => Steps' = Steps
BY DEF Steps

LEMMA InitMusic == Init => MusicInv
BY DEF Init, MusicInv, PlainChat, Undecided, Gathering, Music

LEMMA StepMusic == TypeOK /\ MusicInv /\ [Next]_vars => MusicInv'
<1> SUFFICES ASSUME TypeOK, MusicInv, [Next]_vars PROVE MusicInv'
  OBVIOUS
<1> USE DEF MusicInv, Undecided, Gathering, Music
<1>1. CASE Route
  <2>1. PICK d \in Decision : RouteReady(d) \/ Classified(d)
    BY <1>1 DEF Route
  <2>2. Decide(d) /\ at \in {"route", "classify"}
    BY <2>1 DEF RouteReady, Classified
  <2>. QED BY <2>2, Decided DEF Decide, reply
<1>2. CASE Begin \/ PopDraft \/ RouteCold \/ GetContext \/ GetWeather \/ GetResults
  BY <1>2, StepsKept
  DEF Begin, PopDraft, Launch, RouteCold, GetContext, GetWeather, GetResults, Gather, reply
<1>3. CASE ReportPlaying \/ StartDj \/ Acknowledge
  BY <1>3, StepsKept DEF ReportPlaying, StartDj, Acknowledge, reply
<1>4. CASE Recommend
  BY <1>4, StepsKept DEF Recommend, TypeOK, DecisionType
<1>5. CASE QueueTracks
  BY <1>5, StepsKept DEF QueueTracks
<1>6. CASE RunArtist \/ RunMood
  BY <1>6, StepsKept DEF RunArtist, RunMood, Consult
<1>7. CASE Converse
  BY <1>7, StepsKept DEF Converse
<1>8. CASE RecordUser \/ RecordReply \/ Speak \/ Audio \/ Finish
  BY <1>8, StepsKept DEF RecordUser, RecordReply, Speak, Audio, Finish, reply
<1>9. CASE Disconnect \/ Cancel \/ Close
  BY <1>9, StepsKept DEF Disconnect, Cancel, Close, reply
<1>10. ASSUME NEW t \in Task, Background(t)
       PROVE  MusicInv'
  BY <1>10, StepsKept DEF Background, Resolve, Generate, Perish, Outcome, reply
<1>11. CASE UNCHANGED vars
  BY <1>11, StepsKept DEF vars, reply
<1>. QED
  BY <1>1, <1>2, <1>3, <1>4, <1>5, <1>6, <1>7, <1>8, <1>9, <1>10, <1>11 DEF Next, Turn

\* Music never starts on a turn that is not about music or only asks what is playing, nor
\* on a pure queue request, though the router may set start_playback on any of them.
THEOREM MusicOptIn == Spec => []NoAutoPlay
<1>1. Spec => [](TypeOK /\ MusicInv)
  BY InitType, StepType, InitMusic, StepMusic, PTL DEF Spec
<1>2. MusicInv => NoAutoPlay
  BY DjStep DEF MusicInv, NoAutoPlay
<1>. QED BY <1>1, <1>2, PTL

-----------------------------------------------------------------------------

\* The memory task comes first in the order in which the turn awaits its tasks.
LEMMA ReapedMemory == Reaped => task["memory"] \notin {"running", "cancelling"}
<1> SUFFICES ASSUME Reaped PROVE task["memory"] \notin {"running", "cancelling"}
  OBVIOUS
<1>1. Tasks[1] = "memory"
  BY DEF Tasks
<1>2. Len(Tasks) \in Nat
  BY DEF Tasks
<1>3. PICK n \in 1..Len(Tasks) : \A i \in 1..n : task[Tasks[i]] \notin {"running", "cancelling"}
  BY DEF Reaped
<1>4. 1 \in 1..n
  BY <1>2, <1>3
<1>. QED BY <1>1, <1>3, <1>4

LEMMA InitMemory == Init => MemoryInv
BY DEF Init, MemoryInv, Remembered, Music, Speaking, Telling

LEMMA StepMemory == TypeOK /\ MemoryInv /\ [Next]_vars => MemoryInv'
<1> SUFFICES ASSUME TypeOK, MemoryInv, [Next]_vars PROVE MemoryInv'
  OBVIOUS
<1> USE DEF MemoryInv, Remembered, Music, Speaking, Telling
<1>1. CASE Begin \/ PopDraft \/ RouteCold
  BY <1>1 DEF Begin, PopDraft, Launch, RouteCold, life
<1>2. CASE Route
  <2>1. PICK d \in Decision : RouteReady(d) \/ Classified(d)
    BY <1>2 DEF Route
  <2>. QED BY <2>1 DEF RouteReady, Classified, Decide, life
<1>3. CASE GetContext
  BY <1>3 DEF GetContext, life
<1>4. CASE GetWeather \/ GetResults \/ ReportPlaying \/ StartDj \/ Acknowledge \/ Recommend
  BY <1>4 DEF GetWeather, GetResults, Gather, ReportPlaying, StartDj, Acknowledge, Recommend,
              life
<1>5. CASE QueueTracks \/ RunArtist \/ RunMood \/ Converse
  BY <1>5 DEF QueueTracks, RunArtist, RunMood, Consult, Converse, life
<1>6. CASE RecordUser \/ RecordReply \/ Speak \/ Audio \/ Finish
  BY <1>6 DEF RecordUser, RecordReply, Speak, Audio, Finish, life
<1>7. CASE Disconnect \/ Cancel
  BY <1>7 DEF Disconnect, Cancel, Working, life
<1>8. CASE Close
  BY <1>8, ReapedMemory DEF Close
<1>9. ASSUME NEW t \in Task, Background(t)
      PROVE  MemoryInv'
  BY <1>9 DEF Background, Resolve, Generate, Perish, Outcome, TypeOK, Task, life
<1>10. CASE UNCHANGED vars
  BY <1>10 DEF vars, life
<1>. QED
  BY <1>1, <1>2, <1>3, <1>4, <1>5, <1>6, <1>7, <1>8, <1>9, <1>10 DEF Next, Turn

\* The memory task and the turn never use the request's session at once, and the session
\* is not closed under the task, whichever way the turn ends.
THEOREM SessionExclusive == Spec => []DbExclusive
<1>1. Spec => [](TypeOK /\ MemoryInv)
  BY InitType, StepType, InitMemory, StepMemory, PTL DEF Spec
<1>2. MemoryInv => DbExclusive
  BY DEF MemoryInv, DbExclusive, Remembered, Telling
<1>. QED BY <1>1, <1>2, PTL

-----------------------------------------------------------------------------

LEMMA InitGround == Init => GroundInv
BY DEF Init, GroundInv, Grounded, Task, Undecided, Remembered, Music, Speaking

\* What the memory task left is as it was once the task is no longer running.
LEMMA MemorisedKept ==
  ASSUME UNCHANGED task["memory"] PROVE Memorised' = Memorised
BY DEF Memorised

LEMMA StepGround == TypeOK /\ MemoryInv /\ GroundInv /\ [Next]_vars => GroundInv'
<1> SUFFICES ASSUME TypeOK, MemoryInv, GroundInv, [Next]_vars PROVE GroundInv'
  OBVIOUS
<1> USE DEF Undecided, Remembered, Music, Speaking, Telling
<1>1. CASE Begin
  BY <1>1 DEF GroundInv, Grounded, Begin, Launch, Started, Task, prompt, reply
<1>2. CASE PopDraft \/ RouteCold
  <2>1. /\ UNCHANGED <<notes, basis, seen, parts, task["memory"]>>
        /\ at \in Undecided \ {"history"} /\ at' \in Undecided \ {"history"}
        /\ task'["general"] \in {task["general"], "running"}
    BY <1>2 DEF PopDraft, Launch, RouteCold, Started, Task, prompt, reply
  <2>. QED BY <2>1, MemorisedKept DEF GroundInv, Grounded
<1>3. CASE Route
  <2>1. PICK d \in Decision : RouteReady(d) \/ Classified(d)
    BY <1>3 DEF Route
  <2>2. /\ UNCHANGED <<task, notes, basis, seen, parts>>
        /\ at \in Undecided /\ at' = "context"
    BY <2>1 DEF RouteReady, Classified, Decide, prompt, reply
  <2>. QED BY <2>2, MemorisedKept DEF GroundInv, Grounded
<1>4. CASE GetContext
  BY <1>4, MemorisedKept DEF GroundInv, Grounded, GetContext, Memorised, reply
<1>5. CASE GetWeather \/ GetResults
  <2>1. /\ UNCHANGED <<task, basis, seen, parts, request, decision>>
        /\ at \in {"weather", "search"} /\ at' \in {"search", "playing"}
        /\ notes' \ {"weather", "search"} = notes \ {"weather", "search"}
        /\ "weather" \in notes' => "weather" \in notes \/ "dj" \in Steps
    BY <1>5 DEF GetWeather, GetResults, Gather, WantsWeather, reply
  <2>. QED BY <2>1, MemorisedKept, StepsKept DEF GroundInv, Grounded
<1>6. CASE ReportPlaying \/ StartDj \/ Acknowledge
  <2>1. /\ UNCHANGED <<task, notes, basis, seen, request, decision>>
        /\ at \in {"playing", "dj", "ack"}
        /\ "chat" \in parts' => "chat" \in parts
        /\ at' \in Music \union {"artist"} /\ (at' = "artist" => "dj" \notin Steps)
    BY <1>6 DEF ReportPlaying, StartDj, Acknowledge, prompt, reply
  <2>. QED BY <2>1, MemorisedKept, StepsKept DEF GroundInv, Grounded
<1>7. CASE Recommend \/ QueueTracks
  <2>1. /\ UNCHANGED <<task, notes, basis, seen, request, decision>>
        /\ at \in {"find", "queue"} /\ at' \in {"queue", "artist"}
        /\ "chat" \in parts' => "chat" \in parts
        /\ at' = "artist" => parts' # {}
    BY <1>7 DEF Recommend, QueueTracks, prompt
  <2>. QED BY <2>1, MemorisedKept, StepsKept DEF GroundInv, Grounded
<1>8. CASE RunArtist \/ RunMood
  <2>1. /\ UNCHANGED <<task, notes, basis, seen, request, decision>>
        /\ at \in {"artist", "mood"} /\ at' \in {"mood", "chat"}
        /\ "chat" \in parts' => "chat" \in parts
        /\ parts # {} => parts' # {}
    BY <1>8 DEF RunArtist, RunMood, Consult, prompt
  <2>. QED BY <2>1, MemorisedKept, StepsKept DEF GroundInv, Grounded
<1>9. CASE Converse
  <2>1. UNCHANGED <<task, notes, basis>> /\ at = "chat" /\ at' = "user"
    BY <1>9 DEF Converse
  <2>2. CASE ~NeedsChat
    <3>1. UNCHANGED <<parts, seen>>
      BY <1>9, <2>2 DEF Converse
    <3>. QED BY <2>1, <3>1, MemorisedKept DEF GroundInv, Grounded
  <2>3. CASE NeedsChat /\ ~Reuse
    <3>1. seen' = notes
      BY <1>9, <2>3 DEF Converse
    <3>. QED BY <2>1, <3>1, MemorisedKept DEF GroundInv, Grounded
  <2>4. CASE NeedsChat /\ Reuse
    <3>1. seen' = basis /\ task["general"] = "done"
      BY <1>9, <2>4 DEF Converse, Finished, GroundInv
    <3>2. "dj" \notin Steps
      BY <2>1, <2>4, DjStep DEF GroundInv, NeedsChat, Conversational, MusicIntents
    <3>3. notes = Memorised
      BY <2>1, <2>4, <3>2 DEF GroundInv, Reuse
    <3>. QED BY <2>1, <3>1, <3>3, MemorisedKept DEF GroundInv, Grounded
  <2>. QED BY <2>2, <2>3, <2>4
<1>10. CASE RecordUser \/ RecordReply \/ Speak \/ Audio \/ Finish \/ Close
  <2>1. /\ UNCHANGED <<task, notes, basis, seen, parts>>
        /\ at' \in {"gia", "speak", "audio", "ingest", "unwind", "over"}
    BY <1>10 DEF RecordUser, RecordReply, Speak, Audio, Finish, Close, prompt, reply
  <2>. QED BY <2>1, MemorisedKept DEF GroundInv, Grounded
<1>11. CASE Disconnect \/ Cancel
  <2>1. /\ UNCHANGED <<notes, basis, seen, parts>>
        /\ at' \in {"unwind", "reap"}
        /\ \A t \in Task : task'[t] # task[t] => task[t] = "running" /\ task'[t] = "cancelling"
    BY <1>11 DEF Disconnect, Cancel, Cancelled, prompt, reply
  <2>2. task["general"] = "done" => UNCHANGED task["memory"]
    BY <2>1 DEF GroundInv, Task
  <2>. QED BY <2>1, <2>2, MemorisedKept DEF GroundInv, Grounded, Task
<1>12. ASSUME NEW t \in Task, Background(t)
       PROVE  GroundInv'
  <2>1. UNCHANGED <<at, notes, seen, parts, request, decision>>
    BY <1>12 DEF Background, Resolve, Generate, Perish, Outcome, reply
  <2>2. task[t] \in {"running", "cancelling"} /\ \A u \in Task \ {t} : task'[u] = task[u]
    BY <1>12 DEF Background, Resolve, Generate, Perish, Outcome, TypeOK
  <2>3. CASE t = "memory"
    <3>1. UNCHANGED <<basis, task["general"]>> /\ at \notin Remembered
      BY <1>12, <2>2, <2>3 DEF Background, Resolve, Perish, Outcome, MemoryInv, Task
    <3>2. task["general"] # "done"
      BY <2>2, <2>3 DEF GroundInv
    <3>. QED BY <2>1, <3>1, <3>2 DEF GroundInv, Grounded
  <2>4. CASE t = "general"
    <3>1. UNCHANGED task["memory"]
      BY <2>2, <2>4 DEF Task
    <3>2. at # "history" /\ task'["general"] # "failed"
      BY <1>12, <2>2, <2>4
      DEF Background, Resolve, Generate, Perish, Outcome, GroundInv, TypeOK, Task
    <3>3. task'["general"] = "done" =>
            /\ task["memory"] \notin {"running", "cancelling"} /\ basis' = Memorised
      BY <1>12, <2>2, <2>4
      DEF Background, Resolve, Generate, Perish, Outcome, TypeOK, Task, Memorised
    <3>. QED BY <2>1, <3>1, <3>2, <3>3, MemorisedKept, StepsKept DEF GroundInv, Grounded
  <2>5. CASE t \notin {"memory", "general"}
    <3>1. UNCHANGED <<basis, task["memory"], task["general"]>>
      BY <1>12, <2>2, <2>5 DEF Background, Resolve, Perish, Outcome, Task
    <3>. QED BY <2>1, <3>1, MemorisedKept, StepsKept DEF GroundInv, Grounded
  <2>. QED BY <2>3, <2>4, <2>5
<1>13. CASE UNCHANGED vars
  <2>1. UNCHANGED <<at, task, notes, basis, seen, parts, request, decision>>
    BY <1>13 DEF vars, prompt, reply
  <2>. QED BY <2>1, MemorisedKept, StepsKept DEF GroundInv, Grounded
<1>. QED
  BY <1>1, <1>2, <1>3, <1>4, <1>5, <1>6, <1>7, <1>8, <1>9, <1>10, <1>11, <1>12, <1>13
  DEF Next, Turn

\* The reply in Gia's own voice was generated from the context the turn ended up with,
\* though it may have been generated before the decision, the weather and the search.
THEOREM RepliesGrounded == Spec => []Grounded
<1>1. Spec => [](TypeOK /\ MemoryInv /\ GroundInv)
  BY InitType, StepType, InitMemory, StepMemory, InitGround, StepGround, PTL DEF Spec
<1>2. GroundInv => Grounded
  BY DEF GroundInv
<1>. QED BY <1>1, <1>2, PTL

-----------------------------------------------------------------------------

\* The reply is never empty once the specialists are through: a question about what is
\* playing is answered with that, any other turn at least in Gia's own voice.
HeardInv ==
  /\ request.nowPlaying /\ at \in Music \union Speaking => parts # {}
  /\ at \in Telling => parts # {}
  /\ at \in {"gia", "speak", "audio", "ingest"} => history["user"] # "none"
  /\ at \in {"speak", "audio", "ingest"} => history["gia"] # "none"
  /\ heard => at \in {"audio", "ingest", "unwind", "reap", "over"}
  /\ HeardIsRecorded

LEMMA StepHeard == TypeOK /\ HeardInv /\ [Next]_vars => HeardInv'
<1> SUFFICES ASSUME TypeOK, HeardInv, [Next]_vars PROVE HeardInv'
  OBVIOUS
<1> USE DEF HeardInv, HeardIsRecorded, Music, Speaking, Telling
<1>1. CASE Begin \/ PopDraft \/ RouteCold \/ GetContext \/ GetWeather \/ GetResults
  BY <1>1 DEF Begin, PopDraft, Launch, RouteCold, GetContext, GetWeather, GetResults, Gather,
              reply
<1>2. CASE Route
  <2>1. PICK d \in Decision : RouteReady(d) \/ Classified(d)
    BY <1>2 DEF Route
  <2>. QED BY <2>1 DEF RouteReady, Classified, Decide, reply
<1>3. CASE ReportPlaying
  BY <1>3 DEF ReportPlaying
<1>4. CASE StartDj \/ Acknowledge
  BY <1>4 DEF StartDj, Acknowledge, reply
<1>5. CASE Recommend \/ QueueTracks
  <2>1. /\ at \in {"find", "queue"} /\ at' \in {"queue", "artist"}
        /\ UNCHANGED <<request, heard, history>>
        /\ parts # {} => parts' # {}
    BY <1>5 DEF Recommend, QueueTracks
  <2>. QED BY <2>1
<1>6. CASE RunArtist \/ RunMood
  BY <1>6 DEF RunArtist, RunMood, Consult
<1>7. CASE Converse
  BY <1>7 DEF Converse, NeedsChat
<1>8. CASE RecordUser \/ RecordReply
  BY <1>8 DEF RecordUser, RecordReply, AppendTurn, Message, TypeOK
<1>9. CASE Speak
  <2>1. \A m \in Message : history[m] # "none"
    BY <1>9 DEF Speak, Message
  <2>. QED BY <1>9, <2>1 DEF Speak
<1>10. CASE Audio \/ Finish \/ Disconnect \/ Cancel \/ Close
  BY <1>10 DEF Audio, Finish, Disconnect, Cancel, Close, reply
<1>11. ASSUME NEW t \in Task, Background(t)
       PROVE  HeardInv'
  BY <1>11 DEF Background, Resolve, Generate, Perish, Outcome, reply
<1>12. CASE UNCHANGED vars
  BY <1>12 DEF vars, reply
<1>. QED
  BY <1>1, <1>2, <1>3, <1>4, <1>5, <1>6, <1>7, <1>8, <1>9, <1>10, <1>11, <1>12
  DEF Next, Turn

\* Whichever specialists ran or failed and wherever the client left: what reached the user
\* was a reply, and before it did append_turn had been called with both sides of the
\* exchange, which the next turn finds unless that append failed.
THEOREM ReplyIsRecorded == Spec => []HeardIsRecorded
<1>1. Init => HeardInv
  BY DEF Init, HeardInv, HeardIsRecorded, Music, Speaking, Telling
<1>2. HeardInv => HeardIsRecorded
  BY DEF HeardInv
<1>. QED BY <1>1, <1>2, InitType, StepType, StepHeard, PTL DEF Spec
=============================================================================
