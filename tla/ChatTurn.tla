------------------------------- MODULE ChatTurn -------------------------------
(***************************************************************************)
(* One POST /chat: the generator _run_crew (api/chat.py) and the           *)
(* background tasks it starts beside its own work.  It gathers the user's  *)
(* context, has the message routed, runs the specialists the decision      *)
(* calls for or answers itself, records the exchange, speaks, and leaves   *)
(* through _task_scope, which cancels what is still running before         *)
(* FastAPI closes the request's database session.  The client may go away  *)
(* at any await.                                                           *)
(*                                                                         *)
(* A message is what its keywords say of it, a decision the fields the     *)
(* turn looks at, the prompt's context the set of notes in it, the reply   *)
(* the set of its parts.                                                   *)
(***************************************************************************)
EXTENDS Naturals, Sequences

CONSTANTS
  Request,    \* requests explored
  Decision,   \* decisions the router may come to
  Streaming   \* llm_provider is one that streams tokens

MusicIntents == {"music_find", "music_queue"}
Intents == MusicIntents \union {"artist_info", "mood_check", "mixed", "general",
                                "general_chat", "news_query", "memory_query"}

\* _CONVERSATIONAL_INTENTS
Conversational == {"general", "general_chat", "news_query", "memory_query"}

\* What the turn reads off the message before the router answers.
RequestType ==
  [user : BOOLEAN,         \* a user is signed in
   keyword : {"none"} \union MusicIntents
             \union {"artist_info", "mood_check", "mixed", "general"},
   nowPlaying : BOOLEAN,   \* _is_now_playing_query
   verb : BOOLEAN,         \* _MUSIC_VERB_RE
   playVerb : BOOLEAN,     \* _PLAY_VERB_RE
   short : BOOLEAN,        \* under three characters
   fresh : BOOLEAN,        \* _wants_fresh_search
   outdoors : BOOLEAN,     \* _WEATHER_KEYWORDS
   artist : BOOLEAN]       \* extract_artist_name finds one

DecisionType ==
  [intent : Intents, search : BOOLEAN, music : BOOLEAN, artist : BOOLEAN,
   play : BOOLEAN,         \* start_playback
   titled : BOOLEAN,       \* two or more track_titles
   literal : BOOLEAN]      \* _query_tokens_present

\* fast_keyword_decision, and what a failing classification degrades to.
PlainChat ==
  [intent |-> "general_chat", search |-> FALSE, music |-> FALSE, artist |-> FALSE,
   play |-> FALSE, titled |-> FALSE, literal |-> TRUE]

ASSUME ChatConstants ==
  /\ Request \subseteq RequestType /\ Decision \subseteq DecisionType
  /\ PlainChat \in Decision /\ Streaming \in BOOLEAN

VARIABLES
  request,
  at,          \* the section of the generator it is in
  task,        \* its background tasks
  proactive,   \* a proactive draft was waiting
  decision,
  notes,       \* what is in user_context_text
  basis,       \* what the speculative reply was generated from
  seen,        \* what the conversational reply was generated from
  parts,       \* reply_parts
  playing,     \* Spotify has started the seed track
  history,     \* what became of the two messages this turn appends to the session history
  heard,       \* the client has received part of the reply
  gone,        \* the client has disconnected
  ended,       \* the done frame is sent
  db           \* the request's database session is open

prompt == <<notes, basis, seen>>
reply == <<parts, playing, history, heard>>
life == <<gone, ended, db>>
vars == <<request, at, task, proactive, decision, prompt, reply, life>>

Task == {"memory", "general", "search", "ack", "router"}

\* A section with nothing to await leaves only "at" to tell that it was passed.
Working == {"history", "draft", "route", "classify", "context", "weather", "search",
            "playing", "dj", "ack", "find", "queue", "artist", "mood", "chat",
            "user", "gia", "speak", "audio", "ingest"}

Note == {"memory", "weather", "search"}

Message == {"user", "gia"}

TypeOK ==
  /\ request \in Request
  /\ at \in Working \union {"unwind", "reap", "over"}
  /\ task \in [Task -> {"none", "running", "done", "failed", "cancelling", "cancelled"}]
  /\ decision \in DecisionType
  /\ notes \subseteq Note /\ basis \subseteq Note /\ seen \subseteq Note
  /\ parts \subseteq {"proactive", "playing", "dj", "sorry", "artist", "mood", "chat"}
  /\ history \in [Message -> {"none", "recorded", "lost"}]
  /\ {proactive, playing, heard, gone, ended, db} \subseteq BOOLEAN

Init ==
  /\ request \in Request
  /\ at = "history"
  /\ task = [t \in Task |-> "none"]
  /\ decision = PlainChat
  /\ notes = {} /\ basis = {} /\ seen = {} /\ parts = {}
  /\ history = [m \in Message |-> "none"]
  /\ proactive = FALSE /\ playing = FALSE /\ heard = FALSE /\ gone = FALSE
  /\ ended = FALSE /\ db = TRUE

-----------------------------------------------------------------------------
(* Sections 1 and 2: what is started beside the router, and the router.    *)

\* _should_speculate and the conditions around it.
Speculates(draft) ==
  /\ Streaming /\ ~request.nowPlaying /\ ~draft /\ ~request.short /\ ~request.fresh
  /\ request.keyword \notin MusicIntents \union {"artist_info", "mood_check"}

\* _is_music_command
IsCommand == ~request.nowPlaying /\ request.keyword \in MusicIntents /\ request.verb

Started(T) == [t \in Task |-> IF t \in T THEN "running" ELSE task[t]]

Launch(draft) ==
  /\ proactive' = draft
  /\ task' = Started({t \in {"general"} : Speculates(draft)}
                     \union {t \in {"search", "ack"} : IsCommand})
  /\ at' = "route"

\* get_history returns; for a user the memory context is started.
Begin ==
  /\ at = "history"
  /\ \/ /\ request.user
        /\ task' = Started({"memory"})
        /\ at' = "draft"
        /\ UNCHANGED proactive
     \/ ~request.user /\ Launch(FALSE)
  /\ UNCHANGED <<request, decision, prompt, reply, life>>

\* pop_proactive_draft: nothing on an error.
PopDraft ==
  /\ at = "draft"
  /\ \E draft \in BOOLEAN : Launch(draft)
  /\ UNCHANGED <<request, decision, prompt, reply, life>>

\* Fault: the router's word is taken for it.
Decide_AsRouted(d) ==
  /\ decision' = d
  /\ at' = "context"
  /\ UNCHANGED <<request, proactive, prompt, reply, life>>

\* A queue request without a play verb does not start playback.
Decide(d) ==
  /\ decision' = [d EXCEPT !.play = d.play /\ (d.intent = "music_queue" => request.playVerb)]
  /\ at' = "context"
  /\ UNCHANGED <<request, proactive, prompt, reply, life>>

\* The keywords decide (router_fast_path_enabled, on by default), or the local model or a
\* prewarmed decision is at hand.
RouteReady(d) ==
  /\ at = "route"
  /\ request.keyword = "general" => d = PlainChat
  /\ Decide(d)
  /\ UNCHANGED task

RouteCold ==
  /\ at = "route" /\ request.keyword # "general"
  /\ task' = Started({"router"})
  /\ at' = "classify"
  /\ UNCHANGED <<request, proactive, decision, prompt, reply, life>>

Classified(d) ==
  /\ at = "classify" /\ task["router"] = "done"
  /\ Decide(d)
  /\ UNCHANGED task

-----------------------------------------------------------------------------
(* Section 3: the context of the reply.                                    *)

\* _steps_for_decision
Steps ==
  IF request.nowPlaying THEN {}
  ELSE {s \in {"dj"} : \/ decision.intent \in MusicIntents
                       \/ decision.intent = "mixed" /\ decision.music}
       \union {s \in {"artist"} : decision.artist \/ decision.intent = "artist_info"}
       \union {s \in {"mood"} : decision.intent = "mood_check"}

WantsWeather == "dj" \in Steps /\ request.outdoors

WantsSearch ==
  /\ ~request.nowPlaying
  /\ \/ decision.intent \in {"general", "general_chat", "news_query", "mixed"}
     \/ decision.intent = "artist_info" /\ ~request.artist
  /\ decision.search \/ request.fresh

Gather(from, wanted, note, to) ==
  /\ at = from
  /\ at' = to
  /\ notes' \in {notes} \union {notes \union {n} : n \in {note} \intersect wanted}
  /\ UNCHANGED <<request, task, proactive, decision, basis, seen, reply, life>>

\* The memory context, or an error frame in its place.
GetContext ==
  /\ at = "context" /\ task["memory"] \in {"none", "done", "failed"}
  /\ at' = "weather"
  /\ notes' = {n \in {"memory"} : task["memory"] = "done"}
  /\ UNCHANGED <<request, task, proactive, decision, basis, seen, reply, life>>

\* _weather_note and _search_note: no note on an error.
GetWeather == Gather("weather", {n \in {"weather"} : WantsWeather}, "weather", "search")
GetResults == Gather("search", {n \in {"search"} : WantsSearch}, "search", "playing")

-----------------------------------------------------------------------------
(* Section 4: the specialists, and the reply in Gia's own voice.           *)

\* Fault: a task that failed is waited for.
Finished_Succeeded(t) == task[t] = "done"

Finished(t) == task[t] \in {"done", "failed"}

\* The pending observation leads; a status question is answered from Spotify.
ReportPlaying ==
  /\ at = "playing"
  /\ at' = "dj"
  /\ parts' = {p \in {"proactive"} : proactive} \union {p \in {"playing"} : request.nowPlaying}
  /\ UNCHANGED <<request, task, proactive, decision, prompt, playing, history, heard, life>>

StartDj ==
  /\ at = "dj"
  /\ at' = IF "dj" \notin Steps THEN "artist" ELSE IF task["ack"] = "none" THEN "find" ELSE "ack"
  /\ UNCHANGED <<request, task, proactive, decision, prompt, reply, life>>

Acknowledge ==
  /\ at = "ack" /\ Finished("ack")
  /\ at' = "find"
  /\ UNCHANGED <<request, task, proactive, decision, prompt, reply, life>>

\* The speculative search stands for the router's query.
Prefetch == task["search"] # "none" /\ ~decision.titled /\ decision.literal

\* DJService.recommend: the line is written, then playback starts.  Whatever the MCP
\* server answers counts as started, a refusal by Spotify too; an error is told to the
\* user, though Spotify may have started all the same.
Recommend ==
  /\ at = "find" /\ (Prefetch => Finished("search"))
  /\ playing' \in {FALSE, decision.play}
  /\ \/ at' = "queue" /\ UNCHANGED parts
     \/ at' = "artist" /\ parts' = parts \union {"sorry"}
  /\ UNCHANGED <<request, task, proactive, decision, prompt, history, heard, life>>

\* A failing add_to_queue ends the queueing, not the step.
QueueTracks ==
  /\ at = "queue"
  /\ at' = "artist"
  /\ parts' = parts \union {"dj"}
  /\ UNCHANGED <<request, task, proactive, decision, prompt, playing, history, heard, life>>

\* The specialists that only speak: a failing one adds nothing.
Consult(from, wanted, part, to) ==
  /\ at = from
  /\ at' = to
  /\ parts' \in {parts} \union {parts \union {p} : p \in {part} \intersect wanted}
  /\ UNCHANGED <<request, task, proactive, decision, prompt, playing, history, heard, life>>

RunArtist == Consult("artist", {s \in Steps : request.artist}, "artist", "mood")
RunMood == Consult("mood", {s \in Steps : request.user}, "mood", "chat")

\* Fault: only the intent calls for a conversational reply.
NeedsChat_ByIntent == ~request.nowPlaying /\ decision.intent \in Conversational

NeedsChat == ~request.nowPlaying /\ (decision.intent \in Conversational \/ parts = {})

\* Fault: the speculative reply is used after a search too.
Reuse_Always == task["general"] # "none"

\* The speculative reply cannot have seen the results of a search.
Reuse == task["general"] # "none" /\ "search" \notin notes

Converse ==
  /\ at = "chat"
  /\ at' = "user"
  /\ \/ ~NeedsChat /\ UNCHANGED <<parts, seen>>
     \/ /\ NeedsChat
        /\ Reuse => Finished("general")
        /\ seen' = IF Reuse THEN basis ELSE notes
        /\ parts' = parts \union {"chat"}
  /\ UNCHANGED <<request, task, proactive, decision, notes, basis, playing, history, heard,
                 life>>

-----------------------------------------------------------------------------
(* Section 5: the exchange is recorded, spoken, and the plays ingested.    *)

\* append_turn never fails the turn: a text of blanks is left out, an error of Redis logged.
AppendTurn(m) == \E o \in {"recorded", "lost"} : history' = [history EXCEPT ![m] = o]

RecordUser ==
  /\ at = "user"
  /\ at' = "gia" /\ AppendTurn("user")
  /\ UNCHANGED <<request, task, proactive, decision, prompt, parts, playing, heard, life>>

RecordReply ==
  /\ at = "gia"
  /\ at' = "speak" /\ AppendTurn("gia")
  /\ UNCHANGED <<request, task, proactive, decision, prompt, parts, playing, heard, life>>

Speak ==
  /\ at = "speak"
  /\ at' = "audio" /\ heard' = TRUE
  /\ UNCHANGED <<request, task, proactive, decision, prompt, parts, playing, history, life>>

\* The audio ends, or its provider does; only a user's plays are ingested.
Audio ==
  /\ at = "audio" /\ request.user
  /\ at' = "ingest"
  /\ UNCHANGED <<request, task, proactive, decision, prompt, reply, life>>

\* The done frame; the generator's body is over.
Finish ==
  /\ at = (IF request.user THEN "ingest" ELSE "audio")
  /\ at' = "unwind" /\ ended' = TRUE
  /\ UNCHANGED <<request, task, proactive, decision, prompt, reply, gone, db>>

-----------------------------------------------------------------------------
(* The client goes away, and _task_scope.                                  *)

\* The task the generator is awaiting.
Awaited(t) ==
  \/ t = "memory" /\ at = "context"
  \/ t = "router" /\ at = "classify"
  \/ t = "ack" /\ at = "ack"
  \/ t = "search" /\ at = "find" /\ Prefetch
  \/ t = "general" /\ at = "chat" /\ NeedsChat /\ Reuse

Cancelled(T) ==
  [t \in Task |-> IF t \in T /\ task[t] = "running" THEN "cancelling" ELSE task[t]]

\* Cancelling the generator cancels the task it is awaiting.
Disconnect ==
  /\ at \in Working
  /\ at' = "unwind" /\ gone' = TRUE
  /\ task' = Cancelled({t \in Task : Awaited(t)})
  /\ UNCHANGED <<request, proactive, decision, prompt, reply, ended, db>>

\* It resumes when that one has finished.
Cancel ==
  /\ at = "unwind" /\ \A t \in Task : task[t] # "cancelling"
  /\ at' = "reap"
  /\ task' = Cancelled(Task)
  /\ UNCHANGED <<request, proactive, decision, prompt, reply, life>>

\* Fault: the memory task is added after the one that waits for it.
Tasks_MemoryLater == <<"general", "memory", "search", "ack", "router">>

\* In the order the turn added them.
Tasks == <<"memory", "general", "search", "ack", "router">>

\* suppress(Exception) lets CancelledError through: the first task found cancelled
\* ends the wait for those after it.
Reaped ==
  \E n \in 1..Len(Tasks) :
    /\ \A i \in 1..n : task[Tasks[i]] \notin {"running", "cancelling"}
    /\ n = Len(Tasks) \/ task[Tasks[n]] = "cancelled"

\* The generator is left; FastAPI closes the session of get_db.
Close ==
  /\ at = "reap" /\ Reaped
  /\ at' = "over" /\ db' = FALSE
  /\ UNCHANGED <<request, task, proactive, decision, prompt, reply, gone, ended>>

-----------------------------------------------------------------------------
(* The background tasks.                                                   *)

Outcome(t, outcomes) ==
  /\ \E o \in outcomes : task' = [task EXCEPT ![t] = o]
  /\ UNCHANGED <<request, at, proactive, decision, notes, seen, reply, life>>

\* build_user_context, the synthesis of the acknowledgment, _safe_search and
\* classify_turn; the last two turn an error into a value.
Resolve(t) ==
  /\ t # "general" /\ task[t] = "running"
  /\ Outcome(t, IF t \in {"memory", "ack"} THEN {"done", "failed"} ELSE {"done"})
  /\ UNCHANGED basis

\* _speculative_general waits for the context, goes on without it on an error, and is
\* cancelled with it.
Generate ==
  /\ task["general"] = "running" /\ task["memory"] \notin {"running", "cancelling"}
  /\ Outcome("general", IF task["memory"] = "cancelled" THEN {"cancelled"} ELSE {"done"})
  /\ basis' = {n \in {"memory"} : task["memory"] = "done"}

Perish(t) ==
  /\ task[t] = "cancelling"
  /\ Outcome(t, {"cancelled"})
  /\ UNCHANGED basis

Route == \E d \in Decision : RouteReady(d) \/ Classified(d)

Turn ==
  \/ Begin \/ PopDraft \/ RouteCold \/ Route \/ GetContext \/ GetWeather \/ GetResults
  \/ ReportPlaying \/ StartDj \/ Acknowledge \/ Recommend \/ QueueTracks
  \/ RunArtist \/ RunMood \/ Converse
  \/ RecordUser \/ RecordReply \/ Speak \/ Audio \/ Finish
  \/ Cancel \/ Close

Background(t) == Resolve(t) \/ (t = "general" /\ Generate) \/ Perish(t)

Next == Turn \/ Disconnect \/ \E t \in Task : Background(t)

Spec == Init /\ [][Next]_vars

\* The turn, or the memory task it waits for, awaits the Spotify MCP server.
OnSpotify ==
  \/ at = "context" /\ task["memory"] = "running"
  \/ at = "playing" /\ request.nowPlaying
  \/ at = "artist" /\ "artist" \in Steps /\ request.artist
  \/ at = "mood" /\ "mood" \in Steps /\ request.user
  \/ at \in {"find", "queue", "ingest"}

\* The services with a timeout answer or time out, and a cancelled task ends.  The bridge
\* to the Spotify MCP server waits without one.
FairSpec ==
  /\ Spec /\ WF_vars(Turn /\ ~OnSpotify)
  /\ WF_vars(Generate)
  /\ \A t \in Task : WF_vars(Perish(t)) /\ (t \in {"ack", "router"} => WF_vars(Resolve(t)))

-----------------------------------------------------------------------------
(* Properties.                                                             *)

\* The memory task queries the request's session: it is over before the turn writes
\* through that session and before FastAPI closes it, however the turn ends.
DbExclusive ==
  at = "ingest" \/ ~db => task["memory"] \notin {"running", "cancelling"}

\* A reply generated ahead of the decision is used only if it was generated from the
\* context the turn ends up with.
Grounded == "chat" \in parts => seen = notes

\* Music starts only on a turn about music that is not a question about what is playing,
\* and on a queue request only if the user said to play, whatever the router decided.
NoAutoPlay ==
  playing => /\ ~request.nowPlaying
             /\ decision.intent \in MusicIntents \union {"mixed"}
             /\ decision.intent = "music_queue" => request.playVerb

\* What the user hears is never an empty reply, and by then each side of the exchange is
\* in the history the next turn reads, unless its own append failed.
HeardIsRecorded == heard => parts # {} /\ \A m \in Message : history[m] # "none"

\* A turn is unwound, after its done frame or because the client left, unless it waits
\* for ever for the Spotify MCP server.
TurnEnds == <>(at = "over" /\ (ended \/ gone)) \/ <>[]OnSpotify
=============================================================================
