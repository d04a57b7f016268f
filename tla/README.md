# Gia in TLA+

This directory is a verification development for Gia, the voice music companion in
this repository: TLA+ modules translated from its source, TLC configurations that
check them on small instances, and theorems with proofs that TLAPS checks for every
value of the constants. Paths below are relative to the repository.

1. [The system](#1-the-system): components, what each keeps, what can go wrong
2. [The modules](#2-the-modules): what models what, and what is left out of each
3. [The runs](#3-the-runs): bounds, fairness, and what each shows
4. [The proofs](#4-the-proofs)
5. [What the models show of the code](#5-what-the-models-show-of-the-code)
6. [What is not modelled, and the plan](#6-what-is-not-modelled-and-the-plan)

## 1. The system

The browser (`frontend/nextjs`) talks to a FastAPI server (`backend/app`, one uvicorn
process in the compose file), which uses Redis, Postgres, a Weaviate collection, LLM,
speech and search services, and a Spotify MCP server run as a child process. Celery
tasks (`backend/worker`) do what need not happen during a turn. Concurrency comes from
asyncio (every `await` may let any other request or task run), from several processes
sharing Redis and Weaviate, from the browser's own events, and from services that
answer late, twice or never.

A turn in the decomposed pipeline: audio goes to `/voice/stream`, whose eager
transcript makes the browser call `/chat/prewarm`; the final one makes it call `/chat`,
which streams events back. `/chat` builds the user's context, a speculative reply and a
speculative search while the router classifies the message, runs the specialists,
records the exchange in the session history, notes the session for extraction and
streams the audio. In realtime mode the browser's audio goes over `/voice/realtime` to
a speech-to-speech model, and text comes back to be synthesised here.

| Component | State it keeps | Operations | Talks to | What makes it correct |
|---|---|---|---|---|
| Router prewarm (`agents/router_prewarm.py`) | `_LOCAL` task map per process; a marker and a decision per phrase in Redis | `start`, `_run_and_cache`, `_prune`, `take` | `/chat/prewarm`, `/chat`, Redis | A turn is served only a finished decision for its own phrase, never dies with someone else's task, and never stalls |
| Session history (`memory/session_history.py`) | `chat:hist:{sid}`: ring of 12 messages, 2 h TTL | `append_turn`, `get_history` | `/chat`, realtime voice, the worker | What is still in a ring is distilled or has someone who will distil it |
| Extraction tasks (`worker/tasks/memory_extraction.py`, `session_flush.py`) | `gia:pending_flush`, `extract_throttle:*`, the broker's queue | throttled enqueue, extract, scan/flush/drop, beat | Redis, long-term memory | As above; tasks end; stale sessions leave the list |
| Long-term memory, writing (`agents/memory.py`, `memory/decay.py`, `store.py`, `extractor.py`, `embeddings.py`) | Weaviate objects, `memory_hash:*` keys | extract, dedup, embed, supersede, upsert, mark, invalidate | Weaviate, Redis, LLM | No fact taken for known that never was stored; no duplicates; no memory beside the one it supersedes |
| Long-term memory, reading (`memory/retrieval.py`, `cache.py`) | cached results per query | `get_cached`, search, `set_cached`, `invalidate_user` | Weaviate, Redis | The cache does not hide what was learnt |
| Outside calls (`tools/resilience.py`, used by `brave.py`, `weather.py`) | a circuit breaker per service | admit, attempt, retry, succeed, fail | Brave, Open-Meteo | Calls end; recovery is judged by calls made after the cooldown |
| Realtime session (`providers/realtime.py`) | `_response_active`, tool tasks, the socket | `events`, tool tasks, `_cancel_response` | OpenAI Realtime | The session's idea of what is being generated settles; tool results are used |
| Realtime endpoint (`api/voice_realtime.py`, `voice/streaming.py`) | synthesis tasks, `delta_q`, `last_user_text` | `pump_up`, `pump_down`, `cancel_synth` | realtime session, TTS, browser, session history | A flush silences; audio ends; nothing is left running; exchanges are stored in order |
| Spotify bridge (`tools/spotify.py`, `_McpBridge`) | queue, owner task, session, futures | `start`, `call`, `_run`, `stop` | MCP server | One call at a time, in order, answered once, reconnects |
| Chat turn (`api/chat.py`) | background tasks of the turn, the reply's parts | the event generator, `_task_scope` | nearly everything above | A turn ends with `done` or an error; its tasks end before its DB session; speculative work is used only if it fits the decision |
| Speech-to-text proxy (`api/voice_stream.py`, `providers/stt_stream.py`) | two pumps, a transcript buffer | forward audio, emit interim, eager, resumed, final | Deepgram or OpenAI, browser | What the browser is told is what the provider said, turn by turn; a stop drains it; both pumps end |
| Browser client (`frontend/nextjs/lib`: `useVoiceSession.ts`, `audio.ts`, `sttStream.ts`, `pcm.ts`) | phase, the calls of `start()` and what each opened, two playback queues | start, stop, type, speak, play, resume | the endpoints | Gia is not fed her own voice; one capture feeds; no microphone is left behind; a session never goes deaf |
| Mood awareness (`mood/*.py`, `worker/tasks/mood_inference.py`) | listening events in Postgres, mood patterns in Weaviate, a draft in Redis | ingest, infer, replace a pattern, draft, pop | chat turn, worker | One pattern for a time of the week; a draft is told once and is true; a play counts once |
| Reflection (`memory/consolidation.py`) | insights in Weaviate | replace insights | worker, Weaviate | A replacement never loses both generations |
| Spotify Web client (`tools/spotify_web.py`) | a token file shared with the MCP server | refresh, search | Spotify | A refresh never loses the refresh token |
| Accounts (`api/auth.py`, `dependencies.py`, `memory/profiler.py`) | PKCE state in Redis, users and profiles in Postgres | login, callback, find or create, commit, bootstrap | Spotify, Redis, Postgres | One profile per Spotify account, with tokens of that account; one bootstrap |
| Turn routing (`agents/router*.py`, `hybrid_router.py`, `planner.py`) | none | classify | LLM | pure |
| Specialists (`agents/dj.py`, `artist.py`, `mood.py`, `general.py`, `synthesis.py`) | none (recent acknowledgments) | one method each | LLM, Spotify, Brave | sequential |
| Other endpoints, providers, prompts, observability, start-up, database definitions, landing page, scripts | little or none | - | - | see section 6 |

What is hard to test in this code, and hence what the properties aim at:

- **Two requests or tasks interleaved at awaits**: a task awaited by a turn that
  another request can cancel; a flush and a returning user; two extractions; a retrieval
  beside an extraction; concurrent callers of one breaker; a barge-in while synthesis
  tasks run; tool tasks that share a flag; two callbacks that sign in one account; two
  tasks that replace a mood pattern; two turns that pop a draft.
- **Stale references in the browser**: what `start()` awaited belongs to a session that
  has been stopped, and a player's callback knows its own queue only.
- **Failure in the middle**: Redis, broker or LLM errors between two writes, a pool
  process that dies with an acknowledged task, a socket that closes under a pump, an MCP
  session that drops before or after the server did its work, a commit that fails after
  the answer has gone out.
- **Time**: TTLs of 30 s, 45 min, 2 h and 30 days that run out at the wrong moment,
  timeouts racing answers, a cooldown racing calls that outlive it.
- **Liveness**: a turn that polls for a dead worker's decision, a queue behind a call
  that fails, a breaker that must half-open, audio that must end, a provider that never
  closes its stream, a session that must come back to listening.

`PROJECT.json` lists each of these at its line, with the properties that guard it.

## 2. The modules

| Module | Models | Checked by | Proved in |
|---|---|---|---|
| `RouterPrewarm` | `start`, `_run_and_cache`, `take` over processes and Redis | `MCRouterPrewarm` | `RouterPrewarmProofs` |
| `SessionMemory` | recording an exchange, the ring, the flush and extraction tasks, the clock | `MCSessionMemory` | `SessionMemoryProofs` |
| `MemoryWrite` | extraction runs and retrievals over Weaviate, dedup keys and cache | `MCMemoryWrite` | `MemoryWriteProofs` |
| `ResilientCall` | the breaker and concurrent resilient calls, timed | `MCResilientCall` | `ToolsProofs` |
| `RealtimeSession` | the session, its tool tasks and the service's protocol | through `RealtimeVoice` | (below) |
| `RealtimeVoice` | the endpoint; EXTENDS `RealtimeSession` and composes with its reader and service | `MCRealtimeVoice` | `RealtimeVoiceProofs` |
| `ChatTurn` | one `POST /chat`: the generator, its background tasks, the client's leaving | `MCChatTurn` | `ChatTurnProofs` |
| `ToolService` | what callers of the bridge are promised (abstract) | through `McpBridge` | `ToolsProofs` |
| `Account` | sign-in: login, callback, transaction, bootstrap | `MCAccount` | `AccountProofs` |
| `VoiceClient` | the browser's voice session, its players, socket and capture | `MCVoiceClient` | `VoiceClientProofs` |
| `VoiceStream` | the transcription socket and the two vendors' adapters | `MCVoiceStream` | `RouterPrewarmProofs` |
| `MoodWatch` | recording of plays, mood patterns, the proactive draft | `MCMoodWatch` | `ToolsProofs` |
| `McpBridge` | the bridge; implements `ToolService` by `Service == INSTANCE ToolService WITH ...` | `MCMcpBridge` | `ToolsProofs` |

Two proof modules are about more than one component: `ToolsProofs` extends `McpBridge`,
`ResilientCall` and `MoodWatch`, `RouterPrewarmProofs` extends `RouterPrewarm` and
`VoiceStream`, both what makes a turn's text known early. So the names that every module
would otherwise share (`Init`, `Next`, `Spec`, `TypeOK`, `vars`) are prefixed in three of
them: `CallSpec`, `MoodSpec`, `StreamSpec` and so on.

Each `MC` module only supplies constants and a symmetry set. Definitions named
`X_Something` after an action `X`, marked *Fault*, are the action with a plausible
mistake; they are not part of any specification, and `PROJECT.json` says which property
each must break. Data is reduced to what the properties tell apart: a decision is the
task that computed it, a memory the fact it states, a message the exchange it belongs to.
The grain is the code's: an action runs from one await to the next.

**RouterPrewarm.** `job[j]` is a call of `start()` and then the task it creates;
`local[w][p]` the entry of `_LOCAL`, `aged` the entries older than `_TTL_S`, `pending`
and `result` the two Redis keys, `call[c]` a `/chat` request inside `take()`. `Start`
prunes and looks for a duplicate, `Spawn` is what follows the await of `SET pending`.
`Begin` pops the local entry without looking at its age. `Read`, `Probe`, `Poll`,
`GiveUp`, `Consume` are the commands of `_take_redis`. Redis errors take the code's
except-branches, `Disconnect` cancels the request and the task it awaits, `Crash` loses
a process. There is no clock: keys may expire and entries may age at any time, which
includes every timing.

**ChatTurn.** `at` is the section of `_run_crew` the generator is in, one action per
section, and `task[t]` one of the five tasks it may have started: the memory context,
the speculative reply, the speculative search, the synthesis of the acknowledgment, the
router. A message is what its keywords say of it, a decision the fields the turn looks
at; `notes` is what has been put in the prompt's context, `basis` what the speculative
reply was made from and `seen` what the reply in Gia's voice was made from; `parts` is
`reply_parts`, a part whose text is blank being none; `history` what became of the two
messages handed to `append_turn`, which logs an error of Redis and returns. `playing` is
what Spotify does, which an answer of the MCP server does not tell (`Recommend`). The tiers before the cold router
(keywords, local model, `take`) are one action, since each yields a decision or passes:
`RouterPrewarm` has the third in detail, and `SessionMemory` what follows `RecordReply`.
Specialists may fail wherever the code catches; what they wrap in `try` themselves they
always answer. `Disconnect` is Starlette cancelling the response (external): it reaches
the generator at its await, and the task it is awaiting with it. A section with nothing
to await is passed without effect, so a disconnect there equals one at the next. The
small frames sent while the memory task runs do not block, so a cancellation finds the
generator, not the sender, and `_task_scope` runs. `Cancel`, `Reaped` and
`Close` are `_task_scope` and `get_db`: `suppress(Exception)` does not stop
`CancelledError`, so the first task found cancelled ends the wait for the others. With
`synthesis_enabled` (off by default) the parts are merged by one more call that changes
nothing here.

**SessionMemory.** Time advances in units of 15 minutes. `turn[t]` says how far the
recording of an exchange has come (`AppendUser`, `AppendReply`, `Note`, `Enqueue`: two
RPUSH/LTRIM/EXPIRE sequences, ZADD, SET NX and the broker call); `runner[r]` is a pool
process with its task; `Scan`, `Pick`, `Read`, `Distil`, `Raise`, `Drop` are the loop of
`_flush_async` and the body of `_extract_async`. A received task is acknowledged at
once, because `celery_app.py:25` sets `task_ack_late`, a name Celery does not know.
`mishap` records what has happened that the code does not guard against (Redis or
broker error, client gone, user back during a flush, LLM error, raising job, dying or
stalling process); each property says which mishaps it survives, and `Allowed` bounds
those a run explores.

**MemoryWrite.** One user. `writer[w]` is a `run_extraction` with the items the LLM
returned, one await per action: search, extract, EXISTS, embed, delete the superseded,
insert, SETEX, invalidate; or the profiler, which persists without a search. What the LLM
is shown (`Exhibits`) may be any of what the collection holds, or nothing: the search is
for the five nearest preferences. `reader[r]` is a `retrieve_memories`; a result stands
for the collection it was searched in. The LLM is taken at its best, naming a contradicted
memory whenever it was shown one, so that what fails is the protocol's fault. `mishap` as
above: two runs at once, a retrieval beside a run, a failure, an expired key, a fact that
contradicts several memories (`several`) or one the LLM was not shown (`unseen`).

**ResilientCall.** Ticks of 3 s. `call[c]` is a caller's `resilient_call`: attempt,
ticks left until `wait_for` fires or the back-off ends. The service may answer, fail or
hang at any time. `Tick` cannot pass a due timer. The field `probe` remembers which
calls were admitted in half-open.

**RealtimeSession.** `down` and `up` are the socket's two directions. The service
(external; modelled from how the code uses it) detects speech, creates a response per
turn, may call tools in it, obeys `cancel`, `output` and `create`, and answers a
request it cannot honour with an error. The reader turns messages into events one at a
time (`Incoming` needs the previous event handled, as an async generator does); each
tool call runs as its own task: `SendOutput`, then `AskResponse` unless `active`.

**RealtimeVoice.** The call begins with `conn` in `Opening`: `Refuse`, `Instruct`
(the persona and the user's memories), `Connect`, `Configure`, after any of which a
failure ends it; only then do the pumps run. `pump_down` handles one event per action, except a barge-in, which
is three: cancel, wait for the tasks, flush (`at`). `synth` is every synthesis task so
far; `deltaQ` the one being fed. `StreamMode` is `tts_stream_sentences`. `Leave` is the
browser's disconnect, or the five seconds after its stop, `Break` an exception of `pump_up` because the service
closed its socket, `Exit` and `Over` the `finally` of the endpoint. The mode in which the model speaks for itself
has no synthesis and is left out.

**Account.** `login[l]` is the PKCE state of a request to `/login` with what the browser
does with it; `cb[c]` a request to `/callback` and its transaction, one await per action:
`Receive` and `Consume` read and delete the state, `Exchange` spends the code, `Find` and
`FindMail` are the SELECTs, `Insert` and `Save` the flushes, `Reply` schedules the
bootstrap and answers, and `Commit` is what `get_db` does after the response has been
sent (FastAPI as pinned runs a dependency's exit then). Postgres is external: `Flush`
waits for a transaction that holds the key or row, and fails on a key that is committed;
`Written` sets only the columns whose value differs from the one loaded, as SQLAlchemy
does. `Bootstrap` is `bootstrap_taste_profile` with its reads, the LLM and what it
stores. `mishap` says what the code does not guard against: two callbacks of one account
without an address, of two accounts with one profile loaded, linking to a named user, a
response without a refresh token, a commit that fails.

**VoiceClient.** JavaScript is single threaded: an action is what runs between two
awaits, or one event's callback. `run[i]` is a call of `start()` with the microphone,
socket and capture it opened, `mic` and `line` the call whose things the references now
hold, `turn[c]` how much of a chat turn's stream has arrived, `queue`/`playing` the
AudioPlayer and `sp` the StreamPlayer with its media source: `active` is the code's flag,
`sounds` says whether the element has audio to play, which a refused chunk does not change
(`finish` clears the flag and leaves the element alone). `Resume` is
`resumeListening`, reached from `Drained` (either player), `ChatEnds`, `Greeted` and
`Nothing`; `Stop` is `stop()`, which leaves chat stream and AudioPlayer running, and
`Shut` the closing of a socket and capture, which misses a capture that is still loading
its worklet. `odd` says what the properties make a condition: overlapping starts or a
shut during loading (`line`), two turns at once or a stop during one (`turn`), a stream
cut between `audio_start` and `audio_end` (`cut`), a chunk the source buffer refused
(`refused`). The stop of an unmounted component is the one of a tap.

**VoiceStream.** `pc` is where the endpoint stands (accepting, connecting, receiving,
waiting for `pump_down` after a stop, leaving, closing), `down` the task of `pump_down`,
`pipe` the provider's events on their way. The provider (external) recognises turns as
Flux does (updates, an eager end that may be taken back, an end) or as OpenAI does
(deltas and a completion per item). `meant` is what those events stand for, `frames`
what the browser was sent: `Yielded`, `Buffered`, `FrameOf` are the adapters' filters
and `_frame`. `AwaitDown` is the `wait_for` of five seconds.

**MoodWatch.** One user. `turn[n]` is a chat turn that pops the draft (`PopGet`,
`PopDelete`) and records plays in the background (`Claim`, `Recent`, `Add`: throttle,
known tracks, rows stamped with the current bucket, since the list has no times);
`task[k]` an inference task, which labels each busy bucket and replaces its pattern
(`LabelBucket`, `Search`, `Delete`, `Insert`) and then compares what is played now with
what is usual (`LabelRecent`, `Compare`, `Store`). A search returns any `Near` or `Wide`
of the patterns, which is all that is known of vector search.

**McpBridge** and **ToolService.** The queue, the owner's loop (`Get`, `Connect`,
`Execute`, `Answer`, `Lose`, `Retry`, `Report`), futures, `start()` and `stop()` with
its 10 s patience. The server may do what it is asked and lose the answer: `ran[c]`
counts executions and reaches 2. `ToolService` is the promise: callers ask or are
refused, one waiting call is begun at a time, in order, only while its caller waits,
and a call is settled once.

## 3. The runs

Passing runs (every action of every next-state relation fires in one of them):

| Run | Instance | Properties and what they show |
|---|---|---|
| `RouterPrewarm` | 1 process, 1 phrase, 2 tasks, 2 turns | `AwaitedNotCancelled`: popping before awaiting means no one else can cancel the task a turn awaits (a `CancelledError` would pass `except Exception`). `NeverStalls`: whatever dies |
| `ChatTurn` | messages of every kind of keyword, 11 decisions, signed in and not, a client that may leave | `DbExclusive`: the memory task is first in the order in which tasks are awaited, and only that order keeps the session open for it. `Grounded`: neither weather nor search can slip between the speculative reply and its use. `NoAutoPlay`: whatever the router decided, perhaps ahead of the turn, nothing plays that was only to be queued or asked about. `HeardIsRecorded`: no failure of specialists leaves the user with nothing, or lets the exchange pass by the history. `TurnEnds`, unless it waits for ever on Spotify |
| `SessionMemorySafety` | 2 sessions, 2 exchanges, 1 pool process, 12 units (3 h: past the 2 h TTL and four beats), two kinds of mishap in the first 45 minutes | `NothingForgotten`: the flush list makes up for raising jobs and dying processes. `DropsOnlyStale`: only a session without history leaves the list undistilled. `NoneExpires`: the constants 15 min, 45 min and 2 h fit together |
| `MemoryWriteSafety` | 3 facts of which one contradicts both others, 4 memories, 2 runs of up to 2 facts, 1 retrieval | `MarkedWasStored` always; `NoDuplicates` unless runs overlap, fail or outlive a mark; `OneSide`: never a memory beside the one it supersedes, and through failures and expiries no contradiction at all, unless runs overlap or a fact contradicts several memories or one that was not shown; `NeverHidden` unless a run fails or a retrieval reads beside one |
| `ResilientCall` | 3 callers, threshold 2, the Brave client's timing | `NoStraggler`: the cooldown outlasts every call admitted before the breaker opened. `CallEnds`, `Recovers` |
| `RealtimeVoice` | streaming mode, 2 turns, no tools | `FlushAlone`: cancel, wait, flush in that order, so that no frame of a synthesis that is being cancelled follows the flush. `AudioEnds` |
| `RealtimeVoiceWhole` | whole replies, 2 turns, 1 tool call | `FlagSettles`: once both directions are drained `_response_active` is true exactly while the service generates. `NoOrphan` |
| `McpBridge` | 3 calls | `Answered`, and `Promise`: the bridge implements `ToolService`, which has the order of the commands in it |
| `VoiceClient` | 2 starts, 2 turns, 2 taps or typed or spoken turns, 1 waiting chunk | `NotHerself`: no frame feeds the recogniser while a player is heard, unless a chunk was refused. `OneFeed`: of all captures ever started one lets frames through. `MicReleased`: an open microphone belongs to a session that is up, and is the one its stop will release. `WillResume`: deafness is always temporary |
| `Account` | 2 Spotify accounts (one without an address), 3 users, 2 logins, 3 callbacks | `OneAccount`: the unique key of the address decides between two first sign-ins. `TokensMatch`: loading, relinking and writing back keep account and token together. `WarmedOnce` |
| `MoodWatch` | 2 buckets, 2 labels, 1 track, 2 patterns, 2 drafts, 2 tasks, 2 turns | `OnePattern`, `ToldOnce`, `TrueNudge`, `CountedOnce`, each while no mishap of the kind it names has happened |
| `VoiceStream` | both vendors and none, 2 turns, 3 events, 1 waiting message | `Relayed`: a prefix of what the provider said, with each turn's own words. `Flushed`: a stop that reaches the provider's end loses nothing. `Ends`: after a stop or a disconnect a silent provider holds up nobody |

`VoiceClient`, `MoodWatch` and `VoiceStream` also check their type invariants. The type
invariants of all modules are proved for every value of the constants (section 4).

**Bounds.** Two actors of a kind are what the interleavings at issue need: two turns
that race for one task, two runs, a flush and a returning turn. `RouterPrewarm` is
checked with one process because its liveness is checked on the full graph; the theorem
covers any number. The ring holds 4 messages for 12 and the threshold is 2 for 5: only
that they are reached matters. `ChatTurn` has one turn, since turns share only what
`RouterPrewarm` and `SessionMemory` model; the fields an intent ignores are fixed in
`MCChatTurn`, except those it must ignore (the music flag of a question about an
artist). `SessionMemory` runs one pool
process over the three hours, and `Scope` (in `MCSessionMemory`) lets mishaps of two
kinds happen in its first 45 minutes: later ones meet the same code. `MoodWatch` stops
when mishaps of two kinds have come together (`OneMishap`): each property excludes one
kind and must hold whatever else happened. One row makes a bucket busy there, and the
nearest pattern stands for the three nearest. `VoiceClient` explores two sessions, so
that what a stop leaves behind meets the next one, `VoiceStream` two turns, so that the
buffer of one meets the other, `Account` three callbacks, so that two that overlap meet a
third that comes after. `Horizon`, `Turn`, `Call`, `Job`, `Memory`, `Callback`, `Login`,
`User`, `Task`, `Pattern`, `Draft`, `MaxRow`, `MaxStart`, `MaxDone`, `MaxPending`,
`MaxTurn`, `MaxEvent`, `MaxInbox` and `MaxDelta` bound the exploration and are marked *(a bound)* where they are declared;
every other constant is one of the program's. Deadlock is checked only for
`ResilientCall`: the other systems stop when their bounded input is used up.

**Fairness**, all weak, on what the runtime does by itself: asyncio resumes a coroutine
whose await is over; timers fire (`ResilientCall`: `Tick`, `Due`; the service owes
nothing); tasks run,
the TTS answers and the model ends its responses (`RealtimeVoice`, `RealtimeSession`);
the services that a turn calls with a timeout answer or run into it (`ChatTurn`: LLM, TTS,
weather and search clients have one; Postgres, Weaviate and Redis, which `main.py:145`
gives none, are taken to answer or to fail). The bridge to the Spotify MCP server has no
timeout (`spotify.py:154`), so a turn is not asked to get past a section that waits for it
(`OnSpotify`), nor the memory task to end;
the MCP server answers or fails (`McpBridge`: there is no timeout in the code, so
without this `Answered` does not hold: one call that hangs wedges the bridge); the two
tasks of a transcription socket run (`VoiceStream`; nothing is asked of the provider, nor
of the browser, which sends audio only while it listens).
`WillResume` needs no fairness: it is stated as an invariant. Nothing
is assumed of users, of eager transcripts, or of the order in which tasks run.
`SessionMemory` assumes that a beat process exists; the compose file starts none, so as
deployed there the flush never runs and `NoneExpires` is not to be had.

**Conditions.** Properties that hold only while certain mishaps have not happened say
so in the formula. What they exclude is real, and section 5 lists those behaviours.

## 4. The proofs

Every theorem holds for any values of the constants that satisfy the module's `ASSUME`
(finite or not), so for any number of processes, sessions, turns and calls.

| Theorem | Says | Argument |
|---|---|---|
| `RouterPrewarmProofs!TypeCorrect`, `HandOffSound` | types; `AwaitedNotCancelled` and `ServedIsClassified` | An awaited task has left every `_LOCAL` (so no prune and no other turn reaches it), is held by one turn, and lives in the same process as that turn; what is under a result key has been published for that phrase |
| `RouterPrewarmProofs!StreamTypeCorrect`, `WordsAreRelayed`, `FinalsAreFlushed` | types; `Relayed`; `Flushed` (`VoiceStream`) | `RelayInv`: there are interim texts and frame counts, one for each event in the pipe, that lead from the buffer and the frames of now to what the provider's turns come to and to all that is meant (`Foresees`). An event read uses up the first of them (`Consumed`), an event said adds one (`Extended`). `FlushInv`: when `pump_down` has come to the provider's own end the pipe is empty, and then what is foreseen is what there is |
| `ChatTurnProofs!TypeCorrect`, `MusicOptIn`, `SessionExclusive`, `RepliesGrounded`, `ReplyIsRecorded` | types; `NoAutoPlay`; `DbExclusive`; `Grounded`; `HeardIsRecorded` | Four invariants by section. Music: a decision to play is, from `Decide` on, one that the request allows, and only a DJ step of it starts anything. Memory: past its await the task has an outcome, and the reaping waits for it first. Grounding: the weather is in the context only on a DJ turn, which always has a part, so a conversational reply without a search has exactly the memory as its context, and so has the speculative one. Heard (`HeardInv`): there is a part once the specialists are through, so a section that speaks is entered only after `append_turn` was called with both messages, and nothing is heard before it |
| `SessionMemoryProofs!TypeCorrect`, `NeverForgotten` | types; `NothingForgotten` | `Kept`: an undistilled message has its session in the flush's list, or a turn that is about to put it there; a flush with a session in hand holds all of its history, drops it only when all of that is distilled, and no turn of it is being recorded meanwhile |
| `SessionMemoryProofs!OnlyStaleDropped` | `DropsOnlyStale` | `CleanHeld`: unless Redis failed or a user came back, what a flush distils is not empty, and what it is about to drop without a transcript has no history, nor a turn that could give it one |
| `SessionMemoryProofs!DistilledInTime` | `NoneExpires` | Assumes `ThrottleTTL + Idle + Beat < HistoryTTL`. `InTime`: of a message that no task has in hand, the throttle (and, once no turn is open, the score in the list) is at most `ThrottleTTL` past the last append, and after a beat more than `Idle` later a flush is on its way to the session. The clock moves when nothing is on its way, so the last beat was earlier than that, and the next one comes before the key expires |
| `MemoryWriteProofs!TypeCorrect`, `DedupSound` | types; `MarkedWasStored` | Between insert and mark the head of the run's list is the text of an inserted object |
| `MemoryWriteProofs!NoTextTwice`, `NeverBothSides`, `FreshIsShown` | `NoDuplicates`; `OneSide`; `NeverHidden` | Unless two runs have overlapped, one run at most is past its start (`Alone`). Duplicates (`Once`): what is in the collection is marked, or in the hand of the run that is about to mark it; what a run is to store is neither marked nor repeated. Sides: what an item supersedes was in the collection and is deleted before the item is stored, by whichever run, and a deleted object does not come back (`Known`, `Replaced`, without condition); of runs one after the other what contradicts an item is the memory it supersedes, and the items do not contradict one another (`Sided`). Cache (`Cached`): no retrieval that missed is under way beside a run, and what it is about to cache is what the collection holds |
| `ToolsProofs!CallsTyped`, `OnlyProbesJudge` | types; `NoStraggler` | Assumes `Shorter`: `Timeout + Rest[0] < Cooldown` (24.5 s and 20.5 s against 30 s for the two users). A call that is not a probe has less time left than the breaker's cooldown still has to run |
| `ToolsProofs!TypeCorrect`, `InOrderOnly`, `KeepsPromise` | types; `InOrder`; `Promise`, the refinement | The queue holds, in order and once, the calls that are neither begun nor skipped; what left it and is not served is settled; each attempt executes once |
| `ToolsProofs!MoodTypeCorrect`, `OneForABucket`, `NudgesAreTrue`, `ToldAtMostOnce`, `PlaysCountedOnce` | types; `OnePattern`; `TrueNudge`; `ToldOnce`; `CountedOnce` (`MoodWatch`) | One invariant each, conditional on the mishap its property names. `PatternInv`: one task works, and what its search found is all there is for its bucket. `NudgeInv`: the two labels of a draft differ from `Compare` on, and the bucket it was made for is the one inferred for. `ToldInv`: one turn is between its read and its delete, and neither what it has read nor what is stored has been told. `CountInv`: one turn records, and the play it is about to record has no row |
| `RealtimeVoiceProofs!TypeCorrect`, `FlushFindsNone`, `NoneOrphaned` | types, also of the session; `FlushAlone`; `NoOrphan` | While `pump_down` is in a barge-in no synthesis is running, as it alone starts them; on the way out, unless the service broke the socket, it is stopped and every task is awaited |
| `RealtimeVoiceProofs!FlagIsRight` | `FlagSettles` | `Settling` looks through the messages that are still unread: with the value the flag will have after all of them (`On`: set by the last message that says anything of it) it is set only if a response is generated or asked for, and a response it misses is about to be cancelled, by a request that is on its way up or by a speech still to be read (`WillCancel`) |
| `AccountProofs!TypeCorrect`, `BootstrapOnce`, `TokensOfAccount` | types; `WarmedOnce`; `TokensMatch` | A callback that has flushed a profile is the only one that has that user's, so of two that create it only one gets past the flush to schedule the bootstrap, and the other finds the key taken. What a callback loaded is still stored, or has been overwritten by a callback of the same account, so setting only the changed columns yields its own account with its own token. Steps that leave the profiles alone are one lemma (`QuietInv`) |
| `AccountProofs!ReturningIsMatched` | `OneAccount` | Unless twins or a link have come (`Plain`), a row has the address of its account and is the account's only one (`Rows`), and a callback goes on either with that row or with the key of a new user whose account has none (`Signed`); two that would insert are kept apart by the key of the address (`Apart`) |
| `VoiceClientProofs!TypeCorrect`, `MicrophoneReleased`, `FedOnce`, `NeverFedHerself`, `NeverDeaf` | types; `MicReleased`; `OneFeed`; `NotHerself`; `WillResume` | `LineInv`, while starts do not overlap: a microphone that is open and a capture that runs or is starting belong to the session's own call. `TalkInv`, while nothing overlaps: a turn in flight, an awaited greeting, a recording, a transcription and a player whose flag is set exclude each other, so listening, which only the end of one of them resumes, finds both flags down. `SoundInv`, unless a chunk was refused: an element has audio to play only while its flag is set, since nothing is appended after the flag has fallen. `ResumeInv`, whatever overlaps: a stream in flight has its turn, and a player whose flag is set has a source and has been told its end or will be |

None of the safety properties is inductive by itself; the table names the strengthened
invariants (`Inv` where there is one for the module), and TLC has agreed to each before it
was proved. A conditional property (`mishap`, `odd`, `mixed`) is proved from an invariant
under the same condition, which is sound since the histories that the conditions look at
only grow. A proof has one step per action and the temporal step at the end by PTL. Proved
though no run lists them, because the theorem says more: the type invariants of the modules
whose runs do not check them, `ServedIsClassified` (in `HandOffSound`) and `InOrder`.

The assumption of `DistilledInTime` is the code's 45 min (`chat.py`, `ex=2700`) + 15 min
(`_IDLE_THRESHOLD`) + 45 min (the beat) < 120 min (`_HISTORY_TTL`), with 15 minutes to
spare, and it is as weak as it can be: with a flush every hour (`Beat = 4`) and three
exchanges of one session TLC finds a history that expires. Its throttle was set by an
earlier exchange, one with blank texts moves the score to the end of the throttle without
renewing the key, the next beat finds the session just not idle, and the one after it
comes with the expiry. Two exchanges (the bound of the run) do not show this, which is
what the proof is for.

Every safety property that a run checks is a theorem. The liveness properties (TLAPS does
not reason about fairness or ENABLED) are model-checked only.

## 5. What the models show of the code

Where a document says otherwise it is quoted; the rest are behaviours the models have
that no property forbids, because the code does nothing about them.

- *Prewarm.* Two eager events that overlap in the Redis write both classify; a parked
  task is taken however old it is; the key is the phrase alone, not session and phrase
  as the docstring of `_key` says; a decision can be read twice before it is deleted.
- *Session memory.* A user who comes back while the flush distils the session is
  removed from the list by the flush's unconditional ZREM (`session_flush.py:94`), and
  the new messages are left to expire, although "without this task those tail turns
  would never be distilled" (`session_flush.py:9`). A client that disconnects, or a Redis or broker error, between the
  append and the note leaves messages to expire; after a Redis error `get_history`
  answers with an empty history and the live session is dropped; seven exchanges within
  a throttle window trim the first unseen.
- *Memory.* A retrieval that searched before an extraction writes the cache after the
  invalidation (`retrieval.py:134`), against "a freshly-learned preference is never
  hidden behind a stale cache entry" (`cache.py:9`). Two runs at once store the same text twice or both sides of a
  contradiction; a fact that contradicts two memories supersedes one and leaves the other; one that contradicts a
  memory which is not among the five nearest preferences (`agents/memory.py:67`), or one
  that the profiler stores (`profiler.py:115` searches for nothing), leaves both, although
  a superseded memory is deleted "so the collection never contains both sides of a
  contradiction" (`decay.py:30`); a run that fails after an insert never invalidates the cache; a fact
  superseded and learnt again within 30 days is skipped as a duplicate while its
  opposite stays; `deduplicate()`, the read-time net, has no caller.
- *Chat turn.* With a proactive draft pending and no output of any specialist (an artist
  question without a name, a failed lookup), the draft counts as output
  (`chat.py:950`), so the conversational reply that the comment above it promises to
  "any turn where no specialist produced output" is not made and the question goes
  unanswered; a draft is removed from Redis before it is told, and lost with a client
  that leaves; a command whose `add_to_queue` fails is answered as if queued; a start that Spotify refused
  (no device, no Premium) is told as playing, and `playback_started` set, "Whether Spotify
  playback was started in this call" (`schemas/dj.py:64`), because `start_playback`
  returns "playing" for any answer of the MCP server (`spotify.py:298`, where
  `_content_text` drops `isError`), and one that fails late is apologised for though it may
  play; an error of Redis in `append_turn` is logged and the turn goes on, so an exchange
  that was heard can be missing from the history, or half of it
  (`session_history.py:46`); a call to Spotify that hangs keeps the turn open for ever; when a
  task is cancelled at the end of a turn, the tasks after it are not awaited and the
  generator ends with `CancelledError` after its `done` frame.
- *Breaker.* Several calls are admitted in half-open (`resilience.py:76`), where the
  module speaks of "a single half-open call". A call admitted earlier closes an open
  breaker when it succeeds, and goes on retrying while it is open.
- *Realtime.* When two tools of one response are called and the second result arrives
  while the first one's response is active, no response is asked for (`realtime.py:624`)
  and the result is never spoken of; the docstring promises "a fresh (text) response"
  (`realtime.py:578`). Text of an interrupted response that arrives after the barge-in starts a
  new synthesis, whose audio follows the flush; two replies' syntheses may overlap; tool calls of an interrupted
  response are run; a response may be asked for while one is being created; a
  transcript that comes late is stored with the next reply, or overwritten by the next;
  when the service closes its socket `pump_down` outlives the endpoint's clean-up.
- *Bridge.* A caller that gives up during connecting or between attempts has its command
  carried out; an answer lost after execution makes the retry execute again; calls
  queued behind the shutdown sentinel are never answered.
- *Search.* `brave.py:53` promises "[]" on an error; `resilient_call` raises instead, and
  the callers catch it.
- *Accounts.* The browser is told an id before the commit; if the commit fails the id
  does not exist and the bootstrap runs for nobody. A bootstrap lives in the process: a
  crash loses it, and only a request to `/memory/{user_id}/bootstrap` repeats it. It
  profiles whichever account the shared MCP server is signed in to. Two first sign-ins of
  an account without an address make two users, after which every sign-in of that account
  fails (two profiles where the SELECT expects one). Linking a user to a second Spotify
  account locks the first one out: its next sign-in finds no profile, finds the user by
  address, and always runs into the unique key when it inserts one.
- *Browser.* A second tap while the microphone prompt is open starts a second session
  whose first microphone nobody stops. `start()` does not look again after the prompt
  (`useVoiceSession.ts:606`): a stop while it is open, after a typed turn or by the
  component's unmounting (`:720`), does not keep a microphone that is then granted from
  opening a session, listening until it is stopped again or closes after ten silent
  seconds. When the source buffer refuses a chunk, `finish` clears `active` without pausing
  the element (`audio.ts:203`, `:222`): what is appended plays on, while listening resumes
  and frames of it go to the recogniser. A capture that is shut while its worklet loads is
  never stopped and feeds the next session's socket. The late error of a socket that was
  aborted tears down the new session's line. Each player's `onDrained` looks only at its
  own queue, so an acknowledgment that ends while the reply streams, or a greeting that
  has no audio, resumes listening while something sounds. `stop()` leaves the chat stream
  and the AudioPlayer running, and a transcription that returns after it, or beside
  another turn, starts a turn. A stream that breaks between `audio_start` and `audio_end`
  leaves the session speaking for ever, as does a typed turn without a session.
- *Transcription.* The proxy "closes when the client sends stop, disconnects, or the
  provider stream ends" (`voice_stream.py:67`). Of the last the endpoint hears only when
  it forwards another audio frame; the browser sends them only while it listens
  (`useVoiceSession.ts:472`), so until then, or for ever in a session that a broken reply
  has left speaking, it stays in `ws.receive` with nothing to relay. OpenAI's stream never ends after a commit, so a clean stop there takes
  the full five seconds and may lose the last final. A `pump_down` that fails around a
  stop gives an error frame. When `send_audio` raises, `pump_down` is not awaited: a
  transcript frame can follow the error frame. Two items transcribed at once share one
  buffer, and a blank completion repeats another turn's words.
- *Mood.* The tasks that beat sends look for `session:*` keys, which nothing writes, so
  inference is only ever started by a chat turn. A play is stamped with the time of the
  poll, and recorded again when its row is six hours old. A draft stored between a turn's
  GET and DELETE is lost; two turns can both tell one. The hour may turn between the two
  readings of the clock, and then the nudge compares two times of the week. An old pattern
  that is not among the nearest three is not superseded.

## 6. What is not modelled, and the plan

In the order of the plan, with the properties worth stating:

1. `SpotifyToken` (`tools/spotify_web.py`): two processes refresh one token file; a
   refresh never loses the refresh token.
2. `Consolidation` (`memory/consolidation.py`): old insights are deleted before the new
   ones are embedded; a replacement never loses both generations while nothing fails.
3. The realtime mode of the browser (`realtimePlayer.ts`, `realtimeSession.ts`), the other
   end of `RealtimeVoice`, and the mode of the session in which the model speaks.

Left out for good: pure functions without state (routing rules, ranking and fusion,
parsing, formatting, sentence splitting), vendor clients that are one call, prompts,
logging and tracing, database declarations and migrations, page rendering, training and
demonstration scripts. Reading endpoints (health, listings) change nothing.
