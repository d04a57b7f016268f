---------------------------- MODULE SessionMemory ----------------------------
(***************************************************************************)
(* From a chat turn to its distillation: the session history ring          *)
(* (memory/session_history.py), what a turn does once its reply is ready   *)
(* (api/chat.py, _persist_and_extract of api/voice_realtime.py), and the   *)
(* two Celery tasks that distil the ring into durable memories             *)
(* (worker/tasks/memory_extraction.py and session_flush.py).               *)
(*                                                                         *)
(* Time is counted in units of 15 minutes.  An event may fall anywhere in  *)
(* its unit: a key is there or gone in the unit its TTL runs out, and a    *)
(* session last used a unit ago may or may not count as idle.              *)
(***************************************************************************)
EXTENDS Naturals, Sequences, SequencesExt

CONSTANTS
  Session,       \* sessions of signed-in users
  Turn,          \* exchanges that can take place (a bound)
  Runner,        \* processes of the Celery pool
  Nobody,        \* no session
  MaxRing,       \* _MAX_TURNS: messages a ring keeps (12 in the code)
  HistoryTTL,    \* _HISTORY_TTL: 8 units
  ThrottleTTL,   \* ex=2700: 3 units
  Idle,          \* _IDLE_THRESHOLD: 1 unit
  Beat,          \* period of session-flush-periodic: 3 units
  Horizon,       \* last instant explored (a bound)
  Allowed        \* mishaps explored (a bound)

\* What the code does not guard against, or only in part: a user comes back
\* while a flush distils the session, a client disconnects before its turn is
\* recorded, Redis or the broker fails, the LLM fails, an extraction raises, a
\* pool process dies or a task outlasts the unit of time it starts in.
Mishap == {"return", "leave", "redis", "llm", "raise", "stall"}

ASSUME SessionConstants ==
  /\ Nobody \notin Session
  /\ {MaxRing, HistoryTTL, ThrottleTTL, Idle, Beat, Horizon} \subseteq Nat \ {0}
  /\ Allowed \subseteq Mishap

VARIABLES
  now,
  turn,       \* turn[t]: where the recording of an exchange stands
  ring,       \* ring[s]: chat:hist:{s}
  expires,    \* expires[s]: when that key expires
  idleSince,  \* idleSince[s]: score of s in gia:pending_flush, Never if absent
  throttle,   \* throttle[s]: when extract_throttle:{s} expires, Never if unset
  queue,      \* the broker's queue: a session to extract, or Nobody for a flush
  runner,     \* runner[r]: the task a pool process runs
  distilled,  \* messages an extraction has turned into memories
  mishap      \* the mishaps so far

vars == <<now, turn, ring, expires, idleSince, throttle, queue, runner, distilled,
          mishap>>

Message == Turn \X {"user", "gia"}
Never == Horizon + HistoryTTL + ThrottleTTL + 1   \* no TTL, or no key at all
Instant == 0..Never

\* A turn whose exchange is being recorded, until it is in gia:pending_flush.
Recording == {"user", "gia"}

TurnState == [pc : {"todo"} \union Recording \union {"noted", "done"},
              sid : Session \union {Nobody}]

RunnerState ==
  [pc : {"free", "scan", "pick", "read", "distil", "drop"},
   task : {"none", "extract", "flush"},
   sid : Session \union {Nobody},
   todo : SUBSET Session,        \* what is left of the flush's members
   seen : SUBSET Message]        \* the transcript it works on

Free == [pc |-> "free", task |-> "none", sid |-> Nobody, todo |-> {}, seen |-> {}]

TypeOK ==
  /\ now \in 0..Horizon
  /\ turn \in [Turn -> TurnState]
  /\ ring \in [Session -> Seq(Message)]
  /\ expires \in [Session -> Instant]
  /\ idleSince \in [Session -> Instant]
  /\ throttle \in [Session -> Instant]
  /\ queue \in Seq(Session \union {Nobody})
  /\ runner \in [Runner -> RunnerState]
  /\ distilled \in SUBSET Message
  /\ mishap \in SUBSET Allowed

Init ==
  /\ now = 0
  /\ turn = [t \in Turn |-> [pc |-> "todo", sid |-> Nobody]]
  /\ ring = [s \in Session |-> <<>>]
  /\ expires = [s \in Session |-> Never]
  /\ idleSince = [s \in Session |-> Never]
  /\ throttle = [s \in Session |-> Never]
  /\ queue = <<>>
  /\ runner = [r \in Runner |-> Free]
  /\ distilled = {}
  /\ mishap = {}

Befall(X) == X \subseteq Allowed /\ mishap' = mishap \union X

-----------------------------------------------------------------------------
(* Recording an exchange.                                                  *)

Live(s) == \E t \in Turn : turn[t].pc \in Recording /\ turn[t].sid = s

Flushing(s) ==
  \E r \in Runner : /\ runner[r].task = "flush" /\ runner[r].sid = s
                    /\ runner[r].pc \in {"read", "distil", "drop"}

LastOf(seq) == IF Len(seq) <= MaxRing THEN seq
               ELSE SubSeq(seq, Len(seq) - MaxRing + 1, Len(seq))

\* append_turn: RPUSH, LTRIM, EXPIRE.  A blank text is not appended; an error
\* is swallowed after any of the three commands.  X has befallen the caller.
Append1(s, m, X) ==
  \/ /\ ring' = [ring EXCEPT ![s] = LastOf(Append(@, m))]
     /\ expires' = [expires EXCEPT ![s] = now + HistoryTTL]
     /\ Befall(X)
  \/ UNCHANGED <<ring, expires>> /\ Befall(X)
  \/ /\ ring' \in {ring, [ring EXCEPT ![s] = Append(@, m)],
                   [ring EXCEPT ![s] = LastOf(Append(@, m))]}
     /\ UNCHANGED expires
     /\ Befall(X \union {"redis"})

AppendUser(t, s) ==
  /\ turn[t].pc = "todo"
  /\ turn' = [turn EXCEPT ![t] = [pc |-> "user", sid |-> s]]
  /\ Append1(s, <<t, "user">>, {x \in {"return"} : Flushing(s)})
  /\ UNCHANGED <<now, idleSince, throttle, queue, runner, distilled>>

AppendReply(t) ==
  /\ turn[t].pc = "user"
  /\ turn' = [turn EXCEPT ![t].pc = "gia"]
  /\ Append1(turn[t].sid, <<t, "gia">>, {})
  /\ UNCHANGED <<now, idleSince, throttle, queue, runner, distilled>>

\* ZADD gia:pending_flush; an error skips the throttle as well.
Note(t) ==
  /\ turn[t].pc = "gia"
  /\ \/ /\ idleSince' = [idleSince EXCEPT ![turn[t].sid] = now]
        /\ turn' = [turn EXCEPT ![t].pc = "noted"]
        /\ UNCHANGED mishap
     \/ /\ turn' = [turn EXCEPT ![t].pc = "done"]
        /\ Befall({"redis"})
        /\ UNCHANGED idleSince
  /\ UNCHANGED <<now, ring, expires, throttle, queue, runner, distilled>>

\* Fault: the throttle lasts 90 minutes.
Enqueue_Long(t) ==
  LET s == turn[t].sid IN
  /\ turn[t].pc = "noted"
  /\ turn' = [turn EXCEPT ![t].pc = "done"]
  /\ \/ throttle[s] # Never /\ UNCHANGED <<throttle, queue, mishap>>
     \/ /\ throttle[s] = Never
        /\ throttle' = [throttle EXCEPT ![s] = now + 2 * ThrottleTTL]
        /\ queue' = Append(queue, s)
  /\ UNCHANGED <<now, ring, expires, idleSince, runner, distilled, mishap>>

\* SET extract_throttle NX EX; the one that sets it sends the task, and a
\* failing broker leaves the throttle set.
Enqueue(t) ==
  LET s == turn[t].sid IN
  /\ turn[t].pc = "noted"
  /\ turn' = [turn EXCEPT ![t].pc = "done"]
  /\ \/ throttle[s] # Never /\ UNCHANGED <<throttle, queue, mishap>>
     \/ /\ throttle[s] = Never
        /\ throttle' = [throttle EXCEPT ![s] = now + ThrottleTTL]
        /\ \/ queue' = Append(queue, s) /\ UNCHANGED mishap
           \/ Befall({"redis"}) /\ UNCHANGED queue
     \/ Befall({"redis"}) /\ UNCHANGED <<throttle, queue>>
  /\ UNCHANGED <<now, ring, expires, idleSince, runner, distilled>>

\* The client leaves: the generator is cancelled at its next await.
Leave(t) ==
  /\ turn[t].pc \in {"user", "gia", "noted"}
  /\ Befall({"leave"})
  /\ turn' = [turn EXCEPT ![t].pc = "done"]
  /\ UNCHANGED <<now, ring, expires, idleSince, throttle, queue, runner, distilled>>

-----------------------------------------------------------------------------
(* The worker.  A task is acknowledged when it is received: the app sets   *)
(* task_ack_late, which Celery does not know (its option is task_acks_late).*)

Receive(r) ==
  /\ runner[r].pc = "free"
  /\ queue # <<>>
  /\ queue' = Tail(queue)
  /\ runner' = [runner EXCEPT ![r] =
       IF Head(queue) = Nobody THEN [Free EXCEPT !.pc = "scan", !.task = "flush"]
       ELSE [Free EXCEPT !.pc = "read", !.task = "extract", !.sid = Head(queue)]]
  /\ UNCHANGED <<now, turn, ring, expires, idleSince, throttle, distilled, mishap>>

\* ZRANGEBYSCORE: a session noted exactly Idle units ago may or may not be in.
Scan(r) ==
  /\ runner[r].pc = "scan"
  /\ \E members \in SUBSET {s \in Session : idleSince[s] + Idle <= now} :
       /\ \A s \in Session : idleSince[s] + Idle < now => s \in members
       /\ runner' = [runner EXCEPT ![r].pc = "pick", ![r].todo = members]
  /\ UNCHANGED <<now, turn, ring, expires, idleSince, throttle, queue, distilled, mishap>>

\* Fault: the flush forgets the member before it has distilled it.
Pick_Drops(r, s) ==
  /\ runner[r].pc = "pick" /\ s \in runner[r].todo
  /\ throttle[s] = Never
  /\ Befall({x \in {"return"} : Live(s)})
  /\ idleSince' = [idleSince EXCEPT ![s] = Never]
  /\ runner' = [runner EXCEPT ![r] =
       [@ EXCEPT !.todo = runner[r].todo \ {s}, !.pc = "read", !.sid = s, !.seen = {}]]
  /\ UNCHANGED <<now, turn, ring, expires, throttle, queue, distilled>>

\* The loop's next member, skipped while its throttle is active.
Pick(r, s) ==
  /\ runner[r].pc = "pick" /\ s \in runner[r].todo
  /\ Befall({x \in {"return"} : throttle[s] = Never /\ Live(s)})
  /\ runner' = [runner EXCEPT ![r] =
       IF throttle[s] # Never THEN [@ EXCEPT !.todo = runner[r].todo \ {s}, !.sid = Nobody]
       ELSE [@ EXCEPT !.todo = runner[r].todo \ {s}, !.pc = "read", !.sid = s, !.seen = {}]]
  /\ UNCHANGED <<now, turn, ring, expires, idleSince, throttle, queue, distilled>>

\* Nothing is left, or a Redis command raises outside the loop's try.
EndFlush(r) ==
  /\ \/ runner[r].pc = "pick" /\ runner[r].todo = {} /\ UNCHANGED mishap
     \/ runner[r].pc \in {"scan", "pick"} /\ Befall({"redis"})
  /\ runner' = [runner EXCEPT ![r] = Free]
  /\ UNCHANGED <<now, turn, ring, expires, idleSince, throttle, queue, distilled>>

\* get_history: no transcript when the ring is gone, or when Redis fails.
Read(r) ==
  /\ runner[r].pc = "read"
  /\ \E seen \in {Range(ring[runner[r].sid]), {}} :
       /\ Befall({x \in {"redis"} : seen # Range(ring[runner[r].sid])})
       /\ runner' = [runner EXCEPT ![r] =
         IF seen # {} THEN [@ EXCEPT !.pc = "distil", !.seen = seen]
         ELSE IF @.task = "flush" THEN [@ EXCEPT !.pc = "drop"]
         ELSE Free]
  /\ UNCHANGED <<now, turn, ring, expires, idleSince, throttle, queue, distilled>>

\* run_extraction returns; an LLM error returns no memory at all.
Distil(r) ==
  /\ runner[r].pc = "distil"
  /\ \/ distilled' = distilled \union runner[r].seen /\ UNCHANGED mishap
     \/ Befall({"llm"}) /\ UNCHANGED distilled
  /\ runner' = [runner EXCEPT ![r] = IF @.task = "flush" THEN [@ EXCEPT !.pc = "drop"]
                                     ELSE Free]
  /\ UNCHANGED <<now, turn, ring, expires, idleSince, throttle, queue>>

\* run_extraction raises: the flush keeps the member and goes on.
Raise(r) ==
  /\ runner[r].pc = "distil"
  /\ Befall({"raise"})
  /\ runner' = [runner EXCEPT ![r] = IF @.task = "flush"
       THEN [@ EXCEPT !.pc = "pick", !.sid = Nobody, !.seen = {}] ELSE Free]
  /\ UNCHANGED <<now, turn, ring, expires, idleSince, throttle, queue, distilled>>

\* ZREM gia:pending_flush; an error ends the task when there was no transcript.
Drop(r) ==
  /\ runner[r].pc = "drop"
  /\ \/ /\ idleSince' = [idleSince EXCEPT ![runner[r].sid] = Never]
        /\ runner' = [runner EXCEPT ![r].pc = "pick", ![r].sid = Nobody, ![r].seen = {}]
        /\ UNCHANGED mishap
     \/ /\ Befall({"redis"})
        /\ runner' = [runner EXCEPT ![r] = IF @.seen = {} THEN Free
             ELSE [@ EXCEPT !.pc = "pick", !.sid = Nobody, !.seen = {}]]
        /\ UNCHANGED idleSince
  /\ UNCHANGED <<now, turn, ring, expires, throttle, queue, distilled>>

Crash(r) ==
  /\ runner[r].pc # "free"
  /\ Befall({"stall"})
  /\ runner' = [runner EXCEPT ![r] = Free]
  /\ UNCHANGED <<now, turn, ring, expires, idleSince, throttle, queue, distilled>>

-----------------------------------------------------------------------------
(* Time: TTLs run out, and beat sends the flush every Beat units.          *)

ExpireRing(s) ==
  /\ ring[s] # <<>> /\ expires[s] <= now
  /\ ring' = [ring EXCEPT ![s] = <<>>]
  /\ expires' = [expires EXCEPT ![s] = Never]
  /\ UNCHANGED <<now, turn, idleSince, throttle, queue, runner, distilled, mishap>>

ExpireThrottle(s) ==
  /\ throttle[s] <= now
  /\ throttle' = [throttle EXCEPT ![s] = Never]
  /\ UNCHANGED <<now, turn, ring, expires, idleSince, queue, runner, distilled, mishap>>

\* What the deployment keeps up with is done before the unit is over.
Settled ==
  /\ queue = <<>>
  /\ \A r \in Runner : runner[r].pc = "free"
  /\ \A t \in Turn : turn[t].pc \in {"todo", "done"}

Tick ==
  /\ now < Horizon
  /\ Befall({x \in {"stall"} : ~Settled})
  /\ \A s \in Session : throttle[s] > now /\ (ring[s] # <<>> => expires[s] > now)
  /\ now' = now + 1
  /\ queue' = IF (now + 1) % Beat = 0 THEN Append(queue, Nobody) ELSE queue
  /\ UNCHANGED <<turn, ring, expires, idleSince, throttle, runner, distilled>>

TurnStep(t) == AppendReply(t) \/ Note(t) \/ Enqueue(t) \/ Leave(t)

RunnerStep(r) ==
  \/ Receive(r) \/ Scan(r) \/ EndFlush(r) \/ Read(r) \/ Distil(r) \/ Raise(r)
  \/ Drop(r) \/ Crash(r)
  \/ \E s \in Session : Pick(r, s)

Next ==
  \/ \E t \in Turn : TurnStep(t) \/ \E s \in Session : AppendUser(t, s)
  \/ \E r \in Runner : RunnerStep(r)
  \/ \E s \in Session : ExpireRing(s) \/ ExpireThrottle(s)
  \/ Tick

Spec == Init /\ [][Next]_vars

-----------------------------------------------------------------------------
(* Properties.                                                             *)

\* Someone will see to message m of session s: the turn being recorded will
\* note the session for the flush, or it is noted, or an extraction is queued,
\* or reads the history, or has read it.
SeenTo(s, m) ==
  \/ idleSince[s] # Never
  \/ Live(s)
  \/ \E i \in DOMAIN queue : queue[i] = s
  \/ \E r \in Runner : /\ runner[r].sid = s
                       /\ \/ runner[r].task = "extract" /\ runner[r].pc = "read"
                          \/ runner[r].pc = "distil" /\ m \in runner[r].seen

\* A message in the history that is not yet distilled is seen to: raising
\* extractions and dying processes are made up for by the flush.
NothingForgotten ==
  mishap \subseteq {"raise", "stall"} =>
    \A s \in Session : \A m \in Range(ring[s]) \ distilled : SeenTo(s, m)

\* "those tail turns would never be distilled": a history that expires two
\* hours after its last turn has been distilled by then, unless something went
\* wrong (there is no retry: the next beat is the only second chance).
NoneExpires ==
  [][\A s \in Session : mishap = {} /\ ring[s] # <<>> /\ ring'[s] = <<>>
        => Range(ring[s]) \subseteq distilled]_vars

\* "Remove stale entries whose history has already expired": a session leaves
\* gia:pending_flush without an extraction only if it has no history; not so
\* after a Redis error, which get_history answers with an empty history too,
\* nor if the user has come back meanwhile.
DropsOnlyStale ==
  [][\A s \in Session :
        {"redis", "return"} \intersect mishap' = {} /\ idleSince[s] # Never /\ idleSince'[s] = Never
        => \/ ring[s] = <<>>
           \/ \E r \in Runner : runner[r].sid = s /\ runner[r].seen # {}]_vars
=============================================================================
