---------------------------- MODULE RouterPrewarm ----------------------------
(***************************************************************************)
(* Speculative router prewarm (backend/app/agents/router_prewarm.py).      *)
(*                                                                         *)
(* POST /chat/prewarm starts a classification task for an eager transcript *)
(* and parks it in the worker's _LOCAL map; the task publishes its         *)
(* decision to Redis.  POST /chat takes the parked task, or the decision   *)
(* in Redis when another worker computed it, or runs the router cold.      *)
(*                                                                         *)
(* A decision is identified with the task that computed it.  Every await   *)
(* of the code is a step boundary.  Redis time-outs and the 30 s TTLs may  *)
(* strike at any moment: no clock is modelled.                             *)
(***************************************************************************)

CONSTANTS
  Worker,        \* API processes, each with its own _LOCAL
  Phrase,        \* normalised transcripts: exactly what _key hashes
  Job,           \* classification tasks that can be created (a bound)
  Call,          \* /chat requests that can call take (a bound)
  NoJob          \* absence of a task or of a decision

ASSUME PrewarmConstants ==
  /\ NoJob \notin Job
  /\ Worker # {} /\ Phrase # {}

VARIABLES
  job,      \* job[j]: start() and the task it creates
  local,    \* local[w][p]: the entry of _LOCAL in worker w
  aged,     \* tasks whose _LOCAL timestamp is more than _TTL_S old
  pending,  \* pending[p]: _PENDING_KEY is set
  result,   \* result[p]: the decision under _RESULT_KEY
  call      \* call[c]: take() as run by one /chat request

vars == <<job, local, aged, pending, result, call>>

MaybeJob == Job \union {NoJob}

InFlight == {"running", "classified", "published"}
Aborted  == {"cancelled", "cut"}   \* killed before, after classifying
Taking   == {"awaiting", "reading", "probing", "polling", "consuming"}
Settled  == {"served", "cold", "gone"}

JobState ==
  [pc : {"unused", "marking"} \union InFlight \union {"done"} \union Aborted,
   at : Worker, says : Phrase]

CallState ==
  [pc : {"idle"} \union Taking \union Settled,
   at : Worker, says : Phrase,
   got : MaybeJob]

TypeOK ==
  /\ job \in [Job -> JobState]
  /\ local \in [Worker -> [Phrase -> MaybeJob]]
  /\ aged \in SUBSET Job
  /\ pending \in [Phrase -> BOOLEAN]
  /\ result \in [Phrase -> MaybeJob]
  /\ call \in [Call -> CallState]

\* The fields of a task or a call that has not started mean nothing.
NoWorker  == CHOOSE w \in Worker : TRUE
NoPhrase  == CHOOSE p \in Phrase : TRUE

Init ==
  /\ job = [j \in Job |-> [pc |-> "unused", at |-> NoWorker,
                            says |-> NoPhrase]]
  /\ local = [w \in Worker |-> [p \in Phrase |-> NoJob]]
  /\ aged = {}
  /\ pending = [p \in Phrase |-> FALSE]
  /\ result = [p \in Phrase |-> NoJob]
  /\ call = [c \in Call |-> [pc |-> "idle", at |-> NoWorker, says |-> NoPhrase,
                              got |-> NoJob]]

\* What cancelling the tasks js, or losing their process, makes of them.
Killed(place) == IF place \in {"classified", "published"} THEN "cut" ELSE "cancelled"

Kill(js) ==
  [j \in Job |-> IF j \in js /\ job[j].pc \in InFlight
                   THEN [job[j] EXCEPT !.pc = Killed(@)] ELSE job[j]]

-----------------------------------------------------------------------------
(* start(): prune, look for an identical entry, mark, spawn.               *)

Stale(w) == {local[w][p] : p \in Phrase} \intersect aged

Pruned(w) ==
  [p \in Phrase |-> IF local[w][p] \in aged THEN NoJob ELSE local[w][p]]

StartDuplicate(w, p) ==
  /\ Pruned(w)[p] # NoJob
  /\ local' = [local EXCEPT ![w] = Pruned(w)]
  /\ job' = Kill(Stale(w))
  /\ UNCHANGED <<aged, pending, result, call>>

Start(j, w, p) ==
  /\ job[j].pc = "unused"
  /\ Pruned(w)[p] = NoJob
  /\ local' = [local EXCEPT ![w] = Pruned(w)]
  /\ job' = [Kill(Stale(w)) EXCEPT
               ![j] = [pc |-> "marking", at |-> w, says |-> p]]
  /\ UNCHANGED <<aged, pending, result, call>>

\* Redis has answered SET pending; the task is created and parked without a
\* further await, over whatever entry another start() parked meanwhile.
Spawn(j) ==
  /\ job[j].pc = "marking"
  /\ \/ pending' = [pending EXCEPT ![job[j].says] = TRUE]
     \/ UNCHANGED pending
  /\ job' = [job EXCEPT ![j].pc = "running"]
  /\ local' = [local EXCEPT ![job[j].at][job[j].says] = j]
  /\ UNCHANGED <<aged, result, call>>

\* _LOCAL timestamps grow old.
Age(j) ==
  /\ j \notin aged
  /\ \E w \in Worker, p \in Phrase : local[w][p] = j
  /\ aged' = aged \union {j}
  /\ UNCHANGED <<job, local, pending, result, call>>

-----------------------------------------------------------------------------
(* _run_and_cache(): classify (never raising), publish, clear the marker.  *)

Classify(j) ==
  /\ job[j].pc = "running"
  /\ job' = [job EXCEPT ![j].pc = "classified"]
  /\ UNCHANGED <<local, aged, pending, result, call>>

Publish(j) ==
  /\ job[j].pc = "classified"
  /\ \/ /\ result' = [result EXCEPT ![job[j].says] = j]
        /\ job' = [job EXCEPT ![j].pc = "published"]
     \/ /\ job' = [job EXCEPT ![j].pc = "done"]
        /\ UNCHANGED result
  /\ UNCHANGED <<local, aged, pending, call>>

Unmark(j) ==
  /\ job[j].pc = "published"
  /\ \/ pending' = [pending EXCEPT ![job[j].says] = FALSE]
     \/ UNCHANGED pending
  /\ job' = [job EXCEPT ![j].pc = "done"]
  /\ UNCHANGED <<local, aged, result, call>>

-----------------------------------------------------------------------------
(* take(): the local task, else the decision in Redis, else cold.          *)

\* Fault: the local entry is looked up, not popped.
Begin_NoPop(c, w, p) ==
  /\ call[c].pc = "idle"
  /\ call' = [call EXCEPT ![c] =
       [pc |-> IF local[w][p] # NoJob THEN "awaiting" ELSE "reading",
        at |-> w, says |-> p, got |-> local[w][p]]]
  /\ UNCHANGED <<job, local, aged, pending, result>>

Begin(c, w, p) ==
  /\ call[c].pc = "idle"
  /\ call' = [call EXCEPT ![c] =
       [pc |-> IF local[w][p] # NoJob THEN "awaiting" ELSE "reading",
        at |-> w, says |-> p, got |-> local[w][p]]]
  /\ local' = [local EXCEPT ![w][p] = NoJob]
  /\ UNCHANGED <<job, aged, pending, result>>

Finish(c) ==
  /\ call[c].pc = "awaiting"
  /\ job[call[c].got].pc = "done"
  /\ call' = [call EXCEPT ![c].pc = "served"]
  /\ \/ /\ result' = [result EXCEPT ![call[c].says] = NoJob]
        /\ pending' = [pending EXCEPT ![call[c].says] = FALSE]
     \/ UNCHANGED <<result, pending>>
  /\ UNCHANGED <<job, local, aged>>

\* The value of GET result at this moment, if there is one.
Hit(c) ==
  /\ result[call[c].says] # NoJob
  /\ call' = [call EXCEPT ![c].pc = "consuming", ![c].got = result[call[c].says]]

Read(c) ==
  /\ call[c].pc = "reading"
  /\ \/ Hit(c)
     \/ /\ result[call[c].says] = NoJob
        /\ call' = [call EXCEPT ![c].pc = "probing"]
  /\ UNCHANGED <<job, local, aged, pending, result>>

Probe(c) ==
  /\ call[c].pc = "probing"
  /\ call' = [call EXCEPT ![c].pc =
                IF pending[call[c].says] THEN "polling" ELSE "cold"]
  /\ UNCHANGED <<job, local, aged, pending, result>>

Poll(c) ==
  /\ call[c].pc = "polling"
  /\ Hit(c)
  /\ UNCHANGED <<job, local, aged, pending, result>>

\* Fault: the wait on the marker has no deadline.
GiveUp_Never(c) == FALSE /\ UNCHANGED vars

\* The _WAIT_S deadline passes.
GiveUp(c) ==
  /\ call[c].pc = "polling"
  /\ call' = [call EXCEPT ![c].pc = "cold"]
  /\ UNCHANGED <<job, local, aged, pending, result>>

\* A Redis command of _take_redis raises: the caller runs cold.
TakeError(c) ==
  /\ call[c].pc \in {"reading", "probing", "polling"}
  /\ call' = [call EXCEPT ![c].pc = "cold"]
  /\ UNCHANGED <<job, local, aged, pending, result>>

Consume(c) ==
  /\ call[c].pc = "consuming"
  /\ call' = [call EXCEPT ![c].pc = "served"]
  /\ \/ result' = [result EXCEPT ![call[c].says] = NoJob]
     \/ UNCHANGED result
  /\ UNCHANGED <<job, local, aged, pending>>

\* The client leaves: the /chat generator is cancelled where it stands, and
\* cancelling a coroutine that awaits a task cancels the task.
Disconnect(c) ==
  /\ call[c].pc \in Taking
  /\ call' = [call EXCEPT ![c].pc = "gone"]
  /\ job' = IF call[c].pc = "awaiting" THEN Kill({call[c].got}) ELSE job
  /\ UNCHANGED <<local, aged, pending, result>>

-----------------------------------------------------------------------------
(* Redis expires its keys; a worker process dies with all it holds.        *)

Expire(p) ==
  /\ \/ /\ pending[p]
        /\ pending' = [pending EXCEPT ![p] = FALSE]
        /\ UNCHANGED result
     \/ /\ result[p] # NoJob
        /\ result' = [result EXCEPT ![p] = NoJob]
        /\ UNCHANGED pending
  /\ UNCHANGED <<job, local, aged, call>>

Crash(w) ==
  /\ job' = [j \in Job |->
       IF job[j].at = w /\ job[j].pc \in InFlight \union {"marking"}
         THEN [job[j] EXCEPT !.pc = Killed(@)] ELSE job[j]]
  /\ local' = [local EXCEPT ![w] = [p \in Phrase |-> NoJob]]
  /\ call' = [c \in Call |->
       IF call[c].at = w /\ call[c].pc \in Taking
         THEN [call[c] EXCEPT !.pc = "gone"] ELSE call[c]]
  /\ UNCHANGED <<aged, pending, result>>

JobStep(j) == Spawn(j) \/ Classify(j) \/ Publish(j) \/ Unmark(j)

TakeStep(c) ==
  Finish(c) \/ Read(c) \/ Probe(c) \/ Poll(c) \/ GiveUp(c) \/ Consume(c)

Next ==
  \/ \E w \in Worker, p \in Phrase : StartDuplicate(w, p)
  \/ \E j \in Job, w \in Worker, p \in Phrase : Start(j, w, p)
  \/ \E j \in Job : JobStep(j) \/ Age(j)
  \/ \E c \in Call, w \in Worker, p \in Phrase : Begin(c, w, p)
  \/ \E c \in Call : TakeStep(c) \/ TakeError(c) \/ Disconnect(c)
  \/ \E p \in Phrase : Expire(p)
  \/ \E w \in Worker : Crash(w)

Spec == Init /\ [][Next]_vars

\* A task that is scheduled runs: the OpenAI client bounds the router call,
\* and a coroutine whose await is over is resumed by the event loop.
Fairness ==
  /\ \A j \in Job : WF_vars(JobStep(j))
  /\ \A c \in Call : WF_vars(TakeStep(c))

FairSpec == Spec /\ Fairness

-----------------------------------------------------------------------------
(* Properties.                                                             *)

\* take() catches Exception, which does not include CancelledError: were the
\* task it awaits cancelled by anyone else (another /chat that disconnects,
\* _prune in a later start), the live turn would die with it.  Popping the
\* entry before awaiting it is what rules this out.
AwaitedNotCancelled ==
  \A c \in Call : call[c].pc = "awaiting" => job[call[c].got].pc \notin Aborted

\* Whatever path a decision took, the task behind it had finished classifying,
\* and had classified the very phrase the turn asks about.
ServedIsClassified ==
  \A c \in Call : call[c].pc \in {"consuming", "served"} =>
    /\ call[c].got \in Job
    /\ job[call[c].got].says = call[c].says
    /\ job[call[c].got].pc \in {"published", "done", "cut"}

\* "Any miss ... falls back to a cold router - graceful, never a stall": each
\* take ends, whatever becomes of the worker that was computing the decision.
NeverStalls ==
  \A c \in Call : call[c].pc \in Taking ~> call[c].pc \in Settled
=============================================================================
