------------------------- MODULE RouterPrewarmProofs -------------------------
(***************************************************************************)
(* RouterPrewarm: type correctness; a live turn is never cancelled through *)
(* the task it awaits; a decision handed out was really made, for the      *)
(* phrase asked.                                                           *)
(* VoiceStream: type correctness; what the browser is sent is what the     *)
(* recogniser said, frame for frame; a clean stop has sent all of it.      *)
(***************************************************************************)
EXTENDS RouterPrewarm, VoiceStream, SequenceTheorems, TLAPS

JobPc  == {"unused", "marking"} \union InFlight \union {"done"} \union Aborted
CallPc == {"idle"} \union Taking \union Settled

LEMMA Defaults == NoWorker \in Worker /\ NoPhrase \in Phrase
  BY PrewarmConstants DEF PrewarmConstants, NoWorker, NoPhrase

LEMMA JobFields ==
  ASSUME TypeOK, NEW j \in Job
  PROVE  /\ job[j].pc \in JobPc /\ job[j].at \in Worker
         /\ job[j].says \in Phrase
         /\ \A place \in JobPc : [job[j] EXCEPT !.pc = place] \in JobState
         /\ \A place \in JobPc : [job EXCEPT ![j].pc = place] \in [Job -> JobState]
  BY DEF TypeOK, JobState, JobPc

LEMMA CallFields ==
  ASSUME TypeOK, NEW c \in Call
  PROVE  /\ call[c].pc \in CallPc /\ call[c].at \in Worker
         /\ call[c].says \in Phrase /\ call[c].got \in MaybeJob
         /\ \A place \in CallPc : [call[c] EXCEPT !.pc = place] \in CallState
         /\ \A place \in CallPc : [call EXCEPT ![c].pc = place] \in [Call -> CallState]
  BY DEF TypeOK, CallState, CallPc

LEMMA KillType == ASSUME TypeOK, NEW js PROVE Kill(js) \in [Job -> JobState]
<1>1. ASSUME NEW j \in Job PROVE Kill(js)[j] \in JobState
  <2>1. Killed(job[j].pc) \in JobPc
    BY DEF Killed, JobPc, Aborted
  <2>. QED BY <2>1, JobFields DEF Kill, TypeOK
<1>. QED BY <1>1 DEF Kill

LEMMA HitType ==
  ASSUME TypeOK, NEW c \in Call, Hit(c) PROVE call' \in [Call -> CallState]
<1> DEFINE r == [call[c] EXCEPT !.pc = "consuming", !.got = result[call[c].says]]
<1>1. result[call[c].says] \in MaybeJob
  BY CallFields DEF TypeOK
<1>2. r \in CallState
  BY <1>1 DEF TypeOK, CallState, Taking
<1>3. call' = [call EXCEPT ![c] = r]
  BY DEF Hit, TypeOK, CallState
<1>. QED BY <1>2, <1>3 DEF TypeOK

\* Every variable keeps its type.
THEOREM TypeCorrect == Spec => []TypeOK
<1>1. Init => TypeOK
  BY Defaults DEF Init, TypeOK, JobState, CallState, MaybeJob
<1>2. TypeOK /\ [Next]_vars => TypeOK'
  <2> SUFFICES ASSUME TypeOK, [Next]_vars PROVE TypeOK'
    OBVIOUS
  <2> USE DEF TypeOK
  <2>b. ASSUME NEW w \in Worker PROVE Pruned(w) \in [Phrase -> MaybeJob]
    BY DEF Pruned, MaybeJob
  <2>1. ASSUME NEW w \in Worker, NEW p \in Phrase, StartDuplicate(w, p) PROVE TypeOK'
    BY <2>1, <2>b, KillType DEF StartDuplicate
  <2>2. ASSUME NEW j \in Job, NEW w \in Worker, NEW p \in Phrase,
               Start(j, w, p)
        PROVE TypeOK'
    <3>1. [pc |-> "marking", at |-> w, says |-> p] \in JobState
      BY DEF JobState
    <3>. QED BY <2>2, <2>b, <3>1, KillType DEF Start
  <2>3. ASSUME NEW j \in Job, Spawn(j) PROVE TypeOK'
    BY <2>3, JobFields DEF Spawn, JobPc, InFlight, MaybeJob
  <2>4. ASSUME NEW j \in Job, Classify(j) PROVE TypeOK'
    BY <2>4, JobFields DEF Classify, JobPc, InFlight
  <2>5. ASSUME NEW j \in Job, Publish(j) PROVE TypeOK'
    <3>0. "published" \in JobPc /\ "done" \in JobPc
      BY DEF JobPc, InFlight
    <3>1. job' \in [Job -> JobState]
      BY <2>5, <3>0, JobFields DEF Publish
    <3>2. result' \in [Phrase -> MaybeJob]
      BY <2>5, JobFields DEF Publish, MaybeJob
    <3>. QED BY <2>5, <3>1, <3>2 DEF Publish
  <2>6. ASSUME NEW j \in Job, Unmark(j) PROVE TypeOK'
    BY <2>6, JobFields DEF Unmark, JobPc
  <2>7. ASSUME NEW j \in Job, Age(j) PROVE TypeOK'
    BY <2>7 DEF Age
  <2>8. ASSUME NEW c \in Call, NEW w \in Worker, NEW p \in Phrase,
               Begin(c, w, p)
        PROVE TypeOK'
    <3>1. ASSUME NEW place \in {"awaiting", "reading"}
          PROVE  [pc |-> place, at |-> w, says |-> p, got |-> local[w][p]] \in CallState
      BY DEF CallState, Taking
    <3>. QED BY <2>8, <3>1 DEF Begin, MaybeJob
  <2>9. ASSUME NEW c \in Call, Finish(c) PROVE TypeOK'
    <3>1. call' \in [Call -> CallState]
      BY <2>9, CallFields DEF Finish, CallPc, Settled
    <3>2. /\ result' \in [Phrase -> MaybeJob]
          /\ pending' \in [Phrase -> BOOLEAN]
      BY <2>9, CallFields DEF Finish, MaybeJob
    <3>. QED BY <2>9, <3>1, <3>2 DEF Finish
  <2>10. ASSUME NEW c \in Call, Read(c) \/ Poll(c) PROVE TypeOK'
    <3>1. "probing" \in CallPc
      BY DEF CallPc, Taking
    <3>2. call' \in [Call -> CallState]
      BY <2>10, <3>1, CallFields, HitType DEF Read, Poll
    <3>. QED BY <2>10, <3>2 DEF Read, Poll
  <2>11. ASSUME NEW c \in Call, Probe(c) \/ GiveUp(c) \/ TakeError(c) PROVE TypeOK'
    <3>1. {"polling", "cold"} \subseteq CallPc
      BY DEF CallPc, Taking, Settled
    <3>2. \E place \in {"polling", "cold"} : call' = [call EXCEPT ![c].pc = place]
      BY <2>11 DEF Probe, GiveUp, TakeError
    <3>3. call' \in [Call -> CallState]
      BY <3>1, <3>2, CallFields
    <3>. QED BY <2>11, <3>3 DEF Probe, GiveUp, TakeError
  <2>12. ASSUME NEW c \in Call, Consume(c) PROVE TypeOK'
    <3>1. call' \in [Call -> CallState]
      BY <2>12, CallFields DEF Consume, CallPc, Settled
    <3>2. result' \in [Phrase -> MaybeJob]
      BY <2>12, CallFields DEF Consume, MaybeJob
    <3>. QED BY <2>12, <3>1, <3>2 DEF Consume
  <2>13. ASSUME NEW c \in Call, Disconnect(c) PROVE TypeOK'
    BY <2>13, CallFields, KillType DEF Disconnect, CallPc, Settled
  <2>14. ASSUME NEW p \in Phrase, Expire(p) PROVE TypeOK'
    BY <2>14 DEF Expire, MaybeJob
  <2>15. ASSUME NEW w \in Worker, Crash(w) PROVE TypeOK'
    <3>1. job' \in [Job -> JobState]
      BY <2>15, JobFields DEF Crash, Killed, JobPc, Aborted
    <3>2. call' \in [Call -> CallState]
      BY <2>15, CallFields DEF Crash, CallPc, Settled
    <3>. QED BY <2>15, <3>1, <3>2 DEF Crash, MaybeJob
  <2>16. CASE UNCHANGED vars
    BY <2>16 DEF vars
  <2>. QED
    BY <2>1, <2>2, <2>3, <2>4, <2>5, <2>6, <2>7, <2>8, <2>9, <2>10, <2>11, <2>12,
       <2>13, <2>14, <2>15, <2>16
    DEF Next, JobStep, TakeStep
<1>. QED BY <1>1, <1>2, PTL DEF Spec

-----------------------------------------------------------------------------
(* The inductive invariant.  A parked task is alive or done, sits in the   *)
(* slot of its own worker and phrase, and is awaited by nobody; an awaited *)
(* task is alive or done, and awaited by one call of its own worker.       *)

Parked(j) == \E w \in Worker, p \in Phrase : local[w][p] = j

ParkedInv ==
  \A w \in Worker, p \in Phrase : local[w][p] # NoJob =>
    LET j == local[w][p] IN
      /\ job[j].pc \in InFlight \union {"done"}
      /\ job[j].at = w /\ job[j].says = p

AwaitInv ==
  \A c \in Call : call[c].pc = "awaiting" =>
    LET j == call[c].got IN
      /\ j \in Job
      /\ job[j].pc \in InFlight \union {"done"}
      /\ job[j].at = call[c].at /\ job[j].says = call[c].says
      /\ \A w \in Worker, p \in Phrase : local[w][p] # j
      /\ \A d \in Call : call[d].pc = "awaiting" /\ call[d].got = j => d = c

\* What is in Redis was classified, for the phrase it is stored under.
Classified == {"published", "done", "cut"}

ResultInv ==
  \A p \in Phrase : result[p] # NoJob =>
    job[result[p]].says = p /\ job[result[p]].pc \in Classified

HandOffInv == ParkedInv /\ AwaitInv /\ ResultInv /\ ServedIsClassified

\* The inductive invariant implies the two properties.
LEMMA HandOffImplies == HandOffInv => AwaitedNotCancelled /\ ServedIsClassified
  BY DEF HandOffInv, AwaitInv, AwaitedNotCancelled, InFlight, Aborted

\* Killing tasks loses neither what they stand for nor that they classified.
LEMMA KillKeeps ==
  ASSUME TypeOK, NEW js, NEW j \in Job
  PROVE  /\ Kill(js)[j].at = job[j].at /\ Kill(js)[j].says = job[j].says
         /\ job[j].pc \in Classified => Kill(js)[j].pc \in Classified
         /\ j \notin js => Kill(js)[j] = job[j]
  BY DEF Kill, Killed, InFlight, Classified, TypeOK, JobState

\* No task goes back to an unclassified state or changes what it stands for.
JobKeeps(j) ==
  /\ job'[j].at = job[j].at /\ job'[j].says = job[j].says
  /\ job[j].pc \in Classified => job'[j].pc \in Classified

JobsKeep == \A j \in Job : job[j].pc \in Classified => JobKeeps(j)

LEMMA ResultKept ==
  ASSUME TypeOK, TypeOK', HandOffInv, JobsKeep,
         \A p \in Phrase : result'[p] \in {NoJob, result[p]}
  PROVE  ResultInv'
  BY DEF HandOffInv, ResultInv, JobsKeep, JobKeeps, TypeOK, MaybeJob

LEMMA ServedKept ==
  ASSUME TypeOK, TypeOK', HandOffInv, JobsKeep,
         \A c \in Call : call'[c].pc \in {"consuming", "served"} =>
           /\ call[c].pc \in {"consuming", "served"}
           /\ call'[c].got = call[c].got /\ call'[c].says = call[c].says
  PROVE  ServedIsClassified'
  BY DEF HandOffInv, ServedIsClassified, JobsKeep, JobKeeps, Classified, TypeOK, MaybeJob

\* start() prunes only what is parked in its own worker: what stays parked
\* and what is awaited is not touched.
LEMMA PruneKeeps ==
  ASSUME TypeOK, HandOffInv, NEW w \in Worker,
         local' = [local EXCEPT ![w] = Pruned(w)]
  PROVE  /\ \A v \in Worker, p \in Phrase : local'[v][p] # NoJob =>
              /\ local'[v][p] = local[v][p]
              /\ Kill(Stale(w))[local[v][p]] = job[local[v][p]]
         /\ \A c \in Call : call[c].pc = "awaiting" =>
              /\ \A v \in Worker, p \in Phrase : local'[v][p] # call[c].got
              /\ Kill(Stale(w))[call[c].got] = job[call[c].got]
<1>1. ASSUME NEW j \in Stale(w) PROVE j \in Job /\ job[j].at = w
  BY <1>1, PrewarmConstants DEF Stale, PrewarmConstants, HandOffInv, ParkedInv, TypeOK, MaybeJob
<1>2. ASSUME NEW v \in Worker, NEW p \in Phrase, local'[v][p] # NoJob
      PROVE  local'[v][p] = local[v][p] /\ local[v][p] \notin Stale(w)
  <2>1. local'[v][p] = local[v][p] /\ (v = w => local[v][p] \notin aged)
    BY <1>2 DEF Pruned, TypeOK
  <2>2. v # w => local[v][p] \notin Stale(w)
    BY <1>1, <1>2, <2>1 DEF HandOffInv, ParkedInv
  <2>. QED BY <2>1, <2>2 DEF Stale
<1>3. ASSUME NEW c \in Call, call[c].pc = "awaiting"
      PROVE  /\ call[c].got \in Job /\ call[c].got \notin Stale(w)
             /\ \A v \in Worker, p \in Phrase : local'[v][p] # call[c].got
  BY <1>2, <1>3, PrewarmConstants DEF PrewarmConstants, HandOffInv, AwaitInv, Stale
<1>4. \A v \in Worker, p \in Phrase : local'[v][p] # NoJob => local[v][p] \in Job
  BY <1>2 DEF TypeOK, MaybeJob
<1>. QED BY <1>2, <1>3, <1>4, KillKeeps

\* A task step: it only progresses, and stays where it is parked.
LEMMA TaskStep ==
  ASSUME TypeOK, TypeOK', HandOffInv, NEW j \in Job,
         Classify(j) \/ Publish(j) \/ Unmark(j)
  PROVE  HandOffInv'
<1>1. /\ \A k \in Job : k # j => job'[k] = job[k]
      /\ job[j].pc \in InFlight /\ job'[j].pc \in InFlight \union {"done"}
      /\ job'[j].at = job[j].at /\ job'[j].says = job[j].says
      /\ job[j].pc \in Classified => job'[j].pc \in Classified
      /\ UNCHANGED <<local, call>>
  BY DEF Classify, Publish, Unmark, InFlight, Classified, TypeOK, JobState
<1>2. JobsKeep
  BY <1>1 DEF JobsKeep, JobKeeps
<1>3. ParkedInv'
  BY <1>1 DEF HandOffInv, ParkedInv, TypeOK, MaybeJob
<1>4. AwaitInv'
  BY <1>1 DEF HandOffInv, AwaitInv
<1>5. ServedIsClassified'
  BY <1>1, <1>2, ServedKept
<1>6. CASE Classify(j) \/ Unmark(j)
  <2>1. ResultInv'
    BY <1>6, <1>2, ResultKept DEF Classify, Unmark
  <2>. QED BY <1>3, <1>4, <1>5, <2>1 DEF HandOffInv
<1>7. CASE Publish(j)
  <2>1. \/ result' = result
        \/ result' = [result EXCEPT ![job[j].says] = j] /\ job'[j].pc = "published"
    BY <1>7 DEF Publish, TypeOK, JobState
  <2>2. ResultInv'
    BY <1>1, <1>2, <2>1 DEF HandOffInv, ResultInv, JobsKeep, JobKeeps, Classified, TypeOK, MaybeJob
  <2>. QED BY <1>3, <1>4, <1>5, <2>2 DEF HandOffInv
<1>. QED BY <1>6, <1>7

\* A step of a take that is under way, or a command on Redis: no task changes.
LEMMA TakingStep ==
  ASSUME TypeOK, TypeOK', HandOffInv, NEW c \in Call,
         TakeStep(c) \/ TakeError(c)
  PROVE  HandOffInv'
<1>1. /\ UNCHANGED <<job, local>>
      /\ \A d \in Call : d # c => call'[d] = call[d]
      /\ call'[c].pc # "awaiting" /\ call'[c].says = call[c].says
      /\ \A p \in Phrase : result'[p] \in {NoJob, result[p]}
  BY DEF TakeStep, TakeError, Finish, Read, Probe, Poll, GiveUp, Consume, Hit, TypeOK,
         CallState
<1>2. JobsKeep
  BY <1>1 DEF JobsKeep, JobKeeps
<1>3. ParkedInv' /\ AwaitInv'
  BY <1>1 DEF HandOffInv, ParkedInv, AwaitInv
<1>4. ResultInv'
  BY <1>1, <1>2, ResultKept
<1>5. call'[c].pc \in {"consuming", "served"} =>
        /\ call'[c].got \in Job
        /\ job[call'[c].got].says = call[c].says
        /\ job[call'[c].got].pc \in Classified
  <2>1. CASE Hit(c)
    <3>1. result[call[c].says] \in Job /\ call'[c].got = result[call[c].says]
      BY <2>1, CallFields DEF Hit, TypeOK, MaybeJob, CallState
    <3>. QED BY <2>1, <3>1, CallFields DEF Hit, HandOffInv, ResultInv
  <2>2. CASE Finish(c)
    BY <2>2 DEF Finish, HandOffInv, AwaitInv, Classified, TypeOK, CallState
  <2>3. CASE Consume(c)
    BY <2>3 DEF Consume, HandOffInv, ServedIsClassified, Classified, TypeOK, CallState
  <2>4. CASE call'[c].pc \notin {"consuming", "served"}
    BY <2>4
  <2>. QED
    BY <2>1, <2>2, <2>3, <2>4
    DEF TakeStep, TakeError, Read, Probe, Poll, GiveUp, TypeOK, CallState
<1>6. ServedIsClassified'
  BY <1>1, <1>5 DEF HandOffInv, ServedIsClassified, Classified
<1>. QED BY <1>3, <1>4, <1>6 DEF HandOffInv

\* The remaining steps that leave every task alone.
LEMMA QuietStep ==
  ASSUME TypeOK, TypeOK', HandOffInv,
         UNCHANGED <<job, local, call>>,
         \A p \in Phrase : result'[p] \in {NoJob, result[p]}
  PROVE  HandOffInv'
<1>1. JobsKeep
  BY DEF JobsKeep, JobKeeps
<1>2. ResultInv'
  BY <1>1, ResultKept
<1>. QED
  BY <1>2 DEF HandOffInv, ParkedInv, AwaitInv, ServedIsClassified

\* take() pops the parked task it is about to await.
LEMMA BeginStep ==
  ASSUME TypeOK, TypeOK', HandOffInv, NEW c \in Call, NEW w \in Worker,
         NEW p \in Phrase, Begin(c, w, p)
  PROVE  HandOffInv'
<1>1. /\ UNCHANGED <<job, result>>
      /\ \A d \in Call : d # c => call'[d] = call[d]
      /\ call'[c].got = local[w][p] /\ call'[c].at = w /\ call'[c].says = p
      /\ call'[c].pc = IF local[w][p] # NoJob THEN "awaiting" ELSE "reading"
      /\ \A v \in Worker, q \in Phrase :
           local'[v][q] = IF v = w /\ q = p THEN NoJob ELSE local[v][q]
  BY DEF Begin, TypeOK
<1>2. ParkedInv'
  BY <1>1 DEF HandOffInv, ParkedInv
<1>3. AwaitInv'
  <2> SUFFICES ASSUME NEW d \in Call, call'[d].pc = "awaiting"
               PROVE  LET j == call'[d].got IN
                        /\ j \in Job
                        /\ job[j].pc \in InFlight \union {"done"}
                        /\ job[j].at = call'[d].at /\ job[j].says = call'[d].says
                        /\ \A v \in Worker, q \in Phrase : local'[v][q] # j
                        /\ \A e \in Call :
                             call'[e].pc = "awaiting" /\ call'[e].got = j => e = d
    BY <1>1 DEF AwaitInv
  <2>1. CASE d # c
    BY <2>1, <1>1, PrewarmConstants DEF PrewarmConstants, HandOffInv, AwaitInv
  <2>2. CASE d = c
    BY <2>2, <1>1, PrewarmConstants
    DEF PrewarmConstants, HandOffInv, AwaitInv, ParkedInv, TypeOK, MaybeJob
  <2>. QED BY <2>1, <2>2
<1>4. JobsKeep
  BY <1>1 DEF JobsKeep, JobKeeps
<1>5. ResultInv' /\ ServedIsClassified'
  BY <1>1, <1>4, ResultKept, ServedKept
<1>. QED BY <1>2, <1>3, <1>5 DEF HandOffInv

\* start(), which prunes its worker's entries, finds an identical one or not.
LEMMA StartStep ==
  ASSUME TypeOK, TypeOK', HandOffInv, NEW w \in Worker, NEW p \in Phrase,
         \/ StartDuplicate(w, p)
         \/ \E j \in Job : Start(j, w, p)
  PROVE  HandOffInv'
<1>1. /\ local' = [local EXCEPT ![w] = Pruned(w)]
      /\ UNCHANGED <<result, call>>
      /\ \A j \in Job : \/ job'[j] = Kill(Stale(w))[j]
                        \/ job[j].pc = "unused"
  BY KillType DEF StartDuplicate, Start
<1>2. JobsKeep
  BY <1>1, KillKeeps DEF JobsKeep, JobKeeps, Classified
<1>3. ParkedInv'
  <2>1. ASSUME NEW v \in Worker, NEW q \in Phrase, local'[v][q] # NoJob
        PROVE  /\ local'[v][q] = local[v][q] /\ local[v][q] \in Job
               /\ job'[local[v][q]] = job[local[v][q]]
    <3>1. /\ local'[v][q] = local[v][q]
          /\ Kill(Stale(w))[local[v][q]] = job[local[v][q]]
      BY <1>1, <2>1, PruneKeeps
    <3>2. local[v][q] \in Job
      BY <2>1, <3>1 DEF TypeOK, MaybeJob
    <3>3. job[local[v][q]].pc # "unused"
      BY <2>1, <3>1 DEF HandOffInv, ParkedInv, InFlight
    <3>. QED BY <1>1, <3>1, <3>2, <3>3
  <2>. QED BY <2>1 DEF HandOffInv, ParkedInv
<1>4. AwaitInv'
  <2>1. ASSUME NEW c \in Call, call[c].pc = "awaiting"
        PROVE  /\ job'[call[c].got] = job[call[c].got]
               /\ \A v \in Worker, q \in Phrase : local'[v][q] # call[c].got
    <3>1. /\ \A v \in Worker, q \in Phrase : local'[v][q] # call[c].got
          /\ Kill(Stale(w))[call[c].got] = job[call[c].got]
      BY <1>1, <2>1, PruneKeeps
    <3>2. call[c].got \in Job /\ job[call[c].got].pc # "unused"
      BY <2>1 DEF HandOffInv, AwaitInv, InFlight
    <3>. QED BY <1>1, <3>1, <3>2
  <2>. QED BY <1>1, <2>1 DEF HandOffInv, AwaitInv
<1>5. ResultInv' /\ ServedIsClassified'
  BY <1>1, <1>2, ResultKept, ServedKept
<1>. QED BY <1>3, <1>4, <1>5 DEF HandOffInv

\* The created task is parked; it may push another task out of the slot.
LEMMA SpawnStep ==
  ASSUME TypeOK, TypeOK', HandOffInv, NEW j \in Job, Spawn(j)
  PROVE  HandOffInv'
<1>1. /\ \A k \in Job : k # j => job'[k] = job[k]
      /\ job[j].pc = "marking" /\ job'[j].pc = "running"
      /\ job'[j].at = job[j].at /\ job'[j].says = job[j].says
      /\ UNCHANGED <<result, call>>
      /\ \A v \in Worker, q \in Phrase :
           local'[v][q] = IF v = job[j].at /\ q = job[j].says THEN j ELSE local[v][q]
  BY DEF Spawn, TypeOK, JobState
<1>2. ParkedInv'
  BY <1>1 DEF HandOffInv, ParkedInv, TypeOK, MaybeJob, InFlight
<1>3. AwaitInv'
  BY <1>1 DEF HandOffInv, AwaitInv, InFlight
<1>4. JobsKeep
  BY <1>1 DEF JobsKeep, JobKeeps, Classified
<1>5. ResultInv' /\ ServedIsClassified'
  BY <1>1, <1>4, ResultKept, ServedKept
<1>. QED BY <1>2, <1>3, <1>5 DEF HandOffInv

\* A turn that leaves cancels the task it alone awaits.
LEMMA DisconnectStep ==
  ASSUME TypeOK, TypeOK', HandOffInv, NEW c \in Call, Disconnect(c)
  PROVE  HandOffInv'
<1>1. /\ UNCHANGED <<local, result>>
      /\ \A d \in Call : d # c => call'[d] = call[d]
      /\ call'[c].pc = "gone"
  BY DEF Disconnect, TypeOK, CallState
<1>2. ASSUME NEW j \in Job
      PROVE  /\ JobKeeps(j)
             /\ \/ job'[j] = job[j]
                \/ call[c].pc = "awaiting" /\ call[c].got = j
  <2>1. CASE call[c].pc = "awaiting"
    <3>1. job'[j] = Kill({call[c].got})[j]
      BY <2>1 DEF Disconnect
    <3>2. j \notin {call[c].got} => call[c].got # j
      OBVIOUS
    <3>. QED BY <2>1, <3>1, <3>2, KillKeeps DEF JobKeeps
  <2>2. CASE call[c].pc # "awaiting"
    BY <2>2 DEF Disconnect, JobKeeps
  <2>. QED BY <2>1, <2>2
<1>3. ParkedInv'
  BY <1>1, <1>2 DEF HandOffInv, ParkedInv, AwaitInv, TypeOK, MaybeJob
<1>4. AwaitInv'
  <2> SUFFICES ASSUME NEW d \in Call, call[d].pc = "awaiting", d # c
               PROVE  job'[call[d].got] = job[call[d].got]
    BY <1>1 DEF HandOffInv, AwaitInv
  <2>. QED BY <1>2 DEF HandOffInv, AwaitInv
<1>5. ResultInv' /\ ServedIsClassified'
  BY <1>1, <1>2, ResultKept, ServedKept DEF JobsKeep
<1>. QED BY <1>3, <1>4, <1>5 DEF HandOffInv

\* A crash takes the tasks of a worker with the turns that awaited them.
LEMMA CrashStep ==
  ASSUME TypeOK, TypeOK', HandOffInv, NEW w \in Worker, Crash(w)
  PROVE  HandOffInv'
<1>1. /\ UNCHANGED result
      /\ \A v \in Worker, p \in Phrase :
           local'[v][p] = IF v = w THEN NoJob ELSE local[v][p]
      /\ \A d \in Call : \/ call'[d] = call[d] /\ ~(call[d].at = w /\ call[d].pc \in Taking)
                        \/ call'[d].pc = "gone"
      /\ \A j \in Job : /\ job'[j].at = job[j].at /\ job'[j].says = job[j].says
                        /\ job[j].at # w => job'[j] = job[j]
                        /\ job[j].pc \in Classified => job'[j].pc \in Classified
  BY DEF Crash, TypeOK, CallState, JobState, Killed, InFlight, Classified
<1>2. JobsKeep
  BY <1>1 DEF JobsKeep, JobKeeps
<1>3. ParkedInv'
  BY <1>1 DEF HandOffInv, ParkedInv, TypeOK, MaybeJob
<1>4. AwaitInv'
  <2>1. ASSUME NEW d \in Call, call'[d].pc = "awaiting"
        PROVE  /\ call'[d] = call[d] /\ call[d].got \in Job
               /\ job'[call[d].got] = job[call[d].got]
    <3>1. call'[d] = call[d] /\ call[d].at # w
      BY <1>1, <2>1 DEF Taking
    <3>. QED BY <1>1, <2>1, <3>1 DEF HandOffInv, AwaitInv
  <2>2. \A v \in Worker, p \in Phrase, j \in Job : local'[v][p] = j => local[v][p] = j
    BY <1>1, PrewarmConstants DEF PrewarmConstants
  <2>. QED BY <2>1, <2>2 DEF HandOffInv, AwaitInv
<1>5. ResultInv' /\ ServedIsClassified'
  BY <1>1, <1>2, ResultKept, ServedKept
<1>. QED BY <1>3, <1>4, <1>5 DEF HandOffInv

\* The hand-off is sound in every reachable state: no live turn awaits a task
\* that was cancelled under it, and what a turn is served was classified.
THEOREM HandOffSound == Spec => [](AwaitedNotCancelled /\ ServedIsClassified)
<1>1. Init => HandOffInv
  BY DEF Init, HandOffInv, ParkedInv, AwaitInv, ResultInv, ServedIsClassified
<1>2. TypeOK /\ TypeOK' /\ HandOffInv /\ [Next]_vars => HandOffInv'
  <2> SUFFICES ASSUME TypeOK, TypeOK', HandOffInv, [Next]_vars PROVE HandOffInv'
    OBVIOUS
  <2>1. ASSUME NEW w \in Worker, NEW p \in Phrase,
               \/ StartDuplicate(w, p)
               \/ \E j \in Job : Start(j, w, p)
        PROVE  HandOffInv'
    BY <2>1, StartStep
  <2>2. ASSUME NEW j \in Job, JobStep(j) PROVE HandOffInv'
    BY <2>2, SpawnStep, TaskStep DEF JobStep
  <2>3. ASSUME NEW j \in Job, Age(j) PROVE HandOffInv'
    BY <2>3, QuietStep DEF Age
  <2>4. ASSUME NEW c \in Call, NEW w \in Worker, NEW p \in Phrase,
               Begin(c, w, p)
        PROVE  HandOffInv'
    BY <2>4, BeginStep
  <2>5. ASSUME NEW c \in Call, TakeStep(c) \/ TakeError(c) PROVE HandOffInv'
    BY <2>5, TakingStep
  <2>6. ASSUME NEW c \in Call, Disconnect(c) PROVE HandOffInv'
    BY <2>6, DisconnectStep
  <2>7. ASSUME NEW p \in Phrase, Expire(p) PROVE HandOffInv'
    <3>1. \A q \in Phrase : result'[q] \in {NoJob, result[q]}
      BY <2>7 DEF Expire, TypeOK
    <3>. QED BY <2>7, <3>1, QuietStep DEF Expire
  <2>8. ASSUME NEW w \in Worker, Crash(w) PROVE HandOffInv'
    BY <2>8, CrashStep
  <2>9. CASE UNCHANGED vars
    BY <2>9, QuietStep DEF vars
  <2>. QED BY <2>1, <2>2, <2>3, <2>4, <2>5, <2>6, <2>7, <2>8, <2>9 DEF Next
<1>. QED BY <1>1, <1>2, TypeCorrect, HandOffImplies, PTL DEF Spec

-----------------------------------------------------------------------------
(* VoiceStream: types.                                                     *)

\* StreamTypeOK in three parts: where everything stands, what is on its way, and the flags.
StandsOK ==
  /\ browser \in {"open", "stopped", "gone"}
  /\ turn \in [Turns -> {"todo", "open", "done"}]
  /\ up \in {"none", "open", "ended", "broken", "closed"}
  /\ adapter \in Adapter
  /\ pc \in {"accept", "connect", "ready", "receive", "flush", "exit", "tell", "close", "over"}
  /\ why \in {"", "late", "left", "error"}
  /\ down \in {"none", "reading", "done", "failed", "left", "cancelled"}
  /\ buffer \in SUBSET Turns

SentOK ==
  /\ inbox \in Seq({"audio", "stop", "disconnect"})
  /\ pipe \in Seq(Event)
  /\ frames \in Seq(Frame) /\ meant \in Seq(Frame)

FlagsOK == guess \in BOOLEAN /\ asked \in BOOLEAN /\ app \in BOOLEAN /\ mixed \in BOOLEAN

LEMMA StreamParts == StreamTypeOK <=> StandsOK /\ SentOK /\ FlagsOK
<1>1. {guess, asked, app, mixed} \subseteq BOOLEAN <=> FlagsOK
  BY DEF FlagsOK
<1>. QED BY <1>1 DEF StreamTypeOK, StandsOK, SentOK

LEMMA StreamParts1 == StreamTypeOK' <=> StandsOK' /\ SentOK' /\ FlagsOK'
<1>1. ({guess, asked, app, mixed} \subseteq BOOLEAN)' <=> FlagsOK'
  BY DEF FlagsOK
<1>. QED BY <1>1 DEF StreamTypeOK, StandsOK, SentOK

LEMMA FrameTyped ==
  ASSUME StreamTypeOK, NEW e \in Event
  PROVE  FrameOf(e) \in Frame /\ Text(e) \in SUBSET Turns /\ Buffered(e) \in SUBSET Turns
<1>1. Text(e) \in SUBSET Turns
  BY DEF StreamTypeOK, Event, Text
<1>2. Buffered(e) \in SUBSET Turns
  BY <1>1 DEF StreamTypeOK, Buffered
<1>. QED BY <1>1, <1>2 DEF FrameOf, Frame, Event, EventKind

\* What an event of the provider adds to the pipe and to what is meant.
Emitted(e, stands, f) ==
  /\ e \in Event /\ f \in Frame
  /\ up = "open" /\ pipe' = Append(pipe, e)
  /\ meant' = IF stands THEN Append(meant, f) ELSE meant

LEMMA FluxIs ==
  ASSUME StreamTypeOK, NEW t \in Turns, FluxEvent(t)
  PROVE  /\ adapter = "flux" /\ mixed' = mixed /\ guess' \in BOOLEAN
         /\ turn' \in [Turns -> {"todo", "open", "done"}]
         /\ UNCHANGED <<browserVars, up, asked, adapter, pc, why, app, down, buffer, frames>>
         /\ \E kind \in {"update", "eager", "resumed", "end"}, words \in BOOLEAN :
              Emitted([kind |-> kind, turn |-> t, words |-> words], words \/ kind = "resumed",
                      [type |-> IF kind \in {"eager", "resumed"} THEN kind
                                ELSE IF kind = "end" THEN "final" ELSE "partial",
                       text |-> {u \in {t} : words}])
<1>1. PICK kind \in {"update", "eager", "resumed", "end"}, words \in BOOLEAN :
        LET type == [update |-> "partial", eager |-> "eager", resumed |-> "resumed",
                     end |-> "final"][kind]
        IN
        /\ adapter = "flux"
        /\ turn' = [turn EXCEPT ![t] = IF kind = "end" THEN "done" ELSE "open"]
        /\ guess' = (kind = "eager")
        /\ Emit([kind |-> kind, turn |-> t, words |-> words], words \/ kind = "resumed",
                type, {u \in {t} : words})
        /\ UNCHANGED mixed
  BY DEF FluxEvent
<1> DEFINE type == [update |-> "partial", eager |-> "eager", resumed |-> "resumed",
                    end |-> "final"][kind]
           said == IF kind \in {"eager", "resumed"} THEN kind
                   ELSE IF kind = "end" THEN "final" ELSE "partial"
           e == [kind |-> kind, turn |-> t, words |-> words]
           text == {u \in {t} : words}
<1>2. type = said
  BY <1>1
<1>3. e \in Event
  BY <1>1 DEF Event, EventKind
<1>4. said \in {"partial", "eager", "resumed", "final"} /\ text \in SUBSET Turns
  BY <1>1
<1>. HIDE DEF type, said, text
<1>5. [type |-> said, text |-> text] \in Frame
  BY <1>4 DEF Frame
<1>6. Emit(e, words \/ kind = "resumed", said, text)
  BY <1>1, <1>2 DEF type, text
<1>. HIDE DEF e
<1>7. /\ Emitted(e, words \/ kind = "resumed", [type |-> said, text |-> text])
      /\ UNCHANGED <<browserVars, up, asked, adapter, pc, why, app, down, buffer, frames>>
  BY <1>3, <1>5, <1>6 DEF Emit, Emitted
<1>8. turn' \in [Turns -> {"todo", "open", "done"}] /\ guess' \in BOOLEAN
  BY <1>1 DEF StreamTypeOK
<1>. QED BY <1>1, <1>7, <1>8 DEF e, said, text

LEMMA OpenAIIs ==
  ASSUME StreamTypeOK, NEW t \in Turns, OpenAIEvent(t)
  PROVE  /\ adapter = "openai" /\ guess' = guess /\ mixed' \in BOOLEAN
         /\ turn' \in [Turns -> {"todo", "open", "done"}]
         /\ mixed' = (mixed \/ \E u \in Turns \ {t} : turn[u] = "open")
         /\ UNCHANGED <<browserVars, up, asked, adapter, pc, why, app, down, buffer, frames>>
         /\ \E kind \in {"delta", "completed"}, words \in BOOLEAN :
              /\ kind = "delta" => words
              /\ turn' = [turn EXCEPT ![t] = IF kind = "delta" THEN "open" ELSE "done"]
              /\ Emitted([kind |-> kind, turn |-> t, words |-> words],
                         words \/ turn[t] = "open",
                         [type |-> IF kind = "delta" THEN "partial" ELSE "final",
                          text |-> {t}])
<1>1. PICK kind \in {"delta", "completed"}, words \in BOOLEAN :
        /\ adapter = "openai"
        /\ kind = "delta" => words
        /\ turn' = [turn EXCEPT ![t] = IF kind = "delta" THEN "open" ELSE "done"]
        /\ mixed' = (mixed \/ \E u \in Turns \ {t} : turn[u] = "open")
        /\ Emit([kind |-> kind, turn |-> t, words |-> words], words \/ turn[t] = "open",
                IF kind = "delta" THEN "partial" ELSE "final", {t})
        /\ UNCHANGED guess
  BY DEF OpenAIEvent
<1> DEFINE said == IF kind = "delta" THEN "partial" ELSE "final"
           e == [kind |-> kind, turn |-> t, words |-> words]
<1>3. e \in Event
  BY <1>1 DEF Event, EventKind
<1>4. said \in {"partial", "final"} /\ {t} \in SUBSET Turns
  OBVIOUS
<1>. HIDE DEF said
<1>5. [type |-> said, text |-> {t}] \in Frame
  BY <1>4 DEF Frame
<1>6. Emit(e, words \/ turn[t] = "open", said, {t})
  BY <1>1 DEF said
<1>. HIDE DEF e
<1>7. /\ Emitted(e, words \/ turn[t] = "open", [type |-> said, text |-> {t}])
      /\ UNCHANGED <<browserVars, up, asked, adapter, pc, why, app, down, buffer, frames>>
  BY <1>3, <1>5, <1>6 DEF Emit, Emitted
<1>8. turn' \in [Turns -> {"todo", "open", "done"}] /\ mixed' \in BOOLEAN
  <2>1. turn' \in [Turns -> {"todo", "open", "done"}]
    BY <1>1 DEF StreamTypeOK
  <2>2. mixed' \in BOOLEAN
    BY <1>1
  <2>. QED BY <2>1, <2>2
<1>9. \E k \in {"delta", "completed"}, w \in BOOLEAN :
        /\ k = "delta" => w
        /\ turn' = [turn EXCEPT ![t] = IF k = "delta" THEN "open" ELSE "done"]
        /\ Emitted([kind |-> k, turn |-> t, words |-> w], w \/ turn[t] = "open",
                   [type |-> IF k = "delta" THEN "partial" ELSE "final", text |-> {t}])
  <2>1. Emitted([kind |-> kind, turn |-> t, words |-> words], words \/ turn[t] = "open",
                [type |-> IF kind = "delta" THEN "partial" ELSE "final", text |-> {t}])
    BY <1>7 DEF e, said
  <2>2. kind = "delta" => words
    BY <1>1, Zenon
  <2>3. turn' = [turn EXCEPT ![t] = IF kind = "delta" THEN "open" ELSE "done"]
    BY <1>1
  <2>. QED BY <2>1, <2>2, <2>3
<1>10. adapter = "openai" /\ guess' = guess
  <2>1. adapter = "openai"
    BY <1>1, Zenon
  <2>2. guess' = guess
    BY <1>1, Zenon
  <2>. QED BY <2>1, <2>2, Zenon
<1>11. mixed' = (mixed \/ \E u \in Turns \ {t} : turn[u] = "open")
  BY <1>1, Zenon
<1>. QED BY <1>7, <1>8, <1>9, <1>10, <1>11

LEMMA EmittedTyped ==
  ASSUME SentOK, NEW e, NEW stands, NEW f, Emitted(e, stands, f)
  PROVE  pipe' \in Seq(Event) /\ meant' \in Seq(Frame)
<1>1. pipe' = Append(pipe, e) /\ e \in Event /\ pipe \in Seq(Event)
  BY DEF SentOK, Emitted
<1>2. (meant' = Append(meant, f) \/ meant' = meant) /\ f \in Frame /\ meant \in Seq(Frame)
  BY DEF SentOK, Emitted
<1>. QED BY <1>1, <1>2, AppendProperties

\* The endpoint's steps leave alone what is spoken and what is sent.
LEMMA EndpointLeaves ==
  ASSUME EndpointStep
  PROVE  UNCHANGED <<browser, turn, guess, pipe, adapter, buffer, frames, meant, mixed>>
  BY DEF EndpointStep, Accept, Connect, Ready, ForwardAudio, HandleStop, HandleDisconnect, AwaitDown,
     ExitSession, Tell, CloseSocket, Endpoint

LEMMA FlagsStep ==
  ASSUME StreamTypeOK, [StreamNext]_streamVars
  PROVE  FlagsOK'
<1> USE DEF browserVars, providerVars
<1>0. FlagsOK
  BY StreamParts
<1>1. CASE UNCHANGED <<guess, asked, app, mixed>>
  BY <1>0, <1>1, Zenon DEF FlagsOK
<1>2. CASE SendAudio \/ SendStop \/ Leave \/ EndOfEvents \/ UNCHANGED streamVars
  <2>1. UNCHANGED <<guess, asked, app, mixed>>
    BY <1>2 DEF SendAudio, SendStop, Leave, BrowserSends, EndOfEvents, streamVars
  <2>. QED BY <1>1, <2>1, Zenon
<1>3. ASSUME NEW how \in {"ended", "broken"}, EndStream(how) PROVE FlagsOK'
  <2>1. UNCHANGED <<guess, asked, app, mixed>>
    BY <1>3 DEF EndStream
  <2>. QED BY <1>1, <2>1, Zenon
<1>4. ASSUME NEW t \in Turns, FluxEvent(t) PROVE FlagsOK'
  <2>1. mixed' = mixed /\ guess' \in BOOLEAN /\ asked' = asked /\ app' = app
    BY <1>4, FluxIs, Zenon
  <2>. QED BY <1>0, <2>1, Zenon DEF FlagsOK
<1>5. ASSUME NEW t \in Turns, OpenAIEvent(t) PROVE FlagsOK'
  <2>1. mixed' \in BOOLEAN /\ guess' = guess /\ asked' = asked /\ app' = app
    BY <1>5, OpenAIIs, Zenon
  <2>. QED BY <1>0, <2>1, Zenon DEF FlagsOK
<1>6. CASE EndpointStep
  <2>3. asked' \in BOOLEAN
    BY <1>0, <1>6 DEF FlagsOK, EndpointStep, Accept, Connect, Ready, ForwardAudio, HandleStop,
       HandleDisconnect, AwaitDown, ExitSession, Tell, CloseSocket
  <2>4. app' \in BOOLEAN
    BY <1>0, <1>6 DEF FlagsOK, EndpointStep, Accept, Connect, Ready, ForwardAudio, HandleStop,
       HandleDisconnect, AwaitDown, ExitSession, Tell, CloseSocket
  <2>5. guess' = guess /\ mixed' = mixed
    BY <1>6, EndpointLeaves, Zenon
  <2>. QED BY <1>0, <2>3, <2>4, <2>5, Zenon DEF FlagsOK
<1>7. CASE Relay
  <2>1. app' = app \/ app' = FALSE
    BY <1>7 DEF Relay
  <2>2. guess' = guess /\ asked' = asked /\ mixed' = mixed
    BY <1>7, Zenon DEF Relay
  <2>. QED BY <1>0, <2>1, <2>2, Zenon DEF FlagsOK
<1>. QED
  BY <1>2, <1>3, <1>4, <1>5, <1>6, <1>7 DEF StreamNext, ProviderStep, DownStep

LEMMA StandsStep ==
  ASSUME StreamTypeOK, [StreamNext]_streamVars
  PROVE  StandsOK'
<1> USE DEF browserVars, providerVars
<1>0. StandsOK /\ SentOK
  BY StreamParts
<1>1. CASE SendAudio \/ SendStop \/ Leave
  <2>1. /\ browser' \in {browser, "stopped", "gone"}
        /\ UNCHANGED <<turn, up, adapter, pc, why, down, buffer>>
    BY <1>1 DEF SendAudio, SendStop, Leave, BrowserSends
  <2>. QED BY <1>0, <2>1 DEF StandsOK
<1>2. ASSUME NEW t \in Turns, FluxEvent(t) \/ OpenAIEvent(t) PROVE StandsOK'
  <2>1. turn' \in [Turns -> {"todo", "open", "done"}]
    BY <1>2, FluxIs, OpenAIIs
  <2>2. UNCHANGED <<browser, up, adapter, pc, why, down, buffer>>
    BY <1>2, FluxIs, OpenAIIs
  <2>. QED BY <1>0, <2>1, <2>2 DEF StandsOK
<1>4. ASSUME NEW how \in {"ended", "broken"}, EndStream(how) PROVE StandsOK'
  <2>1. up' \in {"ended", "broken"} /\ UNCHANGED <<browser, turn, adapter, pc, why, down, buffer>>
    BY <1>4 DEF EndStream
  <2>. QED BY <1>0, <2>1 DEF StandsOK
<1>5. CASE EndpointStep
  <2>2. /\ up' \in {up, "open", "closed"}
        /\ down' \in {down, "reading", "cancelled"}
        /\ why' \in {why, "error", "left", "late"}
        /\ pc' \in {"accept", "connect", "ready", "receive", "flush", "exit", "tell", "close",
                    "over"}
    BY <1>5 DEF EndpointStep, Accept, Connect, Ready, ForwardAudio, HandleStop, HandleDisconnect,
       AwaitDown, ExitSession, Tell, CloseSocket, Endpoint
  <2>3. UNCHANGED <<browser, turn, adapter, buffer>>
    BY <1>5, EndpointLeaves
  <2>. QED BY <1>0, <2>2, <2>3 DEF StandsOK
<1>6. CASE Relay
  <2>1. Head(pipe) \in Event
    BY <1>0, <1>6, HeadTailProperties DEF Relay, SentOK
  <2>2. buffer' \in SUBSET Turns
    BY <1>6, <2>1, FrameTyped DEF Relay
  <2>4. /\ down' \in {down, "done", "left"}
        /\ UNCHANGED <<browser, turn, up, adapter, pc, why>>
    BY <1>6 DEF Relay
  <2>. QED BY <1>0, <2>2, <2>4 DEF StandsOK
<1>7. CASE EndOfEvents
  <2>1. down' \in {"failed", "done"} /\ UNCHANGED <<browser, turn, up, adapter, pc, why, buffer>>
    BY <1>7 DEF EndOfEvents
  <2>. QED BY <1>0, <2>1 DEF StandsOK
<1>8. CASE UNCHANGED streamVars
  <2>1. UNCHANGED <<browser, turn, up, adapter, pc, why, down, buffer>>
    BY <1>8 DEF streamVars
  <2>. QED BY <1>0, <2>1 DEF StandsOK
<1>. QED
  BY <1>1, <1>2, <1>4, <1>5, <1>6, <1>7, <1>8 DEF StreamNext, ProviderStep, DownStep

LEMMA SentStep ==
  ASSUME StreamTypeOK, [StreamNext]_streamVars
  PROVE  SentOK'
<1> USE DEF browserVars, providerVars
<1>0. StandsOK /\ SentOK /\ FlagsOK
  BY StreamParts
<1>1. CASE SendAudio \/ SendStop \/ Leave
  <2>1. PICK message \in {"audio", "stop", "disconnect"} : inbox' = Append(inbox, message)
    BY <1>1 DEF SendAudio, SendStop, Leave, BrowserSends
  <2>2. inbox' \in Seq({"audio", "stop", "disconnect"})
    BY <1>0, <2>1, AppendProperties DEF SentOK
  <2>3. UNCHANGED <<pipe, frames, meant>>
    BY <1>1 DEF SendAudio, SendStop, Leave, BrowserSends
  <2>. QED BY <1>0, <2>2, <2>3 DEF SentOK
<1>2. ASSUME NEW t \in Turns, FluxEvent(t) PROVE SentOK'
  <2>1. pipe' \in Seq(Event) /\ meant' \in Seq(Frame)
    BY <1>0, <1>2, FluxIs, EmittedTyped
  <2>2. UNCHANGED <<inbox, frames>>
    BY <1>2, FluxIs
  <2>. QED BY <1>0, <2>1, <2>2 DEF SentOK
<1>3. ASSUME NEW t \in Turns, OpenAIEvent(t) PROVE SentOK'
  <2>1. pipe' \in Seq(Event) /\ meant' \in Seq(Frame)
    BY <1>0, <1>3, OpenAIIs, EmittedTyped
  <2>2. UNCHANGED <<inbox, frames>>
    BY <1>3, OpenAIIs
  <2>. QED BY <1>0, <2>1, <2>2 DEF SentOK
<1>4. CASE (\E how \in {"ended", "broken"} : EndStream(how)) \/ EndOfEvents \/ UNCHANGED streamVars
  <2>1. UNCHANGED <<inbox, pipe, frames, meant>>
    BY <1>4 DEF EndStream, EndOfEvents, streamVars
  <2>. QED BY <1>0, <2>1 DEF SentOK
<1>5. CASE EndpointStep
  <2>1. inbox' = inbox \/ (inbox # <<>> /\ inbox' = Tail(inbox))
    BY <1>5 DEF EndpointStep, Accept, Connect, Ready, ForwardAudio, HandleStop,
       HandleDisconnect, AwaitDown, ExitSession, Tell, CloseSocket, Receive
  <2>2. inbox' \in Seq({"audio", "stop", "disconnect"})
    BY <1>0, <2>1, HeadTailProperties DEF SentOK
  <2>. QED BY <1>0, <1>5, <2>2, EndpointLeaves DEF SentOK
<1>6. CASE Relay
  <2>1. Head(pipe) \in Event /\ pipe' \in Seq(Event)
    BY <1>0, <1>6, HeadTailProperties DEF Relay, SentOK
  <2>2. FrameOf(Head(pipe)) \in Frame
    BY <2>1, FrameTyped
  <2>3. frames' = frames \/ frames' = Append(frames, FrameOf(Head(pipe)))
    BY <1>6 DEF Relay
  <2>4. frames' \in Seq(Frame)
    <3>1. frames \in Seq(Frame)
      BY <1>0 DEF SentOK
    <3>2. Append(frames, FrameOf(Head(pipe))) \in Seq(Frame)
      BY <2>2, <3>1, AppendProperties
    <3>. QED BY <2>3, <3>1, <3>2
  <2>5. UNCHANGED <<inbox, meant>>
    BY <1>6 DEF Relay
  <2>. QED BY <1>0, <2>1, <2>4, <2>5 DEF SentOK
<1>. QED
  BY <1>1, <1>2, <1>3, <1>4, <1>5, <1>6 DEF StreamNext, ProviderStep, DownStep

LEMMA StreamTypeInit == StreamInit => StreamTypeOK
<1> SUFFICES ASSUME StreamInit PROVE StandsOK /\ SentOK /\ FlagsOK
  BY StreamParts
<1>1. SentOK
  BY EmptySeq DEF StreamInit, SentOK
<1>2. FlagsOK
  BY DEF StreamInit, FlagsOK
<1>3. StandsOK
  BY DEF StreamInit, StandsOK
<1>. QED BY <1>1, <1>2, <1>3

LEMMA StreamTypeStep == StreamTypeOK /\ [StreamNext]_streamVars => StreamTypeOK'
  BY StandsStep, SentStep, FlagsStep, StreamParts1

\* The types of both ends and of what is between them.
THEOREM StreamTypeCorrect == StreamSpec => []StreamTypeOK
  BY StreamTypeInit, StreamTypeStep, PTL DEF StreamSpec

-----------------------------------------------------------------------------
(* VoiceStream: what reaches the browser.                                  *)

\* Text, Yielded, Buffered and FrameOf, for an interim text b that need not be the buffer.
TextBy(b, e) ==
  IF e.kind = "delta" THEN b \union {e.turn}
  ELSE IF e.words THEN {e.turn}
  ELSE IF e.kind = "completed" THEN b ELSE {}

SentBy(b, e) == TextBy(b, e) # {} \/ e.kind = "resumed"

KeptBy(b, e) ==
  IF e.kind = "delta" THEN TextBy(b, e) ELSE IF e.kind = "completed" THEN {} ELSE b

FrameBy(b, e) ==
  [type |-> IF e.kind \in {"eager", "resumed"} THEN e.kind
            ELSE IF e.kind \in {"end", "completed"} THEN "final" ELSE "partial",
   text |-> TextBy(b, e)]

\* The interim text that the provider's turns come to.
Interim == IF adapter = "openai" THEN {t \in Turns : turn[t] = "open"} ELSE {}

\* Event e, read with interim text b after m frames, leaves text c and n frames, and its
\* own frame is the one that is meant.
Reads(said, m, b, e, c, n) ==
  /\ c = KeptBy(b, e)
  /\ IF SentBy(b, e) THEN n = m + 1 /\ n \in 1..Len(said) /\ said[n] = FrameBy(b, e)
     ELSE n = m

\* The interim texts and the numbers of frames, event by event, from text b after m
\* frames to text last when all is said.
Foresees(texts, counts, events, said, b, m, last) ==
  /\ texts \in [0..Len(events) -> SUBSET Turns] /\ counts \in [0..Len(events) -> Nat]
  /\ texts[0] = b /\ counts[0] = m
  /\ \A i \in 1..Len(events) :
       Reads(said, counts[i-1], texts[i-1], events[i], texts[i], counts[i])
  /\ texts[Len(events)] = last /\ counts[Len(events)] = Len(said)

\* From the buffer and the frames of now, what is in the pipe comes to what is meant.
Foreseen ==
  \E texts, counts : Foresees(texts, counts, pipe, meant, buffer, Len(frames), Interim)

Agrees ==
  /\ Len(frames) <= Len(meant)
  /\ \A i \in 1..Len(frames) : frames[i] = meant[i]

\* What has been sent agrees with what is meant, and for as long as pump_down may still
\* read so will what is to come.
RelayInv ==
  ~mixed =>
    /\ Agrees
    /\ down \in {"none", "reading"} => Foreseen

\* Where pump_down, the provider's socket and the browser's connection stand, by the
\* endpoint's own place.
PlaceInv ==
  /\ pc \in {"accept", "connect", "ready"} => app /\ down = "none"
  /\ pc \in {"ready", "receive", "flush"} => up \notin {"closed", "none"}
  /\ pc \in {"receive", "flush"} => down \notin {"none", "cancelled"} /\ (app \/ down = "left")

LEMMA PlaceInit == StreamInit => PlaceInv
  BY DEF StreamInit, PlaceInv

LEMMA PlaceStep ==
  ASSUME StreamTypeOK, PlaceInv, [StreamNext]_streamVars
  PROVE  PlaceInv'
<1> USE DEF browserVars, providerVars
<1>1. CASE UNCHANGED <<pc, app, down, up>>
  BY <1>1 DEF PlaceInv
<1>2. CASE SendAudio \/ SendStop \/ Leave \/ UNCHANGED streamVars
  <2>1. UNCHANGED <<pc, app, down, up>>
    BY <1>2 DEF SendAudio, SendStop, Leave, BrowserSends, streamVars
  <2>. QED BY <1>1, <2>1
<1>3. ASSUME NEW t \in Turns, FluxEvent(t) \/ OpenAIEvent(t) PROVE PlaceInv'
  <2>1. UNCHANGED <<pc, app, down, up>>
    BY <1>3, FluxIs, OpenAIIs
  <2>. QED BY <1>1, <2>1
<1>4. ASSUME NEW how \in {"ended", "broken"}, EndStream(how) PROVE PlaceInv'
  BY <1>4 DEF EndStream, PlaceInv
<1>5. CASE EndpointStep
  <2>1. CASE Accept \/ Connect \/ Ready
    BY <2>1 DEF PlaceInv, Accept, Connect, Ready, Endpoint
  <2>2. CASE ForwardAudio \/ HandleStop \/ HandleDisconnect
    BY <2>2 DEF PlaceInv, ForwardAudio, HandleStop, HandleDisconnect, Endpoint
  <2>3. CASE AwaitDown \/ ExitSession \/ Tell \/ CloseSocket
    BY <2>3 DEF PlaceInv, AwaitDown, ExitSession, Tell, CloseSocket, Endpoint
  <2>. QED BY <1>5, <2>1, <2>2, <2>3 DEF EndpointStep
<1>6. CASE Relay
  <2>1. down = "reading" /\ UNCHANGED <<pc, up>>
    BY <1>6 DEF Relay
  <2>2. \/ down' = down /\ app' = app
        \/ down' = "done" /\ app' = app /\ ~app
        \/ down' = "left"
    BY <1>6 DEF Relay
  <2>. QED BY <2>1, <2>2 DEF PlaceInv
<1>7. CASE EndOfEvents
  BY <1>7 DEF EndOfEvents, PlaceInv
<1>. QED
  BY <1>2, <1>3, <1>4, <1>5, <1>6, <1>7 DEF StreamNext, ProviderStep, DownStep

LEMMA RelayInit == StreamInit => RelayInv
<1> SUFFICES ASSUME StreamInit PROVE Agrees /\ Foreseen
  BY DEF RelayInv
<1>1. pipe = <<>> /\ frames = <<>> /\ meant = <<>> /\ buffer = {}
  BY DEF StreamInit
<1>2. Interim = {}
  BY DEF StreamInit, Interim
<1>3. Foresees([i \in 0..0 |-> {}], [i \in 0..0 |-> 0], <<>>, <<>>, {}, 0, {})
  BY DEF Foresees
<1>4. Agrees
  BY <1>1 DEF Agrees
<1>. QED BY <1>1, <1>2, <1>3, <1>4 DEF Foreseen

\* A further event is read with the last text.
LEMMA Extended ==
  ASSUME NEW events \in Seq(Event), NEW said \in Seq(Frame), NEW b, NEW m,
         NEW last, NEW next \in SUBSET Turns,
         NEW e \in Event, NEW f \in Frame, NEW more \in Seq(Frame),
         next = KeptBy(last, e),
         \/ SentBy(last, e) /\ f = FrameBy(last, e) /\ more = Append(said, f)
         \/ ~SentBy(last, e) /\ more = said,
         NEW texts, NEW counts, Foresees(texts, counts, events, said, b, m, last)
  PROVE  \E c, n : Foresees(c, n, Append(events, e), more, b, m, next)
<1> DEFINE k == Len(events)
           all == Append(events, e)
           c == [i \in 0..k+1 |-> IF i <= k THEN texts[i] ELSE next]
           n == [i \in 0..k+1 |-> IF i <= k THEN counts[i] ELSE Len(more)]
<1>1. k \in Nat /\ Len(said) \in Nat /\ Len(more) \in Nat
  OBVIOUS
<1>2. /\ all \in Seq(Event) /\ Len(all) = k + 1
      /\ \A i \in 1..k : all[i] = events[i]
      /\ all[k + 1] = e
  BY AppendProperties
<1>3. /\ Len(more) = IF SentBy(last, e) THEN Len(said) + 1 ELSE Len(said)
      /\ \A i \in 1..Len(said) : more[i] = said[i]
      /\ SentBy(last, e) => more[Len(said) + 1] = FrameBy(last, e)
  <2>1. CASE SentBy(last, e)
    BY <2>1, AppendProperties
  <2>2. CASE ~SentBy(last, e)
    BY <2>2
  <2>. QED BY <2>1, <2>2
<1>6. /\ texts \in [0..k -> SUBSET Turns] /\ counts \in [0..k -> Nat]
      /\ texts[0] = b /\ counts[0] = m
      /\ texts[k] = last /\ counts[k] = Len(said)
  BY DEF Foresees
<1>. HIDE DEF k, all
<1>7. /\ c \in [0..Len(all) -> SUBSET Turns] /\ n \in [0..Len(all) -> Nat]
      /\ c[0] = b /\ n[0] = m
      /\ c[Len(all)] = next /\ n[Len(all)] = Len(more)
  BY <1>1, <1>2, <1>6
<1>8. ASSUME NEW i \in 1..Len(all)
      PROVE  Reads(more, n[i-1], c[i-1], all[i], c[i], n[i])
  <2>1. CASE i \in 1..k
    <3>1. Reads(said, counts[i-1], texts[i-1], events[i], texts[i], counts[i])
      BY <2>1 DEF Foresees, k
    <3>2. Reads(more, counts[i-1], texts[i-1], events[i], texts[i], counts[i])
      BY <1>1, <1>3, <3>1 DEF Reads
    <3>3. /\ c[i] = texts[i] /\ c[i-1] = texts[i-1] /\ n[i] = counts[i]
          /\ n[i-1] = counts[i-1] /\ all[i] = events[i]
      BY <1>1, <1>2, <2>1
    <3>. QED BY <3>2, <3>3
  <2>2. CASE i = k + 1
    <3>1. /\ c[i-1] = last /\ n[i-1] = Len(said) /\ c[i] = next
          /\ n[i] = Len(more) /\ all[i] = e
      BY <1>1, <1>2, <1>6, <2>2
    <3>2. Reads(more, Len(said), last, e, next, Len(more))
      BY <1>1, <1>3 DEF Reads
    <3>. QED BY <3>1, <3>2
  <2>. QED BY <1>1, <1>2, <2>1, <2>2
<1>. QED BY <1>7, <1>8 DEF Foresees, all

\* Once the first event is read, the rest is foreseen from where it led.
LEMMA Consumed ==
  ASSUME NEW events \in Seq(Event), events # <<>>, NEW said \in Seq(Frame),
         NEW b, NEW m, NEW last,
         NEW texts, NEW counts, Foresees(texts, counts, events, said, b, m, last)
  PROVE  /\ Reads(said, m, b, Head(events), texts[1], counts[1])
         /\ \E c, n : Foresees(c, n, Tail(events), said, texts[1], counts[1], last)
<1> DEFINE k == Len(events)
           rest == Tail(events)
           c == [i \in 0..k-1 |-> texts[i+1]]
           n == [i \in 0..k-1 |-> counts[i+1]]
<1>1. k \in Nat \ {0} /\ Head(events) = events[1]
  BY EmptySeq, HeadTailProperties
<1>2. /\ Len(rest) = k - 1
      /\ \A i \in 1..k-1 : rest[i] = events[i + 1]
  BY HeadTailProperties
<1>3. /\ texts \in [0..k -> SUBSET Turns] /\ counts \in [0..k -> Nat]
      /\ texts[0] = b /\ counts[0] = m
      /\ texts[k] = last /\ counts[k] = Len(said)
  BY DEF Foresees
<1>4. \A i \in 1..k : Reads(said, counts[i-1], texts[i-1], events[i], texts[i], counts[i])
  BY DEF Foresees
<1>5. Reads(said, m, b, Head(events), texts[1], counts[1])
  BY <1>1, <1>3, <1>4
<1>. HIDE DEF k, rest
<1>6. /\ c \in [0..Len(rest) -> SUBSET Turns] /\ n \in [0..Len(rest) -> Nat]
      /\ c[0] = texts[1] /\ n[0] = counts[1]
      /\ c[Len(rest)] = last /\ n[Len(rest)] = Len(said)
  BY <1>1, <1>2, <1>3
<1>7. ASSUME NEW i \in 1..Len(rest)
      PROVE  Reads(said, n[i-1], c[i-1], rest[i], c[i], n[i])
  <2>1. i + 1 \in 1..k /\ (i + 1) - 1 = i
    BY <1>1, <1>2
  <2>2. Reads(said, counts[i], texts[i], events[i+1], texts[i+1], counts[i+1])
    BY <1>4, <2>1
  <2>3. /\ c[i] = texts[i+1] /\ c[i-1] = texts[i] /\ n[i] = counts[i+1]
        /\ n[i-1] = counts[i] /\ rest[i] = events[i+1]
    BY <1>1, <1>2
  <2>. QED BY <2>2, <2>3
<1>8. Foresees(c, n, rest, said, texts[1], counts[1], last)
  BY <1>6, <1>7 DEF Foresees
<1>. QED BY <1>5, <1>8 DEF rest

\* What an event that was read did to the buffer and to the frames.
LEMMA RelayReads ==
  ASSUME StreamTypeOK, Relay, down' = "reading"
  PROVE  LET e == Head(pipe) IN
         /\ e \in Event /\ buffer' = KeptBy(buffer, e)
         /\ frames' = IF SentBy(buffer, e) THEN Append(frames, FrameBy(buffer, e)) ELSE frames
         /\ FrameBy(buffer, e) \in Frame
<1>1. Head(pipe) \in Event
  BY StreamParts, HeadTailProperties DEF SentOK, Relay
<1>2. /\ Buffered(Head(pipe)) = KeptBy(buffer, Head(pipe))
      /\ FrameOf(Head(pipe)) = FrameBy(buffer, Head(pipe))
      /\ Yielded(Head(pipe)) <=> SentBy(buffer, Head(pipe))
  BY DEF Buffered, KeptBy, FrameOf, FrameBy, Yielded, SentBy, Text, TextBy
<1>3. FrameOf(Head(pipe)) \in Frame
  BY <1>1, FrameTyped
<1>4. /\ buffer' = Buffered(Head(pipe))
      /\ frames' = IF Yielded(Head(pipe)) THEN Append(frames, FrameOf(Head(pipe))) ELSE frames
  BY DEF Relay
<1>. QED BY <1>1, <1>2, <1>3, <1>4

LEMMA RelayForeseen ==
  ASSUME StreamTypeOK, Relay, Agrees, Foreseen, down' = "reading"
  PROVE  Agrees' /\ Foreseen'
<1> DEFINE e == Head(pipe)
<1>1. /\ pipe \in Seq(Event) /\ meant \in Seq(Frame) /\ frames \in Seq(Frame)
      /\ pipe # <<>>
  BY StreamParts DEF SentOK, Relay
<1>2. pipe' = Tail(pipe) /\ UNCHANGED <<turn, adapter, meant>>
  BY DEF Relay
<1>3. Interim' = Interim
  BY <1>2 DEF Interim
<1>4. PICK texts, counts : Foresees(texts, counts, pipe, meant, buffer, Len(frames), Interim)
  BY DEF Foreseen
<1>5. /\ Reads(meant, Len(frames), buffer, e, texts[1], counts[1])
      /\ \E c, n : Foresees(c, n, Tail(pipe), meant, texts[1], counts[1], Interim)
  BY <1>1, <1>4, Consumed
<1>6. /\ buffer' = KeptBy(buffer, e) /\ FrameBy(buffer, e) \in Frame
      /\ frames' = IF SentBy(buffer, e) THEN Append(frames, FrameBy(buffer, e)) ELSE frames
  BY RelayReads
<1>. HIDE DEF e
<1>7. buffer' = texts[1]
  BY <1>5, <1>6 DEF Reads
<1>8. Len(frames') = counts[1] /\ Agrees'
  <2>1. CASE SentBy(buffer, e)
    <3>1. /\ counts[1] = Len(frames) + 1 /\ counts[1] \in 1..Len(meant)
          /\ meant[counts[1]] = FrameBy(buffer, e)
      BY <1>5, <2>1 DEF Reads
    <3>2. frames' = Append(frames, FrameBy(buffer, e))
      BY <1>6, <2>1
    <3>3. /\ Len(frames') = Len(frames) + 1
          /\ \A i \in 1..Len(frames) : frames'[i] = frames[i]
          /\ frames'[Len(frames) + 1] = FrameBy(buffer, e)
      BY <1>1, <1>6, <3>2, AppendProperties
    <3>4. Len(frames) \in Nat /\ \A i \in 1..Len(frames) : frames[i] = meant[i]
      BY <1>1 DEF Agrees
    <3>. QED BY <1>2, <3>1, <3>3, <3>4 DEF Agrees
  <2>2. CASE ~SentBy(buffer, e)
    <3>1. counts[1] = Len(frames) /\ frames' = frames
      BY <1>5, <1>6, <2>2 DEF Reads
    <3>. QED BY <1>2, <3>1 DEF Agrees
  <2>. QED BY <2>1, <2>2
<1>9. Foreseen'
  BY <1>2, <1>3, <1>5, <1>7, <1>8 DEF Foreseen
<1>. QED BY <1>8, <1>9

\* What the provider says next was foreseen to be read with the turns as they stand.
LEMMA SaidForeseen ==
  ASSUME StreamTypeOK, StreamTypeOK', UNCHANGED <<buffer, frames>>, Agrees, Foreseen,
         NEW e, NEW stands \in BOOLEAN, NEW f, Emitted(e, stands, f),
         Interim' = KeptBy(Interim, e),
         SentBy(Interim, e) <=> stands, stands => f = FrameBy(Interim, e)
  PROVE  Agrees' /\ Foreseen'
<1>1. /\ pipe \in Seq(Event) /\ meant \in Seq(Frame) /\ meant' \in Seq(Frame)
      /\ frames \in Seq(Frame)
  BY StreamParts, StreamParts1 DEF SentOK
<1>2. e \in Event /\ f \in Frame /\ pipe' = Append(pipe, e)
  BY DEF Emitted
<1>3. \/ SentBy(Interim, e) /\ f = FrameBy(Interim, e) /\ meant' = Append(meant, f)
      \/ ~SentBy(Interim, e) /\ meant' = meant
  BY DEF Emitted
<1>4. Interim' \in SUBSET Turns
  BY DEF Interim
<1>5. PICK texts, counts : Foresees(texts, counts, pipe, meant, buffer, Len(frames), Interim)
  BY DEF Foreseen
<1>6. \E c, n : Foresees(c, n, Append(pipe, e), meant', buffer, Len(frames), Interim')
  BY <1>1, <1>2, <1>3, <1>4, <1>5, Extended
<1>7. Foreseen'
  BY <1>2, <1>6 DEF Foreseen
<1>8. Len(meant) <= Len(meant') /\ \A i \in 1..Len(meant) : meant'[i] = meant[i]
  <2>1. CASE meant' = meant
    BY <1>1, <2>1
  <2>2. CASE meant' = Append(meant, f)
    BY <1>1, <1>2, <2>2, AppendProperties
  <2>. QED BY <1>3, <2>1, <2>2
<1>9. Agrees'
  <2>1. Len(frames) \in Nat /\ Len(meant) \in Nat /\ Len(meant') \in Nat
    BY <1>1
  <2>2. Len(frames) <= Len(meant) /\ \A i \in 1..Len(frames) : frames[i] = meant[i]
    BY DEF Agrees
  <2>. QED BY <1>8, <2>1, <2>2 DEF Agrees
<1>. QED BY <1>7, <1>9

\* A frame that is meant afterwards takes nothing from what agrees already.
LEMMA AgreesOn ==
  ASSUME StreamTypeOK, Agrees, UNCHANGED frames,
         NEW e, NEW stands, NEW f, Emitted(e, stands, f)
  PROVE  Agrees'
<1>1. meant \in Seq(Frame) /\ frames \in Seq(Frame) /\ f \in Frame
  BY StreamParts DEF SentOK, Emitted
<1>2. meant' = meant \/ meant' = Append(meant, f)
  BY DEF Emitted
<1>3. /\ Len(meant) <= Len(meant') /\ Len(meant') \in Nat /\ Len(meant) \in Nat
      /\ \A i \in 1..Len(meant) : meant'[i] = meant[i]
  BY <1>1, <1>2, AppendProperties
<1>4. Len(frames) \in Nat /\ Len(frames) <= Len(meant)
  BY <1>1 DEF Agrees
<1>. QED BY <1>3, <1>4 DEF Agrees

LEMMA FluxForeseen ==
  ASSUME StreamTypeOK, StreamTypeOK', NEW t \in Turns, FluxEvent(t), Agrees
  PROVE  Agrees' /\ (Foreseen => Foreseen')
<1>1. adapter = "flux" /\ adapter' = adapter /\ UNCHANGED <<buffer, frames>>
  BY FluxIs
<1>2. PICK kind \in {"update", "eager", "resumed", "end"}, words \in BOOLEAN :
        Emitted([kind |-> kind, turn |-> t, words |-> words], words \/ kind = "resumed",
                [type |-> IF kind \in {"eager", "resumed"} THEN kind
                          ELSE IF kind = "end" THEN "final" ELSE "partial",
                 text |-> {u \in {t} : words}])
  BY FluxIs
<1> DEFINE e == [kind |-> kind, turn |-> t, words |-> words]
           f == [type |-> IF kind \in {"eager", "resumed"} THEN kind
                          ELSE IF kind = "end" THEN "final" ELSE "partial",
                 text |-> {u \in {t} : words}]
<1>3. Interim = {} /\ Interim' = {}
  BY <1>1 DEF Interim
<1>4. e.kind = kind /\ e.turn = t /\ e.words = words
  OBVIOUS
<1>5. TextBy({}, e) = {u \in {t} : words}
  BY <1>4 DEF TextBy
<1>6. KeptBy({}, e) = {} /\ f = FrameBy({}, e)
  BY <1>4, <1>5 DEF KeptBy, FrameBy
<1>7. SentBy({}, e) <=> (words \/ kind = "resumed")
  BY <1>4, <1>5 DEF SentBy
<1>8. Emitted(e, words \/ kind = "resumed", f)
  BY <1>2
<1>9. (words \/ kind = "resumed") \in BOOLEAN
  OBVIOUS
<1>. HIDE DEF e, f
<1>10. Agrees'
  BY <1>1, <1>8, AgreesOn
<1>11. ASSUME Foreseen PROVE Foreseen'
  BY <1>1, <1>3, <1>6, <1>7, <1>8, <1>9, <1>11, SaidForeseen
<1>. QED BY <1>10, <1>11

LEMMA OpenAIForeseen ==
  ASSUME StreamTypeOK, StreamTypeOK', NEW t \in Turns, OpenAIEvent(t), Agrees, ~mixed'
  PROVE  Agrees' /\ (Foreseen => Foreseen')
<1>1. adapter = "openai" /\ adapter' = adapter /\ UNCHANGED <<buffer, frames>>
  BY OpenAIIs
<1>2. PICK kind \in {"delta", "completed"}, words \in BOOLEAN :
        /\ kind = "delta" => words
        /\ turn' = [turn EXCEPT ![t] = IF kind = "delta" THEN "open" ELSE "done"]
        /\ Emitted([kind |-> kind, turn |-> t, words |-> words],
                   words \/ turn[t] = "open",
                   [type |-> IF kind = "delta" THEN "partial" ELSE "final", text |-> {t}])
  BY OpenAIIs
<1> DEFINE e == [kind |-> kind, turn |-> t, words |-> words]
           f == [type |-> IF kind = "delta" THEN "partial" ELSE "final", text |-> {t}]
           stands == words \/ turn[t] = "open"
           before == IF turn[t] = "open" THEN {t} ELSE {}
           after == IF kind = "delta" THEN {t} ELSE {}
<1>3. \A u \in Turns \ {t} : turn[u] # "open"
  BY OpenAIIs
<1>4. turn \in [Turns -> {"todo", "open", "done"}]
  BY StreamParts DEF StandsOK
<1>5. Interim = before
  BY <1>1, <1>3 DEF Interim
<1>6. Interim' = after
  BY <1>1, <1>2, <1>3, <1>4 DEF Interim
<1>7. e.kind = kind /\ e.turn = t /\ e.words = words
  OBVIOUS
<1>8. TextBy(before, e) = IF stands THEN {t} ELSE {}
  BY <1>2, <1>7 DEF TextBy
<1>9. KeptBy(before, e) = after
  BY <1>2, <1>7, <1>8 DEF KeptBy
<1>10. SentBy(before, e) <=> stands
  BY <1>2, <1>7, <1>8 DEF SentBy
<1>11. stands => f = FrameBy(before, e)
  BY <1>2, <1>7, <1>8 DEF FrameBy
<1>12. Emitted(e, stands, f)
  BY <1>2
<1>13. stands \in BOOLEAN
  OBVIOUS
<1>. HIDE DEF e, f, stands, before, after
<1>14. Agrees'
  BY <1>1, <1>12, AgreesOn
<1>15. ASSUME Foreseen PROVE Foreseen'
  BY <1>1, <1>5, <1>6, <1>9, <1>10, <1>11, <1>12, <1>13, <1>15, SaidForeseen
<1>. QED BY <1>14, <1>15

\* pump_down starts once.
LEMMA DownStarts ==
  ASSUME PlaceInv, EndpointStep, down' \in {"none", "reading"}
  PROVE  down \in {"none", "reading"}
  BY DEF PlaceInv, EndpointStep, Accept, Connect, Ready, ForwardAudio, HandleStop,
     HandleDisconnect, AwaitDown, ExitSession, Tell, CloseSocket, Endpoint

LEMMA RelayStep ==
  ASSUME StreamTypeOK, StreamTypeOK', PlaceInv, RelayInv, [StreamNext]_streamVars
  PROVE  RelayInv'
<1> SUFFICES ASSUME ~mixed' PROVE Agrees' /\ (down' \in {"none", "reading"} => Foreseen')
  BY DEF RelayInv
<1> USE DEF browserVars, providerVars
<1>1. ASSUME UNCHANGED <<turn, pipe, adapter, buffer, frames, meant, mixed>>,
             down' \in {"none", "reading"} => down \in {"none", "reading"}
      PROVE  Agrees' /\ (down' \in {"none", "reading"} => Foreseen')
  <2>1. Agrees /\ (down \in {"none", "reading"} => Foreseen)
    BY <1>1 DEF RelayInv
  <2>2. Agrees'
    BY <1>1, <2>1 DEF Agrees
  <2>3. Interim' = Interim
    BY <1>1 DEF Interim
  <2>4. Foreseen => Foreseen'
    BY <1>1, <2>3 DEF Foreseen
  <2>. QED BY <1>1, <2>1, <2>2, <2>4
<1>2. CASE SendAudio \/ SendStop \/ Leave \/ UNCHANGED streamVars
  <2>1. UNCHANGED <<turn, pipe, adapter, buffer, frames, meant, mixed, down>>
    BY <1>2 DEF SendAudio, SendStop, Leave, BrowserSends, streamVars
  <2>. QED BY <1>1, <2>1
<1>3. ASSUME NEW t \in Turns, FluxEvent(t)
      PROVE  Agrees' /\ (down' \in {"none", "reading"} => Foreseen')
  <2>1. mixed' = mixed /\ down' = down
    BY <1>3, FluxIs, Zenon
  <2>2. Agrees /\ (down \in {"none", "reading"} => Foreseen)
    BY <2>1 DEF RelayInv
  <2>. QED BY <1>3, <2>1, <2>2, FluxForeseen
<1>4. ASSUME NEW t \in Turns, OpenAIEvent(t)
      PROVE  Agrees' /\ (down' \in {"none", "reading"} => Foreseen')
  <2>1. (mixed => mixed') /\ down' = down
    BY <1>4, OpenAIIs
  <2>2. Agrees /\ (down \in {"none", "reading"} => Foreseen)
    BY <2>1 DEF RelayInv
  <2>. QED BY <1>4, <2>1, <2>2, OpenAIForeseen
<1>5. ASSUME NEW how \in {"ended", "broken"}, EndStream(how)
      PROVE  Agrees' /\ (down' \in {"none", "reading"} => Foreseen')
  <2>1. UNCHANGED <<turn, pipe, adapter, buffer, frames, meant, mixed, down>>
    BY <1>5 DEF EndStream
  <2>. QED BY <1>1, <2>1
<1>6. CASE EndpointStep
  BY <1>1, <1>6, EndpointLeaves, DownStarts
<1>7. CASE Relay
  <2>1. mixed' = mixed /\ down = "reading" /\ meant' = meant
    BY <1>7, Zenon DEF Relay
  <2>2. Agrees /\ Foreseen
    BY <2>1 DEF RelayInv
  <2>3. CASE down' = "reading"
    BY <1>7, <2>2, <2>3, RelayForeseen
  <2>4. CASE down' # "reading"
    <3>1. frames' = frames /\ down' \in {"done", "left"}
      BY <1>7, <2>1, <2>4 DEF Relay
    <3>2. Agrees'
      BY <2>1, <2>2, <3>1 DEF Agrees
    <3>. QED BY <3>1, <3>2
  <2>. QED BY <2>3, <2>4
<1>8. CASE EndOfEvents
  <2>1. UNCHANGED <<turn, pipe, adapter, buffer, frames, meant, mixed>>
        /\ down' \in {"failed", "done"}
    BY <1>8 DEF EndOfEvents
  <2>. QED BY <1>1, <2>1
<1>. QED
  BY <1>2, <1>3, <1>4, <1>5, <1>6, <1>7, <1>8 DEF StreamNext, ProviderStep, DownStep

LEMMA RelayIsPrefix ==
  ASSUME StreamTypeOK, RelayInv
  PROVE  Relayed
<1> SUFFICES ASSUME Agrees PROVE IsPrefix(frames, meant)
  BY DEF RelayInv, Relayed
<1>1. frames \in Seq(Frame) /\ meant \in Seq(Frame)
  BY StreamParts DEF SentOK
<1>2. Len(frames) <= Len(meant) /\ \A i \in 1..Len(frames) : frames[i] = meant[i]
  BY DEF Agrees
<1>3. SubSeq(frames, 1, Len(frames)) = SubSeq(meant, 1, Len(frames))
  BY <1>1, <1>2
<1>. QED BY <1>1, <1>2, <1>3 DEF IsPrefix

\* What the browser is sent is, frame for frame, what the provider said, for as long as
\* the service does not recognise two turns at once.
THEOREM WordsAreRelayed == StreamSpec => []Relayed
<1> DEFINE Inv == StreamTypeOK /\ PlaceInv /\ RelayInv
<1>1. StreamInit => Inv
  BY StreamTypeInit, PlaceInit, RelayInit
<1>2. Inv /\ [StreamNext]_streamVars => Inv'
  BY StreamTypeStep, PlaceStep, RelayStep
<1>3. Inv => Relayed
  BY RelayIsPrefix
<1>. QED BY <1>1, <1>2, <1>3, PTL DEF StreamSpec

\* Once pump_down has come to the provider's own end, nothing is left to send, and
\* nothing more is said; and an endpoint that leaves without a reason waited for that.
FlushInv ==
  /\ pc \in {"receive", "flush"} /\ down = "done" /\ ~mixed =>
       up = "ended" /\ pipe = <<>> /\ frames = meant
  /\ pc \in {"exit", "tell", "close", "over"} /\ why = "" /\ ~mixed =>
       up # "open" /\ down \notin {"reading", "none"} /\ frames = meant

\* When nothing is on its way, what is foreseen is what there is.
LEMMA NothingLeft ==
  ASSUME StreamTypeOK, Agrees, Foreseen, pipe = <<>>
  PROVE  frames = meant
<1>1. frames \in Seq(Frame) /\ meant \in Seq(Frame)
  BY StreamParts DEF SentOK
<1>2. PICK texts, counts : Foresees(texts, counts, pipe, meant, buffer, Len(frames), Interim)
  BY DEF Foreseen
<1>3. Len(frames) = Len(meant)
  BY <1>2, EmptySeq DEF Foresees
<1>4. \A i \in 1..Len(frames) : frames[i] = meant[i]
  BY DEF Agrees
<1>. QED BY <1>1, <1>3, <1>4, SeqEqual

LEMMA FlushStep ==
  ASSUME StreamTypeOK, PlaceInv, RelayInv, FlushInv, [StreamNext]_streamVars
  PROVE  FlushInv'
<1> USE DEF browserVars, providerVars
<1>1. CASE UNCHANGED <<pc, down, mixed, up, pipe, frames, meant, why>>
  BY <1>1 DEF FlushInv
<1>2. CASE SendAudio \/ SendStop \/ Leave \/ UNCHANGED streamVars
  <2>1. UNCHANGED <<pc, down, mixed, up, pipe, frames, meant, why>>
    BY <1>2 DEF SendAudio, SendStop, Leave, BrowserSends, streamVars
  <2>. QED BY <1>1, <2>1
<1>3. ASSUME NEW t \in Turns, FluxEvent(t) \/ OpenAIEvent(t) PROVE FlushInv'
  <2>1. up = "open"
    BY <1>3, FluxIs, OpenAIIs DEF Emitted
  <2>2. UNCHANGED <<pc, down, up, why>> /\ (mixed => mixed')
    BY <1>3, FluxIs, OpenAIIs
  <2>. QED BY <2>1, <2>2 DEF FlushInv
<1>4. ASSUME NEW how \in {"ended", "broken"}, EndStream(how) PROVE FlushInv'
  <2>1. /\ up = "open" /\ up' # "open"
        /\ UNCHANGED <<pc, down, mixed, pipe, frames, meant, why>>
    BY <1>4 DEF EndStream
  <2>. QED BY <2>1 DEF FlushInv
<1>5. CASE EndpointStep
  <2> USE EndpointLeaves
  <2>1. CASE Accept \/ Connect \/ Ready
    BY <1>5, <2>1 DEF FlushInv, PlaceInv, Accept, Connect, Ready, Endpoint
  <2>2. CASE ForwardAudio \/ HandleStop \/ HandleDisconnect
    BY <1>5, <2>2 DEF FlushInv, ForwardAudio, HandleStop, HandleDisconnect, Endpoint
  <2>3. CASE AwaitDown
    <3>1. down \in {"reading", "done", "failed", "left"}
      BY <2>3, StreamParts DEF AwaitDown, Endpoint, PlaceInv, StandsOK
    <3>. QED BY <1>5, <2>3, <3>1 DEF FlushInv, AwaitDown, Endpoint
  <2>4. CASE ExitSession \/ Tell \/ CloseSocket
    BY <1>5, <2>4 DEF FlushInv, ExitSession, Tell, CloseSocket, Endpoint
  <2>. QED BY <1>5, <2>1, <2>2, <2>3, <2>4 DEF EndpointStep
<1>6. CASE Relay
  <2>1. down = "reading" /\ UNCHANGED <<pc, up, why, meant, mixed>>
    BY <1>6 DEF Relay
  <2>2. ASSUME down' = "done" PROVE ~app
    BY <1>6, <2>1, <2>2 DEF Relay
  <2>. QED BY <2>1, <2>2 DEF FlushInv, PlaceInv
<1>7. CASE EndOfEvents
  <2>1. /\ down = "reading" /\ UNCHANGED <<pc, up, why, pipe, frames, meant, mixed>>
        /\ (pipe = <<>> /\ up \in {"ended", "broken", "closed"}) \/ up = "closed"
        /\ down' = IF up = "broken" THEN "failed" ELSE "done"
    BY <1>7 DEF EndOfEvents
  <2>2. ASSUME pc \in {"receive", "flush"}, down' = "done", ~mixed
        PROVE  up = "ended" /\ pipe = <<>> /\ frames = meant
    <3>1. up = "ended" /\ pipe = <<>>
      BY <2>1, <2>2 DEF PlaceInv
    <3>2. Agrees /\ Foreseen
      BY <2>1, <2>2 DEF RelayInv
    <3>. QED BY <3>1, <3>2, NothingLeft
  <2>. QED BY <2>1, <2>2 DEF FlushInv
<1>. QED
  BY <1>2, <1>3, <1>4, <1>5, <1>6, <1>7 DEF StreamNext, ProviderStep, DownStep

\* A clean stop that ends with the provider's own end has sent all that it recognised.
THEOREM FinalsAreFlushed == StreamSpec => []Flushed
<1> DEFINE Inv == StreamTypeOK /\ PlaceInv /\ RelayInv /\ FlushInv
<1>1. StreamInit => Inv
  <2>1. StreamInit => FlushInv
    BY DEF StreamInit, FlushInv
  <2>. QED BY <2>1, StreamTypeInit, PlaceInit, RelayInit
<1>2. Inv /\ [StreamNext]_streamVars => Inv'
  BY StreamTypeStep, PlaceStep, RelayStep, FlushStep
<1>3. Inv => Flushed
  BY DEF FlushInv, Flushed
<1>. QED BY <1>1, <1>2, <1>3, PTL DEF StreamSpec
=============================================================================
