------------------------- MODULE SessionMemoryProofs -------------------------
(***************************************************************************)
(* SessionMemory: type correctness; no message of a history forgotten      *)
(* while Redis, the LLM and the client do their part - whatever becomes of *)
(* the worker's processes and of the extractions that raise; only what has *)
(* no history leaves the flush's list undistilled; and, with nothing going *)
(* wrong, every history is distilled before it expires.                    *)
(***************************************************************************)
EXTENDS SessionMemory, SequenceTheorems, TLAPS

\* A task that has a session in hand, a turn past its first append.
Shape ==
  /\ \A r \in Runner :
       /\ runner[r].pc \in {"read", "distil", "drop"} => runner[r].sid \in Session
       /\ runner[r].pc \in {"scan", "pick", "drop"} => runner[r].task = "flush"
  /\ \A t \in Turn : turn[t].pc # "todo" => turn[t].sid \in Session

LEMMA TimeConstants ==
  /\ HistoryTTL \in Nat \ {0} /\ ThrottleTTL \in Nat \ {0} /\ Idle \in Nat
  /\ Horizon \in Nat /\ Never \in Nat /\ Never \in Instant /\ MaxRing \in Nat \ {0}
  /\ \A n \in 0..Horizon : n \in Instant /\ n # Never
  /\ \A n \in 0..Horizon : n + HistoryTTL \in Instant /\ n + ThrottleTTL \in Instant
  BY SessionConstants DEF SessionConstants, Never, Instant

\* append_turn keeps a sequence of messages, and adds no other message to it.
LEMMA LastOfSeq ==
  ASSUME NEW q \in Seq(Message)
  PROVE  LastOf(q) \in Seq(Message) /\ Range(LastOf(q)) \subseteq Range(q)
<1>1. CASE Len(q) <= MaxRing
  BY <1>1 DEF LastOf
<1>2. CASE ~(Len(q) <= MaxRing)
  <2>1. LastOf(q) = SubSeq(q, Len(q) - MaxRing + 1, Len(q))
    BY <1>2 DEF LastOf
  <2>2. Len(q) \in Nat /\ Len(q) - MaxRing + 1 \in 1..Len(q)+1
    BY <1>2, TimeConstants
  <2>3. LastOf(q) \in Seq(Message)
    BY <2>1, <2>2, SubSeqProperties
  <2>4. \A i \in 1..Len(LastOf(q)) : \E j \in 1..Len(q) : LastOf(q)[i] = q[j]
    BY <2>1, <2>2, TimeConstants, SubSeqProperties
  <2>. QED BY <2>3, <2>4 DEF Range
<1>. QED BY <1>1, <1>2

LEMMA AppendSeq ==
  ASSUME NEW q \in Seq(Message), NEW m \in Message
  PROVE  /\ Append(q, m) \in Seq(Message)
         /\ Range(Append(q, m)) = Range(q) \union {m}
         /\ LastOf(Append(q, m)) \in Seq(Message)
         /\ Range(LastOf(Append(q, m))) \subseteq Range(q) \union {m}
<1>1. Append(q, m) \in Seq(Message) /\ Range(Append(q, m)) = Range(q) \union {m}
  BY AppendProperties DEF Range
<1>. QED BY <1>1, LastOfSeq

LEMMA RingStep ==
  ASSUME TypeOK, NEW s \in Session, NEW m \in Message, NEW X, Append1(s, m, X)
  PROVE  /\ ring' \in [Session -> Seq(Message)]
         /\ expires' \in [Session -> Instant]
         /\ \A u \in Session : u # s => ring'[u] = ring[u]
         /\ Range(ring'[s]) \subseteq Range(ring[s]) \union {m}
<1>1. ring[s] \in Seq(Message) /\ now + HistoryTTL \in Instant
  BY TimeConstants DEF TypeOK
<1>2. \/ ring' = ring
      \/ \E q \in {Append(ring[s], m), LastOf(Append(ring[s], m))} :
           ring' = [ring EXCEPT ![s] = q]
  BY DEF Append1
<1>3. expires' = expires \/ expires' = [expires EXCEPT ![s] = now + HistoryTTL]
  BY DEF Append1
<1>4. \E q \in Seq(Message) : /\ ring' = [ring EXCEPT ![s] = q]
                              /\ Range(q) \subseteq Range(ring[s]) \union {m}
  <2>1. ring = [ring EXCEPT ![s] = ring[s]]
    BY DEF TypeOK
  <2>2. CASE ring' = ring
    BY <1>1, <2>1, <2>2
  <2>3. CASE ring' # ring
    <3>1. PICK q \in {Append(ring[s], m), LastOf(Append(ring[s], m))} :
            ring' = [ring EXCEPT ![s] = q]
      BY <1>2, <2>3
    <3>2. q \in Seq(Message) /\ Range(q) \subseteq Range(ring[s]) \union {m}
      <4>1. CASE q = Append(ring[s], m)
        BY <1>1, <4>1, AppendSeq
      <4>2. CASE q = LastOf(Append(ring[s], m))
        BY <1>1, <4>2, AppendSeq
      <4>. QED BY <3>1, <4>1, <4>2
    <3>. QED BY <3>1, <3>2
  <2>. QED BY <2>2, <2>3
<1>5. expires' \in [Session -> Instant]
  BY <1>1, <1>3 DEF TypeOK
<1>. QED BY <1>4, <1>5 DEF TypeOK

\* The record a step of the worker gives a runner.
InShape(x) ==
  /\ x \in RunnerState
  /\ x.pc \in {"read", "distil", "drop"} => x.sid \in Session
  /\ x.pc \in {"scan", "pick", "drop"} => x.task = "flush"

LEMMA RunnerShape ==
  ASSUME TypeOK, Shape, NEW r \in Runner, NEW x, InShape(x),
         runner' = [runner EXCEPT ![r] = x]
  PROVE  /\ runner' \in [Runner -> RunnerState]
         /\ \A q \in Runner : InShape(runner'[q])
         /\ runner'[r] = x /\ \A q \in Runner : q # r => runner'[q] = runner[q]
  BY DEF TypeOK, Shape, InShape

LEMMA FreeShape == InShape(Free)
  BY DEF InShape, RunnerState, Free

\* Each step of the worker gives its runner a record in shape.
LEMMA WorkerStep ==
  ASSUME TypeOK, Shape, NEW r \in Runner, RunnerStep(r)
  PROVE  /\ \E x : InShape(x) /\ runner' = [runner EXCEPT ![r] = x]
         /\ UNCHANGED <<now, turn, ring, expires, throttle>>
<1> DEFINE y == runner[r]
<1>0. y \in RunnerState /\ InShape(y) /\ y.seen \in SUBSET Message
      /\ y.todo \in SUBSET Session
  BY DEF TypeOK, Shape, InShape, RunnerState
<1> DEFINE Over == [y EXCEPT !.pc = "pick", !.sid = Nobody, !.seen = {}]
<1>1. y.task = "flush" => InShape(Over)
  BY <1>0 DEF InShape, RunnerState
<1>2. CASE Receive(r)
  <2>1. Head(queue) \in Session \union {Nobody}
    BY <1>2 DEF Receive, TypeOK
  <2>2. InShape([Free EXCEPT !.pc = "scan", !.task = "flush"])
    BY FreeShape DEF InShape, RunnerState
  <2>3. \A s \in Session : InShape([Free EXCEPT !.pc = "read", !.task = "extract", !.sid = s])
    BY FreeShape DEF InShape, RunnerState
  <2>. QED BY <1>2, <2>1, <2>2, <2>3 DEF Receive
<1>3. CASE Scan(r)
  <2>1. PICK members \in SUBSET Session :
          runner' = [runner EXCEPT ![r].pc = "pick", ![r].todo = members]
    BY <1>3 DEF Scan
  <2>3. runner' = [runner EXCEPT ![r] = [y EXCEPT !.pc = "pick", !.todo = members]]
    BY <2>1 DEF TypeOK
  <2>2. InShape([y EXCEPT !.pc = "pick", !.todo = members])
    BY <1>0, <1>3 DEF InShape, RunnerState, Scan
  <2>. QED BY <1>3, <2>2, <2>3 DEF Scan
<1>4. CASE \E s \in Session : Pick(r, s)
  <2>1. PICK s \in Session : Pick(r, s)
    BY <1>4
  <2>2. y.pc = "pick" /\ InShape([y EXCEPT !.todo = y.todo \ {s}, !.sid = Nobody])
    BY <1>0, <2>1 DEF Pick, InShape, RunnerState
  <2>3. InShape([y EXCEPT !.todo = y.todo \ {s}, !.pc = "read", !.sid = s, !.seen = {}])
    BY <1>0 DEF InShape, RunnerState
  <2>4. \/ runner' = [runner EXCEPT ![r] = [y EXCEPT !.todo = y.todo \ {s}, !.sid = Nobody]]
        \/ runner' = [runner EXCEPT ![r] = [y EXCEPT !.todo = y.todo \ {s}, !.pc = "read",
                                                     !.sid = s, !.seen = {}]]
    BY <2>1 DEF Pick
  <2>. QED BY <2>1, <2>2, <2>3, <2>4 DEF Pick
<1>5. CASE EndFlush(r) \/ Crash(r)
  BY <1>5, FreeShape DEF EndFlush, Crash
<1>6. CASE Read(r)
  <2>1. y.sid \in Session /\ y.pc = "read"
    BY <1>0, <1>6 DEF Read, InShape
  <2>2. Range(ring[y.sid]) \in SUBSET Message
    BY <2>1 DEF TypeOK, Range
  <2>3. \A seen \in SUBSET Message : InShape([y EXCEPT !.pc = "distil", !.seen = seen])
    BY <1>0, <2>1 DEF InShape, RunnerState
  <2>4. y.task = "flush" => InShape([y EXCEPT !.pc = "drop"])
    BY <1>0, <2>1 DEF InShape, RunnerState
  <2>5. PICK seen \in SUBSET Message :
          runner' = [runner EXCEPT ![r] =
            IF seen # {} THEN [y EXCEPT !.pc = "distil", !.seen = seen]
            ELSE IF y.task = "flush" THEN [y EXCEPT !.pc = "drop"]
            ELSE Free]
    BY <1>6, <2>2 DEF Read
  <2>6. CASE seen # {}
    BY <1>6, <2>3, <2>5, <2>6 DEF Read
  <2>7. CASE seen = {} /\ y.task = "flush"
    BY <1>6, <2>4, <2>5, <2>7 DEF Read
  <2>8. CASE seen = {} /\ y.task # "flush"
    BY <1>6, <2>5, <2>8, FreeShape DEF Read
  <2>. QED BY <2>6, <2>7, <2>8
<1>7. CASE Distil(r)
  <2>1. y.task = "flush" => InShape([y EXCEPT !.pc = "drop"])
    BY <1>0, <1>7 DEF InShape, RunnerState, Distil
  <2>. QED BY <1>7, <2>1, FreeShape DEF Distil
<1>8. CASE Raise(r)
  BY <1>8, <1>1, FreeShape DEF Raise
<1>9. CASE Drop(r)
  <2>1. y.task = "flush"
    BY <1>0, <1>9 DEF Drop, InShape
  <2>2. \/ runner' = [runner EXCEPT ![r] = Over] \/ runner' = [runner EXCEPT ![r] = Free]
    BY <1>9 DEF Drop
  <2>. QED BY <1>1, <1>9, <2>1, <2>2, FreeShape DEF Drop
<1>. QED BY <1>2, <1>3, <1>4, <1>5, <1>6, <1>7, <1>8, <1>9 DEF RunnerStep

\* What a step of a turn makes of the turns: one moves on, within its session.
LEMMA TurnMoves ==
  ASSUME TypeOK, Shape, NEW t \in Turn, TurnStep(t)
  PROVE  /\ turn' \in [Turn -> TurnState]
         /\ turn[t].sid \in Session
         /\ turn'[t].sid = turn[t].sid /\ turn'[t].pc \in {"gia", "noted", "done"}
         /\ \A u \in Turn : u # t => turn'[u] = turn[u]
         /\ UNCHANGED <<now, runner, distilled>>
<1>1. \E pc \in {"gia", "noted", "done"} : turn' = [turn EXCEPT ![t].pc = pc]
  BY DEF TurnStep, AppendReply, Note, Enqueue, Leave
<1>2. turn[t].pc # "todo" /\ UNCHANGED <<now, runner, distilled>>
  BY DEF TurnStep, AppendReply, Note, Enqueue, Leave
<1>3. PICK pc \in {"gia", "noted", "done"} : turn' = [turn EXCEPT ![t].pc = pc]
  BY <1>1
<1>4. turn' \in [Turn -> TurnState]
  BY <1>3 DEF TypeOK, TurnState, Recording
<1>5. /\ turn'[t].sid = turn[t].sid /\ turn'[t].pc = pc
      /\ \A u \in Turn : u # t => turn'[u] = turn[u]
  BY <1>3 DEF TypeOK, TurnState
<1>. QED BY <1>2, <1>4, <1>5 DEF Shape

LEMMA OpenMoves ==
  ASSUME TypeOK, Shape, NEW t \in Turn, NEW s \in Session, AppendUser(t, s)
  PROVE  /\ turn' \in [Turn -> TurnState]
         /\ turn'[t].sid = s /\ turn'[t].pc = "user"
         /\ \A u \in Turn : u # t => turn'[u] = turn[u]
<1>1. [pc |-> "user", sid |-> s] \in TurnState
  BY DEF TurnState, Recording
<1>. QED BY <1>1 DEF AppendUser, TypeOK

LEMMA QueueType ==
  ASSUME NEW q \in Seq(Session \union {Nobody})
  PROVE  /\ \A e \in Session \union {Nobody} : Append(q, e) \in Seq(Session \union {Nobody})
         /\ q # <<>> => Tail(q) \in Seq(Session \union {Nobody})
  OBVIOUS

\* Mishaps are those explored, and are not forgotten.
LEMMA MishapsGrow ==
  ASSUME TypeOK, [Next]_vars
  PROVE  mishap' \in SUBSET Allowed /\ mishap \subseteq mishap'
<1>1. ASSUME NEW t \in Turn, TurnStep(t)
      PROVE  mishap' = mishap \/ \E X \in SUBSET Allowed : mishap' = mishap \union X
  BY <1>1 DEF TurnStep, AppendReply, Append1, Note, Enqueue, Leave, Befall
<1>2. ASSUME NEW t \in Turn, NEW s \in Session, AppendUser(t, s)
      PROVE  \E X \in SUBSET Allowed : mishap' = mishap \union X
  BY <1>2 DEF AppendUser, Append1, Befall
<1>3. ASSUME NEW r \in Runner, RunnerStep(r)
      PROVE  mishap' = mishap \/ \E X \in SUBSET Allowed : mishap' = mishap \union X
  BY <1>3 DEF RunnerStep, Receive, Scan, Pick, EndFlush, Read, Distil, Raise, Drop, Crash, Befall
<1>4. CASE Tick \/ UNCHANGED vars \/ \E s \in Session : ExpireRing(s) \/ ExpireThrottle(s)
  BY <1>4 DEF Tick, vars, ExpireRing, ExpireThrottle, Befall, TypeOK
<1>. QED BY <1>1, <1>2, <1>3, <1>4 DEF Next, TypeOK

\* Every variable keeps its type, and a task always has a session in hand.
LEMMA Shaped == Spec => [](TypeOK /\ Shape)
<1>1. Init => TypeOK /\ Shape
  BY TimeConstants, FreeShape
  DEF Init, TypeOK, Shape, TurnState, InShape, Free
<1>2. TypeOK /\ Shape /\ [Next]_vars => TypeOK' /\ Shape'
  <2> SUFFICES ASSUME TypeOK, Shape, [Next]_vars PROVE TypeOK' /\ Shape'
    OBVIOUS
  <2>0. mishap' \in SUBSET Allowed
    BY MishapsGrow
  <2>1. ASSUME NEW t \in Turn, TurnStep(t) PROVE TypeOK' /\ Shape'
    <3>1. Shape'
      BY <2>1, TurnMoves DEF Shape
    <3>2. <<t, "gia">> \in Message
      BY DEF Message
    <3>3. ring' \in [Session -> Seq(Message)] /\ expires' \in [Session -> Instant]
      BY <2>1, <3>2, TurnMoves, RingStep
      DEF TurnStep, AppendReply, Note, Enqueue, Leave, TypeOK
    <3>4. /\ idleSince' \in [Session -> Instant] /\ throttle' \in [Session -> Instant]
          /\ queue' \in Seq(Session \union {Nobody})
      <4>1. now \in Instant /\ now + ThrottleTTL \in Instant
        BY TimeConstants DEF TypeOK
      <4>2. idleSince' = idleSince \/ idleSince' = [idleSince EXCEPT ![turn[t].sid] = now]
        BY <2>1 DEF TurnStep, AppendReply, Note, Enqueue, Leave
      <4>3. \/ throttle' = throttle
            \/ throttle' = [throttle EXCEPT ![turn[t].sid] = now + ThrottleTTL]
        BY <2>1 DEF TurnStep, AppendReply, Note, Enqueue, Leave
      <4>4. queue' = queue \/ queue' = Append(queue, turn[t].sid)
        BY <2>1 DEF TurnStep, AppendReply, Note, Enqueue, Leave
      <4>5. queue' \in Seq(Session \union {Nobody})
        <5>1. turn[t].sid \in Session \union {Nobody} /\ queue \in Seq(Session \union {Nobody})
          BY <2>1, TurnMoves DEF TypeOK
        <5>. QED BY <4>4, <5>1, QueueType
      <4>. QED BY <4>1, <4>2, <4>3, <4>5 DEF TypeOK
    <3>. QED BY <2>0, <2>1, <3>1, <3>3, <3>4, TurnMoves DEF TypeOK
  <2>2. ASSUME NEW t \in Turn, NEW s \in Session, AppendUser(t, s)
        PROVE  TypeOK' /\ Shape'
    <3>1. <<t, "user">> \in Message
      BY DEF Message
    <3>2. ring' \in [Session -> Seq(Message)] /\ expires' \in [Session -> Instant]
      BY <2>2, <3>1, RingStep DEF AppendUser
    <3>3. Shape'
      BY <2>2, OpenMoves DEF Shape, AppendUser
    <3>. QED BY <2>0, <2>2, <3>2, <3>3, OpenMoves DEF AppendUser, TypeOK
  <2>3. ASSUME NEW r \in Runner, RunnerStep(r) PROVE TypeOK' /\ Shape'
    <3>1. PICK x : InShape(x) /\ runner' = [runner EXCEPT ![r] = x]
      BY <2>3, WorkerStep
    <3>2. runner' \in [Runner -> RunnerState] /\ \A q \in Runner : InShape(runner'[q])
      BY <3>1, RunnerShape
    <3>3. UNCHANGED <<now, turn, ring, expires, throttle>>
      BY <2>3, WorkerStep
    <3>4. queue' \in Seq(Session \union {Nobody})
      <4>1. queue' = queue \/ Receive(r)
        BY <2>3 DEF RunnerStep, Scan, Pick, EndFlush, Read, Distil, Raise, Drop, Crash
      <4>2. Receive(r) => queue # <<>> /\ queue' = Tail(queue)
        BY DEF Receive
      <4>. QED BY <4>1, <4>2, QueueType DEF TypeOK
    <3>5. idleSince' \in [Session -> Instant]
      <4>1. \/ idleSince' = idleSince
            \/ idleSince' = [idleSince EXCEPT ![runner[r].sid] = Never]
        BY <2>3 DEF RunnerStep, Receive, Scan, Pick, EndFlush, Read, Distil, Raise, Drop, Crash
      <4>. QED BY <4>1, TimeConstants DEF TypeOK
    <3>6. distilled' \in SUBSET Message
      <4>1. distilled' = distilled \/ distilled' = distilled \union runner[r].seen
        BY <2>3 DEF RunnerStep, Receive, Scan, Pick, EndFlush, Read, Distil, Raise, Drop, Crash
      <4>. QED BY <4>1 DEF TypeOK, RunnerState
    <3>7. Shape'
      BY <3>2, <3>3 DEF Shape, InShape
    <3>. QED BY <2>0, <3>2, <3>3, <3>4, <3>5, <3>6, <3>7 DEF TypeOK
  <2>4. ASSUME NEW s \in Session, ExpireRing(s) \/ ExpireThrottle(s)
        PROVE  TypeOK' /\ Shape'
    <3>1. /\ UNCHANGED <<now, turn, idleSince, queue, runner, distilled>>
          /\ ring' = ring \/ ring' = [ring EXCEPT ![s] = <<>>]
          /\ expires' = expires \/ expires' = [expires EXCEPT ![s] = Never]
          /\ throttle' = throttle \/ throttle' = [throttle EXCEPT ![s] = Never]
      BY <2>4 DEF ExpireRing, ExpireThrottle
    <3>2. <<>> \in Seq(Message)
      OBVIOUS
    <3>3. ring' \in [Session -> Seq(Message)]
      BY <3>1, <3>2 DEF TypeOK
    <3>4. expires' \in [Session -> Instant] /\ throttle' \in [Session -> Instant]
      BY <3>1, TimeConstants DEF TypeOK
    <3>. QED BY <2>0, <3>1, <3>3, <3>4 DEF TypeOK, Shape
  <2>5. CASE Tick
    <3>1. now' \in 0..Horizon
      BY <2>5, TimeConstants DEF Tick, TypeOK
    <3>2. queue' \in Seq(Session \union {Nobody})
      <4>1. queue' = queue \/ queue' = Append(queue, Nobody)
        BY <2>5 DEF Tick
      <4>. QED BY <4>1, QueueType DEF TypeOK
    <3>. QED BY <2>0, <2>5, <3>1, <3>2 DEF Tick, TypeOK, Shape
  <2>6. CASE UNCHANGED vars
    BY <2>0, <2>6 DEF vars, TypeOK, Shape
  <2>. QED BY <2>1, <2>2, <2>3, <2>4, <2>5, <2>6 DEF Next
<1>. QED BY <1>1, <1>2, PTL DEF Spec

\* Every variable keeps its type.
THEOREM TypeCorrect == Spec => []TypeOK
  BY Shaped, PTL

-----------------------------------------------------------------------------
(* The inductive invariant.  An undistilled message keeps its session in   *)
(* gia:pending_flush, or its turn is about to put it there; a flush that   *)
(* has a session in hand works on all of its history, and may only remove  *)
(* it because all of that history is distilled; no turn is recorded then.  *)

\* Redis, the LLM and the client do their part, and nobody comes back too soon.
Reliable == mishap \subseteq {"raise", "stall"}

Cover ==
  \A s \in Session : \A m \in Range(ring[s]) \ distilled :
    idleSince[s] # Never \/ Live(s)

\* What holds of a flushing runner's record x.
Snapshot(x) ==
  x.task = "flush" =>
    /\ x.pc = "distil" => Range(ring[x.sid]) \subseteq x.seen
    /\ x.pc = "drop" => Range(ring[x.sid]) \subseteq distilled
    /\ x.pc \in {"read", "distil", "drop"} =>
         \A t \in Turn : ~(turn[t].pc \in Recording /\ turn[t].sid = x.sid)

Kept == Cover /\ \A r \in Runner : Snapshot(runner[r])

Inv == Reliable => Kept

\* The inductive invariant implies the property.
LEMMA InvImplies == Inv => NothingForgotten
  BY DEF Inv, Kept, Reliable, Cover, NothingForgotten, SeenTo

\* A step of the worker: what it must leave true of the runner and the set.
LEMMA WorkerKeeps ==
  ASSUME TypeOK, Shape, Kept, NEW r \in Runner, NEW x, InShape(x),
         runner' = [runner EXCEPT ![r] = x], UNCHANGED <<turn, ring>>,
         distilled \subseteq distilled',
         x.task = "flush" =>
           /\ x.pc = "distil" => Range(ring[x.sid]) \subseteq x.seen
           /\ x.pc = "drop" => Range(ring[x.sid]) \subseteq distilled'
           /\ x.pc \in {"read", "distil", "drop"} =>
                \A t \in Turn : ~(turn[t].pc \in Recording /\ turn[t].sid = x.sid),
         \A s \in Session : \/ idleSince'[s] = idleSince[s]
                            \/ Range(ring[s]) \subseteq distilled
  PROVE  Kept'
<1>1. runner'[r] = x /\ \A q \in Runner : q # r => runner'[q] = runner[q]
  BY RunnerShape
<1>2. \A q \in Runner : Snapshot(runner[q])
  BY DEF Kept
<1>3. ASSUME NEW q \in Runner PROVE Snapshot(runner[q])'
  <2>1. CASE q = r
    BY <1>1, <2>1 DEF Snapshot
  <2>2. CASE q # r
    BY <1>1, <1>2, <2>2 DEF Snapshot
  <2>. QED BY <2>1, <2>2
<1>4. Cover'
  BY DEF Kept, Cover, Live
<1>. QED BY <1>3, <1>4 DEF Kept

\* What a reliable step rules out.
LEMMA NoHarm ==
  ASSUME Reliable'
  PROVE  /\ ~Befall({"redis"}) /\ ~Befall({"leave"}) /\ ~Befall({"llm"})
         /\ \A X : "return" \in X => ~Befall(X)
  BY DEF Reliable, Befall

LEMMA WorkerStepKeeps ==
  ASSUME Reliable', TypeOK, Shape, Kept, NEW r \in Runner, RunnerStep(r)
  PROVE  Kept'
<1> DEFINE y == runner[r]
<1>1. PICK x : InShape(x) /\ runner' = [runner EXCEPT ![r] = x]
  BY WorkerStep
<1>2. runner'[r] = x
  BY <1>1, RunnerShape
<1>3. UNCHANGED <<turn, ring>> /\ y \in RunnerState /\ InShape(y) /\ Snapshot(y)
  BY WorkerStep DEF TypeOK, Shape, InShape, Kept
<1>4. distilled \subseteq distilled'
  BY DEF RunnerStep, Receive, Scan, Pick, EndFlush, Read, Distil, Raise, Drop, Crash
<1>5. \A s \in Session : \/ idleSince'[s] = idleSince[s]
                         \/ Range(ring[s]) \subseteq distilled
  <2>1. CASE Drop(r)
    <3>1. idleSince' = [idleSince EXCEPT ![y.sid] = Never] /\ y.pc = "drop"
      BY <2>1 DEF Drop, Reliable, Befall
    <3>2. Range(ring[y.sid]) \subseteq distilled
      BY <1>3, <3>1 DEF InShape, Snapshot
    <3>. QED BY <3>1, <3>2 DEF TypeOK
  <2>2. CASE ~Drop(r)
    BY <2>2 DEF RunnerStep, Receive, Scan, Pick, EndFlush, Read, Distil, Raise, Crash
  <2>. QED BY <2>1, <2>2
<1>6. x.task = "flush" =>
        /\ x.pc = "distil" => Range(ring[x.sid]) \subseteq x.seen
        /\ x.pc = "drop" => Range(ring[x.sid]) \subseteq distilled'
        /\ x.pc \in {"read", "distil", "drop"} =>
             \A t \in Turn : ~(turn[t].pc \in Recording /\ turn[t].sid = x.sid)
  <2>1. CASE Receive(r)
    <3>1. \/ x.pc = "scan"
          \/ x.task = "extract"
      BY <1>2, <2>1 DEF Receive, TypeOK, Free
    <3>. QED BY <3>1
  <2>2. CASE Scan(r) \/ EndFlush(r) \/ Crash(r)
    <3>1. x.pc \in {"pick", "free"}
      BY <1>2, <2>2 DEF Scan, EndFlush, Crash, TypeOK, RunnerState, Free
    <3>. QED BY <3>1
  <2>3. CASE \E s \in Session : Pick(r, s)
    <3>1. PICK s \in Session : Pick(r, s)
      BY <2>3
    <3>2. x.pc = "pick" \/ (x.pc = "read" /\ x.sid = s /\ throttle[s] = Never)
      <4> DEFINE skipped == [y EXCEPT !.todo = y.todo \ {s}, !.sid = Nobody]
                 picked  == [y EXCEPT !.todo = y.todo \ {s}, !.pc = "read",
                                      !.sid = s, !.seen = {}]
      <4>1. x = skipped \/ (x = picked /\ throttle[s] = Never)
        BY <1>2, <3>1 DEF Pick, TypeOK
      <4>2. skipped.pc = "pick"
        BY <1>3, <3>1 DEF Pick, RunnerState
      <4>3. picked.pc = "read" /\ picked.sid = s
        BY <1>3 DEF RunnerState
      <4>. HIDE DEF skipped, picked
      <4>. QED BY <4>1, <4>2, <4>3
    <3>3. throttle[s] = Never => ~Live(s)
      BY <3>1, NoHarm DEF Pick
    <3>4. throttle[s] = Never => \A t \in Turn : ~(turn[t].pc \in Recording /\ turn[t].sid = s)
      BY <3>3 DEF Live
    <3>. QED BY <3>2, <3>4
  <2>4. CASE Read(r)
    <3>1. \/ x.pc = "free"
          \/ x.pc = "distil" /\ x.sid = y.sid /\ x.task = y.task
             /\ x.seen = Range(ring[y.sid])
          \/ x.pc = "drop" /\ x.sid = y.sid /\ x.task = y.task /\ Range(ring[y.sid]) = {}
      <4>1. x = IF Range(ring[y.sid]) # {}
                  THEN [y EXCEPT !.pc = "distil", !.seen = Range(ring[y.sid])]
                ELSE IF y.task = "flush" THEN [y EXCEPT !.pc = "drop"]
                ELSE Free
        BY <1>2, <2>4 DEF Read, Reliable, Befall, TypeOK
      <4>2. Free.pc = "free"
        BY DEF Free
      <4>3. CASE Range(ring[y.sid]) # {}
        BY <1>3, <4>1, <4>3 DEF RunnerState
      <4>4. CASE Range(ring[y.sid]) = {} /\ y.task = "flush"
        BY <1>3, <4>1, <4>4 DEF RunnerState
      <4>. QED BY <4>1, <4>2, <4>3, <4>4
    <3>2. y.pc = "read"
      BY <2>4 DEF Read
    <3>. QED BY <1>3, <3>1, <3>2 DEF Snapshot
  <2>5. CASE Distil(r)
    <3>1. \/ x.pc = "free"
          \/ x.pc = "drop" /\ x.sid = y.sid /\ x.task = y.task
      BY <1>2, <2>5 DEF Distil, TypeOK, RunnerState, Free
    <3>2. y.pc = "distil" /\ distilled' = distilled \union y.seen
      BY <2>5 DEF Distil, Reliable, Befall
    <3>. QED BY <1>3, <3>1, <3>2 DEF Snapshot
  <2>6. CASE Raise(r)
    <3>1. x.pc \in {"pick", "free"}
      BY <1>2, <2>6 DEF Raise, TypeOK, RunnerState, Free
    <3>. QED BY <3>1
  <2>7. CASE Drop(r)
    <3>1. x.pc = "pick"
      BY <1>2, <2>7, NoHarm DEF Drop, TypeOK, RunnerState
    <3>. QED BY <3>1
  <2>. QED BY <2>1, <2>2, <2>3, <2>4, <2>5, <2>6, <2>7 DEF RunnerStep
<1>. QED BY <1>1, <1>3, <1>4, <1>5, <1>6, WorkerKeeps

\* An append by a turn of session s, which no flush has in hand.
LEMMA AppendKeeps ==
  ASSUME TypeOK, Shape, Kept, NEW s \in Session, NEW t \in Turn, NEW m \in Message,
         NEW X, Append1(s, m, X), UNCHANGED <<idleSince, runner, distilled>>,
         turn'[t].sid = s, turn'[t].pc \in Recording,
         \A u \in Turn : u # t => turn'[u] = turn[u],
         \/ turn[t].pc = "todo" /\ ~Flushing(s)
         \/ turn[t].pc \in Recording /\ turn[t].sid = s
  PROVE  Kept'
<1>1. /\ \A u \in Session : u # s => ring'[u] = ring[u]
      /\ Live(s)'
  BY RingStep DEF Live
<1>2. \A r \in Runner : runner[r].task = "flush" /\ runner[r].pc \in {"read", "distil", "drop"}
        => runner[r].sid # s /\ runner[r].sid \in Session
  BY DEF Flushing, Kept, Snapshot, Shape
<1>3. ASSUME NEW r \in Runner PROVE Snapshot(runner[r])'
  BY <1>1, <1>2 DEF Kept, Snapshot
<1>4. Cover'
  <2>1. ASSUME NEW u \in Session, u # s, Live(u) PROVE Live(u)'
    <3>1. PICK v \in Turn : turn[v].pc \in Recording /\ turn[v].sid = u
      BY <2>1 DEF Live
    <3>2. v # t
      BY <2>1, <3>1 DEF Recording
    <3>. QED BY <3>1, <3>2 DEF Live
  <2>. QED BY <1>1, <2>1 DEF Kept, Cover
<1>. QED BY <1>3, <1>4 DEF Kept

\* An undistilled message keeps its session in the flush's list.
LEMMA AlwaysKept == Spec => []Inv
<1>1. Init => Inv
  BY DEF Init, Inv, Kept, Cover, Snapshot, Free, Range
<1>2. TypeOK /\ Shape /\ Inv /\ [Next]_vars => Inv'
  <2> SUFFICES ASSUME TypeOK, Shape, Inv, [Next]_vars, Reliable' PROVE Kept'
    BY DEF Inv
  <2>0. Kept
    BY MishapsGrow DEF Inv, Reliable
  <2>1. ASSUME NEW t \in Turn, NEW s \in Session, AppendUser(t, s) PROVE Kept'
    <3>1. <<t, "user">> \in Message /\ "user" \in Recording
      BY DEF Message, Recording
    <3>2. ~Flushing(s)
      BY <2>1 DEF AppendUser, Append1, Befall, Reliable
    <3>. QED BY <2>0, <2>1, <3>1, <3>2, OpenMoves, AppendKeeps DEF AppendUser
  <2>2. ASSUME NEW t \in Turn, AppendReply(t) PROVE Kept'
    <3>1. <<t, "gia">> \in Message /\ {"user", "gia"} \subseteq Recording
      BY DEF Message, Recording
    <3>2. /\ turn[t].sid \in Session /\ turn'[t].sid = turn[t].sid
          /\ turn'[t].pc = "gia" /\ \A u \in Turn : u # t => turn'[u] = turn[u]
      BY <2>2, TurnMoves DEF TurnStep, AppendReply, TypeOK, TurnState
    <3>. QED BY <2>0, <2>2, <3>1, <3>2, AppendKeeps DEF AppendReply
  <2>3. ASSUME NEW t \in Turn, Note(t) \/ Enqueue(t) PROVE Kept'
    <3>1. /\ UNCHANGED <<ring, runner, distilled>>
          /\ turn[t].sid \in Session /\ turn'[t].pc \in {"noted", "done"}
          /\ \A u \in Turn : u # t => turn'[u] = turn[u]
      <4>1. UNCHANGED <<ring, runner, distilled>>
        BY <2>3 DEF Note, Enqueue
      <4>2. PICK pc \in {"noted", "done"} : turn' = [turn EXCEPT ![t].pc = pc]
        BY <2>3 DEF Note, Enqueue
      <4>. QED BY <2>3, <4>1, <4>2, TurnMoves DEF TurnStep, TypeOK, TurnState
    <3>2. /\ \A s \in Session : idleSince'[s] = idleSince[s] \/ idleSince'[s] # Never
          /\ turn[t].pc \in Recording => idleSince'[turn[t].sid] # Never
      BY <2>3, <3>1, TimeConstants, NoHarm DEF Note, Enqueue, Recording, TypeOK
    <3>3. ASSUME NEW r \in Runner PROVE Snapshot(runner[r])'
      BY <2>0, <3>1 DEF Kept, Snapshot, Recording
    <3>4. \A s \in Session : Live(s) => Live(s)' \/ idleSince'[s] # Never
      BY <3>1, <3>2 DEF Live
    <3>5. Cover'
      BY <2>0, <3>1, <3>2, <3>4 DEF Kept, Cover
    <3>. QED BY <2>0, <3>3, <3>5 DEF Kept
  <2>4. ASSUME NEW t \in Turn, Leave(t) PROVE Kept'
    BY <2>4 DEF Leave, Reliable, Befall
  <2>5. ASSUME NEW r \in Runner, RunnerStep(r) PROVE Kept'
    BY <2>0, <2>5, WorkerStepKeeps
  <2>6. CASE Tick \/ UNCHANGED vars \/ \E s \in Session : ExpireThrottle(s)
    BY <2>0, <2>6 DEF Tick, vars, ExpireThrottle, Kept, Cover, Snapshot, Live
  <2>7. ASSUME NEW s \in Session, ExpireRing(s) PROVE Kept'
    <3>1. /\ UNCHANGED <<turn, idleSince, runner, distilled>>
          /\ \A u \in Session : Range(ring'[u]) \subseteq Range(ring[u])
      BY <2>7 DEF ExpireRing, TypeOK, Range
    <3>2. Cover'
      BY <2>0, <3>1 DEF Kept, Cover, Live
    <3>3. ASSUME NEW r \in Runner PROVE Snapshot(runner[r])'
      BY <2>0, <3>1 DEF Kept, Snapshot, Shape
    <3>. QED BY <2>0, <3>2, <3>3 DEF Kept
  <2>. QED BY <2>1, <2>2, <2>3, <2>4, <2>5, <2>6, <2>7 DEF Next, TurnStep
<1>. QED BY <1>1, <1>2, Shaped, PTL DEF Spec

\* While Redis, the LLM and the client do their part, no message of a history
\* is forgotten before it is distilled: crashed workers and extractions that
\* raise are made up for by the flush.
THEOREM NeverForgotten == Spec => []NothingForgotten
  BY AlwaysKept, InvImplies, PTL

-----------------------------------------------------------------------------
(* What leaves gia:pending_flush.                                          *)

\* A flush works on a session that no turn is recording; it distils a transcript that is
\* not empty, and without one drops a session that has no history.
Clean(x) ==
  /\ x.task = "flush" /\ x.pc \in {"read", "distil", "drop"} => ~Live(x.sid)
  /\ x.pc = "distil" => x.seen # {}
  /\ x.pc = "drop" => x.seen # {} \/ ring[x.sid] = <<>>

Calm == {"redis", "return"} \intersect mishap = {}

CleanHeld == Calm => \A r \in Runner : Clean(runner[r])

LEMMA NoRange ==
  ASSUME NEW q \in Seq(Message), Range(q) = {}
  PROVE  q = <<>>
<1>1. \A i \in 1..Len(q) : q[i] \in Range(q)
  BY DEF Range
<1>2. Len(q) = 0
  BY <1>1
<1>. QED BY <1>2

\* A step of a flush or an extraction keeps its record clean.
LEMMA WorkerCleans ==
  ASSUME TypeOK, Shape, Calm', NEW r \in Runner, RunnerStep(r), Clean(runner[r])
  PROVE  Clean(runner[r])'
<1> DEFINE y == runner[r]
<1>0. /\ UNCHANGED <<turn, ring>> /\ y \in RunnerState
      /\ y.pc \in {"read", "distil", "drop"} => y.sid \in Session
      /\ \A s \in Session : Live(s)' <=> Live(s)
  BY WorkerStep DEF TypeOK, Shape, Live
<1>1. ~Befall({"redis"}) /\ \A X : "return" \in X \/ "redis" \in X => ~Befall(X)
  BY DEF Calm, Befall
<1>2. ASSUME runner'[r].pc \in {"free", "scan", "pick"} PROVE Clean(runner[r])'
  BY <1>2 DEF Clean
<1>3. CASE Scan(r) \/ EndFlush(r) \/ Raise(r) \/ Drop(r) \/ Crash(r)
  <2>1. runner'[r].pc \in {"free", "scan", "pick"}
    <3>1. CASE Scan(r)
      BY <3>1 DEF Scan, TypeOK, RunnerState
    <3>2. CASE EndFlush(r) \/ Crash(r)
      BY <3>2 DEF EndFlush, Crash, Free, TypeOK
    <3>3. CASE Raise(r)
      BY <3>3 DEF Raise, Free, TypeOK, RunnerState
    <3>4. CASE Drop(r)
      BY <1>1, <3>4 DEF Drop, TypeOK, RunnerState
    <3>. QED BY <1>3, <3>1, <3>2, <3>3, <3>4
  <2>. QED BY <1>2, <2>1
<1>4. CASE Receive(r)
  <2>1. \/ runner'[r].pc = "scan"
        \/ runner'[r].pc = "read" /\ runner'[r].task = "extract"
    BY <1>4 DEF Receive, Free, TypeOK
  <2>. QED BY <1>2, <2>1 DEF Clean
<1>5. ASSUME NEW s \in Session, Pick(r, s) PROVE Clean(runner[r])'
  <2>1. CASE throttle[s] # Never
    <3>1. runner'[r].pc = "pick"
      BY <1>5, <2>1 DEF Pick, TypeOK, RunnerState
    <3>. QED BY <1>2, <3>1
  <2>2. CASE throttle[s] = Never
    <3>1. runner'[r].pc = "read" /\ runner'[r].sid = s
      BY <1>5, <2>2 DEF Pick, TypeOK, RunnerState
    <3>2. Befall({x \in {"return"} : throttle[s] = Never /\ Live(s)})
      BY <1>5 DEF Pick
    <3>3. ~Live(s)
      BY <1>1, <2>2, <3>2
    <3>. QED BY <1>0, <3>1, <3>3 DEF Clean
  <2>. QED BY <2>1, <2>2
<1>6. CASE Read(r)
  <2>1. PICK seen \in {Range(ring[y.sid]), {}} :
          /\ Befall({x \in {"redis"} : seen # Range(ring[y.sid])})
          /\ runner' = [runner EXCEPT ![r] =
               IF seen # {} THEN [@ EXCEPT !.pc = "distil", !.seen = seen]
               ELSE IF @.task = "flush" THEN [@ EXCEPT !.pc = "drop"]
               ELSE Free]
    BY <1>6 DEF Read
  <2>2. seen = Range(ring[y.sid])
    BY <1>1, <2>1
  <2>3. y.pc = "read" /\ y.sid \in Session /\ (y.task = "flush" => ~Live(y.sid))
    BY <1>0, <1>6 DEF Read, Clean
  <2>4. CASE seen # {}
    <3>1. /\ runner'[r].pc = "distil" /\ runner'[r].seen = seen
          /\ runner'[r].task = y.task /\ runner'[r].sid = y.sid
      BY <2>1, <2>4 DEF TypeOK, RunnerState
    <3>. QED BY <1>0, <2>3, <2>4, <3>1 DEF Clean
  <2>5. CASE seen = {} /\ y.task = "flush"
    <3>1. /\ runner'[r].pc = "drop" /\ runner'[r].task = y.task
          /\ runner'[r].sid = y.sid
      BY <2>1, <2>5 DEF TypeOK, RunnerState
    <3>2. ring[y.sid] = <<>>
      BY <2>2, <2>3, <2>5, NoRange DEF TypeOK
    <3>. QED BY <1>0, <2>3, <2>5, <3>1, <3>2 DEF Clean
  <2>6. CASE seen = {} /\ y.task # "flush"
    <3>1. runner'[r].pc = "free"
      BY <2>1, <2>6 DEF TypeOK, RunnerState, Free
    <3>. QED BY <1>2, <3>1
  <2>. QED BY <2>4, <2>5, <2>6
<1>7. CASE Distil(r)
  <2>1. y.pc = "distil" /\ y.seen # {} /\ y.sid \in Session
        /\ (y.task = "flush" => ~Live(y.sid))
    BY <1>0, <1>7 DEF Distil, Clean
  <2>2. CASE y.task = "flush"
    <3>1. /\ runner'[r].pc = "drop" /\ runner'[r].seen = y.seen
          /\ runner'[r].sid = y.sid
      BY <1>7, <2>2 DEF Distil, TypeOK, RunnerState
    <3>. QED BY <1>0, <2>1, <2>2, <3>1 DEF Clean
  <2>3. CASE y.task # "flush"
    <3>1. runner'[r].pc = "free"
      BY <1>7, <2>3 DEF Distil, TypeOK, RunnerState, Free
    <3>. QED BY <1>2, <3>1
  <2>. QED BY <2>2, <2>3
<1>. QED BY <1>3, <1>4, <1>5, <1>6, <1>7 DEF RunnerStep

\* A flush in hand that a step of the others leaves alone stays clean.
LEMMA CleanStep ==
  ASSUME TypeOK, Shape, CleanHeld, [Next]_vars
  PROVE  CleanHeld'
<1> SUFFICES ASSUME Calm', NEW r \in Runner PROVE Clean(runner[r])'
  BY DEF CleanHeld
<1>0. Calm /\ \A q \in Runner : Clean(runner[q])
  BY MishapsGrow DEF Calm, CleanHeld
<1> DEFINE y == runner[r]
<1>1. /\ y.pc \in {"read", "distil", "drop"} => y.sid \in Session
      /\ y.pc = "drop" => y.task = "flush"
  BY DEF Shape
<1>2. ASSUME runner'[r] = y,
             y.task = "flush" /\ y.pc \in {"read", "distil", "drop"} /\ Live(y.sid)'
               => Live(y.sid),
             y.pc = "drop" /\ ring[y.sid] = <<>> => ring'[y.sid] = <<>>
      PROVE  Clean(runner[r])'
  BY <1>0, <1>2 DEF Clean
<1>3. ASSUME NEW t \in Turn, TurnStep(t) PROVE Clean(runner[r])'
  <2>1. \A s \in Session : Live(s)' => Live(s)
    <3>1. turn[t].pc \in Recording \/ turn'[t].pc \notin Recording
      BY <1>3 DEF TurnStep, AppendReply, Note, Enqueue, Leave, Recording, TypeOK, TurnState
    <3>. QED BY <1>3, <3>1, TurnMoves DEF Live
  <2>2. ASSUME y.pc = "drop", ring[y.sid] = <<>> PROVE ring'[y.sid] = <<>>
    <3>1. CASE AppendReply(t)
      <4>1. ~Live(y.sid) /\ y.sid \in Session
        BY <1>0, <1>1, <2>2 DEF Clean
      <4>2. turn[t].sid # y.sid
        BY <3>1, <4>1 DEF AppendReply, Live, Recording
      <4>3. <<t, "gia">> \in Message /\ Append1(turn[t].sid, <<t, "gia">>, {})
        BY <3>1 DEF AppendReply, Message
      <4>4. turn[t].sid \in Session
        BY <1>3, TurnMoves
      <4>5. ring'[y.sid] = ring[y.sid]
        BY <4>1, <4>2, <4>3, <4>4, RingStep
      <4>. QED BY <2>2, <4>5
    <3>2. CASE ~AppendReply(t)
      BY <1>3, <2>2, <3>2 DEF TurnStep, Note, Enqueue, Leave
    <3>. QED BY <3>1, <3>2
  <2>. QED BY <1>1, <1>2, <1>3, <2>1, <2>2, TurnMoves
<1>4. ASSUME NEW t \in Turn, NEW s \in Session, AppendUser(t, s) PROVE Clean(runner[r])'
  <2>1. runner' = runner /\ Append1(s, <<t, "user">>, {x \in {"return"} : Flushing(s)})
    BY <1>4 DEF AppendUser
  <2>2. ~Flushing(s)
    BY <2>1 DEF Append1, Befall, Calm
  <2>3. y.task = "flush" /\ y.pc \in {"read", "distil", "drop"} => y.sid # s
    BY <2>2 DEF Flushing
  <2>4. \A u \in Session : u # s /\ Live(u)' => Live(u)
    BY <1>4, OpenMoves DEF Live
  <2>5. \A u \in Session : u # s => ring'[u] = ring[u]
    BY <2>1, RingStep DEF Message
  <2>. QED BY <1>1, <1>2, <2>1, <2>3, <2>4, <2>5
<1>5. ASSUME NEW q \in Runner, RunnerStep(q) PROVE Clean(runner[r])'
  <2>1. CASE q = r
    BY <1>0, <1>5, <2>1, WorkerCleans
  <2>2. CASE q # r
    <3>1. runner'[r] = y /\ UNCHANGED <<turn, ring>>
      BY <1>5, <2>2, WorkerStep, RunnerShape
    <3>. QED BY <1>2, <3>1 DEF Live
  <2>. QED BY <2>1, <2>2
<1>6. ASSUME NEW s \in Session, ExpireRing(s) \/ ExpireThrottle(s) PROVE Clean(runner[r])'
  <2>1. /\ UNCHANGED <<turn, runner>>
        /\ ring' = ring \/ ring' = [ring EXCEPT ![s] = <<>>]
    BY <1>6 DEF ExpireRing, ExpireThrottle
  <2>2. \A u \in Session : ring[u] = <<>> => ring'[u] = <<>>
    BY <2>1 DEF TypeOK
  <2>. QED BY <1>1, <1>2, <2>1, <2>2 DEF Live
<1>7. CASE Tick \/ UNCHANGED vars
  <2>1. UNCHANGED <<turn, ring, runner>>
    BY <1>7 DEF Tick, vars
  <2>. QED BY <1>2, <2>1 DEF Live
<1>. QED BY <1>3, <1>4, <1>5, <1>6, <1>7 DEF Next

\* A session leaves gia:pending_flush by a flush that drops it.
LEMMA OnlyDropped ==
  ASSUME TypeOK, Shape, [Next]_vars, NEW s \in Session,
         idleSince[s] # Never, idleSince'[s] = Never
  PROVE  \E r \in Runner : Drop(r) /\ runner[r].sid = s
<1>1. ASSUME NEW t \in Turn, TurnStep(t) PROVE FALSE
  <2>1. idleSince' = idleSince \/ idleSince' = [idleSince EXCEPT ![turn[t].sid] = now]
    BY <1>1 DEF TurnStep, AppendReply, Note, Enqueue, Leave
  <2>. QED BY <2>1, TimeConstants DEF TypeOK
<1>2. ASSUME NEW t \in Turn, AppendUser(t, s) PROVE FALSE
  BY <1>2 DEF AppendUser
<1>3. ASSUME NEW r \in Runner, RunnerStep(r), ~Drop(r) PROVE FALSE
  BY <1>3 DEF RunnerStep, Receive, Scan, Pick, EndFlush, Read, Distil, Raise, Crash
<1>4. ASSUME NEW r \in Runner, Drop(r) PROVE runner[r].sid = s
  <2>1. idleSince' = [idleSince EXCEPT ![runner[r].sid] = Never] \/ idleSince' = idleSince
    BY <1>4 DEF Drop
  <2>. QED BY <2>1 DEF TypeOK
<1>5. idleSince' # idleSince
  OBVIOUS
<1>. QED
  BY <1>1, <1>3, <1>4, <1>5 DEF Next, RunnerStep, AppendUser, Tick, ExpireRing, ExpireThrottle, vars

\* A session leaves the flush's list with an extraction, or because it has no history, as
\* long as Redis answers and nobody comes back meanwhile.
THEOREM OnlyStaleDropped == Spec => DropsOnlyStale
<1> DEFINE Held == TypeOK /\ Shape /\ CleanHeld
<1>1. Init => CleanHeld
  BY DEF Init, CleanHeld, Clean, Free
<1>2. TypeOK /\ Shape /\ CleanHeld /\ [Next]_vars => CleanHeld'
  BY CleanStep
<1>3. Held /\ [Next]_vars =>
        [\A s \in Session :
           {"redis", "return"} \intersect mishap' = {} /\ idleSince[s] # Never
             /\ idleSince'[s] = Never
           => \/ ring[s] = <<>>
              \/ \E r \in Runner : runner[r].sid = s /\ runner[r].seen # {}]_vars
  <2> SUFFICES ASSUME Held, [Next]_vars, NEW s \in Session, Calm',
                      idleSince[s] # Never, idleSince'[s] = Never
               PROVE  \/ ring[s] = <<>>
                      \/ \E r \in Runner : runner[r].sid = s /\ runner[r].seen # {}
    BY DEF Calm
  <2>1. PICK r \in Runner : Drop(r) /\ runner[r].sid = s
    BY OnlyDropped
  <2>2. Calm
    BY MishapsGrow DEF Calm
  <2>3. Clean(runner[r]) /\ runner[r].pc = "drop"
    BY <2>1, <2>2 DEF CleanHeld, Drop
  <2>. QED BY <2>1, <2>3 DEF Clean
<1>. QED BY <1>1, <1>2, <1>3, Shaped, PTL DEF Spec, DropsOnlyStale

-----------------------------------------------------------------------------
(* In time: with nothing going wrong, a history is distilled before its    *)
(* two hours are over.                                                     *)

InQueue(e) == \E i \in DOMAIN queue : queue[i] = e

\* A task with record x is about to distil message m of session s.
HandledBy(x, s, m) ==
  /\ x.sid = s
  /\ x.pc = "read" \/ (x.pc = "distil" /\ m \in x.seen)

Handled(s, m) == InQueue(s) \/ \E r \in Runner : HandledBy(runner[r], s, m)

\* A flush with record x will come to session s.
ComingBy(x, s) ==
  /\ x.task = "flush" /\ x.pc # "free"
  /\ x.pc = "scan" \/ s \in x.todo

Coming(s) == InQueue(Nobody) \/ \E r \in Runner : ComingBy(runner[r], s)

Open(s) == \E t \in Turn : turn[t].sid = s /\ turn[t].pc \in Recording \union {"noted"}

\* Instant n is no more than the life of a throttle after the last message of s.
Within(n, s) == n + HistoryTTL <= expires[s] + ThrottleTTL

IsBeat(n) == \E q \in Nat : n = Beat * q

\* A message of s that is not distilled has time left.  While no task has it in hand, the
\* throttle runs out soon after it; once no turn is open, s was noted soon after it as
\* well, and a beat late enough to find s idle has a flush on its way to s.
Timely(s, m) ==
  /\ now < expires[s]
  /\ ~Handled(s, m) /\ throttle[s] # Never => Within(throttle[s], s)
  /\ ~Handled(s, m) /\ ~Open(s) =>
       /\ Within(idleSince[s], s)
       /\ \A n \in 0..now : IsBeat(n) =>
            Coming(s) \/ n + HistoryTTL <= expires[s] + ThrottleTTL + Idle

Clocked(s) ==
  /\ now <= throttle[s]
  /\ throttle[s] # Never => throttle[s] <= now + ThrottleTTL
  /\ idleSince[s] # Never => idleSince[s] <= now

BeatsGoOn == \E n \in 0..now : IsBeat(n) /\ now < n + Beat

InTime ==
  /\ BeatsGoOn
  /\ \A s \in Session : Clocked(s) /\ \A m \in Range(ring[s]) \ distilled : Timely(s, m)

TimeHeld == mishap = {} => InTime

LEMMA BeatArithmetic ==
  /\ IsBeat(0)
  /\ \A n \in Nat : IsBeat(n) => n % Beat = 0 /\ IsBeat(n + Beat)
<1>0. Beat \in Nat \ {0}
  BY SessionConstants DEF SessionConstants
<1>1. IsBeat(0)
  <2>1. 0 = Beat * 0
    BY <1>0
  <2>. QED BY <2>1 DEF IsBeat
<1>2. ASSUME NEW q \in Nat PROVE (Beat * q) % Beat = 0
  <2>1. \A b \in Nat \ {0}, x \in Nat : x = b * q => x % b = 0
    OBVIOUS
  <2>. QED BY <1>0, <2>1
<1>3. ASSUME NEW q \in Nat PROVE Beat * q + Beat = Beat * (q + 1)
  BY <1>0
<1>. QED BY <1>1, <1>2, <1>3 DEF IsBeat

\* A step that leaves the clock and the ring's key of s alone, and takes nothing away.
LEMMA StaysTimely ==
  ASSUME NEW s \in Session, NEW m, Timely(s, m), now' = now, expires'[s] = expires[s],
         throttle'[s] \in {throttle[s], Never}, idleSince'[s] = idleSince[s],
         Handled(s, m) => Handled(s, m)', Open(s) => Open(s)', Coming(s) => Coming(s)'
  PROVE  Timely(s, m)'
  BY DEF Timely, Within

\* A throttle that still runs, with m in no task's hands, shows the beats to be early.
LEMMA ThrottledIsEarly ==
  ASSUME TypeOK, NEW s \in Session, NEW m, Timely(s, m), Clocked(s), ~Handled(s, m),
         throttle[s] # Never
  PROVE  /\ \A n \in 0..now : n + HistoryTTL <= expires[s] + ThrottleTTL + Idle
         /\ idleSince[s] # Never => Within(idleSince[s], s)
<1>1. /\ now \in Nat /\ throttle[s] \in Nat /\ expires[s] \in Nat /\ idleSince[s] \in Nat
      /\ HistoryTTL \in Nat /\ ThrottleTTL \in Nat /\ Idle \in Nat
  BY TimeConstants DEF TypeOK, Instant
<1>2. now <= throttle[s] /\ throttle[s] + HistoryTTL <= expires[s] + ThrottleTTL
  BY DEF Timely, Within, Clocked
<1>3. idleSince[s] # Never => idleSince[s] <= now
  BY DEF Clocked
<1>. QED BY <1>1, <1>2, <1>3 DEF Within

\* With nothing going wrong, an append renews the key or does nothing.
LEMMA AppendInTime ==
  ASSUME TypeOK, Shape, InTime, mishap' = {}, NEW s \in Session, NEW t \in Turn,
         NEW m \in Message, NEW X, Append1(s, m, X),
         UNCHANGED <<now, idleSince, throttle, queue, runner, distilled>>,
         turn'[t].sid = s, turn'[t].pc \in Recording,
         turn[t].pc = "todo" \/ turn[t].sid = s,
         \A u \in Turn : u # t => turn'[u] = turn[u]
  PROVE  InTime'
<1>1. \/ /\ ring' = [ring EXCEPT ![s] = LastOf(Append(@, m))]
         /\ expires' = [expires EXCEPT ![s] = now + HistoryTTL]
      \/ UNCHANGED <<ring, expires>>
  BY DEF Append1, Befall
<1>2. \A u \in Session : Clocked(u)' <=> Clocked(u)
  BY DEF Clocked
<1>3. BeatsGoOn'
  BY DEF InTime, BeatsGoOn
<1>4. Open(s)' /\ \A u \in Session : u # s /\ Open(u) => Open(u)'
  BY DEF Open, Recording
<1>5. \A u \in Session : Coming(u)' <=> Coming(u)
  BY DEF Coming, InQueue
<1>6. \A u \in Session : \A x : Handled(u, x)' <=> Handled(u, x)
  BY DEF Handled, InQueue
<1>7. ASSUME NEW u \in Session, NEW x \in Range(ring'[u]) \ distilled' PROVE Timely(u, x)'
  <2>1. CASE ring'[u] = ring[u] /\ expires'[u] = expires[u]
    <3>1. Timely(u, x)
      BY <1>7, <2>1 DEF InTime
    <3>. QED BY <1>4, <1>5, <1>6, <2>1, <3>1, StaysTimely
  <2>2. CASE ~(ring'[u] = ring[u] /\ expires'[u] = expires[u])
    <3>1. u = s /\ expires'[s] = now + HistoryTTL
      BY <1>1, <2>2 DEF TypeOK
    <3>2. throttle'[s] # Never => throttle'[s] <= now + ThrottleTTL
      BY DEF InTime, Clocked
    <3>3. throttle'[s] \in Nat /\ now \in Nat /\ now' = now /\ HistoryTTL \in Nat \ {0}
          /\ ThrottleTTL \in Nat
      BY TimeConstants DEF TypeOK, Instant
    <3>4. now' < expires'[s] /\ (throttle'[s] # Never => Within(throttle[s], s)')
      BY <3>1, <3>2, <3>3 DEF Within
    <3>. QED BY <1>4, <3>1, <3>4 DEF Timely
  <2>. QED BY <2>1, <2>2
<1>. QED BY <1>2, <1>3, <1>7 DEF InTime

LEMMA NoteInTime ==
  ASSUME TypeOK, Shape, InTime, mishap' = {}, NEW t \in Turn, Note(t)
  PROVE  InTime'
<1> DEFINE s == turn[t].sid
<1>1. /\ UNCHANGED <<now, ring, expires, throttle, queue, runner, distilled>>
      /\ idleSince' = [idleSince EXCEPT ![s] = now]
      /\ turn' = [turn EXCEPT ![t].pc = "noted"]
  BY DEF Note, Befall
<1>2. s \in Session /\ turn'[t].sid = s /\ turn'[t].pc = "noted"
      /\ \A u \in Turn : u # t => turn'[u] = turn[u]
  <2>1. turn'[t].pc = "noted"
    BY <1>1 DEF TypeOK, TurnState
  <2>. QED BY <2>1, TurnMoves DEF TurnStep
<1>3. \A u \in Session : Clocked(u)'
  BY <1>1, <1>2 DEF InTime, Clocked, TypeOK
<1>4. BeatsGoOn'
  BY <1>1 DEF InTime, BeatsGoOn
<1>5. Open(s)' /\ \A u \in Session : u # s /\ Open(u) => Open(u)'
  BY <1>2 DEF Open
<1>6. /\ \A u \in Session : Coming(u)' <=> Coming(u)
      /\ \A u \in Session : \A x : Handled(u, x)' <=> Handled(u, x)
  BY <1>1 DEF Coming, Handled, InQueue
<1>7. ASSUME NEW u \in Session, NEW x \in Range(ring'[u]) \ distilled' PROVE Timely(u, x)'
  <2>1. Timely(u, x)
    BY <1>1, <1>7 DEF InTime
  <2>2. CASE u = s
    BY <1>1, <1>5, <1>6, <2>1, <2>2 DEF Timely, Within
  <2>3. CASE u # s
    <3>1. idleSince'[u] = idleSince[u]
      BY <1>1, <2>3 DEF TypeOK
    <3>. QED BY <1>1, <1>5, <1>6, <2>1, <2>3, <3>1, StaysTimely
  <2>. QED BY <2>2, <2>3
<1>. QED BY <1>3, <1>4, <1>7 DEF InTime

\* The queue with one more task in it.
LEMMA QueueGrows ==
  ASSUME TypeOK, NEW e \in Session \union {Nobody}, queue' = Append(queue, e),
         runner' = runner
  PROVE  /\ InQueue(e)' /\ \A u : InQueue(u) => InQueue(u)'
         /\ \A u : Coming(u) => Coming(u)'
         /\ \A u, x : Handled(u, x) => Handled(u, x)'
<1>1. queue \in Seq(Session \union {Nobody})
  BY DEF TypeOK
<1>2. /\ Len(queue') = Len(queue) + 1 /\ DOMAIN queue' = 1..Len(queue')
      /\ queue'[Len(queue) + 1] = e
      /\ \A i \in 1..Len(queue) : queue'[i] = queue[i]
      /\ DOMAIN queue = 1..Len(queue) /\ Len(queue) \in Nat
  BY <1>1
<1>3. InQueue(e)' /\ \A u : InQueue(u) => InQueue(u)'
  <2>1. Len(queue) + 1 \in DOMAIN queue' /\ DOMAIN queue \subseteq DOMAIN queue'
    BY <1>2
  <2>. QED BY <1>2, <2>1 DEF InQueue
<1>. QED BY <1>3 DEF Coming, Handled

LEMMA EnqueueInTime ==
  ASSUME TypeOK, Shape, InTime, Kept', mishap' = {}, NEW t \in Turn, Enqueue(t)
  PROVE  InTime'
<1> DEFINE s == turn[t].sid
<1>1. /\ UNCHANGED <<now, ring, expires, idleSince, runner, distilled>>
      /\ \/ throttle[s] # Never /\ UNCHANGED <<throttle, queue>>
         \/ /\ throttle[s] = Never
            /\ throttle' = [throttle EXCEPT ![s] = now + ThrottleTTL]
            /\ queue' = Append(queue, s)
  BY DEF Enqueue, Befall
<1>2. s \in Session /\ \A u \in Turn : u # t => turn'[u] = turn[u]
  BY TurnMoves DEF TurnStep
<1>3. now \in Nat /\ ThrottleTTL \in Nat
  BY TimeConstants DEF TypeOK
<1>4. ASSUME NEW u \in Session PROVE Clocked(u)'
  <2>1. throttle'[u] = throttle[u] \/ throttle'[u] = now + ThrottleTTL
    BY <1>1, <1>2 DEF TypeOK
  <2>2. Clocked(u)
    BY DEF InTime
  <2>. QED BY <1>1, <1>3, <2>1, <2>2 DEF Clocked
<1>5. BeatsGoOn'
  BY <1>1 DEF InTime, BeatsGoOn
<1>6. \A u \in Session : u # s /\ Open(u) => Open(u)'
  BY <1>2 DEF Open
<1>7. /\ \A u : Coming(u) => Coming(u)'
      /\ \A u, x : Handled(u, x) => Handled(u, x)'
  <2>1. CASE queue' = queue
    BY <1>1, <2>1 DEF Coming, Handled, InQueue
  <2>2. CASE queue' = Append(queue, s)
    BY <1>1, <1>2, <2>2, QueueGrows
  <2>. QED BY <1>1, <2>1, <2>2
<1>8. ASSUME NEW u \in Session, NEW x \in Range(ring'[u]) \ distilled' PROVE Timely(u, x)'
  <2>1. Timely(u, x) /\ Clocked(u)
    BY <1>1, <1>8 DEF InTime
  <2>2. CASE u # s
    <3>1. throttle'[u] = throttle[u]
      BY <1>1, <2>2 DEF TypeOK
    <3>. QED BY <1>1, <1>6, <1>7, <2>1, <2>2, <3>1, StaysTimely
  <2>3. CASE u = s /\ throttle[s] = Never
    <3>1. Handled(u, x)'
      BY <1>1, <1>2, <2>3, QueueGrows DEF Handled
    <3>. QED BY <1>1, <2>1, <3>1 DEF Timely
  <2>4. CASE u = s /\ throttle[s] # Never
    <3>1. UNCHANGED <<now, expires, throttle, idleSince>>
      BY <1>1, <2>4
    <3>2. ~Handled(u, x)' => ~Handled(u, x)
      BY <1>7
    <3>3. ~Open(u)' => idleSince[u] # Never
      <4>1. Live(u)' => Open(u)'
        BY DEF Live, Open
      <4>. QED BY <3>1, <4>1, <1>8 DEF Kept, Cover
    <3>. QED BY <2>1, <2>4, <3>1, <3>2, <3>3, ThrottledIsEarly DEF Timely, Within
  <2>. QED BY <2>2, <2>3, <2>4
<1>. QED BY <1>4, <1>5, <1>8 DEF InTime

\* What a step of the worker must do for the session s of an undistilled message m.
LEMMA WorkerStaysTimely ==
  ASSUME TypeOK, NEW r \in Runner, NEW s \in Session, NEW m, Timely(s, m),
         UNCHANGED <<now, turn, expires, throttle>>, idleSince'[s] = idleSince[s],
         queue' = queue, \A q \in Runner : q # r => runner'[q] = runner[q],
         HandledBy(runner[r], s, m) => HandledBy(runner'[r], s, m),
         ComingBy(runner[r], s) => Handled(s, m)' \/ Coming(s)'
  PROVE  Timely(s, m)'
<1>1. InQueue(s)' <=> InQueue(s)
  BY DEF InQueue
<1>2. InQueue(Nobody)' <=> InQueue(Nobody)
  BY DEF InQueue
<1>3. Handled(s, m) => Handled(s, m)'
  BY <1>1 DEF Handled
<1>4. Coming(s) => Handled(s, m)' \/ Coming(s)'
  BY <1>2 DEF Coming
<1>5. CASE Handled(s, m)'
  BY <1>5 DEF Timely
<1>6. CASE ~Handled(s, m)'
  BY <1>3, <1>4, <1>6, StaysTimely DEF Open
<1>. QED BY <1>5, <1>6

\* The broker's task moves from the queue to the process that receives it.
LEMMA ReceiveInTime ==
  ASSUME TypeOK, Shape, InTime, NEW r \in Runner, Receive(r), NEW s \in Session,
         NEW m \in Range(ring[s]) \ distilled
  PROVE  Timely(s, m)'
<1>1. /\ UNCHANGED <<now, turn, ring, expires, idleSince, throttle, distilled>>
      /\ queue # <<>> /\ queue' = Tail(queue) /\ runner[r].pc = "free"
      /\ \A q \in Runner : q # r => runner'[q] = runner[q]
      /\ Head(queue) = Nobody => runner'[r].pc = "scan" /\ runner'[r].task = "flush"
      /\ Head(queue) # Nobody => runner'[r].pc = "read" /\ runner'[r].sid = Head(queue)
  BY DEF Receive, Free, TypeOK
<1>2. /\ queue \in Seq(Session \union {Nobody}) /\ Len(queue) \in Nat /\ Len(queue) >= 1
      /\ Head(queue) = queue[1] /\ Len(queue') = Len(queue) - 1
      /\ \A i \in 1..Len(queue) - 1 : queue'[i] = queue[i + 1]
      /\ DOMAIN queue = 1..Len(queue) /\ DOMAIN queue' = 1..Len(queue) - 1
  <2>1. queue \in Seq(Session \union {Nobody}) /\ queue # <<>> /\ queue' = Tail(queue)
    BY <1>1 DEF TypeOK
  <2>. QED BY <2>1
<1>3. ASSUME NEW e, InQueue(e) PROVE e = Head(queue) \/ InQueue(e)'
  <2>1. PICK i \in 1..Len(queue) : queue[i] = e
    BY <1>2, <1>3 DEF InQueue
  <2>2. CASE i = 1
    BY <1>2, <2>1, <2>2
  <2>3. CASE i # 1
    <3>1. i - 1 \in 1..Len(queue) - 1 /\ (i - 1) + 1 = i
      BY <1>2, <2>3
    <3>2. queue'[i - 1] = e
      BY <1>2, <2>1, <3>1
    <3>. QED BY <1>2, <3>1, <3>2 DEF InQueue
  <2>. QED BY <2>2, <2>3
<1>4. Nobody \notin Session
  BY SessionConstants DEF SessionConstants
<1>5. Handled(s, m) => Handled(s, m)'
  <2>1. ASSUME InQueue(s), ~InQueue(s)' PROVE HandledBy(runner'[r], s, m)
    BY <1>1, <1>3, <1>4, <2>1 DEF HandledBy
  <2>2. ASSUME NEW q \in Runner, HandledBy(runner[q], s, m)
        PROVE  HandledBy(runner'[q], s, m)
    BY <1>1, <2>2 DEF HandledBy
  <2>. QED BY <2>1, <2>2 DEF Handled
<1>6. Coming(s) => Coming(s)'
  <2>1. ASSUME InQueue(Nobody), ~InQueue(Nobody)' PROVE ComingBy(runner'[r], s)
    BY <1>1, <1>3, <2>1 DEF ComingBy
  <2>2. ASSUME NEW q \in Runner, ComingBy(runner[q], s), q # r
        PROVE  ComingBy(runner'[q], s)
    BY <1>1, <2>2
  <2>3. ~ComingBy(runner[r], s)
    BY <1>1 DEF ComingBy
  <2>. QED BY <2>1, <2>2, <2>3 DEF Coming
<1>7. Timely(s, m)
  BY DEF InTime
<1>. QED BY <1>1, <1>5, <1>6, <1>7, StaysTimely DEF Open

LEMMA WorkerInTime ==
  ASSUME TypeOK, Shape, InTime, Kept, mishap' = {}, NEW r \in Runner, RunnerStep(r),
         NEW s \in Session, NEW m \in Range(ring[s]) \ distilled, m \notin distilled'
  PROVE  Timely(s, m)'
<1> DEFINE y == runner[r]
<1>0. /\ y \in RunnerState /\ Timely(s, m) /\ Clocked(s) /\ Snapshot(y)
      /\ UNCHANGED <<now, turn, ring, expires, throttle>>
      /\ \A q \in Runner : q # r => runner'[q] = runner[q]
  BY WorkerStep, RunnerShape DEF InTime, TypeOK, Kept
<1>1. /\ now \in Nat /\ idleSince[s] \in Nat /\ expires[s] \in Nat /\ throttle[s] \in Nat
      /\ HistoryTTL \in Nat /\ ThrottleTTL \in Nat /\ Idle \in Nat
  BY TimeConstants DEF TypeOK, Instant
<1>2. CASE Receive(r)
  BY <1>2, ReceiveInTime
<1>3. CASE Scan(r)
  <2>1. PICK members \in SUBSET Session :
          /\ \A u \in Session : idleSince[u] + Idle < now => u \in members
          /\ runner' = [runner EXCEPT ![r].pc = "pick", ![r].todo = members]
    BY <1>3 DEF Scan
  <2>2. /\ y.pc = "scan" /\ y.task = "flush" /\ queue' = queue /\ idleSince' = idleSince
        /\ runner'[r].pc = "pick" /\ runner'[r].todo = members /\ runner'[r].task = "flush"
    BY <1>3, <2>1 DEF Scan, Shape, TypeOK, RunnerState
  <2>3. CASE s \in members
    <3>1. ComingBy(runner'[r], s)
      BY <2>2, <2>3 DEF ComingBy
    <3>2. ~HandledBy(y, s, m)
      BY <2>2 DEF HandledBy
    <3>. QED BY <1>0, <2>2, <3>1, <3>2, WorkerStaysTimely DEF Coming
  <2>4. CASE s \notin members
    <3>1. now <= idleSince[s] + Idle
      BY <1>1, <2>1, <2>4
    <3>2. (Handled(s, m)' <=> Handled(s, m)) /\ (Open(s)' <=> Open(s))
      <4>1. ~HandledBy(y, s, m) /\ ~HandledBy(runner'[r], s, m)
        BY <2>2 DEF HandledBy
      <4>. QED BY <1>0, <2>2, <4>1 DEF Handled, InQueue, Open
    <3>3. ASSUME ~Handled(s, m), ~Open(s), NEW n \in 0..now
          PROVE  n + HistoryTTL <= expires[s] + ThrottleTTL + Idle
      BY <1>0, <1>1, <3>1, <3>3 DEF Timely, Within
    <3>. QED BY <1>0, <2>2, <3>2, <3>3 DEF Timely, Within
  <2>. QED BY <2>3, <2>4
<1>4. ASSUME NEW u \in Session, Pick(r, u) PROVE Timely(s, m)'
  <2>1. /\ y.pc = "pick" /\ y.task = "flush" /\ queue' = queue /\ idleSince' = idleSince
        /\ runner'[r].task = "flush" /\ runner'[r].todo = y.todo \ {u}
        /\ runner'[r].pc \in {"pick", "read"}
        /\ throttle[u] = Never => runner'[r].pc = "read" /\ runner'[r].sid = u
    BY <1>4 DEF Pick, Shape, TypeOK, RunnerState
  <2>2. ~HandledBy(y, s, m)
    BY <2>1 DEF HandledBy
  <2>3. CASE s # u
    <3>1. ComingBy(y, s) => ComingBy(runner'[r], s)
      BY <2>1, <2>3 DEF ComingBy
    <3>. QED BY <1>0, <2>1, <2>2, <3>1, WorkerStaysTimely DEF Coming
  <2>4. CASE s = u /\ throttle[u] = Never
    <3>1. HandledBy(runner'[r], s, m)
      BY <2>1, <2>4 DEF HandledBy
    <3>. QED BY <1>0, <2>1, <2>2, <3>1, WorkerStaysTimely DEF Handled
  <2>5. CASE s = u /\ throttle[u] # Never
    <3>1. ~Handled(s, m)' => ~Handled(s, m)
      BY <1>0, <2>1, <2>2 DEF Handled, InQueue
    <3>2. ~Handled(s, m) => \A n \in 0..now : n + HistoryTTL <= expires[s] + ThrottleTTL + Idle
      BY <1>0, <2>5, ThrottledIsEarly
    <3>. QED BY <1>0, <2>1, <3>1, <3>2 DEF Timely, Within, Open
  <2>. QED BY <2>3, <2>4, <2>5
<1>5. CASE EndFlush(r)
  <2>1. y.pc = "pick" /\ y.todo = {} /\ queue' = queue /\ idleSince' = idleSince
    BY <1>5 DEF EndFlush, Befall
  <2>2. ~HandledBy(y, s, m) /\ ~ComingBy(y, s)
    BY <2>1 DEF HandledBy, ComingBy
  <2>. QED BY <1>0, <2>1, <2>2, WorkerStaysTimely
<1>6. CASE Read(r)
  <2>1. /\ y.pc = "read" /\ queue' = queue /\ idleSince' = idleSince
        /\ runner'[r] = IF Range(ring[y.sid]) # {}
                          THEN [y EXCEPT !.pc = "distil", !.seen = Range(ring[y.sid])]
                        ELSE IF y.task = "flush" THEN [y EXCEPT !.pc = "drop"] ELSE Free
    BY <1>6 DEF Read, Befall, TypeOK
  <2>2. CASE Range(ring[y.sid]) # {}
    <3>1. /\ runner'[r].pc = "distil" /\ runner'[r].seen = Range(ring[y.sid])
          /\ runner'[r].sid = y.sid /\ runner'[r].task = y.task /\ runner'[r].todo = y.todo
      BY <1>0, <2>1, <2>2 DEF RunnerState
    <3>2. HandledBy(y, s, m) => HandledBy(runner'[r], s, m)
      BY <3>1 DEF HandledBy
    <3>3. ComingBy(y, s) => ComingBy(runner'[r], s)
      BY <2>1, <3>1 DEF ComingBy
    <3>. QED BY <1>0, <2>1, <3>2, <3>3, WorkerStaysTimely DEF Coming
  <2>3. CASE Range(ring[y.sid]) = {}
    <3>1. ~HandledBy(y, s, m)
      BY <2>3 DEF HandledBy
    <3>2. ASSUME ComingBy(y, s) PROVE ComingBy(runner'[r], s)
      <4>1. y.task = "flush" /\ s \in y.todo
        BY <2>1, <3>2 DEF ComingBy
      <4>2. runner'[r].pc = "drop" /\ runner'[r].task = "flush" /\ s \in runner'[r].todo
        BY <1>0, <2>1, <2>3, <4>1 DEF RunnerState
      <4>. QED BY <4>2 DEF ComingBy
    <3>. QED BY <1>0, <2>1, <3>1, <3>2, WorkerStaysTimely DEF Coming
  <2>. QED BY <2>2, <2>3
<1>7. CASE Distil(r)
  <2>1. /\ y.pc = "distil" /\ queue' = queue /\ idleSince' = idleSince
        /\ distilled' = distilled \union y.seen
        /\ runner'[r] = IF y.task = "flush" THEN [y EXCEPT !.pc = "drop"] ELSE Free
    BY <1>7 DEF Distil, Befall, TypeOK
  <2>2. ~HandledBy(y, s, m)
    BY <2>1 DEF HandledBy
  <2>3. ASSUME ComingBy(y, s) PROVE ComingBy(runner'[r], s)
    <3>1. y.task = "flush" /\ s \in y.todo
      BY <2>1, <2>3 DEF ComingBy
    <3>2. runner'[r].pc = "drop" /\ runner'[r].task = "flush" /\ s \in runner'[r].todo
      BY <1>0, <2>1, <3>1 DEF RunnerState
    <3>. QED BY <3>2 DEF ComingBy
  <2>. QED BY <1>0, <2>1, <2>2, <2>3, WorkerStaysTimely DEF Coming
<1>8. CASE Drop(r)
  <2>1. /\ y.pc = "drop" /\ y.task = "flush" /\ queue' = queue
        /\ idleSince' = [idleSince EXCEPT ![y.sid] = Never]
        /\ runner' = [runner EXCEPT ![r].pc = "pick", ![r].sid = Nobody, ![r].seen = {}]
    BY <1>8 DEF Drop, Befall, Shape
  <2>2. y.sid # s
    BY <1>0, <2>1 DEF Snapshot
  <2>3. idleSince'[s] = idleSince[s]
    BY <2>1, <2>2 DEF TypeOK
  <2>4. ~HandledBy(y, s, m)
    BY <2>1 DEF HandledBy
  <2>5. /\ runner'[r].pc = "pick" /\ runner'[r].task = "flush"
        /\ runner'[r].todo = y.todo
    BY <2>1 DEF TypeOK, RunnerState
  <2>6. ComingBy(y, s) => ComingBy(runner'[r], s)
    BY <2>1, <2>5 DEF ComingBy
  <2>. QED BY <1>0, <2>1, <2>3, <2>4, <2>6, WorkerStaysTimely DEF Coming
<1>9. CASE Raise(r) \/ Crash(r)
  BY <1>9 DEF Raise, Crash, Befall
<1>. QED BY <1>2, <1>3, <1>4, <1>5, <1>6, <1>7, <1>8, <1>9 DEF RunnerStep

\* Time passes once everything at hand is done: a history with no flush on its way was
\* noted late enough to outlast this unit, and the next beat sends a flush.
LEMMA TickInTime ==
  ASSUME ThrottleTTL + Idle + Beat < HistoryTTL,
         TypeOK, InTime, mishap' = {}, Tick
  PROVE  InTime'
<1>0. /\ now \in Nat /\ Beat \in Nat \ {0} /\ HistoryTTL \in Nat /\ ThrottleTTL \in Nat
      /\ Idle \in Nat
      /\ \A s \in Session : throttle[s] \in Nat /\ expires[s] \in Nat /\ idleSince[s] \in Nat
  BY TimeConstants, SessionConstants DEF TypeOK, Instant, SessionConstants
<1>1. /\ Settled /\ now' = now + 1 /\ \A s \in Session : throttle[s] > now
      /\ UNCHANGED <<turn, ring, expires, idleSince, throttle, runner, distilled>>
      /\ queue' = IF (now + 1) % Beat = 0 THEN Append(queue, Nobody) ELSE queue
  BY DEF Tick, Befall
<1>2. \A s \in Session : Clocked(s)'
  <2> SUFFICES ASSUME NEW s \in Session PROVE Clocked(s)'
    OBVIOUS
  <2>1. Clocked(s)
    BY DEF InTime
  <2>. QED BY <1>0, <1>1, <2>1 DEF Clocked
<1>3. PICK b \in 0..now : IsBeat(b) /\ now < b + Beat
  BY DEF InTime, BeatsGoOn
<1>4. BeatsGoOn'
  <2>1. CASE now + 1 < b + Beat
    BY <1>0, <1>1, <1>3, <2>1 DEF BeatsGoOn
  <2>2. CASE ~(now + 1 < b + Beat)
    <3>1. now + 1 = b + Beat /\ b \in Nat
      BY <1>0, <1>3, <2>2
    <3>2. IsBeat(now + 1)
      BY <1>3, <3>1, BeatArithmetic
    <3>. QED BY <1>0, <1>1, <3>2 DEF BeatsGoOn
  <2>. QED BY <2>1, <2>2
<1>5. \A s \in Session : ~Coming(s) /\ ~Open(s) /\ \A m : ~Handled(s, m)
  BY <1>1 DEF Settled, Coming, Open, Handled, InQueue, HandledBy, ComingBy, Recording
<1>6. IsBeat(now + 1) => \A s \in Session : Coming(s)'
  <2>1. ASSUME IsBeat(now + 1) PROVE queue' = <<Nobody>>
    <3>1. (now + 1) % Beat = 0
      BY <1>0, <2>1, BeatArithmetic
    <3>. QED BY <1>1, <3>1 DEF Settled
  <2>2. queue' = <<Nobody>> => InQueue(Nobody)'
    BY DEF InQueue
  <2>. QED BY <2>1, <2>2 DEF Coming
<1>7. ASSUME NEW s \in Session, NEW m \in Range(ring'[s]) \ distilled' PROVE Timely(s, m)'
  <2>1. Timely(s, m)
    BY <1>1, <1>7 DEF InTime
  <2>2. b + HistoryTTL <= expires[s] + ThrottleTTL + Idle
    BY <1>3, <1>5, <2>1 DEF Timely
  <2>3. now' < expires'[s]
    BY <1>0, <1>1, <1>3, <2>2
  <2>4. throttle'[s] # Never => Within(throttle[s], s)'
    BY <1>1, <1>5, <2>1 DEF Timely, Within
  <2>5. Within(idleSince[s], s)'
    BY <1>1, <1>5, <2>1 DEF Timely, Within
  <2>6. ASSUME NEW n \in 0..now', IsBeat(n)
        PROVE  Coming(s)' \/ n + HistoryTTL <= expires'[s] + ThrottleTTL + Idle
    <3>1. CASE n = now + 1
      BY <1>6, <2>6, <3>1
    <3>2. CASE n # now + 1
      <4>1. n \in 0..now
        BY <1>0, <1>1, <3>2
      <4>. QED BY <1>1, <1>5, <2>1, <2>6, <4>1 DEF Timely
    <3>. QED BY <3>1, <3>2
  <2>. QED BY <2>3, <2>4, <2>5, <2>6 DEF Timely
<1>. QED BY <1>2, <1>4, <1>7 DEF InTime

LEMMA ExpiryInTime ==
  ASSUME TypeOK, InTime, NEW s \in Session, ExpireRing(s) \/ ExpireThrottle(s)
  PROVE  InTime'
<1>1. /\ UNCHANGED <<now, turn, idleSince, queue, runner, distilled>>
      /\ \A u \in Session : throttle'[u] \in {throttle[u], Never}
      /\ \/ UNCHANGED <<ring, expires>>
         \/ /\ ring' = [ring EXCEPT ![s] = <<>>]
            /\ expires' = [expires EXCEPT ![s] = Never]
  BY DEF ExpireRing, ExpireThrottle, TypeOK
<1>2. now <= Never
  <2>1. now \in Instant
    BY TimeConstants DEF TypeOK
  <2>. QED BY <2>1, TimeConstants DEF Instant
<1>3. \A u \in Session : Clocked(u)'
  BY <1>1, <1>2 DEF InTime, Clocked
<1>4. BeatsGoOn'
  BY <1>1 DEF InTime, BeatsGoOn
<1>5. ASSUME NEW u \in Session, NEW x \in Range(ring'[u]) \ distilled' PROVE Timely(u, x)'
  <2>1. ring'[u] = ring[u] /\ expires'[u] = expires[u]
    <3>1. Range(<<>>) = {}
      BY DEF Range
    <3>. QED BY <1>1, <1>5, <3>1 DEF TypeOK
  <2>2. Timely(u, x)
    BY <1>1, <1>5, <2>1 DEF InTime
  <2>. QED BY <1>1, <2>1, <2>2, StaysTimely DEF Handled, Open, Coming, InQueue
<1>. QED BY <1>3, <1>4, <1>5 DEF InTime

LEMMA TimeStep ==
  ASSUME ThrottleTTL + Idle + Beat < HistoryTTL,
         TypeOK, Shape, Inv, Inv', TimeHeld, [Next]_vars
  PROVE  TimeHeld'
<1> SUFFICES ASSUME mishap' = {} PROVE InTime'
  BY DEF TimeHeld
<1>0. InTime /\ Kept /\ Kept'
  BY MishapsGrow DEF TimeHeld, Inv, Reliable
<1>1. ASSUME NEW t \in Turn, NEW s \in Session, AppendUser(t, s) PROVE InTime'
  BY <1>0, <1>1, OpenMoves, AppendInTime DEF AppendUser, Message, Recording
<1>2. ASSUME NEW t \in Turn, AppendReply(t) PROVE InTime'
  <2>1. turn[t].sid \in Session /\ turn'[t].sid = turn[t].sid
        /\ \A u \in Turn : u # t => turn'[u] = turn[u]
    BY <1>2, TurnMoves DEF TurnStep
  <2>2. turn'[t].pc = "gia"
    BY <1>2 DEF AppendReply, TypeOK, TurnState
  <2>. QED BY <1>0, <1>2, <2>1, <2>2, AppendInTime DEF AppendReply, Message, Recording
<1>3. ASSUME NEW t \in Turn, Leave(t) PROVE InTime'
  BY <1>3 DEF Leave, Befall
<1>4. ASSUME NEW r \in Runner, RunnerStep(r) PROVE InTime'
  <2>1. UNCHANGED <<now, ring, throttle>> /\ distilled \subseteq distilled'
    BY <1>4, WorkerStep
    DEF RunnerStep, Receive, Scan, Pick, EndFlush, Read, Distil, Raise, Drop, Crash
  <2>2. \A s \in Session : idleSince'[s] \in {idleSince[s], Never}
    BY <1>4
    DEF RunnerStep, Receive, Scan, Pick, EndFlush, Read, Distil, Raise, Drop, Crash, TypeOK
  <2>3. BeatsGoOn' /\ \A s \in Session : Clocked(s)'
    BY <1>0, <2>1, <2>2 DEF InTime, BeatsGoOn, Clocked
  <2>4. ASSUME NEW s \in Session, NEW m \in Range(ring'[s]) \ distilled' PROVE Timely(s, m)'
    BY <1>0, <1>4, <2>1, <2>4, WorkerInTime
  <2>. QED BY <2>3, <2>4 DEF InTime
<1>5. CASE UNCHANGED vars
  BY <1>0, <1>5
  DEF vars, InTime, BeatsGoOn, Clocked, Timely, Within, Handled, Open, Coming, InQueue
<1>. QED
  BY <1>0, <1>1, <1>2, <1>3, <1>4, <1>5, NoteInTime, EnqueueInTime, ExpiryInTime, TickInTime
  DEF Next, TurnStep

\* A history is emptied only when its key expires.
LEMMA OnlyExpiryEmpties ==
  ASSUME TypeOK, Shape, [Next]_vars, NEW s \in Session, ring[s] # <<>>, ring'[s] = <<>>
  PROVE  \E u \in Session : ExpireRing(u)
<1>1. ASSUME NEW u \in Session, NEW m \in Message, NEW X, Append1(u, m, X) PROVE FALSE
  <2>1. ring[u] \in Seq(Message)
    BY DEF TypeOK
  <2>2. Append(ring[u], m) # <<>> /\ LastOf(Append(ring[u], m)) # <<>>
    <3> DEFINE q == Append(ring[u], m)
    <3>1. q \in Seq(Message) /\ Len(q) \in Nat /\ Len(q) > 0
      BY <2>1
    <3>2. CASE Len(q) <= MaxRing
      BY <3>1, <3>2 DEF LastOf
    <3>3. CASE ~(Len(q) <= MaxRing)
      <4>1. LastOf(q) = SubSeq(q, Len(q) - MaxRing + 1, Len(q))
        BY <3>3 DEF LastOf
      <4>2. Len(LastOf(q)) = MaxRing
        BY <3>1, <3>3, <4>1, TimeConstants, SubSeqProperties
      <4>. QED BY <3>1, <4>2, TimeConstants
    <3>. QED BY <3>1, <3>2, <3>3
  <2>3. \/ ring' = ring
        \/ \E q \in {Append(ring[u], m), LastOf(Append(ring[u], m))} :
             ring' = [ring EXCEPT ![u] = q]
    BY <1>1 DEF Append1
  <2>. QED BY <2>2, <2>3 DEF TypeOK
<1>2. ASSUME NEW t \in Turn, NEW u \in Session, AppendUser(t, u) PROVE FALSE
  BY <1>1, <1>2 DEF AppendUser, Message
<1>3. ASSUME NEW t \in Turn, TurnStep(t) PROVE FALSE
  <2>1. CASE AppendReply(t)
    <3>1. turn[t].sid \in Session /\ <<t, "gia">> \in Message
      BY <1>3, TurnMoves DEF Message
    <3>. QED BY <1>1, <2>1, <3>1 DEF AppendReply
  <2>2. CASE ~AppendReply(t)
    BY <1>3, <2>2 DEF TurnStep, Note, Enqueue, Leave
  <2>. QED BY <2>1, <2>2
<1>4. ASSUME NEW r \in Runner, RunnerStep(r) PROVE FALSE
  BY <1>4, WorkerStep
<1>. QED BY <1>2, <1>3, <1>4 DEF Next, ExpireThrottle, Tick, vars

\* If a throttle's life, the idle threshold and the time between two flushes are together
\* less than the life of a history (45, 15 and 45 minutes of 120 in the code), no history
\* expires before it is distilled, unless something has gone wrong.
THEOREM DistilledInTime ==
  ASSUME ThrottleTTL + Idle + Beat < HistoryTTL
  PROVE  Spec => NoneExpires
<1>1. Init => TimeHeld
  <2>1. 0 \in Nat /\ Beat \in Nat \ {0} /\ Never \in Nat
    BY TimeConstants, SessionConstants DEF SessionConstants
  <2>2. Range(<<>>) = {}
    BY DEF Range
  <2>. QED
    BY <2>1, <2>2, BeatArithmetic DEF Init, TimeHeld, InTime, BeatsGoOn, Clocked
<1>2. TypeOK /\ Shape /\ Inv /\ Inv' /\ TimeHeld /\ [Next]_vars => TimeHeld'
  BY TimeStep
<1>3. TypeOK /\ Shape /\ TimeHeld /\ [Next]_vars =>
        [\A s \in Session : mishap = {} /\ ring[s] # <<>> /\ ring'[s] = <<>>
           => Range(ring[s]) \subseteq distilled]_vars
  <2> SUFFICES ASSUME TypeOK, Shape, InTime, [Next]_vars, NEW s \in Session,
                      ring[s] # <<>>, ring'[s] = <<>>, NEW m \in Range(ring[s]) \ distilled
               PROVE  FALSE
    BY DEF TimeHeld
  <2>1. PICK u \in Session : ExpireRing(u)
    BY OnlyExpiryEmpties
  <2>2. u = s
    BY <2>1 DEF ExpireRing, TypeOK
  <2>3. Timely(s, m)
    BY DEF InTime
  <2>4. now \in Nat /\ expires[s] \in Nat
    BY TimeConstants DEF TypeOK, Instant
  <2>. QED BY <2>1, <2>2, <2>3, <2>4 DEF ExpireRing, Timely
<1>. QED BY <1>1, <1>2, <1>3, Shaped, AlwaysKept, PTL DEF Spec, NoneExpires

=============================================================================
