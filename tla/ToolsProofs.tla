----------------------------- MODULE ToolsProofs -----------------------------
(***************************************************************************)
(* What the code under tools/ promises of the outside world.  McpBridge    *)
(* keeps the promise of ToolService and serves calls in order, for any set *)
(* of calls, whatever the server does.  ResilientCall: a half-open breaker *)
(* is judged by its probes whenever the longest call is shorter than the   *)
(* cooldown - for any number of callers and any timing that meets that     *)
(* condition.  And MoodWatch, which acts on what these tools bring: one    *)
(* pattern for a time of the week, nudges that are true and told once, and *)
(* plays counted once, each unless a mishap of its kind has happened.      *)
(***************************************************************************)
EXTENDS McpBridge, ResilientCall, MoodWatch, SequenceTheorems, TLAPS

Queued(c) == \E p \in 1..Len(queue) : queue[p] = c

\* The owner serves a call exactly while it is busy; it runs after start() and
\* until the end of stop().
Phase ==
  /\ cur = NoTool <=> at \in {"none", "get", "over"}
  /\ at = "none" => ~started
  /\ stop = "waiting" => started

\* A call not made yet is nowhere.
Fresh ==
  \A c \in Tool : fut[c] = "none" =>
    /\ ran[c] = 0 /\ c # cur /\ ~Queued(c)
    /\ \A i \in 1..Len(asked) : asked[i] # c

\* A queued call has not been begun, and is queued once.
NotBegun ==
  \A p \in 1..Len(queue) : queue[p] \in Tool =>
    /\ ran[queue[p]] = 0 /\ queue[p] # cur
    /\ \A q \in 1..Len(queue) : p < q => queue[q] # queue[p]

\* Each attempt executes the call at most once.
Tries ==
  /\ at \in {"connect", "call"} => ran[cur] < attempt
  /\ at \in {"reply", "retry"} => ran[cur] <= attempt

\* The queue keeps the order of the calls, and is what is left of them.
Ordered ==
  /\ \A i, j \in 1..Len(asked), p, q \in 1..Len(queue) :
       asked[i] = queue[p] /\ asked[j] = queue[q] /\ p < q => i < j
  /\ \A i, j \in 1..Len(asked) : i < j /\ Queued(asked[i]) => Queued(asked[j])

\* What has left the queue is being served or has been answered.
Dealt ==
  at # "over" => \A i \in 1..Len(asked) :
    ~Queued(asked[i]) /\ asked[i] # cur => fut[asked[i]] # "pending"

InSequence ==
  \A i, j \in 1..Len(asked) : i < j /\ ran[asked[j]] > 0 =>
    ran[asked[i]] > 0 \/ fut[asked[i]] # "pending"

Inv ==
  /\ TypeOK /\ Phase /\ Fresh /\ NotBegun /\ Tries
  /\ Ordered /\ Dealt /\ InSequence

-----------------------------------------------------------------------------

LEMMA Appended ==
  ASSUME NEW S, NEW s \in Seq(S), NEW x \in S
  PROVE  /\ Append(s, x) \in Seq(S)
         /\ Len(Append(s, x)) = Len(s) + 1
         /\ \A p \in 1..Len(s) : Append(s, x)[p] = s[p]
         /\ Append(s, x)[Len(s) + 1] = x
         /\ Len(s) \in Nat
  OBVIOUS

LEMMA Taken ==
  ASSUME NEW S, NEW s \in Seq(S), s # <<>>
  PROVE  /\ Tail(s) \in Seq(S) /\ Head(s) \in S /\ Head(s) = s[1]
         /\ Len(s) \in Nat \ {0} /\ Len(Tail(s)) = Len(s) - 1
         /\ \A p \in 1..Len(s) - 1 : Tail(s)[p] = s[p + 1]
  OBVIOUS

LEMMA InitInv ==
  ASSUME Init PROVE Inv
<1>1. /\ queue = <<>> /\ asked = <<>> /\ Len(queue) = 0 /\ Len(asked) = 0
      /\ queue \in Seq(Tool \union {Shutdown}) /\ asked \in Seq(Tool)
  BY DEF Init
<1>2. TypeOK
  <2>1. fut \in [Tool -> {"none", "pending", "ok", "error", "cancelled"}]
    BY DEF Init
  <2>2. ran \in [Tool -> 0..2]
    BY DEF Init
  <2>3. /\ started \in BOOLEAN /\ session \in BOOLEAN /\ stop = "no"
        /\ at = "none" /\ cur = NoTool /\ attempt = 1
    BY DEF Init
  <2>. QED
    BY <1>1, <2>1, <2>2, <2>3 DEF TypeOK
<1>3. Phase /\ Tries
  BY DEF Init, Phase, Tries
<1>4. Fresh
  BY <1>1, BridgeConstants DEF Init, Fresh, Queued
<1>5. NotBegun /\ Ordered /\ Dealt /\ InSequence
  BY <1>1 DEF NotBegun, Ordered, Dealt, InSequence
<1>. QED
  BY <1>2, <1>3, <1>4, <1>5 DEF Inv

-----------------------------------------------------------------------------
(* One lemma for each kind of step.                                        *)

\* A call joins the queue.
LEMMA SubmitInv ==
  ASSUME Inv, NEW c \in Tool, Submit(c) PROVE Inv'
<1>. USE BridgeConstants
<1>1. /\ queue' \in Seq(Tool \union {Shutdown})
      /\ Len(queue') = Len(queue) + 1 /\ Len(queue) \in Nat
      /\ \A p \in 1..Len(queue) : queue'[p] = queue[p]
      /\ queue'[Len(queue) + 1] = c
  BY Appended DEF Inv, TypeOK, Submit
<1>2. /\ asked' \in Seq(Tool)
      /\ Len(asked') = Len(asked) + 1 /\ Len(asked) \in Nat
      /\ \A i \in 1..Len(asked) : asked'[i] = asked[i]
      /\ asked'[Len(asked) + 1] = c
  BY Appended DEF Inv, TypeOK, Submit
<1>3. /\ fut[c] = "none" /\ fut'[c] = "pending"
      /\ \A d \in Tool \ {c} : fut'[d] = fut[d]
      /\ fut' \in [Tool -> {"none", "pending", "ok", "error", "cancelled"}]
      /\ UNCHANGED <<started, stop, at, cur, attempt, session, ran>>
  BY DEF Inv, TypeOK, Submit
<1>4. /\ ran[c] = 0 /\ c # cur /\ ~Queued(c)
      /\ \A i \in 1..Len(asked) : asked[i] # c
  BY <1>3 DEF Inv, Fresh
<1>5. \A d : Queued(d)' <=> d = c \/ Queued(d)
  BY <1>1 DEF Queued
<1>6. \A i \in 1..Len(asked) : asked[i] \in Tool \ {c}
  BY <1>4 DEF Inv, TypeOK
<1>7. \A p \in 1..Len(queue) : queue[p] # c
  BY <1>4 DEF Queued
<1>8. TypeOK' /\ Phase' /\ Tries'
  BY <1>1, <1>2, <1>3 DEF Inv, TypeOK, Phase, Tries
<1>9. Fresh'
  BY <1>2, <1>3, <1>5 DEF Inv, Fresh
<1>10. NotBegun'
  BY <1>1, <1>3, <1>4, <1>7 DEF Inv, NotBegun
<1>11. Ordered'
  <2>1. ASSUME NEW i \in 1..Len(asked'), NEW j \in 1..Len(asked'),
               NEW p \in 1..Len(queue'), NEW q \in 1..Len(queue'),
               asked'[i] = queue'[p], asked'[j] = queue'[q], p < q
        PROVE  i < j
    <3>1. p \in 1..Len(queue) /\ queue'[p] = queue[p] /\ i \in 1..Len(asked)
      BY <2>1, <1>1, <1>2, <1>7
    <3>2. CASE q = Len(queue) + 1
      BY <2>1, <3>1, <3>2, <1>1, <1>2, <1>6
    <3>3. CASE q \in 1..Len(queue)
      <4>1. queue'[q] = queue[q] /\ j \in 1..Len(asked)
        BY <2>1, <3>3, <1>1, <1>2, <1>7
      <4>. QED
        BY <2>1, <3>1, <3>3, <4>1, <1>2 DEF Inv, Ordered
    <3>. QED
      BY <3>2, <3>3, <1>1
  <2>2. ASSUME NEW i \in 1..Len(asked'), NEW j \in 1..Len(asked'),
               i < j, Queued(asked[i])'
        PROVE  Queued(asked[j])'
    BY <2>2, <1>2, <1>5, <1>6 DEF Inv, Ordered
  <2>. QED
    BY <2>1, <2>2 DEF Ordered
<1>12. Dealt'
  BY <1>2, <1>3, <1>5, <1>6 DEF Inv, Dealt
<1>13. InSequence'
  BY <1>2, <1>3, <1>4, <1>6 DEF Inv, InSequence
<1>. QED
  BY <1>8, <1>9, <1>10, <1>11, <1>12, <1>13 DEF Inv

\* A call that is settled, or refused, without the owner.
LEMMA SettleInv ==
  ASSUME Inv, NEW c \in Tool, Refuse(c) \/ GiveUp(c) PROVE Inv'
<1>1. /\ fut'[c] \notin {"none", "pending"} /\ \A d \in Tool \ {c} : fut'[d] = fut[d]
      /\ fut' \in [Tool -> {"none", "pending", "ok", "error", "cancelled"}]
      /\ UNCHANGED <<started, stop, queue, at, cur, attempt, session, asked, ran>>
  BY DEF Inv, TypeOK, Refuse, GiveUp
<1>2. \A i \in 1..Len(asked) : asked[i] \in Tool
  BY DEF Inv, TypeOK
<1>3. TypeOK' /\ Phase' /\ Tries' /\ NotBegun'
  BY <1>1 DEF Inv, TypeOK, Phase, Tries, NotBegun
<1>4. \A d : Queued(d)' <=> Queued(d)
  BY <1>1 DEF Queued
<1>5. Fresh'
  BY <1>1, <1>4 DEF Inv, Fresh
<1>6. Ordered'
  BY <1>1, <1>4 DEF Inv, Ordered
<1>7. Dealt' /\ InSequence'
  BY <1>1, <1>2, <1>4 DEF Inv, Dealt, InSequence
<1>. QED
  BY <1>3, <1>5, <1>6, <1>7 DEF Inv

\* Starting, and stopping in a hurry or in turn.
LEMMA LifeInv ==
  ASSUME Inv, Start \/ StopLate \/ Stopped PROVE Inv'
<1>. USE BridgeConstants DEF Inv
<1>1. UNCHANGED <<queue, fut, attempt, asked, ran>> /\ cur' \in {cur, NoTool}
  BY DEF Start, StopLate, Stopped
<1>2. \A c : Queued(c)' <=> Queued(c)
  BY <1>1 DEF Queued
<1>3. TypeOK' /\ Phase'
  BY DEF TypeOK, Phase, Start, StopLate, Stopped
<1>4. Fresh' /\ NotBegun'
  BY <1>1, <1>2 DEF Fresh, NotBegun
<1>5. Tries'
  BY <1>1 DEF Tries, Start, StopLate, Stopped
<1>6. Ordered' /\ InSequence'
  BY <1>1, <1>2 DEF Ordered, InSequence
<1>7. Dealt'
  BY <1>1, <1>2 DEF Dealt, Start, StopLate, Stopped
<1>. QED
  BY <1>3, <1>4, <1>5, <1>6, <1>7

\* The sentinel joins the queue.
LEMMA StopInv ==
  ASSUME Inv, Stop PROVE Inv'
<1>. USE BridgeConstants DEF Inv
<1>1. /\ queue' \in Seq(Tool \union {Shutdown})
      /\ Len(queue') = Len(queue) + 1 /\ Len(queue) \in Nat
      /\ \A p \in 1..Len(queue) : queue'[p] = queue[p]
      /\ queue'[Len(queue) + 1] = Shutdown
  BY Appended DEF TypeOK, Stop
<1>2. UNCHANGED <<started, fut, at, cur, attempt, session, asked, ran>>
  BY DEF Stop
<1>3. \A c \in Tool : Queued(c)' <=> Queued(c)
  BY <1>1 DEF Queued
<1>4. \A i \in 1..Len(asked) : asked[i] \in Tool
  BY DEF TypeOK
<1>5. TypeOK' /\ Phase' /\ Tries'
  BY <1>1, <1>2 DEF TypeOK, Phase, Tries, Stop
<1>6. Fresh' /\ NotBegun'
  BY <1>1, <1>2, <1>3 DEF Fresh, NotBegun
<1>7. Ordered'
  <2>1. ASSUME NEW i \in 1..Len(asked), NEW j \in 1..Len(asked),
               NEW p \in 1..Len(queue'), NEW q \in 1..Len(queue'),
               asked[i] = queue'[p], asked[j] = queue'[q], p < q
        PROVE  i < j
    <3>0. asked[i] # Shutdown /\ asked[j] # Shutdown
      BY <1>4
    <3>1. p # Len(queue) + 1 /\ q # Len(queue) + 1
      BY <2>1, <1>1, <3>0
    <3>2. p \in 1..Len(queue) /\ q \in 1..Len(queue)
      BY <3>1, <1>1
    <3>3. queue'[p] = queue[p] /\ queue'[q] = queue[q]
      BY <3>2, <1>1
    <3>. QED
      BY <2>1, <3>2, <3>3 DEF Ordered
  <2>2. ASSUME NEW i \in 1..Len(asked), NEW j \in 1..Len(asked),
               i < j, Queued(asked[i])'
        PROVE  Queued(asked[j])'
    BY <2>2, <1>2, <1>3, <1>4 DEF Ordered
  <2>. QED
    BY <2>1, <2>2, <1>2 DEF Ordered
<1>8. Dealt' /\ InSequence'
  BY <1>2, <1>3, <1>4 DEF Dealt, InSequence
<1>. QED
  BY <1>5, <1>6, <1>7, <1>8

\* The owner takes the head of the queue.
LEMMA GetInv ==
  ASSUME Inv, Get PROVE Inv'
<1>. USE BridgeConstants DEF Inv
<1>0. PICK h : h = Head(queue)
  OBVIOUS
<1>1. /\ queue' \in Seq(Tool \union {Shutdown})
      /\ h \in Tool \union {Shutdown} /\ h = queue[1]
      /\ Len(queue) \in Nat \ {0} /\ Len(queue') = Len(queue) - 1
      /\ \A p \in 1..Len(queue') : queue'[p] = queue[p + 1]
  BY <1>0, Taken DEF TypeOK, Get
<1>2. UNCHANGED <<started, stop, fut, asked, ran>> /\ cur = NoTool /\ attempt' = 1
  BY DEF Get, Phase
<1>3. \/ /\ h = Shutdown /\ at' = "over" /\ cur' = NoTool
      \/ /\ h \in Tool /\ fut[h] # "pending"
         /\ at' = "get" /\ cur' = NoTool
      \/ /\ h \in Tool /\ fut[h] = "pending"
         /\ at' \in {"connect", "call"} /\ cur' = h
  BY <1>0, <1>1, <1>2 DEF Get
<1>4. \A c : Queued(c)' => Queued(c)
  BY <1>1 DEF Queued
<1>5. \A c : Queued(c) => Queued(c)' \/ c = h
  <2>. SUFFICES ASSUME NEW c, NEW p \in 1..Len(queue), queue[p] = c, c # h
               PROVE  Queued(c)'
    BY DEF Queued
  <2>1. p # 1 /\ p - 1 \in 1..Len(queue')
    BY <1>1
  <2>2. queue'[p - 1] = queue[p]
    BY <1>1, <2>1
  <2>. QED
    BY <2>1, <2>2 DEF Queued
<1>6. h \in Tool =>
        ran[h] = 0 /\ fut[h] # "none" /\ ~Queued(h)'
  <2>1. Queued(h)
    BY <1>1 DEF Queued
  <2>2. h \in Tool => ~Queued(h)'
    <3>. SUFFICES ASSUME h \in Tool, NEW p \in 1..Len(queue'),
                        queue'[p] = h
                 PROVE  FALSE
      BY <1>1 DEF Queued
    <3>1. p + 1 \in 1..Len(queue) /\ queue[p + 1] = queue[1] /\ 1 < p + 1
      BY <1>1
    <3>2. 1 \in 1..Len(queue) /\ queue[1] \in Tool
      BY <1>1
    <3>. QED
      BY <3>1, <3>2 DEF NotBegun
  <2>. QED
    BY <2>1, <2>2, <1>1 DEF Fresh, NotBegun
<1>7. \A i \in 1..Len(asked) : asked[i] \in Tool
  BY DEF TypeOK
<1>8. TypeOK'
  <2>1. at' \in {"none", "get", "connect", "call", "reply", "retry", "over"}
    BY <1>3
  <2>2. cur' \in Tool \union {NoTool} /\ session' \in BOOLEAN
    BY <1>3 DEF TypeOK, Get
  <2>. QED
    BY <1>1, <1>2, <2>1, <2>2 DEF TypeOK
<1>9. Phase' /\ Tries'
  BY <1>2, <1>3, <1>6 DEF Phase, Tries
<1>10. Fresh'
  BY <1>2, <1>3, <1>4, <1>6 DEF Fresh
<1>11. NotBegun'
  <2>. SUFFICES ASSUME NEW p \in 1..Len(queue'), queue'[p] \in Tool
               PROVE  /\ ran[queue'[p]] = 0 /\ queue'[p] # cur'
                      /\ \A q \in 1..Len(queue') : p < q => queue'[q] # queue'[p]
    BY <1>2 DEF NotBegun
  <2>1. p + 1 \in 1..Len(queue) /\ queue'[p] = queue[p + 1]
    BY <1>1
  <2>2. \A d : d = queue'[p] => Queued(d)'
    BY DEF Queued
  <2>3. queue'[p] # cur'
    BY <2>2, <1>3, <1>6, <1>2
  <2>. QED
    BY <2>1, <2>3, <1>1 DEF NotBegun
<1>12. Ordered'
  <2>1. ASSUME NEW i \in 1..Len(asked), NEW j \in 1..Len(asked),
               NEW p \in 1..Len(queue'), NEW q \in 1..Len(queue'),
               asked[i] = queue'[p], asked[j] = queue'[q], p < q
        PROVE  i < j
    <3>1. /\ p + 1 \in 1..Len(queue) /\ queue'[p] = queue[p + 1]
          /\ q + 1 \in 1..Len(queue) /\ queue'[q] = queue[q + 1] /\ p + 1 < q + 1
      BY <1>1, <2>1
    <3>. QED
      BY <2>1, <3>1 DEF Ordered
  <2>2. ASSUME NEW i \in 1..Len(asked), NEW j \in 1..Len(asked),
               i < j, Queued(asked[i])'
        PROVE  Queued(asked[j])'
    <3>1. PICK p \in 1..Len(queue') : queue'[p] = asked[i]
      BY <2>2, <1>2 DEF Queued
    <3>2. p + 1 \in 1..Len(queue) /\ queue[p + 1] = asked[i] /\ 1 < p + 1
      BY <3>1, <1>1
    <3>3. Queued(asked[j])
      BY <2>2, <1>4, <1>2 DEF Ordered
    <3>4. asked[j] # h
      <4>1. SUFFICES ASSUME asked[j] = queue[1] PROVE FALSE
        BY <1>1
      <4>0. 1 \in 1..Len(queue)
        BY <1>1
      <4>2. j < i
        <5>1. \E q \in 1..Len(queue) : /\ q = p + 1 /\ queue[q] = asked[i] /\ 1 < q
          BY <3>2
        <5>. QED
          BY <4>0, <4>1, <5>1 DEF Ordered
      <4>3. i \in Int /\ j \in Int
        OBVIOUS
      <4>. QED
        BY <2>2, <4>2, <4>3
    <3>. QED
      BY <3>3, <3>4, <1>5, <1>2
  <2>. QED
    BY <2>1, <2>2, <1>2 DEF Ordered
<1>13. Dealt'
  BY <1>2, <1>3, <1>5, <1>7 DEF Dealt, Get
<1>14. InSequence'
  BY <1>2 DEF InSequence
<1>. QED
  BY <1>8, <1>9, <1>10, <1>11, <1>12, <1>13, <1>14

\* The owner's steps that settle nothing and execute nothing.
LEMMA OwnerInv ==
  ASSUME Inv, Connect \/ Lose \/ Retry PROVE Inv'
<1>. USE BridgeConstants DEF Inv
<1>1. UNCHANGED <<started, stop, queue, fut, cur, asked, ran>>
  BY DEF Connect, Lose, Retry
<1>2. TypeOK' /\ Phase'
  <2>1. /\ at \in {"connect", "reply", "retry"} /\ at' \in {"connect", "call", "retry"}
        /\ attempt' \in {attempt, 2}
    BY DEF Connect, Lose, Retry
  <2>2. session' \in BOOLEAN
    BY DEF TypeOK, Connect, Lose, Retry
  <2>3. Phase'
    BY <1>1, <2>1 DEF Phase
  <2>. QED
    BY <1>1, <2>1, <2>2, <2>3 DEF TypeOK
<1>3. Tries'
  <2>1. CASE Connect
    <3>. QED BY <2>1, <1>1 DEF Connect, Tries, TypeOK, Phase
  <2>2. CASE Lose
    <3>. QED BY <2>2, <1>1 DEF Lose, Tries
  <2>3. CASE Retry
    <3>1. cur \in Tool
      BY <2>3 DEF Retry, TypeOK, Phase
    <3>2. ran[cur] \in Nat /\ ran[cur] <= attempt /\ attempt = 1
      BY <2>3, <3>1 DEF Retry, TypeOK, Tries
    <3>. QED
      BY <2>3, <3>2, <1>1 DEF Retry, Tries
  <2>. QED
    BY <2>1, <2>2, <2>3
<1>4. Fresh' /\ NotBegun' /\ Ordered' /\ InSequence'
  BY <1>1 DEF Fresh, NotBegun, Ordered, InSequence, Queued
<1>5. Dealt'
  BY <1>1 DEF Dealt, Queued, Connect, Lose, Retry
<1>. QED
  BY <1>2, <1>3, <1>4, <1>5

\* The server carries out the call, or fails to.
LEMMA ExecuteInv ==
  ASSUME Inv, Execute PROVE Inv'
<1>. USE BridgeConstants DEF Inv
<1>1. /\ UNCHANGED <<started, stop, queue, fut, cur, attempt, session, asked>>
      /\ at = "call" /\ at' \in {"reply", "retry"}
      /\ \/ ran' = [ran EXCEPT ![cur] = ran[cur] + 1] /\ at' = "reply"
         \/ UNCHANGED ran
  BY DEF Execute
<1>2. cur \in Tool /\ cur # NoTool
  BY <1>1 DEF TypeOK, Phase
<1>3. ran[cur] < attempt /\ ran[cur] \in 0..2 /\ attempt \in 1..2
  BY <1>1, <1>2 DEF Tries, TypeOK
<1>4. /\ ran' \in [Tool -> 0..2]
      /\ \A c \in Tool \ {cur} : ran'[c] = ran[c]
      /\ ran'[cur] \in {ran[cur], ran[cur] + 1}
  <2>1. ran[cur] + 1 \in 0..2
    BY <1>3
  <2>2. CASE ran' = [ran EXCEPT ![cur] = ran[cur] + 1]
    BY <2>1, <2>2, <1>2 DEF TypeOK
  <2>3. CASE UNCHANGED ran
    BY <2>3, <1>2 DEF TypeOK
  <2>. QED
    BY <2>2, <2>3, <1>1
<1>5. \A i \in 1..Len(asked) : asked[i] \in Tool
  BY DEF TypeOK
<1>6. TypeOK' /\ Phase' /\ Tries'
  BY <1>1, <1>2, <1>3, <1>4 DEF TypeOK, Phase, Tries
<1>7. Fresh' /\ NotBegun' /\ Ordered'
  BY <1>1, <1>2, <1>4 DEF Fresh, NotBegun, Ordered, Queued
<1>8. Dealt'
  BY <1>1 DEF Dealt, Queued
<1>9. InSequence'
  <2>. SUFFICES ASSUME NEW i \in 1..Len(asked), NEW j \in 1..Len(asked),
                      i < j, ran'[asked[j]] > 0, fut[asked[i]] = "pending"
               PROVE  ran'[asked[i]] > 0
    BY <1>1 DEF InSequence
  <2>1. ran[asked[i]] \in 0..2 /\ (ran[asked[i]] > 0 => ran'[asked[i]] > 0)
    BY <1>3, <1>4, <1>5 DEF TypeOK
  <2>2. CASE ran[asked[j]] > 0
    BY <2>1, <2>2 DEF InSequence
  <2>3. CASE ~(ran[asked[j]] > 0)
    <3>1. asked[j] = cur
      BY <2>3, <1>4, <1>5
    <3>2. ~Queued(cur)
      BY <1>2 DEF Queued, NotBegun
    <3>3. ~Queued(asked[i])
      BY <3>1, <3>2 DEF Ordered
    <3>4. asked[i] = cur
      BY <3>3, <1>1 DEF Dealt
    <3>. QED
      BY <3>1, <3>4
  <2>. QED
    BY <2>2, <2>3
<1>. QED
  BY <1>6, <1>7, <1>8, <1>9

\* The owner answers its call.
LEMMA AnswerInv ==
  ASSUME Inv, Answer \/ Report PROVE Inv'
<1>. USE BridgeConstants DEF Inv
<1>1. /\ UNCHANGED <<started, stop, queue, attempt, asked, ran>>
      /\ at \in {"reply", "retry"} /\ at' = "get" /\ cur' = NoTool
      /\ session' \in {session, FALSE}
  BY DEF Answer, Report
<1>2. cur \in Tool
  BY <1>1 DEF TypeOK, Phase
<1>3. PICK o \in {"ok", "error"} : Resolved(o)
  BY DEF Answer, Report
<1>4. /\ fut' \in [Tool -> {"none", "pending", "ok", "error", "cancelled"}]
      /\ \A c \in Tool \ {cur} : fut'[c] = fut[c]
      /\ fut'[cur] # "pending" /\ fut'[cur] # "none"
  <2>1. fut[cur] # "none"
    BY <1>2 DEF Fresh
  <2>. QED
    BY <1>2, <1>3, <2>1 DEF Resolved, TypeOK
<1>5. \A i \in 1..Len(asked) : asked[i] \in Tool
  BY DEF TypeOK
<1>6. TypeOK' /\ Phase' /\ Tries'
  BY <1>1, <1>4 DEF TypeOK, Phase, Tries
<1>7. Fresh' /\ NotBegun' /\ Ordered'
  BY <1>1, <1>2, <1>4 DEF Fresh, NotBegun, Ordered, Queued
<1>8. Dealt'
  BY <1>1, <1>2, <1>4, <1>5 DEF Dealt, Queued
<1>9. InSequence'
  BY <1>1, <1>2, <1>4, <1>5 DEF InSequence
<1>. QED
  BY <1>6, <1>7, <1>8, <1>9

LEMMA StepInv ==
  ASSUME Inv, [Next]_vars PROVE Inv'
<1>1. CASE UNCHANGED vars
  BY <1>1 DEF vars, Inv, TypeOK, Phase, Fresh, NotBegun, Tries, Ordered, Dealt,
              InSequence, Queued
<1>2. CASE Start \/ StopLate \/ Stopped
  BY <1>2, LifeInv
<1>3. CASE Stop
  BY <1>3, StopInv
<1>4. CASE Owner
  BY <1>4, GetInv, OwnerInv, ExecuteInv, AnswerInv DEF Owner
<1>5. ASSUME NEW c \in Tool, Submit(c) \/ Refuse(c) \/ GiveUp(c) PROVE Inv'
  BY <1>5, SubmitInv, SettleInv
<1>. QED
  BY <1>1, <1>2, <1>3, <1>4, <1>5 DEF Next

LEMMA Invariant == Spec => []Inv
  BY InitInv, StepInv, PTL DEF Spec

-----------------------------------------------------------------------------
(* The theorems.                                                           *)

\* The bridge's state is what its code can make of it, and a call is executed
\* twice at most.
THEOREM TypeCorrect == Spec => []TypeOK
<1>1. Inv => TypeOK
  BY DEF Inv
<1>. QED
  BY <1>1, Invariant, PTL

\* Commands reach Spotify in the order they were given, however often the session
\* is lost.
THEOREM InOrderOnly == Spec => []InOrder
<1>1. Inv => InOrder
  <2>1. ASSUME TypeOK PROVE DOMAIN asked = 1..Len(asked)
    BY <2>1 DEF TypeOK
  <2>. QED
    BY <2>1 DEF Inv, InSequence, InOrder
<1>. QED
  BY <1>1, Invariant, PTL

\* The bridge implements the service its callers are promised.
THEOREM KeepsPromise == Spec => Promise
<1>1. Init => Service!Init
  BY DEF Init, Service!Init
<1>2. ASSUME Inv, [Next]_vars PROVE [Service!Next]_(Service!vars)
  <2>. USE DEF Service!vars
  <2>1. CASE UNCHANGED vars
    BY <2>1 DEF vars
  <2>2. CASE Start
    BY <1>2, <2>2 DEF Inv, Phase, Start, Service!Next, Service!Open
  <2>3. CASE Stop
    BY <2>3 DEF Stop, Service!Next, Service!Close
  <2>4. CASE StopLate \/ Stopped
    BY <1>2, <2>4 DEF Inv, Phase, StopLate, Stopped, Service!Next, Service!Closed
  <2>5. CASE Get
    <3>1. cur = NoTool
      BY <1>2, <2>5 DEF Inv, Phase, Get
    <3>2. CASE Head(queue) = Shutdown
      BY <2>5, <3>1, <3>2 DEF Get, Service!Next, Service!Shut
    <3>3. CASE Head(queue) # Shutdown
      BY <2>5, <3>1, <3>3 DEF Get, Service!Next, Service!Begin
    <3>. QED
      BY <3>2, <3>3
  <2>6. CASE Connect \/ Execute \/ Lose \/ Retry
    BY <2>6 DEF Connect, Execute, Lose, Retry
  <2>7. CASE Answer \/ Report
    <3>1. cur # NoTool
      BY <1>2, <2>7 DEF Inv, Phase, Answer, Report
    <3>. QED
      BY <2>7, <3>1 DEF Answer, Report, Resolved, Service!Next, Service!Settle
  <2>8. ASSUME NEW c \in Tool, Submit(c) \/ Refuse(c) \/ GiveUp(c)
        PROVE  Service!Next
    BY <2>8 DEF Submit, Refuse, GiveUp, Service!Next, Service!Ask, Service!Refuse,
                Service!GiveUp
  <2>. QED
    BY <1>2, <2>1, <2>2, <2>3, <2>4, <2>5, <2>6, <2>7, <2>8 DEF Next, Owner
<1>. QED
  BY <1>1, <1>2, Invariant, PTL DEF Spec, Promise, Service!Spec

-----------------------------------------------------------------------------
(* ResilientCall.                                                          *)

\* The longest a call can take.
Longest == Timeout + Rest[0]

\* Brave: 24.5 s of a cooldown of 30; the weather: 20.5 s of 30.
Shorter == Longest < Cooldown

\* The time call c can still take.
Left(c) ==
  IF call[c].pc = "try" THEN call[c].left + Rest[call[c].attempt]
  ELSE call[c].left + Timeout + Rest[call[c].attempt + 1]

\* A call in a sleep has another attempt to make, and none outlives Longest.
Bounded ==
  \A c \in Caller : Running(c) =>
    /\ call[c].pc = "sleep" => call[c].attempt < Retries
    /\ Left(c) <= Longest

\* While the breaker is open the calls in progress were sent before it opened,
\* and the time they can still take has run along with its cooldown.
Outlived ==
  state = "open" => \A c \in Caller : Running(c) => Left(c) + age <= Longest

CallInv == CallTypeOK /\ Bounded /\ Outlived /\ NoStraggler

LEMMA Types ==
  ASSUME CallTypeOK
  PROVE  /\ Cooldown \in Nat /\ Timeout \in Nat /\ Retries \in Nat /\ Longest \in Nat
         /\ age \in 0..Cooldown
         /\ \A c \in Caller :
              /\ call[c].attempt \in 0..Retries /\ call[c].left \in Nat
              /\ call[c].probe \in BOOLEAN /\ call[c].pc \in {"idle", "try", "sleep"}
         /\ \A a \in 0..Retries : Rest[a] \in Nat /\ Backoff[a] \in Nat
  BY ResilientConstants DEF ResilientConstants, CallTypeOK, CallState, Longest

LEMMA NoCallIs == NoCall \in CallState /\ NoCall.pc = "idle"
  BY ResilientConstants DEF ResilientConstants, NoCall, CallState

\* An open breaker whose cooldown is over has no call in progress.
LEMMA Drained ==
  ASSUME Shorter, CallInv, state = "open", age = Cooldown, NEW c \in Caller
  PROVE  ~Running(c)
<1> SUFFICES ASSUME Running(c) PROVE FALSE
  OBVIOUS
<1>1. CallTypeOK
  BY DEF CallInv
<1>2. Left(c) + Cooldown <= Longest
  BY DEF CallInv, Outlived
<1>3. Left(c) \in Nat
  <2>1. call[c].pc = "sleep" => call[c].attempt + 1 \in 0..Retries
    BY <1>1, Types DEF CallInv, Bounded
  <2>. QED BY <1>1, <2>1, Types DEF Left, Running
<1>. QED BY <1>1, <1>2, <1>3, Types DEF Shorter

\* CallInv follows from what it says of each call.
LEMMA PerCall ==
  ASSUME CallTypeOK',
         \A c \in Caller : Running(c)' =>
           /\ call'[c].pc = "sleep" => call'[c].attempt < Retries
           /\ Left(c)' <= Longest
           /\ state' = "open" => Left(c)' + age' <= Longest
           /\ state' = "half_open" => call'[c].probe
  PROVE  CallInv'
  BY DEF CallInv, Bounded, Outlived, NoStraggler, Longest

\* A step that neither opens the breaker nor lets time pass keeps CallInv if the
\* call that moves keeps its part of it.
LEMMA OneMoves ==
  ASSUME CallInv, NEW c \in Caller, NEW x \in CallState,
         call' = [call EXCEPT ![c] = x],
         state' \in {"closed", state}, failures' \in 0..Threshold, age' = age,
         x.pc # "idle" =>
           /\ Running(c)
           /\ x.probe = call[c].probe
           /\ x.pc = "sleep" => x.attempt < Retries
           /\ Left(c)' <= Left(c)
  PROVE  CallInv'
<1>1. CallTypeOK
  BY DEF CallInv
<1>2. CallTypeOK'
  BY <1>1 DEF CallTypeOK
<1>3. call'[c] = x /\ \A d \in Caller : d # c => call'[d] = call[d]
  BY <1>1 DEF CallTypeOK
<1>4. ASSUME NEW d \in Caller, Running(d)'
      PROVE  /\ call'[d].pc = "sleep" => call'[d].attempt < Retries
             /\ Left(d)' <= Longest
             /\ state' = "open" => Left(d)' + age' <= Longest
             /\ state' = "half_open" => call'[d].probe
  <2>1. CASE d # c
    <3>1. call'[d] = call[d] /\ Running(d)
      BY <1>3, <1>4, <2>1 DEF Running
    <3>2. Left(d)' = Left(d)
      BY <3>1 DEF Left
    <3>. QED BY <3>1, <3>2 DEF CallInv, Bounded, Outlived, NoStraggler
  <2>2. CASE d = c
    <3>1. /\ x.pc # "idle" /\ Running(c) /\ x.probe = call[c].probe
          /\ x.pc = "sleep" => x.attempt < Retries
          /\ Left(c)' <= Left(c)
      BY <1>3, <1>4, <2>2 DEF Running
    <3>2. Left(c) \in Nat
      <4>1. call[c].pc = "sleep" => call[c].attempt + 1 \in 0..Retries
        BY <1>1, <3>1, Types DEF CallInv, Bounded
      <4>. QED BY <1>1, <3>1, <4>1, Types DEF Left, Running
    <3>3. Left(c)' \in Nat
      <4>1. /\ x.attempt \in 0..Retries /\ x.left \in Nat /\ x.pc \in {"try", "sleep"}
            /\ x.pc = "sleep" => x.attempt + 1 \in 0..Retries
        BY <1>1, <3>1, Types DEF CallState
      <4>. QED BY <1>1, <1>3, <4>1, Types DEF Left
    <3>4. Left(c) <= Longest /\ (state = "open" => Left(c) + age <= Longest)
      BY <3>1 DEF CallInv, Bounded, Outlived
    <3>5. state = "half_open" => call[c].probe
      BY <3>1 DEF CallInv, NoStraggler
    <3>. QED BY <1>1, <1>3, <2>2, <3>1, <3>2, <3>3, <3>4, <3>5, Types
  <2>. QED BY <2>1, <2>2
<1>. QED BY <1>2, <1>4, PerCall

LEMMA CallStepKeeps ==
  ASSUME Shorter, CallInv, NEW c \in Caller, CallStep(c)
  PROVE  CallInv'
<1>0. CallTypeOK
  BY DEF CallInv
<1>1. CASE Admit(c)
  <2> DEFINE x == [pc |-> "try", attempt |-> 0, left |-> Timeout,
                   probe |-> Seen = "half_open"]
  <2>1. x \in CallState
    BY ResilientConstants DEF ResilientConstants, CallState
  <2>2. /\ call'[c] = x /\ \A d \in Caller : d # c => call'[d] = call[d]
        /\ call' \in [Caller -> CallState]
    BY <1>0, <1>1, <2>1 DEF Admit, CallTypeOK
  <2>3. CallTypeOK'
    BY <1>0, <1>1, <2>2 DEF Admit, Seen, CallTypeOK
  <2>4. ASSUME NEW d \in Caller, Running(d)'
        PROVE  /\ call'[d].pc = "sleep" => call'[d].attempt < Retries
               /\ Left(d)' <= Longest
               /\ state' = "open" => Left(d)' + age' <= Longest
               /\ state' = "half_open" => call'[d].probe
    <3>1. state' # "open" /\ state' = Seen
      BY <1>1 DEF Admit, Allowed
    <3>2. CASE d = c
      <4>1. Left(c)' = Longest
        BY <2>2 DEF Left, Longest
      <4>2. x.pc = "try" /\ x.probe = (Seen = "half_open")
        OBVIOUS
      <4>3. state' = "half_open" => x.probe
        BY <3>1, <4>2
      <4>. HIDE DEF x
      <4>. QED BY <1>0, <2>2, <3>1, <3>2, <4>1, <4>2, <4>3, Types
    <3>3. CASE d # c
      <4>1. call'[d] = call[d] /\ Running(d)
        BY <2>2, <2>4, <3>3 DEF Running
      <4>2. Left(d)' = Left(d)
        BY <4>1 DEF Left
      <4>3. state' = state
        BY <3>1, <4>1, Drained DEF Seen
      <4>. QED BY <3>1, <4>1, <4>2, <4>3 DEF CallInv, Bounded, NoStraggler
    <3>. QED BY <3>2, <3>3
  <2>. QED BY <2>3, <2>4, PerCall
<1>2. CASE Reject(c)
  BY <1>2 DEF Reject, callVars, CallInv, CallTypeOK, Bounded, Outlived, NoStraggler, Left, Running
<1>3. CASE Succeed(c) \/ Cancel(c)
  <2>1. /\ call' = [call EXCEPT ![c] = NoCall]
        /\ state' \in {"closed", state} /\ failures' \in 0..Threshold /\ age' = age
    BY <1>0, <1>3, ResilientConstants DEF ResilientConstants, Succeed, Cancel, CallTypeOK
  <2>. QED BY <2>1, NoCallIs, OneMoves
<1>4. CASE FailAttempt(c)
  <2> DEFINE x == [call[c] EXCEPT !.pc = "sleep", !.left = Backoff[call[c].attempt]]
  <2>1. /\ x \in CallState /\ x.pc = "sleep" /\ x.attempt = call[c].attempt
        /\ x.left = Backoff[call[c].attempt] /\ x.probe = call[c].probe
    BY <1>0, Types DEF CallTypeOK, CallState
  <2>2. call' = [call EXCEPT ![c] = x] /\ UNCHANGED <<state, failures, age>>
    BY <1>0, <1>4 DEF FailAttempt, CallTypeOK
  <2>3. call'[c] = x
    BY <1>0, <2>2 DEF CallTypeOK
  <2>. HIDE DEF x
  <2>4. Left(c)' <= Left(c)
    <3>1. call[c].attempt \in 0..Retries /\ call[c].attempt < Retries
      BY <1>0, <1>4, Types DEF FailAttempt
    <3>2. Rest[call[c].attempt] = Backoff[call[c].attempt] + Timeout + Rest[call[c].attempt + 1]
      BY <3>1, ResilientConstants DEF ResilientConstants
    <3>3. Left(c) = call[c].left + Rest[call[c].attempt]
      BY <1>4 DEF Left, FailAttempt
    <3>4. Left(c)' = Backoff[call[c].attempt] + Timeout + Rest[call[c].attempt + 1]
      BY <2>1, <2>3 DEF Left
    <3>5. Rest[call[c].attempt] \in Nat /\ call[c].left \in Nat
      BY <1>0, Types
    <3>. QED BY <3>2, <3>3, <3>4, <3>5
  <2>5. Running(c) /\ call[c].attempt < Retries
    BY <1>4 DEF FailAttempt, Running
  <2>6. state' \in {"closed", state} /\ failures' \in 0..Threshold /\ age' = age
    BY <1>0, <2>2 DEF CallTypeOK
  <2>. QED BY <2>1, <2>2, <2>4, <2>5, <2>6, OneMoves
<1>5. CASE Exhaust(c)
  <2>0. failures' \in 0..Threshold
    BY <1>0, <1>5, ResilientConstants DEF ResilientConstants, Exhaust, Counted, CallTypeOK
  <2>1. CASE UNCHANGED <<state, age>> /\ call' = [call EXCEPT ![c] = NoCall]
    BY <2>0, <2>1, NoCallIs, OneMoves
  <2>2. CASE /\ state' = "open" /\ age' = 0
             /\ call' = [d \in Caller |->
                           IF d = c THEN NoCall ELSE [call[d] EXCEPT !.probe = FALSE]]
    <3>1. \A d \in Caller : [call[d] EXCEPT !.probe = FALSE] \in CallState
      BY <1>0 DEF CallTypeOK, CallState
    <3>2. call' \in [Caller -> CallState]
      BY <2>2, <3>1, NoCallIs
    <3>3. CallTypeOK'
        BY <1>0, <2>0, <2>2, <3>2, Types DEF CallTypeOK
    <3>4. ASSUME NEW d \in Caller, Running(d)'
          PROVE  /\ call'[d].pc = "sleep" => call'[d].attempt < Retries
                 /\ Left(d)' <= Longest
                 /\ state' = "open" => Left(d)' + age' <= Longest
                 /\ state' = "half_open" => call'[d].probe
      <4>1. d # c
        BY <2>2, <3>4, NoCallIs DEF Running
      <4>2. call'[d] = [call[d] EXCEPT !.probe = FALSE]
        BY <2>2, <4>1
      <4>3. /\ call'[d].pc = call[d].pc /\ call'[d].attempt = call[d].attempt
            /\ call'[d].left = call[d].left
        BY <1>0, <4>2 DEF CallTypeOK, CallState
      <4>4. Left(d)' = Left(d) /\ Running(d)
        BY <3>4, <4>3 DEF Left, Running
      <4>5. Left(d) <= Longest /\ (call[d].pc = "sleep" => call[d].attempt < Retries)
        BY <4>4 DEF CallInv, Bounded
      <4>6. Left(d) \in Nat
        <5>1. call[d].pc = "sleep" => call[d].attempt + 1 \in 0..Retries
          BY <1>0, <4>5, Types
        <5>. QED BY <1>0, <4>4, <5>1, Types DEF Left, Running
      <4>. QED BY <2>2, <4>3, <4>4, <4>5, <4>6
    <3>. QED BY <3>3, <3>4, PerCall
  <2>. QED BY <1>5, <2>1, <2>2 DEF Exhaust
<1>6. CASE Resume(c)
  <2> DEFINE x == [call[c] EXCEPT !.pc = "try", !.attempt = call[c].attempt + 1,
                                  !.left = Timeout]
  <2>0. call[c].pc = "sleep" /\ call[c].attempt < Retries /\ Running(c) /\ call[c].left = 0
    BY <1>6 DEF Resume, CallInv, Bounded, Running
  <2>1. /\ x \in CallState /\ x.pc = "try" /\ x.attempt = call[c].attempt + 1
        /\ x.left = Timeout /\ x.probe = call[c].probe
    <3>1. call[c].attempt + 1 \in 0..Retries
      BY <1>0, <2>0, Types
    <3>. QED BY <1>0, <3>1, Types DEF CallTypeOK, CallState
  <2>2. call' = [call EXCEPT ![c] = x] /\ UNCHANGED <<state, failures, age>>
    BY <1>0, <1>6 DEF Resume, CallTypeOK
  <2>3. call'[c] = x
    BY <1>0, <2>2 DEF CallTypeOK
  <2>. HIDE DEF x
  <2>4. Left(c)' <= Left(c)
    <3>1. Left(c) = 0 + Timeout + Rest[call[c].attempt + 1]
      BY <2>0 DEF Left
    <3>2. Left(c)' = Timeout + Rest[call[c].attempt + 1]
      BY <2>1, <2>3 DEF Left
    <3>3. Timeout \in Nat /\ Rest[call[c].attempt + 1] \in Nat
      BY <1>0, <2>0, Types
    <3>. QED BY <3>1, <3>2, <3>3
  <2>5. state' \in {"closed", state} /\ failures' \in 0..Threshold /\ age' = age
    BY <1>0, <2>2 DEF CallTypeOK
  <2>. QED BY <2>0, <2>1, <2>2, <2>4, <2>5, OneMoves
<1>. QED BY <1>1, <1>2, <1>3, <1>4, <1>5, <1>6 DEF CallStep

LEMMA TickKeeps == ASSUME CallInv, Tick PROVE CallInv'
<1>0. CallTypeOK
  BY DEF CallInv
<1>1. age' \in 0..Cooldown /\ age' <= age + 1 /\ UNCHANGED <<state, failures>>
  BY <1>0, Types DEF Tick
<1>2. \A c \in Caller : call'[c] \in CallState
  BY <1>0, Types DEF Tick, Running, CallTypeOK, CallState
<1>3. CallTypeOK'
  BY <1>0, <1>1, <1>2 DEF Tick, CallTypeOK
<1>4. ASSUME NEW c \in Caller, Running(c)'
      PROVE  /\ call'[c].pc = "sleep" => call'[c].attempt < Retries
             /\ Left(c)' <= Longest
             /\ state' = "open" => Left(c)' + age' <= Longest
             /\ state' = "half_open" => call'[c].probe
  <2>1. Running(c)
    BY <1>4 DEF Tick, Running
  <2>2. call'[c] = [call[c] EXCEPT !.left = call[c].left - 1] /\ call[c].left > 0
    BY <2>1 DEF Tick
  <2>3. /\ call'[c].pc = call[c].pc /\ call'[c].attempt = call[c].attempt
        /\ call'[c].left = call[c].left - 1 /\ call'[c].probe = call[c].probe
    BY <1>0, <2>2 DEF CallTypeOK, CallState
  <2>4. call[c].pc = "sleep" => call[c].attempt + 1 \in 0..Retries
    BY <1>0, <2>1, Types DEF CallInv, Bounded
  <2>5. Left(c) \in Nat /\ Left(c)' = Left(c) - 1
    BY <1>0, <2>1, <2>3, <2>4, Types DEF Left, Running
  <2>6. /\ Left(c) <= Longest /\ (call[c].pc = "sleep" => call[c].attempt < Retries)
        /\ state = "open" => Left(c) + age <= Longest
        /\ state = "half_open" => call[c].probe
    BY <2>1 DEF CallInv, Bounded, Outlived, NoStraggler
  <2>. QED BY <1>0, <1>1, <2>3, <2>5, <2>6, Types
<1>. QED BY <1>3, <1>4, PerCall

LEMMA CallInvariant == ASSUME Shorter PROVE CallSpec => []CallInv
<1>1. CallInit => CallInv
  BY NoCallIs, ResilientConstants DEF ResilientConstants, CallInit, CallInv, CallTypeOK, Bounded,
     Outlived, NoStraggler, Running
<1>2. CallInv /\ [CallNext]_callVars => CallInv'
  <2> SUFFICES ASSUME CallInv, [CallNext]_callVars PROVE CallInv'
    OBVIOUS
  <2>1. CASE Tick
    BY <2>1, TickKeeps
  <2>2. CASE \E c \in Caller : CallStep(c)
    BY <2>2, CallStepKeeps
  <2>3. CASE UNCHANGED callVars
    BY <2>3 DEF callVars, CallInv, CallTypeOK, Bounded, Outlived, NoStraggler, Left, Running
  <2>. QED BY <2>1, <2>2, <2>3 DEF CallNext
<1>. QED BY <1>1, <1>2, PTL DEF CallSpec

\* Every variable keeps its type.
THEOREM CallsTyped == ASSUME Shorter PROVE CallSpec => []CallTypeOK
<1>1. CallInv => CallTypeOK
  BY DEF CallInv
<1>. QED BY <1>1, CallInvariant, PTL

\* A half-open breaker is judged by its probes, if the longest call is shorter
\* than the cooldown.
THEOREM OnlyProbesJudge == ASSUME Shorter PROVE CallSpec => []NoStraggler
<1>1. CallInv => NoStraggler
  BY DEF CallInv
<1>. QED BY <1>1, CallInvariant, PTL

-----------------------------------------------------------------------------
(* MoodWatch: types.                                                       *)

LEMMA MoodLabels == Neutral \notin Label /\ NoDraft \notin Draft /\ NoPattern \notin Pattern
  BY MoodConstants DEF MoodConstants

LEMMA NoTaskIs == NoTask \in TaskState /\ NoTask.pc = "idle"
<1>1. AnyBucket \in Bucket
  BY MoodConstants DEF MoodConstants, AnyBucket
<1>2. AnyText \in Text
  <2>1. PICK b \in Bucket, l \in Label : TRUE
    BY MoodConstants DEF MoodConstants
  <2>2. [usual |-> l, of |-> b, around |-> b, current |-> l] \in Text
    BY <2>1 DEF Text
  <2>. QED BY <2>2 DEF AnyText
<1>. QED BY <1>1, <1>2 DEF NoTask, TaskState

LEMMA SlotIs ==
  ASSUME MoodTypeOK
  PROVE  /\ slot.id \in Draft \union {NoDraft}
         /\ slot # Empty => slot.id \in Draft /\ slot.text \in Text
         /\ slot.id = NoDraft => slot = Empty
  BY MoodLabels DEF MoodTypeOK, Empty

\* Task k goes on as x, and nothing else is changed of the tasks.
Goes(k, x) == x \in TaskState /\ task' = [task EXCEPT ![k] = x]

LEMMA GoesIs ==
  ASSUME MoodTypeOK, NEW k \in Task, NEW x, Goes(k, x)
  PROVE  /\ task' \in [Task -> TaskState] /\ task'[k] = x
         /\ \A j \in Task : j # k => task'[j] = task[j]
  BY DEF MoodTypeOK, Goes

LEMMA BeginIs ==
  ASSUME MoodTypeOK, NEW k \in Task, Begin(k)
  PROVE  \E x \in TaskState : Goes(k, x) /\ x.pc = "label"
<1> DEFINE x == [task[k] EXCEPT !.pc = "label", !.todo = {b \in Bucket : Rows(b) >= MinSample}]
<1>1. task[k] \in TaskState /\ task \in [Task -> TaskState]
  BY DEF MoodTypeOK
<1>2. x \in TaskState /\ x.pc = "label"
  BY <1>1 DEF TaskState
<1>3. task' = [task EXCEPT ![k] = x]
  BY <1>1 DEF Begin
<1>. HIDE DEF x
<1>. QED BY <1>2, <1>3 DEF Goes

LEMMA LabelBucketIs ==
  ASSUME MoodTypeOK, NEW k \in Task, LabelBucket(k)
  PROVE  \E x \in TaskState : /\ Goes(k, x) /\ x.pc \in {"label", "search"}
                              /\ x.pc = "search" => x.label \in Label
<1>1. task[k] \in TaskState /\ task \in [Task -> TaskState]
  BY DEF MoodTypeOK
<1>2. PICK b \in task[k].todo, l \in Label \union {Neutral} :
        task' = [task EXCEPT ![k].todo = @ \ {b}, ![k].bucket = b, ![k].label = l,
                             ![k].pc = IF l = Neutral THEN "label" ELSE "search"]
  BY DEF LabelBucket
<1> DEFINE x == [task[k] EXCEPT !.todo = task[k].todo \ {b}, !.bucket = b, !.label = l,
                                !.pc = IF l = Neutral THEN "label" ELSE "search"]
<1>3. x \in TaskState /\ x.pc \in {"label", "search"} /\ (x.pc = "search" => x.label \in Label)
  BY <1>1, <1>2 DEF TaskState
<1>4. task' = [task EXCEPT ![k] = x]
  BY <1>1, <1>2
<1>. HIDE DEF x
<1>. QED BY <1>3, <1>4 DEF Goes

LEMMA SearchIs ==
  ASSUME MoodTypeOK, NEW k \in Task, Search(k)
  PROVE  \E x \in TaskState, R \in SUBSET Live :
           /\ Goes(k, x) /\ x.pc = "delete" /\ x.old = For(R, task[k].bucket)
           /\ x.bucket = task[k].bucket /\ x.label = task[k].label
           /\ mishap' = mishap \union
                Is("superseding", For(R, task[k].bucket) # For(Live, task[k].bucket))
<1>1. task[k] \in TaskState /\ task \in [Task -> TaskState]
  BY DEF MoodTypeOK
<1>2. PICK R \in Found(Near) :
        /\ task' = [task EXCEPT ![k].pc = "delete", ![k].old = For(R, task[k].bucket)]
        /\ mishap' = mishap \union
             Is("superseding", For(R, task[k].bucket) # For(Live, task[k].bucket))
  BY DEF Search
<1>3. R \in SUBSET Live /\ For(R, task[k].bucket) \in SUBSET Pattern
  BY DEF Found, For, Live
<1> DEFINE x == [task[k] EXCEPT !.pc = "delete", !.old = For(R, task[k].bucket)]
<1>4. /\ x \in TaskState /\ x.pc = "delete" /\ x.old = For(R, task[k].bucket)
      /\ x.bucket = task[k].bucket /\ x.label = task[k].label
  BY <1>1, <1>3 DEF TaskState
<1>5. task' = [task EXCEPT ![k] = x]
  BY <1>1, <1>2
<1>. HIDE DEF x
<1>. QED BY <1>2, <1>3, <1>4, <1>5 DEF Goes

LEMMA DeleteIs ==
  ASSUME MoodTypeOK, NEW k \in Task, Delete(k)
  PROVE  \E x \in TaskState, p \in Pattern :
           /\ Goes(k, x) /\ x.pc = "delete" /\ x.old = task[k].old \ {p}
           /\ x.bucket = task[k].bucket /\ x.label = task[k].label
           /\ pattern' = [pattern EXCEPT ![p] = NoPattern]
<1>1. task[k] \in TaskState /\ task \in [Task -> TaskState] /\ task[k].pc = "delete"
  BY DEF MoodTypeOK, Delete
<1>2. PICK p \in task[k].old : /\ pattern' = [pattern EXCEPT ![p] = NoPattern]
                               /\ task' = [task EXCEPT ![k].old = @ \ {p}]
  BY DEF Delete
<1> DEFINE x == [task[k] EXCEPT !.old = task[k].old \ {p}]
<1>3. /\ x \in TaskState /\ x.pc = "delete" /\ x.old = task[k].old \ {p}
      /\ x.bucket = task[k].bucket /\ x.label = task[k].label /\ p \in Pattern
  BY <1>1, <1>2 DEF TaskState
<1>4. task' = [task EXCEPT ![k] = x]
  BY <1>1, <1>2
<1>. HIDE DEF x
<1>. QED BY <1>2, <1>3, <1>4 DEF Goes

LEMMA InsertIs ==
  ASSUME MoodTypeOK, NEW k \in Task, Insert(k)
  PROVE  \E x \in TaskState : Goes(k, x) /\ x.pc = "label"
<1>1. task[k] \in TaskState /\ task \in [Task -> TaskState]
  BY DEF MoodTypeOK
<1> DEFINE x == [task[k] EXCEPT !.pc = "label", !.bucket = AnyBucket, !.label = Neutral]
<1>2. x \in TaskState /\ x.pc = "label"
  <2>1. AnyBucket \in Bucket
    BY MoodConstants DEF MoodConstants, AnyBucket
  <2>. QED BY <1>1, <2>1 DEF TaskState
<1>3. task' = [task EXCEPT ![k] = x]
  BY <1>1 DEF Insert
<1>. HIDE DEF x
<1>. QED BY <1>2, <1>3 DEF Goes

LEMMA LabelRecentIs ==
  ASSUME MoodTypeOK, NEW k \in Task, LabelRecent(k)
  PROVE  \E x \in TaskState : Goes(k, x) /\ x.pc = "compare" /\ x.bucket = now
<1>1. task[k] \in TaskState /\ task \in [Task -> TaskState] /\ now \in Bucket
  BY DEF MoodTypeOK
<1>2. PICK l \in Label \union {Neutral} :
        task' = [task EXCEPT ![k].pc = "compare", ![k].label = l, ![k].bucket = now]
  BY DEF LabelRecent
<1> DEFINE x == [task[k] EXCEPT !.pc = "compare", !.label = l, !.bucket = now]
<1>3. x \in TaskState /\ x.pc = "compare" /\ x.bucket = now
  BY <1>1, <1>2 DEF TaskState
<1>4. task' = [task EXCEPT ![k] = x]
  BY <1>1, <1>2
<1>. HIDE DEF x
<1>. QED BY <1>3, <1>4 DEF Goes

LEMMA CompareIs ==
  ASSUME MoodTypeOK, NEW k \in Task, Compare(k)
  PROVE  \E x \in TaskState :
           /\ Goes(k, x) /\ x.pc \in {"idle", "store"}
           /\ x.pc = "store" => /\ x.text.usual # x.text.current
                                /\ x.text.of = task[k].bucket /\ x.text.around = now
<1>1. task[k] \in TaskState /\ task \in [Task -> TaskState] /\ now \in Bucket
  BY DEF MoodTypeOK
<1>2. PICK R \in Found(Wide) \union {{}} :
        \/ task' = [task EXCEPT ![k] = NoTask]
        \/ \E p \in For(R, task[k].bucket) :
             /\ task[k].label \notin {Neutral, pattern[p].label}
             /\ task' = [task EXCEPT ![k] = [NoTask EXCEPT !.pc = "store",
                  !.text = [usual |-> pattern[p].label, of |-> pattern[p].bucket,
                            around |-> now, current |-> task[k].label]]]
  BY DEF Compare
<1>3. CASE task' = [task EXCEPT ![k] = NoTask]
  BY <1>3, NoTaskIs DEF Goes
<1>4. ASSUME NEW p \in For(R, task[k].bucket), task[k].label \notin {Neutral, pattern[p].label},
             task' = [task EXCEPT ![k] = [NoTask EXCEPT !.pc = "store",
                  !.text = [usual |-> pattern[p].label, of |-> pattern[p].bucket,
                            around |-> now, current |-> task[k].label]]]
      PROVE  \E x \in TaskState :
               /\ Goes(k, x) /\ x.pc \in {"idle", "store"}
               /\ x.pc = "store" => /\ x.text.usual # x.text.current
                                    /\ x.text.of = task[k].bucket /\ x.text.around = now
  <2> DEFINE w == [usual |-> pattern[p].label, of |-> pattern[p].bucket,
                   around |-> now, current |-> task[k].label]
             x == [NoTask EXCEPT !.pc = "store", !.text = w]
  <2>1. p \in R /\ R \subseteq Live /\ pattern[p].bucket = task[k].bucket
    BY <1>2, <1>4 DEF For, Found
  <2>2. pattern[p] \in Says
    BY <2>1 DEF MoodTypeOK, Live
  <2>3. /\ w \in Text /\ w.usual # w.current /\ w.of = task[k].bucket /\ w.around = now
    BY <1>1, <1>4, <2>1, <2>2 DEF Text, Says, TaskState
  <2>4. task' = [task EXCEPT ![k] = x]
    BY <1>4
  <2>. HIDE DEF w
  <2>5. x \in TaskState /\ x.pc = "store" /\ x.text = w
    BY <2>3, NoTaskIs DEF TaskState
  <2>. HIDE DEF x
  <2>. QED BY <2>3, <2>4, <2>5 DEF Goes
<1>. QED BY <1>2, <1>3, <1>4

LEMMA OverIs ==
  ASSUME MoodTypeOK, NEW k \in Task, Store(k) \/ Fail(k)
  PROVE  Goes(k, NoTask)
  BY NoTaskIs DEF Store, Fail, Goes

\* Every step of a task changes that task alone.
LEMMA TaskStepIs ==
  ASSUME MoodTypeOK, NEW k \in Task, TaskStep(k)
  PROVE  \E x \in TaskState : Goes(k, x)
<1>1. CASE Begin(k)
  BY <1>1, BeginIs
<1>2. CASE LabelBucket(k)
  BY <1>2, LabelBucketIs
<1>3. CASE Search(k)
  BY <1>3, SearchIs
<1>4. CASE Delete(k)
  BY <1>4, DeleteIs
<1>5. CASE Insert(k)
  BY <1>5, InsertIs
<1>6. CASE LabelRecent(k)
  BY <1>6, LabelRecentIs
<1>7. CASE Compare(k)
  BY <1>7, CompareIs
<1>8. CASE Store(k) \/ Fail(k)
  BY <1>8, OverIs, NoTaskIs
<1>. QED BY <1>1, <1>2, <1>3, <1>4, <1>5, <1>6, <1>7, <1>8 DEF TaskStep

\* The same of a turn.
Moves(n, y) == y \in TurnState /\ turn' = [turn EXCEPT ![n] = y]

LEMMA MovesIs ==
  ASSUME MoodTypeOK, NEW n \in Turn, NEW y, Moves(n, y)
  PROVE  /\ turn' \in [Turn -> TurnState] /\ turn'[n] = y
         /\ \A m \in Turn : m # n => turn'[m] = turn[m]
  BY DEF MoodTypeOK, Moves

LEMMA PopGetIs ==
  ASSUME MoodTypeOK, NEW n \in Turn, PopGet(n)
  PROVE  \E y \in TurnState : /\ Moves(n, y) /\ y.draft = slot.id
                              /\ y.pc = IF slot = Empty THEN "claim" ELSE "got"
<1>1. turn[n] \in TurnState /\ turn \in [Turn -> TurnState]
  BY DEF MoodTypeOK
<1> DEFINE pc == IF slot = Empty THEN "claim" ELSE "got"
           y == [turn[n] EXCEPT !.pc = pc, !.draft = slot.id]
<1>2. pc \in {"claim", "got"}
  OBVIOUS
<1>3. turn' = [turn EXCEPT ![n] = y]
  BY <1>1 DEF PopGet
<1>. HIDE DEF pc
<1>4. y \in TurnState /\ y.draft = slot.id /\ y.pc = pc
  BY <1>1, <1>2, SlotIs DEF TurnState
<1>. HIDE DEF y
<1>. QED BY <1>3, <1>4 DEF Moves, pc

LEMMA PopDeleteIs ==
  ASSUME MoodTypeOK, NEW n \in Turn, PopDelete(n)
  PROVE  \E y \in TurnState : Moves(n, y) /\ y.draft = NoDraft /\ y.pc = "claim"
<1>1. turn[n] \in TurnState /\ turn \in [Turn -> TurnState]
  BY DEF MoodTypeOK
<1> DEFINE y == [turn[n] EXCEPT !.pc = "claim", !.draft = NoDraft]
<1>2. y \in TurnState /\ y.draft = NoDraft /\ y.pc = "claim"
  BY <1>1 DEF TurnState
<1>3. turn' = [turn EXCEPT ![n] = y]
  BY <1>1 DEF PopDelete
<1>. HIDE DEF y
<1>. QED BY <1>2, <1>3 DEF Moves

LEMMA ClaimIs ==
  ASSUME MoodTypeOK, NEW n \in Turn, Claim(n)
  PROVE  \E y \in TurnState : /\ Moves(n, y) /\ y.draft = turn[n].draft
                              /\ y.pc = IF throttle THEN "idle" ELSE "recent"
<1>1. turn[n] \in TurnState /\ turn \in [Turn -> TurnState]
  BY DEF MoodTypeOK
<1> DEFINE pc == IF throttle THEN "idle" ELSE "recent"
           y == [turn[n] EXCEPT !.pc = pc]
<1>2. pc \in {"idle", "recent"}
  OBVIOUS
<1>3. turn' = [turn EXCEPT ![n] = y]
  BY <1>1 DEF Claim
<1>. HIDE DEF pc
<1>4. y \in TurnState /\ y.draft = turn[n].draft /\ y.pc = pc
  BY <1>1, <1>2 DEF TurnState
<1>. HIDE DEF y
<1>. QED BY <1>3, <1>4 DEF Moves, pc

LEMMA RecentIs ==
  ASSUME MoodTypeOK, NEW n \in Turn, Recent(n)
  PROVE  \E y \in TurnState : /\ Moves(n, y) /\ y.draft = turn[n].draft /\ y.pc \in {"idle", "add"}
                              /\ y.pc = "add" => y.new = list \ fresh
<1>1. turn[n] \in TurnState /\ turn \in [Turn -> TurnState] /\ list \ fresh \in SUBSET Track
  BY DEF MoodTypeOK
<1>2. CASE turn' = [turn EXCEPT ![n].pc = "idle"]
  <2> DEFINE y == [turn[n] EXCEPT !.pc = "idle"]
  <2>1. y \in TurnState /\ y.draft = turn[n].draft /\ y.pc = "idle"
    BY <1>1 DEF TurnState
  <2>2. turn' = [turn EXCEPT ![n] = y]
    BY <1>1, <1>2
  <2>. HIDE DEF y
  <2>. QED BY <2>1, <2>2 DEF Moves
<1>3. CASE turn' = [turn EXCEPT ![n].pc = IF list \subseteq fresh THEN "idle" ELSE "add",
                                ![n].new = list \ fresh]
  <2> DEFINE pc == IF list \subseteq fresh THEN "idle" ELSE "add"
             y == [turn[n] EXCEPT !.pc = pc, !.new = list \ fresh]
  <2>1. pc \in {"idle", "add"}
    OBVIOUS
  <2>2. turn' = [turn EXCEPT ![n] = y]
    BY <1>1, <1>3
  <2>. HIDE DEF pc
  <2>3. y \in TurnState /\ y.draft = turn[n].draft /\ y.pc = pc /\ y.new = list \ fresh
    BY <1>1, <2>1 DEF TurnState
  <2>. HIDE DEF y
  <2>. QED BY <2>1, <2>2, <2>3 DEF Moves
<1>. QED BY <1>2, <1>3 DEF Recent

LEMMA AddIs ==
  ASSUME MoodTypeOK, NEW n \in Turn, Add(n)
  PROVE  \E y \in TurnState : Moves(n, y) /\ y.draft = turn[n].draft /\ y.pc = "idle"
<1>1. turn[n] \in TurnState /\ turn \in [Turn -> TurnState]
  BY DEF MoodTypeOK
<1> DEFINE y == [turn[n] EXCEPT !.pc = "idle", !.new = {}]
<1>2. y \in TurnState /\ y.draft = turn[n].draft /\ y.pc = "idle"
  BY <1>1 DEF TurnState
<1>3. turn' = [turn EXCEPT ![n] = y]
  BY <1>1 DEF Add
<1>. HIDE DEF y
<1>. QED BY <1>2, <1>3 DEF Moves

\* An inference task that an ingest sends.
LEMMA SentIs ==
  ASSUME MoodTypeOK, NEW n \in Turn, Add(n)
  PROVE  task' = task \/ \E k \in Task, x \in TaskState :
                           Goes(k, x) /\ x.pc = "sent" /\ task[k].pc = "idle"
<1>1. task \in [Task -> TaskState]
  BY DEF MoodTypeOK
<1>2. SUFFICES ASSUME NEW k \in Task, task[k].pc = "idle", task' = [task EXCEPT ![k].pc = "sent"]
               PROVE  \E x \in TaskState : Goes(k, x) /\ x.pc = "sent"
  BY DEF Add
<1> DEFINE x == [task[k] EXCEPT !.pc = "sent"]
<1>3. x \in TaskState /\ x.pc = "sent"
  BY <1>1 DEF TaskState
<1>4. task' = [task EXCEPT ![k] = x]
  BY <1>1, <1>2
<1>. HIDE DEF x
<1>. QED BY <1>3, <1>4 DEF Goes

\* The rows after an ingest.
LEMMA RowsAre ==
  ASSUME MoodTypeOK, NEW n \in Turn, Add(n)
  PROVE  \E b \in Bucket : \A t \in Track, c \in Bucket :
           event'[t][c] = IF t \in turn[n].new /\ c = b THEN event[t][c] + 1 ELSE event[t][c]
  BY DEF MoodTypeOK, Add

LEMMA RowsTyped ==
  ASSUME MoodTypeOK, NEW n \in Turn, Add(n)
  PROVE  event' \in [Track -> [Bucket -> Nat]]
<1>1. PICK b \in Bucket :
        event' = [t \in Track |-> IF t \in turn[n].new
                                    THEN [event[t] EXCEPT ![b] = @ + 1] ELSE event[t]]
  BY DEF Add
<1>2. ASSUME NEW t \in Track
      PROVE  [event[t] EXCEPT ![b] = @ + 1] \in [Bucket -> Nat] /\ event[t] \in [Bucket -> Nat]
  BY DEF MoodTypeOK
<1>. QED BY <1>1, <1>2

\* What is searched and inserted for has a label that is not neutral.
Labelled == \A k \in Task : task[k].pc \in {"search", "delete"} => task[k].label \in Label

LEMMA LabelledStays ==
  ASSUME MoodTypeOK, Labelled, [MoodNext]_moodVars
  PROVE  Labelled'
<1> USE DEF time, plays, nudge
<1>1. ASSUME UNCHANGED task PROVE Labelled'
  BY <1>1 DEF Labelled
<1>2. ASSUME NEW k \in Task, NEW x \in TaskState, Goes(k, x),
             x.pc \in {"search", "delete"} => x.label \in Label
      PROVE  Labelled'
  BY <1>2, GoesIs DEF Labelled
<1>3. ASSUME NEW n \in Turn, TurnStep(n) PROVE Labelled'
  <2>1. UNCHANGED task \/ Add(n)
    BY <1>3 DEF TurnStep, PopGet, PopDelete, Claim, Recent
  <2>. QED BY <1>1, <1>2, <2>1, SentIs
<1>4. ASSUME NEW k \in Task, TaskStep(k) PROVE Labelled'
  <2>1. CASE Begin(k)
    BY <1>2, <2>1, BeginIs
  <2>2. CASE LabelBucket(k)
    BY <1>2, <2>2, LabelBucketIs
  <2>3. CASE Search(k)
    <3>1. task[k].label \in Label
      BY <2>3 DEF Search, Labelled
    <3>. QED BY <1>2, <2>3, <3>1, SearchIs
  <2>4. CASE Delete(k)
    <3>1. task[k].label \in Label
      BY <2>4 DEF Delete, Labelled
    <3>. QED BY <1>2, <2>4, <3>1, DeleteIs
  <2>5. CASE Insert(k)
    BY <1>2, <2>5, InsertIs
  <2>6. CASE LabelRecent(k)
    BY <1>2, <2>6, LabelRecentIs
  <2>7. CASE Compare(k)
    BY <1>2, <2>7, CompareIs
  <2>8. CASE Store(k) \/ Fail(k)
    BY <1>2, <2>8, OverIs, NoTaskIs
  <2>. QED BY <1>4, <2>1, <2>2, <2>3, <2>4, <2>5, <2>6, <2>7, <2>8 DEF TaskStep
<1>5. CASE HourTurns \/ ExpireThrottle \/ ExpireDraft \/ (\E t \in Track : Play(t) \/ Forget(t))
           \/ UNCHANGED moodVars
  BY <1>1, <1>5 DEF HourTurns, ExpireThrottle, ExpireDraft, Play, Forget, moodVars
<1>. QED BY <1>3, <1>4, <1>5 DEF MoodNext

LEMMA MoodTypeStep == MoodTypeOK /\ Labelled /\ [MoodNext]_moodVars => MoodTypeOK'
<1> SUFFICES ASSUME MoodTypeOK, Labelled, [MoodNext]_moodVars PROVE MoodTypeOK'
  OBVIOUS
<1> USE DEF time, plays, nudge
<1>1. CASE HourTurns
  BY <1>1 DEF MoodTypeOK, HourTurns, Is, Mishap
<1>2. CASE ExpireThrottle \/ ExpireDraft
  BY <1>2, SlotIs DEF MoodTypeOK, ExpireThrottle, ExpireDraft
<1>3. ASSUME NEW t \in Track, Play(t) \/ Forget(t) PROVE MoodTypeOK'
  BY <1>3 DEF MoodTypeOK, Play, Forget, Mishap
<1>4. ASSUME NEW n \in Turn, TurnStep(n) PROVE MoodTypeOK'
  <2>1. turn' \in [Turn -> TurnState]
    BY <1>4, PopGetIs, PopDeleteIs, ClaimIs, RecentIs, AddIs, MovesIs DEF TurnStep
  <2>2. CASE PopGet(n)
    BY <2>1, <2>2 DEF MoodTypeOK, PopGet, Is, Mishap
  <2>3. CASE PopDelete(n)
    <3>1. turn[n].draft \in Draft \/ UNCHANGED told \/ told' = [told EXCEPT ![turn[n].draft] = @ + 1]
      BY <2>3 DEF PopDelete
    <3>2. told' \in [Draft -> Nat]
      BY <2>3 DEF MoodTypeOK, PopDelete, TurnState
    <3>3. slot' \in {slot, Empty} /\ mishap' \subseteq mishap \union {"popping"}
      BY <2>3 DEF PopDelete
    <3>. QED BY <2>1, <2>3, <3>2, <3>3 DEF MoodTypeOK, PopDelete, Mishap
  <2>4. CASE Claim(n)
    BY <2>1, <2>4 DEF MoodTypeOK, Claim, Is, Mishap
  <2>5. CASE Recent(n)
    BY <2>1, <2>5 DEF MoodTypeOK, Recent
  <2>6. CASE Add(n)
    <3>1. task' \in [Task -> TaskState]
      BY <2>6, SentIs, GoesIs DEF MoodTypeOK
    <3>2. event' \in [Track -> [Bucket -> Nat]]
      BY <2>6, RowsTyped
    <3>3. fresh' \in SUBSET Track
      BY <2>6 DEF MoodTypeOK, TurnState, Add
    <3>4. UNCHANGED <<now, list, throttle, pattern, slot, told, gone, mishap>>
      BY <2>6 DEF Add
    <3>. QED BY <2>1, <3>1, <3>2, <3>3, <3>4 DEF MoodTypeOK
  <2>. QED BY <1>4, <2>2, <2>3, <2>4, <2>5, <2>6 DEF TurnStep
<1>5. ASSUME NEW k \in Task, TaskStep(k) PROVE MoodTypeOK'
  <2>1. task' \in [Task -> TaskState]
    BY <1>5, TaskStepIs, GoesIs
  <2>2. CASE Begin(k) \/ LabelBucket(k) \/ LabelRecent(k) \/ Compare(k) \/ Fail(k)
    <3>1. /\ UNCHANGED <<now, list, event, fresh, throttle, pattern, slot, told, gone, turn>>
          /\ mishap' \subseteq mishap \union {"superseding"}
      BY <2>2 DEF Begin, LabelBucket, LabelRecent, Compare, Fail, Is
    <3>. QED BY <2>1, <3>1 DEF MoodTypeOK, Mishap
  <2>3. CASE Search(k)
    <3>1. /\ UNCHANGED <<now, list, event, fresh, throttle, pattern, slot, told, gone, turn>>
          /\ mishap' \subseteq mishap \union {"superseding"}
      BY <2>3 DEF Search, Is
    <3>. QED BY <2>1, <3>1 DEF MoodTypeOK, Mishap
  <2>4. CASE Delete(k) \/ Insert(k)
    <3>1. UNCHANGED <<now, list, event, fresh, throttle, slot, told, gone, turn, mishap>>
      BY <2>4 DEF Delete, Insert
    <3>2. pattern' \in [Pattern -> Says \union {NoPattern}]
      <4>1. CASE Delete(k)
        BY <4>1, DeleteIs DEF MoodTypeOK
      <4>2. CASE Insert(k)
        <5>1. task[k].bucket \in Bucket /\ task[k].label \in Label
          BY <4>2 DEF MoodTypeOK, TaskState, Insert, Labelled
        <5>2. [bucket |-> task[k].bucket, label |-> task[k].label] \in Says
          BY <5>1 DEF Says
        <5>3. PICK p \in Pattern :
                pattern' = [pattern EXCEPT ![p] = [bucket |-> task[k].bucket,
                                                   label |-> task[k].label]]
          BY <4>2 DEF Insert
        <5>. QED BY <5>2, <5>3 DEF MoodTypeOK
      <4>. QED BY <2>4, <4>1, <4>2
    <3>. QED BY <2>1, <3>1, <3>2 DEF MoodTypeOK
  <2>5. CASE Store(k)
    <3>1. /\ UNCHANGED <<now, list, event, fresh, throttle, pattern, told, turn>>
          /\ mishap' \subseteq mishap \union {"popping"}
      BY <2>5 DEF Store, Is
    <3>2. slot' \in [id : Draft, text : Text] \union {Empty}
      <4>1. task[k].text \in Text
        BY DEF MoodTypeOK, TaskState
      <4>2. slot' = slot \/ \E d \in Draft : slot' = [id |-> d, text |-> task[k].text]
        BY <2>5 DEF Store
      <4>. QED BY <4>1, <4>2 DEF MoodTypeOK
    <3>3. gone' \in SUBSET Draft
      <4>1. gone' = gone \/ gone' = gone \union ({slot.id} \ {NoDraft})
        BY <2>5 DEF Store
      <4>2. slot.id \in Draft \union {NoDraft} /\ gone \in SUBSET Draft
        BY SlotIs DEF MoodTypeOK
      <4>. QED BY <4>1, <4>2
    <3>. QED BY <2>1, <3>1, <3>2, <3>3 DEF MoodTypeOK, Mishap
  <2>. QED BY <1>5, <2>2, <2>3, <2>4, <2>5 DEF TaskStep
<1>6. CASE UNCHANGED moodVars
  BY <1>6 DEF MoodTypeOK, moodVars
<1>. QED BY <1>1, <1>2, <1>3, <1>4, <1>5, <1>6 DEF MoodNext

LEMMA MoodTypeInit == MoodInit => MoodTypeOK /\ Labelled
<1> SUFFICES ASSUME MoodInit PROVE MoodTypeOK /\ Labelled
  OBVIOUS
<1>1. task \in [Task -> TaskState] /\ \A k \in Task : task[k].pc = "idle"
  BY NoTaskIs DEF MoodInit
<1>2. turn \in [Turn -> TurnState]
  BY DEF MoodInit, TurnState
<1>3. event \in [Track -> [Bucket -> Nat]] /\ told \in [Draft -> Nat]
  BY DEF MoodInit
<1>4. /\ now \in Bucket /\ list \in SUBSET Track /\ fresh \in SUBSET Track
      /\ gone \in SUBSET Draft /\ mishap \in SUBSET Mishap
      /\ pattern \in [Pattern -> Says \union {NoPattern}]
      /\ slot \in [id : Draft, text : Text] \union {Empty}
  BY DEF MoodInit
<1>5. throttle \in BOOLEAN
  BY DEF MoodInit
<1>6. MoodTypeOK
  BY <1>1, <1>2, <1>3, <1>4, <1>5 DEF MoodTypeOK
<1>. QED BY <1>1, <1>6 DEF Labelled

\* Types, and that no neutral label becomes a pattern.
THEOREM MoodTypeCorrect == MoodSpec => [](MoodTypeOK /\ Labelled)
<1>1. MoodTypeOK /\ Labelled /\ [MoodNext]_moodVars => (MoodTypeOK /\ Labelled)'
  BY MoodTypeStep, LabelledStays
<1>. QED BY <1>1, MoodTypeInit, PTL DEF MoodSpec

LEMMA MishapGrows == [MoodNext]_moodVars => mishap \subseteq mishap'
  BY DEF MoodNext, moodVars, HourTurns, Play, ExpireThrottle, Forget, ExpireDraft, TurnStep, PopGet,
     PopDelete, Claim, Recent, Add, TaskStep, Begin, LabelBucket, Search, Delete, Insert,
     LabelRecent, Compare, Store, Fail

-----------------------------------------------------------------------------
(* MoodWatch: one pattern for a time of the week.                          *)

\* One task works; what it has found to supersede is all there is for its bucket; and no
\* bucket has two patterns.
PatternInv ==
  /\ \A j, k \in Task : Working(j) /\ Working(k) => j = k
  /\ \A k \in Task : task[k].pc = "delete" =>
       \A p \in Live : pattern[p].bucket = task[k].bucket => p \in task[k].old
  /\ \A p, q \in Live : pattern[p].bucket = pattern[q].bucket => p = q

PatternHeld == "superseding" \notin mishap => PatternInv

LEMMA PatternStays ==
  ASSUME MoodTypeOK, PatternHeld, [MoodNext]_moodVars
  PROVE  PatternHeld'
<1> SUFFICES ASSUME "superseding" \notin mishap' PROVE PatternInv'
  BY DEF PatternHeld
<1>0. PatternInv
  BY MishapGrows DEF PatternHeld
<1> USE DEF time, plays, nudge
<1>1. ASSUME UNCHANGED <<task, pattern>> PROVE PatternInv'
  BY <1>0, <1>1 DEF PatternInv, Live, Working
\* A step of the task that works, or the end of its work.
<1>2. ASSUME NEW k \in Task, NEW x \in TaskState, Goes(k, x), UNCHANGED pattern,
             Working(k) \/ x.pc \in {"idle", "sent"}, x.pc # "delete"
      PROVE  PatternInv'
  <2>1. \A j \in Task : j # k => task'[j] = task[j]
    BY <1>2, GoesIs
  <2>2. task'[k] = x
    BY <1>2, GoesIs
  <2>3. \A j \in Task : Working(j)' => Working(j)
    BY <1>2, <2>1, <2>2 DEF Working
  <2>4. Live' = Live
    BY <1>2 DEF Live
  <2>. QED BY <1>0, <1>2, <2>1, <2>2, <2>3, <2>4 DEF PatternInv
<1>3. ASSUME NEW n \in Turn, TurnStep(n) PROVE PatternInv'
  <2>1. UNCHANGED pattern /\ (UNCHANGED task \/ Add(n))
    BY <1>3 DEF TurnStep, PopGet, PopDelete, Claim, Recent, Add
  <2>. QED BY <1>1, <1>2, <2>1, SentIs
<1>4. ASSUME NEW k \in Task, Begin(k) PROVE PatternInv'
  <2>1. \A j \in Task : ~Working(j)
    BY <1>4 DEF Begin, Is
  <2>2. UNCHANGED pattern
    BY <1>4 DEF Begin
  <2>3. PICK x \in TaskState : Goes(k, x) /\ x.pc = "label"
    BY <1>4, BeginIs
  <2>4. task'[k] = x /\ \A j \in Task : j # k => task'[j] = task[j]
    BY <2>3, GoesIs
  <2>5. \A j \in Task : (Working(j)' => j = k) /\ task'[j].pc # "delete"
    BY <2>1, <2>3, <2>4 DEF Working
  <2>6. Live' = Live
    BY <2>2 DEF Live
  <2>. QED BY <1>0, <2>2, <2>5, <2>6 DEF PatternInv
<1>5. ASSUME NEW k \in Task, LabelBucket(k) \/ LabelRecent(k) \/ Compare(k) PROVE PatternInv'
  <2>1. UNCHANGED pattern /\ Working(k)
    BY <1>5 DEF LabelBucket, LabelRecent, Compare, Working
  <2>. QED BY <1>2, <1>5, <2>1, LabelBucketIs, LabelRecentIs, CompareIs
<1>6. ASSUME NEW k \in Task, Store(k) \/ Fail(k) PROVE PatternInv'
  <2>1. UNCHANGED pattern
    BY <1>6 DEF Store, Fail
  <2>. QED BY <1>2, <1>6, <2>1, OverIs, NoTaskIs
<1>7. ASSUME NEW k \in Task, Search(k) PROVE PatternInv'
  <2>1. PICK x \in TaskState, R \in SUBSET Live :
          /\ Goes(k, x) /\ x.pc = "delete" /\ x.old = For(R, task[k].bucket)
          /\ x.bucket = task[k].bucket
          /\ mishap' = mishap \union
               Is("superseding", For(R, task[k].bucket) # For(Live, task[k].bucket))
    BY <1>7, SearchIs
  <2>2. For(R, task[k].bucket) = For(Live, task[k].bucket)
    BY <2>1 DEF Is
  <2>3. task'[k] = x /\ \A j \in Task : j # k => task'[j] = task[j]
    BY <2>1, GoesIs
  <2>4. Working(k) /\ UNCHANGED pattern
    BY <1>7 DEF Search, Working
  <2>5. \A j \in Task : Working(j)' => Working(j)
    BY <2>3, <2>4 DEF Working
  <2>6. \A p \in Live : pattern[p].bucket = x.bucket => p \in x.old
    BY <2>1, <2>2 DEF For
  <2>7. Live' = Live
    BY <2>4 DEF Live
  <2>. QED BY <1>0, <2>3, <2>4, <2>5, <2>6, <2>7 DEF PatternInv
\* With one task at work, the others have nothing to supersede.
<1>8. ASSUME NEW k \in Task, Working(k), NEW j \in Task, task[j].pc = "delete"
      PROVE  j = k
  BY <1>0, <1>8 DEF PatternInv, Working
<1>9. ASSUME NEW k \in Task, Delete(k) PROVE PatternInv'
  <2>1. PICK x \in TaskState, p \in Pattern :
          /\ Goes(k, x) /\ x.pc = "delete" /\ x.old = task[k].old \ {p}
          /\ x.bucket = task[k].bucket
          /\ pattern' = [pattern EXCEPT ![p] = NoPattern]
    BY <1>9, DeleteIs
  <2>2. task'[k] = x /\ \A j \in Task : j # k => task'[j] = task[j]
    BY <2>1, GoesIs
  <2>3. task[k].pc = "delete" /\ Working(k)
    BY <1>9 DEF Delete, Working
  <2>4. \A j \in Task : (Working(j)' => Working(j)) /\ (task'[j].pc = "delete" => j = k)
    BY <1>8, <2>2, <2>3 DEF Working
  <2>5. /\ pattern \in [Pattern -> Says \union {NoPattern}]
        /\ \A q \in Live' : q \in Live /\ q # p /\ pattern'[q] = pattern[q]
    BY <2>1 DEF MoodTypeOK, Live
  <2>6. \A q \in Live' : pattern'[q].bucket = x.bucket => q \in x.old
    BY <1>0, <2>1, <2>3, <2>5 DEF PatternInv
  <2>7. \A q, r \in Live' : pattern'[q].bucket = pattern'[r].bucket => q = r
    BY <1>0, <2>5 DEF PatternInv
  <2>8. \A i, j \in Task : Working(i)' /\ Working(j)' => i = j
    BY <1>0, <2>4 DEF PatternInv
  <2>9. \A j \in Task : task'[j].pc = "delete" =>
          \A q \in Live' : pattern'[q].bucket = task'[j].bucket => q \in task'[j].old
    BY <2>2, <2>4, <2>6
  <2>. QED BY <2>7, <2>8, <2>9 DEF PatternInv
<1>10. ASSUME NEW k \in Task, Insert(k) PROVE PatternInv'
  <2>1. PICK x \in TaskState : Goes(k, x) /\ x.pc = "label"
    BY <1>10, InsertIs
  <2>2. task'[k] = x /\ \A j \in Task : j # k => task'[j] = task[j]
    BY <2>1, GoesIs
  <2>3. task[k].pc = "delete" /\ Working(k) /\ task[k].old = {}
    BY <1>10 DEF Insert, Working
  <2>4. \A j \in Task : (Working(j)' => Working(j)) /\ task'[j].pc # "delete"
    BY <1>8, <2>1, <2>2, <2>3 DEF Working
  <2>5. PICK p \in Pattern \ Live :
          pattern' = [pattern EXCEPT ![p] = [bucket |-> task[k].bucket, label |-> task[k].label]]
    BY <1>10 DEF Insert
  <2>6. /\ pattern'[p].bucket = task[k].bucket
        /\ \A q \in Live' : q # p => q \in Live /\ pattern'[q] = pattern[q]
    BY <2>5 DEF MoodTypeOK, Live
  <2>7. \A q \in Live : pattern[q].bucket # task[k].bucket
    BY <1>0, <2>3 DEF PatternInv
  <2>8. \A q, r \in Live' : pattern'[q].bucket = pattern'[r].bucket => q = r
    BY <1>0, <2>6, <2>7 DEF PatternInv
  <2>9. \A i, j \in Task : Working(i)' /\ Working(j)' => i = j
    BY <1>0, <2>4 DEF PatternInv
  <2>. QED BY <2>4, <2>8, <2>9 DEF PatternInv
<1>11. CASE HourTurns \/ ExpireThrottle \/ ExpireDraft \/ (\E t \in Track : Play(t) \/ Forget(t))
            \/ UNCHANGED moodVars
  BY <1>1, <1>11 DEF HourTurns, ExpireThrottle, ExpireDraft, Play, Forget, moodVars
<1>. QED
  BY <1>3, <1>4, <1>5, <1>6, <1>7, <1>9, <1>10, <1>11 DEF MoodNext, TaskStep

\* A time of the week does not come to have two patterns, unless two tasks overlap or a search
\* misses the old one.
THEOREM OneForABucket == MoodSpec => []OnePattern
<1>1. MoodInit => PatternHeld
  BY NoTaskIs DEF MoodInit, PatternHeld, PatternInv, Live, Working
<1>2. MoodTypeOK /\ PatternHeld /\ [MoodNext]_moodVars => PatternHeld'
  BY PatternStays
<1>3. PatternHeld => OnePattern
  BY DEF PatternHeld, PatternInv, OnePattern
<1>. QED BY <1>1, <1>2, <1>3, MoodTypeCorrect, PTL DEF MoodSpec

-----------------------------------------------------------------------------
(* MoodWatch: a nudge that is true.                                        *)

\* What a draft that is to be stored, or is, says of itself; and the bucket a check compares
\* with is the current one, unless the hour turned.
Turned == "hour" \in mishap
NudgeIs(x, turned) == x.usual # x.current /\ (turned \/ x.of = x.around)

NudgeInv ==
  /\ \A k \in Task : task[k].pc = "store" => NudgeIs(task[k].text, Turned)
  /\ \A k \in Task : task[k].pc = "compare" /\ ~Turned => task[k].bucket = now
  /\ slot # Empty => NudgeIs(slot.text, Turned)

LEMMA NudgeStays ==
  ASSUME MoodTypeOK, NudgeInv, [MoodNext]_moodVars
  PROVE  NudgeInv'
<1> USE DEF time, plays, nudge
<1>0. mishap \subseteq mishap'
  BY MishapGrows
<1>1. \A x : NudgeIs(x, Turned) => NudgeIs(x, Turned')
  BY <1>0 DEF NudgeIs, Turned
<1>2. ASSUME UNCHANGED <<task, now>>, slot' \in {slot, Empty} PROVE NudgeInv'
  BY <1>0, <1>1, <1>2 DEF NudgeInv, Turned
<1>3. ASSUME NEW k \in Task, NEW x \in TaskState, Goes(k, x), UNCHANGED <<now, slot>>,
             x.pc = "store" => NudgeIs(x.text, Turned'),
             x.pc = "compare" => x.bucket = now
      PROVE  NudgeInv'
  <2>1. task'[k] = x /\ \A j \in Task : j # k => task'[j] = task[j]
    BY <1>3, GoesIs
  <2>. QED BY <1>0, <1>1, <1>3, <2>1 DEF NudgeInv, Turned
<1>4. CASE HourTurns
  <2>1. ~Turned' => \A k \in Task : task[k].pc # "compare"
    BY <1>4 DEF HourTurns, Is, Turned
  <2>2. UNCHANGED <<task, slot>>
    BY <1>4 DEF HourTurns
  <2>. QED BY <1>1, <2>1, <2>2 DEF NudgeInv
<1>5. ASSUME NEW n \in Turn, TurnStep(n) PROVE NudgeInv'
  <2>1. UNCHANGED now /\ slot' \in {slot, Empty} /\ (UNCHANGED task \/ Add(n))
    BY <1>5 DEF TurnStep, PopGet, PopDelete, Claim, Recent, Add
  <2>2. CASE Add(n)
    <3>1. UNCHANGED <<now, slot>>
      BY <2>2 DEF Add
    <3>2. CASE task' = task
      BY <1>2, <3>1, <3>2
    <3>3. CASE \E k \in Task, x \in TaskState : Goes(k, x) /\ x.pc = "sent"
      BY <1>3, <3>1, <3>3
    <3>. QED BY <2>2, <3>2, <3>3, SentIs
  <2>. QED BY <1>2, <2>1, <2>2
<1>6. ASSUME NEW k \in Task, Begin(k) \/ LabelBucket(k) \/ Search(k) \/ Delete(k) \/ Insert(k)
                             \/ Fail(k)
      PROVE  NudgeInv'
  <2>1. UNCHANGED <<now, slot>>
    BY <1>6 DEF Begin, LabelBucket, Search, Delete, Insert, Fail
  <2>2. \E x \in TaskState : Goes(k, x) /\ x.pc \notin {"store", "compare"}
    BY <1>6, BeginIs, LabelBucketIs, SearchIs, DeleteIs, InsertIs, OverIs, NoTaskIs
  <2>. QED BY <1>3, <2>1, <2>2
<1>7. ASSUME NEW k \in Task, LabelRecent(k) PROVE NudgeInv'
  <2>1. UNCHANGED <<now, slot>>
    BY <1>7 DEF LabelRecent
  <2>. QED BY <1>3, <1>7, <2>1, LabelRecentIs
<1>8. ASSUME NEW k \in Task, Compare(k) PROVE NudgeInv'
  <2>1. UNCHANGED <<now, slot, mishap>> /\ task[k].pc = "compare"
    BY <1>8 DEF Compare
  <2>2. PICK x \in TaskState :
          /\ Goes(k, x) /\ x.pc \in {"idle", "store"}
          /\ x.pc = "store" => /\ x.text.usual # x.text.current
                               /\ x.text.of = task[k].bucket /\ x.text.around = now
    BY <1>8, CompareIs
  <2>3. x.pc = "store" => NudgeIs(x.text, Turned')
    BY <2>1, <2>2 DEF NudgeInv, NudgeIs, Turned
  <2>. QED BY <1>3, <2>1, <2>2, <2>3
<1>9. ASSUME NEW k \in Task, Store(k) PROVE NudgeInv'
  <2>1. task[k].pc = "store" /\ now' = now /\ Goes(k, NoTask)
    BY <1>9, OverIs DEF Store
  <2>2. slot' = slot \/ \E d \in Draft : slot' = [id |-> d, text |-> task[k].text]
    BY <1>9 DEF Store
  <2>3. slot' # Empty => NudgeIs(slot'.text, Turned')
    BY <1>1, <2>1, <2>2 DEF NudgeInv
  <2>4. task'[k] = NoTask /\ \A j \in Task : j # k => task'[j] = task[j]
    BY <2>1, NoTaskIs, GoesIs
  <2>5. Empty' = Empty /\ NoTask.pc = "idle"
    BY NoTaskIs
  <2>. QED BY <1>0, <1>1, <2>1, <2>3, <2>4, <2>5 DEF NudgeInv, Turned
<1>10. CASE ExpireThrottle \/ ExpireDraft \/ (\E t \in Track : Play(t) \/ Forget(t))
            \/ UNCHANGED moodVars
  BY <1>2, <1>10 DEF ExpireThrottle, ExpireDraft, Play, Forget, moodVars
<1>. QED
  BY <1>4, <1>5, <1>6, <1>7, <1>8, <1>9, <1>10 DEF MoodNext, TaskStep

\* What Gia calls out of character is, and of the time she names unless the hour turned.
THEOREM NudgesAreTrue == MoodSpec => []TrueNudge
<1>1. MoodInit => NudgeInv
  BY NoTaskIs DEF MoodInit, NudgeInv
<1>2. MoodTypeOK /\ NudgeInv /\ [MoodNext]_moodVars => NudgeInv'
  BY NudgeStays
<1>3. NudgeInv => TrueNudge
  BY DEF NudgeInv, NudgeIs, Turned, TrueNudge
<1>. QED BY <1>1, <1>2, <1>3, MoodTypeCorrect, PTL DEF MoodSpec

-----------------------------------------------------------------------------
(* MoodWatch: a draft told once.                                           *)

\* One turn at most is between its read and its delete.  What it has read, and what is
\* stored, has not been told; while it holds a draft nothing else is stored.
ToldInv ==
  /\ \A m, n \in Turn : turn[m].pc = "got" /\ turn[n].pc = "got" => m = n
  /\ \A n \in Turn : IF turn[n].pc = "got"
                     THEN /\ turn[n].draft \in Draft /\ told[turn[n].draft] = 0
                          /\ slot.id \in {NoDraft, turn[n].draft}
                     ELSE turn[n].draft = NoDraft
  /\ slot.id \in Draft => told[slot.id] = 0
  /\ \A d \in Draft : told[d] <= 1

ToldHeld == "popping" \notin mishap => ToldInv

LEMMA ToldStays ==
  ASSUME MoodTypeOK, ToldHeld, [MoodNext]_moodVars
  PROVE  ToldHeld'
<1> SUFFICES ASSUME "popping" \notin mishap' PROVE ToldInv'
  BY DEF ToldHeld
<1>0. ToldInv
  BY MishapGrows DEF ToldHeld
<1> USE DEF time, plays, nudge
<1>1. ASSUME UNCHANGED <<turn, told>>, slot'.id \in {slot.id, NoDraft} PROVE ToldInv'
  BY <1>0, <1>1, MoodLabels DEF ToldInv
\* A turn that neither reads nor deletes.
<1>2. ASSUME NEW n \in Turn, NEW y \in TurnState, Moves(n, y), UNCHANGED <<slot, told>>,
             turn[n].pc # "got", y.pc # "got", y.draft = turn[n].draft
      PROVE  ToldInv'
  <2>1. turn'[n] = y /\ \A m \in Turn : m # n => turn'[m] = turn[m]
    BY <1>2, MovesIs
  <2>. QED BY <1>0, <1>2, <2>1 DEF ToldInv
<1>3. ASSUME NEW n \in Turn, PopGet(n) PROVE ToldInv'
  <2>1. PICK y \in TurnState : /\ Moves(n, y) /\ y.draft = slot.id
                               /\ y.pc = IF slot = Empty THEN "claim" ELSE "got"
    BY <1>3, PopGetIs
  <2>2. turn'[n] = y /\ \A m \in Turn : m # n => turn'[m] = turn[m]
    BY <2>1, MovesIs
  <2>3. UNCHANGED <<slot, told>> /\ turn[n].pc = "idle"
    BY <1>3 DEF PopGet
  <2>4. CASE slot = Empty
    <3>1. y.pc = "claim" /\ y.draft = turn[n].draft
      BY <1>0, <2>1, <2>3, <2>4 DEF Empty, ToldInv
    <3>. QED BY <1>2, <2>1, <2>3, <3>1
  <2>5. CASE slot # Empty
    <3>1. \A m \in Turn : turn[m].pc # "got"
      BY <1>3, <2>5 DEF PopGet, Is
    <3>2. y.pc = "got" /\ slot.id \in Draft
      BY <2>1, <2>5, SlotIs
    <3>3. told[slot.id] = 0
      BY <1>0, <3>2 DEF ToldInv
    <3>. QED BY <1>0, <2>1, <2>2, <2>3, <3>1, <3>2, <3>3 DEF ToldInv
  <2>. QED BY <2>4, <2>5
<1>4. ASSUME NEW n \in Turn, PopDelete(n) PROVE ToldInv'
  <2>1. turn[n].pc = "got" /\ slot' = Empty /\ told' = [told EXCEPT ![turn[n].draft] = @ + 1]
    BY <1>4 DEF PopDelete
  <2>2. turn[n].draft \in Draft /\ told[turn[n].draft] = 0 /\ told \in [Draft -> Nat]
    BY <1>0, <2>1 DEF ToldInv, MoodTypeOK
  <2>3. \A d \in Draft : told'[d] <= 1
    BY <1>0, <2>1, <2>2 DEF ToldInv
  <2>4. PICK y \in TurnState : Moves(n, y) /\ y.draft = NoDraft /\ y.pc = "claim"
    BY <1>4, PopDeleteIs
  <2>5. turn'[n] = y /\ \A m \in Turn : m # n => turn'[m] = turn[m]
    BY <2>4, MovesIs
  <2>6. \A m \in Turn : turn'[m].pc # "got" /\ turn'[m].draft = NoDraft
    BY <1>0, <2>1, <2>4, <2>5 DEF ToldInv
  <2>7. slot'.id = NoDraft
    BY <2>1 DEF Empty
  <2>. QED BY <2>3, <2>6, <2>7, MoodLabels DEF ToldInv
<1>5. ASSUME NEW n \in Turn, Claim(n) \/ Recent(n) \/ Add(n) PROVE ToldInv'
  <2>1. UNCHANGED <<slot, told>> /\ turn[n].pc # "got"
    BY <1>5 DEF Claim, Recent, Add
  <2>2. \E y \in TurnState : Moves(n, y) /\ y.draft = turn[n].draft /\ y.pc # "got"
    BY <1>5, ClaimIs, RecentIs, AddIs
  <2>. QED BY <1>2, <2>1, <2>2
<1>6. ASSUME NEW k \in Task, Begin(k) \/ LabelBucket(k) \/ Search(k) \/ Delete(k) \/ Insert(k)
                             \/ LabelRecent(k) \/ Compare(k) \/ Fail(k)
      PROVE  ToldInv'
  <2>1. UNCHANGED <<turn, told, slot>>
    BY <1>6 DEF Begin, LabelBucket, Search, Delete, Insert, LabelRecent, Compare, Fail
  <2>. QED BY <1>1, <2>1
<1>7. ASSUME NEW k \in Task, Store(k) PROVE ToldInv'
  <2>1. UNCHANGED <<turn, told>>
    BY <1>7 DEF Store
  <2>2. CASE slot' = slot
    BY <1>1, <2>1, <2>2
  <2>3. CASE slot' # slot
    <3>1. PICK d \in Draft : Unused(d) /\ slot' = [id |-> d, text |-> task[k].text]
      BY <1>7, <2>3 DEF Store
    <3>2. told[d] = 0 /\ slot'.id = d
      BY <3>1 DEF Unused
    <3>3. \A n \in Turn : turn[n].pc # "got"
      BY <1>7, <2>3 DEF Store, Is
    <3>. QED BY <1>0, <2>1, <3>2, <3>3 DEF ToldInv
  <2>. QED BY <2>2, <2>3
<1>8. CASE HourTurns \/ ExpireThrottle \/ ExpireDraft \/ (\E t \in Track : Play(t) \/ Forget(t))
           \/ UNCHANGED moodVars
  <2>1. UNCHANGED <<turn, told>> /\ slot' \in {slot, Empty}
    BY <1>8 DEF HourTurns, ExpireThrottle, ExpireDraft, Play, Forget, moodVars
  <2>2. slot'.id \in {slot.id, NoDraft}
    BY <2>1 DEF Empty
  <2>. QED BY <1>1, <2>1, <2>2
<1>. QED
  BY <1>3, <1>4, <1>5, <1>6, <1>7, <1>8 DEF MoodNext, TurnStep, TaskStep

\* A draft is told once, as long as turns take theirs one after the other.
THEOREM ToldAtMostOnce == MoodSpec => []ToldOnce
<1>1. MoodInit => ToldHeld
  BY MoodLabels DEF MoodInit, ToldHeld, ToldInv, Empty
<1>2. MoodTypeOK /\ ToldHeld /\ [MoodNext]_moodVars => ToldHeld'
  BY ToldStays
<1>3. ToldHeld => ToldOnce
  BY DEF ToldHeld, ToldInv, ToldOnce
<1>. QED BY <1>1, <1>2, <1>3, MoodTypeCorrect, PTL DEF MoodSpec

-----------------------------------------------------------------------------
(* MoodWatch: a play counted once.                                         *)

\* One turn at most records; what it is about to record has no row yet, as nothing has that
\* is not fresh; and no play has rows in two buckets, or two in one.
CountInv ==
  /\ \A m, n \in Turn : Recording(m) /\ Recording(n) => m = n
  /\ \A n \in Turn : turn[n].pc = "add" => turn[n].new \cap fresh = {}
  /\ \A t \in Track \ fresh : \A b \in Bucket : event[t][b] = 0
  /\ \A t \in Track : \A b, c \in Bucket :
       event[t][b] <= 1 /\ (event[t][b] + event[t][c] > 1 => b = c)

CountHeld == "recording" \notin mishap => CountInv

LEMMA CountStays ==
  ASSUME MoodTypeOK, CountHeld, [MoodNext]_moodVars
  PROVE  CountHeld'
<1> SUFFICES ASSUME "recording" \notin mishap' PROVE CountInv'
  BY DEF CountHeld
<1>0. CountInv
  BY MishapGrows DEF CountHeld
<1> USE DEF time, plays, nudge
<1>1. ASSUME UNCHANGED <<turn, event, fresh>> PROVE CountInv'
  BY <1>0, <1>1 DEF CountInv, Recording
\* A turn goes on and writes nothing.
<1>2. ASSUME NEW n \in Turn, NEW y \in TurnState, Moves(n, y), UNCHANGED <<event, fresh>>,
             Recording(n) \/ y.pc \notin {"recent", "add"},
             y.pc = "add" => y.new \cap fresh = {}
      PROVE  CountInv'
  <2>1. turn'[n] = y /\ \A m \in Turn : m # n => turn'[m] = turn[m]
    BY <1>2, MovesIs
  <2>2. \A m \in Turn : Recording(m)' => Recording(m)
    BY <1>2, <2>1 DEF Recording
  <2>3. \A m \in Turn : turn'[m].pc = "add" => turn'[m].new \cap fresh' = {}
    BY <1>0, <1>2, <2>1 DEF CountInv
  <2>. QED BY <1>0, <1>2, <2>2, <2>3 DEF CountInv
<1>3. ASSUME NEW n \in Turn, PopGet(n) \/ PopDelete(n) PROVE CountInv'
  <2>1. UNCHANGED <<event, fresh>>
    BY <1>3 DEF PopGet, PopDelete
  <2>2. \E y \in TurnState : Moves(n, y) /\ y.pc \notin {"recent", "add"}
    BY <1>3, PopGetIs, PopDeleteIs
  <2>. QED BY <1>2, <2>1, <2>2
<1>4. ASSUME NEW n \in Turn, Claim(n) PROVE CountInv'
  <2>1. PICK y \in TurnState : Moves(n, y) /\ y.pc = IF throttle THEN "idle" ELSE "recent"
    BY <1>4, ClaimIs
  <2>2. UNCHANGED <<event, fresh>>
    BY <1>4 DEF Claim
  <2>3. CASE throttle
    BY <1>2, <2>1, <2>2, <2>3
  <2>4. CASE ~throttle
    <3>1. \A m \in Turn : ~Recording(m)
      BY <1>4, <2>4 DEF Claim, Is
    <3>2. turn'[n] = y /\ y.pc = "recent" /\ \A m \in Turn : m # n => turn'[m] = turn[m]
      BY <2>1, <2>4, MovesIs
    <3>3. \A m \in Turn : (Recording(m)' => m = n) /\ turn'[m].pc # "add"
      BY <3>1, <3>2 DEF Recording
    <3>. QED BY <1>0, <2>2, <3>3 DEF CountInv
  <2>. QED BY <2>3, <2>4
<1>5. ASSUME NEW n \in Turn, Recent(n) PROVE CountInv'
  <2>1. UNCHANGED <<event, fresh>> /\ Recording(n)
    BY <1>5 DEF Recent, Recording
  <2>2. \E y \in TurnState : Moves(n, y) /\ (y.pc = "add" => y.new = list \ fresh)
    BY <1>5, RecentIs
  <2>. QED BY <1>2, <2>1, <2>2
<1>6. ASSUME NEW n \in Turn, Add(n) PROVE CountInv'
  <2>1. turn[n].pc = "add" /\ fresh' = fresh \union turn[n].new
    BY <1>6 DEF Add
  <2>2. PICK y \in TurnState : Moves(n, y) /\ y.pc = "idle"
    BY <1>6, AddIs
  <2>3. turn'[n] = y /\ \A m \in Turn : m # n => turn'[m] = turn[m]
    BY <2>2, MovesIs
  <2>4. \A m \in Turn : ~Recording(m)' /\ turn'[m].pc # "add"
    BY <1>0, <2>1, <2>2, <2>3 DEF CountInv, Recording
  <2>5. PICK b \in Bucket : \A t \in Track, c \in Bucket :
          event'[t][c] = IF t \in turn[n].new /\ c = b THEN event[t][c] + 1 ELSE event[t][c]
    BY <1>6, RowsAre
  <2>6. \A t \in turn[n].new : t \notin fresh
    BY <1>0, <2>1 DEF CountInv
  <2>7. \A t \in Track, c \in Bucket : event[t][c] \in Nat
    BY DEF MoodTypeOK
  <2>8. \A t \in Track \ fresh' : \A c \in Bucket : event'[t][c] = 0
    BY <1>0, <2>1, <2>5 DEF CountInv
  <2>9. ASSUME NEW t \in Track, NEW c \in Bucket, NEW d \in Bucket
        PROVE  event'[t][c] <= 1 /\ (event'[t][c] + event'[t][d] > 1 => c = d)
    <3>1. CASE t \in turn[n].new
      <4>1. event[t][c] = 0 /\ event[t][d] = 0
        BY <1>0, <2>6, <3>1 DEF CountInv
      <4>2. event'[t][c] = (IF c = b THEN 1 ELSE 0) /\ event'[t][d] = IF d = b THEN 1 ELSE 0
        BY <2>5, <3>1, <4>1
      <4>. QED BY <4>2
    <3>2. CASE t \notin turn[n].new
      BY <1>0, <2>5, <2>7, <3>2 DEF CountInv
    <3>. QED BY <3>1, <3>2
  <2>. QED BY <2>4, <2>8, <2>9 DEF CountInv
<1>7. ASSUME NEW k \in Task, TaskStep(k) PROVE CountInv'
  <2>1. UNCHANGED <<turn, event, fresh>>
    BY <1>7 DEF TaskStep, Begin, LabelBucket, Search, Delete, Insert, LabelRecent, Compare, Store,
       Fail
  <2>. QED BY <1>1, <2>1
<1>8. CASE HourTurns \/ ExpireThrottle \/ ExpireDraft \/ (\E t \in Track : Play(t) \/ Forget(t))
           \/ UNCHANGED moodVars
  <2>1. UNCHANGED <<turn, event, fresh>>
    BY <1>8 DEF HourTurns, ExpireThrottle, ExpireDraft, Play, Forget, moodVars
  <2>. QED BY <1>1, <2>1
<1>. QED
  BY <1>3, <1>4, <1>5, <1>6, <1>7, <1>8 DEF MoodNext, TurnStep

\* A play is recorded once, as long as its row is known and ingests do not overlap.
THEOREM PlaysCountedOnce == MoodSpec => []CountedOnce
<1>1. MoodInit => CountHeld
  BY DEF MoodInit, CountHeld, CountInv, Recording
<1>2. MoodTypeOK /\ CountHeld /\ [MoodNext]_moodVars => CountHeld'
  BY CountStays
<1>3. CountHeld => CountedOnce
  BY DEF CountHeld, CountInv, CountedOnce
<1>. QED BY <1>1, <1>2, <1>3, MoodTypeCorrect, PTL DEF MoodSpec

=============================================================================
