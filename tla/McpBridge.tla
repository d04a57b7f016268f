------------------------------ MODULE McpBridge ------------------------------
(***************************************************************************)
(* _McpBridge (tools/spotify.py): the owner task of the Spotify MCP        *)
(* session takes calls from a queue, connects when it has no session,      *)
(* reconnects and tries once more when a call fails, and answers through a *)
(* future.  The MCP server is external: it may fail before or after it has *)
(* done what it was asked.                                                 *)
(***************************************************************************)
EXTENDS Naturals, Sequences

CONSTANTS
  Tool,      \* calls that requests make (a bound)
  Shutdown,  \* the sentinel
  NoTool

ASSUME BridgeConstants == Shutdown \notin Tool /\ NoTool \notin Tool

VARIABLES
  started,  \* _owner is not None
  stop,     \* stop(): not called, waiting for the owner, or over
  queue,    \* _queue
  fut,      \* fut[c]: the future of call c
  at,       \* what the owner task does
  cur,      \* the call it serves
  attempt,  \* the attempt it is at
  session,  \* it has a session
  asked,    \* calls in the order they were submitted
  ran       \* ran[c]: times the server has done what c asks

vars == <<started, stop, queue, fut, at, cur, attempt, session, asked, ran>>

TypeOK ==
  /\ started \in BOOLEAN /\ session \in BOOLEAN
  /\ stop \in {"no", "waiting", "over"}
  /\ queue \in Seq(Tool \union {Shutdown})
  /\ fut \in [Tool -> {"none", "pending", "ok", "error", "cancelled"}]
  /\ at \in {"none", "get", "connect", "call", "reply", "retry", "over"}
  /\ cur \in Tool \union {NoTool}
  /\ attempt \in 1..2
  /\ asked \in Seq(Tool)
  /\ ran \in [Tool -> 0..2]

Init ==
  /\ started = FALSE /\ session = FALSE /\ stop = "no"
  /\ queue = <<>> /\ asked = <<>>
  /\ fut = [c \in Tool |-> "none"]
  /\ at = "none" /\ cur = NoTool /\ attempt = 1
  /\ ran = [c \in Tool |-> 0]

-----------------------------------------------------------------------------
(* start, call and stop.                                                   *)

Start ==
  /\ at = "none"
  /\ started' = TRUE /\ at' = "get"
  /\ UNCHANGED <<stop, queue, fut, cur, attempt, session, asked, ran>>

Submit(c) ==
  /\ started /\ fut[c] = "none"
  /\ fut' = [fut EXCEPT ![c] = "pending"]
  /\ queue' = Append(queue, c)
  /\ asked' = Append(asked, c)
  /\ UNCHANGED <<started, stop, at, cur, attempt, session, ran>>

\* "Spotify MCP session is not started".
Refuse(c) ==
  /\ ~started /\ fut[c] = "none"
  /\ fut' = [fut EXCEPT ![c] = "error"]
  /\ UNCHANGED <<started, stop, queue, at, cur, attempt, session, asked, ran>>

\* The caller's turn is cancelled, and the future with it.
GiveUp(c) ==
  /\ fut[c] = "pending"
  /\ fut' = [fut EXCEPT ![c] = "cancelled"]
  /\ UNCHANGED <<started, stop, queue, at, cur, attempt, session, asked, ran>>

Stop ==
  /\ started /\ stop = "no"
  /\ stop' = "waiting"
  /\ queue' = Append(queue, Shutdown)
  /\ UNCHANGED <<started, fut, at, cur, attempt, session, asked, ran>>

\* The owner does not end within 10 s and is cancelled.
StopLate ==
  /\ stop = "waiting" /\ at # "over"
  /\ at' = "over" /\ cur' = NoTool /\ session' = FALSE
  /\ stop' = "over" /\ started' = FALSE
  /\ UNCHANGED <<queue, fut, attempt, asked, ran>>

Stopped ==
  /\ stop = "waiting" /\ at = "over"
  /\ stop' = "over" /\ started' = FALSE
  /\ UNCHANGED <<queue, fut, at, cur, attempt, session, asked, ran>>

-----------------------------------------------------------------------------
(* _run.                                                                   *)

\* Fault: a call is begun whether or not its caller still waits.
Get_Blind ==
  /\ at = "get" /\ queue # <<>>
  /\ queue' = Tail(queue)
  /\ attempt' = 1
  /\ IF Head(queue) = Shutdown
     THEN at' = "over" /\ session' = FALSE /\ UNCHANGED cur
     ELSE /\ cur' = Head(queue)
          /\ at' = IF session THEN "call" ELSE "connect"
          /\ UNCHANGED session
  /\ UNCHANGED <<started, stop, fut, asked, ran>>

\* The sentinel ends the task; a call whose future is done is skipped.
Get ==
  /\ at = "get" /\ queue # <<>>
  /\ queue' = Tail(queue)
  /\ attempt' = 1
  /\ IF Head(queue) = Shutdown
     THEN at' = "over" /\ session' = FALSE /\ UNCHANGED cur
     ELSE IF fut[Head(queue)] # "pending" THEN UNCHANGED <<at, cur, session>>
     ELSE /\ cur' = Head(queue)
          /\ at' = IF session THEN "call" ELSE "connect"
          /\ UNCHANGED session
  /\ UNCHANGED <<started, stop, fut, asked, ran>>

Connect ==
  /\ at = "connect"
  /\ \/ at' = "call" /\ session' = TRUE
     \/ at' = "retry" /\ UNCHANGED session
  /\ UNCHANGED <<started, stop, queue, fut, cur, attempt, asked, ran>>

\* call_tool: the server does what it is asked, or fails to.
Execute ==
  /\ at = "call"
  /\ \/ at' = "reply" /\ ran' = [ran EXCEPT ![cur] = ran[cur] + 1]
     \/ at' = "retry" /\ UNCHANGED ran
  /\ UNCHANGED <<started, stop, queue, fut, cur, attempt, session, asked>>

Resolved(outcome) ==
  fut' = [fut EXCEPT ![cur] = IF fut[cur] = "pending" THEN outcome ELSE fut[cur]]

\* Its answer arrives,
Answer ==
  /\ at = "reply"
  /\ Resolved("ok")
  /\ at' = "get" /\ cur' = NoTool
  /\ UNCHANGED <<started, stop, queue, attempt, session, asked, ran>>

\* or is lost.
Lose ==
  /\ at = "reply"
  /\ at' = "retry"
  /\ UNCHANGED <<started, stop, queue, fut, cur, attempt, session, asked, ran>>

\* teardown, a pause and the second attempt,
Retry ==
  /\ at = "retry" /\ attempt = 1
  /\ session' = FALSE
  /\ attempt' = 2
  /\ at' = "connect"
  /\ UNCHANGED <<started, stop, queue, fut, cur, asked, ran>>

\* Fault: a call that fails is not answered.
Report_Not ==
  /\ at = "retry" /\ attempt = 2
  /\ session' = FALSE
  /\ at' = "get" /\ cur' = NoTool
  /\ UNCHANGED <<started, stop, queue, fut, attempt, asked, ran>>

\* or the last error is reported.
Report ==
  /\ at = "retry" /\ attempt = 2
  /\ session' = FALSE
  /\ Resolved("error")
  /\ at' = "get" /\ cur' = NoTool
  /\ UNCHANGED <<started, stop, queue, attempt, asked, ran>>

Owner == Get \/ Connect \/ Execute \/ Answer \/ Lose \/ Retry \/ Report

Next ==
  \/ Start \/ Stop \/ StopLate \/ Stopped
  \/ Owner
  \/ \E c \in Tool : Submit(c) \/ Refuse(c) \/ GiveUp(c)

Spec == Init /\ [][Next]_vars

\* The owner task runs, the server answers or fails, and wait_for ends stop().
FairSpec ==
  /\ Spec
  /\ WF_vars(Get \/ Connect \/ Execute \/ Retry \/ Report)
  /\ WF_vars(Answer \/ Lose)
  /\ WF_vars(StopLate) /\ WF_vars(Stopped)

-----------------------------------------------------------------------------
(* Properties.                                                             *)

Service == INSTANCE ToolService
  WITH open <- started, waiting <- queue, current <- cur, outcome <- fut

\* The bridge keeps its promise to its callers through failures, reconnections and
\* shutdown: one call at a time, in order, answered at most once.
Promise == Service!Spec

\* Commands reach Spotify in the order they were given: none is carried out before
\* an earlier one that is still awaited.
InOrder ==
  \A i, j \in DOMAIN asked : i < j /\ ran[asked[j]] > 0 =>
    ran[asked[i]] > 0 \/ fut[asked[i]] # "pending"

\* "a dropped session or transient error should self-heal rather than wedge Spotify
\* for the rest of the process": every call is answered, unless the application
\* shuts down first, for nothing answers what is queued behind the sentinel.
Answered == \A c \in Tool : fut[c] = "pending" ~> (fut[c] # "pending" \/ stop # "no")
=============================================================================
