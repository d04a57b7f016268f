----------------------------- MODULE ToolService -----------------------------
(***************************************************************************)
(* What the Spotify bridge promises its callers, whatever happens to the   *)
(* process behind it: calls are served one at a time and in the order they *)
(* were made, one whose caller has given up before its turn is never       *)
(* begun, and each is answered at most once.                               *)
(***************************************************************************)
EXTENDS Sequences

CONSTANTS Tool, Shutdown, NoTool

VARIABLES
  open,     \* calls are accepted
  waiting,  \* calls not begun, and the request to shut down
  current,  \* the call being served
  outcome   \* outcome[c]: what c's caller has been told

vars == <<open, waiting, current, outcome>>

Init ==
  /\ open = FALSE
  /\ waiting = <<>>
  /\ current = NoTool
  /\ outcome = [c \in Tool |-> "none"]

Open ==
  /\ ~open /\ open' = TRUE
  /\ UNCHANGED <<waiting, current, outcome>>

Ask(c) ==
  /\ open /\ outcome[c] = "none"
  /\ outcome' = [outcome EXCEPT ![c] = "pending"]
  /\ waiting' = Append(waiting, c)
  /\ UNCHANGED <<open, current>>

Refuse(c) ==
  /\ ~open /\ outcome[c] = "none"
  /\ outcome' = [outcome EXCEPT ![c] = "error"]
  /\ UNCHANGED <<open, waiting, current>>

GiveUp(c) ==
  /\ outcome[c] = "pending"
  /\ outcome' = [outcome EXCEPT ![c] = "cancelled"]
  /\ UNCHANGED <<open, waiting, current>>

\* The head is begun if its caller still waits, and dropped otherwise.
Begin ==
  /\ current = NoTool
  /\ waiting # <<>> /\ Head(waiting) # Shutdown
  /\ waiting' = Tail(waiting)
  /\ current' = IF outcome[Head(waiting)] = "pending" THEN Head(waiting) ELSE NoTool
  /\ UNCHANGED <<open, outcome>>

Settle ==
  /\ current # NoTool
  /\ current' = NoTool
  /\ \E o \in {"ok", "error"} :
       outcome' = [outcome EXCEPT ![current] =
                     IF outcome[current] = "pending" THEN o ELSE outcome[current]]
  /\ UNCHANGED <<open, waiting>>

Close ==
  /\ open
  /\ waiting' = Append(waiting, Shutdown)
  /\ UNCHANGED <<open, current, outcome>>

\* Shutting down in turn takes the request off the queue.
Shut ==
  /\ current = NoTool
  /\ waiting # <<>> /\ Head(waiting) = Shutdown
  /\ waiting' = Tail(waiting)
  /\ UNCHANGED <<open, current, outcome>>

\* Closing in a hurry abandons the call being served.
Closed ==
  /\ open
  /\ open' = FALSE
  /\ current' = NoTool
  /\ UNCHANGED <<waiting, outcome>>

Next ==
  \/ Open \/ Begin \/ Settle \/ Close \/ Shut \/ Closed
  \/ \E c \in Tool : Ask(c) \/ Refuse(c) \/ GiveUp(c)

Spec == Init /\ [][Next]_vars
=============================================================================
