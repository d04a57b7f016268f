---------------------------- MODULE ResilientCall ----------------------------
(***************************************************************************)
(* resilient_call and its CircuitBreaker (tools/resilience.py): concurrent *)
(* calls to one outside service, each an attempt with a timeout and        *)
(* retries after a back-off, that share a breaker.  The service is free to *)
(* answer, to fail or to hang at any attempt, and a caller to be cancelled.*)
(*                                                                         *)
(* Time passes in ticks.  Between two awaits the code runs without         *)
(* interruption, so each action ends at an await.                          *)
(***************************************************************************)
EXTENDS Naturals

CONSTANTS
  Caller,     \* concurrent users of the service (a bound)
  Threshold,  \* failed calls that trip the breaker
  Cooldown,   \* ticks it stays open
  Retries,    \* attempts after the first
  Timeout,    \* ticks an attempt may last
  Backoff,    \* Backoff[a]: ticks between attempts a and a + 1
  Rest        \* Rest[a]: ticks a call can take once attempt a is over

ASSUME ResilientConstants ==
  /\ Threshold \in Nat \ {0} /\ Cooldown \in Nat /\ Retries \in Nat
  /\ Timeout \in Nat \ {0}
  /\ Backoff \in [0..Retries -> Nat] /\ Rest \in [0..Retries -> Nat]
  /\ Rest[Retries] = 0
  /\ \A a \in 0..Retries : a < Retries => Rest[a] = Backoff[a] + Timeout + Rest[a + 1]

VARIABLES
  state,     \* _state of the breaker
  failures,  \* _failures, which matters up to Threshold only
  age,       \* time since _opened_at, which matters up to Cooldown only
  call       \* call[c]: the call c has in progress

callVars == <<state, failures, age, call>>

CallState ==
  [pc : {"idle", "try", "sleep"},
   attempt : 0..Retries,
   left : Nat,          \* ticks until the timeout, or the end of the sleep
   probe : BOOLEAN]     \* let in half-open, and the breaker not opened since

CallTypeOK ==
  /\ state \in {"closed", "open", "half_open"}
  /\ failures \in 0..Threshold
  /\ age \in 0..Cooldown
  /\ call \in [Caller -> CallState]

NoCall == [pc |-> "idle", attempt |-> 0, left |-> 0, probe |-> FALSE]

CallInit ==
  /\ state = "closed" /\ failures = 0 /\ age = 0
  /\ call = [c \in Caller |-> NoCall]

Running(c) == call[c].pc # "idle"

\* The state property: an open breaker turns half-open when it is next looked
\* at after the cooldown.
Seen == IF state = "open" /\ age = Cooldown THEN "half_open" ELSE state

-----------------------------------------------------------------------------

\* allow().
Allowed == Seen # "open"

\* A caller with something to ask is let in and its first attempt starts.
Admit(c) ==
  /\ ~Running(c) /\ Allowed
  /\ state' = Seen
  /\ call' = [call EXCEPT ![c] = [pc |-> "try", attempt |-> 0, left |-> Timeout,
                                  probe |-> Seen = "half_open"]]
  /\ UNCHANGED <<failures, age>>

\* Fault: a rejected call is counted as a failed one.
Reject_Counts(c) ==
  /\ ~Running(c) /\ ~Allowed
  /\ age' = 0
  /\ UNCHANGED <<state, failures, call>>

\* CircuitOpenError.
Reject(c) ==
  /\ ~Running(c) /\ ~Allowed
  /\ UNCHANGED callVars

\* An answer in time: record_success.
Succeed(c) ==
  /\ call[c].pc = "try"
  /\ state' = "closed" /\ failures' = 0
  /\ call' = [call EXCEPT ![c] = NoCall]
  /\ UNCHANGED age

\* An attempt fails and another is to follow.
FailAttempt(c) ==
  /\ call[c].pc = "try" /\ call[c].attempt < Retries
  /\ call' = [call EXCEPT ![c].pc = "sleep", ![c].left = Backoff[call[c].attempt]]
  /\ UNCHANGED <<state, failures, age>>

Counted == IF failures < Threshold THEN failures + 1 ELSE Threshold

\* The last attempt fails: record_failure counts the call, and the breaker
\* opens, for another cooldown if it was open.
Exhaust(c) ==
  /\ call[c].pc = "try" /\ call[c].attempt = Retries
  /\ failures' = Counted
  /\ IF Counted = Threshold \/ state = "half_open"
     THEN /\ state' = "open" /\ age' = 0
          /\ call' = [d \in Caller |->
                        IF d = c THEN NoCall ELSE [call[d] EXCEPT !.probe = FALSE]]
     ELSE /\ call' = [call EXCEPT ![c] = NoCall]
          /\ UNCHANGED <<state, age>>

Resume(c) ==
  /\ call[c].pc = "sleep" /\ call[c].left = 0
  /\ call' = [call EXCEPT ![c].pc = "try", ![c].attempt = call[c].attempt + 1,
                          ![c].left = Timeout]
  /\ UNCHANGED <<state, failures, age>>

\* The turn is cancelled: neither a success nor a failure.
Cancel(c) ==
  /\ Running(c)
  /\ call' = [call EXCEPT ![c] = NoCall]
  /\ UNCHANGED <<state, failures, age>>

\* Fault: attempts are not bounded by wait_for.
Tick_NoTimeout ==
  /\ \A c \in Caller : call[c].pc = "sleep" => call[c].left > 0
  /\ age' = IF age < Cooldown THEN age + 1 ELSE age
  /\ call' = [c \in Caller |-> IF call[c].pc = "sleep"
                              THEN [call[c] EXCEPT !.left = call[c].left - 1] ELSE call[c]]
  /\ UNCHANGED <<state, failures>>

\* Time does not pass a timeout or the end of a sleep.
Tick ==
  /\ \A c \in Caller : Running(c) => call[c].left > 0
  /\ age' = IF age < Cooldown THEN age + 1 ELSE age
  /\ call' = [c \in Caller |->
                IF Running(c) THEN [call[c] EXCEPT !.left = call[c].left - 1] ELSE call[c]]
  /\ UNCHANGED <<state, failures>>

CallStep(c) ==
  \/ Admit(c) \/ Reject(c) \/ Succeed(c) \/ FailAttempt(c) \/ Exhaust(c) \/ Resume(c)
  \/ Cancel(c)

CallNext == Tick \/ \E c \in Caller : CallStep(c)

CallSpec == CallInit /\ [][CallNext]_callVars

\* The event loop's timers fire; the service owes nothing.
Due(c) == call[c].left = 0 /\ (FailAttempt(c) \/ Exhaust(c) \/ Resume(c))

FairCallSpec == CallSpec /\ WF_callVars(Tick) /\ \A c \in Caller : WF_callVars(Due(c))

-----------------------------------------------------------------------------
(* Properties.                                                             *)

\* A half-open breaker is judged by its probes: every call still in progress
\* was let in after the cooldown, so none that was sent to the service before it
\* failed can close the breaker or open it for another cooldown.
NoStraggler ==
  state = "half_open" => \A c \in Caller : Running(c) => call[c].probe

\* "a hung dependency must not hang the turn": every call ends, even if the
\* service never answers.
CallEnds == \A c \in Caller : Running(c) ~> ~Running(c)

\* The service gets another chance however many calls are rejected meanwhile:
\* an open breaker comes to let a call through.
Recovers == (state = "open") ~> (Seen # "open")
=============================================================================
