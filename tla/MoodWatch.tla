------------------------------ MODULE MoodWatch ------------------------------
(***************************************************************************)
(* Mood awareness of one user.  The chat records what Spotify says was     *)
(* played (mood/ingest.py) and sends an inference task; the task           *)
(* (worker/tasks/mood_inference.py, mood/inference.py) keeps one mood      *)
(* pattern for each time of the week in Weaviate and, when the user now    *)
(* plays something else, leaves a draft in Redis (mood/proactive.py) that  *)
(* the next chat turn pops.  Nothing excludes two tasks or two turns.      *)
(*                                                                         *)
(* A label is what the LLM says of some tracks, Neutral on any error.  Of  *)
(* the calendar only the change from one bucket to the next is kept.       *)
(* Every await is a step boundary.                                         *)
(***************************************************************************)
EXTENDS Naturals, FiniteSets, FiniteSetsExt

CONSTANTS
  Bucket,     \* times of the week: weekday and period
  Label, Neutral,
  Track,      \* plays on Spotify's recently-played list, in time (a bound)
  MinSample,  \* MIN_SAMPLE_SIZE
  Near, Wide, \* results of the two pattern searches
  Pattern,    \* mood_pattern objects that can be inserted (a bound)
  Draft,      \* drafts that can be stored (a bound)
  Task,       \* inference tasks (a bound)
  Turn,       \* chat turns at once (a bound)
  MaxRow,     \* rows of a track in a bucket (a bound)
  NoDraft, NoPattern

ASSUME MoodConstants ==
  /\ Neutral \notin Label /\ NoDraft \notin Draft /\ NoPattern \notin Pattern
  /\ MinSample \in Nat \ {0} /\ Near \in Nat \ {0} /\ Wide \in Nat
  /\ Near <= Wide /\ MaxRow \in Nat /\ Bucket # {} /\ Label # {}

VARIABLES
  now,      \* the current bucket
  list,     \* tracks on the recently-played list
  event,    \* event[t][b]: ListeningEvent rows of t stamped with bucket b
  fresh,    \* tracks with a row of the last six hours
  throttle, \* ingest_throttle is set
  pattern,  \* pattern[p]: what object p of the collection says
  task,     \* task[k]: an inference task
  slot,     \* proactive:{user}: the draft in Redis
  turn,     \* turn[n]: a chat turn
  told,     \* told[d]: turns that have told d
  gone,     \* drafts that expired or were replaced
  mishap    \* what has happened that the code does not guard against

moodVars == <<now, list, event, fresh, throttle, pattern, task, slot, turn, told, gone,
          mishap>>
time == <<now, list>>
plays == <<event, fresh, throttle>>
nudge == <<slot, told, gone>>

Says == [bucket : Bucket, label : Label]

\* What a draft says: the label it calls usual, the bucket of the pattern it has
\* it from, the bucket it names and the label of what is played now.
Text == [usual : Label, of : Bucket, around : Bucket, current : Label]

Empty == [id |-> NoDraft]

TaskState ==
  [pc : {"idle", "sent", "label", "search", "delete", "compare", "store"},
   todo : SUBSET Bucket,                 \* busy buckets still to be labelled
   bucket : Bucket, label : Label \union {Neutral},
   old : SUBSET Pattern,                 \* to be superseded
   text : Text]                          \* to be drafted

TurnState ==
  [pc : {"idle", "got", "claim", "recent", "add"},
   draft : Draft \union {NoDraft},       \* popped
   new : SUBSET Track]                   \* plays to record

\* Two tasks overlap or a pattern is not among the search results; the bucket
\* changes during a check; a draft is popped twice, stored during a pop, or the
\* pop fails; a row gets six hours old or two ingests overlap.
Mishap == {"superseding", "hour", "popping", "recording"}

AnyBucket == CHOOSE b \in Bucket : TRUE
AnyText == CHOOSE x \in Text : TRUE

NoTask == [pc |-> "idle", todo |-> {}, bucket |-> AnyBucket, label |-> Neutral,
           old |-> {}, text |-> AnyText]

MoodTypeOK ==
  /\ now \in Bucket /\ list \in SUBSET Track
  /\ event \in [Track -> [Bucket -> Nat]]
  /\ fresh \in SUBSET Track /\ throttle \in BOOLEAN
  /\ pattern \in [Pattern -> Says \union {NoPattern}]
  /\ task \in [Task -> TaskState]
  /\ slot \in [id : Draft, text : Text] \union {Empty}
  /\ turn \in [Turn -> TurnState]
  /\ told \in [Draft -> Nat] /\ gone \in SUBSET Draft
  /\ mishap \in SUBSET Mishap

MoodInit ==
  /\ now \in Bucket /\ list = {}
  /\ event = [t \in Track |-> [b \in Bucket |-> 0]]
  /\ fresh = {} /\ throttle = FALSE
  /\ pattern = [p \in Pattern |-> NoPattern]
  /\ task = [k \in Task |-> NoTask]
  /\ slot = Empty
  /\ turn = [n \in Turn |-> [pc |-> "idle", draft |-> NoDraft, new |-> {}]]
  /\ told = [d \in Draft |-> 0] /\ gone = {}
  /\ mishap = {}

Live == {p \in Pattern : pattern[p] # NoPattern}
Working(k) == task[k].pc \notin {"idle", "sent"}
Recording(n) == turn[n].pc \in {"recent", "add"}
Is(what, holds) == {x \in {what} : holds}

-----------------------------------------------------------------------------
(* Time and the user.                                                      *)

\* The next bucket begins.
HourTurns ==
  /\ now' \in Bucket \ {now}
  /\ mishap' = mishap \union Is("hour", \E k \in Task : task[k].pc = "compare")
  /\ UNCHANGED <<list, plays, pattern, task, nudge, turn>>

\* A track is played and heads the list.
Play(t) ==
  /\ t \notin list
  /\ list' = list \union {t}
  /\ UNCHANGED <<now, plays, pattern, task, nudge, turn, mishap>>

\* The throttle lasts 30 minutes.
ExpireThrottle ==
  /\ throttle
  /\ throttle' = FALSE
  /\ UNCHANGED <<time, event, fresh, pattern, task, nudge, turn, mishap>>

\* The row of t is six hours old: t is unknown to the next ingest, though it may
\* still be on the list and have been played once.
Forget(t) ==
  /\ t \in fresh
  /\ fresh' = fresh \ {t}
  /\ mishap' = mishap \union {"recording"}
  /\ UNCHANGED <<time, event, throttle, pattern, task, nudge, turn>>

\* A draft lives for 300 s.
ExpireDraft ==
  /\ slot # Empty
  /\ slot' = Empty /\ gone' = gone \union {slot.id}
  /\ UNCHANGED <<time, plays, pattern, task, turn, told, mishap>>

-----------------------------------------------------------------------------
(* A chat turn: pop_proactive_draft, and after the reply the ingest.       *)

\* GET.
PopGet(n) ==
  /\ turn[n].pc = "idle"
  /\ turn' = [turn EXCEPT ![n].pc = IF slot = Empty THEN "claim" ELSE "got",
                          ![n].draft = slot.id]
  /\ mishap' = mishap \union
       Is("popping", slot # Empty /\ \E m \in Turn : turn[m].pc = "got")
  /\ UNCHANGED <<time, plays, pattern, task, nudge>>

\* Fault: the draft stays in Redis.
PopDelete_Keep(n) ==
  /\ turn[n].pc = "got"
  /\ told' = [told EXCEPT ![turn[n].draft] = @ + 1]
  /\ turn' = [turn EXCEPT ![n].pc = "claim", ![n].draft = NoDraft]
  /\ UNCHANGED <<time, plays, pattern, task, slot, gone, mishap>>

\* DELETE takes whatever is stored by now; an error leaves the turn without a
\* draft, and the draft deleted or not.
PopDelete(n) ==
  /\ turn[n].pc = "got"
  /\ \/ /\ slot' = Empty
        /\ told' = [told EXCEPT ![turn[n].draft] = @ + 1]
        /\ UNCHANGED mishap
     \/ /\ slot' \in {slot, Empty}
        /\ mishap' = mishap \union {"popping"}
        /\ UNCHANGED told
  /\ turn' = [turn EXCEPT ![n].pc = "claim", ![n].draft = NoDraft]
  /\ UNCHANGED <<time, plays, pattern, task, gone>>

\* SET NX EX of the throttle.
Claim(n) ==
  /\ turn[n].pc = "claim"
  /\ throttle' = TRUE
  /\ turn' = [turn EXCEPT ![n].pc = IF throttle THEN "idle" ELSE "recent"]
  /\ mishap' = mishap \union
       Is("recording", ~throttle /\ \E m \in Turn : Recording(m))
  /\ UNCHANGED <<time, event, fresh, pattern, task, nudge>>

\* Fault: what is already recorded is not left out.
Recent_All(n) ==
  /\ turn[n].pc = "recent"
  /\ turn' = [turn EXCEPT ![n].pc = IF list = {} THEN "idle" ELSE "add", ![n].new = list]
  /\ UNCHANGED <<time, plays, pattern, task, nudge, mishap>>

\* The list, or an error, and the plays of it that have no row of the last six
\* hours.
Recent(n) ==
  /\ turn[n].pc = "recent"
  /\ \/ turn' = [turn EXCEPT ![n].pc = IF list \subseteq fresh THEN "idle" ELSE "add",
                             ![n].new = list \ fresh]
     \/ turn' = [turn EXCEPT ![n].pc = "idle"]
  /\ UNCHANGED <<time, plays, pattern, task, nudge, mishap>>

\* The rows are committed and an inference task is sent.  A row is stamped with
\* the time of the ingest less a minute for each place on the list: a bucket
\* that need not be the one of the play.
Add(n) ==
  /\ turn[n].pc = "add"
  /\ \E b \in Bucket :
       /\ \A t \in turn[n].new : event[t][b] < MaxRow
       /\ event' = [t \in Track |-> IF t \in turn[n].new
                                      THEN [event[t] EXCEPT ![b] = @ + 1] ELSE event[t]]
  /\ fresh' = fresh \union turn[n].new
  /\ \/ \E k \in Task : task[k].pc = "idle" /\ task' = [task EXCEPT ![k].pc = "sent"]
     \/ UNCHANGED task
  /\ turn' = [turn EXCEPT ![n].pc = "idle", ![n].new = {}]
  /\ UNCHANGED <<time, throttle, pattern, nudge, mishap>>

-----------------------------------------------------------------------------
(* infer_mood_patterns.                                                    *)

Rows(b) == MapThenSumSet(LAMBDA t : event[t][b], Track)

\* The rows are read: the busy buckets.
Begin(k) ==
  /\ task[k].pc = "sent"
  /\ task' = [task EXCEPT ![k].pc = "label",
                          ![k].todo = {b \in Bucket : Rows(b) >= MinSample}]
  /\ mishap' = mishap \union Is("superseding", \E j \in Task : Working(j))
  /\ UNCHANGED <<time, plays, pattern, nudge, turn>>

\* Fault: a neutral label is kept like any other.
LabelBucket_Neutral(k) ==
  /\ task[k].pc = "label"
  /\ \E b \in task[k].todo, l \in Label \union {Neutral} :
       task' = [task EXCEPT ![k].todo = @ \ {b}, ![k].bucket = b, ![k].label = l,
                            ![k].pc = "search"]
  /\ UNCHANGED <<time, plays, pattern, nudge, turn, mishap>>

\* A neutral label is no pattern.
LabelBucket(k) ==
  /\ task[k].pc = "label"
  /\ \E b \in task[k].todo, l \in Label \union {Neutral} :
       task' = [task EXCEPT ![k].todo = @ \ {b}, ![k].bucket = b, ![k].label = l,
                            ![k].pc = IF l = Neutral THEN "label" ELSE "search"]
  /\ UNCHANGED <<time, plays, pattern, nudge, turn, mishap>>

\* What a vector search can return: the n nearest, of all there are.
Found(n) == {R \in SUBSET Live : Cardinality(R) = n \/ (R = Live /\ Cardinality(R) < n)}
For(R, b) == {p \in R : pattern[p].bucket = b}

\* Fault: what is found is not superseded.
Search_Keep(k) ==
  /\ task[k].pc = "search"
  /\ \E R \in Found(Near) :
       /\ task' = [task EXCEPT ![k].pc = "delete"]
       /\ mishap' = mishap \union
            Is("superseding", For(R, task[k].bucket) # For(Live, task[k].bucket))
  /\ UNCHANGED <<time, plays, pattern, nudge, turn>>

\* The embedding and the search for the patterns to supersede.
Search(k) ==
  /\ task[k].pc = "search"
  /\ \E R \in Found(Near) :
       /\ task' = [task EXCEPT ![k].pc = "delete", ![k].old = For(R, task[k].bucket)]
       /\ mishap' = mishap \union
            Is("superseding", For(R, task[k].bucket) # For(Live, task[k].bucket))
  /\ UNCHANGED <<time, plays, pattern, nudge, turn>>

\* delete_by_id, also of an object that is gone,
Delete(k) ==
  /\ task[k].pc = "delete" /\ task[k].old # {}
  /\ \E p \in task[k].old :
       /\ pattern' = [pattern EXCEPT ![p] = NoPattern]
       /\ task' = [task EXCEPT ![k].old = @ \ {p}]
  /\ UNCHANGED <<time, plays, nudge, turn, mishap>>

\* and the new pattern.
Insert(k) ==
  /\ task[k].pc = "delete" /\ task[k].old = {}
  /\ \E p \in Pattern \ Live :
       /\ \A j \in Task : p \notin task[j].old
       /\ pattern' = [pattern EXCEPT ![p] = [bucket |-> task[k].bucket,
                                             label |-> task[k].label]]
  /\ task' = [task EXCEPT ![k].pc = "label", ![k].bucket = AnyBucket, ![k].label = Neutral]
  /\ UNCHANGED <<time, plays, nudge, turn, mishap>>

-----------------------------------------------------------------------------
(* The check for a shift: check_and_draft_proactive.                       *)

\* The newest rows are labelled, and the time is read.
LabelRecent(k) ==
  /\ task[k].pc = "label" /\ task[k].todo = {}
  /\ \E l \in Label \union {Neutral} :
       task' = [task EXCEPT ![k].pc = "compare", ![k].label = l, ![k].bucket = now]
  /\ UNCHANGED <<time, plays, pattern, nudge, turn, mishap>>

\* Fault: the pattern's label is not compared.
Compare_Any(k) ==
  /\ task[k].pc = "compare"
  /\ \E R \in Found(Wide) \union {{}} :
       \/ /\ For(R, task[k].bucket) = {} \/ task[k].label = Neutral
          /\ task' = [task EXCEPT ![k] = NoTask]
       \/ \E p \in For(R, task[k].bucket) :
            /\ task[k].label # Neutral
            /\ task' = [task EXCEPT ![k] = [NoTask EXCEPT !.pc = "store",
                 !.text = [usual |-> pattern[p].label, of |-> pattern[p].bucket,
                           around |-> now, current |-> task[k].label]]]
  /\ UNCHANGED <<time, plays, pattern, nudge, turn, mishap>>

\* get_pattern_for_now: none (or an error), no shift, or one to tell.  The time is
\* read again.
Compare(k) ==
  /\ task[k].pc = "compare"
  /\ \E R \in Found(Wide) \union {{}} :
       \/ /\ \/ For(R, task[k].bucket) = {}
             \/ \E p \in For(R, task[k].bucket) : task[k].label \in {Neutral, pattern[p].label}
          /\ task' = [task EXCEPT ![k] = NoTask]
       \/ \E p \in For(R, task[k].bucket) :
            /\ task[k].label \notin {Neutral, pattern[p].label}
            /\ task' = [task EXCEPT ![k] = [NoTask EXCEPT !.pc = "store",
                 !.text = [usual |-> pattern[p].label, of |-> pattern[p].bucket,
                           around |-> now, current |-> task[k].label]]]
  /\ UNCHANGED <<time, plays, pattern, nudge, turn, mishap>>

Unused(d) == told[d] = 0 /\ d \notin gone /\ slot.id # d /\ \A n \in Turn : turn[n].draft # d

\* SETEX; an error is logged.
Store(k) ==
  /\ task[k].pc = "store"
  /\ \/ /\ \E d \in Draft : Unused(d) /\ slot' = [id |-> d, text |-> task[k].text]
        /\ gone' = gone \union ({slot.id} \ {NoDraft})
        /\ mishap' = mishap \union Is("popping", \E n \in Turn : turn[n].pc = "got")
     \/ UNCHANGED <<slot, gone, mishap>>
  /\ task' = [task EXCEPT ![k] = NoTask]
  /\ UNCHANGED <<time, plays, pattern, turn, told>>

\* Any other call raises, or the worker dies: the task is not run again.
Fail(k) ==
  /\ Working(k)
  /\ task' = [task EXCEPT ![k] = NoTask]
  /\ UNCHANGED <<time, plays, pattern, nudge, turn, mishap>>

TurnStep(n) == PopGet(n) \/ PopDelete(n) \/ Claim(n) \/ Recent(n) \/ Add(n)

TaskStep(k) ==
  \/ Begin(k) \/ LabelBucket(k) \/ Search(k) \/ Delete(k) \/ Insert(k)
  \/ LabelRecent(k) \/ Compare(k) \/ Store(k) \/ Fail(k)

MoodNext ==
  \/ HourTurns \/ ExpireThrottle \/ ExpireDraft
  \/ \E t \in Track : Play(t) \/ Forget(t)
  \/ \E n \in Turn : TurnStep(n)
  \/ \E k \in Task : TaskStep(k)

MoodSpec == MoodInit /\ [][MoodNext]_moodVars

-----------------------------------------------------------------------------
(* Properties.                                                             *)

\* "A confident label supersedes any existing pattern for that bucket": a time of
\* the week does not come to have two patterns, of which the check would take
\* either, unless two tasks overlap or the old one is not among the nearest.
OnePattern ==
  "superseding" \notin mishap =>
    \A p, q \in Live : pattern[p].bucket = pattern[q].bucket => p = q

\* "Returns the draft once and clears it so it is not repeated in the next turn":
\* true of turns one after the other.
ToldOnce == "popping" \notin mishap => \A d \in Draft : told[d] <= 1

\* What Gia calls out of character is: the label is not the usual one, and what is
\* usual was inferred for the time she names, unless the hour turned meanwhile.
TrueNudge ==
  slot # Empty =>
    /\ slot.text.usual # slot.text.current
    /\ "hour" \notin mishap => slot.text.of = slot.text.around

\* A play is recorded, and counts towards a pattern, once, though every poll lists
\* it again, until its row is six hours old: it is then recorded anew as of now.
CountedOnce ==
  "recording" \notin mishap =>
    \A t \in Track : \A b, c \in Bucket :
      event[t][b] <= 1 /\ (event[t][b] + event[t][c] > 1 => b = c)
=============================================================================
