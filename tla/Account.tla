------------------------------- MODULE Account -------------------------------
(***************************************************************************)
(* Sign-in with Spotify (api/auth.py): a login parks the PKCE state in     *)
(* Redis, the callback consumes it, exchanges the code, finds or creates   *)
(* the Gia user behind the Spotify account in one database transaction,    *)
(* answers the browser with the user's id and then commits.  A new account *)
(* gets its taste memories from a background task (memory/profiler.py).    *)
(*                                                                         *)
(* Spotify, Redis and Postgres are external: a code is good once, a call   *)
(* may fail, and a transaction reads what is committed, waits for another  *)
(* that holds the key it inserts or the row it updates, and fails on a key *)
(* that is taken.  Every await is a step boundary.                         *)
(***************************************************************************)
EXTENDS Naturals, FiniteSets

CONSTANTS
  Spotify,   \* Spotify accounts
  Mail, Address,  \* Address[a]: the e-mail address of a, NoMail if not given
  User,      \* ids of Gia users (a bound)
  Login,     \* requests to /login (a bound)
  Callback,  \* requests to /callback (a bound)
  NoUser, NoMail, NoRow, NoSpotify

ASSUME AccountConstants ==
  /\ Login # {} /\ NoUser \notin User /\ NoMail \notin Mail /\ NoSpotify \notin Spotify
  /\ Address \in [Spotify -> Mail \union {NoMail}]
  /\ \A a, b \in Spotify : a # b /\ Address[a] = Address[b] => Address[a] = NoMail
  /\ NoRow \notin [mail : Mail \union {NoMail}, of : Spotify, refresh : Spotify]

VARIABLES
  login,   \* login[l]: the PKCE state of a login and what the browser does
  row,     \* row[u]: the committed User and Profile of u, or NoRow
  cb,      \* cb[c]: a callback and its transaction
  boot,    \* boot[u]: the taste bootstrap of u
  warmed,  \* warmed[u]: bootstraps that sign-ins have scheduled for u
  mishap   \* what has happened that the code does not guard against

vars == <<login, row, cb, boot, warmed, mishap>>

LoginState ==
  [kept : BOOLEAN,                      \* the state is in Redis
   wants : User \union {NoUser},        \* user_id of the request
   as : Spotify \union {NoSpotify},     \* who has consented
   code : {"none", "good", "spent"}]

InTransaction == {"find", "mail", "insert", "save", "reply", "commit"}

CallbackState ==
  [pc : {"idle", "consume", "exchange", "me", "done", "failed", "lost"}
          \union InTransaction,
   login : Login,
   renewed : BOOLEAN,                   \* a refresh token came
   user : User \union {NoUser},
   created : BOOLEAN,
   saw : Spotify \union {NoSpotify},    \* spotify_user_id as it was loaded
   holds : SUBSET {"user", "profile"}]  \* rows written and not committed

\* Two callbacks of one account without an address overlap; of two accounts for
\* one user; a user is named in a login; Spotify sends no refresh token; a
\* commit fails after the answer.
Mishap == {"twins", "overlap", "link", "not renewed", "lost"}

TypeOK ==
  /\ login \in [Login -> LoginState]
  /\ row \in [User -> [mail : Mail \union {NoMail}, of : Spotify, refresh : Spotify]
                        \union {NoRow}]
  /\ cb \in [Callback -> CallbackState]
  /\ boot \in [User -> {"no", "reading", "distilling", "storing", "stored", "cold"}]
  /\ warmed \in [User -> Nat]
  /\ mishap \in SUBSET Mishap

AnyLogin == CHOOSE l \in Login : TRUE

Init ==
  /\ login = [l \in Login |-> [kept |-> FALSE, wants |-> NoUser, as |-> NoSpotify,
                               code |-> "none"]]
  /\ row = [u \in User |-> NoRow]
  /\ cb = [c \in Callback |-> [pc |-> "idle", login |-> AnyLogin, renewed |-> FALSE,
             user |-> NoUser, created |-> FALSE, saw |-> NoSpotify, holds |-> {}]]
  /\ boot = [u \in User |-> "no"]
  /\ warmed = [u \in User |-> 0]
  /\ mishap = {}

Me(c) == login[cb[c].login].as
Wants(c) == login[cb[c].login].wants
Of(a) == {u \in User : row[u] # NoRow /\ row[u].of = a}
Open(c) == cb[c].pc \notin {"idle", "done", "failed", "lost"}
Begun(l) == login[l].kept \/ login[l].code # "none"

\* A callback other than c that has come as far as looking for its user.
Beside(c, d) == d # c /\ cb[d].pc \in InTransaction

-----------------------------------------------------------------------------
(* spotify_login and the browser.                                          *)

\* SETEX of the state; the user to link to need not exist.
Authorize(l) ==
  /\ ~Begun(l) /\ \A c \in Callback : cb[c].pc # "idle" => cb[c].login # l
  /\ \E u \in User \union {NoUser} :
       login' = [login EXCEPT ![l].kept = TRUE, ![l].wants = u]
  /\ UNCHANGED <<row, cb, boot, warmed, mishap>>

\* The user consents: Spotify sends the browser to /callback with a code.
Consent(l, a) ==
  /\ login[l].kept /\ login[l].code = "none"
  /\ login' = [login EXCEPT ![l].as = a, ![l].code = "good"]
  /\ UNCHANGED <<row, cb, boot, warmed, mishap>>

\* The state's ten minutes are over.
ExpireState(l) ==
  /\ login[l].kept /\ login[l].code # "none"
  /\ login' = [login EXCEPT ![l].kept = FALSE]
  /\ UNCHANGED <<row, cb, boot, warmed, mishap>>

-----------------------------------------------------------------------------
(* spotify_callback.                                                       *)

\* GET of the state: unknown or expired, or found.
Receive(c, l) ==
  /\ cb[c].pc = "idle" /\ login[l].code # "none"
  /\ cb' = [cb EXCEPT ![c].login = l,
                      ![c].pc = IF login[l].kept THEN "consume" ELSE "failed"]
  /\ UNCHANGED <<login, row, boot, warmed, mishap>>

Consume(c) ==
  /\ cb[c].pc = "consume"
  /\ login' = [login EXCEPT ![cb[c].login].kept = FALSE]
  /\ cb' = [cb EXCEPT ![c].pc = "exchange"]
  /\ UNCHANGED <<row, boot, warmed, mishap>>

\* A spent code is refused.
Exchange(c) ==
  /\ cb[c].pc = "exchange"
  /\ IF login[cb[c].login].code = "good"
     THEN \E renewed \in BOOLEAN :
            /\ cb' = [cb EXCEPT ![c].pc = "me", ![c].renewed = renewed]
            /\ mishap' = mishap \union {x \in {"not renewed"} : ~renewed}
     ELSE cb' = [cb EXCEPT ![c].pc = "failed"] /\ UNCHANGED mishap
  /\ login' = [login EXCEPT ![cb[c].login].code = "spent"]
  /\ UNCHANGED <<row, boot, warmed>>

ReadMe(c) ==
  /\ cb[c].pc = "me"
  /\ cb' = [cb EXCEPT ![c].pc = "find"]
  /\ mishap' = mishap
       \union {x \in {"link"} : Wants(c) # NoUser}
       \union {x \in {"twins"} : /\ Address[Me(c)] = NoMail
                                 /\ \E d \in Callback : Beside(c, d) /\ Me(d) = Me(c)}
  /\ UNCHANGED <<login, row, boot, warmed>>

\* The callback goes on with a profile it has found.
Loads(c, u) ==
  /\ cb' = [cb EXCEPT ![c].pc = "save", ![c].user = u, ![c].saw = row[u].of]
  /\ mishap' = mishap \union {x \in {"overlap"} :
       \E d \in Callback : Beside(c, d) /\ cb[d].user = u /\ Me(d) # Me(c)}

\* Fault: a returning user is looked for by address.
Find_ByMail(c) ==
  /\ cb[c].pc = "find" /\ Wants(c) = NoUser
  /\ cb' = [cb EXCEPT ![c].pc = "mail"]
  /\ UNCHANGED <<login, row, boot, warmed, mishap>>

\* SELECT of the profile, of the named user or by the Spotify account; several
\* profiles of one Spotify account are an error.
Find(c) ==
  /\ cb[c].pc = "find"
  /\ IF Wants(c) # NoUser
     THEN IF row[Wants(c)] # NoRow THEN Loads(c, Wants(c))
          ELSE /\ cb' = [cb EXCEPT ![c].pc = "save", ![c].user = Wants(c),
                                   ![c].created = TRUE]
               /\ UNCHANGED mishap
     ELSE CASE Cardinality(Of(Me(c))) = 1 -> Loads(c, CHOOSE u \in Of(Me(c)) : TRUE)
            [] Cardinality(Of(Me(c))) = 0 -> /\ cb' = [cb EXCEPT ![c].pc = "mail"]
                                             /\ UNCHANGED mishap
            [] OTHER -> cb' = [cb EXCEPT ![c].pc = "failed"] /\ UNCHANGED mishap
  /\ UNCHANGED <<login, row, boot, warmed>>

WithMail(m) == {u \in User : m # NoMail /\ row[u] # NoRow /\ row[u].mail = m}

\* SELECT of the user by address: known, or one to be inserted.
FindMail(c) ==
  /\ cb[c].pc = "mail"
  /\ IF WithMail(Address[Me(c)]) # {}
     THEN \E u \in WithMail(Address[Me(c)]) :
            cb' = [cb EXCEPT ![c].pc = "save", ![c].user = u, ![c].created = TRUE]
     ELSE \E u \in User :
            /\ row[u] = NoRow /\ \A d \in Callback : cb[d].user # u
            /\ \A l \in Login : login[l].wants # u
            /\ cb' = [cb EXCEPT ![c].pc = "insert", ![c].user = u, ![c].created = TRUE]
  /\ UNCHANGED <<login, row, boot, warmed, mishap>>

\* The keys and rows that c writes with `rows` and another transaction has.
Waits(c, rows) ==
  \E d \in Callback : Beside(c, d) /\
    \/ /\ "user" \in rows /\ "user" \in cb[d].holds
       /\ \/ cb[d].user = cb[c].user
          \/ Address[Me(d)] = Address[Me(c)] /\ Address[Me(c)] # NoMail
    \/ "profile" \in rows /\ "profile" \in cb[d].holds /\ cb[d].user = cb[c].user

Taken(c, rows) ==
  \/ "user" \in rows /\ (row[cb[c].user] # NoRow \/ WithMail(Address[Me(c)]) # {})
  \/ "profile" \in rows /\ cb[c].created /\ row[cb[c].user] # NoRow

\* Flushes rows: waits, fails and rolls back, or goes on.
Flush(c, rows, next) ==
  /\ ~Waits(c, rows)
  /\ cb' = [cb EXCEPT ![c].pc = IF Taken(c, rows) THEN "failed" ELSE next,
                      ![c].holds = IF Taken(c, rows) THEN {} ELSE @ \union rows]
  /\ UNCHANGED <<login, row, boot, warmed, mishap>>

Insert(c) == cb[c].pc = "insert" /\ Flush(c, {"user"}, "save")

\* The new user of a link is inserted with its profile; otherwise the profile
\* is inserted or updated.
Save(c) ==
  /\ cb[c].pc = "save"
  /\ Flush(c, IF cb[c].created /\ Wants(c) # NoUser THEN {"user", "profile"}
              ELSE {"profile"}, "reply")

\* A background task reads u's listening; every sign-in that asks for it counts.
Schedule(u) ==
  /\ boot' = [boot EXCEPT ![u] = "reading"]
  /\ warmed' = [warmed EXCEPT ![u] = @ + 1]

\* Fault: every sign-in schedules a bootstrap.
Reply_Always(c) ==
  /\ cb[c].pc = "reply"
  /\ cb' = [cb EXCEPT ![c].pc = "commit"]
  /\ Schedule(cb[c].user)
  /\ UNCHANGED <<login, row, mishap>>

\* The bootstrap of a new account is scheduled and the browser told its id.
Reply(c) ==
  /\ cb[c].pc = "reply"
  /\ cb' = [cb EXCEPT ![c].pc = "commit"]
  /\ IF cb[c].created THEN Schedule(cb[c].user) ELSE UNCHANGED <<boot, warmed>>
  /\ UNCHANGED <<login, row, mishap>>

\* An UPDATE sets the columns whose value is not the one that was loaded.
Written(c) ==
  LET old == row[cb[c].user] IN
  IF cb[c].created THEN [mail |-> Address[Me(c)], of |-> Me(c), refresh |-> Me(c)]
  ELSE [old EXCEPT !.of = IF cb[c].saw # Me(c) THEN Me(c) ELSE old.of,
                   !.refresh = IF cb[c].renewed THEN Me(c) ELSE old.refresh]

\* Fault: the profile of a returning user keeps its spotify_user_id.
Commit_Tokens(c) ==
  /\ cb[c].pc = "commit"
  /\ cb' = [cb EXCEPT ![c].pc = "done", ![c].holds = {}]
  /\ row' = [row EXCEPT ![cb[c].user] =
               IF cb[c].created THEN Written(c) ELSE [Written(c) EXCEPT !.of = cb[c].saw]]
  /\ UNCHANGED <<login, boot, warmed, mishap>>

\* get_db commits once the response is sent.
Commit(c) ==
  /\ cb[c].pc = "commit"
  /\ \/ /\ cb' = [cb EXCEPT ![c].pc = "done", ![c].holds = {}]
        /\ row' = [row EXCEPT ![cb[c].user] = Written(c)]
        /\ UNCHANGED mishap
     \/ /\ cb' = [cb EXCEPT ![c].pc = "lost", ![c].holds = {}]
        /\ mishap' = mishap \union {"lost"}
        /\ UNCHANGED row
  /\ UNCHANGED <<login, boot, warmed>>

\* A call raises: 400, or the browser is sent back with onboarding_failed.
Fail(c) ==
  /\ Open(c) /\ cb[c].pc \notin {"reply", "commit"}
  /\ cb' = [cb EXCEPT ![c].pc = "failed", ![c].holds = {}]
  /\ UNCHANGED <<login, row, boot, warmed, mishap>>

-----------------------------------------------------------------------------
(* bootstrap_taste_profile.                                                *)

\* POST /memory/{user_id}/bootstrap, one run at a time (a bound).
OnDemand(u) ==
  /\ row[u] # NoRow /\ boot[u] \in {"no", "cold"}
  /\ boot' = [boot EXCEPT ![u] = "reading"]
  /\ UNCHANGED <<login, row, cb, warmed, mishap>>

\* Three reads, which may leave nothing to profile; the LLM; persist_memories.
Bootstrap(u) ==
  /\ \/ boot[u] = "reading" /\ \E p \in {"distilling", "cold"} : boot' = [boot EXCEPT ![u] = p]
     \/ boot[u] = "distilling" /\ \E p \in {"storing", "cold"} : boot' = [boot EXCEPT ![u] = p]
     \/ boot[u] = "storing" /\ \E p \in {"stored", "cold"} : boot' = [boot EXCEPT ![u] = p]
  /\ UNCHANGED <<login, row, cb, warmed, mishap>>

\* The process dies with its callbacks and its background tasks.
Crash ==
  /\ \E c \in Callback : Open(c)
  /\ cb' = [c \in Callback |-> IF ~Open(c) THEN cb[c] ELSE
              [cb[c] EXCEPT !.pc = IF @ = "commit" THEN "lost" ELSE "failed", !.holds = {}]]
  /\ boot' = [u \in User |-> IF boot[u] \in {"no", "stored"} THEN boot[u] ELSE "cold"]
  /\ mishap' = mishap \union {x \in {"lost"} : \E c \in Callback : cb[c].pc = "commit"}
  /\ UNCHANGED <<login, row, warmed>>

CallbackStep(c) ==
  \/ \E l \in Login : Receive(c, l)
  \/ Consume(c) \/ Exchange(c) \/ ReadMe(c) \/ Find(c) \/ FindMail(c) \/ Insert(c)
  \/ Save(c) \/ Reply(c) \/ Commit(c) \/ Fail(c)

Next ==
  \/ \E l \in Login : Authorize(l) \/ ExpireState(l) \/ \E a \in Spotify : Consent(l, a)
  \/ \E c \in Callback : CallbackStep(c)
  \/ \E u \in User : OnDemand(u) \/ Bootstrap(u)
  \/ Crash

Spec == Init /\ [][Next]_vars

-----------------------------------------------------------------------------
(* Properties.                                                             *)

\* "A returning Spotify user is matched; no second account": a Spotify account
\* has one profile, the one every browser that signed in with it was told of.
OneAccount ==
  mishap \intersect {"twins", "link"} = {} =>
    \A a \in Spotify :
      /\ Cardinality(Of(a)) <= 1
      /\ \A c \in Callback : cb[c].pc = "done" /\ Me(c) = a => Of(a) = {cb[c].user}

\* The refresh token of a profile is of the account the profile is of, also when
\* the profile is linked to another one, unless two accounts are saved at once
\* or Spotify sends none.
TokensMatch ==
  mishap \intersect {"overlap", "not renewed"} = {} =>
    \A u \in User : row[u] # NoRow => row[u].refresh = row[u].of

\* "the one-time taste bootstrap": two sign-ins do not both schedule it for an
\* account, unless the first could not commit.
WarmedOnce == "lost" \notin mishap => \A u \in User : warmed[u] <= 1
=============================================================================
