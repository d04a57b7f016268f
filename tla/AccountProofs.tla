---------------------------- MODULE AccountProofs ----------------------------
(***************************************************************************)
(* Type correctness, one profile of a Spotify account, the one-time        *)
(* bootstrap and the match of tokens and accounts, for any accounts,       *)
(* users, logins and callbacks.                                            *)
(***************************************************************************)
EXTENDS Account, FiniteSetTheorems, TLAPS

\* The callback has its user and a profile to write.
Writing(c) == cb[c].pc \in {"save", "reply", "commit"}

\* It goes on with a profile that was there.
Loaded(c) == Writing(c) /\ ~cb[c].created

\* A code is of the account that consented, and a callback came with a code.
Coded ==
  /\ \A l \in Login : login[l].code # "none" => login[l].as \in Spotify
  /\ \A c \in Callback : cb[c].pc # "idle" => login[cb[c].login].code # "none"

\* What a callback knows of its user at each step.
Holding ==
  \A c \in Callback :
    /\ ~Writing(c) => cb[c].holds = {}
    /\ "profile" \in cb[c].holds <=> cb[c].pc \in {"reply", "commit"}
    /\ cb[c].pc = "insert" => cb[c].user \in User /\ cb[c].created
    /\ Writing(c) => cb[c].user \in User
    /\ Loaded(c) => row[cb[c].user] # NoRow
    /\ cb[c].pc \in {"reply", "commit"} /\ cb[c].created => row[cb[c].user] = NoRow

\* One profile is written by one transaction at a time.
Alone ==
  \A c, d \in Callback :
    c # d /\ "profile" \in cb[c].holds /\ "profile" \in cb[d].holds =>
      cb[c].user # cb[d].user

\* A bootstrap was scheduled for a profile that is, or is about to be, stored.
Scheduled ==
  "lost" \notin mishap => \A u \in User :
    /\ warmed[u] <= 1
    /\ warmed[u] >= 1 => \/ row[u] # NoRow
                         \/ \E c \in Callback : /\ cb[c].pc = "commit" /\ cb[c].created
                                                /\ cb[c].user = u

Renewed ==
  "not renewed" \notin mishap => \A c \in Callback :
    cb[c].pc \in {"me"} \union InTransaction => cb[c].renewed

\* Callbacks that go on with one profile are of one account.
NoClash ==
  "overlap" \notin mishap => \A c, d \in Callback :
    Loaded(c) /\ Loaded(d) /\ cb[c].user = cb[d].user => Me(c) = Me(d)

\* What was loaded is still what is stored, or what will be.
Seen ==
  "overlap" \notin mishap => \A c \in Callback : Loaded(c) =>
    row[cb[c].user].of \in {cb[c].saw, Me(c)}

Inv ==
  /\ TypeOK /\ Coded /\ Holding /\ Alone /\ Scheduled
  /\ Renewed /\ NoClash /\ Seen /\ TokensMatch

-----------------------------------------------------------------------------
(* Steps that leave the profiles alone.                                    *)

\* A login keeps the account that consented once it has a code.
KeepsCodes ==
  \A l \in Login : login[l].code # "none" =>
    login'[l].code # "none" /\ login'[l].as = login[l].as

\* A step at which callbacks stay where they are, or get to where nothing is
\* held: before the user is known, or at their end.
Quiet ==
  /\ row' = row /\ warmed' = warmed /\ mishap \subseteq mishap' /\ KeepsCodes
  /\ \A l \in Login : login'[l].code # "none" => login'[l].as \in Spotify
  /\ \A c \in Callback : cb'[c] = cb[c] \/
       /\ cb'[c].pc \notin {"insert", "save", "reply", "commit"} /\ cb'[c].holds = {}
       /\ login'[cb'[c].login].code # "none"
       /\ cb[c].pc = "commit" => "lost" \in mishap'
       /\ "not renewed" \notin mishap' /\ cb'[c].pc \in {"me"} \union InTransaction =>
            cb'[c].renewed

\* What is scheduled stays so while the callbacks about to commit stay.
LEMMA Kept ==
  ASSUME Inv, row' = row, warmed' = warmed, mishap \subseteq mishap',
         \A c \in Callback : "lost" \notin mishap' /\ cb[c].pc = "commit" => cb'[c] = cb[c]
  PROVE  Scheduled'
<1>. SUFFICES ASSUME "lost" \notin mishap', NEW u \in User
              PROVE  /\ warmed[u] <= 1
                     /\ warmed[u] >= 1 => \/ row[u] # NoRow
                          \/ \E c \in Callback : /\ cb'[c].pc = "commit" /\ cb'[c].created
                                                 /\ cb'[c].user = u
  BY DEF Scheduled
<1>1. /\ warmed[u] <= 1
      /\ warmed[u] >= 1 => \/ row[u] # NoRow
           \/ \E c \in Callback : cb[c].pc = "commit" /\ cb[c].created /\ cb[c].user = u
  BY DEF Inv, Scheduled
<1>. QED
  BY <1>1

LEMMA QuietInv ==
  ASSUME Inv, TypeOK', Quiet PROVE Inv'
<1>1. Coded'
  BY DEF Inv, TypeOK, CallbackState, Coded, Quiet, KeepsCodes
<1>2. \A c \in Callback : cb'[c] = cb[c] \/ (~Writing(c)' /\ cb'[c].holds = {})
  BY DEF Quiet, Writing
<1>3. \A c \in Callback : Writing(c)' => cb'[c] = cb[c] /\ Writing(c) /\ Me(c)' = Me(c)
  BY <1>2 DEF Inv, TypeOK, CallbackState, Coded, Quiet, KeepsCodes, Me, Writing
<1>4. Holding'
  BY <1>3 DEF Inv, Holding, Loaded, Writing, Quiet
<1>5. Alone'
  BY DEF Inv, Alone, Quiet
<1>6. Scheduled'
  <2>1. \A c \in Callback : "lost" \notin mishap' /\ cb[c].pc = "commit" => cb'[c] = cb[c]
    BY DEF Quiet
  <2>. QED
    BY <2>1, Kept DEF Quiet
<1>7. Renewed'
  BY DEF Inv, Renewed, Quiet
<1>8. NoClash'
  BY <1>3 DEF Inv, NoClash, Loaded, Quiet
<1>9. Seen'
  BY <1>3 DEF Inv, Seen, Loaded, Quiet
<1>10. TokensMatch'
  BY DEF Inv, TokensMatch, Quiet
<1>. QED
  BY <1>1, <1>4, <1>5, <1>6, <1>7, <1>8, <1>9, <1>10 DEF Inv

LEMMA InitInv ==
  ASSUME Init PROVE Inv
<1>1. AnyLogin \in Login
  BY AccountConstants DEF AnyLogin
<1>2. TypeOK
  BY <1>1 DEF Init, TypeOK, LoginState, CallbackState, Mishap
<1>3. Coded /\ Holding /\ Alone
  BY DEF Init, Coded, Holding, Alone, Loaded, Writing
<1>4. Scheduled /\ Renewed /\ NoClash /\ Seen /\ TokensMatch
  BY DEF Init, Scheduled, Renewed, InTransaction, NoClash, Seen, Loaded, Writing, TokensMatch
<1>. QED
  BY <1>2, <1>3, <1>4 DEF Inv

-----------------------------------------------------------------------------
(* The quiet actions.                                                      *)

\* A callback's record with another place and other entries is one.
LEMMA Moved ==
  ASSUME TypeOK, NEW c \in Callback, NEW s \in CallbackState,
         cb' = [cb EXCEPT ![c] = s]
  PROVE  /\ cb' \in [Callback -> CallbackState]
         /\ cb'[c] = s /\ \A d \in Callback \ {c} : cb'[d] = cb[d]
  BY DEF TypeOK

LEMMA LoginQuiet ==
  ASSUME Inv, NEW l \in Login,
         Authorize(l) \/ ExpireState(l) \/ \E a \in Spotify : Consent(l, a)
  PROVE  TypeOK' /\ Quiet
<1>0. login \in [Login -> LoginState] /\ login[l] \in LoginState
  BY DEF Inv, TypeOK
<1>1. PICK s \in LoginState :
        /\ login' = [login EXCEPT ![l] = s]
        /\ login[l].code # "none" => s.code # "none" /\ s.as = login[l].as
        /\ s.code # "none" => s.as \in Spotify
  <2>1. CASE Authorize(l)
    <3>1. PICK u \in User \union {NoUser} :
            login' = [login EXCEPT ![l].kept = TRUE, ![l].wants = u]
      BY <2>1 DEF Authorize
    <3>. DEFINE s == [login[l] EXCEPT !.kept = TRUE, !.wants = u]
    <3>2. s \in LoginState /\ s.code = login[l].code /\ login[l].code = "none"
      BY <2>1, <1>0 DEF LoginState, Authorize, Begun
    <3>3. login' = [login EXCEPT ![l] = s]
      BY <3>1, <1>0
    <3>. QED
      BY <3>2, <3>3
  <2>2. CASE ExpireState(l)
    <3>. DEFINE s == [login[l] EXCEPT !.kept = FALSE]
    <3>1. s \in LoginState /\ s.code = login[l].code /\ s.as = login[l].as
      BY <1>0 DEF LoginState
    <3>2. login' = [login EXCEPT ![l] = s]
      BY <2>2, <1>0 DEF ExpireState
    <3>. QED
      BY <3>1, <3>2 DEF Inv, Coded
  <2>3. CASE \E a \in Spotify : Consent(l, a)
    <3>1. PICK a \in Spotify : Consent(l, a)
      BY <2>3
    <3>. DEFINE s == [login[l] EXCEPT !.as = a, !.code = "good"]
    <3>2. s \in LoginState /\ s.as \in Spotify /\ login[l].code = "none"
      BY <3>1, <1>0 DEF LoginState, Consent
    <3>3. login' = [login EXCEPT ![l] = s]
      BY <3>1, <1>0 DEF Consent
    <3>. QED
      BY <3>2, <3>3
  <2>. QED
    BY <2>1, <2>2, <2>3
<1>2. UNCHANGED <<row, cb, boot, warmed, mishap>>
  BY DEF Authorize, ExpireState, Consent
<1>3. /\ login' \in [Login -> LoginState] /\ login'[l] = s
      /\ \A k \in Login \ {l} : login'[k] = login[k]
  BY <1>0, <1>1
<1>4. /\ KeepsCodes
      /\ \A k \in Login : login'[k].code # "none" => login'[k].as \in Spotify
  BY <1>1, <1>3 DEF Inv, Coded, KeepsCodes
<1>. QED
  BY <1>2, <1>3, <1>4 DEF Inv, TypeOK, Quiet

\* The state of a login is consumed or its code spent; it keeps its account.
LEMMA Spent ==
  ASSUME Inv, NEW l \in Login, login[l].code # "none",
         \/ login' = [login EXCEPT ![l].kept = FALSE]
         \/ login' = [login EXCEPT ![l].code = "spent"]
         \/ login' = login
  PROVE  /\ login' \in [Login -> LoginState] /\ KeepsCodes
         /\ \A k \in Login : login'[k].code # "none" => login'[k].as \in Spotify
<1>0. login \in [Login -> LoginState] /\ login[l] \in LoginState
  BY DEF Inv, TypeOK
<1>1. PICK s \in LoginState : /\ login' = [login EXCEPT ![l] = s]
                              /\ s.code # "none" /\ s.as = login[l].as
  <2>1. CASE login' = [login EXCEPT ![l].kept = FALSE]
    <3>. DEFINE s == [login[l] EXCEPT !.kept = FALSE]
    <3>1. s \in LoginState /\ s.code = login[l].code /\ s.as = login[l].as
      BY <1>0 DEF LoginState
    <3>. QED
      BY <2>1, <3>1, <1>0
  <2>2. CASE login' = [login EXCEPT ![l].code = "spent"]
    <3>. DEFINE s == [login[l] EXCEPT !.code = "spent"]
    <3>1. s \in LoginState /\ s.code = "spent" /\ s.as = login[l].as
      BY <1>0 DEF LoginState
    <3>. QED
      BY <2>2, <3>1, <1>0
  <2>3. CASE login' = login
    BY <2>3, <1>0
  <2>. QED
    BY <2>1, <2>2, <2>3
<1>2. /\ login' \in [Login -> LoginState] /\ login'[l] = s
      /\ \A k \in Login \ {l} : login'[k] = login[k]
  BY <1>0, <1>1
<1>. QED
  BY <1>1, <1>2 DEF Inv, Coded, KeepsCodes

\* A callback that holds nothing moves on, before it knows its user.
LEMMA StepQuiet ==
  ASSUME Inv, NEW c \in Callback, NEW s \in CallbackState,
         cb' = [cb EXCEPT ![c] = s],
         s.pc \notin {"insert", "save", "reply", "commit"}, s.holds = {},
         login[s.login].code # "none",
         cb[c].pc = "commit" => "lost" \in mishap',
         mishap \subseteq mishap', mishap' \subseteq Mishap,
         "not renewed" \notin mishap' /\ s.pc \in {"me"} \union InTransaction => s.renewed,
         \/ login' = [login EXCEPT ![s.login].kept = FALSE]
         \/ login' = [login EXCEPT ![s.login].code = "spent"]
         \/ login' = login,
         UNCHANGED <<row, boot, warmed>>
  PROVE  TypeOK' /\ Quiet
<1>1. s.login \in Login
  BY DEF CallbackState
<1>2. /\ login' \in [Login -> LoginState] /\ KeepsCodes
      /\ \A k \in Login : login'[k].code # "none" => login'[k].as \in Spotify
  BY <1>1, Spent
<1>3. /\ cb' \in [Callback -> CallbackState]
      /\ cb'[c] = s /\ \A d \in Callback \ {c} : cb'[d] = cb[d]
  BY Moved DEF Inv
<1>4. TypeOK'
  BY <1>2, <1>3 DEF Inv, TypeOK
<1>5. login'[s.login].code # "none"
  BY <1>1, <1>2 DEF KeepsCodes
<1>6. \A d \in Callback : cb'[d] = cb[d] \/
       /\ cb'[d].pc \notin {"insert", "save", "reply", "commit"} /\ cb'[d].holds = {}
       /\ login'[cb'[d].login].code # "none"
       /\ cb[d].pc = "commit" => "lost" \in mishap'
       /\ "not renewed" \notin mishap' /\ cb'[d].pc \in {"me"} \union InTransaction =>
            cb'[d].renewed
  BY <1>3, <1>5
<1>. QED
  BY <1>2, <1>4, <1>6 DEF Quiet

LEMMA EarlyQuiet ==
  ASSUME Inv, NEW c \in Callback,
         \/ \E l \in Login : Receive(c, l)
         \/ Consume(c) \/ Exchange(c) \/ ReadMe(c) \/ Fail(c)
  PROVE  TypeOK' /\ Quiet
<1>0. /\ cb[c] \in CallbackState /\ cb \in [Callback -> CallbackState] /\ mishap \subseteq Mishap
      /\ ~Writing(c) => cb[c].holds = {}
      /\ cb[c].pc # "idle" => login[cb[c].login].code # "none"
  BY DEF Inv, TypeOK, Holding, Coded
<1>1. CASE \E l \in Login : Receive(c, l)
  <2>1. PICK l \in Login : Receive(c, l)
    BY <1>1
  <2>. DEFINE s == [cb[c] EXCEPT !.login = l,
                                 !.pc = IF login[l].kept THEN "consume" ELSE "failed"]
  <2>2. s \in CallbackState /\ s.holds = {} /\ s.login = l
        /\ s.pc \in {"consume", "failed"}
    BY <2>1, <1>0 DEF CallbackState, Receive, Writing
  <2>3. cb' = [cb EXCEPT ![c] = s] /\ login[l].code # "none" /\ cb[c].pc = "idle"
        /\ UNCHANGED <<login, row, boot, warmed, mishap>>
    BY <2>1, <1>0 DEF Receive
  <2>. HIDE DEF s
  <2>. QED
    BY <1>0, <2>2, <2>3, StepQuiet DEF InTransaction
<1>2. CASE Consume(c)
  <2>. DEFINE s == [cb[c] EXCEPT !.pc = "exchange"]
  <2>2. s \in CallbackState /\ s.holds = {} /\ s.login = cb[c].login /\ s.pc = "exchange"
    BY <1>2, <1>0 DEF CallbackState, Consume, Writing
  <2>3. cb' = [cb EXCEPT ![c] = s] /\ cb[c].pc = "consume"
        /\ login' = [login EXCEPT ![cb[c].login].kept = FALSE]
        /\ UNCHANGED <<row, boot, warmed, mishap>>
    BY <1>2, <1>0 DEF Consume
  <2>. HIDE DEF s
  <2>. QED
    BY <1>0, <2>2, <2>3, StepQuiet DEF InTransaction
<1>3. CASE Exchange(c)
  <2>1. CASE login[cb[c].login].code = "good"
    <3>1. PICK renewed \in BOOLEAN :
            /\ cb' = [cb EXCEPT ![c].pc = "me", ![c].renewed = renewed]
            /\ mishap' = mishap \union {x \in {"not renewed"} : ~renewed}
      BY <1>3, <2>1 DEF Exchange
    <3>. DEFINE s == [cb[c] EXCEPT !.pc = "me", !.renewed = renewed]
    <3>2. s \in CallbackState /\ s.holds = {} /\ s.login = cb[c].login
          /\ s.pc = "me" /\ s.renewed = renewed
      BY <1>3, <1>0 DEF CallbackState, Exchange, Writing
    <3>3. cb' = [cb EXCEPT ![c] = s] /\ cb[c].pc = "exchange"
          /\ login' = [login EXCEPT ![cb[c].login].code = "spent"]
          /\ UNCHANGED <<row, boot, warmed>>
          /\ mishap \subseteq mishap' /\ mishap' \subseteq Mishap
          /\ ("not renewed" \notin mishap' => renewed)
      BY <1>3, <3>1, <1>0 DEF Exchange, Mishap
    <3>. HIDE DEF s
    <3>4. login[s.login].code # "none" /\ ("not renewed" \notin mishap' => s.renewed)
      BY <1>0, <3>2, <3>3
    <3>. QED
      BY <3>2, <3>3, <3>4, StepQuiet
  <2>2. CASE login[cb[c].login].code # "good"
    <3>. DEFINE s == [cb[c] EXCEPT !.pc = "failed"]
    <3>2. s \in CallbackState /\ s.holds = {} /\ s.login = cb[c].login /\ s.pc = "failed"
      BY <1>3, <1>0 DEF CallbackState, Exchange, Writing
    <3>3. cb' = [cb EXCEPT ![c] = s] /\ cb[c].pc = "exchange"
          /\ login' = [login EXCEPT ![cb[c].login].code = "spent"]
          /\ UNCHANGED <<row, boot, warmed, mishap>>
      BY <1>3, <2>2, <1>0 DEF Exchange
    <3>. HIDE DEF s
    <3>. QED
      BY <1>0, <3>2, <3>3, StepQuiet DEF InTransaction
  <2>. QED
    BY <2>1, <2>2
<1>4. CASE ReadMe(c)
  <2>. DEFINE s == [cb[c] EXCEPT !.pc = "find"]
  <2>2. s \in CallbackState /\ s.holds = {} /\ s.login = cb[c].login /\ s.pc = "find"
        /\ s.renewed = cb[c].renewed
    BY <1>4, <1>0 DEF CallbackState, InTransaction, ReadMe, Writing
  <2>3. cb' = [cb EXCEPT ![c] = s] /\ cb[c].pc = "me"
        /\ UNCHANGED <<login, row, boot, warmed>>
        /\ mishap \subseteq mishap' /\ mishap' \subseteq Mishap
    BY <1>4, <1>0 DEF ReadMe, Mishap
  <2>4. "not renewed" \notin mishap' => s.renewed
    BY <2>2, <2>3 DEF Inv, Renewed
  <2>. HIDE DEF s
  <2>. QED
    BY <1>0, <2>2, <2>3, <2>4, StepQuiet
<1>5. CASE Fail(c)
  <2>. DEFINE s == [cb[c] EXCEPT !.pc = "failed", !.holds = {}]
  <2>2. s \in CallbackState /\ s.holds = {} /\ s.login = cb[c].login /\ s.pc = "failed"
    BY <1>0 DEF CallbackState
  <2>3. cb' = [cb EXCEPT ![c] = s] /\ cb[c].pc \notin {"idle", "commit"}
        /\ UNCHANGED <<login, row, boot, warmed, mishap>>
    BY <1>5, <1>0 DEF Fail, Open
  <2>. HIDE DEF s
  <2>. QED
    BY <1>0, <2>2, <2>3, StepQuiet DEF InTransaction
<1>. QED
  BY <1>1, <1>2, <1>3, <1>4, <1>5

LEMMA CrashQuiet ==
  ASSUME Inv, Crash PROVE TypeOK' /\ Quiet
<1>0. /\ cb \in [Callback -> CallbackState] /\ mishap \subseteq Mishap
      /\ \A c \in Callback : cb[c].pc # "idle" => login[cb[c].login].code # "none"
  BY DEF Inv, TypeOK, Coded
<1>1. /\ UNCHANGED <<login, row, warmed>> /\ mishap \subseteq mishap' /\ mishap' \subseteq Mishap
      /\ boot' \in [User -> {"no", "reading", "distilling", "storing", "stored", "cold"}]
  BY <1>0 DEF Inv, TypeOK, Crash, Mishap
<1>2. \A c \in Callback :
        /\ cb'[c] \in CallbackState /\ cb'[c].login = cb[c].login
        /\ cb'[c] = cb[c] \/
             /\ cb'[c].pc \in {"failed", "lost"} /\ cb'[c].holds = {} /\ cb[c].pc # "idle"
             /\ cb[c].pc = "commit" => "lost" \in mishap'
  BY <1>0 DEF Crash, Open, CallbackState
<1>3. cb' \in [Callback -> CallbackState]
  BY <1>2 DEF Crash
<1>4. TypeOK'
  BY <1>1, <1>3 DEF Inv, TypeOK
<1>. QED
  BY <1>0, <1>1, <1>2, <1>4 DEF Inv, Coded, Quiet, KeepsCodes, InTransaction

LEMMA BootQuiet ==
  ASSUME Inv, NEW u \in User, OnDemand(u) \/ Bootstrap(u) PROVE TypeOK' /\ Quiet
<1>1. UNCHANGED <<login, row, cb, warmed, mishap>>
  BY DEF OnDemand, Bootstrap
<1>2. boot' \in [User -> {"no", "reading", "distilling", "storing", "stored", "cold"}]
  BY DEF Inv, TypeOK, OnDemand, Bootstrap
<1>. QED
  BY <1>1, <1>2 DEF Inv, TypeOK, Quiet, KeepsCodes, Coded

-----------------------------------------------------------------------------
(* The steps of a callback that knows its user.                            *)

\* A callback gets to know its user: a new one, or one it has loaded.
LEMMA KnowsInv ==
  ASSUME Inv, NEW c \in Callback, NEW s \in CallbackState,
         cb' = [cb EXCEPT ![c] = s],
         cb[c].pc \in {"find", "mail", "insert"}, s.pc \in {"insert", "save"},
         s.login = cb[c].login, s.renewed = cb[c].renewed, s.user \in User,
         "profile" \notin s.holds, s.pc = "insert" => s.holds = {} /\ s.created,
         ~s.created => row[s.user] # NoRow /\ s.saw = row[s.user].of,
         ~s.created /\ "overlap" \notin mishap' =>
           \A d \in Callback \ {c} : Writing(d) /\ cb[d].user = s.user => Me(d) = Me(c),
         mishap \subseteq mishap', mishap' \subseteq Mishap,
         UNCHANGED <<login, row, boot, warmed>>
  PROVE  Inv'
<1>1. /\ cb' \in [Callback -> CallbackState]
      /\ cb'[c] = s /\ \A d \in Callback \ {c} : cb'[d] = cb[d]
  BY Moved DEF Inv
<1>2. TypeOK'
  BY <1>1 DEF Inv, TypeOK
<1>3. \A d \in Callback : Me(d)' = Me(d)
  BY <1>1 DEF Me
<1>4. \A d \in Callback \ {c} : (Writing(d)' <=> Writing(d)) /\ (Loaded(d)' <=> Loaded(d))
  BY <1>1 DEF Writing, Loaded
<1>5. (Loaded(c)' => s.pc = "save" /\ ~s.created) /\ (Writing(c)' => s.pc = "save")
  BY <1>1 DEF Writing, Loaded
<1>6. Coded'
  BY <1>1 DEF Inv, Coded
<1>7. Holding'
  <2>. SUFFICES ASSUME NEW d \in Callback
                PROVE  /\ ~Writing(d)' => cb'[d].holds = {}
                       /\ "profile" \in cb'[d].holds <=> cb'[d].pc \in {"reply", "commit"}
                       /\ cb'[d].pc = "insert" => cb'[d].user \in User /\ cb'[d].created
                       /\ Writing(d)' => cb'[d].user \in User
                       /\ Loaded(d)' => row[cb'[d].user] # NoRow
                       /\ cb'[d].pc \in {"reply", "commit"} /\ cb'[d].created =>
                            row[cb'[d].user] = NoRow
    BY DEF Holding
  <2>1. CASE d = c
    BY <2>1, <1>1, <1>5 DEF Writing
  <2>2. CASE d # c
    BY <2>2, <1>1, <1>4 DEF Inv, Holding
  <2>. QED
    BY <2>1, <2>2
<1>8. Alone'
  BY <1>1 DEF Inv, Alone
<1>9. Scheduled'
  <2>1. \A d \in Callback : cb[d].pc = "commit" => cb'[d] = cb[d]
    BY <1>1
  <2>. QED
    BY <2>1, Kept
<1>10. Renewed'
  BY <1>1 DEF Inv, Renewed, InTransaction
<1>11. NoClash'
  <2>. SUFFICES ASSUME "overlap" \notin mishap', NEW d \in Callback, NEW e \in Callback,
                       Loaded(d)', Loaded(e)', cb'[d].user = cb'[e].user
                PROVE  Me(d) = Me(e)
    BY <1>3 DEF NoClash
  <2>1. CASE d # c /\ e # c
    BY <2>1, <1>1, <1>4 DEF Inv, NoClash
  <2>2. CASE d = c \/ e = c
    BY <2>2, <1>1, <1>4, <1>5 DEF Loaded
  <2>. QED
    BY <2>1, <2>2
<1>12. Seen'
  <2>. SUFFICES ASSUME "overlap" \notin mishap', NEW d \in Callback, Loaded(d)'
                PROVE  row[cb'[d].user].of \in {cb'[d].saw, Me(d)}
    BY <1>3 DEF Seen
  <2>1. CASE d # c
    BY <2>1, <1>1, <1>4 DEF Inv, Seen
  <2>2. CASE d = c
    BY <2>2, <1>1, <1>5
  <2>. QED
    BY <2>1, <2>2
<1>13. TokensMatch'
  BY DEF Inv, TokensMatch
<1>. QED
  BY <1>2, <1>6, <1>7, <1>8, <1>9, <1>10, <1>11, <1>12, <1>13 DEF Inv

\* What each step below starts from.
LEMMA Facts ==
  ASSUME Inv, NEW c \in Callback
  PROVE  /\ cb[c] \in CallbackState /\ cb \in [Callback -> CallbackState]
         /\ mishap \subseteq Mishap
         /\ ~Writing(c) => cb[c].holds = {}
         /\ cb[c].pc # "idle" => /\ login[cb[c].login].code # "none"
                                 /\ Me(c) \in Spotify
         /\ Wants(c) \in User \union {NoUser}
  BY DEF Inv, TypeOK, Holding, Coded, Me, Wants, CallbackState, LoginState

\* A profile is loaded; another callback of another account that has it shows.
LEMMA LoadsInv ==
  ASSUME Inv, NEW c \in Callback, NEW u \in User, cb[c].pc = "find", row[u] # NoRow,
         Loads(c, u), UNCHANGED <<login, row, boot, warmed>>
  PROVE  Inv'
<1>0. /\ cb[c] \in CallbackState /\ cb \in [Callback -> CallbackState] /\ mishap \subseteq Mishap
      /\ cb[c].holds = {}
  BY Facts DEF Writing
<1>. DEFINE s == [cb[c] EXCEPT !.pc = "save", !.user = u, !.saw = row[u].of]
<1>1. row[u].of \in Spotify
  BY DEF Inv, TypeOK
<1>2. /\ s \in CallbackState /\ s.pc = "save" /\ s.login = cb[c].login /\ s.holds = {}
      /\ s.renewed = cb[c].renewed /\ s.user = u /\ s.saw = row[u].of
  BY <1>0, <1>1 DEF CallbackState, InTransaction
<1>3. cb' = [cb EXCEPT ![c] = s] /\ mishap \subseteq mishap' /\ mishap' \subseteq Mishap
  BY <1>0 DEF Loads, Mishap
<1>4. "overlap" \notin mishap' =>
        \A d \in Callback \ {c} : Writing(d) /\ cb[d].user = u => Me(d) = Me(c)
  BY DEF Loads, Beside, InTransaction, Writing
<1>. HIDE DEF s
<1>. QED
  BY <1>1, <1>2, <1>3, <1>4, KnowsInv

LEMMA FindInv ==
  ASSUME Inv, NEW c \in Callback, Find(c) PROVE Inv'
<1>0. /\ cb[c] \in CallbackState /\ cb \in [Callback -> CallbackState] /\ mishap \subseteq Mishap
      /\ cb[c].holds = {} /\ cb[c].pc = "find" /\ Wants(c) \in User \union {NoUser}
      /\ login[cb[c].login].code # "none"
  BY Facts DEF Writing, Find
<1>1. UNCHANGED <<login, row, boot, warmed>>
  BY DEF Find
<1>2. CASE Wants(c) # NoUser /\ row[Wants(c)] # NoRow
  BY <1>0, <1>1, <1>2, LoadsInv DEF Find
<1>3. CASE Wants(c) # NoUser /\ row[Wants(c)] = NoRow
  <2>. DEFINE s == [cb[c] EXCEPT !.pc = "save", !.user = Wants(c), !.created = TRUE]
  <2>1. /\ s \in CallbackState /\ s.pc = "save" /\ s.login = cb[c].login /\ s.holds = {}
        /\ s.renewed = cb[c].renewed /\ s.user \in User /\ s.created
    BY <1>0, <1>3 DEF CallbackState, InTransaction
  <2>2. cb' = [cb EXCEPT ![c] = s] /\ mishap' = mishap
    BY <1>0, <1>3 DEF Find
  <2>. HIDE DEF s
  <2>. QED
    BY <1>0, <1>1, <2>1, <2>2, KnowsInv
<1>4. CASE Wants(c) = NoUser /\ Cardinality(Of(Me(c))) = 1
  <2>1. Of(Me(c)) # {}
    BY <1>4, FS_EmptySet
  <2>2. PICK u \in Of(Me(c)) : Loads(c, u)
    BY <1>4, <2>1 DEF Find
  <2>3. u \in User /\ row[u] # NoRow
    BY DEF Of
  <2>. QED
    BY <1>0, <1>1, <2>2, <2>3, LoadsInv
<1>5. CASE Wants(c) = NoUser /\ Cardinality(Of(Me(c))) # 1
  <2>1. PICK p \in {"mail", "failed"} : cb' = [cb EXCEPT ![c].pc = p] /\ mishap' = mishap
    BY <1>5 DEF Find
  <2>. DEFINE s == [cb[c] EXCEPT !.pc = p]
  <2>2. s \in CallbackState /\ s.holds = {} /\ s.login = cb[c].login /\ s.pc = p
        /\ s.renewed = cb[c].renewed
    BY <1>0 DEF CallbackState, InTransaction
  <2>3. cb' = [cb EXCEPT ![c] = s]
    BY <2>1, <1>0
  <2>4. "not renewed" \notin mishap' => s.renewed
    BY <1>0, <2>1, <2>2 DEF Inv, Renewed, InTransaction
  <2>. HIDE DEF s
  <2>5. /\ s.pc \notin {"insert", "save", "reply", "commit"}
        /\ login[s.login].code # "none" /\ cb[c].pc # "commit" /\ login' = login
        /\ mishap \subseteq mishap' /\ mishap' \subseteq Mishap /\ UNCHANGED <<row, boot, warmed>>
    BY <1>0, <1>1, <2>1, <2>2
  <2>6. TypeOK' /\ Quiet
    BY <2>2, <2>3, <2>4, <2>5, StepQuiet
  <2>. QED
    BY <2>6, QuietInv
<1>. QED
  BY <1>2, <1>3, <1>4, <1>5

LEMMA FindMailInv ==
  ASSUME Inv, NEW c \in Callback, FindMail(c) PROVE Inv'
<1>0. /\ cb[c] \in CallbackState /\ cb \in [Callback -> CallbackState] /\ mishap \subseteq Mishap
      /\ cb[c].holds = {} /\ cb[c].pc = "mail"
  BY Facts DEF Writing, FindMail
<1>1. PICK p \in {"save", "insert"}, u \in User :
        cb' = [cb EXCEPT ![c].pc = p, ![c].user = u, ![c].created = TRUE]
  BY DEF FindMail, WithMail
<1>. DEFINE s == [cb[c] EXCEPT !.pc = p, !.user = u, !.created = TRUE]
<1>2. /\ s \in CallbackState /\ s.pc = p /\ s.login = cb[c].login /\ s.holds = {}
      /\ s.renewed = cb[c].renewed /\ s.user = u /\ s.created
  BY <1>0 DEF CallbackState, InTransaction
<1>3. cb' = [cb EXCEPT ![c] = s] /\ UNCHANGED <<login, row, boot, warmed, mishap>>
  BY <1>0, <1>1 DEF FindMail
<1>. HIDE DEF s
<1>. QED
  BY <1>0, <1>2, <1>3, KnowsInv

\* A flush of a key that is taken rolls the callback back.
LEMMA TakenInv ==
  ASSUME Inv, NEW c \in Callback, NEW rows, NEW next, cb[c].pc \in {"insert", "save"},
         Flush(c, rows, next), Taken(c, rows)
  PROVE  Inv'
<1>0. /\ cb[c] \in CallbackState /\ cb \in [Callback -> CallbackState] /\ mishap \subseteq Mishap
      /\ login[cb[c].login].code # "none"
  BY Facts
<1>. DEFINE s == [cb[c] EXCEPT !.pc = "failed", !.holds = {}]
<1>1. s \in CallbackState /\ s.pc = "failed" /\ s.login = cb[c].login /\ s.holds = {}
  BY <1>0 DEF CallbackState
<1>2. cb' = [cb EXCEPT ![c] = s] /\ UNCHANGED <<login, row, boot, warmed, mishap>>
  BY <1>0 DEF Flush
<1>. HIDE DEF s
<1>3. TypeOK' /\ Quiet
  BY <1>0, <1>1, <1>2, StepQuiet DEF InTransaction
<1>. QED
  BY <1>3, QuietInv

LEMMA InsertInv ==
  ASSUME Inv, NEW c \in Callback, Insert(c) PROVE Inv'
<1>0. /\ cb[c] \in CallbackState /\ cb \in [Callback -> CallbackState] /\ mishap \subseteq Mishap
      /\ cb[c].holds = {} /\ cb[c].pc = "insert"
  BY Facts DEF Writing, Insert
<1>1. cb[c].user \in User /\ cb[c].created
  BY <1>0 DEF Inv, Holding
<1>2. CASE Taken(c, {"user"})
  BY <1>0, <1>2, TakenInv DEF Insert
<1>3. CASE ~Taken(c, {"user"})
  <2>. DEFINE s == [cb[c] EXCEPT !.pc = "save", !.holds = {"user"}]
  <2>1. /\ s \in CallbackState /\ s.pc = "save" /\ s.login = cb[c].login /\ s.holds = {"user"}
        /\ s.renewed = cb[c].renewed /\ s.user = cb[c].user /\ s.created
    BY <1>0, <1>1 DEF CallbackState, InTransaction
  <2>2. cb' = [cb EXCEPT ![c] = s] /\ UNCHANGED <<login, row, boot, warmed, mishap>>
    BY <1>0, <1>3 DEF Insert, Flush
  <2>. HIDE DEF s
  <2>. QED
    BY <1>0, <1>1, <2>1, <2>2, KnowsInv
<1>. QED
  BY <1>2, <1>3

\* The profile is flushed: no other transaction has it.
LEMMA SaveInv ==
  ASSUME Inv, NEW c \in Callback, Save(c) PROVE Inv'
<1>0. /\ cb[c] \in CallbackState /\ cb \in [Callback -> CallbackState] /\ mishap \subseteq Mishap
      /\ cb[c].pc = "save"
  BY Facts DEF Save
<1>1. PICK rows \in {{"user", "profile"}, {"profile"}} : Flush(c, rows, "reply")
  BY DEF Save
<1>2. CASE Taken(c, rows)
  BY <1>0, <1>1, <1>2, TakenInv
<1>3. CASE ~Taken(c, rows)
  <2>. DEFINE s == [cb[c] EXCEPT !.pc = "reply", !.holds = @ \union rows]
  <2>1. /\ s \in CallbackState /\ s.pc = "reply" /\ s.login = cb[c].login
        /\ s.holds = cb[c].holds \union rows /\ s.created = cb[c].created
        /\ s.renewed = cb[c].renewed /\ s.user = cb[c].user /\ s.saw = cb[c].saw
    BY <1>0 DEF CallbackState, InTransaction
  <2>2. cb' = [cb EXCEPT ![c] = s] /\ UNCHANGED <<login, row, boot, warmed, mishap>>
    BY <1>0, <1>1, <1>3 DEF Flush
  <2>. HIDE DEF s
  <2>3. /\ cb' \in [Callback -> CallbackState]
        /\ cb'[c] = s /\ \A d \in Callback \ {c} : cb'[d] = cb[d]
    BY <2>1, <2>2, Moved DEF Inv
  <2>4. \A d \in Callback : /\ Me(d)' = Me(d) /\ (Writing(d)' <=> Writing(d))
                            /\ (Loaded(d)' <=> Loaded(d)) /\ cb'[d].user = cb[d].user
                            /\ cb'[d].saw = cb[d].saw
    BY <1>0, <2>1, <2>2, <2>3 DEF Me, Writing, Loaded
  <2>5. cb[c].created => row[cb[c].user] = NoRow
    BY <1>3 DEF Taken
  <2>6. \A d \in Callback \ {c} : "profile" \in cb[d].holds => cb[d].user # cb[c].user
    BY <1>1 DEF Inv, Holding, Flush, Waits, Beside, InTransaction
  <2>7. TypeOK'
    BY <2>2, <2>3 DEF Inv, TypeOK
  <2>8. Coded'
    BY <1>0, <2>1, <2>2, <2>3 DEF Inv, Coded
  <2>9. Holding'
    <3>. SUFFICES ASSUME NEW d \in Callback
                  PROVE  /\ ~Writing(d) => cb'[d].holds = {}
                         /\ "profile" \in cb'[d].holds <=> cb'[d].pc \in {"reply", "commit"}
                         /\ cb'[d].pc = "insert" => cb'[d].user \in User /\ cb'[d].created
                         /\ Writing(d) => cb[d].user \in User
                         /\ Loaded(d) => row[cb[d].user] # NoRow
                         /\ cb'[d].pc \in {"reply", "commit"} /\ cb'[d].created =>
                              row[cb[d].user] = NoRow
      BY <2>2, <2>4 DEF Holding
    <3>1. CASE d = c
      BY <3>1, <1>0, <2>1, <2>3, <2>5 DEF Inv, Holding, Writing
    <3>2. CASE d # c
      BY <3>2, <2>3 DEF Inv, Holding
    <3>. QED
      BY <3>1, <3>2
  <2>10. Alone'
    BY <2>1, <2>3, <2>6 DEF Inv, Alone
  <2>11. Scheduled'
    <3>1. \A d \in Callback : cb[d].pc = "commit" => cb'[d] = cb[d]
      BY <1>0, <2>3
    <3>. QED
      BY <2>2, <3>1, Kept
  <2>12. Renewed'
    BY <1>0, <2>1, <2>2, <2>3 DEF Inv, Renewed, InTransaction
  <2>13. NoClash'
    BY <2>2, <2>4 DEF Inv, NoClash
  <2>14. Seen'
    BY <2>2, <2>4 DEF Inv, Seen
  <2>15. TokensMatch'
    BY <2>2 DEF Inv, TokensMatch
  <2>. QED
    BY <2>7, <2>8, <2>9, <2>10, <2>11, <2>12, <2>13, <2>14, <2>15 DEF Inv
<1>. QED
  BY <1>2, <1>3

\* The bootstrap is scheduled by the one transaction that has the new profile.
LEMMA ReplyInv ==
  ASSUME Inv, NEW c \in Callback, Reply(c) PROVE Inv'
<1>0. /\ cb[c] \in CallbackState /\ cb \in [Callback -> CallbackState]
      /\ cb[c].pc = "reply" /\ cb[c].user \in User /\ "profile" \in cb[c].holds
      /\ warmed \in [User -> Nat]
  BY Facts DEF Reply, Inv, Holding, Writing, TypeOK
<1>. DEFINE s == [cb[c] EXCEPT !.pc = "commit"]
<1>1. /\ s \in CallbackState /\ s.pc = "commit" /\ s.login = cb[c].login
      /\ s.holds = cb[c].holds /\ s.created = cb[c].created
      /\ s.renewed = cb[c].renewed /\ s.user = cb[c].user /\ s.saw = cb[c].saw
  BY <1>0 DEF CallbackState, InTransaction
<1>2. cb' = [cb EXCEPT ![c] = s] /\ UNCHANGED <<login, row, mishap>>
  BY <1>0 DEF Reply
<1>. HIDE DEF s
<1>3. /\ cb' \in [Callback -> CallbackState]
      /\ cb'[c] = s /\ \A d \in Callback \ {c} : cb'[d] = cb[d]
  BY <1>1, <1>2, Moved DEF Inv
<1>4. \A d \in Callback : /\ Me(d)' = Me(d) /\ (Writing(d)' <=> Writing(d))
                          /\ (Loaded(d)' <=> Loaded(d)) /\ cb'[d].user = cb[d].user
                          /\ cb'[d].saw = cb[d].saw /\ cb'[d].holds = cb[d].holds
                          /\ cb'[d].created = cb[d].created
  BY <1>0, <1>1, <1>2, <1>3 DEF Me, Writing, Loaded
<1>5. TypeOK'
  <2>1. boot' \in [User -> {"no", "reading", "distilling", "storing", "stored", "cold"}]
    BY <1>0 DEF Inv, TypeOK, Reply, Schedule
  <2>2. warmed' \in [User -> Nat]
    BY <1>0 DEF Reply, Schedule
  <2>. QED
    BY <1>2, <1>3, <2>1, <2>2 DEF Inv, TypeOK
<1>6. Coded'
  BY <1>0, <1>1, <1>2, <1>3 DEF Inv, Coded
<1>7. Holding'
  <2>. SUFFICES ASSUME NEW d \in Callback
                PROVE  /\ ~Writing(d) => cb[d].holds = {}
                       /\ "profile" \in cb[d].holds <=> cb'[d].pc \in {"reply", "commit"}
                       /\ cb'[d].pc = "insert" => cb[d].user \in User /\ cb[d].created
                       /\ Writing(d) => cb[d].user \in User
                       /\ Loaded(d) => row[cb[d].user] # NoRow
                       /\ cb'[d].pc \in {"reply", "commit"} /\ cb[d].created =>
                            row[cb[d].user] = NoRow
    BY <1>2, <1>4 DEF Holding
  <2>. QED
    BY <1>0, <1>1, <1>3 DEF Inv, Holding
<1>8. Alone'
  BY <1>4 DEF Inv, Alone
<1>9. Scheduled'
  <2>1. CASE ~cb[c].created
    <3>1. \A d \in Callback : cb[d].pc = "commit" => cb'[d] = cb[d]
      BY <1>0, <1>3
    <3>2. warmed' = warmed
      BY <2>1 DEF Reply
    <3>. QED
      BY <1>2, <3>1, <3>2, Kept
  <2>2. CASE cb[c].created
    <3>. SUFFICES ASSUME "lost" \notin mishap, NEW u \in User
                  PROVE  /\ warmed'[u] <= 1
                         /\ warmed'[u] >= 1 => \/ row[u] # NoRow
                              \/ \E d \in Callback : /\ cb'[d].pc = "commit" /\ cb'[d].created
                                                     /\ cb'[d].user = u
      BY <1>2 DEF Scheduled
    <3>1. warmed' = [warmed EXCEPT ![cb[c].user] = @ + 1]
      BY <2>2 DEF Reply, Schedule
    <3>2. /\ warmed[u] \in Nat /\ warmed[u] <= 1
          /\ warmed[u] >= 1 => \/ row[u] # NoRow
               \/ \E d \in Callback : cb[d].pc = "commit" /\ cb[d].created /\ cb[d].user = u
      BY <1>0 DEF Inv, Scheduled
    <3>3. CASE u # cb[c].user
      <4>1. \A d \in Callback : cb[d].pc = "commit" => cb'[d] = cb[d]
        BY <1>0, <1>3
      <4>. QED
        BY <3>1, <3>2, <3>3, <4>1, <1>0
    <3>4. CASE u = cb[c].user
      <4>1. row[u] = NoRow
        BY <1>0, <2>2, <3>4 DEF Inv, Holding
      <4>2. \A d \in Callback : ~(cb[d].pc = "commit" /\ cb[d].created /\ cb[d].user = u)
        BY <1>0, <3>4 DEF Inv, Alone, Holding
      <4>3. warmed[u] = 0
        BY <3>2, <4>1, <4>2
      <4>4. warmed'[u] = 1
        BY <1>0, <3>1, <3>4, <4>3
      <4>5. cb'[c].pc = "commit" /\ cb'[c].created /\ cb'[c].user = u
        BY <1>1, <1>3, <2>2, <3>4
      <4>. QED
        BY <4>4, <4>5
    <3>. QED
      BY <3>3, <3>4
  <2>. QED
    BY <2>1, <2>2
<1>10. Renewed'
  BY <1>0, <1>1, <1>2, <1>3 DEF Inv, Renewed, InTransaction
<1>11. NoClash'
  BY <1>2, <1>4 DEF Inv, NoClash
<1>12. Seen'
  BY <1>2, <1>4 DEF Inv, Seen
<1>13. TokensMatch'
  BY <1>2 DEF Inv, TokensMatch
<1>. QED
  BY <1>5, <1>6, <1>7, <1>8, <1>9, <1>10, <1>11, <1>12, <1>13 DEF Inv

\* The commit may be lost: nothing is stored.
LEMMA LostInv ==
  ASSUME Inv, NEW c \in Callback, cb[c].pc = "commit",
         cb' = [cb EXCEPT ![c].pc = "lost", ![c].holds = {}],
         mishap' = mishap \union {"lost"}, UNCHANGED <<login, row, boot, warmed>>
  PROVE  Inv'
<1>0. /\ cb[c] \in CallbackState /\ cb \in [Callback -> CallbackState] /\ mishap \subseteq Mishap
      /\ login[cb[c].login].code # "none"
  BY Facts
<1>. DEFINE s == [cb[c] EXCEPT !.pc = "lost", !.holds = {}]
<1>1. s \in CallbackState /\ s.pc = "lost" /\ s.login = cb[c].login /\ s.holds = {}
  BY <1>0 DEF CallbackState
<1>2. cb' = [cb EXCEPT ![c] = s] /\ mishap \subseteq mishap' /\ mishap' \subseteq Mishap
      /\ "lost" \in mishap'
  BY <1>0 DEF Mishap
<1>. HIDE DEF s
<1>3. TypeOK' /\ Quiet
  BY <1>0, <1>1, <1>2, StepQuiet DEF InTransaction
<1>. QED
  BY <1>3, QuietInv

\* What is stored is of the account that signed in, and so is its token.
LEMMA WrittenFacts ==
  ASSUME Inv, NEW c \in Callback, cb[c].pc = "commit"
  PROVE  /\ Written(c) \in [mail : Mail \union {NoMail}, of : Spotify, refresh : Spotify]
         /\ "overlap" \notin mishap => Written(c).of = Me(c)
         /\ mishap \intersect {"overlap", "not renewed"} = {} => Written(c).refresh = Me(c)
<1>1. Me(c) \in Spotify /\ Address[Me(c)] \in Mail \union {NoMail} /\ cb[c].user \in User
  BY Facts, AccountConstants DEF Inv, Holding, Writing
<1>2. CASE cb[c].created
  BY <1>1, <1>2 DEF Written
<1>3. CASE ~cb[c].created
  <2>. DEFINE old == row[cb[c].user]
  <2>1. old \in [mail : Mail \union {NoMail}, of : Spotify, refresh : Spotify]
    BY <1>1, <1>3 DEF Inv, TypeOK, Holding, Loaded, Writing
  <2>2. "overlap" \notin mishap => old.of \in {cb[c].saw, Me(c)}
    BY <1>3 DEF Inv, Seen, Loaded, Writing
  <2>3. "not renewed" \notin mishap => cb[c].renewed
    BY DEF Inv, Renewed, InTransaction
  <2>4. Written(c) = [old EXCEPT !.of = IF cb[c].saw # Me(c) THEN Me(c) ELSE old.of,
                                 !.refresh = IF cb[c].renewed THEN Me(c) ELSE old.refresh]
    BY <1>3 DEF Written
  <2>. HIDE DEF old
  <2>. QED
    BY <1>1, <2>1, <2>2, <2>3, <2>4
<1>. QED
  BY <1>2, <1>3

LEMMA CommitInv ==
  ASSUME Inv, NEW c \in Callback, Commit(c) PROVE Inv'
<1>0. /\ cb[c] \in CallbackState /\ cb \in [Callback -> CallbackState]
      /\ cb[c].pc = "commit" /\ cb[c].user \in User /\ "profile" \in cb[c].holds
      /\ row \in [User -> [mail : Mail \union {NoMail}, of : Spotify, refresh : Spotify]
                            \union {NoRow}]
  BY Facts DEF Commit, Inv, Holding, Writing, TypeOK
<1>1. CASE mishap' = mishap \union {"lost"} /\ row' = row
           /\ cb' = [cb EXCEPT ![c].pc = "lost", ![c].holds = {}]
  BY <1>0, <1>1, LostInv DEF Commit
<1>2. CASE mishap' = mishap /\ row' = [row EXCEPT ![cb[c].user] = Written(c)]
           /\ cb' = [cb EXCEPT ![c].pc = "done", ![c].holds = {}]
  <2>. DEFINE s == [cb[c] EXCEPT !.pc = "done", !.holds = {}]
              new == Written(c)
              me == cb[c].user
  <2>1. s \in CallbackState /\ s.pc = "done" /\ s.login = cb[c].login /\ s.holds = {}
    BY <1>0 DEF CallbackState
  <2>2. cb' = [cb EXCEPT ![c] = s] /\ UNCHANGED <<login, boot, warmed>>
    BY <1>0, <1>2 DEF Commit
  <2>. HIDE DEF s
  <2>3. /\ cb' \in [Callback -> CallbackState]
        /\ cb'[c] = s /\ \A d \in Callback \ {c} : cb'[d] = cb[d]
    BY <2>1, <2>2, Moved DEF Inv
  <2>4. /\ new \in [mail : Mail \union {NoMail}, of : Spotify, refresh : Spotify]
        /\ "overlap" \notin mishap => new.of = Me(c)
        /\ mishap \intersect {"overlap", "not renewed"} = {} => new.refresh = Me(c)
    BY <1>0, WrittenFacts
  <2>5. new # NoRow
    BY <2>4, AccountConstants
  <2>6. row'[me] = new /\ \A u \in User \ {me} : row'[u] = row[u]
    BY <1>0, <1>2
  <2>7. \A d \in Callback : Me(d)' = Me(d)
    BY <2>1, <2>2, <2>3 DEF Me
  <2>8. /\ ~Writing(c)' /\ ~Loaded(c)'
        /\ \A d \in Callback \ {c} : (Writing(d)' <=> Writing(d)) /\ (Loaded(d)' <=> Loaded(d))
    BY <2>1, <2>3 DEF Writing, Loaded
  <2>. HIDE DEF new, me
  <2>9. TypeOK'
    BY <1>0, <1>2, <2>2, <2>3, <2>4 DEF Inv, TypeOK, new, me
  <2>10. Coded'
    BY <1>0, <2>1, <2>2, <2>3 DEF Inv, Coded
  <2>11. Holding'
    <3>. SUFFICES ASSUME NEW d \in Callback
                  PROVE  /\ ~Writing(d)' => cb'[d].holds = {}
                         /\ "profile" \in cb'[d].holds <=> cb'[d].pc \in {"reply", "commit"}
                         /\ cb'[d].pc = "insert" => cb'[d].user \in User /\ cb'[d].created
                         /\ Writing(d)' => cb'[d].user \in User
                         /\ Loaded(d)' => row'[cb'[d].user] # NoRow
                         /\ cb'[d].pc \in {"reply", "commit"} /\ cb'[d].created =>
                              row'[cb'[d].user] = NoRow
      BY DEF Holding
    <3>1. CASE d = c
      BY <3>1, <2>1, <2>3, <2>8
    <3>2. CASE d # c
      <4>1. "profile" \in cb[d].holds => cb[d].user # me
        BY <1>0, <3>2 DEF Inv, Alone, me
      <4>2. /\ ~Writing(d) => cb[d].holds = {}
            /\ "profile" \in cb[d].holds <=> cb[d].pc \in {"reply", "commit"}
            /\ cb[d].pc = "insert" => cb[d].user \in User /\ cb[d].created
            /\ Writing(d) => cb[d].user \in User
            /\ Loaded(d) => row[cb[d].user] # NoRow
            /\ cb[d].pc \in {"reply", "commit"} /\ cb[d].created => row[cb[d].user] = NoRow
        BY DEF Inv, Holding
      <4>. QED
        BY <3>2, <4>1, <4>2, <2>3, <2>5, <2>6, <2>8 DEF Writing, Loaded
    <3>. QED
      BY <3>1, <3>2
  <2>12. Alone'
    BY <2>1, <2>3 DEF Inv, Alone
  <2>13. Scheduled'
    <3>. SUFFICES ASSUME "lost" \notin mishap, NEW u \in User
                  PROVE  /\ warmed[u] <= 1
                         /\ warmed[u] >= 1 => \/ row'[u] # NoRow
                              \/ \E d \in Callback : /\ cb'[d].pc = "commit" /\ cb'[d].created
                                                     /\ cb'[d].user = u
      BY <1>2, <2>2 DEF Scheduled
    <3>1. /\ warmed[u] <= 1
          /\ warmed[u] >= 1 => \/ row[u] # NoRow
               \/ \E d \in Callback : cb[d].pc = "commit" /\ cb[d].created /\ cb[d].user = u
      BY DEF Inv, Scheduled
    <3>2. CASE u = me
      BY <3>1, <3>2, <2>5, <2>6
    <3>3. CASE u # me
      BY <3>1, <3>3, <2>3, <2>6 DEF me
    <3>. QED
      BY <3>2, <3>3
  <2>14. Renewed'
    BY <1>0, <1>2, <2>1, <2>3 DEF Inv, Renewed, InTransaction
  <2>15. NoClash'
    <3>. SUFFICES ASSUME "overlap" \notin mishap, NEW d \in Callback, NEW e \in Callback,
                         Loaded(d)', Loaded(e)', cb'[d].user = cb'[e].user
                  PROVE  Me(d) = Me(e)
      BY <1>2, <2>7 DEF NoClash
    <3>. QED
      BY <2>3, <2>8 DEF Inv, NoClash
  <2>16. Seen'
    <3>. SUFFICES ASSUME "overlap" \notin mishap, NEW d \in Callback, Loaded(d)'
                  PROVE  row'[cb'[d].user].of \in {cb'[d].saw, Me(d)}
      BY <1>2, <2>7 DEF Seen
    <3>1. d # c /\ cb'[d] = cb[d] /\ Loaded(d) /\ cb[d].user \in User
          /\ row[cb[d].user] # NoRow /\ row[cb[d].user].of \in {cb[d].saw, Me(d)}
      BY <2>3, <2>8 DEF Inv, Holding, Seen, Loaded
    <3>2. CASE cb[d].user # me
      BY <3>1, <3>2, <2>6
    <3>3. CASE cb[d].user = me
      <4>1. ~cb[c].created
        BY <1>0, <3>1, <3>3 DEF Inv, Holding, me
      <4>2. Me(d) = Me(c)
        BY <1>0, <3>1, <3>3, <4>1 DEF Inv, NoClash, Loaded, Writing, me
      <4>. QED
        BY <3>1, <3>3, <4>2, <2>4, <2>6
    <3>. QED
      BY <3>2, <3>3
  <2>17. TokensMatch'
    BY <1>2, <2>4, <2>6 DEF Inv, TokensMatch
  <2>. QED
    BY <2>9, <2>10, <2>11, <2>12, <2>13, <2>14, <2>15, <2>16, <2>17 DEF Inv
<1>. QED
  BY <1>1, <1>2 DEF Commit

LEMMA NextInv ==
  ASSUME Inv, [Next]_vars PROVE Inv'
<1>1. ASSUME NEW l \in Login, Authorize(l) \/ ExpireState(l) \/ \E a \in Spotify : Consent(l, a)
      PROVE  Inv'
  BY <1>1, LoginQuiet, QuietInv
<1>2. ASSUME NEW c \in Callback, CallbackStep(c) PROVE Inv'
  <2>1. CASE \/ \E l \in Login : Receive(c, l)
             \/ Consume(c) \/ Exchange(c) \/ ReadMe(c) \/ Fail(c)
    BY <2>1, EarlyQuiet, QuietInv
  <2>. QED
    BY <1>2, <2>1, FindInv, FindMailInv, InsertInv, SaveInv, ReplyInv, CommitInv
       DEF CallbackStep
<1>3. ASSUME NEW u \in User, OnDemand(u) \/ Bootstrap(u) PROVE Inv'
  BY <1>3, BootQuiet, QuietInv
<1>4. CASE Crash
  BY <1>4, CrashQuiet, QuietInv
<1>5. CASE UNCHANGED vars
  <2>1. TypeOK' /\ Quiet
    BY <1>5 DEF vars, Inv, TypeOK, Coded, Quiet, KeepsCodes
  <2>. QED
    BY <2>1, QuietInv
<1>. QED
  BY <1>1, <1>2, <1>3, <1>4, <1>5 DEF Next

LEMMA Invariance == Spec => []Inv
<1>1. Init => Inv
  BY InitInv
<1>2. Inv /\ [Next]_vars => Inv'
  BY NextInv
<1>. QED
  BY <1>1, <1>2, PTL DEF Spec

-----------------------------------------------------------------------------
(* One profile of a Spotify account.                                       *)

\* No callback was beside another of an account without an address, and none
\* came from a login that names a user.
Plain == mishap \intersect {"twins", "link"} = {}

\* What a callback knows of its account: it goes on with the account's profile,
\* or it has the key of a new user and the account has no profile.
Known(c) ==
  /\ cb[c].pc \in InTransaction => Wants(c) = NoUser
  /\ Loaded(c) => cb[c].saw = Me(c) /\ row[cb[c].user].of = Me(c)
  /\ cb[c].pc \in {"mail", "insert"} /\ Address[Me(c)] = NoMail => Of(Me(c)) = {}
  /\ Writing(c) /\ cb[c].created => "user" \in cb[c].holds \/ row[cb[c].user] # NoRow
  /\ "user" \in cb[c].holds => Of(Me(c)) = {}
  /\ cb[c].pc = "done" => Of(Me(c)) = {cb[c].user}

\* Two callbacks of one account do not both insert a user: its address, or the
\* absence of twins, is in the way.
Apart(c, d) ==
  /\ cb[c].pc \in InTransaction /\ cb[d].pc \in InTransaction /\ Address[Me(c)] = NoMail =>
       Me(c) # Me(d)
  /\ "user" \in cb[c].holds /\ "user" \in cb[d].holds => Me(c) # Me(d)

\* A row has the address of its account and is the account's only one.
Rows ==
  \A u \in User : row[u] # NoRow =>
    /\ row[u].mail = Address[row[u].of]
    /\ \A v \in User : row[v] # NoRow /\ row[v].of = row[u].of => v = u

Signed ==
  Plain => /\ Rows
           /\ \A c \in Callback : Known(c)
           /\ \A c, d \in Callback : c # d => Apart(c, d)

\* Whoever came with a callback stays so.
WhoStays ==
  \A c \in Callback : cb[c].pc # "idle" =>
    login'[cb[c].login].as = Me(c) /\ login'[cb[c].login].wants = Wants(c)

LEMMA StaysKnown ==
  ASSUME Inv, NEW c \in Callback, row' = row, WhoStays, Known(c),
         \/ cb'[c] = cb[c]
         \/ cb'[c].pc \notin InTransaction \union {"done"} /\ cb'[c].holds = {}
  PROVE  Known(c)'
<1>1. CASE cb'[c] = cb[c] /\ cb[c].pc # "idle"
  <2>1. Me(c)' = Me(c) /\ Wants(c)' = Wants(c)
    BY <1>1 DEF WhoStays, Me, Wants
  <2>2. Of(Me(c))' = Of(Me(c))
    BY <2>1 DEF Of
  <2>. QED
    BY <1>1, <2>1, <2>2 DEF Known, Loaded, Writing
<1>2. CASE cb'[c] = cb[c] /\ cb[c].pc = "idle"
  BY <1>2, Facts DEF Known, Loaded, Writing, InTransaction
<1>3. CASE cb'[c].pc \notin InTransaction \union {"done"} /\ cb'[c].holds = {}
  BY <1>3 DEF Known, Loaded, Writing, InTransaction
<1>. QED
  BY <1>1, <1>2, <1>3

\* A step of callbacks that stay where they are or get out.
LEMMA QuietSigned ==
  ASSUME Inv, Signed, row' = row, mishap \subseteq mishap', WhoStays,
         \A c \in Callback : \/ cb'[c] = cb[c]
                             \/ /\ cb'[c].pc \notin InTransaction \union {"done"}
                                /\ cb'[c].holds = {}
  PROVE  Signed'
<1>. SUFFICES ASSUME Plain'
              PROVE  /\ Rows'
                     /\ \A c \in Callback : Known(c)'
                     /\ \A c, d \in Callback : c # d => Apart(c, d)'
  BY DEF Signed
<1>1. Plain
  BY DEF Plain
<1>2. /\ Rows /\ \A c \in Callback : Known(c)
      /\ \A c, d \in Callback : c # d => Apart(c, d)
  BY <1>1 DEF Signed
<1>3. Rows'
  BY <1>2 DEF Rows
<1>4. \A c \in Callback : Known(c)'
  BY <1>2, StaysKnown
<1>5. ASSUME NEW c \in Callback, NEW d \in Callback, c # d PROVE Apart(c, d)'
  <2>1. CASE cb'[c] = cb[c] /\ cb'[d] = cb[d] /\ cb[c].pc # "idle" /\ cb[d].pc # "idle"
    <3>1. Me(c)' = Me(c) /\ Me(d)' = Me(d)
      BY <2>1 DEF WhoStays, Me
    <3>. QED
      BY <1>2, <1>5, <2>1, <3>1 DEF Apart
  <2>2. CASE \E e \in {c, d} : cb'[e] = cb[e] /\ cb[e].pc = "idle"
    BY <2>2, Facts DEF Apart, InTransaction, Writing
  <2>3. CASE \E e \in {c, d} : cb'[e] # cb[e]
    BY <2>3 DEF Apart
  <2>. QED
    BY <2>1, <2>2, <2>3
<1>. QED
  BY <1>3, <1>4, <1>5

\* A step of one callback within its transaction.
LEMMA StepSigned ==
  ASSUME Inv, Signed, NEW c \in Callback, NEW s \in CallbackState,
         cb' = [cb EXCEPT ![c] = s], s.login = cb[c].login,
         UNCHANGED <<login, row>>, mishap \subseteq mishap',
         Plain /\ Plain' => Known(c)' /\ \A d \in Callback : d # c => Apart(c, d)'
  PROVE  Signed'
<1>. SUFFICES ASSUME Plain'
              PROVE  /\ Rows'
                     /\ \A d \in Callback : Known(d)'
                     /\ \A d, e \in Callback : d # e => Apart(d, e)'
  BY DEF Signed
<1>1. Plain
  BY DEF Plain
<1>2. /\ Rows /\ \A d \in Callback : Known(d)
      /\ \A d, e \in Callback : d # e => Apart(d, e)
  BY <1>1 DEF Signed
<1>3. cb'[c] = s /\ \A d \in Callback \ {c} : cb'[d] = cb[d]
  BY Moved DEF Inv
<1>4. \A d \in Callback : Me(d)' = Me(d) /\ Wants(d)' = Wants(d)
  BY <1>3 DEF Me, Wants
<1>5. WhoStays
  BY DEF WhoStays, Me, Wants
<1>6. \A d \in Callback : Known(d)'
  BY <1>1, <1>2, <1>3, <1>5, StaysKnown
<1>7. ASSUME NEW d \in Callback, NEW e \in Callback, d # e PROVE Apart(d, e)'
  <2>1. CASE d = c
    BY <1>1, <1>7, <2>1
  <2>2. CASE e = c
    <3>1. Apart(e, d)'
      BY <1>1, <1>7, <2>2
    <3>. QED
      BY <3>1 DEF Apart
  <2>3. CASE d # c /\ e # c
    <3>1. cb'[d] = cb[d] /\ cb'[e] = cb[e] /\ Me(d)' = Me(d) /\ Me(e)' = Me(e)
      BY <1>3, <1>4, <2>3
    <3>. QED
      BY <1>2, <1>7, <3>1 DEF Apart
  <2>. QED
    BY <2>1, <2>2, <2>3
<1>8. Rows'
  BY <1>2 DEF Rows
<1>. QED
  BY <1>6, <1>7, <1>8

LEMMA LoginSigned ==
  ASSUME Inv, Signed, NEW l \in Login,
         Authorize(l) \/ ExpireState(l) \/ \E a \in Spotify : Consent(l, a)
  PROVE  Signed'
<1>0. /\ login \in [Login -> LoginState]
      /\ \A c \in Callback : cb[c].login \in Login
  BY DEF Inv, TypeOK, CallbackState
<1>1. UNCHANGED <<row, cb, mishap>>
  BY DEF Authorize, ExpireState, Consent
<1>2. \A k \in Login \ {l} : login'[k] = login[k]
  BY <1>0 DEF Authorize, ExpireState, Consent
<1>3. CASE ExpireState(l)
  <2>1. login'[l].as = login[l].as /\ login'[l].wants = login[l].wants
    BY <1>0, <1>3 DEF ExpireState, LoginState
  <2>2. WhoStays
    BY <1>0, <1>2, <2>1 DEF WhoStays, Me, Wants
  <2>. QED
    BY <1>1, <2>2, QuietSigned
<1>4. CASE Authorize(l) \/ \E a \in Spotify : Consent(l, a)
  <2>1. \A c \in Callback : cb[c].pc # "idle" => cb[c].login # l
    BY <1>4 DEF Authorize, Consent, Inv, Coded
  <2>2. WhoStays
    BY <1>0, <1>2, <2>1 DEF WhoStays, Me, Wants
  <2>. QED
    BY <1>1, <2>2, QuietSigned
<1>. QED
  BY <1>3, <1>4

\* A callback that is not in its transaction, or leaves it empty-handed.
LEMMA OutSigned ==
  ASSUME Inv, Signed, NEW c \in Callback, NEW p, p \notin InTransaction \union {"done"},
         \/ cb' = [cb EXCEPT ![c].pc = p] /\ cb[c].holds = {}
         \/ cb' = [cb EXCEPT ![c].pc = p, ![c].holds = {}]
         \/ cb[c].holds = {} /\ \E r \in BOOLEAN : cb' = [cb EXCEPT ![c].pc = p, ![c].renewed = r]
         \/ cb[c].holds = {} /\ \E l \in Login : cb' = [cb EXCEPT ![c].login = l, ![c].pc = p],
         \/ login' = login
         \/ login' = [login EXCEPT ![cb[c].login].kept = FALSE]
         \/ login' = [login EXCEPT ![cb[c].login].code = "spent"],
         row' = row, mishap \subseteq mishap'
  PROVE  Signed'
<1>0. /\ cb \in [Callback -> CallbackState] /\ login \in [Login -> LoginState]
      /\ \A d \in Callback : cb[d].login \in Login
  BY DEF Inv, TypeOK, CallbackState
<1>1. cb'[c].pc = p /\ cb'[c].holds = {} /\ \A d \in Callback : d # c => cb'[d] = cb[d]
  <2>1. cb[c] \in CallbackState
    BY <1>0
  <2>2. CASE \/ cb' = [cb EXCEPT ![c].pc = p] /\ cb[c].holds = {}
             \/ cb' = [cb EXCEPT ![c].pc = p, ![c].holds = {}]
    BY <1>0, <2>1, <2>2 DEF CallbackState
  <2>3. CASE cb[c].holds = {} /\ \E r \in BOOLEAN : cb' = [cb EXCEPT ![c].pc = p, ![c].renewed = r]
    <3>1. PICK r \in BOOLEAN : cb' = [cb EXCEPT ![c].pc = p, ![c].renewed = r]
      BY <2>3
    <3>. DEFINE s == [cb[c] EXCEPT !.pc = p, !.renewed = r]
    <3>2. s.pc = p /\ s.holds = {}
      BY <2>1, <2>3 DEF CallbackState
    <3>3. cb' = [cb EXCEPT ![c] = s]
      BY <1>0, <3>1
    <3>. HIDE DEF s
    <3>. QED
      BY <1>0, <3>2, <3>3
  <2>4. CASE cb[c].holds = {} /\ \E l \in Login : cb' = [cb EXCEPT ![c].login = l, ![c].pc = p]
    <3>1. PICK l \in Login : cb' = [cb EXCEPT ![c].login = l, ![c].pc = p]
      BY <2>4
    <3>. DEFINE s == [cb[c] EXCEPT !.login = l, !.pc = p]
    <3>2. s.pc = p /\ s.holds = {}
      BY <2>1, <2>4 DEF CallbackState
    <3>3. cb' = [cb EXCEPT ![c] = s]
      BY <1>0, <3>1
    <3>. HIDE DEF s
    <3>. QED
      BY <1>0, <3>2, <3>3
  <2>. QED
    BY <2>2, <2>3, <2>4
<1>2. \A k \in Login : login'[k].as = login[k].as /\ login'[k].wants = login[k].wants
  BY <1>0 DEF LoginState
<1>3. WhoStays
  BY <1>0, <1>2 DEF WhoStays, Me, Wants
<1>. QED
  BY <1>1, <1>3, QuietSigned

LEMMA FailedOut == "failed" \notin InTransaction \union {"done"}
  BY DEF InTransaction

LEMMA EarlySigned ==
  ASSUME Inv, Signed, NEW c \in Callback,
         (\E l \in Login : Receive(c, l)) \/ Consume(c) \/ Exchange(c) \/ Fail(c)
  PROVE  Signed'
<1>0. cb[c] \in CallbackState /\ (~Writing(c) => cb[c].holds = {})
  BY Facts
<1>1. CASE \E l \in Login : Receive(c, l)
  <2>1. PICK l \in Login : Receive(c, l)
    BY <1>1
  <2>2. PICK p \in {"consume", "failed"} : cb' = [cb EXCEPT ![c].login = l, ![c].pc = p]
    BY <2>1 DEF Receive
  <2>. QED
    BY <1>0, <2>1, <2>2, OutSigned DEF Receive, Writing, InTransaction
<1>2. CASE Consume(c)
  <2>1. /\ cb' = [cb EXCEPT ![c].pc = "exchange"] /\ cb[c].holds = {}
        /\ login' = [login EXCEPT ![cb[c].login].kept = FALSE]
        /\ row' = row /\ mishap \subseteq mishap'
    BY <1>0, <1>2 DEF Consume, Writing
  <2>2. "exchange" \notin InTransaction \union {"done"}
    BY DEF InTransaction
  <2>. QED
    BY <2>1, <2>2, OutSigned
<1>3. CASE Exchange(c)
  <2>1. PICK p \in {"me", "failed"} :
          \/ \E r \in BOOLEAN : cb' = [cb EXCEPT ![c].pc = p, ![c].renewed = r]
          \/ cb' = [cb EXCEPT ![c].pc = p]
    BY <1>3 DEF Exchange
  <2>2. /\ mishap \subseteq mishap' /\ row' = row /\ cb[c].pc = "exchange"
        /\ login' = [login EXCEPT ![cb[c].login].code = "spent"]
    BY <1>3 DEF Exchange
  <2>. QED
    BY <1>0, <2>1, <2>2, OutSigned DEF Writing, InTransaction
<1>4. CASE Fail(c)
  <2>1. /\ cb' = [cb EXCEPT ![c].pc = "failed", ![c].holds = {}]
        /\ login' = login /\ row' = row /\ mishap \subseteq mishap'
    BY <1>4 DEF Fail
  <2>. QED
    BY <2>1, FailedOut, OutSigned
<1>. QED
  BY <1>1, <1>2, <1>3, <1>4

LEMMA CrashSigned ==
  ASSUME Inv, Signed, Crash PROVE Signed'
<1>1. \A c \in Callback : cb[c] \in CallbackState
  BY Facts
<1>2. \A c \in Callback : \/ cb'[c] = cb[c]
                          \/ /\ cb'[c].pc \in {"lost", "failed"} /\ cb'[c].holds = {}
  BY <1>1 DEF Crash, CallbackState
<1>3. row' = row /\ mishap \subseteq mishap' /\ WhoStays
  BY DEF Crash, WhoStays, Me, Wants
<1>. QED
  BY <1>2, <1>3, QuietSigned DEF InTransaction

\* A callback enters its transaction: no twin of it is in one.
LEMMA ReadMeSigned ==
  ASSUME Inv, Signed, NEW c \in Callback, ReadMe(c) PROVE Signed'
<1>0. /\ cb[c] \in CallbackState /\ cb \in [Callback -> CallbackState]
      /\ cb[c].pc = "me" /\ cb[c].holds = {}
  BY Facts DEF ReadMe, Writing
<1>. DEFINE s == [cb[c] EXCEPT !.pc = "find"]
<1>1. s \in CallbackState /\ s.pc = "find" /\ s.login = cb[c].login /\ s.holds = {}
  BY <1>0 DEF CallbackState, InTransaction
<1>2. cb' = [cb EXCEPT ![c] = s] /\ UNCHANGED <<login, row>> /\ mishap \subseteq mishap'
  BY <1>0 DEF ReadMe
<1>. HIDE DEF s
<1>3. cb'[c] = s /\ \A d \in Callback \ {c} : cb'[d] = cb[d]
  BY <1>1, <1>2, Moved DEF Inv
<1>4. \A d \in Callback : Me(d)' = Me(d) /\ Wants(d)' = Wants(d)
  BY <1>1, <1>2, <1>3 DEF Me, Wants
<1>5. ASSUME Plain' PROVE Known(c)'
  <2>1. Wants(c) = NoUser
    BY <1>5 DEF ReadMe, Plain
  <2>. QED
    BY <1>1, <1>3, <1>4, <2>1 DEF Known, Loaded, Writing
<1>6. ASSUME Plain', NEW d \in Callback, d # c PROVE Apart(c, d)'
  <2>1. ~(Address[Me(c)] = NoMail /\ Beside(c, d) /\ Me(d) = Me(c))
    BY <1>6 DEF ReadMe, Plain
  <2>2. cb'[d] = cb[d]
    BY <1>3, <1>6
  <2>. QED
    BY <1>1, <1>3, <1>4, <1>6, <2>1, <2>2 DEF Apart, Beside
<1>. QED
  BY <1>1, <1>2, <1>5, <1>6, StepSigned

\* What a callback of a plain history in its transaction starts a step from.
LEMMA PlainFacts ==
  ASSUME Inv, Signed, Plain, NEW c \in Callback, cb[c].pc \in InTransaction
  PROVE  /\ Rows /\ Known(c) /\ Wants(c) = NoUser
         /\ \A d \in Callback : d # c => Apart(c, d) /\ Apart(d, c)
         /\ Of(Me(c)) = {} \/ \E u \in User : Of(Me(c)) = {u}
<1>1. /\ Rows /\ Known(c) /\ \A d \in Callback : d # c => Apart(c, d) /\ Apart(d, c)
  BY DEF Signed
<1>2. Wants(c) = NoUser
  BY <1>1 DEF Known
<1>3. \A u, v \in Of(Me(c)) : u = v
  BY <1>1 DEF Rows, Of
<1>4. Of(Me(c)) \subseteq User
  BY DEF Of
<1>. QED
  BY <1>1, <1>2, <1>3, <1>4

LEMMA FindSigned ==
  ASSUME Inv, Signed, NEW c \in Callback, Find(c) PROVE Signed'
<1>0. /\ cb[c] \in CallbackState /\ cb \in [Callback -> CallbackState]
      /\ cb[c].holds = {} /\ cb[c].pc = "find" /\ UNCHANGED <<login, row>>
      /\ mishap \subseteq mishap'
  BY Facts DEF Writing, Find, Loads
<1>1. PICK p \in {"save", "mail", "failed"}, s \in CallbackState :
        /\ cb' = [cb EXCEPT ![c] = s] /\ s.pc = p /\ s.login = cb[c].login /\ s.holds = {}
        /\ Wants(c) = NoUser /\ p = "save" =>
             /\ Cardinality(Of(Me(c))) = 1
             /\ s.user = (CHOOSE u \in Of(Me(c)) : TRUE) /\ s.saw = row[s.user].of
        /\ Wants(c) = NoUser /\ p = "mail" => Cardinality(Of(Me(c))) = 0
  <2>1. CASE Wants(c) # NoUser
    <3>1. Wants(c) \in User
      BY <2>1, Facts
    <3>2. CASE row[Wants(c)] # NoRow
      <4>. DEFINE s == [cb[c] EXCEPT !.pc = "save", !.user = Wants(c), !.saw = row[Wants(c)].of]
      <4>1. row[Wants(c)].of \in Spotify
        BY <3>1, <3>2 DEF Inv, TypeOK
      <4>2. /\ s \in CallbackState /\ s.pc = "save" /\ s.login = cb[c].login /\ s.holds = {}
        BY <1>0, <3>1, <4>1 DEF CallbackState, InTransaction
      <4>3. cb' = [cb EXCEPT ![c] = s]
        BY <1>0, <2>1, <3>2 DEF Find, Loads
      <4>. HIDE DEF s
      <4>. QED
        BY <2>1, <4>2, <4>3
    <3>3. CASE row[Wants(c)] = NoRow
      <4>. DEFINE s == [cb[c] EXCEPT !.pc = "save", !.user = Wants(c), !.created = TRUE]
      <4>2. /\ s \in CallbackState /\ s.pc = "save" /\ s.login = cb[c].login /\ s.holds = {}
        BY <1>0, <3>1 DEF CallbackState, InTransaction
      <4>3. cb' = [cb EXCEPT ![c] = s]
        BY <1>0, <2>1, <3>3 DEF Find
      <4>. HIDE DEF s
      <4>. QED
        BY <2>1, <4>2, <4>3
    <3>. QED
      BY <3>2, <3>3
  <2>2. CASE Wants(c) = NoUser /\ Cardinality(Of(Me(c))) = 1
    <3>. DEFINE u == CHOOSE u \in Of(Me(c)) : TRUE
    <3>. DEFINE s == [cb[c] EXCEPT !.pc = "save", !.user = u, !.saw = row[u].of]
    <3>1. Of(Me(c)) # {}
      BY <2>2, FS_EmptySet
    <3>2. u \in User /\ row[u] # NoRow
      BY <3>1 DEF Of
    <3>3. Loads(c, u)
      BY <2>2 DEF Find
    <3>. HIDE DEF u
    <3>6. cb' = [cb EXCEPT ![c] = s]
      BY <1>0, <3>3 DEF Loads
    <3>4. row[u].of \in Spotify
      BY <3>2 DEF Inv, TypeOK
    <3>5. /\ s \in CallbackState /\ s.pc = "save" /\ s.login = cb[c].login /\ s.holds = {}
          /\ s.user = u /\ s.saw = row[u].of
      BY <1>0, <3>2, <3>4 DEF CallbackState, InTransaction
    <3>. HIDE DEF s
    <3>. QED
      BY <2>2, <3>5, <3>6 DEF u
  <2>3. CASE Wants(c) = NoUser /\ Cardinality(Of(Me(c))) # 1
    <3>1. PICK p \in {"mail", "failed"} : /\ cb' = [cb EXCEPT ![c].pc = p]
                                          /\ p = "mail" => Cardinality(Of(Me(c))) = 0
      BY <2>3 DEF Find
    <3>. DEFINE s == [cb[c] EXCEPT !.pc = p]
    <3>2. s \in CallbackState /\ s.holds = {} /\ s.login = cb[c].login /\ s.pc = p
      BY <1>0 DEF CallbackState, InTransaction
    <3>3. cb' = [cb EXCEPT ![c] = s]
      BY <1>0, <3>1
    <3>. HIDE DEF s
    <3>. QED
      BY <3>1, <3>2, <3>3
  <2>. QED
    BY <2>1, <2>2, <2>3
<1>2. cb'[c] = s /\ \A d \in Callback \ {c} : cb'[d] = cb[d]
  BY <1>1, Moved DEF Inv
<1>3. \A d \in Callback : Me(d)' = Me(d) /\ Wants(d)' = Wants(d)
  BY <1>0, <1>1, <1>2 DEF Me, Wants
<1>4. Of(Me(c))' = Of(Me(c))
  BY <1>0, <1>3 DEF Of
<1>5. ASSUME Plain PROVE Known(c)' /\ \A d \in Callback : d # c => Apart(c, d)'
  <2>1. /\ Rows /\ Known(c) /\ Wants(c) = NoUser
        /\ \A d \in Callback : d # c => Apart(c, d)
        /\ Of(Me(c)) = {} \/ \E u \in User : Of(Me(c)) = {u}
    BY <1>0, <1>5, PlainFacts DEF InTransaction
  <2>2. p = "save" => /\ s.user \in Of(Me(c)) /\ s.saw = Me(c)
                      /\ row[s.user].of = Me(c) /\ row[s.user] # NoRow
    <3>1. p = "save" => Of(Me(c)) # {}
      BY <1>1, <2>1, FS_EmptySet
    <3>2. p = "save" => s.user \in Of(Me(c))
      BY <1>1, <2>1, <3>1
    <3>. QED
      BY <1>1, <2>1, <3>2 DEF Of
  <2>3. p = "mail" => Of(Me(c)) = {}
    BY <1>1, <2>1, FS_Singleton
  <2>4. Known(c)'
    BY <1>0, <1>1, <1>2, <1>3, <1>4, <2>1, <2>2, <2>3 DEF Known, Loaded, Writing, InTransaction
  <2>5. \A d \in Callback : d # c => Apart(c, d)'
    BY <1>0, <1>1, <1>2, <1>3, <2>1 DEF Apart, InTransaction
  <2>. QED
    BY <2>4, <2>5
<1>. QED
  BY <1>0, <1>1, <1>5, StepSigned

LEMMA FindMailSigned ==
  ASSUME Inv, Signed, NEW c \in Callback, FindMail(c) PROVE Signed'
<1>0. /\ cb[c] \in CallbackState /\ cb \in [Callback -> CallbackState]
      /\ cb[c].holds = {} /\ cb[c].pc = "mail" /\ UNCHANGED <<login, row, mishap>>
  BY Facts DEF Writing, FindMail
<1>1. PICK p \in {"save", "insert"}, u \in User :
        /\ cb' = [cb EXCEPT ![c].pc = p, ![c].user = u, ![c].created = TRUE]
        /\ p = "save" => row[u] # NoRow
  BY DEF FindMail, WithMail
<1>. DEFINE s == [cb[c] EXCEPT !.pc = p, !.user = u, !.created = TRUE]
<1>2. /\ s \in CallbackState /\ s.pc = p /\ s.login = cb[c].login /\ s.holds = {}
      /\ s.user = u /\ s.created
  BY <1>0 DEF CallbackState, InTransaction
<1>3. cb' = [cb EXCEPT ![c] = s]
  BY <1>0, <1>1
<1>. HIDE DEF s
<1>4. cb'[c] = s /\ \A d \in Callback \ {c} : cb'[d] = cb[d]
  BY <1>2, <1>3, Moved DEF Inv
<1>5. \A d \in Callback : Me(d)' = Me(d) /\ Wants(d)' = Wants(d)
  BY <1>0, <1>2, <1>4 DEF Me, Wants
<1>6. Of(Me(c))' = Of(Me(c))
  BY <1>0, <1>5 DEF Of
<1>7. ASSUME Plain PROVE Known(c)' /\ \A d \in Callback : d # c => Apart(c, d)'
  <2>1. Known(c) /\ Wants(c) = NoUser /\ \A d \in Callback : d # c => Apart(c, d)
    BY <1>0, <1>7, PlainFacts DEF InTransaction
  <2>2. Known(c)'
    BY <1>0, <1>1, <1>2, <1>4, <1>5, <1>6, <2>1 DEF Known, Loaded, Writing
  <2>3. \A d \in Callback : d # c => Apart(c, d)'
    BY <1>0, <1>2, <1>4, <1>5, <2>1 DEF Apart, InTransaction
  <2>. QED
    BY <2>2, <2>3
<1>. QED
  BY <1>0, <1>2, <1>3, <1>7, StepSigned

\* The key of a new user is had once for an address, and without one there is
\* nobody else to have it.
LEMMA InsertSigned ==
  ASSUME Inv, Signed, NEW c \in Callback, Insert(c) PROVE Signed'
<1>0. /\ cb[c] \in CallbackState /\ cb \in [Callback -> CallbackState]
      /\ cb[c].holds = {} /\ cb[c].pc = "insert" /\ UNCHANGED <<login, row, mishap>>
      /\ ~Waits(c, {"user"}) /\ cb[c].created
  BY Facts DEF Writing, Insert, Flush, Inv, Holding
<1>1. CASE Taken(c, {"user"})
  <2>1. cb' = [cb EXCEPT ![c].pc = "failed", ![c].holds = {}]
    BY <1>1 DEF Insert, Flush
  <2>. QED
    BY <1>0, <2>1, FailedOut, OutSigned
<1>2. CASE ~Taken(c, {"user"})
  <2>. DEFINE s == [cb[c] EXCEPT !.pc = "save", !.holds = {"user"}]
  <2>1. /\ s \in CallbackState /\ s.pc = "save" /\ s.login = cb[c].login /\ s.holds = {"user"}
        /\ s.user = cb[c].user /\ s.created
    BY <1>0 DEF CallbackState, InTransaction
  <2>2. cb' = [cb EXCEPT ![c] = s]
    BY <1>0, <1>2 DEF Insert, Flush
  <2>. HIDE DEF s
  <2>3. cb'[c] = s /\ \A d \in Callback \ {c} : cb'[d] = cb[d]
    BY <2>1, <2>2, Moved DEF Inv
  <2>4. \A d \in Callback : Me(d)' = Me(d) /\ Wants(d)' = Wants(d)
    BY <1>0, <2>1, <2>3 DEF Me, Wants
  <2>5. Of(Me(c))' = Of(Me(c))
    BY <1>0, <2>4 DEF Of
  <2>6. ASSUME Plain PROVE Known(c)' /\ \A d \in Callback : d # c => Apart(c, d)'
    <3>1. Rows /\ Known(c) /\ Wants(c) = NoUser /\ \A d \in Callback : d # c => Apart(c, d)
      BY <1>0, <2>6, PlainFacts DEF InTransaction
    <3>2. Of(Me(c)) = {}
      <4>1. CASE Address[Me(c)] = NoMail
        BY <1>0, <3>1, <4>1 DEF Known
      <4>2. CASE Address[Me(c)] # NoMail
        BY <1>2, <3>1, <4>2 DEF Rows, Of, Taken, WithMail
      <4>. QED
        BY <4>1, <4>2
    <3>3. Known(c)'
      BY <1>0, <2>1, <2>3, <2>4, <2>5, <3>1, <3>2 DEF Known, Loaded, Writing
    <3>4. ASSUME NEW d \in Callback, d # c, "user" \in cb[d].holds PROVE Me(c) # Me(d)
      <4>1. Beside(c, d)
        BY <3>4, Facts DEF Beside, Writing, InTransaction
      <4>2. CASE Address[Me(c)] = NoMail
        BY <1>0, <3>1, <3>4, <4>1, <4>2 DEF Apart, Beside, InTransaction
      <4>3. CASE Address[Me(c)] # NoMail
        BY <1>0, <3>4, <4>1, <4>3 DEF Waits
      <4>. QED
        BY <4>2, <4>3
    <3>5. \A d \in Callback : d # c => Apart(c, d)'
      BY <1>0, <2>3, <2>4, <3>1, <3>4 DEF Apart, InTransaction
    <3>. QED
      BY <3>3, <3>5
  <2>. QED
    BY <1>0, <2>1, <2>2, <2>6, StepSigned
<1>. QED
  BY <1>1, <1>2

LEMMA SaveSigned ==
  ASSUME Inv, Signed, NEW c \in Callback, Save(c) \/ Reply(c) PROVE Signed'
<1>0. /\ cb[c] \in CallbackState /\ cb \in [Callback -> CallbackState]
      /\ cb[c].pc \in {"save", "reply"} /\ UNCHANGED <<login, row, mishap>>
  BY Facts DEF Save, Flush, Reply
<1>1. CASE cb' = [cb EXCEPT ![c].pc = "failed", ![c].holds = {}]
  BY <1>0, <1>1, FailedOut, OutSigned
<1>2. CASE cb' # [cb EXCEPT ![c].pc = "failed", ![c].holds = {}]
  <2>1. PICK p \in {"reply", "commit"}, h \in SUBSET {"user", "profile"} :
          /\ cb' = [cb EXCEPT ![c].pc = p, ![c].holds = h]
          /\ Wants(c) = NoUser => ("user" \in h <=> "user" \in cb[c].holds)
    <3>1. CASE Save(c)
      <4>1. PICK rows \in SUBSET {"user", "profile"} :
              /\ cb' = [cb EXCEPT ![c].pc = "reply", ![c].holds = @ \union rows]
              /\ Wants(c) = NoUser => rows = {"profile"}
        BY <1>2, <3>1 DEF Save, Flush
      <4>2. cb[c].holds \union rows \in SUBSET {"user", "profile"}
        BY <1>0 DEF CallbackState
      <4>. QED
        BY <4>1, <4>2
    <3>2. CASE Reply(c)
      <4>1. cb' = [cb EXCEPT ![c].pc = "commit"]
        BY <3>2 DEF Reply
      <4>2. cb' = [cb EXCEPT ![c].pc = "commit", ![c].holds = cb[c].holds]
        <5>1. [cb[c] EXCEPT !.pc = "commit"]
                = [cb[c] EXCEPT !.pc = "commit", !.holds = cb[c].holds]
          BY <1>0 DEF CallbackState
        <5>. QED
          BY <1>0, <4>1, <5>1
      <4>3. cb[c].holds \in SUBSET {"user", "profile"}
        BY <1>0 DEF CallbackState
      <4>. QED
        BY <4>2, <4>3
    <3>. QED
      BY <3>1, <3>2
  <2>. DEFINE s == [cb[c] EXCEPT !.pc = p, !.holds = h]
  <2>2. /\ s \in CallbackState /\ s.pc = p /\ s.login = cb[c].login /\ s.holds = h
        /\ s.user = cb[c].user /\ s.created = cb[c].created /\ s.saw = cb[c].saw
    BY <1>0 DEF CallbackState, InTransaction
  <2>3. cb' = [cb EXCEPT ![c] = s]
    BY <1>0, <2>1
  <2>. HIDE DEF s
  <2>4. cb'[c] = s /\ \A d \in Callback \ {c} : cb'[d] = cb[d]
    BY <2>2, <2>3, Moved DEF Inv
  <2>5. \A d \in Callback : Me(d)' = Me(d) /\ Wants(d)' = Wants(d)
    BY <1>0, <2>2, <2>4 DEF Me, Wants
  <2>6. Of(Me(c))' = Of(Me(c))
    BY <1>0, <2>5 DEF Of
  <2>7. ASSUME Plain PROVE Known(c)' /\ \A d \in Callback : d # c => Apart(c, d)'
    <3>1. Known(c) /\ Wants(c) = NoUser /\ \A d \in Callback : d # c => Apart(c, d)
      BY <1>0, <2>7, PlainFacts DEF InTransaction
    <3>2. "user" \in h <=> "user" \in cb[c].holds
      BY <2>1, <3>1
    <3>3. Known(c)'
      BY <1>0, <2>2, <2>4, <2>5, <2>6, <3>1, <3>2 DEF Known, Loaded, Writing
    <3>4. \A d \in Callback : d # c => Apart(c, d)'
      BY <1>0, <2>2, <2>4, <2>5, <3>1, <3>2 DEF Apart, InTransaction
    <3>. QED
      BY <3>3, <3>4
  <2>. QED
    BY <1>0, <2>2, <2>3, <2>7, StepSigned
<1>. QED
  BY <1>1, <1>2

\* A commit stores the first profile of the account, or the account's own again.
LEMMA CommitSigned ==
  ASSUME Inv, Signed, NEW c \in Callback, Commit(c) PROVE Signed'
<1>0. /\ cb[c] \in CallbackState /\ cb \in [Callback -> CallbackState]
      /\ cb[c].pc = "commit" /\ login' = login /\ mishap \subseteq mishap'
      /\ cb[c].user \in User
      /\ row \in [User -> [mail : Mail \union {NoMail}, of : Spotify, refresh : Spotify]
                            \union {NoRow}]
  BY Facts DEF Commit, Inv, Holding, Writing, TypeOK
<1>1. CASE row' = row /\ cb' = [cb EXCEPT ![c].pc = "lost", ![c].holds = {}]
  <2>1. "lost" \notin InTransaction \union {"done"}
    BY DEF InTransaction
  <2>. QED
    BY <1>0, <1>1, <2>1, OutSigned
<1>2. CASE row' = [row EXCEPT ![cb[c].user] = Written(c)]
           /\ cb' = [cb EXCEPT ![c].pc = "done", ![c].holds = {}]
  <2>. SUFFICES ASSUME Plain'
                PROVE  /\ Rows'
                       /\ \A d \in Callback : Known(d)'
                       /\ \A d, e \in Callback : d # e => Apart(d, e)'
    BY DEF Signed
  <2>0. Plain
    BY <1>0 DEF Plain
  <2>. DEFINE s == [cb[c] EXCEPT !.pc = "done", !.holds = {}]
              me == cb[c].user
              a == Me(c)
  <2>1. s.pc = "done" /\ s.login = cb[c].login /\ s.holds = {} /\ s.user = me
    BY <1>0 DEF CallbackState
  <2>2. s \in CallbackState /\ cb' = [cb EXCEPT ![c] = s]
    BY <1>0, <1>2 DEF CallbackState
  <2>. HIDE DEF s
  <2>3. cb'[c] = s /\ \A d \in Callback \ {c} : cb'[d] = cb[d]
    BY <2>2, Moved DEF Inv
  <2>4. \A d \in Callback : Me(d)' = Me(d) /\ Wants(d)' = Wants(d)
    BY <1>0, <2>1, <2>3 DEF Me, Wants
  <2>5. /\ Rows /\ \A d \in Callback : Known(d)
        /\ \A d, e \in Callback : d # e => Apart(d, e)
        /\ Wants(c) = NoUser
    BY <1>0, <2>0, PlainFacts DEF Signed, InTransaction
  <2>6. \A d \in Callback : cb[d].pc # "idle" => Me(d) \in Spotify
    BY Facts
  \* What is stored is the account's, where it was the account's or nothing.
  <2>7. /\ row'[me] # NoRow /\ row'[me].of = a /\ row'[me].mail = Address[a]
        /\ \/ row[me] # NoRow /\ row[me].of = a /\ ~cb[c].created
           \/ /\ row[me] = NoRow /\ cb[c].created
              /\ "user" \in cb[c].holds /\ Of(a) = {}
    <3>1. Written(c) \in [mail : Mail \union {NoMail}, of : Spotify, refresh : Spotify]
      BY <1>0, WrittenFacts
    <3>2. row'[me] = Written(c) /\ Written(c) # NoRow
      BY <1>0, <1>2, <3>1, AccountConstants
    <3>3. CASE cb[c].created
      <4>1. Written(c).of = a /\ Written(c).mail = Address[a]
        BY <3>3 DEF Written
      <4>2. row[me] = NoRow
        BY <1>0, <3>3 DEF Inv, Holding
      <4>3. "user" \in cb[c].holds /\ Of(a) = {}
        BY <1>0, <2>5, <3>3, <4>2 DEF Known, Writing
      <4>. QED
        BY <3>2, <3>3, <4>1, <4>2, <4>3
    <3>4. CASE ~cb[c].created
      <4>1. row[me] # NoRow /\ row[me].of = a /\ cb[c].saw = a
        BY <1>0, <2>5, <3>4 DEF Inv, Holding, Known, Loaded, Writing
      <4>2. row[me] \in [mail : Mail \union {NoMail}, of : Spotify, refresh : Spotify]
        BY <1>0, <4>1
      <4>3. Written(c).of = a /\ Written(c).mail = row[me].mail
        BY <3>4, <4>1, <4>2 DEF Written
      <4>4. row[me].mail = Address[a]
        BY <1>0, <2>5, <4>1 DEF Rows
      <4>. QED
        BY <3>2, <3>4, <4>1, <4>3, <4>4
    <3>. QED
      BY <3>3, <3>4
  <2>8. \A u \in User \ {me} : row'[u] = row[u]
    BY <1>0, <1>2
  <2>9. me \in User
    BY <1>0
  <2>. HIDE DEF me, a
  <2>10. Rows'
    <3>. SUFFICES ASSUME NEW u \in User, row'[u] # NoRow
                  PROVE  /\ row'[u].mail = Address[row'[u].of]
                         /\ \A v \in User : row'[v] # NoRow /\ row'[v].of = row'[u].of => v = u
      BY DEF Rows
    <3>1. row'[u].mail = Address[row'[u].of]
      BY <2>5, <2>7, <2>8 DEF Rows
    <3>2. ASSUME NEW v \in User, row'[v] # NoRow, row'[v].of = row'[u].of PROVE v = u
      <4>1. CASE row[me] # NoRow
        BY <2>5, <2>7, <2>8, <2>9, <3>2, <4>1 DEF Rows
      <4>2. CASE row[me] = NoRow
        <5>1. \A x \in User : row[x] # NoRow => row[x].of # a
          BY <2>7, <4>2 DEF Of
        <5>. QED
          BY <2>5, <2>7, <2>8, <3>2, <5>1 DEF Rows
      <4>. QED
        BY <4>1, <4>2
    <3>. QED
      BY <3>1, <3>2
  <2>11. /\ \A b : b # a => {u \in User : row'[u] # NoRow /\ row'[u].of = b} = Of(b)
         /\ {u \in User : row'[u] # NoRow /\ row'[u].of = a} = {me}
         /\ row[me] # NoRow => Of(a) = {me}
    <3>1. \A b : b # a => {u \in User : row'[u] # NoRow /\ row'[u].of = b} = Of(b)
      BY <2>7, <2>8 DEF Of
    <3>2. row[me] # NoRow => Of(a) = {me}
      BY <2>5, <2>7, <2>9 DEF Of, Rows
    <3>3. {u \in User : row'[u] # NoRow /\ row'[u].of = a} = {me}
      <4>1. \A u \in User \ {me} : row'[u] = row[u] /\ u \notin Of(a)
        BY <2>7, <2>8, <3>2
      <4>. QED
        BY <2>7, <2>9, <4>1 DEF Of
    <3>. QED
      BY <3>1, <3>2, <3>3
  <2>12. Known(c)'
    <3>1. Of(Me(c))' = {me}
      BY <2>4, <2>11 DEF Of, a
    <3>. QED
      BY <2>1, <2>3, <3>1 DEF Known, Loaded, Writing, InTransaction
  <2>13. ASSUME NEW d \in Callback, d # c PROVE Known(d)'
    <3>0. cb'[d] = cb[d] /\ Me(d)' = Me(d) /\ Wants(d)' = Wants(d) /\ Known(d)
      BY <2>3, <2>4, <2>5, <2>13
    <3>1. Of(Me(d))' = IF Me(d) = a THEN {me} ELSE Of(Me(d))
      BY <2>11, <3>0 DEF Of
    <3>2. Loaded(d) => cb[d].user \in User /\ row[cb[d].user] # NoRow
      BY DEF Inv, Holding, Loaded
    <3>3. Loaded(d) => row'[cb[d].user].of = Me(d)
      BY <2>7, <2>8, <3>0, <3>2 DEF Known
    <3>4. Of(Me(d)) = {} => Me(d) # a \/ row[me] = NoRow
      BY <2>11
    <3>5. ASSUME cb[d].pc \in {"mail", "insert"}, Address[Me(d)] = NoMail PROVE Me(d) # a
      <4>1. Apart(d, c)
        BY <2>5, <2>13
      <4>. QED
        BY <1>0, <3>5, <4>1 DEF Apart, InTransaction, a
    <3>6. ASSUME "user" \in cb[d].holds PROVE Me(d) # a
      <4>1. Apart(d, c) /\ Of(Me(d)) = {}
        BY <2>5, <2>13, <3>0, <3>6 DEF Known
      <4>. QED
        BY <2>7, <3>4, <3>6, <4>1 DEF Apart, a
    <3>7. cb[d].pc = "done" /\ Me(d) = a => row[me] # NoRow /\ Of(Me(d)) = {me}
      BY <2>7, <2>11, <3>0 DEF Known
    <3>8. Writing(d) /\ cb[d].created =>
            "user" \in cb[d].holds \/ row'[cb[d].user] # NoRow
      BY <2>7, <2>8, <3>0 DEF Known, Inv, Holding
    <3>9. cb[d].pc = "done" => Of(Me(d))' = {cb[d].user}
      BY <3>0, <3>1, <3>7 DEF Known
    <3>. QED
      BY <3>0, <3>1, <3>3, <3>5, <3>6, <3>8, <3>9 DEF Known, Loaded, Writing
  <2>14. ASSUME NEW d \in Callback, NEW e \in Callback, d # e PROVE Apart(d, e)'
    <3>1. CASE d = c \/ e = c
      BY <2>1, <2>3, <3>1 DEF Apart, InTransaction
    <3>2. CASE d # c /\ e # c
      BY <2>3, <2>4, <2>5, <2>14, <3>2 DEF Apart
    <3>. QED
      BY <3>1, <3>2
  <2>. QED
    BY <2>10, <2>12, <2>13, <2>14
<1>. QED
  BY <1>1, <1>2 DEF Commit

LEMMA NextSigned ==
  ASSUME Inv, Signed, [Next]_vars PROVE Signed'
<1>1. ASSUME NEW l \in Login, Authorize(l) \/ ExpireState(l) \/ \E a \in Spotify : Consent(l, a)
      PROVE  Signed'
  BY <1>1, LoginSigned
<1>2. ASSUME NEW c \in Callback, CallbackStep(c) PROVE Signed'
  <2>1. CASE (\E l \in Login : Receive(c, l)) \/ Consume(c) \/ Exchange(c) \/ Fail(c)
    BY <2>1, EarlySigned
  <2>. QED
    BY <1>2, <2>1, ReadMeSigned, FindSigned, FindMailSigned, InsertSigned, SaveSigned,
       CommitSigned DEF CallbackStep
<1>3. CASE (\E u \in User : OnDemand(u) \/ Bootstrap(u)) \/ UNCHANGED vars
  <2>1. UNCHANGED <<login, row, cb, mishap>>
    BY <1>3 DEF OnDemand, Bootstrap, vars
  <2>2. WhoStays
    BY <2>1 DEF WhoStays, Me, Wants
  <2>. QED
    BY <2>1, <2>2, QuietSigned
<1>4. CASE Crash
  BY <1>4, CrashSigned
<1>. QED
  BY <1>1, <1>2, <1>3, <1>4 DEF Next

-----------------------------------------------------------------------------

\* Each variable keeps its type; a stored profile is always a whole one.
THEOREM TypeCorrect == Spec => []TypeOK
<1>1. Inv => TypeOK
  BY DEF Inv
<1>. QED
  BY <1>1, Invariance, PTL

\* Callbacks that sign in a new account at the same time schedule one bootstrap
\* between them, in the transaction that has the new profile.
THEOREM BootstrapOnce == Spec => []WarmedOnce
<1>1. Inv => WarmedOnce
  BY DEF Inv, Scheduled, WarmedOnce
<1>. QED
  BY <1>1, Invariance, PTL

\* A stored refresh token is of the account its profile is of, however many
\* callbacks update the profile from what they loaded.
THEOREM TokensOfAccount == Spec => []TokensMatch
<1>1. Inv => TokensMatch
  BY DEF Inv
<1>. QED
  BY <1>1, Invariance, PTL

\* "A returning Spotify user is matched; no second account": however many
\* callbacks sign one account in at the same time, and wherever they fail, the
\* account has one profile, the one every browser that signed in was told of.
THEOREM ReturningIsMatched == Spec => []OneAccount
<1>1. Init => Signed
  BY DEF Init, Signed, Plain, Rows, Known, Apart, Loaded, Writing, InTransaction
<1>2. Inv /\ Signed /\ [Next]_vars => Signed'
  BY NextSigned
<1>3. Inv /\ Signed => OneAccount
  <2>. SUFFICES ASSUME Inv, Signed, Plain, NEW a \in Spotify
                PROVE  /\ Cardinality(Of(a)) <= 1
                       /\ \A c \in Callback : cb[c].pc = "done" /\ Me(c) = a =>
                            Of(a) = {cb[c].user}
    BY DEF OneAccount, Plain
  <2>1. /\ \A u, v \in Of(a) : u = v
        /\ \A c \in Callback : Known(c)
    BY DEF Signed, Rows, Of
  <2>2. Of(a) = {} \/ \E u : Of(a) = {u}
    BY <2>1
  <2>3. Cardinality(Of(a)) <= 1
    <3>1. CASE Of(a) = {}
      BY <3>1, FS_EmptySet
    <3>2. ASSUME NEW u, Of(a) = {u} PROVE Cardinality(Of(a)) <= 1
      <4>1. Cardinality({u}) = 1
        BY FS_Singleton
      <4>. QED
        BY <3>2, <4>1
    <3>. QED
      BY <2>2, <3>1, <3>2
  <2>. QED
    BY <2>1, <2>3 DEF Known
<1>. QED
  BY <1>1, <1>2, <1>3, Invariance, PTL DEF Spec
=============================================================================
