------------------------- MODULE SessionDataProofs -------------------------
(***************************************************************************)
(* What the documents of the accounts say (DocNameOwn), that a deleted     *)
(* account stays gone (DeletedIsGone) and who passes the verification page *)
(* (ThroughVerified of Session), for any accounts and whatever the user    *)
(* does, the server refuses and the phone loses.                           *)
(***************************************************************************)
EXTENDS SessionProofs

\* What the verification page goes by: the user object and a check that read
\* it know of a verification only when the server does.
SeenTrue ==
    /\ seen => user \in verified
    /\ \A a \in Accounts : op["verify"][a] = "reloadSeen" => a \in verified

\* A sign-up that nobody disturbed finds its own name on the phone.
Named == \A a \in Accounts : op["signup"][a] = "create" /\ a \notin mixed => prefs.name = a

\* Handlers of a kind run for accounts of its kind.
KindsOf ==
    \A a \in Accounts :
        /\ op["signup"][a] # "idle" \/ op["erase"][a] # "idle" => a \notin GoogleAccounts
        /\ op["google"][a] # "idle" \/ op["eraseGoogle"][a] # "idle" => a \in GoogleAccounts

Erasers == {"erase", "eraseGoogle"}
Sets(w, a) == w.acct = a /\ w.op = "set"
Clear(a) == docs[a] = NoDoc /\ \A i \in DOMAIN queue : ~Sets(queue[i], a)

\* A reported deletion left nothing that could bring the account back.
NothingLeft ==
    \A a \in deleted \ crossed :
        /\ status[a] = "retired"
        /\ a \notin mixed => Clear(a) /\ op["google"][a] # "readDoc"

\* A deletion that no other sign-in met deletes the account it was asked for.
Uncrossed == \A a \in Accounts \ crossed : Deleting(a) => user \in {a, NoUser}

\* A deletion on its way has retired its account, or runs alone on it.
Retired ==
    \A a \in Accounts :
        /\ op["erase"][a] \in {"dropUser", "wait", "done"} => status[a] # "absent"
        /\ op["erase"][a] \in {"wait", "done"} /\ a \notin crossed => status[a] = "retired"
Apart ==
    \A a \in Accounts : a \notin mixed => op["google"][a] = "idle" \/ op["eraseGoogle"][a] = "idle"

\* The deletion of a document is the last word of the queue about it, and
\* when it was applied there is nothing left.
LastWord ==
    \A i \in DOMAIN queue : queue[i].by \in Erasers =>
        /\ queue[i].op = "delete"
        /\ queue[i].acct \notin mixed =>
               \A j \in DOMAIN queue : j > i => ~Sets(queue[j], queue[i].acct)
Emptied ==
    \A a \in Accounts : \A k \in Erasers : a \notin mixed /\ op[k][a] = "done" => Clear(a)

Gone == NothingLeft /\ Uncrossed /\ Retired /\ Apart /\ LastWord /\ Emptied

-----------------------------------------------------------------------------
(***************************************************************************)
(* Who moves a handler.                                                    *)
(***************************************************************************)
LEMMA GotoAt ==
    ASSUME TypeOK, NEW h \in OpKinds, NEW b \in Accounts, NEW step, Goto(h, b, step)
    PROVE  /\ op'[h][b] = step
           /\ \A k \in OpKinds : \A a \in Accounts : k # h \/ a # b => op'[k][a] = op[k][a]
<1>1. op \in [OpKinds -> [Accounts -> Steps]]
  BY DEF TypeOK
<1>2. op' = [op EXCEPT ![h][b] = step]
  BY DEF Goto
<1>3. op'[h] = [op[h] EXCEPT ![b] = step] /\ \A k \in OpKinds : k # h => op'[k] = op[k]
  BY <1>1, <1>2
<1>4. op'[h][b] = step /\ \A a \in Accounts : a # b => op'[h][a] = op[h][a]
  BY <1>1, <1>3
<1>5. QED
  BY <1>3, <1>4

LEMMA Oldest ==
    ASSUME TypeOK, queue # << >>
    PROVE  /\ 1 \in DOMAIN queue /\ Head(queue) = queue[1] /\ queue[1] \in Writes
           /\ \A i \in DOMAIN Tail(queue) :
                  i + 1 \in DOMAIN queue /\ Tail(queue)[i] = queue[i + 1]
<1>1. Len(queue) \in Nat /\ DOMAIN queue = 1 .. Len(queue) /\ Len(queue) >= 1
  BY QueuedWrite, EmptySeq DEF TypeOK
<1>2. /\ Head(queue) = queue[1] /\ Tail(queue) \in Seq(Writes)
      /\ Len(Tail(queue)) = Len(queue) - 1
      /\ \A i \in 1 .. Len(Tail(queue)) : Tail(queue)[i] = queue[i + 1]
  BY HeadTailProperties DEF TypeOK
<1>3. DOMAIN Tail(queue) = 1 .. Len(queue) - 1
  BY <1>2, LenProperties
<1>4. QED
  BY <1>1, <1>2, <1>3, QueuedWrite

LEMMA AnswerAt ==
    ASSUME TypeOK, AnswersOwned, NEW step, queue # << >>, Acknowledge(Head(queue), step),
           NEW k \in OpKinds, NEW a \in Accounts
    PROVE  \/ op'[k][a] = op[k][a]
           \/ /\ op'[k][a] = step /\ op[k][a] = "wait"
              /\ queue[1].by = k /\ queue[1].acct = a
<1> DEFINE w == queue[1]
<1>1. w \in Writes /\ 1 \in DOMAIN queue /\ Head(queue) = w
  BY Oldest
<1>2. CASE w.by = "nobody"
  BY <1>1, <1>2 DEF Acknowledge
<1>3. CASE w.by # "nobody"
  <2>1. w.by \in OpKinds /\ w.acct \in Accounts
    BY <1>1, <1>3 DEF Writes
  <2>2. At(w.by, w.acct, "wait")
    BY <1>1, <1>3 DEF AnswersOwned
  <2>3. Goto(w.by, w.acct, step)
    BY <1>1, <1>3 DEF Acknowledge, Goto
  <2>4. op'[w.by][w.acct] = step
    BY <2>1, <2>3, GotoAt
  <2>5. k # w.by \/ a # w.acct => op'[k][a] = op[k][a]
    BY <2>1, <2>3, GotoAt
  <2>6. QED
    BY <2>2, <2>4, <2>5 DEF At
<1>4. QED
  BY <1>2, <1>3

\* What makes handler k of account a go anywhere but home.
Why(k, a) ==
    \/ op'[k][a] \in {op[k][a], "idle"}
    \/ k = "login" /\ (TapLogin(a) \/ AnswerSignIn(a))
    \/ k = "google" /\ (TapGoogle(a) \/ AnswerGoogle(a) \/ AnswerGoogleDoc(a))
    \/ k = "signup" /\ TapSignUp(a)
    \/ k = "verify" /\ user = a /\ TapContinue
    \/ k = "erase" /\ ((user = a /\ TapErase) \/ AnswerReauth(a) \/ AnswerDropUser(a))
    \/ k = "eraseGoogle" /\ (TapEraseGoogle(a) \/ AnswerEraseGoogle(a))
    \/ /\ \/ CommitHead /\ op'[k][a] = "done"
          \/ RefuseHead /\ op'[k][a] = "refused"
       /\ op[k][a] = "wait" /\ queue[1].by = k /\ queue[1].acct = a

\* A step that moves handler h of account b has that reason for it alone.
LEMMA OneMoves ==
    ASSUME TypeOK, NEW k \in OpKinds, NEW a \in Accounts,
           NEW h \in OpKinds, NEW b \in Accounts, NEW step, Goto(h, b, step)
    PROVE  op'[k][a] = op[k][a] \/ (k = h /\ a = b /\ op'[k][a] = step)
BY GotoAt

LEMMA OpMoves ==
    ASSUME TypeOK, AnswersOwned, [Next]_vars, NEW k \in OpKinds, NEW a \in Accounts
    PROVE  Why(k, a)
<1> USE DEF OpKinds
<1>1. CASE \/ Navigate \/ TapLoginEmpty \/ LogOut \/ SplashDone \/ SignOutRuns \/ Flush
           \/ UNCHANGED vars
           \/ \E b \in Accounts : FollowLink(b) \/ SaveToken(b)
  <2>1. op' = op
    BY <1>1 DEF Navigate, TapLoginEmpty, LogOut, SplashDone, SignOutRuns, Flush, vars,
                FollowLink, SaveToken
  <2>2. QED
    BY <2>1 DEF Why
<1>2. CASE Crash \/ \E b \in Accounts : KilledAfterCreate(b) \/ KilledAfterRetire(b)
  <2>1. op' = [h \in OpKinds |-> [b \in Accounts |-> "idle"]]
    BY <1>2 DEF Crash, KilledAfterCreate, KilledAfterRetire, Restart
  <2>2. op'[k][a] = "idle"
    BY <2>1
  <2>3. QED
    BY <2>2 DEF Why
<1>3. ASSUME NEW b \in Accounts,
             \/ AnswerLoginDoc(b) \/ FailLogin(b) \/ FinishGoogle(b) \/ FailGoogle(b)
             \/ AnswerCreate(b) \/ FailCreate(b) \/ VerifyStep(b)
             \/ FinishErase(b) \/ FailErase(b) \/ FinishEraseGoogle(b) \/ FailEraseGoogle(b)
      PROVE  Why(k, a)
  <2>1. PICK h \in OpKinds : Goto(h, b, "idle")
    BY <1>3 DEF AnswerLoginDoc, FailLogin, FinishGoogle, FailGoogle, AnswerCreate, FailCreate,
                VerifyStep, AnswerReload, FailReload, FinishErase, FailErase,
                FinishEraseGoogle, FailEraseGoogle
  <2>2. QED
    BY <2>1, OneMoves DEF Why
<1>4. ASSUME NEW b \in Accounts, TapLogin(b) \/ AnswerSignIn(b) PROVE Why(k, a)
  <2>1. PICK step : Goto("login", b, step)
    BY <1>4 DEF TapLogin, AnswerSignIn
  <2>2. QED
    BY <1>4, <2>1, OneMoves DEF Why
<1>5. ASSUME NEW b \in Accounts, TapGoogle(b) \/ AnswerGoogle(b) \/ AnswerGoogleDoc(b)
      PROVE  Why(k, a)
  <2>1. PICK step : Goto("google", b, step)
    BY <1>5 DEF TapGoogle, AnswerGoogle, AnswerGoogleDoc
  <2>2. QED
    BY <1>5, <2>1, OneMoves DEF Why
<1>6. ASSUME NEW b \in Accounts, TapSignUp(b) PROVE Why(k, a)
  <2>1. Goto("signup", b, "create")
    BY <1>6 DEF TapSignUp
  <2>2. QED
    BY <1>6, <2>1, OneMoves DEF Why
<1>7. CASE TapContinue
  <2>1. CASE op' = op
    BY <2>1 DEF Why
  <2>2. CASE op' # op
    <3>1. user \in Accounts
      BY <1>7, <2>2 DEF TapContinue, TypeOK
    <3>2. PICK step : Goto("verify", user, step)
      BY <1>7, <2>2 DEF TapContinue
    <3>3. QED
      BY <1>7, <3>1, <3>2, OneMoves DEF Why
  <2>3. QED
    BY <2>1, <2>2
<1>8. CASE TapErase
  <2>1. user \in Accounts /\ Goto("erase", user, "reauth")
    BY <1>8 DEF TapErase, EmailAccounts
  <2>2. QED
    BY <1>8, <2>1, OneMoves DEF Why
<1>9. ASSUME NEW b \in Accounts, AnswerReauth(b) \/ AnswerDropUser(b) PROVE Why(k, a)
  <2>1. PICK step : Goto("erase", b, step)
    BY <1>9 DEF AnswerReauth, AnswerDropUser
  <2>2. QED
    BY <1>9, <2>1, OneMoves DEF Why
<1>10. ASSUME NEW b \in Accounts, TapEraseGoogle(b) \/ AnswerEraseGoogle(b) PROVE Why(k, a)
  <2>1. PICK step : Goto("eraseGoogle", b, step)
    BY <1>10 DEF TapEraseGoogle, AnswerEraseGoogle
  <2>2. QED
    BY <1>10, <2>1, OneMoves DEF Why
<1>11. CASE CommitHead \/ RefuseHead
  <2>1. CASE CommitHead
    <3>1. queue # << >> /\ Acknowledge(Head(queue), "done")
      BY <2>1 DEF CommitHead
    <3>2. QED
      BY <2>1, <3>1, AnswerAt DEF Why
  <2>2. CASE RefuseHead
    <3>1. queue # << >> /\ Acknowledge(Head(queue), "refused")
      BY <2>2 DEF RefuseHead
    <3>2. QED
      BY <2>2, <3>1, AnswerAt DEF Why
  <2>3. QED
    BY <1>11, <2>1, <2>2
<1>12. ASSUME NEW b \in Accounts, Progress(b) PROVE Why(k, a)
  BY <1>1, <1>3, <1>4, <1>5, <1>9, <1>10, <1>12
     DEF Progress, LoginStep, GoogleStep, SignUpStep, EraseStep, EraseGoogleStep
<1>13. CASE UserActs
  BY <1>1, <1>4, <1>5, <1>6, <1>7, <1>8, <1>10, <1>13 DEF UserActs
<1>14. QED
  BY <1>1, <1>2, <1>11, <1>12, <1>13 DEF Next

-----------------------------------------------------------------------------
(***************************************************************************)
(* What one step does to each store.                                       *)
(***************************************************************************)
\* Nobody is unverified again, no disturbance is forgotten, no retired
\* account comes back and none is as if it had never been.
LEMMA OnlyGrows ==
    ASSUME TypeOK, [Next]_vars
    PROVE  /\ verified \subseteq verified' /\ mixed \subseteq mixed' /\ crossed \subseteq crossed'
           /\ \A a \in Accounts : status[a] = "retired" => status'[a] = "retired"
           /\ \A a \in Accounts : status[a] # "absent" => status'[a] # "absent"
<1> DEFINE P == /\ verified \subseteq verified' /\ mixed \subseteq mixed' /\ crossed \subseteq crossed'
                /\ \A a \in Accounts : status[a] = "retired" => status'[a] = "retired"
                /\ \A a \in Accounts : status[a] # "absent" => status'[a] # "absent"
<1> USE DEF server, auth, local, screen, history
<1>1. CASE \/ Navigate \/ TapContinue \/ TapLoginEmpty \/ LogOut \/ TapErase
           \/ SplashDone \/ SignOutRuns \/ Flush \/ CommitHead \/ RefuseHead
           \/ UNCHANGED vars \/ Crash
  BY <1>1 DEF Navigate, TapContinue, TapLoginEmpty, LogOut, TapErase, SplashDone,
              SignOutRuns, Flush, CommitHead, RefuseHead, vars, Crash, Restart
<1>2. ASSUME NEW b \in Accounts,
             TapSignUp(b) \/ TapLogin(b) \/ TapGoogle(b) \/ TapEraseGoogle(b) \/ FollowLink(b)
      PROVE  P
  BY <1>2 DEF TapSignUp, TapLogin, TapGoogle, TapEraseGoogle, FollowLink
<1>3. ASSUME NEW b \in Accounts, LoginStep(b) \/ VerifyStep(b) \/ SaveToken(b) PROVE P
  BY <1>3 DEF LoginStep, AnswerSignIn, SignsIn, AnswerLoginDoc, FailLogin, Welcome, VerifyStep,
              AnswerReload, FailReload, SaveToken
<1>4. ASSUME NEW b \in Accounts, GoogleStep(b) PROVE P
  BY <1>4 DEF GoogleStep, AnswerGoogle, AnswerGoogleDoc, FinishGoogle, FailGoogle,
              GoogleSignsIn, SignsIn, Welcome, TypeOK
<1>5. ASSUME NEW b \in Accounts, SignUpStep(b) PROVE P
  BY <1>5 DEF SignUpStep, AnswerCreate, SignsIn, FailCreate, TypeOK
<1>6. ASSUME NEW b \in Accounts, EraseStep(b) PROVE P
  BY <1>6 DEF EraseStep, AnswerReauth, AnswerDropUser, FinishErase, FailErase, RetireUser, TypeOK
<1>7. ASSUME NEW b \in Accounts, EraseGoogleStep(b) PROVE P
  BY <1>7 DEF EraseGoogleStep, AnswerEraseGoogle, FinishEraseGoogle, FailEraseGoogle,
              GoogleSignsIn, SignsIn, RetireUser, TypeOK
<1>8. ASSUME NEW b \in Accounts, KilledAfterCreate(b) \/ KilledAfterRetire(b) PROVE P
  BY <1>8 DEF KilledAfterCreate, KilledAfterRetire, RetireUser, Restart, TypeOK
<1>9. QED
  BY <1>1, <1>2, <1>3, <1>4, <1>5, <1>6, <1>7, <1>8 DEF Next, UserActs, Progress

\* A user object that says verified is one of an account the server knows.
LEMMA AuthMoves ==
    ASSUME TypeOK, [Next]_vars
    PROVE  UNCHANGED <<user, seen>> \/ (seen' => user' \in verified')
<1> DEFINE P == UNCHANGED <<user, seen>> \/ (seen' => user' \in verified')
<1> USE DEF server, auth, local, screen, history
<1>1. CASE \/ Navigate \/ TapContinue \/ TapLoginEmpty \/ LogOut \/ TapErase
           \/ SplashDone \/ SignOutRuns \/ Flush \/ CommitHead \/ RefuseHead
           \/ UNCHANGED vars \/ Crash
  BY <1>1 DEF Navigate, TapContinue, TapLoginEmpty, LogOut, TapErase, SplashDone,
              SignOutRuns, Flush, CommitHead, RefuseHead, vars, Crash
<1>2. ASSUME NEW b \in Accounts,
             TapSignUp(b) \/ TapLogin(b) \/ TapGoogle(b) \/ TapEraseGoogle(b) \/ FollowLink(b)
      PROVE  P
  BY <1>2 DEF TapSignUp, TapLogin, TapGoogle, TapEraseGoogle, FollowLink
<1>3. ASSUME NEW b \in Accounts, LoginStep(b) \/ VerifyStep(b) \/ SaveToken(b) PROVE P
  BY <1>3 DEF LoginStep, AnswerSignIn, SignsIn, AnswerLoginDoc, FailLogin, Welcome,
              VerifyStep, AnswerReload, FailReload, SaveToken
<1>4. ASSUME NEW b \in Accounts, GoogleStep(b) PROVE P
  BY <1>4 DEF GoogleStep, AnswerGoogle, AnswerGoogleDoc, FinishGoogle, FailGoogle,
              GoogleSignsIn, SignsIn, Welcome
<1>5. ASSUME NEW b \in Accounts, SignUpStep(b) PROVE P
  BY <1>5 DEF SignUpStep, AnswerCreate, SignsIn, FailCreate
<1>6. ASSUME NEW b \in Accounts, EraseStep(b) PROVE P
  BY <1>6 DEF EraseStep, AnswerReauth, AnswerDropUser, FinishErase, FailErase, RetireUser
<1>7. ASSUME NEW b \in Accounts, EraseGoogleStep(b) PROVE P
  BY <1>7 DEF EraseGoogleStep, AnswerEraseGoogle, FinishEraseGoogle, FailEraseGoogle,
              GoogleSignsIn, SignsIn, RetireUser
<1>8. ASSUME NEW b \in Accounts, KilledAfterCreate(b) \/ KilledAfterRetire(b) PROVE P
  BY <1>8 DEF KilledAfterCreate, KilledAfterRetire, RetireUser
<1>9. QED
  BY <1>1, <1>2, <1>3, <1>4, <1>5, <1>6, <1>7, <1>8 DEF Next, UserActs, Progress

\* The name on the phone changes under the eyes of every sign-up on its way.
LEMMA NameMoves ==
    ASSUME TypeOK, [Next]_vars
    PROVE  \/ prefs'.name = prefs.name
           \/ Unread \subseteq mixed'
           \/ op' = [k \in OpKinds |-> [a \in Accounts |-> "idle"]]
<1> DEFINE P == \/ prefs'.name = prefs.name
                \/ Unread \subseteq mixed'
                \/ op' = [k \in OpKinds |-> [a \in Accounts |-> "idle"]]
<1> USE DEF server, auth, local, screen, history
<1>1. CASE \/ Navigate \/ TapContinue \/ TapLoginEmpty \/ LogOut \/ TapErase
           \/ SplashDone \/ SignOutRuns \/ Flush \/ CommitHead \/ RefuseHead
           \/ UNCHANGED vars
  BY <1>1 DEF Navigate, TapContinue, Saved, TapLoginEmpty, LogOut, TapErase, SplashDone,
              SignOutRuns, Flush, CommitHead, RefuseHead, vars
<1>2. CASE Crash \/ \E b \in Accounts : KilledAfterCreate(b) \/ KilledAfterRetire(b)
  BY <1>2 DEF Crash, KilledAfterCreate, KilledAfterRetire, Restart
<1>3. ASSUME NEW b \in Accounts,
             TapSignUp(b) \/ TapLogin(b) \/ TapGoogle(b) \/ TapEraseGoogle(b) \/ FollowLink(b)
      PROVE  P
  BY <1>3 DEF TapSignUp, TapLogin, TapGoogle, TapEraseGoogle, FollowLink
<1>4. ASSUME NEW n, Welcome(n) PROVE P
  BY <1>4 DEF Welcome, Saved
<1>5. ASSUME NEW b \in Accounts, LoginStep(b) \/ VerifyStep(b) \/ SaveToken(b) PROVE P
  BY <1>4, <1>5 DEF LoginStep, AnswerSignIn, AnswerLoginDoc, FailLogin, VerifyStep,
              AnswerReload, FailReload, Saved, SaveToken
<1>6. ASSUME NEW b \in Accounts, GoogleStep(b) PROVE P
  BY <1>4, <1>6 DEF GoogleStep, AnswerGoogle, AnswerGoogleDoc, FinishGoogle, FailGoogle
<1>7. ASSUME NEW b \in Accounts, SignUpStep(b) \/ EraseStep(b) \/ EraseGoogleStep(b) PROVE P
  BY <1>7 DEF SignUpStep, AnswerCreate, FailCreate, EraseStep, AnswerReauth, AnswerDropUser,
              FinishErase, FailErase, EraseGoogleStep, AnswerEraseGoogle,
              FinishEraseGoogle, FailEraseGoogle
<1>8. QED
  BY <1>1, <1>2, <1>3, <1>5, <1>6, <1>7 DEF Next, UserActs, Progress

\* Who queues the write w.
Asks(w) ==
    \E a \in Accounts :
        \/ AnswerCreate(a) /\ w = Write("set", a, prefs.name, "nobody")
        \/ AnswerGoogleDoc(a) /\ w = Write("set", a, a, "google")
        \/ AnswerDropUser(a) /\ w = Write("delete", a, NoUser, "erase")
        \/ AnswerEraseGoogle(a) /\ w = Write("delete", a, NoUser, "eraseGoogle")
        \/ SaveToken(a) /\ w = Write("update", a, NoUser, "nobody")

\* What a step does to the documents and the writes on their way to them.
Queues ==
    \/ UNCHANGED <<queue, docs>>
    \/ UNCHANGED docs /\ \E w : Enqueue(w) /\ Asks(w)
    \/ CommitHead
    \/ RefuseHead
    \/ UNCHANGED docs /\ Restart

LEMMA QueueMoves ==
    ASSUME [Next]_vars
    PROVE  Queues
<1> USE DEF server, auth, local, screen, history
<1>1. CASE \/ Navigate \/ TapContinue \/ TapLoginEmpty \/ LogOut \/ TapErase
           \/ SplashDone \/ SignOutRuns \/ Flush \/ UNCHANGED vars
  BY <1>1 DEF Queues, Navigate, TapContinue, TapLoginEmpty, LogOut, TapErase, SplashDone,
              SignOutRuns, Flush, vars
<1>2. CASE Crash \/ \E b \in Accounts : KilledAfterCreate(b) \/ KilledAfterRetire(b)
  BY <1>2 DEF Queues, Crash, KilledAfterCreate, KilledAfterRetire, Restart
<1>3. ASSUME NEW b \in Accounts,
             TapSignUp(b) \/ TapLogin(b) \/ TapGoogle(b) \/ TapEraseGoogle(b) \/ FollowLink(b)
      PROVE  UNCHANGED <<queue, docs>>
  BY <1>3 DEF TapSignUp, TapLogin, TapGoogle, TapEraseGoogle, FollowLink
<1>4. ASSUME NEW b \in Accounts,
             LoginStep(b) \/ VerifyStep(b) \/ FinishGoogle(b) \/ FailGoogle(b) \/ FailCreate(b)
      PROVE  UNCHANGED <<queue, docs>>
  BY <1>4 DEF LoginStep, AnswerSignIn, AnswerLoginDoc, FailLogin, VerifyStep, AnswerReload,
              FailReload, FinishGoogle, FailGoogle, Welcome, FailCreate
<1>5. ASSUME NEW b \in Accounts, \/ AnswerGoogle(b) \/ AnswerReauth(b) \/ FinishErase(b)
                                 \/ FailErase(b) \/ FinishEraseGoogle(b) \/ FailEraseGoogle(b)
      PROVE  UNCHANGED <<queue, docs>>
  BY <1>5 DEF AnswerGoogle, GoogleSignsIn, AnswerReauth, FinishErase, FailErase,
              FinishEraseGoogle, FailEraseGoogle
<1>6. ASSUME NEW b \in Accounts, AnswerGoogleDoc(b) PROVE Queues
  <2>1. CASE SeenDoc(b) # NoDoc
    BY <1>6, <2>1 DEF AnswerGoogleDoc, Welcome, Queues
  <2>2. CASE SeenDoc(b) = NoDoc
    <3>1. Enqueue(Write("set", b, b, "google")) /\ UNCHANGED docs
      BY <1>6, <2>2 DEF AnswerGoogleDoc
    <3>2. QED
      BY <1>6, <3>1 DEF Queues, Asks
  <2>3. QED
    BY <2>1, <2>2
<1>7. ASSUME NEW b \in Accounts, AnswerCreate(b) PROVE Queues
  <2>1. Enqueue(Write("set", b, prefs.name, "nobody")) /\ UNCHANGED docs
    BY <1>7 DEF AnswerCreate
  <2>2. QED
    BY <1>7, <2>1 DEF Queues, Asks
<1>8. ASSUME NEW b \in Accounts, AnswerDropUser(b) PROVE Queues
  <2>1. Enqueue(Write("delete", b, NoUser, "erase")) /\ UNCHANGED docs
    BY <1>8 DEF AnswerDropUser
  <2>2. QED
    BY <1>8, <2>1 DEF Queues, Asks
<1>9. ASSUME NEW b \in Accounts, AnswerEraseGoogle(b) PROVE Queues
  <2>1. Enqueue(Write("delete", b, NoUser, "eraseGoogle")) /\ UNCHANGED docs
    BY <1>9 DEF AnswerEraseGoogle, GoogleSignsIn
  <2>2. QED
    BY <1>9, <2>1 DEF Queues, Asks
<1>10. ASSUME NEW b \in Accounts, SaveToken(b) PROVE Queues
  <2>1. Enqueue(Write("update", b, NoUser, "nobody")) /\ UNCHANGED docs
    BY <1>10 DEF SaveToken
  <2>2. QED
    BY <1>10, <2>1 DEF Queues, Asks
<1>11. ASSUME NEW b \in Accounts, Progress(b) PROVE Queues
  BY <1>4, <1>5, <1>6, <1>7, <1>8, <1>9, <1>10, <1>11
     DEF Progress, GoogleStep, SignUpStep, EraseStep, EraseGoogleStep, Queues
<1>12. QED
  BY <1>1, <1>2, <1>3, <1>11 DEF Next, UserActs, Queues

-----------------------------------------------------------------------------
(***************************************************************************)
(* Who passes the verification page.                                       *)
(***************************************************************************)
LEMMA SeenStep == TypeOK /\ AnswersOwned /\ SeenTrue /\ [Next]_vars => SeenTrue'
<1> SUFFICES ASSUME TypeOK, AnswersOwned, SeenTrue, [Next]_vars PROVE SeenTrue'
  OBVIOUS
<1>1. verified \subseteq verified'
  BY OnlyGrows
<1>2. seen' => user' \in verified'
  BY <1>1, AuthMoves DEF SeenTrue
<1>3. ASSUME NEW a \in Accounts, op'["verify"][a] = "reloadSeen" PROVE a \in verified'
  <2>1. Why("verify", a)
    BY OpMoves DEF OpKinds
  <2>2. CASE op["verify"][a] = "reloadSeen"
    BY <1>1, <2>2 DEF SeenTrue
  <2>3. CASE op["verify"][a] # "reloadSeen"
    <3>1. user = a /\ TapContinue
      BY <1>3, <2>1, <2>3 DEF Why
    <3>2. Goto("verify", a, IF seen THEN "reloadSeen" ELSE "reloadStale")
      BY <3>1, NullAssumption DEF TapContinue
    <3>3. op'["verify"][a] = (IF seen THEN "reloadSeen" ELSE "reloadStale")
      BY <3>2, GotoAt DEF OpKinds
    <3>4. seen
      BY <1>3, <3>3
    <3>5. QED
      BY <1>1, <3>1, <3>4 DEF SeenTrue
  <2>4. QED
    BY <2>2, <2>3
<1>4. QED
  BY <1>2, <1>3 DEF SeenTrue

\* Only a check that saw the verification leads from the page to the main page.
LEMMA OpensFromVerify ==
    ASSUME [Next]_vars, page = "Verify", page' = "Base"
    PROVE  \E a \in Accounts : AnswerReload(a) /\ At("verify", a, "reloadSeen")
<1> USE DEF server, auth, local, screen, history
<1>1. ~ \/ Navigate \/ TapContinue \/ TapLoginEmpty \/ LogOut \/ TapErase
        \/ SplashDone \/ SignOutRuns \/ Flush \/ CommitHead \/ RefuseHead
        \/ UNCHANGED vars \/ Crash
  BY DEF Navigate, TapContinue, TapLoginEmpty, LogOut, TapErase, SplashDone,
         SignOutRuns, Flush, CommitHead, RefuseHead, vars, Crash, Restart
<1>2. ASSUME NEW b \in Accounts,
             TapSignUp(b) \/ TapLogin(b) \/ TapGoogle(b) \/ TapEraseGoogle(b) \/ FollowLink(b)
      PROVE  FALSE
  BY <1>2 DEF TapSignUp, TapLogin, TapGoogle, TapEraseGoogle, FollowLink
<1>3. ASSUME NEW b \in Accounts,
             LoginStep(b) \/ GoogleStep(b) \/ SignUpStep(b) \/ SaveToken(b) \/ FailReload(b)
      PROVE  FALSE
  BY <1>3 DEF LoginStep, AnswerSignIn, AnswerLoginDoc, FailLogin, Welcome, GoogleStep,
              AnswerGoogle, AnswerGoogleDoc, FinishGoogle, FailGoogle, SignUpStep,
              AnswerCreate, FailCreate, SaveToken, FailReload
<1>4. ASSUME NEW b \in Accounts, EraseStep(b) \/ EraseGoogleStep(b) PROVE FALSE
  BY <1>4 DEF EraseStep, AnswerReauth, AnswerDropUser, FinishErase, FailErase, ReportDeleted,
              EraseGoogleStep, AnswerEraseGoogle, FinishEraseGoogle, FailEraseGoogle
<1>5. ASSUME NEW b \in Accounts, KilledAfterCreate(b) \/ KilledAfterRetire(b) PROVE FALSE
  BY <1>5 DEF KilledAfterCreate, KilledAfterRetire, Restart
<1>6. PICK b \in Accounts : AnswerReload(b)
  BY <1>1, <1>2, <1>3, <1>4, <1>5 DEF Next, UserActs, Progress, VerifyStep
<1>7. At("verify", b, "reloadSeen")
  BY <1>6 DEF AnswerReload
<1>8. QED
  BY <1>6, <1>7

\* Theorem 4.  Only a check of an account that is verified on the server lets
\* through: ThroughVerified.
THEOREM OnlyVerifiedPass == Spec => ThroughVerified
<1>1. Init => SeenTrue
  BY DEF Init, SeenTrue, OpKinds
<1>2. TypeOK /\ SeenTrue /\ [Next]_vars =>
          [page = "Verify" /\ page' = "Base" =>
              \E a \in verified : op["verify"][a] # "idle" /\ op'["verify"][a] = "idle"]_vars
  <2> SUFFICES ASSUME TypeOK, SeenTrue, [Next]_vars, page = "Verify", page' = "Base"
               PROVE  \E a \in verified : op["verify"][a] # "idle" /\ op'["verify"][a] = "idle"
    OBVIOUS
  <2>1. PICK a \in Accounts : AnswerReload(a) /\ At("verify", a, "reloadSeen")
    BY OpensFromVerify
  <2>2. a \in verified /\ op["verify"][a] # "idle"
    BY <2>1 DEF SeenTrue, At
  <2>3. op'["verify"][a] = "idle"
    BY <2>1, GotoAt DEF AnswerReload, OpKinds
  <2>4. QED
    BY <2>2, <2>3
<1>3. QED
  BY <1>1, <1>2, SeenStep, TypeCorrect, AnswersReachTheirHandler, PTL DEF Spec, ThroughVerified

-----------------------------------------------------------------------------
(***************************************************************************)
(* The name in a document.                                                 *)
(***************************************************************************)
LEMMA NamedStep == TypeOK /\ AnswersOwned /\ Named /\ [Next]_vars => Named'
<1> SUFFICES ASSUME TypeOK, AnswersOwned, Named, [Next]_vars,
                    NEW a \in Accounts, op'["signup"][a] = "create", a \notin mixed'
             PROVE  prefs'.name = a
  BY DEF Named
<1>1. Why("signup", a)
  BY OpMoves DEF OpKinds
<1>2. CASE op["signup"][a] = "create"
  <2>1. a \in Unread
    BY <1>2 DEF Unread, At
  <2>2. op' # [k \in OpKinds |-> [b \in Accounts |-> "idle"]]
    BY DEF OpKinds
  <2>3. prefs'.name = prefs.name
    BY <2>1, <2>2, NameMoves
  <2>4. a \notin mixed
    BY OnlyGrows
  <2>5. QED
    BY <1>2, <2>3, <2>4 DEF Named
<1>3. CASE op["signup"][a] # "create"
  <2>1. TapSignUp(a)
    BY <1>1, <1>3 DEF Why
  <2>2. QED
    BY <2>1 DEF TapSignUp, Saved
<1>4. QED
  BY <1>2, <1>3

\* Every write that sets the document of an undisturbed account has its name.
LEMMA AskedName ==
    ASSUME Named, NEW w, Asks(w), w.op = "set", w.acct \notin mixed
    PROVE  w.name = w.acct
<1> PICK a \in Accounts :
        \/ AnswerCreate(a) /\ w = Write("set", a, prefs.name, "nobody")
        \/ AnswerGoogleDoc(a) /\ w = Write("set", a, a, "google")
        \/ AnswerDropUser(a) /\ w = Write("delete", a, NoUser, "erase")
        \/ AnswerEraseGoogle(a) /\ w = Write("delete", a, NoUser, "eraseGoogle")
        \/ SaveToken(a) /\ w = Write("update", a, NoUser, "nobody")
  BY DEF Asks
<1>1. CASE AnswerCreate(a) /\ w = Write("set", a, prefs.name, "nobody")
  BY <1>1 DEF Write, AnswerCreate, At, Named
<1>2. CASE AnswerGoogleDoc(a) /\ w = Write("set", a, a, "google")
  BY <1>2 DEF Write
<1>3. QED
  BY <1>1, <1>2 DEF Write

LEMMA Appended ==
    ASSUME TypeOK, NEW w, Enqueue(w)
    PROVE  /\ Len(queue) \in Nat /\ DOMAIN queue = 1 .. Len(queue)
           /\ DOMAIN queue' = 1 .. Len(queue) + 1
           /\ \A i \in DOMAIN queue : queue'[i] = queue[i]
           /\ queue'[Len(queue) + 1] = w
<1>1. queue' = Append(queue, w) /\ queue \in Seq(Writes)
  BY DEF Enqueue, TypeOK
<1>2. Len(queue) \in Nat /\ DOMAIN queue = 1 .. Len(queue)
  BY QueuedWrite
<1>3. QED
  BY <1>1, <1>2

LEMMA NameOwnStep ==
    TypeOK /\ AnswersOwned /\ Named /\ DocNameOwn /\ [Next]_vars => DocNameOwn'
<1> SUFFICES ASSUME TypeOK, AnswersOwned, Named, DocNameOwn, [Next]_vars,
                    NEW a \in Accounts \ mixed'
             PROVE  /\ docs'[a] \in {a, NoDoc}
                    /\ \A i \in DOMAIN queue' :
                           queue'[i].acct = a /\ queue'[i].op = "set" => queue'[i].name = a
  BY DEF DocNameOwn
<1> DEFINE Due == \A i \in DOMAIN queue' :
                      queue'[i].acct = a /\ queue'[i].op = "set" => queue'[i].name = a
<1>1. a \in Accounts /\ a \notin mixed
  BY OnlyGrows
<1>2. /\ docs[a] \in {a, NoDoc}
      /\ \A i \in DOMAIN queue :
             queue[i].acct = a /\ queue[i].op = "set" => queue[i].name = a
  BY <1>1 DEF DocNameOwn
<1>3. CASE UNCHANGED <<queue, docs>>
  BY <1>2, <1>3
<1>4. CASE UNCHANGED docs /\ \E w : Enqueue(w) /\ Asks(w)
  <2>1. PICK w : Enqueue(w) /\ Asks(w)
    BY <1>4
  <2>2. w.acct = a /\ w.op = "set" => w.name = a
    BY <1>1, <2>1, AskedName
  <2>3. Due
    BY <1>2, <2>1, <2>2, Appended
  <2>4. QED
    BY <1>2, <1>4, <2>3
<1>5. CASE CommitHead \/ RefuseHead
  <2>1. queue # << >> /\ queue' = Tail(queue)
    BY <1>5 DEF CommitHead, RefuseHead
  <2>2. Due
    BY <1>2, <2>1, Oldest
  <2>3. docs'[a] \in {a, NoDoc}
    <3>1. CASE RefuseHead
      BY <1>2, <3>1 DEF RefuseHead, server
    <3>2. CASE CommitHead
      <4> DEFINE v == queue[1]
      <4>1. v = Head(queue) /\ v \in Writes /\ 1 \in DOMAIN queue
        BY <2>1, Oldest
      <4>2. v.op \in {"set", "update", "delete"} /\ v.acct \in Accounts
        BY <4>1 DEF Writes
      <4>3. docs' = CASE v.op = "set" -> [docs EXCEPT ![v.acct] = v.name]
                      [] v.op = "delete" -> [docs EXCEPT ![v.acct] = NoDoc]
                      [] v.op = "update" -> docs
        BY <3>2, <4>1 DEF CommitHead
      <4>4. v.acct = a /\ v.op = "set" => v.name = a
        BY <1>2, <4>1
      <4> HIDE DEF v
      <4>5. docs \in [Accounts -> Accounts \cup {NoUser, NoDoc}]
        BY DEF TypeOK
      <4>6. QED
        BY <1>1, <1>2, <4>2, <4>3, <4>4, <4>5
    <3>3. QED
      BY <1>5, <3>1, <3>2
  <2>4. QED
    BY <2>2, <2>3
<1>6. CASE UNCHANGED docs /\ Restart
  <2>1. DOMAIN queue' = DOMAIN queue
    BY <1>6 DEF Restart
  <2>2. \A i \in DOMAIN queue :
            /\ queue'[i].acct = queue[i].acct /\ queue'[i].op = queue[i].op
            /\ queue'[i].name = queue[i].name
    BY <1>6, QueuedWrite DEF Restart, Writes
  <2>3. QED
    BY <1>2, <1>6, <2>1, <2>2
<1>7. QED
  BY <1>3, <1>4, <1>5, <1>6, QueueMoves DEF Queues

\* Theorem 5.  A document carries the name its owner typed: DocNameOwn.
THEOREM NamesAreOwn == Spec => []DocNameOwn
<1>1. Init => Named /\ DocNameOwn
  BY DEF Init, Named, DocNameOwn, OpKinds
<1>2. QED
  BY <1>1, NamedStep, NameOwnStep, TypeCorrect, AnswersReachTheirHandler, PTL DEF Spec

-----------------------------------------------------------------------------
(***************************************************************************)
(* A deleted account stays gone.                                           *)
(***************************************************************************)
LEMMA KindsStep == TypeOK /\ AnswersOwned /\ KindsOf /\ [Next]_vars => KindsOf'
<1> SUFFICES ASSUME TypeOK, AnswersOwned, KindsOf, [Next]_vars, NEW a \in Accounts
             PROVE  /\ op'["signup"][a] # "idle" \/ op'["erase"][a] # "idle"
                           => a \notin GoogleAccounts
                    /\ op'["google"][a] # "idle" \/ op'["eraseGoogle"][a] # "idle"
                           => a \in GoogleAccounts
  BY DEF KindsOf
<1>1. Why("signup", a) /\ Why("erase", a) /\ Why("google", a) /\ Why("eraseGoogle", a)
  BY OpMoves DEF OpKinds
<1>2. op'["signup"][a] # "idle" => a \notin GoogleAccounts
  BY <1>1 DEF Why, KindsOf, TapSignUp, EmailAccounts
<1>3. op'["erase"][a] # "idle" => a \notin GoogleAccounts
  BY <1>1 DEF Why, KindsOf, TapErase, AnswerReauth, AnswerDropUser, At, EmailAccounts
<1>4. op'["google"][a] # "idle" => a \in GoogleAccounts
  BY <1>1 DEF Why, KindsOf, TapGoogle, AnswerGoogle, AnswerGoogleDoc, At
<1>5. op'["eraseGoogle"][a] # "idle" => a \in GoogleAccounts
  BY <1>1 DEF Why, KindsOf, TapEraseGoogle, AnswerEraseGoogle, At
<1>6. QED
  BY <1>2, <1>3, <1>4, <1>5

\* Who changes the current user: a sign-in, which meets the deletions on
\* their way, or whatever leaves none; or the app was started again.
LEMMA UserMoves ==
    ASSUME [Next]_vars
    PROVE  \/ user' \in {user, NoUser}
           \/ \E b \in Accounts : /\ user' = b
                                  /\ \A a \in Accounts \ {b} : Deleting(a) => a \in crossed'
           \/ op' = [k \in OpKinds |-> [a \in Accounts |-> "idle"]]
<1> DEFINE Meets(b) == /\ user' = b
                       /\ \A a \in Accounts \ {b} : Deleting(a) => a \in crossed'
           P == \/ user' \in {user, NoUser}
                \/ \E c \in Accounts : Meets(c)
                \/ op' = [k \in OpKinds |-> [a \in Accounts |-> "idle"]]
<1> USE DEF server, auth, local, screen, history
<1>1. ASSUME \/ Navigate \/ TapContinue \/ TapLoginEmpty \/ LogOut \/ TapErase
             \/ SplashDone \/ SignOutRuns \/ Flush \/ CommitHead \/ RefuseHead
             \/ UNCHANGED vars \/ Crash
      PROVE  P
  BY <1>1 DEF Navigate, TapContinue, TapLoginEmpty, LogOut, TapErase, SplashDone,
              SignOutRuns, Flush, CommitHead, RefuseHead, vars, Crash
<1>2. ASSUME NEW b \in Accounts,
             TapSignUp(b) \/ TapLogin(b) \/ TapGoogle(b) \/ TapEraseGoogle(b) \/ FollowLink(b)
      PROVE  P
  BY <1>2 DEF TapSignUp, TapLogin, TapGoogle, TapEraseGoogle, FollowLink
<1>3. ASSUME NEW b \in Accounts, NEW v, SignsIn(b, v) PROVE Meets(b)
  BY <1>3 DEF SignsIn
<1>4. ASSUME NEW b \in Accounts,
             AnswerSignIn(b) \/ AnswerGoogle(b) \/ AnswerCreate(b) \/ AnswerEraseGoogle(b)
      PROVE  Meets(b)
  BY <1>3, <1>4 DEF AnswerSignIn, AnswerGoogle, AnswerCreate, AnswerEraseGoogle, GoogleSignsIn
<1>5. ASSUME NEW b \in Accounts,
             \/ AnswerLoginDoc(b) \/ FailLogin(b) \/ VerifyStep(b) \/ SaveToken(b)
             \/ AnswerGoogleDoc(b) \/ FinishGoogle(b) \/ FailGoogle(b) \/ FailCreate(b)
      PROVE  user' = user
  BY <1>5 DEF AnswerLoginDoc, FailLogin, Welcome, VerifyStep, AnswerReload, FailReload,
              SaveToken, AnswerGoogleDoc, FinishGoogle, FailGoogle, FailCreate
<1>6. ASSUME NEW b \in Accounts,
             EraseStep(b) \/ FinishEraseGoogle(b) \/ FailEraseGoogle(b)
      PROVE  user' \in {user, NoUser}
  BY <1>6 DEF EraseStep, AnswerReauth, AnswerDropUser, FinishErase, FailErase, RetireUser,
              FinishEraseGoogle, FailEraseGoogle
<1>7. ASSUME NEW b \in Accounts, KilledAfterCreate(b) \/ KilledAfterRetire(b) PROVE P
  BY <1>7 DEF KilledAfterCreate, KilledAfterRetire, Restart
<1> HIDE DEF Meets
<1>8. ASSUME NEW b \in Accounts, Progress(b)
      PROVE  (\E c \in Accounts : Meets(c)) \/ user' \in {user, NoUser}
  BY <1>4, <1>5, <1>6, <1>8
     DEF Progress, LoginStep, GoogleStep, SignUpStep, EraseGoogleStep
<1>9. ASSUME NEW b \in Accounts, Progress(b) PROVE P
  BY <1>8, <1>9
<1> HIDE DEF P
<1>10. P
  BY <1>1, <1>2, <1>7, <1>9 DEF Next, UserActs
<1>11. QED
  BY <1>10 DEF P, Meets

LEMMA UncrossedStep ==
    TypeOK /\ AnswersOwned /\ Uncrossed /\ [Next]_vars => Uncrossed'
<1> SUFFICES ASSUME TypeOK, AnswersOwned, Uncrossed, [Next]_vars,
                    NEW a \in Accounts, a \notin crossed', Deleting(a)'
             PROVE  user' \in {a, NoUser}
  BY DEF Uncrossed
<1>1. op'["erase"][a] = "dropUser" \/ op'["eraseGoogle"][a] \in {"wait", "done"}
  BY DEF Deleting, At
<1>2. CASE Deleting(a)
  <2>1. user \in {a, NoUser}
    BY <1>2, OnlyGrows DEF Uncrossed
  <2>2. op' # [k \in OpKinds |-> [b \in Accounts |-> "idle"]]
    BY <1>1 DEF OpKinds
  <2>3. QED
    BY <1>2, <2>1, <2>2, UserMoves
<1>3. CASE ~Deleting(a)
  <2>1. op["erase"][a] # "dropUser" /\ op["eraseGoogle"][a] \notin {"wait", "done"}
    BY <1>3 DEF Deleting, At
  <2>2. Why("erase", a) /\ Why("eraseGoogle", a)
    BY OpMoves DEF OpKinds
  <2>3. CASE AnswerReauth(a)
    BY <2>3 DEF AnswerReauth, auth
  <2>4. CASE AnswerEraseGoogle(a)
    BY <2>4 DEF AnswerEraseGoogle, GoogleSignsIn, SignsIn
  <2>5. TapErase /\ user = a => op'["erase"][a] = "reauth"
    BY GotoAt DEF TapErase, OpKinds
  <2>6. AnswerDropUser(a) => op'["erase"][a] = "wait"
    BY GotoAt DEF AnswerDropUser, OpKinds
  <2>7. TapEraseGoogle(a) => op'["eraseGoogle"][a] = "signIn"
    BY GotoAt DEF TapEraseGoogle, OpKinds
  <2>8. op'["erase"][a] = "dropUser" => AnswerReauth(a)
    BY <2>1, <2>2, <2>5, <2>6 DEF Why
  <2>9. op'["eraseGoogle"][a] \in {"wait", "done"} => AnswerEraseGoogle(a)
    BY <2>1, <2>2, <2>7 DEF Why
  <2>10. QED
    BY <1>1, <2>3, <2>4, <2>8, <2>9
<1>4. QED
  BY <1>2, <1>3

LEMMA RetiredStep ==
    TypeOK /\ AnswersOwned /\ Uncrossed /\ Retired /\ [Next]_vars => Retired'
<1> SUFFICES ASSUME TypeOK, AnswersOwned, Uncrossed, Retired, [Next]_vars, NEW a \in Accounts,
                    op'["erase"][a] \in {"dropUser", "wait", "done"}
             PROVE  /\ status'[a] # "absent"
                    /\ op'["erase"][a] # "dropUser" /\ a \notin crossed'
                           => status'[a] = "retired"
  BY DEF Retired
<1>1. Why("erase", a)
  BY OpMoves DEF OpKinds
<1>2. /\ a \notin crossed' => a \notin crossed
      /\ status[a] = "retired" => status'[a] = "retired"
      /\ status[a] # "absent" => status'[a] # "absent"
  BY OnlyGrows
<1>3. CASE op'["erase"][a] = op["erase"][a]
  BY <1>2, <1>3 DEF Retired
<1>4. CASE op["erase"][a] = "wait"
  <2>1. /\ status[a] # "absent"
        /\ a \notin crossed => status[a] = "retired"
    BY <1>4 DEF Retired
  <2>2. QED
    BY <1>2, <2>1
<1>5. CASE user = a /\ TapErase
  BY <1>5, GotoAt DEF TapErase, OpKinds
<1>6. CASE AnswerReauth(a)
  <2>1. op'["erase"][a] = "dropUser"
    BY <1>6, GotoAt DEF AnswerReauth, OpKinds
  <2>2. QED
    BY <1>6, <2>1 DEF AnswerReauth, server
<1>7. CASE AnswerDropUser(a)
  <2>1. At("erase", a, "dropUser")
    BY <1>7 DEF AnswerDropUser
  <2>2. a \notin crossed => user = a
    BY <1>7, <2>1 DEF Uncrossed, Deleting, AnswerDropUser, RetireUser
  <2>3. user = a => status'[a] = "retired"
    BY <1>7 DEF AnswerDropUser, RetireUser, TypeOK
  <2>4. status'[a] # "absent"
    BY <1>2, <2>1 DEF Retired, At
  <2>5. QED
    BY <1>2, <2>2, <2>3, <2>4
<1>8. QED
  BY <1>1, <1>3, <1>4, <1>5, <1>6, <1>7 DEF Why

LEMMA ApartStep == TypeOK /\ AnswersOwned /\ Apart /\ [Next]_vars => Apart'
<1> SUFFICES ASSUME TypeOK, AnswersOwned, Apart, [Next]_vars,
                    NEW a \in Accounts, a \notin mixed',
                    op'["google"][a] # "idle", op'["eraseGoogle"][a] # "idle"
             PROVE  FALSE
  BY DEF Apart
<1>1. Why("google", a) /\ Why("eraseGoogle", a)
  BY OpMoves DEF OpKinds
<1>2. op["google"][a] = "idle" \/ op["eraseGoogle"][a] = "idle"
  BY OnlyGrows DEF Apart
<1>3. CASE op["google"][a] = "idle"
  <2>1. TapGoogle(a)
    BY <1>1, <1>3 DEF Why, AnswerGoogle, AnswerGoogleDoc, At
  <2>2. op["eraseGoogle"][a] = "idle"
    BY <2>1 DEF TapGoogle, At
  <2>3. op'["eraseGoogle"][a] = op["eraseGoogle"][a]
    BY <2>1, GotoAt DEF TapGoogle, OpKinds
  <2>4. QED
    BY <2>2, <2>3
<1>4. CASE op["eraseGoogle"][a] = "idle"
  <2>1. TapEraseGoogle(a)
    BY <1>1, <1>4 DEF Why, AnswerEraseGoogle, At
  <2>2. op["google"][a] = "idle"
    BY <2>1 DEF TapEraseGoogle, At
  <2>3. op'["google"][a] = op["google"][a]
    BY <2>1, GotoAt DEF TapEraseGoogle, OpKinds
  <2>4. QED
    BY <2>2, <2>3
<1>5. QED
  BY <1>2, <1>3, <1>4

LEMMA WhoSets ==
    ASSUME NEW a, NEW w, Asks(w), Sets(w, a)
    PROVE  a \in Accounts /\ (AnswerCreate(a) \/ AnswerGoogleDoc(a))
BY DEF Asks, Sets, Write

\* Nobody sets the document of an account that is retired, or that is being
\* deleted, and has no Google log-in.
LEMMA NobodySets ==
    ASSUME KindsOf, Apart, Retired, NEW a \in Accounts, a \notin mixed,
           \/ status[a] = "retired" /\ op["google"][a] # "readDoc"
           \/ op["erase"][a] \in {"wait", "done"}
           \/ op["eraseGoogle"][a] # "idle",
           NEW w, Asks(w)
    PROVE  ~Sets(w, a)
<1> SUFFICES ASSUME Sets(w, a) PROVE FALSE
  OBVIOUS
<1>1. CASE AnswerCreate(a)
  <2>1. status[a] = "absent" /\ op["signup"][a] # "idle"
    BY <1>1 DEF AnswerCreate, At
  <2>2. a \notin GoogleAccounts
    BY <2>1 DEF KindsOf
  <2>3. op["eraseGoogle"][a] = "idle"
    BY <2>2 DEF KindsOf
  <2>4. op["erase"][a] \notin {"wait", "done"}
    BY <2>1 DEF Retired
  <2>5. QED
    BY <2>1, <2>3, <2>4
<1>2. CASE AnswerGoogleDoc(a)
  <2>1. op["google"][a] = "readDoc"
    BY <1>2 DEF AnswerGoogleDoc, At
  <2>2. op["eraseGoogle"][a] = "idle"
    BY <2>1 DEF Apart
  <2>3. op["erase"][a] = "idle"
    BY <2>1 DEF KindsOf
  <2>4. QED
    BY <2>1, <2>2, <2>3
<1>3. QED
  BY <1>1, <1>2, WhoSets

LEMMA LastWordStep ==
    /\ TypeOK /\ AnswersOwned /\ KindsOf /\ Retired /\ Apart /\ LastWord /\ [Next]_vars
    => LastWord'
<1> SUFFICES ASSUME TypeOK, AnswersOwned, KindsOf, Retired, Apart, LastWord, [Next]_vars,
                    NEW i \in DOMAIN queue', queue'[i].by \in Erasers
             PROVE  /\ queue'[i].op = "delete"
                    /\ queue'[i].acct \notin mixed' =>
                           \A j \in DOMAIN queue' : j > i => ~Sets(queue'[j], queue'[i].acct)
  BY DEF LastWord, Sets
<1> USE DEF Erasers
<1>1. mixed \subseteq mixed'
  BY OnlyGrows
<1>2. CASE UNCHANGED <<queue, docs>>
  BY <1>1, <1>2 DEF LastWord
<1>3. CASE UNCHANGED docs /\ \E w : Enqueue(w) /\ Asks(w)
  <2>1. PICK w : Enqueue(w) /\ Asks(w)
    BY <1>3
  <2>2. /\ Len(queue) \in Nat /\ DOMAIN queue = 1 .. Len(queue)
        /\ DOMAIN queue' = 1 .. Len(queue) + 1
        /\ \A j \in DOMAIN queue : queue'[j] = queue[j]
        /\ queue'[Len(queue) + 1] = w
    BY <2>1, Appended
  <2>3. CASE i = Len(queue) + 1
    <3>1. queue'[i].op = "delete"
      BY <2>1, <2>2, <2>3 DEF Asks, Write
    <3>2. QED
      BY <2>2, <2>3, <3>1
  <2>4. CASE i \in DOMAIN queue
    <3> DEFINE a == queue[i].acct
    <3>1. queue'[i] = queue[i] /\ queue[i].by \in Erasers /\ a \in Accounts
      BY <2>2, <2>4, QueuedWrite DEF Writes
    <3>2. op[queue[i].by][a] = "wait"
      BY <2>4, <3>1 DEF AnswersOwned, At
    <3>3. a \notin mixed' => ~Sets(w, a)
      BY <1>1, <2>1, <3>1, <3>2, NobodySets
    <3>4. queue[i].op = "delete"
      BY <2>4, <3>1 DEF LastWord
    <3>5. a \notin mixed' => \A j \in DOMAIN queue : j > i => ~Sets(queue[j], a)
      BY <1>1, <2>4, <3>1 DEF LastWord
    <3>6. QED
      BY <2>2, <3>1, <3>3, <3>4, <3>5
  <2>5. QED
    BY <2>2, <2>3, <2>4
<1>4. CASE CommitHead \/ RefuseHead
  <2>1. queue # << >> /\ queue' = Tail(queue)
    BY <1>4 DEF CommitHead, RefuseHead
  <2>2. \A j \in DOMAIN queue' : j + 1 \in DOMAIN queue /\ queue'[j] = queue[j + 1]
    BY <2>1, Oldest
  <2>3. queue' \in Seq(Writes)
    BY <2>1, HeadOfQueue
  <2>4. \A j \in DOMAIN queue' : j \in Nat
    BY <2>3, LenProperties
  <2>5. \A j \in DOMAIN queue' : j > i => j + 1 > i + 1
    BY <2>4
  <2>6. i + 1 \in DOMAIN queue /\ queue'[i] = queue[i + 1]
    BY <2>2
  <2>7. QED
    BY <1>1, <2>2, <2>5, <2>6 DEF LastWord
<1>5. CASE Restart
  BY <1>5, QueuedWrite DEF Restart, Writes
<1>6. QED
  BY <1>2, <1>3, <1>4, <1>5, QueueMoves DEF Queues

\* What is clear stays clear when nobody sets it.
LEMMA ClearStays ==
    ASSUME TypeOK, [Next]_vars, NEW a \in Accounts, Clear(a),
           \A w : Asks(w) => ~Sets(w, a)
    PROVE  Clear(a)'
<1>1. docs[a] = NoDoc /\ \A i \in DOMAIN queue : ~Sets(queue[i], a)
  BY DEF Clear
<1> SUFFICES docs'[a] = NoDoc /\ \A i \in DOMAIN queue' : ~Sets(queue'[i], a)
  BY DEF Clear, Sets
<1>2. CASE UNCHANGED <<queue, docs>>
  BY <1>1, <1>2
<1>3. CASE UNCHANGED docs /\ \E w : Enqueue(w) /\ Asks(w)
  <2>1. PICK w : Enqueue(w) /\ Asks(w)
    BY <1>3
  <2>2. \A i \in DOMAIN queue' : queue'[i] = w \/ (i \in DOMAIN queue /\ queue'[i] = queue[i])
    BY <2>1, Appended
  <2>3. QED
    BY <1>1, <1>3, <2>1, <2>2
<1>4. CASE CommitHead \/ RefuseHead
  <2>1. queue # << >> /\ queue' = Tail(queue)
    BY <1>4 DEF CommitHead, RefuseHead
  <2>2. \A i \in DOMAIN queue' : ~Sets(queue'[i], a)
    BY <1>1, <2>1, Oldest
  <2>3. docs'[a] = NoDoc
    <3>1. CASE RefuseHead
      BY <1>1, <3>1 DEF RefuseHead, server
    <3>2. CASE CommitHead
      <4> DEFINE v == queue[1]
      <4>1. v = Head(queue) /\ v \in Writes /\ 1 \in DOMAIN queue
        BY <2>1, Oldest
      <4>2. v.op \in {"set", "update", "delete"} /\ v.acct \in Accounts
        BY <4>1 DEF Writes
      <4>3. docs' = CASE v.op = "set" -> [docs EXCEPT ![v.acct] = v.name]
                      [] v.op = "delete" -> [docs EXCEPT ![v.acct] = NoDoc]
                      [] v.op = "update" -> docs
        BY <3>2, <4>1 DEF CommitHead
      <4>4. ~ (v.acct = a /\ v.op = "set")
        BY <1>1, <4>1 DEF Sets
      <4> HIDE DEF v
      <4>5. docs \in [Accounts -> Accounts \cup {NoUser, NoDoc}]
        BY DEF TypeOK
      <4>6. QED
        BY <1>1, <4>2, <4>3, <4>4, <4>5
    <3>3. QED
      BY <1>4, <3>1, <3>2
  <2>4. QED
    BY <2>2, <2>3
<1>5. CASE UNCHANGED docs /\ Restart
  <2>1. DOMAIN queue' = DOMAIN queue
    BY <1>5 DEF Restart
  <2>2. \A i \in DOMAIN queue :
            queue'[i].acct = queue[i].acct /\ queue'[i].op = queue[i].op
    BY <1>5, QueuedWrite DEF Restart, Writes
  <2>3. QED
    BY <1>1, <1>5, <2>1, <2>2 DEF Sets
<1>6. QED
  BY <1>2, <1>3, <1>4, <1>5, QueueMoves DEF Queues

LEMMA EmptiedStep ==
    /\ TypeOK /\ AnswersOwned /\ KindsOf /\ Gone /\ [Next]_vars
    => Emptied'
<1> SUFFICES ASSUME TypeOK, AnswersOwned, KindsOf, Gone, [Next]_vars, NEW a \in Accounts,
                    NEW k \in Erasers, a \notin mixed', op'[k][a] = "done"
             PROVE  Clear(a)'
  BY DEF Emptied, Clear, Sets
<1>1. k \in OpKinds /\ k \in {"erase", "eraseGoogle"}
  BY DEF Erasers, OpKinds
<1>2. a \notin mixed
  BY OnlyGrows
<1>3. Why(k, a)
  BY <1>1, OpMoves
<1>4. CASE op[k][a] = "done"
  <2>1. Clear(a)
    BY <1>2, <1>4 DEF Gone, Emptied
  <2>2. \A w : Asks(w) => ~Sets(w, a)
    BY <1>1, <1>2, <1>4, NobodySets DEF Gone
  <2>3. QED
    BY <2>1, <2>2, ClearStays
<1>5. CASE op[k][a] # "done"
  <2>1. CASE CommitHead /\ queue[1].by = k /\ queue[1].acct = a
    <3>1. queue # << >> /\ queue' = Tail(queue)
      BY <2>1 DEF CommitHead
    <3>2. Head(queue) = queue[1] /\ 1 \in DOMAIN queue
      BY <3>1, Oldest
    <3>3. /\ queue[1].op = "delete"
          /\ \A j \in DOMAIN queue : j > 1 => ~Sets(queue[j], a)
      BY <1>2, <2>1, <3>2 DEF Gone, LastWord
    <3>4. docs' = [docs EXCEPT ![a] = NoDoc]
      BY <2>1, <3>2, <3>3 DEF CommitHead
    <3>5. docs'[a] = NoDoc
      BY <3>4 DEF TypeOK
    <3>6. \A i \in DOMAIN queue' : i \in Nat /\ i >= 1
      BY <3>1, HeadOfQueue, LenProperties
    <3>7. \A i \in DOMAIN queue' : ~Sets(queue'[i], a)
      BY <3>1, <3>3, <3>6, Oldest
    <3>8. QED
      BY <3>5, <3>7 DEF Clear, Sets
  <2>2. CASE \/ k = "erase" /\ ((user = a /\ TapErase) \/ AnswerReauth(a) \/ AnswerDropUser(a))
             \/ k = "eraseGoogle" /\ (TapEraseGoogle(a) \/ AnswerEraseGoogle(a))
    <3>1. PICK step \in {"reauth", "dropUser", "wait", "signIn"} : Goto(k, a, step)
      BY <2>2 DEF TapErase, AnswerReauth, AnswerDropUser, TapEraseGoogle, AnswerEraseGoogle
    <3>2. op'[k][a] = step
      BY <1>1, <3>1, GotoAt
    <3>3. QED
      BY <3>1, <3>2
  <2>3. QED
    BY <1>1, <1>3, <1>5, <2>1, <2>2 DEF Why
<1>6. QED
  BY <1>4, <1>5

\* Who adds to the deletions that were reported.
LEMMA DeletedMoves ==
    ASSUME [Next]_vars
    PROVE  \/ deleted' = deleted
           \/ \E a \in Accounts : /\ FinishErase(a) \/ FinishEraseGoogle(a)
                                  /\ deleted' = deleted \cup {a}
<1> USE DEF server, auth, local, screen, history
<1>1. CASE \/ Navigate \/ TapContinue \/ TapLoginEmpty \/ LogOut \/ TapErase
           \/ SplashDone \/ SignOutRuns \/ Flush \/ CommitHead \/ RefuseHead
           \/ UNCHANGED vars \/ Crash
  BY <1>1 DEF Navigate, TapContinue, TapLoginEmpty, LogOut, TapErase, SplashDone,
              SignOutRuns, Flush, CommitHead, RefuseHead, vars, Crash, Restart
<1>2. ASSUME NEW b \in Accounts,
             TapSignUp(b) \/ TapLogin(b) \/ TapGoogle(b) \/ TapEraseGoogle(b) \/ FollowLink(b)
      PROVE  deleted' = deleted
  BY <1>2 DEF TapSignUp, TapLogin, TapGoogle, TapEraseGoogle, FollowLink
<1>3. ASSUME NEW b \in Accounts,
             LoginStep(b) \/ GoogleStep(b) \/ SignUpStep(b) \/ VerifyStep(b) \/ SaveToken(b)
      PROVE  deleted' = deleted
  BY <1>3 DEF LoginStep, AnswerSignIn, AnswerLoginDoc, FailLogin, Welcome, GoogleStep,
              AnswerGoogle, AnswerGoogleDoc, FinishGoogle, FailGoogle, SignUpStep,
              AnswerCreate, FailCreate, VerifyStep, AnswerReload, FailReload, SaveToken
<1>4. ASSUME NEW b \in Accounts, \/ AnswerReauth(b) \/ AnswerDropUser(b) \/ FailErase(b)
                                 \/ AnswerEraseGoogle(b) \/ FailEraseGoogle(b)
                                 \/ KilledAfterCreate(b) \/ KilledAfterRetire(b)
      PROVE  deleted' = deleted
  BY <1>4 DEF AnswerReauth, AnswerDropUser, FailErase, AnswerEraseGoogle, FailEraseGoogle,
              KilledAfterCreate, KilledAfterRetire, Restart
<1>5. ASSUME NEW b \in Accounts, FinishErase(b) \/ FinishEraseGoogle(b)
      PROVE  deleted' = deleted \cup {b}
  BY <1>5 DEF FinishErase, FinishEraseGoogle, ReportDeleted
<1>6. QED
  BY <1>1, <1>2, <1>3, <1>4, <1>5
     DEF Next, UserActs, Progress, EraseStep, EraseGoogleStep

LEMMA NothingLeftStep ==
    /\ TypeOK /\ AnswersOwned /\ KindsOf /\ Gone /\ [Next]_vars
    => NothingLeft'
<1> SUFFICES ASSUME TypeOK, AnswersOwned, KindsOf, Gone, [Next]_vars, NEW a \in deleted' \ crossed'
             PROVE  /\ status'[a] = "retired"
                    /\ a \notin mixed' => Clear(a)' /\ op'["google"][a] # "readDoc"
  BY DEF NothingLeft, Clear, Sets
<1>1. a \in Accounts
  BY TypePreserved DEF TypeOK
<1>2. mixed \subseteq mixed' /\ a \notin crossed
  BY <1>1, OnlyGrows
<1>3. CASE a \in deleted
  <2>1. status[a] = "retired" /\ status'[a] = "retired"
    <3>1. status[a] = "retired"
      BY <1>2, <1>3 DEF Gone, NothingLeft
    <3>2. QED
      BY <1>1, <3>1, OnlyGrows
  <2>2. ASSUME a \notin mixed' PROVE Clear(a)' /\ op'["google"][a] # "readDoc"
    <3>1. a \notin mixed /\ Clear(a) /\ op["google"][a] # "readDoc"
      BY <1>2, <1>3, <2>2 DEF Gone, NothingLeft
    <3>2. \A w : Asks(w) => ~Sets(w, a)
      BY <1>1, <2>1, <3>1, NobodySets DEF Gone
    <3>3. Clear(a)'
      BY <1>1, <3>1, <3>2, ClearStays
    <3>4. Why("google", a)
      BY <1>1, OpMoves DEF OpKinds
    <3>5. ~AnswerGoogle(a) /\ ~AnswerGoogleDoc(a)
      BY <2>1, <3>1 DEF AnswerGoogle, GoogleSignsIn, AnswerGoogleDoc, At
    <3>6. TapGoogle(a) => op'["google"][a] = "signIn"
      BY <1>1, GotoAt DEF TapGoogle, OpKinds
    <3>7. op'["google"][a] # "readDoc"
      BY <3>1, <3>4, <3>5, <3>6 DEF Why
    <3>8. QED
      BY <3>3, <3>7
  <2>3. QED
    BY <2>1, <2>2
<1>4. CASE a \notin deleted
  <2>1. FinishErase(a) \/ FinishEraseGoogle(a)
    BY <1>4, DeletedMoves
  <2>2. UNCHANGED <<docs, queue>>
    BY <2>1 DEF FinishErase, FinishEraseGoogle, server
  <2>3. CASE FinishErase(a)
    <3>1. op["erase"][a] = "done" /\ UNCHANGED status
      BY <2>3 DEF FinishErase, At, server
    <3>2. status'[a] = "retired"
      BY <1>1, <1>2, <3>1 DEF Gone, Retired
    <3>3. a \notin mixed' => Clear(a)
      BY <1>1, <1>2, <3>1 DEF Gone, Emptied, Erasers
    <3>4. op["google"][a] = "idle"
      BY <1>1, <3>1 DEF KindsOf
    <3>5. op'["google"][a] = op["google"][a]
      BY <1>1, <2>3, GotoAt DEF FinishErase, OpKinds
    <3>6. QED
      BY <2>2, <3>2, <3>3, <3>4, <3>5 DEF Clear, Sets
  <2>4. CASE FinishEraseGoogle(a)
    <3>1. op["eraseGoogle"][a] = "done"
      BY <2>4 DEF FinishEraseGoogle, At
    <3>2. status'[a] = "retired"
      <4>1. user # NoUser /\ user \in {a, NoUser}
        BY <1>1, <1>2, <2>4, <3>1 DEF Gone, Uncrossed, Deleting, FinishEraseGoogle, RetireUser
      <4>2. QED
        BY <1>1, <2>4, <4>1 DEF FinishEraseGoogle, RetireUser, TypeOK
    <3>3. a \notin mixed' => Clear(a) /\ op["google"][a] = "idle"
      BY <1>1, <1>2, <3>1 DEF Gone, Emptied, Apart, Erasers
    <3>4. op'["google"][a] = op["google"][a]
      BY <1>1, <2>4, GotoAt DEF FinishEraseGoogle, OpKinds
    <3>5. QED
      BY <2>2, <3>2, <3>3, <3>4 DEF Clear, Sets
  <2>5. QED
    BY <2>1, <2>3, <2>4
<1>5. QED
  BY <1>3, <1>4

\* Theorem 6.  A reported deletion is final: DeletedIsGone.
THEOREM DeletedStaysGone == Spec => []DeletedIsGone
<1>1. Init => KindsOf /\ Gone
  BY DEF Init, KindsOf, Gone, NothingLeft, Uncrossed, Retired, Apart, LastWord, Emptied,
         OpKinds, Erasers
<1>2. TypeOK /\ AnswersOwned /\ KindsOf /\ Gone /\ [Next]_vars => Gone'
  <2> SUFFICES ASSUME TypeOK, AnswersOwned, KindsOf, Gone, [Next]_vars PROVE Gone'
    OBVIOUS
  <2>1. NothingLeft' /\ Emptied'
    BY NothingLeftStep, EmptiedStep
  <2>2. Uncrossed' /\ Retired' /\ Apart' /\ LastWord'
    BY UncrossedStep, RetiredStep, ApartStep, LastWordStep DEF Gone
  <2>3. QED
    BY <2>1, <2>2 DEF Gone
<1>3. Gone => DeletedIsGone
  BY DEF Gone, NothingLeft, DeletedIsGone, Clear
<1>4. QED
  BY <1>1, <1>2, <1>3, KindsStep, TypeCorrect, AnswersReachTheirHandler, PTL DEF Spec
=============================================================================
