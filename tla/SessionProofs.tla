--------------------------- MODULE SessionProofs ---------------------------
(***************************************************************************)
(* What holds of Session for any accounts, whatever the user does and      *)
(* however many writes the phone queues.                                   *)
(***************************************************************************)
EXTENDS Session, SequenceTheorems, TLAPS

\* Moving one handler to another step leaves the table of steps a table.
LEMMA GotoType ==
    ASSUME TypeOK, NEW k \in OpKinds, NEW a \in Accounts, NEW step \in Steps,
           Goto(k, a, step)
    PROVE  op' \in [OpKinds -> [Accounts -> Steps]]
BY DEF TypeOK, Goto

\* A write appended to the queue leaves a queue of writes.
LEMMA EnqueueType ==
    ASSUME TypeOK, NEW o \in {"set", "update", "delete"}, NEW a \in Accounts,
           NEW n \in Accounts \cup {NoUser}, NEW k \in OpKinds \cup {"nobody"},
           Enqueue(Write(o, a, n, k))
    PROVE  queue' \in Seq(Writes)
BY DEF TypeOK, Enqueue, Write, Writes

\* Saving a name or nothing leaves well-typed preferences.
LEMMA SavedType ==
    ASSUME TypeOK, NEW flag \in BOOLEAN, NEW n \in Accounts \cup {NoUser},
           Saved(flag, n)
    PROVE  prefs' \in Prefs /\ disk' \in Prefs
BY DEF TypeOK, Saved, Prefs

\* The restart of the app: the writes of the queue belong to nobody.
LEMMA OrphanType ==
    ASSUME NEW q \in Seq(Writes)
    PROVE  [i \in DOMAIN q |-> [q[i] EXCEPT !.by = "nobody"]] \in Seq(Writes)
<1>1. Len(q) \in Nat /\ DOMAIN q = 1 .. Len(q)
  BY LenProperties
<1>2. \A i \in 1 .. Len(q) : q[i] \in Writes
  BY ElementOfSeq
<1>3. \A w \in Writes : [w EXCEPT !.by = "nobody"] \in Writes
  BY DEF Writes
<1>4. [i \in DOMAIN q |-> [q[i] EXCEPT !.by = "nobody"]] \in [1 .. Len(q) -> Writes]
  BY <1>1, <1>2, <1>3
<1>5. QED
  BY <1>1, <1>4, SeqDef

LEMMA RestartType ==
    ASSUME TypeOK, Restart
    PROVE  /\ page' \in Pages /\ login' = "Initial" /\ signup' = "Initial"
           /\ prefs' \in Prefs /\ leaving' = FALSE /\ tokens' = {}
           /\ op' \in [OpKinds -> [Accounts -> Steps]]
           /\ queue' \in Seq(Writes)
<1>1. queue' \in Seq(Writes)
  BY OrphanType DEF Restart, TypeOK
<1>2. QED
  BY <1>1 DEF Restart, TypeOK, Pages, Steps

\* The two ways out of a log-in handler that succeeded.
LEMMA WelcomeType ==
    ASSUME TypeOK, NEW n, Welcome(n)
    PROVE  /\ prefs' \in Prefs /\ disk' \in Prefs /\ page' \in Pages
           /\ login' = "Success" /\ mixed' \subseteq Accounts
           /\ tokens' \subseteq Accounts
           /\ UNCHANGED <<server, auth, signup, excuse, deleted, crossed, asked>>
<1>1. prefs' \in Prefs /\ disk' \in Prefs
  <2>1. (IF n \in Accounts THEN n ELSE prefs.name) \in Accounts \cup {NoUser}
    BY DEF TypeOK, Prefs
  <2>2. QED
    BY <2>1, SavedType DEF Welcome
<1>2. mixed' \subseteq Accounts
  BY DEF Welcome, TypeOK, Unread
<1>3. page' \in Pages /\ tokens' \subseteq Accounts
  BY DEF Welcome, TypeOK, Opens, Pages
<1>4. QED
  BY <1>1, <1>2, <1>3 DEF Welcome

LEMMA HeadOfQueue ==
    ASSUME TypeOK, queue # << >>
    PROVE  Head(queue) \in Writes /\ Tail(queue) \in Seq(Writes)
BY HeadTailProperties DEF TypeOK

-----------------------------------------------------------------------------
\* Every step keeps the types.
LEMMA TypePreserved == TypeOK /\ [Next]_vars => TypeOK'
<1> SUFFICES ASSUME TypeOK, [Next]_vars PROVE TypeOK'
  OBVIOUS
<1>1. ASSUME Navigate PROVE TypeOK'
  BY <1>1 DEF TypeOK, server, auth, local, screen, history, Navigate, Pages
<1>2. ASSUME TapContinue PROVE TypeOK'
  <2>1. prefs' \in Prefs /\ disk' \in Prefs
    <3>1. prefs.name \in Accounts \cup {NoUser}
      BY DEF TypeOK, Prefs
    <3>2. QED
      BY <1>2, <3>1, SavedType DEF TapContinue
  <2>2. op' \in [OpKinds -> [Accounts -> Steps]]
    <3>1. CASE user = NoUser
      BY <1>2, <3>1 DEF TapContinue, TypeOK
    <3>2. CASE user # NoUser
      BY <1>2, <3>2, GotoType DEF TapContinue, TypeOK, OpKinds, Steps
    <3>3. QED
      BY <3>1, <3>2
  <2>3. QED
    BY <1>2, <2>1, <2>2 DEF TapContinue, TypeOK, server, auth
<1>3. ASSUME TapLoginEmpty PROVE TypeOK'
  BY <1>3 DEF TypeOK, server, auth, local, screen, history, TapLoginEmpty
<1>4. ASSUME LogOut PROVE TypeOK'
  BY <1>4, SavedType DEF TypeOK, server, auth, local, screen, history, LogOut, Pages, Unread
<1>5. ASSUME TapErase PROVE TypeOK'
  BY <1>5, GotoType DEF TypeOK, server, auth, local, screen, history, TapErase, EmailAccounts, OpKinds, Steps
<1>6. ASSUME SplashDone PROVE TypeOK'
  BY <1>6 DEF TypeOK, server, auth, local, screen, history, SplashDone, Opens, Pages
<1>7. ASSUME SignOutRuns PROVE TypeOK'
  BY <1>7 DEF TypeOK, server, auth, local, screen, history, SignOutRuns
<1>8. ASSUME Flush PROVE TypeOK'
  BY <1>8 DEF TypeOK, server, auth, local, screen, history, Flush, Prefs
<1>9. ASSUME Crash PROVE TypeOK'
  BY <1>9, RestartType DEF TypeOK, server, auth, local, screen, history, Crash, Restart
<1>10. ASSUME CommitHead PROVE TypeOK'
  BY <1>10, HeadOfQueue DEF TypeOK, server, auth, local, screen, history, CommitHead, Acknowledge, Writes, OpKinds, Steps
<1>11. ASSUME RefuseHead PROVE TypeOK'
  BY <1>11, HeadOfQueue DEF TypeOK, server, auth, local, screen, history, RefuseHead, Acknowledge, Writes, OpKinds, Steps
<1>12. ASSUME NEW a \in Accounts, TapSignUp(a) PROVE TypeOK'
  <2>1. prefs' \in Prefs /\ disk' \in Prefs
    <3>1. prefs.login \in BOOLEAN
      BY DEF TypeOK, Prefs
    <3>2. QED
      BY <1>12, <3>1, SavedType DEF TapSignUp
  <2>2. op' \in [OpKinds -> [Accounts -> Steps]]
    BY <1>12, GotoType DEF TapSignUp, OpKinds, Steps
  <2>3. QED
    BY <1>12, <2>1, <2>2 DEF TapSignUp, TypeOK, Unread, server, auth, screen
<1>13. ASSUME NEW a \in Accounts, TapLogin(a) PROVE TypeOK'
  BY <1>13, GotoType DEF TypeOK, server, auth, local, screen, history, TapLogin, OpKinds, Steps
<1>14. ASSUME NEW a \in Accounts, TapGoogle(a) PROVE TypeOK'
  BY <1>14, GotoType DEF TypeOK, server, auth, local, screen, history, TapGoogle, OpKinds, Steps
<1>15. ASSUME NEW a \in Accounts, TapEraseGoogle(a) PROVE TypeOK'
  <2>1. op' \in [OpKinds -> [Accounts -> Steps]]
    BY <1>15, GotoType DEF TapEraseGoogle, OpKinds, Steps
  <2>2. QED
    BY <1>15, <2>1 DEF TypeOK, server, auth, local, screen, history, TapEraseGoogle
<1>16. ASSUME NEW a \in Accounts, FollowLink(a) PROVE TypeOK'
  BY <1>16 DEF TypeOK, server, auth, local, screen, history, FollowLink
<1>17. ASSUME NEW a \in Accounts, AnswerSignIn(a) PROVE TypeOK'
  <2>1. op' \in [OpKinds -> [Accounts -> Steps]]
    BY <1>17, GotoType DEF AnswerSignIn, OpKinds, Steps
  <2>2. QED
    BY <1>17, <2>1 DEF TypeOK, server, auth, local, screen, history, AnswerSignIn, SignsIn
<1>18. ASSUME NEW a \in Accounts, AnswerLoginDoc(a) PROVE TypeOK'
  BY <1>18, WelcomeType, GotoType DEF TypeOK, server, auth, local, screen, history, AnswerLoginDoc, OpKinds, Steps
<1>19. ASSUME NEW a \in Accounts, FailLogin(a) PROVE TypeOK'
  BY <1>19, GotoType DEF TypeOK, server, auth, local, screen, history, FailLogin, OpKinds, Steps
<1>20. ASSUME NEW a \in Accounts, AnswerGoogle(a) PROVE TypeOK'
  <2>1. prefs' \in Prefs /\ disk' \in Prefs
    <3>1. prefs.login \in BOOLEAN
      BY DEF TypeOK, Prefs
    <3>2. QED
      BY <1>20, <3>1, SavedType DEF AnswerGoogle
  <2>2. op' \in [OpKinds -> [Accounts -> Steps]]
    BY <1>20, GotoType DEF AnswerGoogle, OpKinds, Steps
  <2>3. QED
    BY <1>20, <2>1, <2>2
       DEF AnswerGoogle, GoogleSignsIn, SignsIn, TypeOK, Unread, screen
<1>21. ASSUME NEW a \in Accounts, AnswerGoogleDoc(a) PROVE TypeOK'
  <2>1. op' \in [OpKinds -> [Accounts -> Steps]]
    BY <1>21, GotoType DEF AnswerGoogleDoc, OpKinds, Steps
  <2>2. CASE SeenDoc(a) # NoDoc
    BY <1>21, <2>1, <2>2, WelcomeType DEF AnswerGoogleDoc, TypeOK, server, auth
  <2>3. CASE SeenDoc(a) = NoDoc
    <3>1. queue' \in Seq(Writes)
      BY <1>21, <2>3, EnqueueType DEF AnswerGoogleDoc, OpKinds
    <3>2. QED
      BY <1>21, <2>1, <2>3, <3>1 DEF AnswerGoogleDoc, TypeOK, server, auth, local, screen, history
  <2>4. QED
    BY <2>2, <2>3
<1>22. ASSUME NEW a \in Accounts, FinishGoogle(a) PROVE TypeOK'
  BY <1>22, WelcomeType, GotoType DEF TypeOK, server, auth, local, screen, history, FinishGoogle, OpKinds, Steps
<1>23. ASSUME NEW a \in Accounts, FailGoogle(a) PROVE TypeOK'
  <2>1. op' \in [OpKinds -> [Accounts -> Steps]]
    BY <1>23, GotoType DEF FailGoogle, OpKinds, Steps
  <2>2. QED
    BY <1>23, <2>1 DEF TypeOK, server, auth, local, screen, history, FailGoogle
<1>24. ASSUME NEW a \in Accounts, AnswerCreate(a) PROVE TypeOK'
  BY <1>24, EnqueueType, GotoType DEF TypeOK, server, auth, local, screen, history, AnswerCreate, SignsIn, Prefs, Pages, OpKinds, Steps
<1>25. ASSUME NEW a \in Accounts, FailCreate(a) PROVE TypeOK'
  <2>1. op' \in [OpKinds -> [Accounts -> Steps]]
    BY <1>25, GotoType DEF FailCreate, OpKinds, Steps
  <2>2. QED
    BY <1>25, <2>1 DEF TypeOK, server, auth, local, screen, history, FailCreate
<1>26. ASSUME NEW a \in Accounts, AnswerReload(a) PROVE TypeOK'
  <2>1. prefs' \in Prefs /\ disk' \in Prefs
    <3>1. prefs.name \in Accounts \cup {NoUser}
      BY DEF TypeOK, Prefs
    <3>2. QED
      BY <1>26, <3>1, SavedType DEF AnswerReload, local, TypeOK
  <2>2. op' \in [OpKinds -> [Accounts -> Steps]]
    BY <1>26, GotoType DEF AnswerReload, OpKinds, Steps
  <2>3. page' \in Pages /\ tokens' \subseteq Accounts /\ signup' \in {"Success", "Error"}
    BY <1>26 DEF AnswerReload, Opens, Pages, TypeOK
  <2>4. QED
    BY <1>26, <2>1, <2>2, <2>3 DEF AnswerReload, TypeOK, server, history
<1>27. ASSUME NEW a \in Accounts, FailReload(a) PROVE TypeOK'
  <2>1. op' \in [OpKinds -> [Accounts -> Steps]]
    BY <1>27, GotoType DEF FailReload, OpKinds, Steps
  <2>2. QED
    BY <1>27, <2>1 DEF TypeOK, server, auth, local, screen, history, FailReload
<1>28. ASSUME NEW a \in Accounts, AnswerReauth(a) PROVE TypeOK'
  <2>1. op' \in [OpKinds -> [Accounts -> Steps]]
    BY <1>28, GotoType DEF AnswerReauth, OpKinds, Steps
  <2>2. QED
    BY <1>28, <2>1 DEF TypeOK, server, auth, local, screen, history, AnswerReauth
<1>29. ASSUME NEW a \in Accounts, AnswerDropUser(a) PROVE TypeOK'
  BY <1>29, EnqueueType, GotoType DEF TypeOK, server, auth, local, screen, history, AnswerDropUser, RetireUser, OpKinds, Steps
<1>30. ASSUME NEW a \in Accounts, FinishErase(a) PROVE TypeOK'
  <2>1. op' \in [OpKinds -> [Accounts -> Steps]]
    BY <1>30, GotoType DEF FinishErase, OpKinds, Steps
  <2>2. QED
    BY <1>30, <2>1 DEF TypeOK, server, auth, local, screen, history, FinishErase, ReportDeleted, Pages
<1>31. ASSUME NEW a \in Accounts, FailErase(a) PROVE TypeOK'
  <2>1. op' \in [OpKinds -> [Accounts -> Steps]]
    BY <1>31, GotoType DEF FailErase, OpKinds, Steps
  <2>2. QED
    BY <1>31, <2>1 DEF TypeOK, server, auth, local, screen, history, FailErase
<1>32. ASSUME NEW a \in Accounts, AnswerEraseGoogle(a) PROVE TypeOK'
  BY <1>32, EnqueueType, GotoType DEF TypeOK, server, auth, local, screen, history, AnswerEraseGoogle, GoogleSignsIn, SignsIn, OpKinds, Steps
<1>33. ASSUME NEW a \in Accounts, FinishEraseGoogle(a) PROVE TypeOK'
  BY <1>33, GotoType DEF TypeOK, server, auth, local, screen, history, FinishEraseGoogle, RetireUser, ReportDeleted, Pages, OpKinds, Steps
<1>34. ASSUME NEW a \in Accounts, FailEraseGoogle(a) PROVE TypeOK'
  <2>1. op' \in [OpKinds -> [Accounts -> Steps]]
    BY <1>34, GotoType DEF FailEraseGoogle, OpKinds, Steps
  <2>2. QED
    BY <1>34, <2>1 DEF TypeOK, server, auth, local, screen, history, FailEraseGoogle
<1>35. ASSUME NEW a \in Accounts, SaveToken(a) PROVE TypeOK'
  BY <1>35, EnqueueType DEF TypeOK, server, auth, local, screen, history, SaveToken
<1>36. ASSUME NEW a \in Accounts, KilledAfterCreate(a) PROVE TypeOK'
  BY <1>36, RestartType DEF TypeOK, server, auth, local, screen, history, KilledAfterCreate, Restart
<1>37. ASSUME NEW a \in Accounts, KilledAfterRetire(a) PROVE TypeOK'
  BY <1>37, RestartType DEF TypeOK, server, auth, local, screen, history, KilledAfterRetire, RetireUser, Restart
<1>38. CASE UNCHANGED vars
  BY <1>38 DEF TypeOK, vars
<1>39. QED
  BY <1>1, <1>2, <1>3, <1>4, <1>5, <1>6, <1>7, <1>8, <1>9, <1>10,
     <1>11, <1>12, <1>13, <1>14, <1>15, <1>16, <1>17, <1>18, <1>19, <1>20,
     <1>21, <1>22, <1>23, <1>24, <1>25, <1>26, <1>27, <1>28, <1>29, <1>30,
     <1>31, <1>32, <1>33, <1>34, <1>35, <1>36, <1>37, <1>38
     DEF Next, UserActs, LoginStep, GoogleStep, SignUpStep, VerifyStep,
         EraseStep, EraseGoogleStep, Progress

\* Theorem 1.  The types of the variables, TypeOK.
THEOREM TypeCorrect == Spec => []TypeOK
<1>1. Init => TypeOK
  <2> SUFFICES ASSUME Init PROVE TypeOK
    OBVIOUS
  <2>1. op \in [OpKinds -> [Accounts -> Steps]]
    BY DEF Init, Steps
  <2>2. docs \in [Accounts -> Accounts \cup {NoUser, NoDoc}]
    BY DEF Init
  <2>3. prefs \in Prefs /\ disk \in Prefs
    BY DEF Init, Prefs
  <2>4. queue \in Seq(Writes)
    BY DEF Init
  <2>5. QED
    BY <2>1, <2>2, <2>3, <2>4 DEF Init, TypeOK, Pages
<1>2. QED
  BY <1>1, TypePreserved, PTL DEF Spec
-----------------------------------------------------------------------------
(***************************************************************************)
(* Answers of the server reach the handler that asked.                     *)
(***************************************************************************)
\* What is in the queue is a write.
LEMMA QueuedWrite ==
    ASSUME TypeOK
    PROVE  /\ Len(queue) \in Nat /\ DOMAIN queue = 1 .. Len(queue)
           /\ \A i \in DOMAIN queue : queue[i] \in Writes
BY LenProperties, ElementOfSeq DEF TypeOK

\* A handler that does not wait for a write may move on.
LEMMA GotoOwned ==
    ASSUME TypeOK, AnswersOwned, NEW k \in OpKinds, NEW a \in Accounts, NEW step,
           ~At(k, a, "wait"), Goto(k, a, step)
    PROVE  \A i \in DOMAIN queue :
               queue[i].by # "nobody" => op'[queue[i].by][queue[i].acct] = "wait"
<1> SUFFICES ASSUME NEW i \in DOMAIN queue, queue[i].by # "nobody"
             PROVE  op'[queue[i].by][queue[i].acct] = "wait"
  BY DEF At
<1>1. At(queue[i].by, queue[i].acct, "wait")
  BY DEF AnswersOwned
<1>2. queue[i].by \in OpKinds /\ queue[i].acct \in Accounts
  BY QueuedWrite DEF Writes
<1>3. queue[i].by # k \/ queue[i].acct # a
  BY <1>1
<1>4. QED
  BY <1>1, <1>2, <1>3 DEF Goto, At, TypeOK

LEMMA MoveOwned ==
    ASSUME TypeOK, AnswersOwned, NEW k \in OpKinds, NEW a \in Accounts, NEW step,
           ~At(k, a, "wait"), Goto(k, a, step), UNCHANGED queue
    PROVE  AnswersOwned'
BY GotoOwned DEF AnswersOwned, At

LEMMA IdleOwned ==
    ASSUME AnswersOwned, UNCHANGED <<op, queue>>
    PROVE  AnswersOwned'
BY DEF AnswersOwned, At

\* A write is queued: for nobody, or for a handler that now waits for it.
LEMMA AppendOwned ==
    ASSUME TypeOK, AnswersOwned, NEW w \in Writes, Enqueue(w),
           \A i \in DOMAIN queue : queue[i].by # "nobody" =>
               /\ op'[queue[i].by][queue[i].acct] = "wait"
               /\ ~ (queue[i].by = w.by /\ queue[i].acct = w.acct),
           w.by # "nobody" => At(w.by, w.acct, "wait")'
    PROVE  AnswersOwned'
<1> DEFINE n == Len(queue)
<1>1. n \in Nat /\ DOMAIN queue = 1 .. n
  BY QueuedWrite
<1>2. /\ DOMAIN queue' = 1 .. n + 1
      /\ \A i \in 1 .. n : queue'[i] = queue[i]
      /\ queue'[n + 1] = w
  BY <1>1, AppendProperties, LenProperties DEF Enqueue, TypeOK
<1> SUFFICES ASSUME NEW i \in 1 .. n + 1, NEW j \in 1 .. n + 1, queue'[i].by # "nobody"
             PROVE  /\ op'[queue'[i].by][queue'[i].acct] = "wait"
                    /\ queue'[j].by = queue'[i].by /\ queue'[j].acct = queue'[i].acct
                           => j = i
  BY <1>2 DEF AnswersOwned, At
<1>3. CASE i \in 1 .. n /\ j \in 1 .. n
  BY <1>1, <1>2, <1>3 DEF AnswersOwned, At
<1>4. CASE i \in 1 .. n /\ j = n + 1
  BY <1>1, <1>2, <1>4 DEF At
<1>5. CASE i = n + 1 /\ j \in 1 .. n
  BY <1>1, <1>2, <1>5 DEF At
<1>6. CASE i = n + 1 /\ j = n + 1
  BY <1>1, <1>2, <1>6 DEF At
<1>7. QED
  BY <1>1, <1>3, <1>4, <1>5, <1>6

LEMMA AskOwned ==
    ASSUME TypeOK, AnswersOwned, NEW k \in OpKinds, NEW a \in Accounts,
           NEW o \in {"set", "update", "delete"}, NEW n \in Accounts \cup {NoUser},
           ~At(k, a, "wait"), Goto(k, a, "wait"), Enqueue(Write(o, a, n, k))
    PROVE  AnswersOwned'
<1> DEFINE w == Write(o, a, n, k)
<1>1. w \in Writes /\ w.by = k /\ w.acct = a
  BY DEF Write, Writes
<1>2. At(k, a, "wait")'
  BY DEF Goto, At, TypeOK
<1>3. \A i \in DOMAIN queue : queue[i].by # "nobody" =>
          ~ (queue[i].by = k /\ queue[i].acct = a)
  BY DEF AnswersOwned
<1>4. QED
  BY <1>1, <1>2, <1>3, GotoOwned, AppendOwned DEF At

LEMMA LeaveOwned ==
    ASSUME TypeOK, AnswersOwned, NEW a \in Accounts,
           NEW o \in {"set", "update", "delete"}, NEW n \in Accounts \cup {NoUser},
           Enqueue(Write(o, a, n, "nobody")),
           \A i \in DOMAIN queue :
               queue[i].by # "nobody" => op'[queue[i].by][queue[i].acct] = "wait"
    PROVE  AnswersOwned'
<1> DEFINE w == Write(o, a, n, "nobody")
<1>1. w \in Writes /\ w.by = "nobody"
  BY DEF Write, Writes
<1>2. QED
  BY <1>1, AppendOwned

\* The server answers the oldest write.
LEMMA AnswerOwned ==
    ASSUME TypeOK, AnswersOwned, NEW step, queue # << >>, queue' = Tail(queue),
           Acknowledge(Head(queue), step)
    PROVE  AnswersOwned'
<1> DEFINE n == Len(queue)
<1>1. n \in Nat /\ n > 0 /\ DOMAIN queue = 1 .. n
  BY QueuedWrite, EmptySeq DEF TypeOK
<1>2. /\ Head(queue) = queue[1] /\ DOMAIN queue' = 1 .. n - 1
      /\ \A i \in 1 .. n - 1 : queue'[i] = queue[i + 1]
  BY <1>1, HeadTailProperties, LenProperties DEF TypeOK
<1> SUFFICES ASSUME NEW i \in 1 .. n - 1, NEW j \in 1 .. n - 1, queue'[i].by # "nobody"
             PROVE  /\ op'[queue'[i].by][queue'[i].acct] = "wait"
                    /\ queue'[j].by = queue'[i].by /\ queue'[j].acct = queue'[i].acct
                           => j = i
  BY <1>2, ZenonT(60) DEF AnswersOwned, At
<1> PICK w : w = queue[i + 1]
  OBVIOUS
<1>3. /\ i + 1 \in 1 .. n /\ j + 1 \in 1 .. n /\ 1 \in 1 .. n /\ i + 1 # 1
      /\ queue'[i] = w /\ queue'[j] = queue[j + 1]
  BY <1>1, <1>2
<1>4. w \in Writes /\ queue[1] \in Writes
  BY <1>1, <1>3, QueuedWrite
<1>5. /\ op[w.by][w.acct] = "wait"
      /\ queue[j + 1].by = w.by /\ queue[j + 1].acct = w.acct => j + 1 = i + 1
      /\ ~ (queue[1].by = w.by /\ queue[1].acct = w.acct)
  BY <1>1, <1>3 DEF AnswersOwned, At
<1>6. op'[w.by][w.acct] = op[w.by][w.acct]
  BY <1>2, <1>3, <1>4, <1>5 DEF Acknowledge, Writes, TypeOK
<1>7. QED
  BY <1>3, <1>5, <1>6

LEMMA RestartOwned ==
    ASSUME TypeOK, Restart
    PROVE  AnswersOwned'
<1>1. DOMAIN queue' = DOMAIN queue
  BY DEF Restart
<1>2. \A i \in DOMAIN queue : queue'[i].by = "nobody"
  BY QueuedWrite DEF Restart, Writes
<1>3. QED
  BY <1>1, <1>2 DEF AnswersOwned

\* Every step keeps the answers with their handlers.
LEMMA OwnedStep == TypeOK /\ AnswersOwned /\ [Next]_vars => AnswersOwned'
<1> SUFFICES ASSUME TypeOK, AnswersOwned, [Next]_vars PROVE AnswersOwned'
  OBVIOUS
<1> USE DEF OpKinds, Steps
<1>1. ASSUME Navigate PROVE AnswersOwned'
  BY <1>1, IdleOwned DEF Navigate
<1>2. ASSUME TapContinue PROVE AnswersOwned'
  <2>1. CASE user = NoUser
    BY <1>2, <2>1, IdleOwned DEF TapContinue
  <2>2. CASE user # NoUser
    BY <1>2, <2>2, MoveOwned DEF TapContinue, At, TypeOK
  <2>3. QED
    BY <2>1, <2>2
<1>3. ASSUME TapLoginEmpty PROVE AnswersOwned'
  BY <1>3, IdleOwned DEF TapLoginEmpty
<1>4. ASSUME LogOut PROVE AnswersOwned'
  BY <1>4, IdleOwned DEF LogOut
<1>5. ASSUME TapErase PROVE AnswersOwned'
  BY <1>5, MoveOwned DEF TapErase, At, EmailAccounts
<1>6. ASSUME SplashDone PROVE AnswersOwned'
  BY <1>6, IdleOwned DEF SplashDone
<1>7. ASSUME SignOutRuns PROVE AnswersOwned'
  BY <1>7, IdleOwned DEF SignOutRuns
<1>8. ASSUME Flush PROVE AnswersOwned'
  BY <1>8, IdleOwned DEF Flush
<1>9. ASSUME Crash PROVE AnswersOwned'
  BY <1>9, RestartOwned DEF Crash
<1>10. ASSUME CommitHead PROVE AnswersOwned'
  BY <1>10, AnswerOwned DEF CommitHead
<1>11. ASSUME RefuseHead PROVE AnswersOwned'
  BY <1>11, AnswerOwned DEF RefuseHead
<1>12. ASSUME NEW a \in Accounts, TapSignUp(a) PROVE AnswersOwned'
  BY <1>12, MoveOwned DEF TapSignUp, At
<1>13. ASSUME NEW a \in Accounts, TapLogin(a) PROVE AnswersOwned'
  BY <1>13, MoveOwned DEF TapLogin, At
<1>14. ASSUME NEW a \in Accounts, TapGoogle(a) PROVE AnswersOwned'
  BY <1>14, MoveOwned DEF TapGoogle, At
<1>15. ASSUME NEW a \in Accounts, TapEraseGoogle(a) PROVE AnswersOwned'
  BY <1>15, MoveOwned DEF TapEraseGoogle, At
<1>16. ASSUME NEW a \in Accounts, FollowLink(a) PROVE AnswersOwned'
  BY <1>16, IdleOwned DEF FollowLink
<1>17. ASSUME NEW a \in Accounts, AnswerSignIn(a) PROVE AnswersOwned'
  BY <1>17, MoveOwned DEF AnswerSignIn, At
<1>18. ASSUME NEW a \in Accounts, AnswerLoginDoc(a) PROVE AnswersOwned'
  BY <1>18, MoveOwned DEF AnswerLoginDoc, At
<1>19. ASSUME NEW a \in Accounts, FailLogin(a) PROVE AnswersOwned'
  BY <1>19, MoveOwned DEF FailLogin, At
<1>20. ASSUME NEW a \in Accounts, AnswerGoogle(a) PROVE AnswersOwned'
  BY <1>20, MoveOwned DEF AnswerGoogle, At
<1>21. ASSUME NEW a \in Accounts, AnswerGoogleDoc(a) PROVE AnswersOwned'
  <2>1. CASE SeenDoc(a) # NoDoc
    BY <1>21, <2>1, MoveOwned DEF AnswerGoogleDoc, At
  <2>2. CASE SeenDoc(a) = NoDoc
    BY <1>21, <2>2, AskOwned DEF AnswerGoogleDoc, At
  <2>3. QED
    BY <2>1, <2>2
<1>22. ASSUME NEW a \in Accounts, FinishGoogle(a) PROVE AnswersOwned'
  BY <1>22, MoveOwned DEF FinishGoogle, At
<1>23. ASSUME NEW a \in Accounts, FailGoogle(a) PROVE AnswersOwned'
  BY <1>23, MoveOwned DEF FailGoogle, At
<1>24. ASSUME NEW a \in Accounts, AnswerCreate(a) PROVE AnswersOwned'
  <2>1. prefs.name \in Accounts \cup {NoUser}
    BY DEF TypeOK, Prefs
  <2>2. ~At("signup", a, "wait") /\ Goto("signup", a, "idle")
    BY <1>24 DEF AnswerCreate, At
  <2>3. QED
    BY <1>24, <2>1, <2>2, GotoOwned, LeaveOwned DEF AnswerCreate
<1>25. ASSUME NEW a \in Accounts, FailCreate(a) PROVE AnswersOwned'
  BY <1>25, MoveOwned DEF FailCreate, At
<1>26. ASSUME NEW a \in Accounts, AnswerReload(a) PROVE AnswersOwned'
  BY <1>26, MoveOwned DEF AnswerReload, At
<1>27. ASSUME NEW a \in Accounts, FailReload(a) PROVE AnswersOwned'
  BY <1>27, MoveOwned DEF FailReload, At
<1>28. ASSUME NEW a \in Accounts, AnswerReauth(a) PROVE AnswersOwned'
  BY <1>28, MoveOwned DEF AnswerReauth, At
<1>29. ASSUME NEW a \in Accounts, AnswerDropUser(a) PROVE AnswersOwned'
  BY <1>29, AskOwned DEF AnswerDropUser, At
<1>30. ASSUME NEW a \in Accounts, FinishErase(a) PROVE AnswersOwned'
  BY <1>30, MoveOwned DEF FinishErase, At
<1>31. ASSUME NEW a \in Accounts, FailErase(a) PROVE AnswersOwned'
  BY <1>31, MoveOwned DEF FailErase, At
<1>32. ASSUME NEW a \in Accounts, AnswerEraseGoogle(a) PROVE AnswersOwned'
  BY <1>32, AskOwned DEF AnswerEraseGoogle, At
<1>33. ASSUME NEW a \in Accounts, FinishEraseGoogle(a) PROVE AnswersOwned'
  BY <1>33, MoveOwned DEF FinishEraseGoogle, At
<1>34. ASSUME NEW a \in Accounts, FailEraseGoogle(a) PROVE AnswersOwned'
  BY <1>34, MoveOwned DEF FailEraseGoogle, At
<1>35. ASSUME NEW a \in Accounts, SaveToken(a) PROVE AnswersOwned'
  <2>1. \A i \in DOMAIN queue :
            queue[i].by # "nobody" => op'[queue[i].by][queue[i].acct] = "wait"
    BY <1>35 DEF SaveToken, AnswersOwned, At
  <2>2. QED
    BY <1>35, <2>1, LeaveOwned DEF SaveToken
<1>36. ASSUME NEW a \in Accounts, KilledAfterCreate(a) PROVE AnswersOwned'
  BY <1>36, RestartOwned DEF KilledAfterCreate
<1>37. ASSUME NEW a \in Accounts, KilledAfterRetire(a) PROVE AnswersOwned'
  BY <1>37, RestartOwned DEF KilledAfterRetire
<1>38. CASE UNCHANGED vars
  BY <1>38, IdleOwned DEF vars
<1>39. QED
  BY <1>1, <1>2, <1>3, <1>4, <1>5, <1>6, <1>7, <1>8, <1>9, <1>10,
     <1>11, <1>12, <1>13, <1>14, <1>15, <1>16, <1>17, <1>18, <1>19,
     <1>20, <1>21, <1>22, <1>23, <1>24, <1>25, <1>26, <1>27, <1>28,
     <1>29, <1>30, <1>31, <1>32, <1>33, <1>34, <1>35, <1>36, <1>37,
     <1>38
     DEF Next, UserActs, LoginStep, GoogleStep, SignUpStep, VerifyStep,
         EraseStep, EraseGoogleStep, Progress

\* Theorem 2.  A queued write that a handler waits for is the only one of
\* that handler: AnswersOwned, for any number of queued writes and restarts.
THEOREM AnswersReachTheirHandler == Spec => []AnswersOwned
<1>1. Init => AnswersOwned
  BY DEF Init, AnswersOwned
<1>2. QED
  BY <1>1, TypeCorrect, OwnedStep, PTL DEF Spec

-----------------------------------------------------------------------------
(***************************************************************************)
(* A page behind the log-in has a user.  A step either signs somebody in   *)
(* (SignedIn), or is one of a handler or a page that has a user already    *)
(* (HadUser), or opens nothing (OpensNothing, Steady); the log-out, the    *)
(* deletions and the restart are the rest.                                 *)
(***************************************************************************)
LEMMA SignedIn ==
    ASSUME NEW a \in Accounts, user' = a, ~leaving'
    PROVE  UserBehindPages'
BY NullAssumption DEF UserBehindPages, Ready

LEMMA HadUser ==
    ASSUME UserBehindPages, UNCHANGED <<user, excuse, leaving>>,
           prefs.login \/ page \in {"Verify", "Base", "Settings"} \/ Advanced # {}
    PROVE  UserBehindPages'
BY DEF UserBehindPages, Ready, LoggedOutQuietly

LEMMA OpensNothing ==
    ASSUME UserBehindPages, UNCHANGED <<user, excuse, leaving>>,
           prefs'.login => prefs.login,
           page' = page \/ {page, page'} \subseteq {"SignIn", "SignUp"},
           Advanced' \subseteq Advanced
    PROVE  UserBehindPages'
BY DEF UserBehindPages, Ready, LoggedOutQuietly

LEMMA Steady ==
    ASSUME UserBehindPages, UNCHANGED <<user, excuse, leaving, prefs, page>>,
           Advanced' \subseteq Advanced
    PROVE  UserBehindPages'
BY DEF UserBehindPages, Ready, LoggedOutQuietly

\* What Advanced says of one handler.
LEMMA AdvancedStep ==
    ASSUME NEW k \in OpKinds, NEW a \in Accounts
    PROVE  <<k, a>> \in Advanced <=> op[k][a] \notin {"idle", "signIn", "create"}
BY DEF Advanced, InFlight

\* A handler that starts, or ends, does not get past a sign-in.
LEMMA MovesOn ==
    ASSUME TypeOK, NEW k \in OpKinds, NEW a \in Accounts,
           NEW step \in {"idle", "signIn", "create"}, Goto(k, a, step)
    PROVE  Advanced' \subseteq Advanced
<1> SUFFICES ASSUME NEW h \in OpKinds, NEW b \in Accounts,
                    op'[h][b] \notin {"idle", "signIn", "create"}
             PROVE  op[h][b] \notin {"idle", "signIn", "create"}
  BY DEF Advanced, InFlight
<1>1. h # k \/ b # a
  BY DEF Goto, TypeOK
<1>2. QED
  BY <1>1 DEF Goto, TypeOK

\* The answer of the server to a write moves a handler that waits for it.
LEMMA AnswerMoves ==
    ASSUME TypeOK, AnswersOwned, NEW step, queue # << >>,
           Acknowledge(Head(queue), step)
    PROVE  Advanced' \subseteq Advanced
<1> PICK w : w = Head(queue)
  OBVIOUS
<1>1. w = queue[1] /\ 1 \in DOMAIN queue /\ w \in Writes
  BY QueuedWrite, HeadTailProperties, EmptySeq DEF TypeOK
<1>2. CASE w.by = "nobody"
  BY <1>2 DEF Acknowledge, Advanced, InFlight
<1>3. CASE w.by # "nobody"
  <2>1. w.by \in OpKinds /\ w.acct \in Accounts /\ op[w.by][w.acct] = "wait"
    BY <1>1, <1>3 DEF AnswersOwned, At, Writes
  <2> SUFFICES ASSUME NEW h \in OpKinds, NEW b \in Accounts,
                      op'[h][b] \notin {"idle", "signIn", "create"}
               PROVE  op[h][b] \notin {"idle", "signIn", "create"}
    BY DEF Advanced, InFlight
  <2>2. CASE h = w.by /\ b = w.acct
    BY <2>1, <2>2
  <2>3. CASE h # w.by \/ b # w.acct
    BY <1>3, <2>1, <2>3 DEF Acknowledge, TypeOK
  <2>4. QED
    BY <2>2, <2>3
<1>4. QED
  BY <1>2, <1>3

LEMMA RestartBehind ==
    ASSUME Restart, prefs'.login => Ready'
    PROVE  UserBehindPages'
<1>1. Advanced' = {}
  BY DEF Restart, Advanced, InFlight
<1>2. QED
  BY <1>1 DEF Restart, UserBehindPages

\* Every step keeps a user behind the pages.
LEMMA BehindStep ==
    TypeOK /\ AnswersOwned /\ UserBehindPages /\ [Next]_vars => UserBehindPages'
<1> SUFFICES ASSUME TypeOK, AnswersOwned, UserBehindPages, [Next]_vars
             PROVE  UserBehindPages'
  OBVIOUS
<1> USE DEF OpKinds
<1>1. ASSUME Navigate PROVE UserBehindPages'
  <2>1. CASE page \in {"Verify", "Base", "Settings"}
    BY <1>1, <2>1, HadUser DEF Navigate, history, auth
  <2>2. CASE page \notin {"Verify", "Base", "Settings"}
    <3>1. Advanced' \subseteq Advanced
      BY <1>1 DEF Navigate, Advanced, InFlight
    <3>2. QED
      BY <1>1, <2>2, <3>1, OpensNothing DEF Navigate, history, auth, local
  <2>3. QED
    BY <2>1, <2>2
<1>2. ASSUME TapContinue PROVE UserBehindPages'
  BY <1>2, HadUser DEF TapContinue, auth
<1>3. ASSUME TapLoginEmpty PROVE UserBehindPages'
  <2>1. Advanced' \subseteq Advanced
    BY <1>3 DEF TapLoginEmpty, Advanced, InFlight
  <2>2. QED
    BY <1>3, <2>1, Steady DEF TapLoginEmpty, history, auth, local, screen
<1>4. ASSUME LogOut PROVE UserBehindPages'
  <2>1. ~prefs'.login /\ page' = "SignIn" /\ Advanced' = Advanced
    BY <1>4 DEF LogOut, Saved, Advanced, InFlight
  <2>2. CASE InFlight = {}
    BY <2>1, <2>2 DEF Advanced, UserBehindPages, LoggedOutQuietly
  <2>3. CASE InFlight # {}
    BY <1>4, <2>1, <2>3 DEF LogOut, UserBehindPages, Ready
  <2>4. QED
    BY <2>2, <2>3
<1>5. ASSUME TapErase PROVE UserBehindPages'
  BY <1>5, HadUser DEF TapErase, history, auth
<1>6. ASSUME SplashDone PROVE UserBehindPages'
  <2>1. CASE prefs.login
    BY <1>6, <2>1, HadUser DEF SplashDone, history, auth
  <2>2. CASE ~prefs.login
    <3>1. Advanced' = Advanced /\ page' = "SignIn"
      BY <1>6, <2>2 DEF SplashDone, Advanced, InFlight
    <3>2. QED
      BY <1>6, <2>2, <3>1 DEF SplashDone, UserBehindPages, Ready, LoggedOutQuietly, history, auth, local
  <2>3. QED
    BY <2>1, <2>2
<1>7. ASSUME SignOutRuns PROVE UserBehindPages'
  <2>1. Advanced' = Advanced
    BY <1>7 DEF SignOutRuns, Advanced, InFlight
  <2>2. QED
    BY <1>7, <2>1 DEF SignOutRuns, UserBehindPages, Ready, LoggedOutQuietly, history, local, screen
<1>8. ASSUME Flush PROVE UserBehindPages'
  <2>1. Advanced' \subseteq Advanced
    BY <1>8 DEF Flush, Advanced, InFlight
  <2>2. QED
    BY <1>8, <2>1, Steady DEF Flush, history, auth, local, screen
<1>9. ASSUME Crash PROVE UserBehindPages'
  BY <1>9, RestartBehind DEF Crash, Restart, UserBehindPages, Ready
<1>10. ASSUME CommitHead PROVE UserBehindPages'
  <2>1. Advanced' \subseteq Advanced
    BY <1>10, AnswerMoves DEF CommitHead
  <2>2. QED
    BY <1>10, <2>1, Steady DEF CommitHead, history, auth, local, screen
<1>11. ASSUME RefuseHead PROVE UserBehindPages'
  <2>1. Advanced' \subseteq Advanced
    BY <1>11, AnswerMoves DEF RefuseHead
  <2>2. QED
    BY <1>11, <2>1, Steady DEF RefuseHead, history, auth, local, screen
<1>12. ASSUME NEW a \in Accounts, TapSignUp(a) PROVE UserBehindPages'
  <2>1. Advanced' \subseteq Advanced
    BY <1>12, MovesOn DEF TapSignUp
  <2>2. QED
    BY <1>12, <2>1, OpensNothing DEF TapSignUp, history, auth, local, screen, Saved
<1>13. ASSUME NEW a \in Accounts, TapLogin(a) PROVE UserBehindPages'
  <2>1. Advanced' \subseteq Advanced
    BY <1>13, MovesOn DEF TapLogin
  <2>2. QED
    BY <1>13, <2>1, Steady DEF TapLogin, history, auth, local, screen
<1>14. ASSUME NEW a \in Accounts, TapGoogle(a) PROVE UserBehindPages'
  <2>1. Advanced' \subseteq Advanced
    BY <1>14, MovesOn DEF TapGoogle
  <2>2. QED
    BY <1>14, <2>1, Steady DEF TapGoogle, history, auth, local, screen
<1>15. ASSUME NEW a \in Accounts, TapEraseGoogle(a) PROVE UserBehindPages'
  <2>1. Advanced' \subseteq Advanced
    BY <1>15, MovesOn DEF TapEraseGoogle
  <2>2. QED
    BY <1>15, <2>1, Steady DEF TapEraseGoogle, history, auth, local, screen
<1>16. ASSUME NEW a \in Accounts, FollowLink(a) PROVE UserBehindPages'
  <2>1. Advanced' \subseteq Advanced
    BY <1>16 DEF FollowLink, Advanced, InFlight
  <2>2. QED
    BY <1>16, <2>1, Steady DEF FollowLink, history, auth, local, screen
<1>17. ASSUME NEW a \in Accounts, AnswerSignIn(a) PROVE UserBehindPages'
  BY <1>17, SignedIn DEF AnswerSignIn, SignsIn
<1>18. ASSUME NEW a \in Accounts, AnswerLoginDoc(a) PROVE UserBehindPages'
  <2>1. Advanced # {}
    BY <1>18, AdvancedStep DEF AnswerLoginDoc, At
  <2>2. QED
    BY <1>18, <2>1, HadUser DEF AnswerLoginDoc, history, auth, Welcome
<1>19. ASSUME NEW a \in Accounts, FailLogin(a) PROVE UserBehindPages'
  <2>1. Advanced' \subseteq Advanced
    BY <1>19, MovesOn DEF FailLogin
  <2>2. QED
    BY <1>19, <2>1, Steady DEF FailLogin, history, auth, local, screen
<1>20. ASSUME NEW a \in Accounts, AnswerGoogle(a) PROVE UserBehindPages'
  BY <1>20, SignedIn DEF AnswerGoogle, GoogleSignsIn, SignsIn
<1>21. ASSUME NEW a \in Accounts, AnswerGoogleDoc(a) PROVE UserBehindPages'
  <2>1. Advanced # {}
    BY <1>21, AdvancedStep DEF AnswerGoogleDoc, At
  <2>2. QED
    BY <1>21, <2>1, HadUser DEF AnswerGoogleDoc, history, auth, Welcome
<1>22. ASSUME NEW a \in Accounts, FinishGoogle(a) PROVE UserBehindPages'
  <2>1. Advanced # {}
    BY <1>22, AdvancedStep DEF FinishGoogle, At
  <2>2. QED
    BY <1>22, <2>1, HadUser DEF FinishGoogle, history, auth, Welcome
<1>23. ASSUME NEW a \in Accounts, FailGoogle(a) PROVE UserBehindPages'
  <2>1. Advanced' \subseteq Advanced
    BY <1>23, MovesOn DEF FailGoogle
  <2>2. QED
    BY <1>23, <2>1, Steady DEF FailGoogle, history, auth, local, screen
<1>24. ASSUME NEW a \in Accounts, AnswerCreate(a) PROVE UserBehindPages'
  BY <1>24, SignedIn DEF AnswerCreate, SignsIn
<1>25. ASSUME NEW a \in Accounts, FailCreate(a) PROVE UserBehindPages'
  <2>1. Advanced' \subseteq Advanced
    BY <1>25, MovesOn DEF FailCreate
  <2>2. QED
    BY <1>25, <2>1, Steady DEF FailCreate, history, auth, local, screen
<1>26. ASSUME NEW a \in Accounts, AnswerReload(a) PROVE UserBehindPages'
  <2>1. Advanced # {}
    BY <1>26, AdvancedStep DEF AnswerReload, At
  <2>2. QED
    BY <1>26, <2>1, HadUser DEF AnswerReload, history, auth
<1>27. ASSUME NEW a \in Accounts, FailReload(a) PROVE UserBehindPages'
  <2>1. Advanced' \subseteq Advanced
    BY <1>27, MovesOn DEF FailReload
  <2>2. QED
    BY <1>27, <2>1, Steady DEF FailReload, history, auth, local, screen
<1>28. ASSUME NEW a \in Accounts, AnswerReauth(a) PROVE UserBehindPages'
  <2>1. Advanced # {}
    BY <1>28, AdvancedStep DEF AnswerReauth, At
  <2>2. QED
    BY <1>28, <2>1, HadUser DEF AnswerReauth, history, auth
<1>29. ASSUME NEW a \in Accounts, AnswerDropUser(a) PROVE UserBehindPages'
  <2>1. excuse' = "deleted"
    BY <1>29 DEF AnswerDropUser, RetireUser
  <2>2. QED
    BY <2>1 DEF UserBehindPages, Ready
<1>30. ASSUME NEW a \in Accounts, FinishErase(a) PROVE UserBehindPages'
  <2>1. Advanced # {}
    BY <1>30, AdvancedStep DEF FinishErase, At
  <2>2. QED
    BY <1>30, <2>1, HadUser DEF FinishErase, history, auth
<1>31. ASSUME NEW a \in Accounts, FailErase(a) PROVE UserBehindPages'
  <2>1. Advanced' \subseteq Advanced
    BY <1>31, MovesOn DEF FailErase
  <2>2. QED
    BY <1>31, <2>1, Steady DEF FailErase, history, auth, local, screen
<1>32. ASSUME NEW a \in Accounts, AnswerEraseGoogle(a) PROVE UserBehindPages'
  BY <1>32, SignedIn DEF AnswerEraseGoogle, GoogleSignsIn, SignsIn
<1>33. ASSUME NEW a \in Accounts, FinishEraseGoogle(a) PROVE UserBehindPages'
  <2>1. excuse' = "deleted"
    BY <1>33 DEF FinishEraseGoogle, RetireUser
  <2>2. QED
    BY <2>1 DEF UserBehindPages, Ready
<1>34. ASSUME NEW a \in Accounts, FailEraseGoogle(a) PROVE UserBehindPages'
  <2>1. Advanced' \subseteq Advanced
    BY <1>34, MovesOn DEF FailEraseGoogle
  <2>2. QED
    BY <1>34, <2>1, Steady DEF FailEraseGoogle, history, auth, local, screen
<1>35. ASSUME NEW a \in Accounts, SaveToken(a) PROVE UserBehindPages'
  <2>1. Advanced' \subseteq Advanced
    BY <1>35 DEF SaveToken, Advanced, InFlight
  <2>2. QED
    BY <1>35, <2>1, Steady DEF SaveToken, history, auth, local, screen
<1>36. ASSUME NEW a \in Accounts, KilledAfterCreate(a) PROVE UserBehindPages'
  <2>1. user' # NoUser
    BY <1>36, NullAssumption DEF KilledAfterCreate
  <2>2. QED
    BY <1>36, <2>1, RestartBehind DEF KilledAfterCreate, Ready
<1>37. ASSUME NEW a \in Accounts, KilledAfterRetire(a) PROVE UserBehindPages'
  BY <1>37, RestartBehind DEF KilledAfterRetire, RetireUser, Ready
<1>38. CASE UNCHANGED vars
  BY <1>38 DEF vars, UserBehindPages, Ready, LoggedOutQuietly, Advanced, InFlight
<1>39. QED
  BY <1>1, <1>2, <1>3, <1>4, <1>5, <1>6, <1>7, <1>8, <1>9, <1>10,
     <1>11, <1>12, <1>13, <1>14, <1>15, <1>16, <1>17, <1>18, <1>19,
     <1>20, <1>21, <1>22, <1>23, <1>24, <1>25, <1>26, <1>27, <1>28,
     <1>29, <1>30, <1>31, <1>32, <1>33, <1>34, <1>35, <1>36, <1>37,
     <1>38
     DEF Next, UserActs, LoginStep, GoogleStep, SignUpStep, VerifyStep,
         EraseStep, EraseGoogleStep, Progress

\* Theorem 3.  A page or a handler behind the log-in has a user, but for the
\* three reasons that excuse names: UserBehindPages.
THEOREM BehindPages == Spec => []UserBehindPages
<1>1. Init => UserBehindPages
  BY DEF Init, UserBehindPages, Advanced, InFlight
<1>2. QED
  BY <1>1, TypeCorrect, AnswersReachTheirHandler, BehindStep, PTL DEF Spec
=============================================================================
