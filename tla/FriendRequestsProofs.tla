------------------------ MODULE FriendRequestsProofs ------------------------
(***************************************************************************)
(* What holds of FriendRequests for any number of users, of handlers per   *)
(* phone and of writes left behind by a crash, whatever events are added.  *)
(***************************************************************************)
EXTENDS FriendRequests, SequenceTheorems, WellFoundedInduction, TLAPS

-----------------------------------------------------------------------------
(***************************************************************************)
(* Lemmas about the operators of the model.                                *)
(***************************************************************************)
\* The document a handler writes first, and the other one, are two documents
\* of the two users.
LEMMA DocsOfHandler ==
    ASSUME NEW u \in Users, NEW x \in Users, NEW k \in WriteKinds
    PROVE  /\ FirstDoc(k, u, x) \in Users \X Users
           /\ SecondDoc(k, u, x) \in Users \X Users
           /\ {FirstDoc(k, u, x), SecondDoc(k, u, x)} = {<<u, x>>, <<x, u>>}
BY DEF FirstDoc, SecondDoc

\* What a handler hands to the Firestore client is a write.
LEMMA WriteIsMutation ==
    ASSUME NEW u \in Users, NEW s \in Slots, NEW k \in WriteKinds,
           NEW d \in Users \X Users
    PROVE  WriteTo(d, k, u, s) \in Mutations
BY DEF WriteTo, Mutations, WriteKinds, NewStatus, Statuses

\* The final state of every write handler is a state of the bloc.
LEMMA FinalStateType ==
    ASSUME NEW k \in WriteKinds, NEW ok \in BOOLEAN
    PROVE  FinalState(k, ok) \in BlocStates
BY DEF FinalState, WriteKinds, StatusLoaded, State, BlocStates

\* Orphaning the writes of a queue leaves a queue.
LEMMA OrphanedQueue ==
    ASSUME NEW q \in Seq(Mutations)
    PROVE  [i \in DOMAIN q |-> [q[i] EXCEPT !.slot = NoSlot]] \in Seq(Mutations)
<1>1. Len(q) \in Nat /\ DOMAIN q = 1 .. Len(q)
  BY LenProperties
<1>2. \A i \in 1 .. Len(q) : q[i] \in Mutations
  BY ElementOfSeq
<1>3. \A m \in Mutations : [m EXCEPT !.slot = NoSlot] \in Mutations
  BY DEF Mutations
<1>4. [i \in DOMAIN q |-> [q[i] EXCEPT !.slot = NoSlot]]
          \in [1 .. Len(q) -> Mutations]
  BY <1>1, <1>2, <1>3
<1>5. QED
  BY <1>1, <1>4, SeqDef

\* A non-empty set of natural numbers has a least element, and a non-empty
\* set of positions of a sequence a largest one.
LEMMA SmallestExists ==
    ASSUME NEW T \in SUBSET Nat, T # {}
    PROVE  \E t \in T : \A r \in T : t <= r
<1> DEFINE R == OpToRel(<, Nat)
<1>1. IsWellFoundedOn(R, T)
  BY NatLessThanWellFounded, IsWellFoundedOnSubset
<1>2. PICK t \in T : \A r \in T : ~ (<<r, t>> \in R)
  BY <1>1, WFMin, Zenon
<1>3. \A r \in T : ~ (r < t)
  BY <1>2 DEF OpToRel
<1>4. QED
  BY <1>3

LEMMA LargestExists ==
    ASSUME NEW n \in Nat, NEW S \in SUBSET (1 .. n), S # {}
    PROVE  \E i \in S : \A j \in S : j <= i
<1> DEFINE T == {n - i : i \in S}
<1>0. \A i \in S : i \in Nat /\ i <= n
  OBVIOUS
<1>1. T \in SUBSET Nat /\ T # {}
  <2>1. \A i \in S : n - i \in Nat
    BY <1>0
  <2>2. QED
    BY <2>1
<1>2. PICK t \in T : \A r \in T : t <= r
  BY <1>1, SmallestExists
<1>3. PICK i \in S : t = n - i
  BY <1>2
<1>4. \A j \in S : n - i <= n - j
  BY <1>2, <1>3
<1>5. \A j \in S : j <= i
  BY <1>0, <1>4
<1>6. QED
  BY <1>5

-----------------------------------------------------------------------------
(***************************************************************************)
(* Type correctness.                                                       *)
(***************************************************************************)
LEMMA InitTypeOK == Init => TypeOK
BY EmptySeq DEF Init, TypeOK, Handlers, State, BlocStates

\* A handler that is not idle is a record of HandlerStates.
LEMMA RunningHandler ==
    ASSUME TypeOK, NEW u \in Users, NEW s \in Slots, handler[u][s].pc # "idle"
    PROVE  handler[u][s] \in HandlerStates
BY DEF TypeOK, Idle

LEMMA AddTypeOK ==
    ASSUME TypeOK, NEW u \in Users, NEW s \in Slots, AddEvent(u, s)
    PROVE  TypeOK'
<1> USE DEF TypeOK, stored, history, Handlers
<1>1. ASSUME NEW k \in WriteKinds, NEW x \in Users, AddWrite(u, s, k, x)
      PROVE  TypeOK'
  <2>1. WriteTo(FirstDoc(k, u, x), k, u, s) \in Mutations
    BY DocsOfHandler, WriteIsMutation
  <2>2. queue' \in [Users -> Seq(Mutations)]
    BY <1>1, <2>1, AppendProperties DEF AddWrite, Enqueue
  <2>3. Start(k, x, "first") \in HandlerStates
    BY DEF Start, HandlerStates, WriterStates, Run
  <2>4. handler' \in [Users -> [Slots -> HandlerStates \cup {Idle}]]
    BY <1>1, <2>3 DEF AddWrite
  <2>5. bloc' \in [Users -> BlocStates]
    BY <1>1 DEF AddWrite, Emit, WriteKinds, State, BlocStates
  <2>6. suspect' \subseteq SUBSET Users /\ clean' \subseteq Handlers
    <3>1. /\ suspect' = suspect \/ suspect' = suspect \cup {{u, x}}
          /\ clean' \subseteq clean \cup {<<u, s>>}
      BY <1>1 DEF AddWrite
    <3>2. {u, x} \in SUBSET Users
      OBVIOUS
    <3>3. suspect' \subseteq SUBSET Users
      BY <3>1, <3>2
    <3>4. clean' \subseteq Handlers
      BY <3>1
    <3>5. QED
      BY <3>3, <3>4
  <2>7. QED
    BY <1>1, <2>2, <2>4, <2>5, <2>6 DEF AddWrite
<1>2. ASSUME NEW x \in Users, AddCheck(u, s, x)
      PROVE  TypeOK'
  <2>1. Start("check", x, "get") \in HandlerStates
    BY DEF Start, HandlerStates, ReaderStates, Run
  <2>2. QED
    BY <1>2, <2>1 DEF AddCheck, Emit, State, BlocStates
<1>3. CASE AddLoad(u, s)
  <2>1. Start("load", u, "pending") \in HandlerStates
    BY DEF Start, HandlerStates, ReaderStates, Run
  <2>2. QED
    BY <1>3, <2>1 DEF AddLoad
<1>4. QED
  BY <1>1, <1>2, <1>3 DEF AddEvent

LEMMA ServerTypeOK ==
    ASSUME TypeOK, NEW u \in Users, Server(u)
    PROVE  TypeOK'
<1> USE DEF TypeOK, stored, history, Handlers
<1> DEFINE m == Head(queue[u])
<1>1. queue[u] # << >> /\ queue[u] \in Seq(Mutations)
  BY DEF Server, CommitHead, RefuseHead
<1>2. m \in Mutations /\ Tail(queue[u]) \in Seq(Mutations)
  BY <1>1, HeadTailProperties
<1>3. ASSUME NEW ack \in {"ok", "err"}, Acknowledge(u, m, ack)
      PROVE  handler' \in [Users -> [Slots -> HandlerStates \cup {Idle}]]
  <2>1. CASE m.slot = NoSlot
    BY <1>3, <2>1 DEF Acknowledge
  <2>2. CASE m.slot # NoSlot
    <3>1. <<u, m.slot>> \in Handlers
      BY <1>2, <2>2 DEF Mutations
    <3>2. [handler[u][m.slot] EXCEPT !.ack = ack] \in HandlerStates \cup {Idle}
      <4>1. handler[u][m.slot] \in HandlerStates \cup {Idle}
        BY <3>1
      <4>2. \A h \in HandlerStates : [h EXCEPT !.ack = ack] \in HandlerStates
        BY DEF HandlerStates, WriterStates, ReaderStates, Run
      <4>3. [Idle EXCEPT !.ack = ack] = Idle
        BY DEF Idle
      <4>4. QED
        BY <4>1, <4>2, <4>3
    <3>3. handler' = [handler EXCEPT ![u][m.slot].ack = ack]
      BY <1>3, <2>2 DEF Acknowledge
    <3>4. QED
      BY <3>1, <3>2, <3>3
  <2>3. QED
    BY <2>1, <2>2
<1>4. CASE CommitHead(u)
  <2>1. m.doc \in Users \X Users
    BY <1>2 DEF Mutations
  <2>2. m.op = "set" \/ req[m.doc] \in Docs
    BY <1>4, <2>1 DEF CommitHead, Exists
  <2>3. Applied(m, req[m.doc]) \in Docs
    BY <1>2, <2>2 DEF Applied, Mutations, Docs
  <2>4. req' \in [Users \X Users -> Docs \cup {NoDoc}]
    BY <1>4, <2>1, <2>3 DEF CommitHead
  <2>5. QED
    BY <1>2, <1>3, <1>4, <2>4 DEF CommitHead
<1>5. CASE RefuseHead(u)
  BY <1>2, <1>3, <1>5 DEF RefuseHead
<1>6. QED
  BY <1>4, <1>5 DEF Server

\* A handler that writes is a writer, one that reads a reader.
LEMMA WriterType ==
    ASSUME TypeOK, NEW u \in Users, NEW s \in Slots, Writing(u, s)
    PROVE  handler[u][s] \in WriterStates
BY RunningHandler DEF Writing, HandlerStates, ReaderStates, Run

LEMMA ReaderType ==
    ASSUME TypeOK, NEW u \in Users, NEW s \in Slots,
           handler[u][s].pc \in {"get", "pending", "incoming"}
    PROVE  handler[u][s] \in ReaderStates
BY RunningHandler DEF HandlerStates, WriterStates, Run

LEMMA WriterStepTypeOK ==
    ASSUME TypeOK, NEW u \in Users, NEW s \in Slots,
           WriteSecond(u, s) \/ StartTxn(u, s) \/ CommitTxn(u, s) \/ FailTxn(u, s)
    PROVE  TypeOK'
<1> USE DEF TypeOK, stored, history, Handlers
<1> DEFINE h == handler[u][s]
<1>1. h \in WriterStates
  BY WriterType DEF WriteSecond, StartTxn, CommitTxn, FailTxn, Writing
<1>2. h.kind \in WriteKinds /\ h.peer \in Users
  BY <1>1 DEF WriterStates, Run
<1>3. ASSUME NEW pc \in {"first", "second", "txn"}, NEW ack \in {"wait", "ok", "err"},
             Advance(u, s, pc, ack)
      PROVE  handler' \in [Users -> [Slots -> HandlerStates \cup {Idle}]]
  <2>1. [h EXCEPT !.pc = pc, !.ack = ack] \in HandlerStates
    BY <1>1 DEF HandlerStates, WriterStates, Run
  <2>2. QED
    BY <1>3, <2>1 DEF Advance
<1>4. CASE WriteSecond(u, s)
  <2>1. WriteTo(SecondDoc(h.kind, u, h.peer), h.kind, u, s) \in Mutations
    BY <1>2, DocsOfHandler, WriteIsMutation
  <2>2. queue' \in [Users -> Seq(Mutations)]
    BY <1>4, <2>1, AppendProperties DEF WriteSecond, Enqueue
  <2>3. QED
    BY <1>3, <1>4, <2>2 DEF WriteSecond
<1>5. CASE StartTxn(u, s)
  BY <1>3, <1>5 DEF StartTxn
<1>6. CASE CommitTxn(u, s)
  <2>1. friends' \subseteq friends \cup {<<u, h.peer>>, <<h.peer, u>>}
    BY <1>6 DEF CommitTxn
  <2>2. friends' \subseteq Users \X Users
    BY <1>2, <2>1
  <2>3. QED
    BY <1>3, <1>6, <2>2 DEF CommitTxn
<1>7. CASE FailTxn(u, s)
  BY <1>3, <1>7 DEF FailTxn
<1>8. QED
  BY <1>4, <1>5, <1>6, <1>7

LEMMA FinishWriteTypeOK ==
    ASSUME TypeOK, NEW u \in Users, NEW s \in Slots, FinishWrite(u, s)
    PROVE  TypeOK'
<1> USE DEF TypeOK, stored, history, Handlers
<1> DEFINE h == handler[u][s]
<1>1. h.kind \in WriteKinds /\ h.peer \in Users
  BY WriterType DEF FinishWrite, WriterStates, Run
<1>2. bloc' = [bloc EXCEPT ![u] = FinalState(h.kind, h.ack = "ok")]
  BY DEF FinishWrite, Emit
<1>3. bloc' \in [Users -> BlocStates]
  BY <1>1, <1>2, FinalStateType
<1>4. suspect' \subseteq suspect \cup {{u, h.peer}}
  BY DEF FinishWrite
<1>5. {u, h.peer} \in SUBSET Users
  BY <1>1
<1>6. suspect' \subseteq SUBSET Users
  BY <1>4, <1>5
<1>7. QED
  BY <1>3, <1>6 DEF FinishWrite

\* What a phone sees of a document is one of the statuses, or none.
LEMMA SeenStatusType ==
    ASSUME TypeOK, NEW u \in Users, NEW d \in Users \X Users
    PROVE  SeenStatus(u, d) \in Statuses \cup {"none"}
<1>1. CASE Overlay(u, d) = {}
  BY <1>1 DEF SeenStatus, Exists, TypeOK, Docs
<1>2. CASE Overlay(u, d) # {}
  <2>1. queue[u] \in Seq(Mutations)
    BY DEF TypeOK
  <2>2. Overlay(u, d) \subseteq 1 .. Len(queue[u]) /\ Len(queue[u]) \in Nat
    BY <2>1, LenProperties DEF Overlay
  <2>3. PICK i \in Overlay(u, d) : \A j \in Overlay(u, d) : j <= i
    BY <1>2, <2>2, LargestExists
  <2>4. Latest(Overlay(u, d)) \in 1 .. Len(queue[u])
    BY <2>2, <2>3 DEF Latest
  <2>5. queue[u][Latest(Overlay(u, d))] \in Mutations
    BY <2>1, <2>4, ElementOfSeq
  <2>6. QED
    BY <1>2, <2>5 DEF SeenStatus, Mutations
<1>3. QED
  BY <1>1, <1>2

LEMMA ReaderStepTypeOK ==
    ASSUME TypeOK, NEW u \in Users, NEW s \in Slots,
           \/ AnswerCheck(u, s) \/ AnswerPending(u, s) \/ AnswerIncoming(u, s)
           \/ FailRead(u, s) \/ FinishRead(u, s)
    PROVE  TypeOK'
<1> USE DEF TypeOK, stored, history, Handlers
<1> DEFINE h == handler[u][s]
<1>1. h \in ReaderStates
  BY ReaderType DEF AnswerCheck, AnswerPending, AnswerIncoming, FailRead, FinishRead
<1>2. CASE AnswerCheck(u, s)
  <2> DEFINE seen == SeenStatus(u, <<h.peer, u>>)
  <2>1. h.peer \in Users
    BY <1>1 DEF ReaderStates, Run
  <2>2. seen \in Statuses \cup {"none"}
    BY <2>1, SeenStatusType
  <2>3. [h EXCEPT !.ack = "ok", !.res = seen] \in HandlerStates
    BY <1>1, <2>2 DEF HandlerStates, ReaderStates, Run
  <2>4. QED
    BY <1>2, <2>3 DEF AnswerCheck
<1>3. CASE AnswerPending(u, s)
  <2>1. PICK blocked \in SUBSET Users :
            handler' = [handler EXCEPT ![u][s] = [@ EXCEPT
                !.pc = "incoming", !.list = PendingOf(u) \ blocked]]
    BY <1>3 DEF AnswerPending
  <2>2. [h EXCEPT !.pc = "incoming", !.list = PendingOf(u) \ blocked] \in HandlerStates
    BY <1>1, <1>3 DEF AnswerPending, PendingOf, HandlerStates, ReaderStates, Run
  <2>3. QED
    BY <1>3, <2>1, <2>2 DEF AnswerPending
<1>4. CASE AnswerIncoming(u, s)
  <2> DEFINE rows == FirstN(h.list, Cardinality(IncomingOf(u)))
  <2>1. rows \in SUBSET Users
    BY <1>1 DEF FirstN, ReaderStates, Run
  <2>2. [h EXCEPT !.ack = "ok", !.list = rows] \in HandlerStates
    BY <1>1, <2>1 DEF HandlerStates, ReaderStates, Run
  <2>3. QED
    BY <1>4, <2>2 DEF AnswerIncoming
<1>5. CASE FailRead(u, s)
  <2>1. [h EXCEPT !.pc = h.pc, !.ack = "err"] \in HandlerStates
    BY <1>1 DEF HandlerStates, ReaderStates, Run
  <2>2. QED
    BY <1>5, <2>1 DEF FailRead, Advance
<1>6. CASE FinishRead(u, s)
  <2>1. h.list \in SUBSET Users
    BY <1>1 DEF ReaderStates, Run
  <2>2. /\ CheckResult(h.res) \in BlocStates /\ UsersShown(h.list) \in BlocStates
        /\ State("Error") \in BlocStates
    BY <2>1 DEF CheckResult, UsersShown, StatusLoaded, State, BlocStates
  <2>3. \E st \in BlocStates : bloc' = [bloc EXCEPT ![u] = st] \/ bloc' = bloc
    BY <1>6, <2>2 DEF FinishRead, Emit
  <2>4. bloc' \in [Users -> BlocStates]
    BY <2>3
  <2>5. QED
    BY <1>6, <2>4 DEF FinishRead
<1>7. QED
  BY <1>2, <1>3, <1>4, <1>5, <1>6

LEMMA CrashTypeOK ==
    ASSUME TypeOK, NEW u \in Users, Crash(u)
    PROVE  TypeOK'
<1> USE DEF TypeOK, stored, history, Handlers
<1>1. queue' \in [Users -> Seq(Mutations)]
  BY OrphanedQueue DEF Crash
<1>2. Interrupted(u) \subseteq SUBSET Users
  <2>1. \A s \in Slots : Writing(u, s) => handler[u][s].peer \in Users
    BY WriterType DEF WriterStates, Run
  <2>2. SUFFICES ASSUME NEW p \in Interrupted(u)
                 PROVE  p \in SUBSET Users
    OBVIOUS
  <2>3. PICK s \in Slots : Writing(u, s) /\ p = {u, handler[u][s].peer}
    BY DEF Interrupted
  <2>4. QED
    BY <2>1, <2>3
<1>3. bloc' \in [Users -> BlocStates]
  BY DEF Crash, Emit, State, BlocStates
<1>4. suspect' \subseteq SUBSET Users
  BY <1>2 DEF Crash
<1>5. QED
  BY <1>1, <1>3, <1>4 DEF Crash

\* Theorem 1.  The variables keep their types, for any users, slots and bound.
THEOREM TypeCorrect == Spec => []TypeOK
<1>1. TypeOK /\ [Next]_vars => TypeOK'
  <2> SUFFICES ASSUME TypeOK, [Next]_vars
               PROVE  TypeOK'
    OBVIOUS
  <2>1. ASSUME NEW u \in Users, Server(u) \/ Crash(u)
        PROVE  TypeOK'
    BY <2>1, ServerTypeOK, CrashTypeOK
  <2>2. ASSUME NEW u \in Users, NEW s \in Slots, AddEvent(u, s)
        PROVE  TypeOK'
    BY <2>2, AddTypeOK
  <2>3. ASSUME NEW u \in Users, NEW s \in Slots, Progress(u, s)
        PROVE  TypeOK'
    BY <2>3, WriterStepTypeOK, FinishWriteTypeOK, ReaderStepTypeOK DEF Progress
  <2>4. CASE UNCHANGED vars
    BY <2>4 DEF TypeOK, vars
  <2>5. QED
    BY <2>1, <2>2, <2>3, <2>4 DEF Next
<1>2. QED
  BY <1>1, InitTypeOK, PTL DEF Spec

-----------------------------------------------------------------------------
(***************************************************************************)
(* Every queued write is the one its handler waits for.                    *)
(***************************************************************************)
\* A handler that waits for no write has none in the queue.
LEMMA NothingQueued ==
    ASSUME TypeOK, WritesOwned, NEW u \in Users, NEW s \in Slots,
           handler[u][s].pc \notin {"first", "second"} \/ handler[u][s].ack # "wait"
    PROVE  \A i \in DOMAIN queue[u] : queue[u][i].slot # s
<1> SUFFICES ASSUME NEW i \in DOMAIN queue[u], queue[u][i].slot = s
             PROVE  FALSE
  OBVIOUS
<1>1. s # NoSlot
  BY NoSlotAssumption
<1>2. Expected(u, queue[u][i])
  BY <1>1 DEF WritesOwned
<1>3. QED
  BY <1>2 DEF Expected

\* Such a handler may take any step that leaves the queues alone.
LEMMA HandlerStepOwned ==
    ASSUME TypeOK, WritesOwned, NEW u \in Users, NEW s \in Slots, NEW h,
           \A i \in DOMAIN queue[u] : queue[u][i].slot # s,
           handler' = [handler EXCEPT ![u][s] = h], UNCHANGED queue
    PROVE  WritesOwned'
<1> SUFFICES ASSUME NEW v \in Users, NEW i \in DOMAIN queue[v], NEW j \in DOMAIN queue[v],
                    queue[v][i].slot # NoSlot
             PROVE  /\ Expected(v, queue[v][i])'
                    /\ queue[v][j].slot = queue[v][i].slot => j = i
  BY DEF WritesOwned
<1> DEFINE m == queue[v][i]
<1>1. Expected(v, m) /\ (queue[v][j].slot = m.slot => j = i)
  BY DEF WritesOwned
<1>2. m \in Mutations /\ m.slot \in Slots
  <2>1. queue[v] \in Seq(Mutations)
    BY DEF TypeOK
  <2>2. m \in Mutations
    BY <2>1, LenProperties, ElementOfSeq
  <2>3. QED
    BY <2>2 DEF Mutations
<1>3. v # u \/ m.slot # s
  OBVIOUS
<1>4. handler'[v][m.slot] = handler[v][m.slot]
  BY <1>2, <1>3 DEF TypeOK
<1>5. QED
  BY <1>1, <1>4 DEF Expected, CurrentDoc

\* It may also append the write it then waits for.
LEMMA AppendOwned ==
    ASSUME TypeOK, WritesOwned, NEW u \in Users, NEW s \in Slots, NEW h \in WriterStates,
           NEW m \in Mutations,
           \A i \in DOMAIN queue[u] : queue[u][i].slot # s,
           handler' = [handler EXCEPT ![u][s] = h], Enqueue(u, m),
           m.slot = s, Expected(u, m)'
    PROVE  WritesOwned'
<1> DEFINE q == queue[u]
           n == Len(queue[u])
<1>1. q \in Seq(Mutations) /\ n \in Nat /\ DOMAIN q = 1 .. n
  BY LenProperties DEF TypeOK
<1>2. /\ queue'[u] = Append(q, m) /\ DOMAIN queue'[u] = 1 .. n + 1
      /\ \A i \in 1 .. n : queue'[u][i] = q[i]
      /\ queue'[u][n + 1] = m
  BY <1>1, AppendProperties, LenProperties DEF Enqueue, TypeOK
<1>3. \A v \in Users \ {u} : queue'[v] = queue[v]
  BY DEF Enqueue, TypeOK
<1> SUFFICES ASSUME NEW v \in Users, NEW i \in DOMAIN queue'[v], NEW j \in DOMAIN queue'[v],
                    queue'[v][i].slot # NoSlot
             PROVE  /\ Expected(v, queue[v][i])'
                    /\ queue'[v][j].slot = queue'[v][i].slot => j = i
  BY DEF WritesOwned
<1>4. ASSUME NEW w \in Users, NEW e \in Mutations, e.slot \in Slots, Expected(w, e),
             w # u \/ e.slot # s
      PROVE  Expected(w, e)'
  <2>1. handler'[w][e.slot] = handler[w][e.slot]
    BY <1>4 DEF TypeOK
  <2>2. QED
    BY <1>4, <2>1 DEF Expected, CurrentDoc
<1>5. CASE v # u
  <2>1. queue[v][i] \in Mutations
    BY <1>3, <1>5, LenProperties, ElementOfSeq DEF TypeOK
  <2>2. Expected(v, queue[v][i]) /\ (queue[v][j].slot = queue[v][i].slot => j = i)
    BY <1>3, <1>5 DEF WritesOwned
  <2>3. QED
    BY <1>3, <1>4, <1>5, <2>1, <2>2 DEF Mutations
<1>6. CASE v = u /\ i \in 1 .. n
  <2>1. queue[u][i] \in Mutations /\ queue'[u][i] = queue[u][i]
    BY <1>1, <1>2, <1>6, ElementOfSeq
  <2>2. Expected(u, queue[u][i]) /\ queue[u][i].slot # s
    BY <1>1, <1>6, <2>1 DEF WritesOwned
  <2>3. queue'[u][j].slot = queue'[u][i].slot => j = i
    BY <1>1, <1>2, <1>6, <2>1, <2>2 DEF WritesOwned
  <2>4. QED
    BY <1>4, <1>6, <2>1, <2>2, <2>3 DEF Mutations
<1>7. CASE v = u /\ i = n + 1
  BY <1>1, <1>2, <1>7
<1>8. QED
  BY <1>1, <1>2, <1>5, <1>6, <1>7

\* The server takes the head of a queue and answers the handler it belongs to.
LEMMA ServerOwned ==
    ASSUME TypeOK, WritesOwned, NEW u \in Users, NEW ack,
           queue[u] # << >>, Acknowledge(u, Head(queue[u]), ack),
           queue' = [queue EXCEPT ![u] = Tail(@)]
    PROVE  WritesOwned'
<1> DEFINE q == queue[u]
           n == Len(queue[u])
<1>1. q \in Seq(Mutations) /\ n \in Nat /\ n > 0 /\ DOMAIN q = 1 .. n
  BY LenProperties, EmptySeq DEF TypeOK
<1>2. /\ Head(q) = q[1] /\ DOMAIN queue'[u] = 1 .. n - 1
      /\ \A i \in 1 .. n - 1 : queue'[u][i] = q[i + 1]
  BY <1>1, HeadTailProperties, LenProperties DEF TypeOK
<1>3. \A v \in Users \ {u} : queue'[v] = queue[v]
  BY DEF TypeOK
<1> SUFFICES ASSUME NEW v \in Users, NEW i \in DOMAIN queue'[v], NEW j \in DOMAIN queue'[v],
                    queue'[v][i].slot # NoSlot
             PROVE  /\ Expected(v, queue[v][i])'
                    /\ queue'[v][j].slot = queue'[v][i].slot => j = i
  BY DEF WritesOwned
<1>4. ASSUME NEW w \in Users, NEW e \in Mutations, e.slot \in Slots, Expected(w, e),
             w # u \/ e.slot # Head(q).slot
      PROVE  Expected(w, e)'
  <2>1. handler'[w][e.slot] = handler[w][e.slot]
    BY <1>4 DEF TypeOK, Acknowledge
  <2>2. QED
    BY <1>4, <2>1 DEF Expected, CurrentDoc
<1>5. CASE v # u
  <2>1. queue[v][i] \in Mutations
    BY <1>3, <1>5, LenProperties, ElementOfSeq DEF TypeOK
  <2>2. Expected(v, queue[v][i]) /\ (queue[v][j].slot = queue[v][i].slot => j = i)
    BY <1>3, <1>5 DEF WritesOwned
  <2>3. QED
    BY <1>3, <1>4, <1>5, <2>1, <2>2 DEF Mutations
<1>6. CASE v = u
  <2>1. /\ i + 1 \in 1 .. n /\ j + 1 \in 1 .. n /\ 1 \in 1 .. n /\ i + 1 # 1
        /\ queue'[u][i] = q[i + 1] /\ queue'[u][j] = q[j + 1]
    BY <1>1, <1>2, <1>6
  <2>2. q[i + 1] \in Mutations
    BY <1>1, <2>1, ElementOfSeq
  <2>3. /\ Expected(u, q[i + 1])
        /\ q[j + 1].slot = q[i + 1].slot => j + 1 = i + 1
        /\ q[1].slot = q[i + 1].slot => 1 = i + 1
    BY <1>1, <1>6, <2>1 DEF WritesOwned
  <2>4. QED
    BY <1>1, <1>2, <1>4, <1>6, <2>1, <2>2, <2>3 DEF Mutations
<1>7. QED
  BY <1>5, <1>6

\* After a crash no handler of the phone waits and no write has an owner.
LEMMA CrashOwned ==
    ASSUME TypeOK, WritesOwned, NEW u \in Users, Crash(u)
    PROVE  WritesOwned'
<1> SUFFICES ASSUME NEW v \in Users, NEW i \in DOMAIN queue'[v], NEW j \in DOMAIN queue'[v],
                    queue'[v][i].slot # NoSlot
             PROVE  /\ Expected(v, queue[v][i])'
                    /\ queue'[v][j].slot = queue'[v][i].slot => j = i
  BY DEF WritesOwned
<1>1. CASE v = u
  <2>1. queue[u] \in Seq(Mutations)
    BY DEF TypeOK
  <2>2. i \in DOMAIN queue[u]
        /\ queue'[u][i] = [queue[u][i] EXCEPT !.slot = NoSlot]
    BY <1>1 DEF Crash, TypeOK
  <2>3. queue[u][i] \in Mutations
    BY <2>1, <2>2, LenProperties, ElementOfSeq
  <2>4. QED
    BY <1>1, <2>2, <2>3 DEF Mutations
<1>2. CASE v # u
  <2>1. queue'[v] = queue[v] /\ handler'[v] = handler[v]
    BY <1>2 DEF Crash, TypeOK
  <2> PICK m : m = queue[v][i]
    OBVIOUS
  <2>2. /\ queue'[v][i] = m /\ queue'[v][j] = queue[v][j] /\ m.slot # NoSlot
        /\ i \in DOMAIN queue[v] /\ j \in DOMAIN queue[v]
    BY <2>1
  <2>3. Expected(v, m) /\ (queue[v][j].slot = m.slot => j = i)
    BY <2>2 DEF WritesOwned
  <2>4. Expected(v, m)'
    BY <2>1, <2>3 DEF Expected, CurrentDoc
  <2>5. Expected(v, queue[v][i])'
    BY <2>2, <2>4 DEF Expected, CurrentDoc
  <2>6. QED
    BY <2>2, <2>3, <2>5
<1>3. QED
  BY <1>1, <1>2

\* Every step keeps WritesOwned.
LEMMA AddOwned ==
    ASSUME TypeOK, WritesOwned, NEW u \in Users, NEW s \in Slots, AddEvent(u, s)
    PROVE  WritesOwned'
<1>1. handler[u][s] = Idle
  BY DEF AddEvent, AddWrite, AddCheck, AddLoad
<1>2. \A i \in DOMAIN queue[u] : queue[u][i].slot # s
  BY <1>1, NothingQueued DEF Idle
<1>3. ASSUME NEW k \in WriteKinds, NEW x \in Users, AddWrite(u, s, k, x)
      PROVE  WritesOwned'
  <2> DEFINE m == WriteTo(FirstDoc(k, u, x), k, u, s)
  <2>1. m \in Mutations /\ m.slot = s
    BY DocsOfHandler, WriteIsMutation DEF WriteTo
  <2>2. Start(k, x, "first") \in WriterStates
    BY DEF Start, WriterStates, Run
  <2>3. handler' = [handler EXCEPT ![u][s] = Start(k, x, "first")]
    BY <1>3 DEF AddWrite
  <2>4. handler'[u][s] = Start(k, x, "first")
    BY <2>3 DEF TypeOK
  <2>5. Expected(u, m)'
    BY <2>1, <2>4 DEF Expected, CurrentDoc, Start, WriteTo
  <2>6. Enqueue(u, m)
    BY <1>3 DEF AddWrite
  <2>7. QED
    BY <1>2, <2>1, <2>2, <2>3, <2>5, <2>6, AppendOwned
<1>4. ASSUME NEW x \in Users, AddCheck(u, s, x)
      PROVE  WritesOwned'
  BY <1>2, <1>4, HandlerStepOwned DEF AddCheck
<1>5. CASE AddLoad(u, s)
  BY <1>2, <1>5, HandlerStepOwned DEF AddLoad
<1>6. QED
  BY <1>3, <1>4, <1>5 DEF AddEvent

LEMMA ProgressOwned ==
    ASSUME TypeOK, WritesOwned, NEW u \in Users, NEW s \in Slots, Progress(u, s)
    PROVE  WritesOwned'
<1> DEFINE h == handler[u][s]
<1>1. h.pc \notin {"first", "second"} \/ h.ack # "wait"
  BY DEF Progress, WriteSecond, StartTxn, CommitTxn, FailTxn, FinishWrite,
         AnswerCheck, AnswerPending, AnswerIncoming, FailRead, FinishRead
<1>2. \A i \in DOMAIN queue[u] : queue[u][i].slot # s
  BY <1>1, NothingQueued
<1>3. CASE WriteSecond(u, s)
  <2> DEFINE g == [h EXCEPT !.pc = "second", !.ack = "wait"]
  <2>1. h \in WriterStates
    BY <1>3, WriterType DEF WriteSecond, Writing
  <2>2. PICK m \in Mutations : m = WriteTo(SecondDoc(h.kind, u, h.peer), h.kind, u, s)
    BY <2>1, DocsOfHandler, WriteIsMutation DEF WriterStates, Run
  <2>3. /\ g \in WriterStates /\ g.pc = "second" /\ g.ack = "wait"
        /\ g.kind = h.kind /\ g.peer = h.peer
    BY <2>1 DEF WriterStates, Run
  <2>4. handler' = [handler EXCEPT ![u][s] = g]
    BY <1>3 DEF WriteSecond, Advance
  <2>5. handler'[u][s] = g
    BY <2>4 DEF TypeOK
  <2>6. Expected(u, m)'
    BY <2>2, <2>3, <2>5 DEF Expected, CurrentDoc, WriteTo
  <2>7. Enqueue(u, m)
    BY <1>3, <2>2 DEF WriteSecond
  <2>8. m.slot = s
    BY <2>2 DEF WriteTo
  <2>9. QED
    BY <1>2, <2>8, <2>3, <2>4, <2>6, <2>7, AppendOwned
<1>4. ASSUME ~ WriteSecond(u, s)
      PROVE  WritesOwned'
  <2>1. UNCHANGED queue
    BY <1>4 DEF Progress, StartTxn, CommitTxn, FailTxn, FinishWrite, stored,
         AnswerCheck, AnswerPending, AnswerIncoming, FailRead, FinishRead
  <2>2. PICK g : handler' = [handler EXCEPT ![u][s] = g]
    BY <1>4 DEF Progress, StartTxn, CommitTxn, FailTxn, FinishWrite, Advance,
         AnswerCheck, AnswerPending, AnswerIncoming, FailRead, FinishRead
  <2>3. QED
    BY <1>2, <2>1, <2>2, HandlerStepOwned
<1>5. QED
  BY <1>3, <1>4

LEMMA OwnedStep == TypeOK /\ WritesOwned /\ [Next]_vars => WritesOwned'
<1> SUFFICES ASSUME TypeOK, WritesOwned, [Next]_vars
             PROVE  WritesOwned'
  OBVIOUS
<1>1. ASSUME NEW u \in Users, Server(u)
      PROVE  WritesOwned'
  BY <1>1, ServerOwned DEF Server, CommitHead, RefuseHead
<1>2. ASSUME NEW u \in Users, Crash(u)
      PROVE  WritesOwned'
  BY <1>2, CrashOwned
<1>3. ASSUME NEW u \in Users, NEW s \in Slots, AddEvent(u, s) \/ Progress(u, s)
      PROVE  WritesOwned'
  BY <1>3, AddOwned, ProgressOwned
<1>4. CASE UNCHANGED vars
  <2>1. handler' = handler /\ queue' = queue
    BY <1>4 DEF vars
  <2>2. ASSUME NEW u \in Users, NEW m, Expected(u, m) PROVE Expected(u, m)'
    BY <2>1, <2>2 DEF Expected, CurrentDoc
  <2> SUFFICES ASSUME NEW u \in Users, NEW i \in DOMAIN queue[u],
                      NEW j \in DOMAIN queue[u], queue[u][i].slot # NoSlot
               PROVE  /\ Expected(u, queue[u][i])'
                      /\ queue[u][j].slot = queue[u][i].slot => j = i
    BY <2>1 DEF WritesOwned
  <2>3. Expected(u, queue[u][i]) /\ (queue[u][j].slot = queue[u][i].slot => j = i)
    BY DEF WritesOwned
  <2>4. QED
    BY <2>1, <2>3 DEF Expected, CurrentDoc
<1>5. QED
  BY <1>1, <1>2, <1>3, <1>4 DEF Next

\* Theorem 2.  An answer of the server reaches only the handler that waits for
\* it, also after restarts.
THEOREM AnswersReachTheirHandler == Spec => []WritesOwned
<1>1. Init => WritesOwned
  BY DEF Init, WritesOwned
<1>2. QED
  BY <1>1, OwnedStep, TypeCorrect, PTL DEF Spec

-----------------------------------------------------------------------------
(***************************************************************************)
(* Friends have requests.                                                  *)
(***************************************************************************)
\* Only the server changes the request documents.
LEMMA RequestsChange ==
    ASSUME [Next]_vars, req' # req
    PROVE  \E u \in Users : CommitHead(u)
<1>1. ~ UNCHANGED vars
  BY DEF vars
<1>2. ASSUME NEW u \in Users, NEW s \in Slots, AddEvent(u, s) \/ Progress(u, s)
      PROVE  FALSE
  BY <1>2 DEF AddEvent, AddWrite, AddCheck, AddLoad, Progress, WriteSecond, StartTxn,
       CommitTxn, FailTxn, FinishWrite, AnswerCheck, AnswerPending, AnswerIncoming,
       FailRead, FinishRead, stored
<1>3. ASSUME NEW u \in Users, RefuseHead(u) \/ Crash(u)
      PROVE  FALSE
  BY <1>3 DEF RefuseHead, Crash, stored
<1>4. QED
  BY <1>1, <1>2, <1>3 DEF Next, Server

\* No step deletes a request document.
LEMMA ExistsStays ==
    ASSUME TypeOK, [Next]_vars, NEW d \in Users \X Users, Exists(d)
    PROVE  Exists(d)'
<1>1. CASE UNCHANGED req
  BY <1>1 DEF Exists
<1>2. ASSUME NEW u \in Users, CommitHead(u)
      PROVE  Exists(d)'
  <2> DEFINE m == Head(queue[u])
  <2>1. m \in Mutations
    BY <1>2, HeadTailProperties DEF CommitHead, TypeOK
  <2>2. req' = [req EXCEPT ![m.doc] = Applied(m, @)]
    BY <1>2 DEF CommitHead
  <2>3. m.op # "set" => req[m.doc] \in Docs
    BY <1>2, <2>1 DEF CommitHead, Exists, TypeOK, Mutations
  <2>4. Applied(m, req[m.doc]) \in Docs
    BY <2>1, <2>3 DEF Applied, Mutations, Docs
  <2>5. QED
    BY <2>2, <2>4, NoDocAssumption DEF Exists, TypeOK
<1>3. QED
  BY <1>1, <1>2, RequestsChange

\* A copy just written exists: the write the server applied is the one the
\* handler it answers waits for.
LEMMA CommitWrites ==
    ASSUME TypeOK, NEW u \in Users, CommitHead(u), NEW m, m = Head(queue[u])
    PROVE  Exists(m.doc)'
<1>1. m \in Mutations
  BY HeadTailProperties DEF CommitHead, TypeOK
<1>2. req' = [req EXCEPT ![m.doc] = Applied(m, @)]
  BY DEF CommitHead
<1>3. m.op # "set" => req[m.doc] \in Docs
  BY <1>1 DEF CommitHead, Exists, TypeOK, Mutations
<1>4. Applied(m, req[m.doc]) \in Docs
  BY <1>1, <1>3 DEF Applied, Mutations, Docs
<1>5. QED
  BY <1>1, <1>2, <1>4, NoDocAssumption DEF Exists, TypeOK, Mutations

\* A handler that no step touched keeps its documents.
LEMMA UntouchedDocs ==
    ASSUME TypeOK, DocsWritten, [Next]_vars, NEW v \in Users, NEW t \in Slots,
           handler'[v][t] = handler[v][t]
    PROVE  HandlerDocs(v, t)'
<1> PICK h : h = handler[v][t]
  OBVIOUS
<1>1. /\ FirstWritten(h) => Exists(FirstDoc(h.kind, v, h.peer))
      /\ SecondWritten(h) => Exists(SecondDoc(h.kind, v, h.peer))
  BY DEF DocsWritten, HandlerDocs
<1>2. FirstWritten(h) \/ SecondWritten(h) => h \in WriterStates
  BY WriterType DEF FirstWritten, SecondWritten, Writing
<1>3. FirstWritten(h) => Exists(FirstDoc(h.kind, v, h.peer))'
  BY <1>1, <1>2, ExistsStays, DocsOfHandler DEF WriterStates, Run
<1>4. SecondWritten(h) => Exists(SecondDoc(h.kind, v, h.peer))'
  BY <1>1, <1>2, ExistsStays, DocsOfHandler DEF WriterStates, Run
<1>5. QED
  BY <1>3, <1>4 DEF HandlerDocs

LEMMA ServerDocs ==
    ASSUME TypeOK, WritesOwned, DocsWritten, NEW u \in Users, Server(u),
           NEW v \in Users, NEW t \in Slots
    PROVE  HandlerDocs(v, t)'
<1>0. [Next]_vars
  BY DEF Next
<1> PICK m : m = Head(queue[u])
  OBVIOUS
<1>1. queue[u] # << >> /\ m \in Mutations /\ queue[u] \in Seq(Mutations)
  BY HeadTailProperties DEF Server, CommitHead, RefuseHead, TypeOK
<1>2. PICK ack \in {"ok", "err"} : Acknowledge(u, m, ack)
  BY DEF Server, CommitHead, RefuseHead
<1>3. CASE v # u \/ t # m.slot
  <2>1. handler'[v][t] = handler[v][t]
    BY <1>2, <1>3 DEF Acknowledge, TypeOK
  <2>2. QED
    BY <1>0, <2>1, UntouchedDocs
<1>4. CASE v = u /\ t = m.slot
  <2> PICK h : h = handler[u][t]
    OBVIOUS
  <2>1. 1 \in DOMAIN queue[u] /\ queue[u][1] = m
    BY <1>1, LenProperties, EmptySeq
  <2>2. t # NoSlot
    BY NoSlotAssumption
  <2>3. Expected(u, m)
    BY <1>4, <2>1, <2>2 DEF WritesOwned
  <2>4. h.pc \in {"first", "second"} /\ h.ack = "wait" /\ m.doc = CurrentDoc(u, t)
    BY <1>4, <2>3 DEF Expected
  <2>5. h \in WriterStates
    BY <2>4, WriterType DEF Writing
  <2>6. handler'[u][t] = [h EXCEPT !.ack = ack]
    BY <1>2, <1>4, <2>2 DEF Acknowledge, TypeOK
  <2> PICK g : g = [h EXCEPT !.ack = ack]
    OBVIOUS
  <2>7. g.pc = h.pc /\ g.kind = h.kind /\ g.peer = h.peer /\ g.ack = ack
    BY <2>5 DEF WriterStates, Run
  <2>8. h.pc = "second" => Exists(FirstDoc(h.kind, u, h.peer))'
    BY <1>0, <2>5, ExistsStays, DocsOfHandler
       DEF DocsWritten, HandlerDocs, FirstWritten, WriterStates, Run
  <2>9. CASE CommitHead(u)
    <3>1. Exists(m.doc)'
      BY <2>9, CommitWrites
    <3>2. QED
      <4>1. h.pc = "first" => Exists(FirstDoc(g.kind, u, g.peer))'
        BY <1>4, <2>4, <2>7, <3>1 DEF CurrentDoc
      <4>2. h.pc = "second" => Exists(SecondDoc(g.kind, u, g.peer))'
        BY <1>4, <2>4, <2>7, <3>1 DEF CurrentDoc
      <4>3. FirstWritten(g) => Exists(FirstDoc(g.kind, u, g.peer))'
        BY <2>4, <2>7, <2>8, <4>1 DEF FirstWritten
      <4>4. SecondWritten(g) => Exists(SecondDoc(g.kind, u, g.peer))'
        BY <2>4, <2>7, <4>2 DEF SecondWritten
      <4>5. QED
        BY <1>4, <2>6, <4>3, <4>4 DEF HandlerDocs, FirstWritten, SecondWritten
  <2>10. CASE RefuseHead(u)
    <3>1. handler'[u][t].ack = "err"
      BY <1>4, <2>2, <2>5, <2>10 DEF RefuseHead, Acknowledge, TypeOK, WriterStates, Run
    <3>2. QED
      <4>1. g.ack = "err"
        BY <2>6, <3>1
      <4>2. FirstWritten(g) => Exists(FirstDoc(g.kind, u, g.peer))'
        BY <2>4, <2>7, <2>8, <4>1 DEF FirstWritten
      <4>3. ~SecondWritten(g)
        BY <2>4, <2>7, <4>1 DEF SecondWritten
      <4>4. QED
        BY <1>4, <2>6, <4>2, <4>3 DEF HandlerDocs, FirstWritten, SecondWritten
  <2>11. QED
    BY <2>9, <2>10 DEF Server
<1>5. QED
  BY <1>3, <1>4

LEMMA ProgressDocs ==
    ASSUME TypeOK, DocsWritten, NEW u \in Users, NEW s \in Slots,
           AddEvent(u, s) \/ Progress(u, s), NEW v \in Users, NEW t \in Slots
    PROVE  HandlerDocs(v, t)'
<1>0. [Next]_vars
  BY DEF Next
<1>1. PICK g : handler' = [handler EXCEPT ![u][s] = g]
  BY DEF AddEvent, AddWrite, AddCheck, AddLoad, Progress, WriteSecond, StartTxn,
       CommitTxn, FailTxn, FinishWrite, Advance, AnswerCheck, AnswerPending,
       AnswerIncoming, FailRead, FinishRead
<1>2. CASE v # u \/ t # s
  <2>1. handler'[v][t] = handler[v][t]
    BY <1>1, <1>2 DEF TypeOK
  <2>2. QED
    BY <1>0, <2>1, UntouchedDocs
<1>3. CASE v = u /\ t = s
  <2> PICK h : h = handler[u][s]
    OBVIOUS
  <2>1. handler'[u][s] = g
    BY <1>1 DEF TypeOK
  <2>2. CASE WriteSecond(u, s) \/ StartTxn(u, s) \/ CommitTxn(u, s) \/ FailTxn(u, s)
    <3>1. h \in WriterStates
      BY <2>2, WriterType DEF WriteSecond, StartTxn, CommitTxn, FailTxn, Writing
    <3>2. /\ FirstWritten(h) => Exists(FirstDoc(h.kind, u, h.peer))'
          /\ SecondWritten(h) => Exists(SecondDoc(h.kind, u, h.peer))'
      BY <1>0, <3>1, ExistsStays, DocsOfHandler
         DEF DocsWritten, HandlerDocs, WriterStates, Run
    <3>3. /\ WriteSecond(u, s) => g = [h EXCEPT !.pc = "second", !.ack = "wait"]
          /\ StartTxn(u, s) => g = [h EXCEPT !.pc = "txn", !.ack = "wait"]
          /\ CommitTxn(u, s) => g = [h EXCEPT !.pc = "txn", !.ack = "ok"]
          /\ FailTxn(u, s) => g = [h EXCEPT !.pc = "txn", !.ack = "err"]
      BY <2>1 DEF WriteSecond, StartTxn, CommitTxn, FailTxn, Advance, TypeOK
    <3>4. g.kind = h.kind /\ g.peer = h.peer
      BY <2>2, <3>1, <3>3 DEF WriterStates, Run
    <3>5. FirstWritten(g) => FirstWritten(h)
      BY <2>2, <3>1, <3>3 DEF WriteSecond, StartTxn, CommitTxn, FailTxn, FirstWritten
    <3>6. SecondWritten(g) => SecondWritten(h)
      BY <2>2, <3>1, <3>3 DEF WriteSecond, StartTxn, CommitTxn, FailTxn, SecondWritten,
         WriterStates, Run
    <3>7. QED
      BY <1>3, <2>1, <3>2, <3>4, <3>5, <3>6 DEF HandlerDocs
  <2>3. ASSUME ~ (WriteSecond(u, s) \/ StartTxn(u, s) \/ CommitTxn(u, s) \/ FailTxn(u, s))
        PROVE  ~ FirstWritten(g) /\ ~ SecondWritten(g)
    <3>1. CASE AddEvent(u, s)
      <4>1. ASSUME NEW k, NEW x, NEW pc \in {"first", "get", "pending"},
                   handler' = [handler EXCEPT ![u][s] = Start(k, x, pc)]
            PROVE  ~ FirstWritten(g) /\ ~ SecondWritten(g)
        <5>1. g = Start(k, x, pc)
          BY <2>1, <4>1 DEF TypeOK
        <5>2. QED
          BY <5>1 DEF Start, FirstWritten, SecondWritten
      <4>2. QED
        BY <3>1, <4>1 DEF AddEvent, AddWrite, AddCheck, AddLoad
    <3>2. CASE FinishWrite(u, s) \/ FinishRead(u, s)
      <4>1. g = Idle
        BY <2>1, <3>2 DEF FinishWrite, FinishRead, TypeOK
      <4>2. QED
        BY <4>1 DEF Idle, FirstWritten, SecondWritten
    <3>3. CASE \/ AnswerCheck(u, s) \/ AnswerPending(u, s) \/ AnswerIncoming(u, s)
               \/ FailRead(u, s)
      <4>1. h \in ReaderStates
        BY <3>3, ReaderType DEF AnswerCheck, AnswerPending, AnswerIncoming, FailRead
      <4>2. PICK r, l : \/ g = [h EXCEPT !.ack = "ok", !.res = r]
                        \/ g = [h EXCEPT !.pc = "incoming", !.list = l]
                        \/ g = [h EXCEPT !.ack = "ok", !.list = l]
                        \/ g = [h EXCEPT !.pc = h.pc, !.ack = "err"]
        <5>1. CASE AnswerCheck(u, s)
          BY <2>1, <5>1 DEF AnswerCheck, TypeOK
        <5>2. CASE AnswerPending(u, s)
          <6>1. PICK blocked \in SUBSET Users :
                    handler' = [handler EXCEPT ![u][s] = [@ EXCEPT
                        !.pc = "incoming", !.list = PendingOf(u) \ blocked]]
            BY <5>2 DEF AnswerPending
          <6>2. g = [h EXCEPT !.pc = "incoming", !.list = PendingOf(u) \ blocked]
            BY <2>1, <6>1 DEF TypeOK
          <6>3. QED
            BY <6>2
        <5>3. CASE AnswerIncoming(u, s)
          BY <2>1, <5>3 DEF AnswerIncoming, TypeOK
        <5>4. CASE FailRead(u, s)
          BY <2>1, <5>4 DEF FailRead, Advance, TypeOK
        <5>5. QED
          BY <3>3, <5>1, <5>2, <5>3, <5>4
      <4>3. g.pc \in {h.pc, "incoming"}
        BY <4>1, <4>2 DEF ReaderStates, Run
      <4>4. QED
        BY <4>1, <4>3 DEF ReaderStates, Run, FirstWritten, SecondWritten
    <3>4. QED
      BY <2>3, <3>1, <3>2, <3>3 DEF Progress
  <2>4. QED
    BY <1>3, <2>1, <2>2, <2>3 DEF HandlerDocs
<1>4. QED
  BY <1>2, <1>3

LEMMA CrashDocs ==
    ASSUME TypeOK, DocsWritten, NEW u \in Users, Crash(u),
           NEW v \in Users, NEW t \in Slots
    PROVE  HandlerDocs(v, t)'
<1>1. CASE v = u
  <2>1. handler'[v][t] = Idle
    BY <1>1 DEF Crash, TypeOK
  <2>2. QED
    BY <2>1 DEF HandlerDocs, FirstWritten, SecondWritten, Idle
<1>2. CASE v # u
  <2>1. handler'[v][t] = handler[v][t]
    BY <1>2 DEF Crash, TypeOK
  <2>2. QED
    BY <2>1, UntouchedDocs DEF Next
<1>3. QED
  BY <1>1, <1>2

LEMMA DocsStep == TypeOK /\ WritesOwned /\ DocsWritten /\ [Next]_vars => DocsWritten'
<1> SUFFICES ASSUME TypeOK, WritesOwned, DocsWritten, [Next]_vars,
                    NEW v \in Users, NEW t \in Slots
             PROVE  HandlerDocs(v, t)'
  BY DEF DocsWritten
<1>1. CASE UNCHANGED vars
  BY <1>1, UntouchedDocs DEF vars
<1>2. CASE Next
  BY <1>2, ServerDocs, CrashDocs, ProgressDocs DEF Next
<1>3. QED
  BY <1>1, <1>2

\* Theorem 3.  A handler past an await relies on documents that are there.
THEOREM HandlersRelyOnDocuments == Spec => []DocsWritten
<1>1. Init => DocsWritten
  BY DEF Init, DocsWritten, HandlerDocs, FirstWritten, SecondWritten, Idle
<1>2. QED
  BY <1>1, DocsStep, TypeCorrect, AnswersReachTheirHandler, PTL DEF Spec

\* Only the transactions of accept and remove change the friends collection.
LEMMA FriendsChange ==
    ASSUME TypeOK, [Next]_vars, friends' # friends
    PROVE  \E u \in Users, s \in Slots : CommitTxn(u, s)
<1>1. ~ UNCHANGED vars
  BY DEF vars
<1>2. ASSUME NEW u \in Users, Server(u) \/ Crash(u)
      PROVE  FALSE
  BY <1>2 DEF Server, CommitHead, RefuseHead, Crash, stored
<1>3. ASSUME NEW u \in Users, NEW s \in Slots, AddEvent(u, s)
      PROVE  FALSE
  BY <1>3 DEF AddEvent, AddWrite, AddCheck, AddLoad, stored
<1>4. ASSUME NEW u \in Users, NEW s \in Slots, Progress(u, s), ~ CommitTxn(u, s)
      PROVE  FALSE
  BY <1>4 DEF Progress, WriteSecond, StartTxn, FailTxn, FinishWrite, AnswerCheck,
       AnswerPending, AnswerIncoming, FailRead, FinishRead, stored
<1>5. QED
  BY <1>1, <1>2, <1>3, <1>4 DEF Next

\* Theorem 4.  Friendship is mutual.
THEOREM FriendshipIsMutual == Spec => []FriendsSymmetric
<1>1. Init => FriendsSymmetric
  BY DEF Init, FriendsSymmetric
<1>2. TypeOK /\ FriendsSymmetric /\ [Next]_vars => FriendsSymmetric'
  <2> SUFFICES ASSUME TypeOK, FriendsSymmetric, [Next]_vars
               PROVE  FriendsSymmetric'
    OBVIOUS
  <2>1. CASE friends' = friends
    BY <2>1 DEF FriendsSymmetric
  <2>2. ASSUME NEW u \in Users, NEW s \in Slots, CommitTxn(u, s)
        PROVE  FriendsSymmetric'
    <3> PICK x : x = handler[u][s].peer
      OBVIOUS
    <3>1. \/ friends' = friends \cup {<<u, x>>, <<x, u>>}
          \/ friends' = friends \ {<<u, x>>, <<x, u>>}
      BY <2>2 DEF CommitTxn
    <3>2. QED
      BY <3>1 DEF FriendsSymmetric
  <2>3. QED
    BY <2>1, <2>2, FriendsChange
<1>3. QED
  BY <1>1, <1>2, TypeCorrect, PTL DEF Spec

\* Theorem 5.  Nobody has a friend without a request stored with both.
THEOREM FriendsComeFromRequests == Spec => []FriendsHaveRequests
<1>1. Init => FriendsHaveRequests
  BY DEF Init, FriendsHaveRequests
<1>2. TypeOK /\ DocsWritten /\ FriendsHaveRequests /\ [Next]_vars => FriendsHaveRequests'
  <2> SUFFICES ASSUME TypeOK, DocsWritten, FriendsHaveRequests, [Next]_vars,
                      NEW a \in Users, NEW b \in Users, <<a, b>> \in friends'
               PROVE  Exists(<<a, b>>)' /\ Exists(<<b, a>>)'
    BY DEF FriendsHaveRequests, Both
  <2>1. CASE <<a, b>> \in friends
    BY <2>1, ExistsStays DEF FriendsHaveRequests, Both
  <2>2. CASE <<a, b>> \notin friends
    <3>1. PICK u \in Users, s \in Slots : CommitTxn(u, s)
      BY <2>2, FriendsChange
    <3> PICK h : h = handler[u][s]
      OBVIOUS
    <3>2. h \in WriterStates /\ SecondWritten(h) /\ FirstWritten(h)
      BY <3>1, WriterType DEF CommitTxn, Writing, FirstWritten, SecondWritten
    <3>3. /\ Exists(FirstDoc(h.kind, u, h.peer))
          /\ Exists(SecondDoc(h.kind, u, h.peer))
      BY <3>2 DEF DocsWritten, HandlerDocs
    <3>4. Exists(<<u, h.peer>>) /\ Exists(<<h.peer, u>>)
      BY <3>2, <3>3 DEF FirstDoc, SecondDoc
    <3>5. {<<a, b>>, <<b, a>>} = {<<u, h.peer>>, <<h.peer, u>>}
      BY <2>2, <3>1 DEF CommitTxn
    <3>6. Exists(<<a, b>>) /\ Exists(<<b, a>>)
      BY <3>4, <3>5
    <3>7. QED
      BY <3>6, ExistsStays
  <2>3. QED
    BY <2>1, <2>2
<1>3. QED
  BY <1>1, <1>2, TypeCorrect, HandlersRelyOnDocuments, PTL DEF Spec

-----------------------------------------------------------------------------
(***************************************************************************)
(* The protocol implements Friendship.                                     *)
(***************************************************************************)
\* A step of the server can complete one request; no step takes one away.
LEMMA AskedChange ==
    ASSUME TypeOK, [Next]_vars, asked' # asked
    PROVE  /\ \E p \in SUBSET Users : p \notin asked /\ asked' = asked \cup {p}
           /\ UNCHANGED friends
<1>1. PICK u \in Users : CommitHead(u)
  <2>1. req' # req
    BY DEF asked, Both, Exists
  <2>2. QED
    BY <2>1, RequestsChange
<1> PICK m : m = Head(queue[u])
  OBVIOUS
<1>2. m.doc \in Users \X Users
  <2>1. m \in Mutations
    BY <1>1, HeadTailProperties DEF CommitHead, TypeOK
  <2>2. QED
    BY <2>1 DEF Mutations
<1> PICK a \in Users, b \in Users : m.doc = <<a, b>>
  BY <1>2
<1>3. \A d \in Users \X Users \ {<<a, b>>} : Exists(d)' <=> Exists(d)
  BY <1>1, <1>2 DEF CommitHead, Exists, TypeOK
<1>4. \A o, f \in Users : {o, f} # {a, b} => (Both(o, f)' <=> Both(o, f))
  BY <1>3 DEF Both
<1>5. asked \subseteq SUBSET Users /\ asked' \subseteq SUBSET Users
  BY DEF asked
<1>6. \A p \in SUBSET Users : p # {a, b} => (p \in asked' <=> p \in asked)
  BY <1>4 DEF asked
<1>7. asked \subseteq asked'
  BY ExistsStays DEF asked, Both
<1>8. {a, b} \notin asked /\ {a, b} \in asked'
  BY <1>5, <1>6, <1>7
<1>9. asked' = asked \cup {{a, b}}
  BY <1>5, <1>6, <1>7, <1>8
<1>10. UNCHANGED friends
  BY <1>1 DEF CommitHead
<1>11. {a, b} \in SUBSET Users
  OBVIOUS
<1>12. QED
  BY <1>8, <1>9, <1>10, <1>11

\* A step of the transaction changes the friendship of one pair.
LEMMA GraphChange ==
    ASSUME TypeOK, FriendsHaveRequests', [Next]_vars, graph' # graph
    PROVE  \E p \in SUBSET Users :
               \/ p \in asked' \ graph /\ graph' = graph \cup {p}
               \/ p \in graph /\ graph' = graph \ {p}
<1>1. PICK u \in Users, s \in Slots : CommitTxn(u, s)
  <2>1. friends' # friends
    BY DEF graph
  <2>2. QED
    BY <2>1, FriendsChange
<1> PICK x : x = handler[u][s].peer
  OBVIOUS
<1>2. x \in Users
  BY <1>1, WriterType DEF CommitTxn, Writing, WriterStates, Run
<1>3. {u, x} \in SUBSET Users
  BY <1>2
<1>4. graph \subseteq SUBSET Users /\ graph' \subseteq SUBSET Users
  BY DEF graph
<1>5. \A o, f \in Users : {o, f} # {u, x} =>
          ({<<o, f>>, <<f, o>>} \subseteq friends' <=> {<<o, f>>, <<f, o>>} \subseteq friends)
  BY <1>1 DEF CommitTxn
<1>6. \A p \in SUBSET Users : p # {u, x} => (p \in graph' <=> p \in graph)
  <2> SUFFICES ASSUME NEW p \in SUBSET Users, p # {u, x}
               PROVE  p \in graph' <=> p \in graph
    OBVIOUS
  <2>1. ASSUME NEW o \in Users, NEW f \in Users, p = {o, f}
        PROVE  {<<o, f>>, <<f, o>>} \subseteq friends'
                   <=> {<<o, f>>, <<f, o>>} \subseteq friends
    BY <1>5, <2>1
  <2>2. p \in graph => p \in graph'
    <3> SUFFICES ASSUME p \in graph PROVE p \in graph'
      OBVIOUS
    <3>1. PICK o \in Users, f \in Users :
              p = {o, f} /\ {<<o, f>>, <<f, o>>} \subseteq friends
      BY DEF graph
    <3>2. {<<o, f>>, <<f, o>>} \subseteq friends'
      BY <2>1, <3>1
    <3>3. QED
      BY <3>1, <3>2 DEF graph
  <2>3. p \in graph' => p \in graph
    <3> SUFFICES ASSUME p \in graph' PROVE p \in graph
      OBVIOUS
    <3>1. PICK o \in Users, f \in Users :
              p = {o, f} /\ {<<o, f>>, <<f, o>>} \subseteq friends'
      BY DEF graph
    <3>2. {<<o, f>>, <<f, o>>} \subseteq friends
      BY <2>1, <3>1
    <3>3. QED
      BY <3>1, <3>2 DEF graph
  <2>4. QED
    BY <2>2, <2>3
<1>7. CASE friends' = friends \cup {<<u, x>>, <<x, u>>}
  <2>1. {<<u, x>>, <<x, u>>} \subseteq friends'
    BY <1>7
  <2>2. {u, x} \in graph'
    BY <1>2, <1>3, <2>1 DEF graph
  <2>3. {u, x} \notin graph
    <3> SUFFICES ASSUME {u, x} \in graph
                 PROVE  graph' = graph
      OBVIOUS
    <3>1. \A p \in SUBSET Users : p \in graph' <=> p \in graph
      BY <1>6, <2>2
    <3>2. QED
      BY <1>4, <3>1
  <2>4. graph' = graph \cup {{u, x}}
    BY <1>3, <1>4, <1>6, <2>2
  <2>5. Both(u, x)'
    BY <1>2, <2>1 DEF FriendsHaveRequests
  <2>6. {u, x} \in asked'
    BY <1>2, <1>3, <2>5 DEF asked
  <2>7. QED
    BY <1>3, <2>3, <2>4, <2>6
<1>8. CASE friends' = friends \ {<<u, x>>, <<x, u>>}
  <2>1. \A o, f \in Users : {o, f} = {u, x} => <<o, f>> \notin friends'
    BY <1>8
  <2>2. {u, x} \notin graph'
    BY <2>1 DEF graph
  <2>3. {u, x} \in graph
    <3> SUFFICES ASSUME {u, x} \notin graph
                 PROVE  graph' = graph
      OBVIOUS
    <3>1. \A p \in SUBSET Users : p \in graph' <=> p \in graph
      BY <1>6, <2>2
    <3>2. QED
      BY <1>4, <3>1
  <2>4. graph' = graph \ {{u, x}}
    BY <1>3, <1>4, <1>6, <2>2
  <2>5. QED
    BY <1>3, <2>3, <2>4
<1>9. QED
  BY <1>1, <1>7, <1>8 DEF CommitTxn

\* Theorem 6.  Every behaviour of the protocol is one of Friendship.
THEOREM Refinement == Spec => ImplementsFriendship
<1>1. Init => Abstract!Init
  BY NoDocAssumption DEF Init, Abstract!Init, asked, graph, Both, Exists
<1>2. TypeOK /\ FriendsHaveRequests' /\ [Next]_vars
      => [Abstract!Next]_<<asked, graph>>
  <2> SUFFICES ASSUME TypeOK, FriendsHaveRequests', [Next]_vars
               PROVE  [Abstract!Next]_<<asked, graph>>
    OBVIOUS
  <2>1. CASE asked' # asked
    <3>1. UNCHANGED friends
      BY <2>1, AskedChange
    <3>2. UNCHANGED graph
      BY <3>1 DEF graph
    <3>3. QED
      BY <2>1, <3>2, AskedChange DEF Abstract!Next, Abstract!Ask
  <2>2. CASE asked' = asked /\ graph' # graph
    BY <2>2, GraphChange DEF Abstract!Next, Abstract!Befriend, Abstract!Unfriend
  <2>3. QED
    BY <2>1, <2>2
<1>3. QED
  BY <1>1, <1>2, TypeCorrect, FriendsComeFromRequests, PTL
     DEF Spec, ImplementsFriendship, Abstract!Spec
=============================================================================
