---------------------------- MODULE CopiesProofs ----------------------------
(***************************************************************************)
(* The two copies of a request agree (CopiesAgree of FriendRequests), for  *)
(* any number of users and handlers and whatever crashes and is refused.   *)
(*                                                                         *)
(* The property says nothing while a handler is at work, so the invariant  *)
(* says what a handler that met no other has done so far.                  *)
(*                                                                         *)
(* The facts about steps serve SpinnerHasHandler too, proved at the end.   *)
(***************************************************************************)
EXTENDS FriendRequestsProofs

Sides(a, b) == {a, b}
On(u, s) == Sides(u, handler[u][s].peer)
About(m) == Sides(m.doc[1], m.doc[2])

\* What document d says, and what a handler told it to say.
Says(R, d, st) == R[d] # NoDoc /\ R[d].status = st
Told(R, u, h) ==
    /\ FirstWritten(h) => Says(R, FirstDoc(h.kind, u, h.peer), NewStatus[h.kind])
    /\ SecondWritten(h) => Says(R, SecondDoc(h.kind, u, h.peer), NewStatus[h.kind])
Agree(R, a, b) ==
    IF R[<<a, b>>] # NoDoc /\ R[<<b, a>>] # NoDoc
    THEN R[<<a, b>>].status = R[<<b, a>>].status
    ELSE R[<<a, b>>] = NoDoc /\ R[<<b, a>>] = NoDoc

\* A write of a dead handler makes its pair suspect.
OrphansSuspect ==
    \A u \in Users : \A i \in DOMAIN queue[u] :
        queue[u][i].slot = NoSlot => About(queue[u][i]) \in suspect

\* A clean handler is alone on its pair.
Alone ==
    \A u \in Users : \A s \in Slots : <<u, s>> \in clean =>
        /\ Writing(u, s)
        /\ \A v \in Users : \A t \in Slots :
               Writing(v, t) /\ On(v, t) = On(u, s) => v = u /\ t = s
        /\ \A v \in Users : \A i \in DOMAIN queue[v] :
               queue[v][i].slot = NoSlot => About(queue[v][i]) # On(u, s)

\* On a pair that is not suspect every handler is clean.
Trusted ==
    \A u \in Users : \A s \in Slots :
        Writing(u, s) /\ On(u, s) \notin suspect => <<u, s>> \in clean

\* The copies hold what a clean handler was told they do.
Effective == \A u \in Users : \A s \in Slots : <<u, s>> \in clean => Told(req, u, handler[u][s])

\* The copies of a pair that is not suspect agree until a handler has written
\* the first of them.
Agreeing ==
    \A a \in Users : \A b \in Users :
        /\ a # b /\ Sides(a, b) \notin suspect
        /\ \A u \in Users : \A s \in Slots :
               Writing(u, s) /\ On(u, s) = Sides(a, b) => ~FirstWritten(handler[u][s])
        => Agree(req, a, b)

History == OrphansSuspect /\ Alone /\ Trusted /\ Effective /\ Agreeing

-----------------------------------------------------------------------------
(***************************************************************************)
(* Writers and their writes.                                               *)
(***************************************************************************)
LEMMA Writer ==
    ASSUME TypeOK, NEW u \in Users, NEW s \in Slots, Writing(u, s)
    PROVE  /\ handler[u][s] \in WriterStates
           /\ handler[u][s].kind \in WriteKinds /\ handler[u][s].peer \in Users
           /\ handler[u][s].pc \in {"first", "second", "txn"}
           /\ handler[u][s].ack \in {"wait", "ok", "err"}
BY WriterType DEF WriterStates, Run

LEMMA QueueType ==
    ASSUME TypeOK, NEW u \in Users
    PROVE  /\ queue[u] \in Seq(Mutations) /\ DOMAIN queue[u] = 1 .. Len(queue[u])
           /\ Len(queue[u]) \in Nat
           /\ \A i \in DOMAIN queue[u] :
                  /\ queue[u][i] \in Mutations /\ queue[u][i].slot \in Slots \cup {NoSlot}
                  /\ queue[u][i].doc \in Users \X Users
<1>1. queue[u] \in Seq(Mutations)
  BY DEF TypeOK
<1>2. DOMAIN queue[u] = 1 .. Len(queue[u]) /\ Len(queue[u]) \in Nat
  BY <1>1, LenProperties
<1>3. \A i \in DOMAIN queue[u] : queue[u][i] \in Mutations
  BY <1>1, <1>2, ElementOfSeq
<1>4. QED
  BY <1>1, <1>2, <1>3 DEF Mutations

\* The two documents of a handler are those of its pair.
LEMMA TwoDocs ==
    ASSUME NEW u \in Users, NEW x \in Users, NEW k \in WriteKinds
    PROVE  \/ FirstDoc(k, u, x) = <<u, x>> /\ SecondDoc(k, u, x) = <<x, u>>
           \/ FirstDoc(k, u, x) = <<x, u>> /\ SecondDoc(k, u, x) = <<u, x>>
BY DEF FirstDoc, SecondDoc

\* A write is about the pair of the handler that waits for it.
LEMMA WaitAbout ==
    ASSUME TypeOK, WritesOwned, NEW u \in Users, NEW s \in Slots, NEW i \in DOMAIN queue[u],
           queue[u][i].slot = s
    PROVE  /\ Writing(u, s) /\ handler[u][s].ack = "wait" /\ handler[u][s].pc # "txn"
           /\ About(queue[u][i]) = On(u, s)
           /\ queue[u][i].doc = CurrentDoc(u, s)
           /\ queue[u][i].status = NewStatus[handler[u][s].kind]
<1>1. s # NoSlot
  BY NoSlotAssumption
<1>2. Expected(u, queue[u][i])
  BY <1>1 DEF WritesOwned
<1>3. /\ handler[u][s].pc \in {"first", "second"} /\ handler[u][s].ack = "wait"
      /\ queue[u][i].doc = CurrentDoc(u, s)
      /\ queue[u][i].status = NewStatus[handler[u][s].kind]
  BY <1>2 DEF Expected
<1>4. Writing(u, s)
  BY <1>3 DEF Writing
<1>5. queue[u][i].doc \in {<<u, handler[u][s].peer>>, <<handler[u][s].peer, u>>}
  BY <1>3, <1>4, Writer, TwoDocs DEF CurrentDoc
<1>6. About(queue[u][i]) = On(u, s)
  BY <1>5 DEF About, On, Sides
<1>7. QED
  BY <1>3, <1>4, <1>6

\* Who is on a pair, in the terms of the model.
LEMMA InActive ==
    ASSUME NEW a \in Users, NEW b \in Users, NEW v \in Users, NEW t \in Slots
    PROVE  <<v, t>> \in ActiveOn({a, b}) <=> Writing(v, t) /\ On(v, t) = Sides(a, b)
BY DEF ActiveOn, Handlers, On, Sides

-----------------------------------------------------------------------------
(***************************************************************************)
(* Steps that keep the handlers on their pairs.                            *)
(***************************************************************************)
Keeps ==
    /\ UNCHANGED <<suspect, clean>>
    /\ \A v \in Users : \A t \in Slots :
           /\ handler'[v][t].pc \in {"first", "second", "txn"} <=> Writing(v, t)
           /\ Writing(v, t) => /\ handler'[v][t].peer = handler[v][t].peer
                               /\ handler'[v][t].kind = handler[v][t].kind
    /\ \A v \in Users : \A i \in DOMAIN queue'[v] : queue'[v][i].slot = NoSlot =>
           \E j \in DOMAIN queue[v] : queue'[v][i] = queue[v][j]

\* No copy changes, and no handler hears that it wrote one.
Steady ==
    /\ Keeps /\ req' = req
    /\ \A v \in Users : \A t \in Slots : Writing(v, t) =>
           /\ FirstWritten(handler'[v][t]) <=> FirstWritten(handler[v][t])
           /\ SecondWritten(handler'[v][t]) <=> SecondWritten(handler[v][t])

LEMMA KeepsOn ==
    ASSUME Keeps, NEW v \in Users, NEW t \in Slots
    PROVE  /\ Writing(v, t)' <=> Writing(v, t)
           /\ Writing(v, t) => On(v, t)' = On(v, t)
BY DEF Keeps, Writing, On

LEMMA PlacesKept ==
    ASSUME OrphansSuspect, Alone, Trusted, Keeps
    PROVE  OrphansSuspect' /\ Alone' /\ Trusted'
<1>1. UNCHANGED <<suspect, clean>>
  BY DEF Keeps
<1>2. ASSUME NEW v \in Users, NEW i \in DOMAIN queue'[v], queue'[v][i].slot = NoSlot
      PROVE  \E j \in DOMAIN queue[v] : queue'[v][i] = queue[v][j]
  BY <1>2 DEF Keeps
<1>3. OrphansSuspect'
  BY <1>1, <1>2 DEF OrphansSuspect
<1>4. ASSUME NEW u \in Users, NEW s \in Slots, <<u, s>> \in clean'
      PROVE  /\ Writing(u, s)'
             /\ \A v \in Users : \A t \in Slots :
                    Writing(v, t)' /\ On(v, t)' = On(u, s)' => v = u /\ t = s
             /\ \A v \in Users : \A i \in DOMAIN queue'[v] :
                    queue'[v][i].slot = NoSlot => About(queue'[v][i]) # On(u, s)'
  <2>1. Writing(u, s) /\ Writing(u, s)' /\ On(u, s)' = On(u, s)
    BY <1>1, <1>4, KeepsOn DEF Alone
  <2>2. ASSUME NEW v \in Users, NEW t \in Slots, Writing(v, t)', On(v, t)' = On(u, s)'
        PROVE  v = u /\ t = s
    BY <1>1, <1>4, <2>1, <2>2, KeepsOn DEF Alone
  <2>3. ASSUME NEW v \in Users, NEW i \in DOMAIN queue'[v], queue'[v][i].slot = NoSlot
        PROVE  About(queue'[v][i]) # On(u, s)'
    BY <1>1, <1>2, <1>4, <2>1, <2>3 DEF Alone
  <2>4. QED
    BY <2>1, <2>2, <2>3
<1>5. Alone'
  BY <1>4 DEF Alone
<1>6. ASSUME NEW u \in Users, NEW s \in Slots, Writing(u, s)', On(u, s)' \notin suspect'
      PROVE  <<u, s>> \in clean'
  BY <1>1, <1>6, KeepsOn DEF Trusted
<1>7. Trusted'
  BY <1>6 DEF Trusted
<1>8. QED
  BY <1>3, <1>5, <1>7

LEMMA SteadyKept == ASSUME TypeOK, History, Steady PROVE History'
<1>1. OrphansSuspect /\ Alone /\ Trusted /\ Effective /\ Agreeing
  BY DEF History
<1>2. Keeps /\ req' = req /\ suspect' = suspect /\ clean' = clean
  BY DEF Steady, Keeps
<1>3. OrphansSuspect' /\ Alone' /\ Trusted'
  BY <1>1, <1>2, PlacesKept
<1>4. ASSUME NEW v \in Users, NEW t \in Slots, Writing(v, t)
      PROVE  /\ FirstWritten(handler'[v][t]) <=> FirstWritten(handler[v][t])
             /\ SecondWritten(handler'[v][t]) <=> SecondWritten(handler[v][t])
             /\ handler'[v][t].peer = handler[v][t].peer
             /\ handler'[v][t].kind = handler[v][t].kind
  BY <1>2, <1>4 DEF Steady, Keeps
<1>5. ASSUME NEW v \in Users, NEW t \in Slots, <<v, t>> \in clean'
      PROVE  Told(req', v, handler'[v][t])
  <2>1. Writing(v, t) /\ Told(req, v, handler[v][t])
    BY <1>1, <1>2, <1>5 DEF Alone, Effective
  <2>2. QED
    BY <1>2, <1>4, <2>1 DEF Told
<1>6. Effective'
  BY <1>5 DEF Effective
<1>7. ASSUME NEW a \in Users, NEW b \in Users, a # b, Sides(a, b) \notin suspect',
             \A v \in Users : \A t \in Slots :
                 Writing(v, t)' /\ On(v, t)' = Sides(a, b) => ~FirstWritten(handler'[v][t])
      PROVE  Agree(req', a, b)
  <2>1. ASSUME NEW v \in Users, NEW t \in Slots, Writing(v, t), On(v, t) = Sides(a, b)
        PROVE  ~FirstWritten(handler[v][t])
    BY <1>2, <1>4, <1>7, <2>1, KeepsOn
  <2>2. QED
    BY <1>1, <1>2, <1>7, <2>1 DEF Agreeing
<1>8. Agreeing'
  BY <1>7 DEF Agreeing
<1>9. QED
  BY <1>3, <1>6, <1>8 DEF History

\* One handler becomes h, the others stay.
Puts(u, s, h) == handler' = [handler EXCEPT ![u][s] = h]

LEMMA OneSet ==
    ASSUME TypeOK, NEW u \in Users, NEW s \in Slots, NEW h, Puts(u, s, h)
    PROVE  /\ handler'[u][s] = h
           /\ \A v \in Users : \A t \in Slots : v # u \/ t # s => handler'[v][t] = handler[v][t]
<1>1. handler \in [Users -> [Slots -> HandlerStates \cup {Idle}]]
  BY DEF TypeOK
<1>2. handler' = [handler EXCEPT ![u] = [handler[u] EXCEPT ![s] = h]]
  BY <1>1 DEF Puts
<1>3. handler'[u] = [handler[u] EXCEPT ![s] = h] /\ \A v \in Users \ {u} : handler'[v] = handler[v]
  BY <1>1, <1>2
<1>4. handler'[u][s] = h /\ \A t \in Slots \ {s} : handler'[u][t] = handler[u][t]
  BY <1>1, <1>3
<1>5. QED
  BY <1>3, <1>4

\* No leftover write joins.
Leaves ==
    \A v \in Users : \A i \in DOMAIN queue'[v] : queue'[v][i].slot = NoSlot =>
        \E j \in DOMAIN queue[v] : queue'[v][i] = queue[v][j]

LEMMA EnqueueLeaves ==
    ASSUME TypeOK, NEW u \in Users, NEW m \in Mutations, m.slot # NoSlot, Enqueue(u, m)
    PROVE  Leaves
<1>1. /\ queue[u] \in Seq(Mutations) /\ DOMAIN queue[u] = 1 .. Len(queue[u])
      /\ Len(queue[u]) \in Nat
  BY QueueType
<1>2. queue'[u] = Append(queue[u], m) /\ \A v \in Users \ {u} : queue'[v] = queue[v]
  BY DEF Enqueue, TypeOK
<1>3. /\ DOMAIN queue'[u] = 1 .. Len(queue[u]) + 1
      /\ \A i \in 1 .. Len(queue[u]) : queue'[u][i] = queue[u][i]
      /\ queue'[u][Len(queue[u]) + 1] = m
  BY <1>1, <1>2, AppendProperties, LenProperties
<1>4. ASSUME NEW i \in DOMAIN queue'[u], queue'[u][i].slot = NoSlot
      PROVE  i \in DOMAIN queue[u] /\ queue'[u][i] = queue[u][i]
  BY <1>1, <1>3, <1>4
<1>5. QED
  BY <1>2, <1>4 DEF Leaves

LEMMA TailLeaves ==
    ASSUME TypeOK, NEW u \in Users, queue[u] # << >>, queue' = [queue EXCEPT ![u] = Tail(@)]
    PROVE  Leaves /\ 1 \in DOMAIN queue[u] /\ Head(queue[u]) = queue[u][1]
<1>1. /\ queue[u] \in Seq(Mutations) /\ DOMAIN queue[u] = 1 .. Len(queue[u])
      /\ Len(queue[u]) \in Nat
  BY QueueType
<1>2. queue'[u] = Tail(queue[u]) /\ \A v \in Users \ {u} : queue'[v] = queue[v]
  BY DEF TypeOK
<1>3. /\ Tail(queue[u]) \in Seq(Mutations) /\ Head(queue[u]) = queue[u][1]
      /\ Len(Tail(queue[u])) = Len(queue[u]) - 1
      /\ \A i \in 1 .. Len(Tail(queue[u])) : Tail(queue[u])[i] = queue[u][i + 1]
  BY <1>1, HeadTailProperties
<1>4. DOMAIN queue'[u] = 1 .. Len(queue[u]) - 1
  BY <1>2, <1>3, LenProperties
<1>5. Len(queue[u]) >= 1
  BY <1>1, EmptySeq
<1>6. ASSUME NEW i \in DOMAIN queue'[u]
      PROVE  i + 1 \in DOMAIN queue[u] /\ queue'[u][i] = queue[u][i + 1]
  BY <1>1, <1>2, <1>3, <1>4, <1>6
<1>7. QED
  BY <1>1, <1>2, <1>3, <1>5, <1>6 DEF Leaves

LEMMA WriterSteady ==
    ASSUME TypeOK, NEW u \in Users, NEW s \in Slots, Writing(u, s), NEW h,
           Puts(u, s, h), h.pc \in {"first", "second", "txn"},
           h.kind = handler[u][s].kind, h.peer = handler[u][s].peer,
           FirstWritten(h) <=> FirstWritten(handler[u][s]),
           SecondWritten(h) <=> SecondWritten(handler[u][s]),
           UNCHANGED <<req, suspect, clean>>, Leaves
    PROVE  Steady
<1>1. /\ handler'[u][s] = h
      /\ \A v \in Users : \A t \in Slots : v # u \/ t # s => handler'[v][t] = handler[v][t]
  BY OneSet
<1>2. ASSUME NEW v \in Users, NEW t \in Slots
      PROVE  /\ handler'[v][t].pc \in {"first", "second", "txn"} <=> Writing(v, t)
             /\ handler'[v][t].peer = handler[v][t].peer
             /\ handler'[v][t].kind = handler[v][t].kind
             /\ FirstWritten(handler'[v][t]) <=> FirstWritten(handler[v][t])
             /\ SecondWritten(handler'[v][t]) <=> SecondWritten(handler[v][t])
  <2>1. CASE v = u /\ t = s
    BY <1>1, <2>1
  <2>2. CASE v # u \/ t # s
    BY <1>1, <2>2 DEF Writing
  <2>3. QED
    BY <2>1, <2>2
<1>3. QED
  BY <1>2 DEF Steady, Keeps, Leaves

LEMMA ReaderSteady ==
    ASSUME TypeOK, NEW u \in Users, NEW s \in Slots, ~Writing(u, s), NEW h,
           Puts(u, s, h), h.pc \notin {"first", "second", "txn"},
           UNCHANGED <<req, queue, suspect, clean>>
    PROVE  Steady
<1>1. /\ handler'[u][s] = h
      /\ \A v \in Users : \A t \in Slots : v # u \/ t # s => handler'[v][t] = handler[v][t]
  BY OneSet
<1>2. ASSUME NEW v \in Users, NEW t \in Slots
      PROVE  /\ handler'[v][t].pc \in {"first", "second", "txn"} <=> Writing(v, t)
             /\ Writing(v, t) => handler'[v][t] = handler[v][t]
  <2>1. CASE v = u /\ t = s
    BY <1>1, <2>1
  <2>2. CASE v # u \/ t # s
    BY <1>1, <2>2 DEF Writing
  <2>3. QED
    BY <2>1, <2>2
<1>3. QED
  BY <1>2 DEF Steady, Keeps

LEMMA StillSteady ==
    ASSUME UNCHANGED <<req, handler, suspect, clean>>, Leaves
    PROVE  Steady
BY DEF Steady, Keeps, Leaves, Writing

-----------------------------------------------------------------------------
(***************************************************************************)
(* Which actions are steady.                                               *)
(***************************************************************************)
LEMMA ReadsSteady ==
    ASSUME TypeOK, NEW u \in Users, NEW s \in Slots,
           \/ \E x \in Users : AddCheck(u, s, x)
           \/ AddLoad(u, s) \/ AnswerCheck(u, s) \/ AnswerPending(u, s)
           \/ AnswerIncoming(u, s) \/ FailRead(u, s) \/ FinishRead(u, s)
    PROVE  Steady
<1>1. CASE handler[u][s] = Idle
  <2>1. PICK x \in Users, k \in ReadKinds, pc \in {"get", "pending"} :
            Puts(u, s, Start(k, x, pc))
    BY <1>1 DEF AddCheck, AddLoad, AnswerCheck, AnswerPending, AnswerIncoming, FailRead,
                FinishRead, ReadKinds, Idle, Puts
  <2>2. UNCHANGED <<req, queue, suspect, clean>>
    BY DEF AddCheck, AddLoad, AnswerCheck, AnswerPending, AnswerIncoming, FailRead,
           FinishRead, stored, history
  <2>3. Start(k, x, pc).pc = pc /\ ~Writing(u, s)
    BY <1>1 DEF Start, Writing, Idle
  <2>4. QED
    BY <2>1, <2>2, <2>3, ReaderSteady
<1>2. CASE handler[u][s] # Idle
  <2>1. handler[u][s].pc \in {"get", "pending", "incoming"}
    BY <1>2 DEF AddCheck, AddLoad, AnswerCheck, AnswerPending, AnswerIncoming, FailRead,
                FinishRead
  <2>2. handler[u][s] \in ReaderStates /\ ~Writing(u, s)
    BY <2>1, ReaderType DEF Writing
  <2>3. PICK h : /\ Puts(u, s, h)
                 /\ h.pc \in {"idle", "get", "pending", "incoming"}
    <3>1. CASE FinishRead(u, s)
      <4>1. Puts(u, s, Idle) /\ Idle.pc = "idle"
        BY <3>1 DEF FinishRead, Idle, Puts
      <4>2. QED
        BY <4>1
    <3>2. CASE AnswerCheck(u, s)
      <4> DEFINE h == [handler[u][s] EXCEPT !.ack = "ok",
                                            !.res = SeenStatus(u, <<handler[u][s].peer, u>>)]
      <4>1. Puts(u, s, h)
        BY <3>2 DEF AnswerCheck, Puts
      <4>2. h.pc = handler[u][s].pc
        BY <2>2 DEF ReaderStates, Run
      <4>3. QED
        BY <2>1, <4>1, <4>2
    <3>3. CASE AnswerPending(u, s)
      <4>1. PICK blocked \in SUBSET Users :
                Puts(u, s, [handler[u][s] EXCEPT !.pc = "incoming",
                                                 !.list = PendingOf(u) \ blocked])
        BY <3>3 DEF AnswerPending, Puts
      <4> DEFINE h == [handler[u][s] EXCEPT !.pc = "incoming",
                                            !.list = PendingOf(u) \ blocked]
      <4>2. h.pc = "incoming"
        BY <2>2 DEF ReaderStates, Run
      <4>3. QED
        BY <4>1, <4>2
    <3>4. CASE AnswerIncoming(u, s)
      <4> DEFINE h == [handler[u][s] EXCEPT !.ack = "ok",
                          !.list = FirstN(handler[u][s].list, Cardinality(IncomingOf(u)))]
      <4>1. Puts(u, s, h)
        BY <3>4 DEF AnswerIncoming, Puts
      <4>2. h.pc = handler[u][s].pc
        BY <2>2 DEF ReaderStates, Run
      <4>3. QED
        BY <2>1, <4>1, <4>2
    <3>5. CASE FailRead(u, s)
      <4> DEFINE h == [handler[u][s] EXCEPT !.pc = handler[u][s].pc, !.ack = "err"]
      <4>1. Puts(u, s, h)
        BY <3>5 DEF FailRead, Advance, Puts
      <4>2. h.pc = handler[u][s].pc
        BY <2>2 DEF ReaderStates, Run
      <4>3. QED
        BY <2>1, <4>1, <4>2
    <3>6. QED
      BY <1>2, <3>1, <3>2, <3>3, <3>4, <3>5 DEF AddCheck, AddLoad
  <2>4. UNCHANGED <<req, queue, suspect, clean>>
    BY DEF AddCheck, AddLoad, AnswerCheck, AnswerPending, AnswerIncoming, FailRead,
           FinishRead, stored, history
  <2>5. QED
    BY <2>2, <2>3, <2>4, ReaderSteady
<1>3. QED
  BY <1>1, <1>2

\* A handler that writes goes on, or is told that its write failed.
LEMMA AdvanceSteady ==
    ASSUME TypeOK, NEW u \in Users, NEW s \in Slots,
           WriteSecond(u, s) \/ StartTxn(u, s) \/ CommitTxn(u, s) \/ FailTxn(u, s)
    PROVE  Steady
<1>1. Writing(u, s)
  BY DEF WriteSecond, StartTxn, CommitTxn, FailTxn, Writing
<1>2. handler[u][s] \in WriterStates
  BY <1>1, Writer
<1>3. PICK pc \in {"second", "txn"}, ack \in {"wait", "ok", "err"} :
          /\ Advance(u, s, pc, ack)
          /\ pc = "txn" <=> SecondWritten(handler[u][s])
          /\ pc = "second" => ack = "wait"
          /\ FirstWritten(handler[u][s])
  BY DEF WriteSecond, StartTxn, CommitTxn, FailTxn, FirstWritten, SecondWritten
<1> DEFINE h == [handler[u][s] EXCEPT !.pc = pc, !.ack = ack]
<1>4. Puts(u, s, h)
  BY <1>3 DEF Advance, Puts
<1>5. /\ h.pc = pc /\ h.ack = ack /\ h.kind = handler[u][s].kind
      /\ h.peer = handler[u][s].peer
  BY <1>2 DEF WriterStates, Run
<1> HIDE DEF h
<1>6. FirstWritten(h) /\ (SecondWritten(h) <=> pc = "txn")
  BY <1>3, <1>5 DEF FirstWritten, SecondWritten
<1>7. Leaves
  <2>1. CASE queue' = queue
    BY <2>1 DEF Leaves
  <2>2. CASE WriteSecond(u, s)
    <3> DEFINE d == SecondDoc(handler[u][s].kind, u, handler[u][s].peer)
               m == WriteTo(d, handler[u][s].kind, u, s)
    <3>1. d \in Users \X Users /\ handler[u][s].kind \in WriteKinds
      BY <1>1, Writer, DocsOfHandler
    <3>2. m \in Mutations
      BY <3>1, WriteIsMutation
    <3>3. Enqueue(u, m)
      BY <2>2 DEF WriteSecond
    <3>4. m.slot # NoSlot
      BY NoSlotAssumption DEF WriteTo
    <3>5. QED
      BY <3>2, <3>3, <3>4, EnqueueLeaves
  <2>3. QED
    BY <2>1, <2>2 DEF StartTxn, CommitTxn, FailTxn
<1>8. UNCHANGED <<req, suspect, clean>>
  BY DEF WriteSecond, StartTxn, CommitTxn, FailTxn, stored, history
<1>9. QED
  BY <1>1, <1>3, <1>4, <1>5, <1>6, <1>7, <1>8, WriterSteady

\* Whose write the oldest of a queue is.
LEMMA Answered ==
    ASSUME TypeOK, WritesOwned, NEW u \in Users, NEW ack \in {"ok", "err"}, 1 \in DOMAIN queue[u],
           Acknowledge(u, queue[u][1], ack)
    PROVE  \/ queue[u][1].slot = NoSlot /\ handler' = handler
           \/ \E s \in Slots : \E h :
                 /\ queue[u][1].slot = s /\ Puts(u, s, h)
                 /\ h.pc = handler[u][s].pc /\ h.ack = ack
                 /\ h.kind = handler[u][s].kind /\ h.peer = handler[u][s].peer
<1>1. CASE queue[u][1].slot = NoSlot
  BY <1>1 DEF Acknowledge
<1>2. ASSUME NEW s \in Slots, queue[u][1].slot = s
      PROVE  \E h : /\ Puts(u, s, h)
                    /\ h.pc = handler[u][s].pc /\ h.ack = ack
                    /\ h.kind = handler[u][s].kind /\ h.peer = handler[u][s].peer
  <2>1. handler[u][s] \in WriterStates
    BY <1>2, WaitAbout, Writer
  <2> DEFINE h == [handler[u][s] EXCEPT !.ack = ack]
  <2>2. Puts(u, s, h)
    BY <1>2, NoSlotAssumption DEF Acknowledge, Puts
  <2>3. /\ h.pc = handler[u][s].pc /\ h.ack = ack
        /\ h.kind = handler[u][s].kind /\ h.peer = handler[u][s].peer
    BY <2>1 DEF WriterStates, Run
  <2>4. QED
    BY <2>2, <2>3
<1>3. queue[u][1].slot \in Slots \cup {NoSlot}
  BY QueueType
<1>4. QED
  BY <1>1, <1>2, <1>3

LEMMA RefuseSteady ==
    ASSUME TypeOK, WritesOwned, NEW u \in Users, RefuseHead(u)
    PROVE  Steady
<1>1. Leaves /\ 1 \in DOMAIN queue[u] /\ Head(queue[u]) = queue[u][1]
  BY TailLeaves DEF RefuseHead
<1>2. UNCHANGED <<req, suspect, clean>> /\ Acknowledge(u, queue[u][1], "err")
  BY <1>1 DEF RefuseHead, stored, history
<1>3. CASE handler' = handler
  BY <1>1, <1>2, <1>3, StillSteady
<1>4. ASSUME NEW s \in Slots, NEW h, queue[u][1].slot = s,
             Puts(u, s, h),
             h.pc = handler[u][s].pc, h.ack = "err",
             h.kind = handler[u][s].kind, h.peer = handler[u][s].peer
      PROVE  Steady
  <2>1. Writing(u, s) /\ handler[u][s].ack = "wait" /\ handler[u][s].pc # "txn"
    BY <1>1, <1>4, WaitAbout
  <2>2. h.pc \in {"first", "second", "txn"}
    BY <1>4, <2>1 DEF Writing
  <2>3. /\ FirstWritten(h) <=> FirstWritten(handler[u][s])
        /\ SecondWritten(h) <=> SecondWritten(handler[u][s])
    BY <1>4, <2>1 DEF FirstWritten, SecondWritten
  <2>4. QED
    BY <1>1, <1>2, <1>4, <2>1, <2>2, <2>3, WriterSteady
<1>5. QED
  BY <1>1, <1>2, <1>3, <1>4, Answered

-----------------------------------------------------------------------------
(***************************************************************************)
(* The server applies a write.                                             *)
(***************************************************************************)
LEMMA CommitKeeps ==
    ASSUME TypeOK, WritesOwned, NEW u \in Users, CommitHead(u)
    PROVE  /\ Keeps /\ 1 \in DOMAIN queue[u] /\ Head(queue[u]) = queue[u][1]
           /\ \A v \in Users : \A t \in Slots : v # u \/ queue[u][1].slot # t =>
                  handler'[v][t] = handler[v][t]
           /\ \A t \in Slots : queue[u][1].slot = t =>
                  /\ handler'[u][t].pc = handler[u][t].pc /\ handler'[u][t].ack = "ok"
                  /\ handler'[u][t].kind = handler[u][t].kind
                  /\ handler'[u][t].peer = handler[u][t].peer
<1>1. Leaves /\ 1 \in DOMAIN queue[u] /\ Head(queue[u]) = queue[u][1]
  BY TailLeaves DEF CommitHead
<1>2. UNCHANGED <<suspect, clean>> /\ Acknowledge(u, queue[u][1], "ok")
  BY <1>1 DEF CommitHead, history
<1>3. \/ queue[u][1].slot = NoSlot /\ handler' = handler
      \/ \E s \in Slots : \E h :
            /\ queue[u][1].slot = s /\ Puts(u, s, h)
            /\ h.pc = handler[u][s].pc /\ h.ack = "ok"
            /\ h.kind = handler[u][s].kind /\ h.peer = handler[u][s].peer
  BY <1>1, <1>2, Answered
<1>4. CASE queue[u][1].slot = NoSlot /\ handler' = handler
  <2>1. Keeps
    BY <1>1, <1>2, <1>4 DEF Keeps, Leaves, Writing
  <2>2. QED
    BY <1>1, <1>4, <2>1, NoSlotAssumption
<1>5. ASSUME NEW s \in Slots, NEW h, queue[u][1].slot = s,
             Puts(u, s, h),
             h.pc = handler[u][s].pc, h.ack = "ok",
             h.kind = handler[u][s].kind, h.peer = handler[u][s].peer
      PROVE  /\ Keeps
             /\ \A v \in Users : \A t \in Slots : v # u \/ queue[u][1].slot # t =>
                    handler'[v][t] = handler[v][t]
             /\ \A t \in Slots : queue[u][1].slot = t =>
                    /\ handler'[u][t].pc = handler[u][t].pc /\ handler'[u][t].ack = "ok"
                    /\ handler'[u][t].kind = handler[u][t].kind
                    /\ handler'[u][t].peer = handler[u][t].peer
  <2>1. /\ handler'[u][s] = h
        /\ \A v \in Users : \A t \in Slots : v # u \/ t # s => handler'[v][t] = handler[v][t]
    BY <1>5, OneSet
  <2>2. ASSUME NEW v \in Users, NEW t \in Slots
        PROVE  /\ handler'[v][t].pc = handler[v][t].pc
               /\ handler'[v][t].kind = handler[v][t].kind
               /\ handler'[v][t].peer = handler[v][t].peer
    <3>1. CASE v = u /\ t = s
      BY <1>5, <2>1, <3>1
    <3>2. CASE v # u \/ t # s
      BY <2>1, <3>2
    <3>3. QED
      BY <3>1, <3>2
  <2>3. Keeps
    BY <1>1, <1>2, <2>2 DEF Keeps, Leaves, Writing
  <2>4. QED
    BY <1>5, <2>1, <2>3
<1>6. QED
  BY <1>1, <1>3, <1>4, <1>5

LEMMA CommitSays ==
    ASSUME TypeOK, NEW u \in Users, CommitHead(u), 1 \in DOMAIN queue[u],
           Head(queue[u]) = queue[u][1]
    PROVE  /\ queue[u][1].doc \in Users \X Users
           /\ queue[u][1].slot \in Slots \cup {NoSlot}
           /\ Says(req', queue[u][1].doc, queue[u][1].status)
           /\ \A d \in Users \X Users : d # queue[u][1].doc => req'[d] = req[d]
<1> DEFINE w == queue[u][1]
<1>1. w \in Mutations /\ w.slot \in Slots \cup {NoSlot} /\ w.doc \in Users \X Users
  BY QueueType
<1>2. req \in [Users \X Users -> Docs \cup {NoDoc}]
  BY DEF TypeOK
<1>3. w.op = "set" \/ req[w.doc] # NoDoc
  BY DEF CommitHead, Exists
<1>4. req' = [req EXCEPT ![w.doc] = Applied(w, req[w.doc])]
  BY DEF CommitHead
<1>5. w.status \in Statuses /\ w.from \in Users /\ w.op \in {"set", "update"}
  BY <1>1 DEF Mutations
<1> HIDE DEF w
<1>6. Applied(w, req[w.doc]) \in Docs /\ Applied(w, req[w.doc]).status = w.status
  <2>1. CASE w.op = "set"
    <3>1. Applied(w, req[w.doc]) = [status |-> w.status, from |-> w.from]
      BY <2>1 DEF Applied
    <3>2. QED
      BY <1>5, <3>1 DEF Docs
  <2>2. CASE w.op # "set"
    <3>1. Applied(w, req[w.doc]) = [req[w.doc] EXCEPT !.status = w.status]
      BY <2>2 DEF Applied
    <3>2. req[w.doc] \in Docs
      BY <1>1, <1>2, <1>3, <2>2
    <3>3. QED
      BY <1>5, <3>1, <3>2 DEF Docs
  <2>3. QED
    BY <2>1, <2>2
<1>7. /\ req'[w.doc] = Applied(w, req[w.doc])
      /\ \A d \in Users \X Users : d # w.doc => req'[d] = req[d]
  BY <1>1, <1>2, <1>4
<1>8. Says(req', w.doc, w.status)
  BY <1>6, <1>7, NoDocAssumption DEF Says
<1>9. QED
  BY <1>1, <1>7, <1>8 DEF w

\* A write about another pair is of neither document of this one.
LEMMA OtherDocs ==
    ASSUME NEW a \in Users, NEW b \in Users, NEW w, w.doc \in Users \X Users,
           w.doc = <<a, b>> \/ w.doc = <<b, a>>
    PROVE  About(w) = Sides(a, b)
BY DEF About, Sides

LEMMA CommitKept ==
    ASSUME TypeOK, WritesOwned, History, NEW u \in Users, CommitHead(u)
    PROVE  History'
<1> DEFINE w == queue[u][1]
<1>1. OrphansSuspect /\ Alone /\ Trusted /\ Effective /\ Agreeing
  BY DEF History
<1>2. Keeps /\ 1 \in DOMAIN queue[u] /\ Head(queue[u]) = w
  BY CommitKeeps
<1>3. OrphansSuspect' /\ Alone' /\ Trusted'
  BY <1>1, <1>2, PlacesKept
<1>4. suspect' = suspect /\ clean' = clean
  BY <1>2 DEF Keeps
<1>5. /\ w.doc \in Users \X Users /\ w.slot \in Slots \cup {NoSlot}
      /\ Says(req', w.doc, w.status)
      /\ \A d \in Users \X Users : d # w.doc => req'[d] = req[d]
  BY <1>2, CommitSays
<1>6. ASSUME NEW v \in Users, NEW t \in Slots, v # u \/ w.slot # t
      PROVE  handler'[v][t] = handler[v][t]
  BY <1>6, CommitKeeps
<1>7. ASSUME NEW r \in Slots, w.slot = r
      PROVE  /\ handler'[u][r].pc = handler[u][r].pc /\ handler'[u][r].ack = "ok"
             /\ handler'[u][r].kind = handler[u][r].kind
             /\ handler'[u][r].peer = handler[u][r].peer
             /\ Writing(u, r) /\ handler[u][r].pc \in {"first", "second"}
             /\ About(w) = On(u, r)
             /\ w.doc = CurrentDoc(u, r) /\ w.status = NewStatus[handler[u][r].kind]
  <2>1. /\ handler'[u][r].pc = handler[u][r].pc /\ handler'[u][r].ack = "ok"
        /\ handler'[u][r].kind = handler[u][r].kind
        /\ handler'[u][r].peer = handler[u][r].peer
    BY <1>7, CommitKeeps
  <2>2. /\ Writing(u, r) /\ handler[u][r].pc # "txn" /\ About(w) = On(u, r)
        /\ w.doc = CurrentDoc(u, r) /\ w.status = NewStatus[handler[u][r].kind]
    BY <1>2, <1>7, WaitAbout
  <2>3. handler[u][r].pc \in {"first", "second"}
    BY <2>2 DEF Writing
  <2>4. QED
    BY <2>1, <2>2, <2>3
<1>8. w.slot = NoSlot => About(w) \in suspect
  BY <1>1, <1>2 DEF OrphansSuspect
<1>9. ASSUME NEW v \in Users, NEW t \in Slots, <<v, t>> \in clean, w.slot = NoSlot
      PROVE  About(w) # On(v, t)
  BY <1>1, <1>2, <1>9 DEF Alone
<1> HIDE DEF w
<1>10. ASSUME NEW v \in Users, NEW t \in Slots, <<v, t>> \in clean'
       PROVE  Told(req', v, handler'[v][t])
  <2> DEFINE x == handler[v][t].peer
             k == handler[v][t].kind
             first == FirstDoc(k, v, x)
             second == SecondDoc(k, v, x)
  <2>1. <<v, t>> \in clean /\ Writing(v, t) /\ Told(req, v, handler[v][t])
    BY <1>1, <1>4, <1>10 DEF Alone, Effective
  <2>2. x \in Users /\ k \in WriteKinds /\ On(v, t) = Sides(v, x)
    BY <2>1, Writer DEF On
  <2>3. first \in {<<v, x>>, <<x, v>>} /\ second \in {<<v, x>>, <<x, v>>}
    BY <2>2, TwoDocs
  <2>4. /\ FirstWritten(handler[v][t]) => Says(req, first, NewStatus[k])
        /\ SecondWritten(handler[v][t]) => Says(req, second, NewStatus[k])
    BY <2>1 DEF Told
  <2>5. /\ handler'[v][t].kind = k /\ handler'[v][t].peer = x
    BY <1>2, <2>1 DEF Keeps
  <2>6. SUFFICES /\ FirstWritten(handler'[v][t]) => Says(req', first, NewStatus[k])
                 /\ SecondWritten(handler'[v][t]) => Says(req', second, NewStatus[k])
    BY <2>5 DEF Told
  <2>7. CurrentDoc(v, t) = IF handler[v][t].pc = "first" THEN first ELSE second
    BY DEF CurrentDoc
  <2> HIDE DEF x, first, second
  <2>8. first \in Users \X Users /\ second \in Users \X Users
    BY <2>2, <2>3
  <2>9. CASE About(w) # On(v, t)
    <3>1. handler'[v][t] = handler[v][t]
      BY <1>6, <1>7, <2>9
    <3>2. w.doc # <<v, x>> /\ w.doc # <<x, v>>
      BY <1>5, <2>2, <2>9, OtherDocs
    <3>3. req'[first] = req[first] /\ req'[second] = req[second]
      BY <1>5, <2>3, <2>8, <3>2
    <3>4. QED
      BY <2>4, <3>1, <3>3 DEF Says
  <2>10. CASE About(w) = On(v, t)
    <3>1. v = u /\ w.slot = t
      <4>1. w.slot # NoSlot
        BY <1>9, <2>1, <2>10
      <4>2. PICK r \in Slots : w.slot = r
        BY <1>5, <4>1
      <4>3. Writing(u, r) /\ On(u, r) = On(v, t)
        BY <1>7, <2>10, <4>2
      <4>4. u = v /\ r = t
        BY <1>1, <2>1, <4>3 DEF Alone
      <4>5. QED
        BY <4>2, <4>4
    <3>2. /\ handler'[v][t].pc = handler[v][t].pc /\ handler[v][t].pc \in {"first", "second"}
          /\ w.doc = CurrentDoc(v, t) /\ w.status = NewStatus[k]
      BY <1>7, <3>1
    <3>3. Says(req', w.doc, NewStatus[k])
      BY <1>5, <3>2
    <3>4. CASE handler[v][t].pc = "first"
      <4>1. ~SecondWritten(handler'[v][t])
        BY <3>2, <3>4 DEF SecondWritten
      <4>2. w.doc = first
        BY <2>7, <3>2, <3>4
      <4>3. QED
        BY <3>3, <4>1, <4>2
    <3>5. CASE handler[v][t].pc = "second"
      <4>1. Says(req, first, NewStatus[k])
        BY <2>4, <3>5 DEF FirstWritten
      <4>2. Says(req', second, NewStatus[k])
        BY <2>7, <3>2, <3>3, <3>5
      <4>3. Says(req', first, NewStatus[k])
        <5>1. CASE first = w.doc
          BY <3>3, <5>1
        <5>2. CASE first # w.doc
          BY <1>5, <2>8, <4>1, <5>2 DEF Says
        <5>3. QED
          BY <5>1, <5>2
      <4>4. QED
        BY <4>2, <4>3
    <3>6. QED
      BY <3>2, <3>4, <3>5
  <2>11. QED
    BY <2>9, <2>10
<1>11. Effective'
  BY <1>10 DEF Effective
<1>12. ASSUME NEW a \in Users, NEW b \in Users, a # b, Sides(a, b) \notin suspect',
              \A v \in Users : \A t \in Slots :
                  Writing(v, t)' /\ On(v, t)' = Sides(a, b) => ~FirstWritten(handler'[v][t])
       PROVE  Agree(req', a, b)
  <2>1. ASSUME NEW v \in Users, NEW t \in Slots, Writing(v, t), On(v, t) = Sides(a, b)
        PROVE  ~FirstWritten(handler'[v][t])
    <3>1. Writing(v, t)' /\ On(v, t)' = Sides(a, b)
      BY <1>2, <2>1, KeepsOn
    <3>2. QED
      BY <1>12, <3>1
  <2>2. About(w) # Sides(a, b)
    <3>1. SUFFICES ASSUME About(w) = Sides(a, b) PROVE FALSE
      OBVIOUS
    <3>2. w.slot # NoSlot
      BY <1>4, <1>8, <1>12, <3>1
    <3>3. PICK r \in Slots : w.slot = r
      BY <1>5, <3>2
    <3>4. /\ Writing(u, r) /\ On(u, r) = Sides(a, b)
          /\ handler'[u][r].pc \in {"first", "second"} /\ handler'[u][r].ack = "ok"
      BY <1>7, <3>1, <3>3
    <3>5. FirstWritten(handler'[u][r])
      BY <3>4 DEF FirstWritten
    <3>6. QED
      BY <2>1, <3>4, <3>5
  <2>3. ASSUME NEW v \in Users, NEW t \in Slots, Writing(v, t), On(v, t) = Sides(a, b)
        PROVE  ~FirstWritten(handler[v][t])
    <3>1. handler'[v][t] = handler[v][t]
      BY <1>6, <1>7, <2>2, <2>3
    <3>2. QED
      BY <2>1, <2>3, <3>1
  <2>4. Agree(req, a, b)
    BY <1>1, <1>4, <1>12, <2>3 DEF Agreeing
  <2>5. w.doc # <<a, b>> /\ w.doc # <<b, a>>
    BY <1>5, <2>2, OtherDocs
  <2>6. req'[<<a, b>>] = req[<<a, b>>] /\ req'[<<b, a>>] = req[<<b, a>>]
    BY <1>5, <2>5
  <2>7. QED
    BY <2>4, <2>6 DEF Agree
<1>13. Agreeing'
  BY <1>12 DEF Agreeing
<1>14. QED
  BY <1>3, <1>11, <1>13 DEF History

-----------------------------------------------------------------------------
(***************************************************************************)
(* A handler begins.                                                       *)
(***************************************************************************)
LEMMA Meeting ==
    ASSUME TypeOK, Alone, NEW u \in Users, NEW s \in Slots, NEW k \in WriteKinds,
           NEW x \in Users, AddWrite(u, s, k, x)
    PROVE  /\ \A v \in Users : \A t \in Slots : v # u \/ t # s =>
                  /\ <<v, t>> \in clean' => <<v, t>> \in clean /\ On(v, t) # Sides(u, x)
                  /\ <<v, t>> \in clean /\ On(v, t) # Sides(u, x) => <<v, t>> \in clean'
           /\ <<u, s>> \in clean' =>
                  /\ \A v \in Users : \A t \in Slots :
                         Writing(v, t) => On(v, t) # Sides(u, x)
                  /\ \A v \in Users : \A i \in DOMAIN queue[v] :
                         queue[v][i].slot = NoSlot => About(queue[v][i]) # Sides(u, x)
           /\ suspect \subseteq suspect'
           /\ Sides(u, x) \notin suspect' => <<u, s>> \in clean'
<1> DEFINE p == {u, x}
<1>1. p = Sides(u, x)
  BY DEF Sides
<1>2. ASSUME NEW v \in Users, NEW t \in Slots
      PROVE  /\ <<v, t>> \in ActiveOn(p) <=> Writing(v, t) /\ On(v, t) = Sides(u, x)
             /\ <<v, t>> \in clean => Writing(v, t)
  BY InActive DEF Alone
<1>3. <<u, s>> \notin clean
  BY <1>2 DEF AddWrite, Writing, Idle
<1>4. CASE Quiet(p)
  <2>1. clean' = clean \cup {<<u, s>>} /\ suspect' = suspect
    BY <1>4 DEF AddWrite
  <2>2. ActiveOn(p) = {} /\ ~Leftover(p)
    BY <1>4 DEF Quiet
  <2>3. ASSUME NEW v \in Users, NEW t \in Slots, Writing(v, t) PROVE On(v, t) # Sides(u, x)
    BY <1>2, <2>2, <2>3
  <2>4. ASSUME NEW v \in Users, NEW i \in DOMAIN queue[v], queue[v][i].slot = NoSlot
        PROVE  About(queue[v][i]) # Sides(u, x)
    BY <1>1, <2>2, <2>4 DEF Leftover, PairOf, About, Sides
  <2>5. QED
    BY <1>2, <2>1, <2>3, <2>4
<1>5. CASE ~Quiet(p)
  <2>1. clean' = clean \ ActiveOn(p) /\ suspect' = suspect \cup {Sides(u, x)}
    BY <1>1, <1>5 DEF AddWrite
  <2>2. QED
    BY <1>2, <1>3, <2>1
<1>6. QED
  BY <1>4, <1>5

LEMMA BeginsKept ==
    ASSUME TypeOK, History, NEW u \in Users, NEW s \in Slots, NEW k \in WriteKinds,
           NEW x \in Users, AddWrite(u, s, k, x)
    PROVE  History'
<1>1. OrphansSuspect /\ Alone /\ Trusted /\ Effective /\ Agreeing
  BY DEF History
<1>2. req' = req /\ ~Writing(u, s)
  BY DEF AddWrite, Writing, Idle, stored
<1>3. Leaves
  <2> DEFINE m == WriteTo(FirstDoc(k, u, x), k, u, s)
  <2>1. m \in Mutations
    BY DocsOfHandler, WriteIsMutation
  <2>2. m.slot # NoSlot
    BY NoSlotAssumption DEF WriteTo
  <2>3. Enqueue(u, m)
    BY DEF AddWrite
  <2>4. QED
    BY <2>1, <2>2, <2>3, EnqueueLeaves
<1>4. /\ handler'[u][s] = Start(k, x, "first")
      /\ \A v \in Users : \A t \in Slots : v # u \/ t # s => handler'[v][t] = handler[v][t]
  <2>1. Puts(u, s, Start(k, x, "first"))
    BY DEF AddWrite, Puts
  <2>2. QED
    BY <2>1, OneSet
<1>5. ASSUME NEW v \in Users, NEW t \in Slots, v # u \/ t # s
      PROVE  /\ handler'[v][t] = handler[v][t]
             /\ Writing(v, t)' <=> Writing(v, t)
             /\ On(v, t)' = On(v, t)
  BY <1>4, <1>5 DEF Writing, On
<1>6. /\ Writing(u, s)' /\ On(u, s)' = Sides(u, x)
      /\ ~FirstWritten(handler'[u][s]) /\ ~SecondWritten(handler'[u][s])
  BY <1>4 DEF Writing, On, Start, FirstWritten, SecondWritten
<1>7. /\ \A v \in Users : \A t \in Slots : v # u \/ t # s =>
             /\ <<v, t>> \in clean' => <<v, t>> \in clean /\ On(v, t) # Sides(u, x)
             /\ <<v, t>> \in clean /\ On(v, t) # Sides(u, x) => <<v, t>> \in clean'
      /\ <<u, s>> \in clean' =>
             /\ \A v \in Users : \A t \in Slots : Writing(v, t) => On(v, t) # Sides(u, x)
             /\ \A v \in Users : \A i \in DOMAIN queue[v] :
                    queue[v][i].slot = NoSlot => About(queue[v][i]) # Sides(u, x)
      /\ suspect \subseteq suspect'
      /\ Sides(u, x) \notin suspect' => <<u, s>> \in clean'
  BY <1>1, Meeting
<1>8. ASSUME NEW v \in Users, NEW i \in DOMAIN queue'[v], queue'[v][i].slot = NoSlot
      PROVE  \E j \in DOMAIN queue[v] : queue'[v][i] = queue[v][j]
  BY <1>3, <1>8 DEF Leaves
<1>9. OrphansSuspect'
  BY <1>1, <1>7, <1>8 DEF OrphansSuspect
<1>10. ASSUME NEW v \in Users, NEW t \in Slots, <<v, t>> \in clean'
       PROVE  /\ Writing(v, t)'
              /\ \A r \in Users : \A j \in Slots :
                     Writing(r, j)' /\ On(r, j)' = On(v, t)' => r = v /\ j = t
              /\ \A r \in Users : \A i \in DOMAIN queue'[r] :
                     queue'[r][i].slot = NoSlot => About(queue'[r][i]) # On(v, t)'
  <2>1. CASE v = u /\ t = s
    <3>1. ASSUME NEW r \in Users, NEW j \in Slots, Writing(r, j)', On(r, j)' = Sides(u, x)
          PROVE  r = u /\ j = s
      BY <1>5, <1>7, <1>10, <2>1, <3>1
    <3>2. ASSUME NEW r \in Users, NEW i \in DOMAIN queue'[r], queue'[r][i].slot = NoSlot
          PROVE  About(queue'[r][i]) # Sides(u, x)
      BY <1>7, <1>8, <1>10, <2>1, <3>2
    <3>3. QED
      BY <1>6, <2>1, <3>1, <3>2
  <2>2. CASE v # u \/ t # s
    <3>1. <<v, t>> \in clean /\ On(v, t) # Sides(u, x)
      BY <1>7, <1>10, <2>2
    <3>2. /\ Writing(v, t)
          /\ \A r \in Users : \A j \in Slots :
                 Writing(r, j) /\ On(r, j) = On(v, t) => r = v /\ j = t
          /\ \A r \in Users : \A i \in DOMAIN queue[r] :
                 queue[r][i].slot = NoSlot => About(queue[r][i]) # On(v, t)
      BY <1>1, <3>1 DEF Alone
    <3>3. Writing(v, t)' /\ On(v, t)' = On(v, t)
      BY <1>5, <2>2, <3>2
    <3>4. ASSUME NEW r \in Users, NEW j \in Slots, Writing(r, j)', On(r, j)' = On(v, t)'
          PROVE  r = v /\ j = t
      <4>1. CASE r = u /\ j = s
        BY <1>6, <3>1, <3>3, <3>4, <4>1
      <4>2. CASE r # u \/ j # s
        BY <1>5, <3>2, <3>3, <3>4, <4>2
      <4>3. QED
        BY <4>1, <4>2
    <3>5. ASSUME NEW r \in Users, NEW i \in DOMAIN queue'[r], queue'[r][i].slot = NoSlot
          PROVE  About(queue'[r][i]) # On(v, t)
      BY <1>8, <3>2, <3>5
    <3>6. QED
      BY <3>3, <3>4, <3>5
  <2>3. QED
    BY <2>1, <2>2
<1>11. Alone'
  BY <1>10 DEF Alone
<1>12. ASSUME NEW v \in Users, NEW t \in Slots, Writing(v, t)', On(v, t)' \notin suspect'
       PROVE  <<v, t>> \in clean'
  <2>1. CASE v = u /\ t = s
    BY <1>6, <1>7, <1>12, <2>1
  <2>2. CASE v # u \/ t # s
    <3>1. Writing(v, t) /\ On(v, t)' = On(v, t)
      BY <1>5, <1>12, <2>2
    <3>2. <<v, t>> \in clean
      BY <1>1, <1>7, <1>12, <3>1 DEF Trusted
    <3>3. CASE On(v, t) = Sides(u, x)
      BY <1>7, <1>12, <3>1, <3>2, <3>3, <1>1 DEF Alone
    <3>4. QED
      BY <1>7, <2>2, <3>2, <3>3
  <2>3. QED
    BY <2>1, <2>2
<1>13. Trusted'
  BY <1>12 DEF Trusted
<1>14. ASSUME NEW v \in Users, NEW t \in Slots, <<v, t>> \in clean'
       PROVE  Told(req', v, handler'[v][t])
  <2>1. CASE v = u /\ t = s
    BY <1>6, <2>1 DEF Told
  <2>2. CASE v # u \/ t # s
    <3>1. <<v, t>> \in clean
      BY <1>7, <1>14, <2>2
    <3>2. Told(req, v, handler[v][t])
      BY <1>1, <3>1 DEF Effective
    <3>3. QED
      BY <1>2, <1>5, <2>2, <3>2
  <2>3. QED
    BY <2>1, <2>2
<1>15. Effective'
  BY <1>14 DEF Effective
<1>16. ASSUME NEW a \in Users, NEW b \in Users, a # b, Sides(a, b) \notin suspect',
              \A v \in Users : \A t \in Slots :
                  Writing(v, t)' /\ On(v, t)' = Sides(a, b) => ~FirstWritten(handler'[v][t])
       PROVE  Agree(req', a, b)
  <2>1. ASSUME NEW v \in Users, NEW t \in Slots, Writing(v, t), On(v, t) = Sides(a, b)
        PROVE  ~FirstWritten(handler[v][t])
    <3>1. v # u \/ t # s
      BY <1>2, <2>1
    <3>2. Writing(v, t)' /\ On(v, t)' = Sides(a, b) /\ handler'[v][t] = handler[v][t]
      BY <1>5, <2>1, <3>1
    <3>3. ~FirstWritten(handler'[v][t])
      BY <1>16, <3>2
    <3>4. QED
      BY <3>2, <3>3
  <2>2. Agree(req, a, b)
    BY <1>1, <1>7, <1>16, <2>1 DEF Agreeing
  <2>3. QED
    BY <1>2, <2>2
<1>17. Agreeing'
  BY <1>16 DEF Agreeing
<1>18. QED
  BY <1>9, <1>11, <1>13, <1>15, <1>17 DEF History

-----------------------------------------------------------------------------
(***************************************************************************)
(* A handler ends.                                                         *)
(***************************************************************************)
LEMMA Ending ==
    ASSUME TypeOK, NEW u \in Users, NEW s \in Slots, FinishWrite(u, s)
    PROVE  /\ Writing(u, s) /\ handler[u][s].ack # "wait"
           /\ UNCHANGED <<req, queue>> /\ Puts(u, s, Idle)
           /\ clean' = clean \ {<<u, s>>}
           /\ SecondWritten(handler[u][s]) /\ <<u, s>> \in clean =>
                  suspect' = suspect \ {On(u, s)}
           /\ ~(SecondWritten(handler[u][s]) /\ <<u, s>> \in clean) => suspect \subseteq suspect'
           /\ ~SecondWritten(handler[u][s]) =>
                  \/ ~FirstWritten(handler[u][s])
                  \/ On(u, s) \in suspect'
<1> DEFINE h == handler[u][s]
           p == {u, h.peer}
<1>1. /\ Writing(u, s) /\ UNCHANGED <<req, queue>> /\ Puts(u, s, Idle)
      /\ clean' = clean \ {<<u, s>>}
  BY DEF FinishWrite, stored, Puts
<1>2. \/ h.ack = "err"
      \/ h.ack = "ok" /\ h.pc \in {"second", "txn"}
  BY DEF FinishWrite
<1>3. suspect' = CASE h.pc = "second" /\ h.ack = "err" -> suspect \cup {p}
                   [] h.pc = "first" -> suspect
                   [] OTHER -> IF <<u, s>> \in clean THEN suspect \ {p} ELSE suspect
  BY DEF FinishWrite
<1>4. p = On(u, s)
  BY DEF On, Sides
<1>5. h.pc \in {"first", "second", "txn"}
  BY <1>1 DEF Writing
<1> HIDE DEF h, p
<1>6. \/ h.pc = "second" /\ h.ack = "err" /\ suspect' = suspect \cup {p}
      \/ h.pc = "first" /\ h.ack = "err" /\ suspect' = suspect
      \/ /\ h.pc = "txn" \/ (h.pc = "second" /\ h.ack = "ok")
         /\ <<u, s>> \in clean => suspect' = suspect \ {p}
         /\ <<u, s>> \notin clean => suspect' = suspect
  <2>1. CASE h.pc = "second" /\ h.ack = "err"
    BY <1>3, <2>1
  <2>2. CASE h.pc = "first"
    BY <1>2, <1>3, <2>2
  <2>3. CASE h.pc = "txn" \/ (h.pc = "second" /\ h.ack = "ok")
    BY <1>3, <2>3
  <2>4. QED
    BY <1>2, <1>5, <2>1, <2>2, <2>3
<1>7. h = handler[u][s]
  BY DEF h
<1>8. QED
  BY <1>1, <1>2, <1>4, <1>6, <1>7 DEF FirstWritten, SecondWritten

LEMMA EndsKept ==
    ASSUME TypeOK, WritesOwned, History, NEW u \in Users, NEW s \in Slots, FinishWrite(u, s)
    PROVE  History'
<1> DEFINE x == handler[u][s].peer
           k == handler[u][s].kind
           won == SecondWritten(handler[u][s]) /\ <<u, s>> \in clean
<1>1. OrphansSuspect /\ Alone /\ Trusted /\ Effective /\ Agreeing
  BY DEF History
<1>2. /\ UNCHANGED <<req, queue>> /\ Writing(u, s) /\ handler[u][s].ack # "wait"
      /\ Puts(u, s, Idle)
  BY Ending
<1>3. /\ clean' = clean \ {<<u, s>>}
      /\ won => suspect' = suspect \ {On(u, s)}
      /\ ~won => suspect \subseteq suspect'
      /\ ~SecondWritten(handler[u][s]) =>
             ~FirstWritten(handler[u][s]) \/ On(u, s) \in suspect'
  BY Ending
<1>4. /\ handler'[u][s] = Idle
      /\ \A v \in Users : \A t \in Slots : v # u \/ t # s => handler'[v][t] = handler[v][t]
  BY <1>2, OneSet
<1>5. ASSUME NEW v \in Users, NEW t \in Slots, v # u \/ t # s
      PROVE  /\ handler'[v][t] = handler[v][t]
             /\ Writing(v, t)' <=> Writing(v, t)
             /\ On(v, t)' = On(v, t)
  BY <1>4, <1>5 DEF Writing, On
<1>6. ~Writing(u, s)'
  BY <1>4 DEF Writing, Idle
<1>7. x \in Users /\ k \in WriteKinds /\ On(u, s) = Sides(u, x)
  BY <1>2, Writer DEF On
<1>8. won => Says(req, <<u, x>>, NewStatus[k]) /\ Says(req, <<x, u>>, NewStatus[k])
  <2>1. won => /\ Says(req, FirstDoc(k, u, x), NewStatus[k])
               /\ Says(req, SecondDoc(k, u, x), NewStatus[k])
    BY <1>1 DEF Effective, Told, FirstWritten, SecondWritten
  <2>2. QED
    BY <1>7, <2>1, TwoDocs
<1>9. won => /\ \A v \in Users : \A t \in Slots :
                    Writing(v, t) /\ On(v, t) = On(u, s) => v = u /\ t = s
             /\ \A v \in Users : \A i \in DOMAIN queue[v] : About(queue[v][i]) # On(u, s)
  <2>1. won => /\ \A v \in Users : \A t \in Slots :
                      Writing(v, t) /\ On(v, t) = On(u, s) => v = u /\ t = s
               /\ \A v \in Users : \A i \in DOMAIN queue[v] :
                      queue[v][i].slot = NoSlot => About(queue[v][i]) # On(u, s)
    BY <1>1 DEF Alone
  <2>2. ASSUME won, NEW v \in Users, NEW i \in DOMAIN queue[v], NEW r \in Slots,
               queue[v][i].slot = r
        PROVE  About(queue[v][i]) # On(u, s)
    <3>1. Writing(v, r) /\ handler[v][r].ack = "wait" /\ About(queue[v][i]) = On(v, r)
      BY <2>2, WaitAbout
    <3>2. QED
      BY <1>2, <2>1, <2>2, <3>1
  <2>3. ASSUME NEW v \in Users, NEW i \in DOMAIN queue[v]
        PROVE  queue[v][i].slot = NoSlot \/ \E r \in Slots : queue[v][i].slot = r
    BY QueueType
  <2>4. QED
    BY <2>1, <2>2, <2>3
<1>10. SecondWritten(handler[u][s]) /\ <<u, s>> \notin clean => On(u, s) \in suspect
  BY <1>1, <1>2 DEF Trusted
<1>11. won <=> SecondWritten(handler[u][s]) /\ <<u, s>> \in clean
  OBVIOUS
<1> HIDE DEF x, k, won
<1>12. ASSUME NEW v \in Users, NEW i \in DOMAIN queue'[v], queue'[v][i].slot = NoSlot
       PROVE  About(queue'[v][i]) \in suspect'
  BY <1>1, <1>2, <1>3, <1>9, <1>12 DEF OrphansSuspect
<1>13. OrphansSuspect'
  BY <1>12 DEF OrphansSuspect
<1>14. ASSUME NEW v \in Users, NEW t \in Slots, <<v, t>> \in clean'
       PROVE  /\ v # u \/ t # s
              /\ <<v, t>> \in clean /\ Writing(v, t) /\ Writing(v, t)'
              /\ handler'[v][t] = handler[v][t] /\ On(v, t)' = On(v, t)
  <2>1. (v # u \/ t # s) /\ <<v, t>> \in clean
    BY <1>3, <1>14
  <2>2. Writing(v, t)
    BY <1>1, <2>1 DEF Alone
  <2>3. QED
    BY <1>5, <2>1, <2>2
<1>15. ASSUME NEW v \in Users, NEW t \in Slots, <<v, t>> \in clean'
       PROVE  /\ Writing(v, t)'
              /\ \A r \in Users : \A j \in Slots :
                     Writing(r, j)' /\ On(r, j)' = On(v, t)' => r = v /\ j = t
              /\ \A r \in Users : \A i \in DOMAIN queue'[r] :
                     queue'[r][i].slot = NoSlot => About(queue'[r][i]) # On(v, t)'
  <2>1. <<v, t>> \in clean /\ Writing(v, t)' /\ On(v, t)' = On(v, t)
    BY <1>14, <1>15
  <2>2. /\ \A r \in Users : \A j \in Slots :
               Writing(r, j) /\ On(r, j) = On(v, t) => r = v /\ j = t
        /\ \A r \in Users : \A i \in DOMAIN queue[r] :
               queue[r][i].slot = NoSlot => About(queue[r][i]) # On(v, t)
    BY <1>1, <2>1 DEF Alone
  <2>3. ASSUME NEW r \in Users, NEW j \in Slots, Writing(r, j)', On(r, j)' = On(v, t)'
        PROVE  r = v /\ j = t
    <3>1. r # u \/ j # s
      BY <1>6, <2>3
    <3>2. Writing(r, j) /\ On(r, j) = On(v, t)
      BY <1>5, <2>1, <2>3, <3>1
    <3>3. QED
      BY <2>2, <3>2
  <2>4. QED
    BY <1>2, <2>1, <2>2, <2>3
<1>16. Alone'
  BY <1>15 DEF Alone
<1>17. ASSUME NEW v \in Users, NEW t \in Slots, Writing(v, t)', On(v, t)' \notin suspect'
       PROVE  <<v, t>> \in clean'
  <2>1. v # u \/ t # s
    BY <1>6, <1>17
  <2>2. Writing(v, t) /\ On(v, t) \notin suspect' /\ <<v, t>> # <<u, s>>
    BY <1>5, <1>17, <2>1
  <2>3. On(v, t) \notin suspect
    BY <1>3, <1>9, <2>1, <2>2
  <2>4. QED
    BY <1>1, <1>3, <2>2, <2>3 DEF Trusted
<1>18. Trusted'
  BY <1>17 DEF Trusted
<1>19. ASSUME NEW v \in Users, NEW t \in Slots, <<v, t>> \in clean'
       PROVE  Told(req', v, handler'[v][t])
  <2>1. <<v, t>> \in clean /\ handler'[v][t] = handler[v][t]
    BY <1>14, <1>19
  <2>2. Told(req, v, handler[v][t])
    BY <1>1, <2>1 DEF Effective
  <2>3. QED
    BY <1>2, <2>1, <2>2
<1>20. Effective'
  BY <1>19 DEF Effective
<1>21. ASSUME NEW a \in Users, NEW b \in Users, a # b, Sides(a, b) \notin suspect',
              \A v \in Users : \A t \in Slots :
                  Writing(v, t)' /\ On(v, t)' = Sides(a, b) => ~FirstWritten(handler'[v][t])
       PROVE  Agree(req', a, b)
  <2>1. ASSUME NEW v \in Users, NEW t \in Slots, v # u \/ t # s,
               Writing(v, t), On(v, t) = Sides(a, b)
        PROVE  ~FirstWritten(handler[v][t])
    <3>1. Writing(v, t)' /\ On(v, t)' = Sides(a, b) /\ handler'[v][t] = handler[v][t]
      BY <1>5, <2>1
    <3>2. ~FirstWritten(handler'[v][t])
      BY <1>21, <3>1
    <3>3. QED
      BY <3>1, <3>2
  <2>2. CASE won /\ On(u, s) = Sides(a, b)
    <3>1. Sides(u, x) = Sides(a, b)
      BY <1>7, <2>2
    <3>2. (u = a /\ x = b) \/ (u = b /\ x = a)
      BY <1>21, <3>1 DEF Sides
    <3>3. Says(req, <<u, x>>, NewStatus[k]) /\ Says(req, <<x, u>>, NewStatus[k])
      BY <1>8, <2>2
    <3>4. QED
      BY <1>2, <3>2, <3>3 DEF Says, Agree
  <2>3. CASE ~(won /\ On(u, s) = Sides(a, b))
    <3>1. Sides(a, b) \notin suspect
      BY <1>3, <1>21, <2>3
    <3>2. On(u, s) = Sides(a, b) => ~FirstWritten(handler[u][s])
      BY <1>3, <1>10, <1>11, <1>21, <2>3, <3>1
    <3>3. Agree(req, a, b)
      BY <1>1, <1>21, <2>1, <3>1, <3>2 DEF Agreeing
    <3>4. QED
      BY <1>2, <3>3
  <2>4. QED
    BY <2>2, <2>3
<1>22. Agreeing'
  BY <1>21 DEF Agreeing
<1>23. QED
  BY <1>13, <1>16, <1>18, <1>20, <1>22 DEF History

-----------------------------------------------------------------------------
(***************************************************************************)
(* The app is killed.                                                      *)
(***************************************************************************)
LEMMA Killed ==
    ASSUME TypeOK, NEW u \in Users, Crash(u)
    PROVE  /\ req' = req /\ suspect \subseteq suspect' /\ clean' = clean \ ({u} \X Slots)
           /\ \A t \in Slots : handler'[u][t] = Idle
           /\ \A t \in Slots : Writing(u, t) => On(u, t) \in suspect'
           /\ \A v \in Users : v # u => handler'[v] = handler[v] /\ queue'[v] = queue[v]
           /\ DOMAIN queue'[u] = DOMAIN queue[u]
           /\ \A i \in DOMAIN queue[u] : queue'[u][i] = [queue[u][i] EXCEPT !.slot = NoSlot]
<1>1. /\ handler \in [Users -> [Slots -> HandlerStates \cup {Idle}]]
      /\ queue \in [Users -> Seq(Mutations)]
  BY DEF TypeOK
<1>2. /\ handler' = [handler EXCEPT ![u] = [s \in Slots |-> Idle]]
      /\ queue' = [queue EXCEPT ![u] =
             [i \in DOMAIN queue[u] |-> [queue[u][i] EXCEPT !.slot = NoSlot]]]
      /\ suspect' = suspect \cup Interrupted(u)
      /\ clean' = clean \ ({u} \X Slots)
      /\ req' = req
  BY DEF Crash, stored
<1>3. handler'[u] = [s \in Slots |-> Idle]
  BY <1>1, <1>2
<1>4. queue'[u] = [i \in DOMAIN queue[u] |-> [queue[u][i] EXCEPT !.slot = NoSlot]]
  BY <1>1, <1>2
<1>5. \A v \in Users : v # u => handler'[v] = handler[v] /\ queue'[v] = queue[v]
  BY <1>1, <1>2
<1>6. ASSUME NEW t \in Slots, Writing(u, t) PROVE On(u, t) \in suspect'
  BY <1>2, <1>6 DEF Interrupted, On, Sides
<1>7. QED
  BY <1>2, <1>3, <1>4, <1>5, <1>6

LEMMA DiesKept ==
    ASSUME TypeOK, WritesOwned, History, NEW u \in Users, Crash(u)
    PROVE  History'
<1>1. OrphansSuspect /\ Alone /\ Trusted /\ Effective /\ Agreeing
  BY DEF History
<1>2. /\ req' = req /\ suspect \subseteq suspect' /\ clean' = clean \ ({u} \X Slots)
      /\ \A t \in Slots : Writing(u, t) => On(u, t) \in suspect'
  BY Killed
<1>3. ASSUME NEW v \in Users, v # u, NEW t \in Slots
      PROVE  /\ handler'[v][t] = handler[v][t]
             /\ Writing(v, t)' <=> Writing(v, t)
             /\ On(v, t)' = On(v, t)
  <2>1. handler'[v] = handler[v]
    BY <1>3, Killed
  <2>2. QED
    BY <2>1 DEF Writing, On
<1>4. ASSUME NEW t \in Slots PROVE ~Writing(u, t)' /\ <<u, t>> \notin clean'
  <2>1. handler'[u][t] = Idle
    BY Killed
  <2>2. QED
    BY <1>2, <2>1 DEF Idle, Writing
\* What a write of this phone is about, and was about.
<1>5. ASSUME NEW v \in Users, NEW i \in DOMAIN queue'[v]
      PROVE  /\ i \in DOMAIN queue[v] /\ About(queue'[v][i]) = About(queue[v][i])
             /\ v # u => queue'[v][i].slot = queue[v][i].slot
  <2>1. CASE v = u
    <3>1. i \in DOMAIN queue[u] /\ queue'[u][i] = [queue[u][i] EXCEPT !.slot = NoSlot]
      BY <2>1, Killed
    <3>2. queue[u][i] \in Mutations
      BY <3>1, QueueType
    <3>3. queue'[u][i].doc = queue[u][i].doc
      BY <3>1, <3>2 DEF Mutations
    <3>4. QED
      BY <2>1, <3>1, <3>3 DEF About
  <2>2. CASE v # u
    <3>1. queue'[v] = queue[v]
      BY <2>2, Killed
    <3>2. QED
      BY <2>2, <3>1
  <2>3. QED
    BY <2>1, <2>2
<1>6. ASSUME NEW i \in DOMAIN queue[u]
      PROVE  \/ queue[u][i].slot = NoSlot
             \/ \E r \in Slots : Writing(u, r) /\ On(u, r) = About(queue[u][i])
  <2>1. CASE queue[u][i].slot \in Slots
    BY <2>1, WaitAbout
  <2>2. QED
    BY <2>1, QueueType
<1>7. ASSUME NEW v \in Users, NEW i \in DOMAIN queue'[v], queue'[v][i].slot = NoSlot
      PROVE  About(queue'[v][i]) \in suspect'
  <2>1. CASE queue[v][i].slot = NoSlot
    BY <1>1, <1>2, <1>5, <2>1 DEF OrphansSuspect
  <2>2. CASE v = u
    BY <1>2, <1>5, <1>6, <2>1, <2>2
  <2>3. QED
    BY <1>5, <1>7, <2>1, <2>2
<1>8. OrphansSuspect'
  BY <1>7 DEF OrphansSuspect
<1>9. ASSUME NEW v \in Users, NEW t \in Slots, <<v, t>> \in clean'
      PROVE  /\ Writing(v, t)'
             /\ \A r \in Users : \A j \in Slots :
                    Writing(r, j)' /\ On(r, j)' = On(v, t)' => r = v /\ j = t
             /\ \A r \in Users : \A i \in DOMAIN queue'[r] :
                    queue'[r][i].slot = NoSlot => About(queue'[r][i]) # On(v, t)'
  <2>1. <<v, t>> \in clean /\ v # u
    BY <1>2, <1>4, <1>9
  <2>2. /\ Writing(v, t)
        /\ \A r \in Users : \A j \in Slots :
               Writing(r, j) /\ On(r, j) = On(v, t) => r = v /\ j = t
        /\ \A r \in Users : \A i \in DOMAIN queue[r] :
               queue[r][i].slot = NoSlot => About(queue[r][i]) # On(v, t)
    BY <1>1, <2>1 DEF Alone
  <2>3. Writing(v, t)' /\ On(v, t)' = On(v, t)
    BY <1>3, <2>1, <2>2
  <2>4. ASSUME NEW r \in Users, NEW j \in Slots, Writing(r, j)', On(r, j)' = On(v, t)'
        PROVE  r = v /\ j = t
    <3>1. r # u
      BY <1>4, <2>4
    <3>2. Writing(r, j) /\ On(r, j) = On(v, t)
      BY <1>3, <2>3, <2>4, <3>1
    <3>3. QED
      BY <2>2, <3>2
  <2>5. ASSUME NEW r \in Users, NEW i \in DOMAIN queue'[r], queue'[r][i].slot = NoSlot
        PROVE  About(queue'[r][i]) # On(v, t)'
    <3>1. i \in DOMAIN queue[r] /\ About(queue'[r][i]) = About(queue[r][i])
      BY <1>5
    <3>2. CASE queue[r][i].slot = NoSlot
      BY <2>2, <2>3, <3>1, <3>2
    <3>3. CASE r = u /\ queue[r][i].slot # NoSlot
      <4>1. PICK j \in Slots : Writing(u, j) /\ On(u, j) = About(queue[u][i])
        BY <1>6, <3>1, <3>3
      <4>2. QED
        BY <2>1, <2>2, <2>3, <3>1, <3>3, <4>1
    <3>4. QED
      BY <1>5, <2>5, <3>2, <3>3
  <2>6. QED
    BY <2>3, <2>4, <2>5
<1>10. Alone'
  BY <1>9 DEF Alone
<1>11. ASSUME NEW v \in Users, NEW t \in Slots, Writing(v, t)', On(v, t)' \notin suspect'
       PROVE  <<v, t>> \in clean'
  <2>1. v # u
    BY <1>4, <1>11
  <2>2. Writing(v, t) /\ On(v, t) \notin suspect
    BY <1>2, <1>3, <1>11, <2>1
  <2>3. QED
    BY <1>1, <1>2, <2>1, <2>2 DEF Trusted
<1>12. Trusted'
  BY <1>11 DEF Trusted
<1>13. ASSUME NEW v \in Users, NEW t \in Slots, <<v, t>> \in clean'
       PROVE  Told(req', v, handler'[v][t])
  <2>1. <<v, t>> \in clean /\ v # u
    BY <1>2, <1>4, <1>13
  <2>2. handler'[v][t] = handler[v][t] /\ Told(req, v, handler[v][t])
    BY <1>1, <1>3, <2>1 DEF Effective
  <2>3. QED
    BY <1>2, <2>2
<1>14. Effective'
  BY <1>13 DEF Effective
<1>15. ASSUME NEW a \in Users, NEW b \in Users, a # b, Sides(a, b) \notin suspect',
              \A v \in Users : \A t \in Slots :
                  Writing(v, t)' /\ On(v, t)' = Sides(a, b) => ~FirstWritten(handler'[v][t])
       PROVE  Agree(req', a, b)
  <2>1. ASSUME NEW v \in Users, NEW t \in Slots, Writing(v, t), On(v, t) = Sides(a, b)
        PROVE  ~FirstWritten(handler[v][t])
    <3>1. v # u
      BY <1>2, <1>15, <2>1
    <3>2. Writing(v, t)' /\ On(v, t)' = Sides(a, b) /\ handler'[v][t] = handler[v][t]
      BY <1>3, <2>1, <3>1
    <3>3. ~FirstWritten(handler'[v][t])
      BY <1>15, <3>2
    <3>4. QED
      BY <3>2, <3>3
  <2>2. Agree(req, a, b)
    BY <1>1, <1>2, <1>15, <2>1 DEF Agreeing
  <2>3. QED
    BY <1>2, <2>2
<1>16. Agreeing'
  BY <1>15 DEF Agreeing
<1>17. QED
  BY <1>8, <1>10, <1>12, <1>14, <1>16 DEF History

-----------------------------------------------------------------------------
(***************************************************************************)
(* Every step keeps the history.                                           *)
(***************************************************************************)
LEMMA HistoryInit == Init => History
<1> SUFFICES ASSUME Init PROVE History
  OBVIOUS
<1>1. suspect = {} /\ clean = {} /\ req = [d \in Users \X Users |-> NoDoc]
  BY DEF Init
<1>2. ASSUME NEW u \in Users PROVE DOMAIN queue[u] = {}
  BY <1>2 DEF Init
<1>3. ASSUME NEW u \in Users, NEW s \in Slots PROVE ~Writing(u, s)
  BY <1>3 DEF Init, Writing, Idle
<1>4. OrphansSuspect
  BY <1>2 DEF OrphansSuspect
<1>5. Alone /\ Effective
  BY <1>1 DEF Alone, Effective
<1>6. Trusted
  BY <1>3 DEF Trusted
<1>7. Agreeing
  BY <1>1 DEF Agreeing, Agree
<1>8. QED
  BY <1>4, <1>5, <1>6, <1>7 DEF History

LEMMA HistoryStep == TypeOK /\ WritesOwned /\ History /\ [Next]_vars => History'
<1> SUFFICES ASSUME TypeOK, WritesOwned, History, [Next]_vars PROVE History'
  OBVIOUS
<1>1. ASSUME NEW u \in Users, CommitHead(u) PROVE History'
  BY <1>1, CommitKept
<1>2. ASSUME NEW u \in Users, RefuseHead(u) PROVE History'
  BY <1>2, RefuseSteady, SteadyKept
<1>3. ASSUME NEW u \in Users, Crash(u) PROVE History'
  BY <1>3, DiesKept
<1>4. ASSUME NEW u \in Users, NEW s \in Slots, NEW k \in WriteKinds, NEW x \in Users,
             AddWrite(u, s, k, x)
      PROVE  History'
  BY <1>4, BeginsKept
<1>5. ASSUME NEW u \in Users, NEW s \in Slots,
             \/ \E x \in Users : AddCheck(u, s, x)
             \/ AddLoad(u, s) \/ AnswerCheck(u, s) \/ AnswerPending(u, s)
             \/ AnswerIncoming(u, s) \/ FailRead(u, s) \/ FinishRead(u, s)
      PROVE  History'
  <2>1. Steady
    BY <1>5, ReadsSteady
  <2>2. QED
    BY <2>1, SteadyKept
<1>6. ASSUME NEW u \in Users, NEW s \in Slots,
             WriteSecond(u, s) \/ StartTxn(u, s) \/ CommitTxn(u, s) \/ FailTxn(u, s)
      PROVE  History'
  <2>1. Steady
    BY <1>6, AdvanceSteady
  <2>2. QED
    BY <2>1, SteadyKept
<1>7. ASSUME NEW u \in Users, NEW s \in Slots, FinishWrite(u, s) PROVE History'
  BY <1>7, EndsKept
<1>8. CASE UNCHANGED vars
  <2>1. UNCHANGED <<req, handler, queue, suspect, clean>>
    BY <1>8 DEF vars
  <2>2. Leaves
    BY <2>1 DEF Leaves
  <2>3. Steady
    BY <2>1, <2>2, StillSteady
  <2>4. QED
    BY <2>3, SteadyKept
<1>9. CASE Next
  <2>1. PICK u \in Users : \/ Server(u) \/ Crash(u)
                           \/ \E s \in Slots : AddEvent(u, s) \/ Progress(u, s)
    BY <1>9 DEF Next
  <2>2. CASE Server(u) \/ Crash(u)
    BY <1>1, <1>2, <1>3, <2>2 DEF Server
  <2>3. ASSUME NEW s \in Slots, AddEvent(u, s) PROVE History'
    BY <1>4, <1>5, <2>3 DEF AddEvent
  <2>4. ASSUME NEW s \in Slots, Progress(u, s) PROVE History'
    BY <1>5, <1>6, <1>7, <2>4 DEF Progress
  <2>5. QED
    BY <2>1, <2>2, <2>3, <2>4
<1>10. QED
  BY <1>8, <1>9

\* Theorem 7.  The two copies of a request agree when nobody changes them,
\* unless an overlap of two handlers, a crash between the two writes or a
\* refused second write came after the last undisturbed handler.
THEOREM CopiesStayEqual == Spec => []CopiesAgree
<1>1. History => CopiesAgree
  <2>1. SUFFICES ASSUME History, NEW a \in Users, NEW b \in Users,
                        a # b, {a, b} \notin suspect, Quiet({a, b})
                 PROVE  SameStatus(<<a, b>>, <<b, a>>)
    BY DEF CopiesAgree
  <2>2. \A v \in Users : \A t \in Slots : ~(Writing(v, t) /\ On(v, t) = Sides(a, b))
    <3>1. ActiveOn({a, b}) = {}
      BY <2>1 DEF Quiet
    <3>2. QED
      BY <3>1, InActive
  <2>3. Sides(a, b) \notin suspect /\ Agreeing
    BY <2>1 DEF Sides, History
  <2>4. Agree(req, a, b)
    BY <2>1, <2>2, <2>3 DEF Agreeing
  <2>5. QED
    BY <2>4 DEF Agree, SameStatus, Exists
<1>2. QED
  BY <1>1, HistoryInit, HistoryStep, TypeCorrect, AnswersReachTheirHandler, PTL DEF Spec

-----------------------------------------------------------------------------
(***************************************************************************)
(* The spinner.                                                            *)
(***************************************************************************)
Spins(u) == bloc[u].tag \in {"Sending", "Processing"}

\* Only u's bloc or u's handlers change, and a spinner of u has a handler.
LEMMA SpinnerKept ==
    ASSUME SpinnerHasHandler, NEW u \in Users,
           \A v \in Users : v # u =>
               bloc'[v] = bloc[v] /\ \A t \in Slots : Writing(v, t) => Writing(v, t)',
           \/ ~Spins(u)'
           \/ \E s \in Slots : Writing(u, s)'
           \/ bloc'[u] = bloc[u] /\ \A t \in Slots : Writing(u, t) => Writing(u, t)'
    PROVE  SpinnerHasHandler'
<1>1. ASSUME NEW v \in Users, bloc'[v] = bloc[v], \A t \in Slots : Writing(v, t) => Writing(v, t)',
             Spins(v)'
      PROVE  \E t \in Slots : Writing(v, t)'
  BY <1>1 DEF SpinnerHasHandler, Spins
<1>2. ASSUME NEW v \in Users, Spins(v)' PROVE \E t \in Slots : Writing(v, t)'
  BY <1>1, <1>2
<1>3. QED
  BY <1>2 DEF SpinnerHasHandler, Spins

\* A step that keeps the handlers may change the state of one bloc.
LEMMA KeepsSpinner ==
    ASSUME SpinnerHasHandler, Keeps, NEW u \in Users,
           \A v \in Users : v # u => bloc'[v] = bloc[v],
           ~Spins(u)' \/ bloc'[u] = bloc[u]
    PROVE  SpinnerHasHandler'
<1>1. \A v \in Users : \A t \in Slots : Writing(v, t) => Writing(v, t)'
  BY KeepsOn
<1>2. QED
  BY <1>1, SpinnerKept

LEMMA OneEmits ==
    ASSUME TypeOK, NEW u \in Users, NEW st, Emit(u, st)
    PROVE  bloc'[u] = st /\ \A v \in Users : v # u => bloc'[v] = bloc[v]
BY DEF TypeOK, Emit

LEMMA ReadsSpinner ==
    ASSUME TypeOK, SpinnerHasHandler, NEW u \in Users, NEW s \in Slots,
           \/ \E x \in Users : AddCheck(u, s, x)
           \/ AddLoad(u, s) \/ AnswerCheck(u, s) \/ AnswerPending(u, s)
           \/ AnswerIncoming(u, s) \/ FailRead(u, s) \/ FinishRead(u, s)
    PROVE  SpinnerHasHandler'
<1>1. Keeps
  BY ReadsSteady DEF Steady
<1>2. CASE bloc' = bloc
  BY <1>1, <1>2, KeepsSpinner
<1>3. ASSUME NEW st, Emit(u, st), st.tag \notin {"Sending", "Processing"}
      PROVE  SpinnerHasHandler'
  <2>1. bloc'[u] = st /\ \A v \in Users : v # u => bloc'[v] = bloc[v]
    BY <1>3, OneEmits
  <2>2. ~Spins(u)'
    BY <1>3, <2>1 DEF Spins
  <2>3. QED
    BY <1>1, <2>1, <2>2, KeepsSpinner
<1>4. CASE \E x \in Users : AddCheck(u, s, x)
  <2>1. Emit(u, State("Initial"))
    BY <1>4 DEF AddCheck
  <2>2. State("Initial").tag = "Initial"
    BY DEF State
  <2>3. QED
    BY <1>3, <2>1, <2>2
<1>5. CASE FinishRead(u, s)
  <2>1. ASSUME NEW status PROVE CheckResult(status).tag \notin {"Sending", "Processing"}
    BY DEF CheckResult, StatusLoaded, State
  <2>2. ASSUME NEW S PROVE UsersShown(S).tag \notin {"Sending", "Processing"}
    BY DEF UsersShown, State
  <2>3. State("Error").tag \notin {"Sending", "Processing"}
    BY DEF State
  <2>4. \/ Emit(u, CheckResult(handler[u][s].res))
        \/ Emit(u, UsersShown(handler[u][s].list))
        \/ Emit(u, State("Error"))
        \/ bloc' = bloc
    BY <1>5 DEF FinishRead
  <2>5. QED
    BY <1>2, <1>3, <2>1, <2>2, <2>3, <2>4
<1>6. QED
  BY <1>2, <1>4, <1>5 DEF AddLoad, AnswerCheck, AnswerPending, AnswerIncoming, FailRead

LEMMA SpinnerStep ==
    TypeOK /\ WritesOwned /\ SpinnerHasHandler /\ [Next]_vars => SpinnerHasHandler'
<1> SUFFICES ASSUME TypeOK, WritesOwned, SpinnerHasHandler, [Next]_vars
             PROVE  SpinnerHasHandler'
  OBVIOUS
<1>1. ASSUME NEW u \in Users, Server(u) PROVE SpinnerHasHandler'
  <2>1. Keeps
    BY <1>1, CommitKeeps, RefuseSteady DEF Server, Steady
  <2>2. bloc' = bloc
    BY <1>1 DEF Server, CommitHead, RefuseHead
  <2>3. QED
    BY <2>1, <2>2, KeepsSpinner
<1>2. ASSUME NEW u \in Users, Crash(u) PROVE SpinnerHasHandler'
  <2>1. bloc'[u] = State("Initial") /\ \A v \in Users : v # u => bloc'[v] = bloc[v]
    <3>1. Emit(u, State("Initial"))
      BY <1>2 DEF Crash
    <3>2. QED
      BY <3>1, OneEmits
  <2>2. ~Spins(u)'
    BY <2>1 DEF Spins, State
  <2>3. ASSUME NEW v \in Users, v # u, NEW t \in Slots, Writing(v, t) PROVE Writing(v, t)'
    <3>1. handler'[v] = handler[v]
      BY <1>2, <2>3, Killed
    <3>2. QED
      BY <2>3, <3>1 DEF Writing
  <2>4. QED
    BY <2>1, <2>2, <2>3, SpinnerKept
<1>3. ASSUME NEW u \in Users, NEW s \in Slots, NEW k \in WriteKinds, NEW x \in Users,
             AddWrite(u, s, k, x)
      PROVE  SpinnerHasHandler'
  <2>1. /\ handler'[u][s] = Start(k, x, "first")
        /\ \A v \in Users : \A t \in Slots : v # u \/ t # s => handler'[v][t] = handler[v][t]
    <3>1. Puts(u, s, Start(k, x, "first"))
      BY <1>3 DEF AddWrite, Puts
    <3>2. QED
      BY <3>1, OneSet
  <2>2. Writing(u, s)'
    BY <2>1 DEF Writing, Start
  <2>3. \A v \in Users : v # u => bloc'[v] = bloc[v]
    <3>1. PICK st : Emit(u, st)
      BY <1>3 DEF AddWrite
    <3>2. QED
      BY <3>1, OneEmits
  <2>4. \A v \in Users : v # u => \A t \in Slots : Writing(v, t) => Writing(v, t)'
    BY <2>1 DEF Writing
  <2>5. QED
    BY <2>2, <2>3, <2>4, SpinnerKept
<1>4. ASSUME NEW u \in Users, NEW s \in Slots,
             WriteSecond(u, s) \/ StartTxn(u, s) \/ CommitTxn(u, s) \/ FailTxn(u, s)
      PROVE  SpinnerHasHandler'
  <2>1. Keeps
    BY <1>4, AdvanceSteady DEF Steady
  <2>2. bloc' = bloc
    BY <1>4 DEF WriteSecond, StartTxn, CommitTxn, FailTxn
  <2>3. QED
    BY <2>1, <2>2, KeepsSpinner
<1>5. ASSUME NEW u \in Users, NEW s \in Slots, FinishWrite(u, s) PROVE SpinnerHasHandler'
  <2>1. Writing(u, s) /\ Puts(u, s, Idle)
    BY <1>5, Ending
  <2>2. \A v \in Users : \A t \in Slots : v # u \/ t # s => handler'[v][t] = handler[v][t]
    BY <2>1, OneSet
  <2>3. \A v \in Users : v # u => \A t \in Slots : Writing(v, t) => Writing(v, t)'
    BY <2>2 DEF Writing
  <2>4. PICK ok \in BOOLEAN : Emit(u, FinalState(handler[u][s].kind, ok))
    BY <1>5 DEF FinishWrite
  <2>5. /\ bloc'[u] = FinalState(handler[u][s].kind, ok)
        /\ \A v \in Users : v # u => bloc'[v] = bloc[v]
    BY <2>4, OneEmits
  <2>6. handler[u][s].kind \in WriteKinds
    BY <2>1, Writer
  <2>7. ~Spins(u)'
    BY <2>5, <2>6 DEF Spins, FinalState, StatusLoaded, State, WriteKinds
  <2>8. QED
    BY <2>3, <2>5, <2>7, SpinnerKept
<1>6. CASE UNCHANGED vars
  BY <1>6 DEF vars, SpinnerHasHandler, Writing
<1>7. CASE Next
  <2>1. PICK u \in Users : \/ Server(u) \/ Crash(u)
                           \/ \E s \in Slots : AddEvent(u, s) \/ Progress(u, s)
    BY <1>7 DEF Next
  <2>2. ASSUME NEW s \in Slots, AddEvent(u, s) PROVE SpinnerHasHandler'
    BY <1>3, <2>2, ReadsSpinner DEF AddEvent
  <2>3. ASSUME NEW s \in Slots, Progress(u, s) PROVE SpinnerHasHandler'
    BY <1>4, <1>5, <2>3, ReadsSpinner DEF Progress
  <2>4. QED
    BY <1>1, <1>2, <2>1, <2>2, <2>3
<1>8. QED
  BY <1>6, <1>7

\* Theorem 8.  The spinner of the profile page and of the request rows is on
\* only while a handler that will replace it is running.
THEOREM SpinnerIsServed == Spec => []SpinnerHasHandler
<1>1. Init => SpinnerHasHandler
  BY DEF Init, SpinnerHasHandler, State
<1>2. QED
  BY <1>1, SpinnerStep, TypeCorrect, AnswersReachTheirHandler, PTL DEF Spec
=============================================================================
