-------------------------- MODULE GroupChatProofs ---------------------------
(***************************************************************************)
(* What holds of GroupChat for any users, phones and groups, whatever is   *)
(* done on the phones and whatever fails.                                  *)
(***************************************************************************)
EXTENDS GroupChat, SequenceTheorems, TLAPS

(***************************************************************************)
(* The inductive invariant.                                                *)
(***************************************************************************)
\* The pages of groups have a bloc with a user, those of one group a user who
\* looks at it.
PagesGrounded ==
    \A p \in Phones :
        /\ page[p].at \in {"list", "room", "add"} => owner[p] \in Users
        /\ page[p].at \in {"base", "room", "add"} => me[p] \in Users
        /\ page[p].at \in {"room", "add"} => page[p].room \in Rooms

\* A handler has such a bloc, and a group unless it is a load.
HandlersGrounded ==
    \A p \in Phones : \A s \in Slots : handler[p][s] # Idle =>
        /\ owner[p] \in Users
        /\ handler[p][s].kind # "load" => handler[p][s].room \in Rooms
        /\ handler[p][s].pc = "commit" => handler[p][s].doc \in Docs

\* What a queued write is to the handler that waits for it.
Fits(h, m) ==
    /\ h # Idle /\ h.pc = "write" /\ h.room = m.room
    /\ h.kind = "create" => m.op = "set" /\ m.doc.members = h.set
    /\ h.kind # "add"

\* A queued write with a slot belongs to the handler there, and is its only
\* one: an answer never reaches another handler.
Owned ==
    \A p \in Phones : \A u, v \in Users :
        \A i \in DOMAIN queue[p][u] : \A j \in DOMAIN queue[p][v] :
            queue[p][u][i].slot # NoSlot =>
                /\ Fits(handler[p][queue[p][u][i].slot], queue[p][u][i])
                /\ queue[p][v][j].slot = queue[p][u][i].slot => u = v /\ i = j

\* A group is in the queue only before it is on the server, and once: a
\* replay can not bring it back.
Fresh ==
    /\ dead \subseteq used
    /\ \A r \in Rooms : rooms[r] # NoRoom => r \in used \ dead
    /\ \A p, q \in Phones : \A u, v \in Users :
        \A i \in DOMAIN queue[p][u] : \A j \in DOMAIN queue[q][v] :
            queue[p][u][i].op = "set" =>
                /\ queue[p][u][i].doc \in Docs
                /\ queue[p][u][i].room \in used \ dead
                /\ rooms[queue[p][u][i].room] = NoRoom
                /\ queue[q][v][j].op = "set" /\ queue[q][v][j].room = queue[p][u][i].room
                       => p = q /\ u = v /\ i = j

\* A handler that will report members has them in the group.
Reports(h) == h # Idle /\ h.kind \in {"create", "add"} /\ h.pc = "ok"
Ready(p, s) ==
    \/ handler[p][s].room \in dead
    \/ handler[p][s].set \subseteq MembersOf(handler[p][s].room)
Settled == \A p \in Phones : \A s \in Slots : Reports(handler[p][s]) => Ready(p, s)

-----------------------------------------------------------------------------
(***************************************************************************)
(* Handlers and queues are what their types say.                           *)
(***************************************************************************)
\* A handler that runs is a record of all its fields.
LEMMA RunningHandler ==
    ASSUME TypeOK, NEW p \in Phones, NEW s \in Slots, handler[p][s] # Idle
    PROVE  handler[p][s] \in HandlerStates
BY DEF TypeOK

LEMMA LoadType ==
    ASSUME TypeOK, NEW p \in Phones
    PROVE  Load(p) \in HandlerStates /\ Load(p).kind = "load" /\ Load(p).pc = "read"
BY DEF TypeOK, Load, Run, HandlerStates, Kinds

\* A handler that starts with a user, a group and a set of users.
LEMMA RunType ==
    ASSUME NEW k \in Kinds, NEW u \in Users \cup {NoUser}, NEW r \in Rooms,
           NEW S \in SUBSET Users, NEW pc \in {"write", "get"}
    PROVE  /\ Run(k, u, r, S, pc) \in HandlerStates
           /\ Run(k, u, r, S, pc) # Idle
           /\ Run(k, u, r, S, pc).kind = k /\ Run(k, u, r, S, pc).room = r
           /\ Run(k, u, r, S, pc).set = S /\ Run(k, u, r, S, pc).pc = pc
BY DEF Run, HandlerStates, Idle

\* A handler is more than the mark of a free slot.
LEMMA NotIdle == \A h \in HandlerStates : h # Idle
BY DEF HandlerStates, Idle

\* A step of a handler changes one slot.
LEMMA SetType ==
    ASSUME TypeOK, NEW p \in Phones, NEW s \in Slots,
           NEW h \in HandlerStates \cup {Idle}, Set(p, s, h)
    PROVE  /\ handler' \in [Phones -> [Slots -> HandlerStates \cup {Idle}]]
           /\ handler'[p][s] = h
           /\ \A q \in Phones : \A t \in Slots :
                  q # p \/ t # s => handler'[q][t] = handler[q][t]
BY DEF TypeOK, Set

\* An assignment to the step of a handler is such a step.
LEMMA StepIsSet ==
    ASSUME TypeOK, NEW p \in Phones, NEW s \in Slots, handler[p][s] # Idle,
           NEW pc \in {"write", "ok", "err", "read", "answer", "get", "commit"},
           handler' = [handler EXCEPT ![p][s].pc = pc]
    PROVE  /\ [handler[p][s] EXCEPT !.pc = pc] \in HandlerStates
           /\ Set(p, s, [handler[p][s] EXCEPT !.pc = pc])
<1>1. handler[p][s] \in HandlerStates
  BY RunningHandler
<1>2. [handler[p][s] EXCEPT !.pc = pc] \in HandlerStates
  BY <1>1 DEF HandlerStates
<1>3. Set(p, s, [handler[p][s] EXCEPT !.pc = pc])
  BY DEF TypeOK, Set
<1>4. QED
  BY <1>2, <1>3

\* A change of handlers that keeps what they rest on.
LEMMA SetGrounded ==
    ASSUME TypeOK, HandlersGrounded, NEW p \in Phones, NEW s \in Slots,
           NEW h \in HandlerStates \cup {Idle}, Set(p, s, h),
           \A q \in Phones : owner[q] \in Users => owner'[q] \in Users,
           h # Idle => /\ owner'[p] \in Users
                       /\ h.kind # "load" => h.room \in Rooms
                       /\ h.pc = "commit" => h.doc \in Docs
    PROVE  HandlersGrounded'
<1> SUFFICES ASSUME NEW q \in Phones, NEW t \in Slots, handler'[q][t] # Idle
             PROVE  /\ owner'[q] \in Users
                    /\ handler'[q][t].kind # "load" => handler'[q][t].room \in Rooms
                    /\ handler'[q][t].pc = "commit" => handler'[q][t].doc \in Docs
  BY DEF HandlersGrounded
<1>1. CASE q = p /\ t = s
  BY <1>1, SetType
<1>2. CASE ~(q = p /\ t = s)
  BY <1>2, SetType DEF HandlersGrounded
<1>3. QED
  BY <1>1, <1>2

\* What is in a queue is a write.
LEMMA QueuedWrite ==
    ASSUME TypeOK, NEW p \in Phones, NEW u \in Users
    PROVE  /\ queue[p][u] \in Seq(Mutations)
           /\ Len(queue[p][u]) \in Nat
           /\ DOMAIN queue[p][u] = 1 .. Len(queue[p][u])
           /\ \A i \in DOMAIN queue[p][u] : queue[p][u][i] \in Mutations
<1>1. queue[p][u] \in Seq(Mutations)
  BY DEF TypeOK
<1>2. QED
  BY <1>1, LenProperties, ElementOfSeq

LEMMA EnqueueType ==
    ASSUME TypeOK, NEW p \in Phones, me[p] \in Users, NEW m \in Mutations, Enqueue(p, m)
    PROVE  queue' \in [Phones -> [Users -> Seq(Mutations)]]
<1>1. queue[p][me[p]] \in Seq(Mutations)
  BY QueuedWrite
<1>2. Append(queue[p][me[p]], m) \in Seq(Mutations)
  BY <1>1, AppendProperties
<1>3. QED
  BY <1>2 DEF TypeOK, Enqueue

\* The positions of a queue after a write was appended.
LEMMA PlacesAfterAppend ==
    ASSUME TypeOK, NEW p \in Phones, me[p] \in Users, NEW m \in Mutations, Enqueue(p, m),
           NEW q \in Phones, NEW v \in Users, NEW i \in DOMAIN queue'[q][v]
    PROVE  \/ i \in DOMAIN queue[q][v] /\ queue'[q][v][i] = queue[q][v][i]
           \/ /\ q = p /\ v = me[p] /\ i = Len(queue[p][me[p]]) + 1
              /\ i \notin DOMAIN queue[q][v] /\ queue'[q][v][i] = m
<1> DEFINE old == queue[p][me[p]]
<1>1. CASE q = p /\ v = me[p]
  <2>1. queue'[q][v] = Append(old, m)
    BY <1>1 DEF TypeOK, Enqueue
  <2>2. old \in Seq(Mutations) /\ Len(old) \in Nat /\ DOMAIN old = 1 .. Len(old)
    BY QueuedWrite
  <2>3. Append(old, m) \in Seq(Mutations) /\ Len(Append(old, m)) = Len(old) + 1
    BY <2>2, AppendProperties
  <2>4. DOMAIN Append(old, m) = 1 .. Len(old) + 1
    BY <2>3, LenProperties
  <2>5. (\A j \in 1 .. Len(old) : Append(old, m)[j] = old[j]) /\ Append(old, m)[Len(old) + 1] = m
    BY <2>2, AppendProperties
  <2>6. i \in 1 .. Len(old) \/ i = Len(old) + 1
    BY <2>1, <2>2, <2>4
  <2>7. Len(old) + 1 \notin 1 .. Len(old)
    BY <2>2
  <2>8. QED
    BY <1>1, <2>1, <2>2, <2>5, <2>6, <2>7
<1>2. CASE ~(q = p /\ v = me[p])
  <2>1. queue'[q][v] = queue[q][v]
    BY <1>2 DEF TypeOK, Enqueue
  <2>2. QED
    BY <2>1
<1>3. QED
  BY <1>1, <1>2

\* The oldest write of an account, and that it is taken from its queue.
Oldest(p) == Head(queue[p][me[p]])
Taken(p) == queue' = [queue EXCEPT ![p][me[p]] = Tail(@)]

LEMMA TakenType ==
    ASSUME TypeOK, NEW p \in Phones, me[p] \in Users, queue[p][me[p]] # << >>, Taken(p)
    PROVE  /\ queue' \in [Phones -> [Users -> Seq(Mutations)]]
           /\ 1 \in DOMAIN queue[p][me[p]]
           /\ Oldest(p) = queue[p][me[p]][1]
           /\ Oldest(p) \in Mutations
<1> DEFINE old == queue[p][me[p]]
<1>1. old \in Seq(Mutations) /\ DOMAIN old = 1 .. Len(old)
  BY QueuedWrite
<1>2. Len(old) \in Nat \ {0}
  BY <1>1, EmptySeq
<1>3. Tail(old) \in Seq(Mutations) /\ Head(old) \in Mutations
  BY <1>1, HeadTailProperties
<1>4. queue' \in [Phones -> [Users -> Seq(Mutations)]]
  BY <1>3 DEF TypeOK, Taken
<1>5. Head(old) = old[1]
  BY <1>1, <1>2
<1>6. QED
  BY <1>1, <1>2, <1>3, <1>4, <1>5 DEF Oldest

\* The positions of a queue after its oldest write was taken.
Before(p, q, v, i) == IF q = p /\ v = me[p] THEN i + 1 ELSE i

LEMMA PlacesAfterTake ==
    ASSUME TypeOK, NEW p \in Phones, me[p] \in Users, queue[p][me[p]] # << >>, Taken(p),
           NEW q \in Phones, NEW v \in Users, NEW i \in DOMAIN queue'[q][v]
    PROVE  /\ Before(p, q, v, i) \in DOMAIN queue[q][v]
           /\ queue'[q][v][i] = queue[q][v][Before(p, q, v, i)]
           /\ i \in Nat \ {0}
<1> DEFINE old == queue[p][me[p]]
<1>1. CASE q = p /\ v = me[p]
  <2>1. queue'[q][v] = Tail(old)
    BY <1>1 DEF TypeOK, Taken
  <2>2. old \in Seq(Mutations) /\ Len(old) \in Nat /\ DOMAIN old = 1 .. Len(old)
    BY QueuedWrite
  <2>3. /\ Tail(old) \in Seq(Mutations) /\ Len(Tail(old)) = Len(old) - 1
        /\ \A j \in 1 .. Len(Tail(old)) : Tail(old)[j] = old[j + 1]
    BY <2>2, HeadTailProperties
  <2>4. DOMAIN Tail(old) = 1 .. Len(Tail(old))
    BY <2>3, LenProperties
  <2>5. i \in 1 .. Len(old) - 1
    BY <2>1, <2>3, <2>4
  <2>6. QED
    BY <1>1, <2>1, <2>2, <2>3, <2>4, <2>5 DEF Before
<1>2. CASE ~(q = p /\ v = me[p])
  <2>1. queue'[q][v] = queue[q][v]
    BY <1>2 DEF TypeOK, Taken
  <2>2. i \in Nat \ {0}
    BY <2>1, QueuedWrite
  <2>3. QED
    BY <1>2, <2>1, <2>2 DEF Before
<1>3. QED
  BY <1>1, <1>2

\* After a restart the same writes are queued, and none has a handler.
LEMMA PlacesAfterCrash ==
    ASSUME TypeOK, NEW p \in Phones, Crash(p)
    PROVE  /\ queue' \in [Phones -> [Users -> Seq(Mutations)]]
           /\ \A q \in Phones : \A v \in Users :
                  /\ DOMAIN queue'[q][v] = DOMAIN queue[q][v]
                  /\ \A i \in DOMAIN queue[q][v] :
                         queue'[q][v][i] = IF q = p THEN [queue[q][v][i] EXCEPT !.slot = NoSlot]
                                           ELSE queue[q][v][i]
<1> DEFINE orphans(u) == [i \in DOMAIN queue[p][u] |-> [queue[p][u][i] EXCEPT !.slot = NoSlot]]
<1>1. \A u \in Users : orphans(u) \in Seq(Mutations)
  <2> TAKE u \in Users
  <2>1. Len(queue[p][u]) \in Nat /\ DOMAIN queue[p][u] = 1 .. Len(queue[p][u])
    BY QueuedWrite
  <2>2. \A i \in DOMAIN queue[p][u] : [queue[p][u][i] EXCEPT !.slot = NoSlot] \in Mutations
    BY QueuedWrite DEF Mutations
  <2>3. orphans(u) \in [1 .. Len(queue[p][u]) -> Mutations]
    BY <2>1, <2>2
  <2>4. QED
    BY <2>1, <2>3, SeqDef
<1>2. queue' = [queue EXCEPT ![p] = [u \in Users |-> orphans(u)]]
  BY DEF Crash
<1>3. queue' \in [Phones -> [Users -> Seq(Mutations)]]
  BY <1>1, <1>2 DEF TypeOK
<1>4. ASSUME NEW q \in Phones, NEW v \in Users
      PROVE  /\ DOMAIN queue'[q][v] = DOMAIN queue[q][v]
             /\ \A i \in DOMAIN queue[q][v] :
                    queue'[q][v][i] = IF q = p THEN [queue[q][v][i] EXCEPT !.slot = NoSlot]
                                      ELSE queue[q][v][i]
  <2>1. CASE q = p
    <3>1. queue'[q][v] = orphans(v)
      BY <1>2, <2>1 DEF TypeOK
    <3>2. QED
      BY <2>1, <3>1
  <2>2. CASE q # p
    <3>1. queue'[q][v] = queue[q][v]
      BY <1>2, <2>2 DEF TypeOK
    <3>2. QED
      BY <2>2, <3>1
  <2>3. QED
    BY <2>1, <2>2
<1>5. QED
  BY <1>3, <1>4

-----------------------------------------------------------------------------
(***************************************************************************)
(* Answers of the server reach the handler that waits for them.            *)
(***************************************************************************)
LEMMA IdleOwned ==
    ASSUME Owned, UNCHANGED <<queue, handler>>
    PROVE  Owned'
BY DEF Owned

\* A handler that does not wait for a write may move on.
LEMMA MoveOwned ==
    ASSUME TypeOK, Owned, NEW p \in Phones, NEW s \in Slots,
           NEW h \in HandlerStates \cup {Idle}, Set(p, s, h), UNCHANGED queue,
           handler[p][s] # Idle => handler[p][s].pc # "write"
    PROVE  Owned'
<1> SUFFICES ASSUME NEW q \in Phones, NEW u \in Users, NEW v \in Users,
                    NEW i \in DOMAIN queue[q][u], NEW j \in DOMAIN queue[q][v],
                    queue[q][u][i].slot # NoSlot
             PROVE  /\ Fits(handler'[q][queue[q][u][i].slot], queue[q][u][i])
                    /\ queue[q][v][j].slot = queue[q][u][i].slot => u = v /\ i = j
  BY DEF Owned
<1>1. /\ Fits(handler[q][queue[q][u][i].slot], queue[q][u][i])
      /\ queue[q][v][j].slot = queue[q][u][i].slot => u = v /\ i = j
  BY DEF Owned
<1>2. queue[q][u][i].slot \in Slots
  BY QueuedWrite DEF Mutations
<1>3. ~(q = p /\ queue[q][u][i].slot = s)
  BY <1>1 DEF Fits
<1>4. handler'[q][queue[q][u][i].slot] = handler[q][queue[q][u][i].slot]
  BY <1>2, <1>3, SetType
<1>5. QED
  BY <1>1, <1>4

\* A handler starts with a write of its own.
LEMMA EnqueueOwned ==
    ASSUME TypeOK, Owned, NEW p \in Phones, me[p] \in Users, NEW s \in Slots,
           NEW h \in HandlerStates, handler[p][s] = Idle, Set(p, s, h),
           NEW m \in Mutations, Enqueue(p, m), m.slot = s, Fits(h, m)
    PROVE  Owned'
<1> SUFFICES ASSUME NEW q \in Phones, NEW u \in Users, NEW v \in Users,
                    NEW i \in DOMAIN queue'[q][u], NEW j \in DOMAIN queue'[q][v],
                    queue'[q][u][i].slot # NoSlot
             PROVE  /\ Fits(handler'[q][queue'[q][u][i].slot], queue'[q][u][i])
                    /\ queue'[q][v][j].slot = queue'[q][u][i].slot => u = v /\ i = j
  BY DEF Owned, Fits
<1>1. \A w \in Users : \A k \in DOMAIN queue[p][w] : queue[p][w][k].slot # s
  <2> SUFFICES ASSUME NEW w \in Users, NEW k \in DOMAIN queue[p][w], queue[p][w][k].slot = s
               PROVE  FALSE
    OBVIOUS
  <2>1. s # NoSlot
    BY NullAssumption
  <2>2. Fits(handler[p][s], queue[p][w][k])
    BY <2>1 DEF Owned
  <2>3. QED
    BY <2>2 DEF Fits
<1>2. CASE i \in DOMAIN queue[q][u] /\ queue'[q][u][i] = queue[q][u][i]
  <2>1. queue[q][u][i].slot \in Slots
    BY <1>2, QueuedWrite DEF Mutations
  <2>2. ~(q = p /\ queue[q][u][i].slot = s)
    BY <1>1, <1>2
  <2>3. handler'[q][queue[q][u][i].slot] = handler[q][queue[q][u][i].slot]
    BY <2>1, <2>2, SetType
  <2>4. Fits(handler[q][queue[q][u][i].slot], queue[q][u][i])
    BY <1>2 DEF Owned
  <2>5. queue'[q][v][j].slot = queue'[q][u][i].slot => u = v /\ i = j
    <3>1. CASE j \in DOMAIN queue[q][v] /\ queue'[q][v][j] = queue[q][v][j]
      BY <1>2, <3>1 DEF Owned
    <3>2. CASE q = p /\ queue'[q][v][j] = m
      BY <1>2, <2>2, <3>2
    <3>3. QED
      BY <3>1, <3>2, PlacesAfterAppend
  <2>6. QED
    BY <1>2, <2>3, <2>4, <2>5
<1>3. CASE q = p /\ u = me[p] /\ i = Len(queue[p][me[p]]) + 1 /\ queue'[q][u][i] = m
  <2>1. Fits(handler'[q][s], m)
    BY <1>3, SetType
  <2>2. queue'[q][v][j].slot = s => u = v /\ i = j
    <3>1. CASE j \in DOMAIN queue[q][v] /\ queue'[q][v][j] = queue[q][v][j]
      BY <1>1, <1>3, <3>1
    <3>2. CASE v = me[p] /\ j = Len(queue[p][me[p]]) + 1
      BY <1>3, <3>2
    <3>3. QED
      BY <3>1, <3>2, PlacesAfterAppend
  <2>3. QED
    BY <1>3, <2>1, <2>2
<1>4. QED
  BY <1>2, <1>3, PlacesAfterAppend

\* The handler of the oldest write, if it has one, waits for it.
LEMMA HeadOwned ==
    ASSUME TypeOK, Owned, NEW p \in Phones, me[p] \in Users, queue[p][me[p]] # << >>,
           Taken(p), Oldest(p).slot # NoSlot
    PROVE  /\ Oldest(p).slot \in Slots /\ Fits(handler[p][Oldest(p).slot], Oldest(p))
           /\ handler[p][Oldest(p).slot] \in HandlerStates
<1>1. Oldest(p) \in Mutations /\ Oldest(p) = queue[p][me[p]][1] /\ 1 \in DOMAIN queue[p][me[p]]
  BY TakenType
<1>2. Oldest(p).slot \in Slots
  BY <1>1 DEF Mutations
<1>3. Fits(handler[p][Oldest(p).slot], Oldest(p))
  BY <1>1 DEF Owned
<1>4. handler[p][Oldest(p).slot] \in HandlerStates
  BY <1>2, <1>3, RunningHandler DEF Fits
<1>5. QED
  BY <1>2, <1>3, <1>4

\* The answer to the oldest write: what becomes of the handlers.
LEMMA AcknowledgeMoves ==
    ASSUME TypeOK, Owned, NEW p \in Phones, me[p] \in Users, queue[p][me[p]] # << >>,
           Taken(p), NEW pc \in {"ok", "err"}, Acknowledge(p, Oldest(p), pc)
    PROVE  /\ handler' \in [Phones -> [Slots -> HandlerStates \cup {Idle}]]
           /\ \A q \in Phones : \A t \in Slots : ~(q = p /\ t = Oldest(p).slot) => handler'[q][t] = handler[q][t]
           /\ Oldest(p).slot # NoSlot => handler'[p][Oldest(p).slot] = [handler[p][Oldest(p).slot] EXCEPT !.pc = pc]
<1>1. CASE Oldest(p).slot = NoSlot
  BY <1>1 DEF Acknowledge, TypeOK
<1>2. CASE Oldest(p).slot # NoSlot
  <2>1. Oldest(p).slot \in Slots /\ handler[p][Oldest(p).slot] # Idle
    BY <1>2, HeadOwned DEF Fits
  <2>2. handler' = [handler EXCEPT ![p][Oldest(p).slot].pc = pc]
    BY <1>2 DEF Acknowledge
  <2>3. /\ [handler[p][Oldest(p).slot] EXCEPT !.pc = pc] \in HandlerStates
        /\ Set(p, Oldest(p).slot, [handler[p][Oldest(p).slot] EXCEPT !.pc = pc])
    BY <2>1, <2>2, StepIsSet
  <2>4. ASSUME NEW h \in HandlerStates, Set(p, Oldest(p).slot, h),
               h = [handler[p][Oldest(p).slot] EXCEPT !.pc = pc]
        PROVE  /\ handler' \in [Phones -> [Slots -> HandlerStates \cup {Idle}]]
               /\ \A q \in Phones : \A t \in Slots :
                      ~(q = p /\ t = Oldest(p).slot) => handler'[q][t] = handler[q][t]
               /\ handler'[p][Oldest(p).slot] = h
    BY <2>1, <2>4, SetType
  <2>5. QED
    BY <2>3, <2>4
<1>3. QED
  BY <1>1, <1>2

LEMMA AcknowledgeOwned ==
    ASSUME TypeOK, Owned, NEW p \in Phones, me[p] \in Users, queue[p][me[p]] # << >>,
           Taken(p), NEW pc \in {"ok", "err"}, Acknowledge(p, Oldest(p), pc)
    PROVE  Owned'
<1> SUFFICES ASSUME NEW q \in Phones, NEW u \in Users, NEW v \in Users,
                    NEW i \in DOMAIN queue'[q][u], NEW j \in DOMAIN queue'[q][v],
                    queue'[q][u][i].slot # NoSlot
             PROVE  /\ Fits(handler'[q][queue'[q][u][i].slot], queue'[q][u][i])
                    /\ queue'[q][v][j].slot = queue'[q][u][i].slot => u = v /\ i = j
  BY DEF Owned, Fits
<1> DEFINE k == Before(p, q, u, i)
           l == Before(p, q, v, j)
<1>1. /\ k \in DOMAIN queue[q][u] /\ queue'[q][u][i] = queue[q][u][k] /\ i \in Nat \ {0}
      /\ l \in DOMAIN queue[q][v] /\ queue'[q][v][j] = queue[q][v][l] /\ j \in Nat \ {0}
  BY PlacesAfterTake
<1>2. queue[q][v][l].slot = queue[q][u][k].slot => u = v /\ k = l
  BY <1>1 DEF Owned
<1>3. Fits(handler[q][queue[q][u][k].slot], queue[q][u][k])
  BY <1>1 DEF Owned
<1>4. ~(q = p /\ queue[q][u][k].slot = Oldest(p).slot)
  <2> SUFFICES ASSUME q = p, queue[q][u][k].slot = Oldest(p).slot PROVE FALSE
    OBVIOUS
  <2>1. Oldest(p) = queue[p][me[p]][1] /\ 1 \in DOMAIN queue[p][me[p]]
    BY TakenType
  <2>2. u = me[p] /\ k = 1
    BY <1>1, <2>1 DEF Owned
  <2>3. QED
    BY <1>1, <2>2 DEF Before
<1>5. queue[q][u][k].slot \in Slots
  BY <1>1, QueuedWrite DEF Mutations
<1>6. handler'[q][queue[q][u][k].slot] = handler[q][queue[q][u][k].slot]
  <2>1. \A t \in Slots : ~(q = p /\ t = Oldest(p).slot) => handler'[q][t] = handler[q][t]
    BY AcknowledgeMoves
  <2>2. QED
    BY <1>4, <1>5, <2>1
<1>7. k = l /\ u = v => i = j
  BY <1>1 DEF Before
<1>8. QED
  BY <1>1, <1>2, <1>3, <1>6, <1>7

\* A restart leaves nobody who waits.
LEMMA CrashOwned ==
    ASSUME TypeOK, Owned, NEW p \in Phones, Crash(p)
    PROVE  Owned'
<1> SUFFICES ASSUME NEW q \in Phones, NEW u \in Users, NEW v \in Users,
                    NEW i \in DOMAIN queue'[q][u], NEW j \in DOMAIN queue'[q][v],
                    queue'[q][u][i].slot # NoSlot
             PROVE  /\ Fits(handler'[q][queue'[q][u][i].slot], queue'[q][u][i])
                    /\ queue'[q][v][j].slot = queue'[q][u][i].slot => u = v /\ i = j
  BY DEF Owned, Fits
<1>1. i \in DOMAIN queue[q][u] /\ j \in DOMAIN queue[q][v]
  BY PlacesAfterCrash
<1>2. q # p
  <2>1. queue'[q][u][i] = IF q = p THEN [queue[q][u][i] EXCEPT !.slot = NoSlot]
                          ELSE queue[q][u][i]
    BY <1>1, PlacesAfterCrash
  <2>2. queue[q][u][i] \in Mutations
    BY <1>1, QueuedWrite
  <2>3. QED
    BY <2>1, <2>2 DEF Mutations
<1>3. queue'[q][u][i] = queue[q][u][i] /\ queue'[q][v][j] = queue[q][v][j]
  <2>1. queue'[q][u][i] = IF q = p THEN [queue[q][u][i] EXCEPT !.slot = NoSlot]
                          ELSE queue[q][u][i]
    BY <1>1, PlacesAfterCrash
  <2>2. queue'[q][v][j] = IF q = p THEN [queue[q][v][j] EXCEPT !.slot = NoSlot]
                          ELSE queue[q][v][j]
    BY <1>1, PlacesAfterCrash
  <2>3. QED
    BY <1>2, <2>1, <2>2
<1>4. handler'[q] = handler[q]
  BY <1>2 DEF Crash, TypeOK
<1>5. QED
  BY <1>1, <1>3, <1>4 DEF Owned

-----------------------------------------------------------------------------
(***************************************************************************)
(* The types, what pages and handlers rest on, and the owners of writes    *)
(* are kept by every step.                                                 *)
(***************************************************************************)
Sound == TypeOK /\ PagesGrounded /\ HandlersGrounded /\ Owned

\* What a step of the handlers and the queues has to keep.
Handled ==
    /\ handler' \in [Phones -> [Slots -> HandlerStates \cup {Idle}]]
    /\ queue' \in [Phones -> [Users -> Seq(Mutations)]]
    /\ HandlersGrounded' /\ Owned'

\* A handler that does not wait for a write moves on, or one starts.
LEMMA MoveKeeps ==
    ASSUME Sound, NEW p \in Phones, NEW s \in Slots,
           NEW h \in HandlerStates \cup {Idle}, Set(p, s, h), UNCHANGED queue,
           handler[p][s] # Idle => handler[p][s].pc # "write",
           \A q \in Phones : owner[q] \in Users => owner'[q] \in Users,
           h # Idle => /\ owner'[p] \in Users
                       /\ h.kind # "load" => h.room \in Rooms
                       /\ h.pc = "commit" => h.doc \in Docs
    PROVE  Handled
<1>1. TypeOK /\ HandlersGrounded /\ Owned
  BY DEF Sound
<1>2. HandlersGrounded'
  BY <1>1, SetGrounded
<1>3. Owned'
  BY <1>1, MoveOwned
<1>4. QED
  BY <1>1, <1>2, <1>3, SetType DEF Handled, TypeOK

LEMMA LoadKeeps ==
    ASSUME Sound, NEW p \in Phones, NEW s \in Slots, StartLoad(p, s), UNCHANGED queue,
           handler[p][s] # Idle => handler[p][s].pc # "write",
           \A q \in Phones : owner[q] \in Users => owner'[q] \in Users,
           owner'[p] \in Users
    PROVE  /\ Handled
           /\ bloc' \in [Phones -> [tag : Tags, list : SUBSET (Rooms \X Users)]]
<1>1. Load(p) \in HandlerStates /\ Load(p).kind = "load" /\ Load(p).pc = "read"
  BY LoadType DEF Sound
<1>2. Set(p, s, Load(p))
  BY DEF StartLoad
<1>3. Handled
  BY <1>1, <1>2, MoveKeeps
<1>4. bloc' \in [Phones -> [tag : Tags, list : SUBSET (Rooms \X Users)]]
  BY DEF StartLoad, Emit, BlocState, Tags, Sound, TypeOK
<1>5. QED
  BY <1>3, <1>4

LEMMA EndKeeps ==
    ASSUME Sound, NEW p \in Phones, NEW s \in Slots, Set(p, s, Idle),
           UNCHANGED <<queue, owner>>,
           handler[p][s] # Idle => handler[p][s].pc # "write"
    PROVE  Handled
BY MoveKeeps

\* Only the step of a running handler changes.
LEMMA StepKeeps ==
    ASSUME Sound, NEW p \in Phones, NEW s \in Slots, handler[p][s] # Idle,
           handler[p][s].pc # "write", NEW pc \in {"ok", "err", "get"},
           handler' = [handler EXCEPT ![p][s].pc = pc], UNCHANGED <<queue, owner>>
    PROVE  Handled
<1>1. TypeOK /\ handler[p][s] \in HandlerStates
  BY RunningHandler DEF Sound
<1>2. /\ [handler[p][s] EXCEPT !.pc = pc] \in HandlerStates
      /\ Set(p, s, [handler[p][s] EXCEPT !.pc = pc])
  BY <1>1, StepIsSet
<1>3. /\ owner[p] \in Users
      /\ handler[p][s].kind # "load" => handler[p][s].room \in Rooms
  BY DEF Sound, HandlersGrounded
<1>4. /\ [handler[p][s] EXCEPT !.pc = pc].kind = handler[p][s].kind
      /\ [handler[p][s] EXCEPT !.pc = pc].room = handler[p][s].room
      /\ [handler[p][s] EXCEPT !.pc = pc].pc = pc
  BY <1>1 DEF HandlerStates
<1>5. QED
  BY <1>2, <1>3, <1>4, MoveKeeps

\* A handler starts with a write.
LEMMA WriteKeeps ==
    ASSUME Sound, NEW p \in Phones, NEW s \in Slots, me[p] \in Users, owner[p] \in Users,
           handler[p][s] = Idle, NEW k \in {"create", "delete", "rename"},
           NEW r \in Rooms, NEW S \in SUBSET Users,
           NEW o \in {"set", "update", "delete"}, NEW d \in Docs \cup {NoRoom},
           k = "create" => o = "set" /\ d.members = S,
           Enqueue(p, Write(o, r, d, s)), Set(p, s, Run(k, me[p], r, S, "write")),
           UNCHANGED owner
    PROVE  Handled
<1> DEFINE m == Write(o, r, d, s)
           h == Run(k, me[p], r, S, "write")
<1>1. TypeOK /\ HandlersGrounded /\ Owned
  BY DEF Sound
<1>2. m \in Mutations /\ m.slot = s /\ m.op = o /\ m.room = r /\ m.doc = d
  BY DEF Write, Mutations
<1>3. /\ h \in HandlerStates /\ h # Idle
      /\ h.kind = k /\ h.room = r /\ h.set = S /\ h.pc = "write"
  BY RunType DEF Kinds
<1>4. Fits(h, m)
  BY <1>2, <1>3 DEF Fits
<1> HIDE DEF m, h
<1>5. Enqueue(p, m) /\ Set(p, s, h)
  BY DEF m, h
<1>6. Owned'
  BY <1>1, <1>2, <1>3, <1>4, <1>5, EnqueueOwned
<1>7. HandlersGrounded'
  BY <1>1, <1>3, <1>5, SetGrounded
<1>8. handler' \in [Phones -> [Slots -> HandlerStates \cup {Idle}]]
  BY <1>1, <1>3, <1>5, SetType
<1>9. queue' \in [Phones -> [Users -> Seq(Mutations)]]
  BY <1>1, <1>2, <1>5, EnqueueType
<1>10. QED
  BY <1>6, <1>7, <1>8, <1>9 DEF Handled

\* The server answers the oldest write.
LEMMA AnswerKeeps ==
    ASSUME Sound, NEW p \in Phones, me[p] # NoUser, queue[p][me[p]] # << >>,
           Taken(p), NEW pc \in {"ok", "err"}, Acknowledge(p, Oldest(p), pc), UNCHANGED owner
    PROVE  Handled
<1>1. TypeOK /\ HandlersGrounded /\ Owned /\ me[p] \in Users
  BY DEF Sound, TypeOK
<1>2. /\ handler' \in [Phones -> [Slots -> HandlerStates \cup {Idle}]]
      /\ \A q \in Phones : \A t \in Slots :
             ~(q = p /\ t = Oldest(p).slot) => handler'[q][t] = handler[q][t]
      /\ Oldest(p).slot # NoSlot =>
             handler'[p][Oldest(p).slot] = [handler[p][Oldest(p).slot] EXCEPT !.pc = pc]
  BY <1>1, AcknowledgeMoves
<1>3. queue' \in [Phones -> [Users -> Seq(Mutations)]]
  BY <1>1, TakenType
<1>4. Owned'
  BY <1>1, AcknowledgeOwned
<1>5. HandlersGrounded'
  <2> SUFFICES ASSUME NEW q \in Phones, NEW t \in Slots, handler'[q][t] # Idle
               PROVE  /\ owner[q] \in Users
                      /\ handler'[q][t].kind # "load" => handler'[q][t].room \in Rooms
                      /\ handler'[q][t].pc = "commit" => handler'[q][t].doc \in Docs
    BY DEF HandlersGrounded
  <2>1. CASE q = p /\ t = Oldest(p).slot
    <3>1. t # NoSlot
      BY NullAssumption
    <3>2. handler[q][t] \in HandlerStates /\ handler[q][t] # Idle
      BY <1>1, <2>1, <3>1, HeadOwned, NotIdle
    <3>3. handler'[q][t] = [handler[q][t] EXCEPT !.pc = pc]
      BY <1>2, <2>1, <3>1
    <3>4. /\ handler'[q][t].kind = handler[q][t].kind
          /\ handler'[q][t].room = handler[q][t].room
          /\ handler'[q][t].pc = pc
      BY <3>2, <3>3 DEF HandlerStates
    <3>5. QED
      BY <1>1, <3>2, <3>4 DEF HandlersGrounded
  <2>2. CASE ~(q = p /\ t = Oldest(p).slot)
    BY <1>1, <1>2, <2>2 DEF HandlersGrounded
  <2>3. QED
    BY <2>1, <2>2
<1>6. QED
  BY <1>2, <1>3, <1>4, <1>5 DEF Handled

\* What is left to show of a step that keeps handlers and queues right.
LEMMA SoundFrom ==
    ASSUME Handled, UNCHANGED plan, Sound, PagesGrounded',
           rooms' \in [Rooms -> Docs \cup {NoRoom}],
           cache' \in [Phones -> [Rooms -> Docs \cup {NoRoom}]],
           me' \in [Phones -> Users \cup {NoUser}],
           owner' \in [Phones -> Users \cup {NoUser}],
           ticks' \in [Phones -> [Users -> Nat]],
           page' \in [Phones -> [at : {"out", "base", "list", "room", "add"},
                                 room : Rooms \cup {NoRoom}, admin : Users \cup {NoUser}]],
           bloc' \in [Phones -> [tag : Tags, list : SUBSET (Rooms \X Users)]],
           used' \cup dead' \subseteq Rooms, added' \subseteq Users \X Rooms,
           dropped' \in [Phones -> SUBSET Rooms],
           early' \subseteq Phones \X Slots,
           foreign' \subseteq Phones, late' \subseteq Phones
    PROVE  Sound'
BY DEF Handled, Sound, TypeOK

LEMMA IdleKeeps ==
    ASSUME Sound, UNCHANGED <<handler, queue, owner>>
    PROVE  Handled
<1>1. Owned'
  BY IdleOwned DEF Sound
<1>2. QED
  BY <1>1 DEF Sound, TypeOK, HandlersGrounded, Handled

LEMMA PagesKept ==
    ASSUME Sound, UNCHANGED <<page, owner, me>>
    PROVE  PagesGrounded'
BY DEF Sound, PagesGrounded

\* A handler that stands where Ends says.
LEMMA EndsFacts ==
    ASSUME Sound, NEW p \in Phones, NEW s \in Slots, NEW k \in Kinds,
           NEW pc \in {"write", "ok", "err", "read", "answer", "get", "commit"},
           Ends(p, s, k, pc)
    PROVE  /\ handler[p][s] \in HandlerStates /\ handler[p][s] # Idle
           /\ handler[p][s].kind = k /\ handler[p][s].pc = pc
           /\ owner[p] \in Users
           /\ k # "load" => handler[p][s].room \in Rooms
           /\ pc = "commit" => handler[p][s].doc \in Docs
<1>1. handler[p][s] # Idle /\ handler[p][s].kind = k /\ handler[p][s].pc = pc
  BY DEF Ends
<1>2. QED
  BY <1>1, RunningHandler DEF Sound, HandlersGrounded

\* Every step keeps them.
LEMMA SoundPreserved == Sound /\ [Next]_vars => Sound'
<1> SUFFICES ASSUME Sound, [Next]_vars PROVE Sound'
  OBVIOUS
<1> TypeOK /\ PagesGrounded
  BY DEF Sound
<1>1. ASSUME UNCHANGED plan, NEW p \in Phones, NEW u \in Users, LogIn(p, u)
      PROVE  Sound'
  <2>1. Handled
    BY <1>1, IdleKeeps DEF LogIn
  <2>2. PagesGrounded'
    BY <1>1 DEF LogIn, PagesGrounded, Page, TypeOK
  <2>3. QED
    BY <1>1, <2>1, <2>2, SoundFrom DEF LogIn, Page, TypeOK, history
<1>2. ASSUME UNCHANGED plan, NEW p \in Phones, LogOut(p)
      PROVE  Sound'
  <2>1. Handled
    BY <1>2, IdleKeeps DEF LogOut
  <2>2. PagesGrounded'
    BY <1>2 DEF LogOut, PagesGrounded, Page, TypeOK
  <2>3. QED
    BY <1>2, <2>1, <2>2, SoundFrom DEF LogOut, Page, TypeOK, history
<1>3. ASSUME UNCHANGED plan, NEW p \in Phones, OpenRoom(p)
      PROVE  Sound'
  <2>1. Handled
    BY <1>3, IdleKeeps DEF OpenRoom
  <2>2. PagesGrounded'
    BY <1>3 DEF OpenRoom, PagesGrounded, Page, TypeOK
  <2>3. QED
    BY <1>3, <2>1, <2>2, SoundFrom DEF OpenRoom, Page, TypeOK, history
<1>4. ASSUME UNCHANGED plan, NEW p \in Phones, Back(p)
      PROVE  Sound'
  <2>1. Handled
    BY <1>4, IdleKeeps DEF Back
  <2>2. PagesGrounded'
    BY <1>4 DEF Back, PagesGrounded, Page, TypeOK
  <2> DEFINE Pages == [at : {"out", "base", "list", "room", "add"},
                       room : Rooms \cup {NoRoom}, admin : Users \cup {NoUser}]
  <2>3. page \in [Phones -> Pages] /\ page[p] \in Pages
    BY DEF TypeOK
  <2>4. [page[p] EXCEPT !.at = "room"] \in Pages /\ Page("list") \in Pages
    BY <2>3 DEF Page
  <2>5. PICK g \in {[page[p] EXCEPT !.at = "room"], Page("list")} :
            page' = [page EXCEPT ![p] = g]
    BY <1>4 DEF Back
  <2>6. page' \in [Phones -> Pages]
    <3> HIDE DEF Pages
    <3>1. QED
      BY <2>3, <2>4, <2>5
  <2>7. QED
    BY <1>4, <2>1, <2>2, <2>6, SoundFrom DEF Back, TypeOK, history
<1>5. ASSUME UNCHANGED plan, NEW p \in Phones, OpenAdd(p)
      PROVE  Sound'
  <2>1. Handled
    BY <1>5, IdleKeeps DEF OpenAdd
  <2>2. PagesGrounded'
    BY <1>5 DEF OpenAdd, PagesGrounded, Page, TypeOK
  <2> DEFINE Pages == [at : {"out", "base", "list", "room", "add"},
                       room : Rooms \cup {NoRoom}, admin : Users \cup {NoUser}]
             new == [page[p] EXCEPT !.at = "add"]
  <2>4. page \in [Phones -> Pages]
    BY DEF TypeOK
  <2>5. new \in Pages
    BY <2>4
  <2>6. page' = [page EXCEPT ![p] = new]
    BY <1>5 DEF OpenAdd
  <2>7. page' \in [Phones -> Pages]
    <3> HIDE DEF Pages, new
    <3>1. QED
      BY <2>4, <2>5, <2>6
  <2>3. QED
    BY <1>5, <2>1, <2>2, <2>7, SoundFrom DEF OpenAdd, TypeOK, history
<1>6. ASSUME UNCHANGED plan, NEW p \in Phones, NEW u \in Users, Tick(p, u)
      PROVE  Sound'
  <2>1. Handled
    BY <1>6, IdleKeeps DEF Tick
  <2>2. PagesGrounded'
    BY <1>6, PagesKept DEF Tick
  <2>3. ticks' \in [Phones -> [Users -> Nat]]
    BY <1>6 DEF Tick, TypeOK
  <2>4. QED
    BY <1>6, <2>1, <2>2, <2>3, SoundFrom DEF Tick, TypeOK, history
<1>7. ASSUME UNCHANGED plan, NEW p \in Phones, NEW s \in Slots, OpenList(p, s)
      PROVE  Sound'
  <2>1. handler[p][s] = Idle /\ me[p] \in Users
    BY <1>7 DEF OpenList, Free, PagesGrounded
  <2>2. owner' \in [Phones -> Users \cup {NoUser}] /\ owner'[p] \in Users
    BY <1>7, <2>1 DEF OpenList, TypeOK
  <2>3. \A q \in Phones : owner[q] \in Users => owner'[q] \in Users
    BY <1>7, <2>2 DEF OpenList, TypeOK
  <2>4. Handled /\ bloc' \in [Phones -> [tag : Tags, list : SUBSET (Rooms \X Users)]]
    BY <1>7, <2>1, <2>2, <2>3, LoadKeeps DEF OpenList
  <2>5. PagesGrounded'
    BY <1>7, <2>2, <2>3 DEF OpenList, PagesGrounded, Page, TypeOK
  <2>6. QED
    BY <1>7, <2>2, <2>4, <2>5, SoundFrom DEF OpenList, Page, TypeOK
<1>8. ASSUME UNCHANGED plan, NEW p \in Phones, NEW s \in Slots, Refresh(p, s)
      PROVE  Sound'
  <2>1. handler[p][s] = Idle /\ owner[p] \in Users
    BY <1>8 DEF Refresh, Free, PagesGrounded
  <2>2. Handled /\ bloc' \in [Phones -> [tag : Tags, list : SUBSET (Rooms \X Users)]]
    BY <1>8, <2>1, LoadKeeps DEF Refresh, local
  <2>3. PagesGrounded'
    BY <1>8, PagesKept DEF Refresh, local
  <2>4. QED
    BY <1>8, <2>2, <2>3, SoundFrom DEF Refresh, local, history, TypeOK
<1>9. ASSUME UNCHANGED plan, NEW p \in Phones, NEW s \in Slots, NEW r \in Rooms, Save(p, s, r)
      PROVE  Sound'
  <2> DEFINE S == Ticked(p) \cup {me[p]}
             d == [members |-> S, admin |-> owner[p]]
  <2>1. handler[p][s] = Idle /\ owner[p] \in Users /\ me[p] \in Users
    BY <1>9 DEF Save, Free, PagesGrounded, TypeOK
  <2>2. S \in SUBSET Users /\ d \in Docs /\ d.members = S
    BY <2>1 DEF Ticked, Docs
  <2>3. /\ Enqueue(p, Write("set", r, d, s))
        /\ Set(p, s, Run("create", me[p], r, S, "write"))
        /\ UNCHANGED owner
    BY <1>9 DEF Save
  <2> HIDE DEF S, d
  <2>4. Handled
    BY <2>1, <2>2, <2>3, WriteKeeps
  <2>5. PagesGrounded'
    BY <1>9, PagesKept DEF Save
  <2>6. ticks' \in [Phones -> [Users -> Nat]]
    BY <1>9, <2>1 DEF Save, TypeOK
  <2>7. bloc' \in [Phones -> [tag : Tags, list : SUBSET (Rooms \X Users)]]
    BY <1>9 DEF Save, Emit, BlocState, Tags, TypeOK
  <2>8. QED
    BY <1>9, <2>4, <2>5, <2>6, <2>7, SoundFrom DEF Save, TypeOK
<1>10. ASSUME UNCHANGED plan, NEW p \in Phones, NEW s \in Slots, FinishCreate(p, s)
      PROVE  Sound'
  <2>1. /\ handler[p][s] \in HandlerStates /\ handler[p][s].pc = "ok"
        /\ owner[p] \in Users /\ handler[p][s].room \in Rooms
    BY <1>10, EndsFacts DEF FinishCreate, Kinds
  <2>2. Handled /\ bloc' \in [Phones -> [tag : Tags, list : SUBSET (Rooms \X Users)]]
    <3>1. CASE ListAlive(p)
      BY <1>10, <2>1, <3>1, LoadKeeps DEF FinishCreate, local
    <3>2. CASE ~ListAlive(p)
      <4>1. Handled
        BY <1>10, <2>1, <3>2, EndKeeps DEF FinishCreate, local
      <4>2. Emit(p, "Created")
        BY <1>10, <3>2 DEF FinishCreate
      <4>3. QED
        BY <4>1, <4>2 DEF Emit, BlocState, Tags, TypeOK
    <3>3. QED
      BY <3>1, <3>2
  <2>3. PagesGrounded'
    BY <1>10, PagesKept DEF FinishCreate, local
  <2>4. added' \subseteq Users \X Rooms
    BY <1>10, <2>1 DEF FinishCreate, Reported, HandlerStates, TypeOK
  <2>5. QED
    BY <1>10, <2>2, <2>3, <2>4, SoundFrom DEF FinishCreate, local, TypeOK
<1>11. ASSUME UNCHANGED plan, NEW p \in Phones, NEW s \in Slots, FailCreate(p, s)
      PROVE  Sound'
  <2>1. handler[p][s].pc = "err"
    BY <1>11, EndsFacts DEF FailCreate, Kinds
  <2>2. Handled
    BY <1>11, <2>1, EndKeeps DEF FailCreate, local
  <2>3. PagesGrounded'
    BY <1>11, PagesKept DEF FailCreate, local
  <2>4. bloc' \in [Phones -> [tag : Tags, list : SUBSET (Rooms \X Users)]]
    BY <1>11 DEF FailCreate, Emit, BlocState, Tags, TypeOK
  <2>5. QED
    BY <1>11, <2>2, <2>3, <2>4, SoundFrom DEF FailCreate, local, history, TypeOK
<1>12. ASSUME UNCHANGED plan, NEW p \in Phones, NEW s \in Slots, FailLoad(p, s)
      PROVE  Sound'
  <2>1. handler[p][s].pc = "read"
    BY <1>12, EndsFacts DEF FailLoad, Kinds
  <2>2. Handled
    BY <1>12, <2>1, EndKeeps DEF FailLoad, local
  <2>3. PagesGrounded'
    BY <1>12, PagesKept DEF FailLoad, local
  <2>4. bloc' \in [Phones -> [tag : Tags, list : SUBSET (Rooms \X Users)]]
    BY <1>12 DEF FailLoad, Emit, BlocState, Tags, TypeOK
  <2>5. QED
    BY <1>12, <2>2, <2>3, <2>4, SoundFrom DEF FailLoad, local, history, TypeOK
<1>13. ASSUME UNCHANGED plan, NEW p \in Phones, NEW s \in Slots, FailAdd(p, s)
      PROVE  Sound'
  <2>1. handler[p][s].pc = "err"
    BY <1>13, EndsFacts DEF FailAdd, Kinds
  <2>2. Handled
    BY <1>13, <2>1, EndKeeps DEF FailAdd, local
  <2>3. PagesGrounded'
    BY <1>13, PagesKept DEF FailAdd, local
  <2>4. bloc' \in [Phones -> [tag : Tags, list : SUBSET (Rooms \X Users)]]
    BY <1>13 DEF FailAdd, Emit, BlocState, Tags, TypeOK
  <2>5. QED
    BY <1>13, <2>2, <2>3, <2>4, SoundFrom DEF FailAdd, local, history, TypeOK
<1>14. ASSUME UNCHANGED plan, NEW p \in Phones, NEW s \in Slots, ReadRooms(p, s)
      PROVE  Sound'
  <2>1. /\ handler[p][s] \in HandlerStates /\ handler[p][s].pc = "read"
        /\ handler[p][s].kind = "load" /\ owner[p] \in Users
    BY <1>14, EndsFacts DEF ReadRooms, Kinds
  <2>2. PICK docs \in {rooms, cache[p]} : Answer(p, s, handler[p][s].who, docs)
    BY <1>14 DEF ReadRooms
  <2> DEFINE L == Mine(handler[p][s].who, Seen(p, docs))
             h == [handler[p][s] EXCEPT !.pc = "answer", !.list = L]
  <2>3. L \in SUBSET (Rooms \X Users)
    BY DEF Mine
  <2>4. Set(p, s, h)
    BY <2>2 DEF Answer, Set, TypeOK
  <2> HIDE DEF L
  <2>5. h \in HandlerStates /\ h.kind = "load" /\ h.pc = "answer"
    BY <2>1, <2>3 DEF HandlerStates
  <2> HIDE DEF h
  <2>6. Handled
    BY <1>14, <2>1, <2>4, <2>5, MoveKeeps DEF ReadRooms
  <2>7. PagesGrounded'
    BY <1>14, PagesKept DEF ReadRooms
  <2>8. cache' \in [Phones -> [Rooms -> Docs \cup {NoRoom}]]
    BY <1>14 DEF ReadRooms, TypeOK
  <2>9. QED
    BY <1>14, <2>6, <2>7, <2>8, SoundFrom DEF ReadRooms, history, TypeOK
<1>15. ASSUME UNCHANGED plan, NEW p \in Phones, NEW s \in Slots, FinishLoad(p, s)
      PROVE  Sound'
  <2>1. handler[p][s] \in HandlerStates /\ handler[p][s].pc = "answer"
    BY <1>15, EndsFacts DEF FinishLoad, Kinds
  <2>2. Handled
    BY <1>15, <2>1, EndKeeps DEF FinishLoad, local
  <2>3. PagesGrounded'
    BY <1>15, PagesKept DEF FinishLoad, local
  <2>4. bloc' \in [Phones -> [tag : Tags, list : SUBSET (Rooms \X Users)]]
    BY <1>15, <2>1 DEF FinishLoad, BlocState, Tags, HandlerStates, TypeOK
  <2>5. QED
    BY <1>15, <2>2, <2>3, <2>4, SoundFrom DEF FinishLoad, local, TypeOK
<1>16. ASSUME UNCHANGED plan, NEW p \in Phones, NEW s \in Slots, NEW S \in SUBSET Users, AddMembers(p, s, S)
      PROVE  Sound'
  <2> DEFINE h == Run("add", me[p], page[p].room, S, "get")
  <2>1. /\ handler[p][s] = Idle /\ owner[p] \in Users /\ me[p] \in Users
        /\ page[p].room \in Rooms
    BY <1>16 DEF AddMembers, Free, PagesGrounded
  <2>2. h \in HandlerStates /\ h.room = page[p].room /\ h.pc = "get"
    BY <2>1, RunType DEF Kinds
  <2>3. Set(p, s, h)
    BY <1>16 DEF AddMembers
  <2> HIDE DEF h
  <2>4. Handled
    BY <1>16, <2>1, <2>2, <2>3, MoveKeeps DEF AddMembers, local
  <2>5. PagesGrounded'
    BY <1>16, PagesKept DEF AddMembers, local
  <2>6. bloc' \in [Phones -> [tag : Tags, list : SUBSET (Rooms \X Users)]]
    BY <1>16 DEF AddMembers, Emit, BlocState, Tags, TypeOK
  <2>7. QED
    BY <1>16, <2>4, <2>5, <2>6, SoundFrom DEF AddMembers, local, history, TypeOK
<1>17. ASSUME UNCHANGED plan, NEW p \in Phones, NEW s \in Slots, TxnGet(p, s)
      PROVE  Sound'
  <2> DEFINE d == rooms[handler[p][s].room]
             h == [handler[p][s] EXCEPT !.doc = d, !.pc = IF d = NoRoom THEN "err" ELSE "commit"]
  <2>1. /\ handler[p][s] \in HandlerStates /\ handler[p][s].pc = "get"
        /\ owner[p] \in Users /\ handler[p][s].room \in Rooms
    BY <1>17, EndsFacts DEF TxnGet, Kinds
  <2>2. d \in Docs \cup {NoRoom}
    BY <2>1 DEF TypeOK
  <2>3. Set(p, s, h)
    BY <1>17 DEF TxnGet, Set, TypeOK
  <2> HIDE DEF d
  <2>4. h \in HandlerStates /\ h.room = handler[p][s].room /\ (h.pc = "commit" => h.doc \in Docs)
    BY <2>1, <2>2 DEF HandlerStates
  <2> HIDE DEF h
  <2>5. Handled
    BY <1>17, <2>1, <2>3, <2>4, MoveKeeps DEF TxnGet, local
  <2>6. PagesGrounded'
    BY <1>17, PagesKept DEF TxnGet, local
  <2>7. QED
    BY <1>17, <2>5, <2>6, SoundFrom DEF TxnGet, local, history, TypeOK
<1>18. ASSUME UNCHANGED plan, NEW p \in Phones, NEW s \in Slots, TxnCommit(p, s)
      PROVE  Sound'
  <2>1. /\ handler[p][s] \in HandlerStates /\ handler[p][s] # Idle
        /\ handler[p][s].pc = "commit"
        /\ handler[p][s].doc \in Docs /\ handler[p][s].room \in Rooms
    BY <1>18, EndsFacts DEF TxnCommit, Kinds
  <2>2. Handled
    <3>1. PICK pc \in {"ok", "get"} : handler' = [handler EXCEPT ![p][s].pc = pc]
      BY <1>18 DEF TxnCommit
    <3>2. QED
      BY <1>18, <2>1, <3>1, StepKeeps DEF TxnCommit, local
  <2>3. rooms' \in [Rooms -> Docs \cup {NoRoom}]
    <3>1. CASE rooms[handler[p][s].room] = handler[p][s].doc
      <4> DEFINE d == [handler[p][s].doc EXCEPT !.members = handler[p][s].doc.members \cup handler[p][s].set]
      <4>1. rooms' = [rooms EXCEPT ![handler[p][s].room] = d]
        BY <1>18, <2>1, <3>1 DEF TxnCommit, TypeOK
      <4>2. d \in Docs
        BY <2>1 DEF Docs, HandlerStates
      <4>3. QED
        BY <4>1, <4>2 DEF TypeOK
    <3>2. CASE rooms[handler[p][s].room] # handler[p][s].doc
      BY <1>18, <3>2 DEF TxnCommit, TypeOK
    <3>3. QED
      BY <3>1, <3>2
  <2>4. PagesGrounded'
    BY <1>18, PagesKept DEF TxnCommit, local
  <2>5. QED
    BY <1>18, <2>2, <2>3, <2>4, SoundFrom DEF TxnCommit, local, history, TypeOK
<1>19. ASSUME UNCHANGED plan, NEW p \in Phones, NEW s \in Slots, FailTxn(p, s)
      PROVE  Sound'
  <2>1. handler[p][s] # Idle /\ handler[p][s].pc \in {"get", "commit"}
    BY <1>19 DEF FailTxn, Ends
  <2>2. Handled
    BY <1>19, <2>1, StepKeeps DEF FailTxn, local
  <2>3. PagesGrounded'
    BY <1>19, PagesKept DEF FailTxn, local
  <2>4. QED
    BY <1>19, <2>2, <2>3, SoundFrom DEF FailTxn, local, history, TypeOK
<1>20. ASSUME UNCHANGED plan, NEW p \in Phones, NEW s \in Slots, FinishAdd(p, s)
      PROVE  Sound'
  <2>1. /\ handler[p][s] \in HandlerStates /\ handler[p][s].pc = "ok"
        /\ owner[p] \in Users /\ handler[p][s].room \in Rooms
    BY <1>20, EndsFacts DEF FinishAdd, Kinds
  <2>2. Handled /\ bloc' \in [Phones -> [tag : Tags, list : SUBSET (Rooms \X Users)]]
    BY <1>20, <2>1, LoadKeeps DEF FinishAdd, local
  <2>3. PagesGrounded'
    BY <1>20, PagesKept DEF FinishAdd, local
  <2>4. added' \subseteq Users \X Rooms
    BY <1>20, <2>1 DEF FinishAdd, Reported, HandlerStates, TypeOK
  <2>5. QED
    BY <1>20, <2>2, <2>3, <2>4, SoundFrom DEF FinishAdd, local, TypeOK
<1>21. ASSUME UNCHANGED plan, NEW p \in Phones, NEW s \in Slots, Delete(p, s)
      PROVE  Sound'
  <2>1. /\ handler[p][s] = Idle /\ owner[p] \in Users /\ me[p] \in Users
        /\ page[p].room \in Rooms
    BY <1>21 DEF Delete, Free, PagesGrounded
  <2>2. /\ Enqueue(p, Write("delete", page[p].room, NoRoom, s))
        /\ Set(p, s, Run("delete", me[p], page[p].room, {}, "write"))
        /\ UNCHANGED owner
    BY <1>21 DEF Delete, local
  <2>3. Handled
    BY <2>1, <2>2, WriteKeeps
  <2>4. PagesGrounded'
    BY <1>21, PagesKept DEF Delete, local
  <2>5. QED
    BY <1>21, <2>3, <2>4, SoundFrom DEF Delete, local, history, TypeOK
<1>22. ASSUME UNCHANGED plan, NEW p \in Phones, NEW s \in Slots, Rename(p, s)
      PROVE  Sound'
  <2>1. /\ handler[p][s] = Idle /\ owner[p] \in Users /\ me[p] \in Users
        /\ page[p].room \in Rooms
    BY <1>22 DEF Rename, Free, PagesGrounded
  <2>2. /\ Enqueue(p, Write("update", page[p].room, NoRoom, s))
        /\ Set(p, s, Run("rename", me[p], page[p].room, {}, "write"))
        /\ UNCHANGED owner
    BY <1>22 DEF Rename, local
  <2>3. Handled
    BY <2>1, <2>2, WriteKeeps
  <2>4. PagesGrounded'
    BY <1>22, PagesKept DEF Rename, local
  <2>5. QED
    BY <1>22, <2>3, <2>4, SoundFrom DEF Rename, local, history, TypeOK
<1>23. ASSUME UNCHANGED plan, NEW p \in Phones, NEW s \in Slots, FinishDelete(p, s)
      PROVE  Sound'
  <2>1. /\ handler[p][s].pc = "ok" /\ owner[p] \in Users /\ handler[p][s].room \in Rooms
    BY <1>23, EndsFacts DEF FinishDelete, Kinds
  <2>2. Handled /\ bloc' \in [Phones -> [tag : Tags, list : SUBSET (Rooms \X Users)]]
    BY <1>23, <2>1, LoadKeeps DEF FinishDelete, DeleteDone
  <2>3. PagesGrounded'
    BY <1>23, <2>1 DEF FinishDelete, DeleteDone, PagesGrounded, Page, TypeOK
  <2>4. dropped' \in [Phones -> SUBSET Rooms] /\ early' \subseteq Phones \X Slots
    BY <1>23, <2>1 DEF FinishDelete, DeleteDone, AnsweredLoads, TypeOK
  <2>5. QED
    BY <1>23, <2>2, <2>3, <2>4, SoundFrom DEF FinishDelete, DeleteDone, Page, TypeOK
<1>24. ASSUME UNCHANGED plan, NEW p \in Phones, NEW s \in Slots, FinishRename(p, s)
      PROVE  Sound'
  <2>1. handler[p][s].pc = "ok" /\ owner[p] \in Users
    BY <1>24, EndsFacts DEF FinishRename, Kinds
  <2>2. Handled /\ bloc' \in [Phones -> [tag : Tags, list : SUBSET (Rooms \X Users)]]
    <3>1. CASE page[p].at = "room"
      BY <1>24, <2>1, <3>1, LoadKeeps DEF FinishRename, local
    <3>2. CASE page[p].at # "room"
      <4>1. Handled
        BY <1>24, <2>1, <3>2, EndKeeps DEF FinishRename, local
      <4>2. QED
        BY <1>24, <3>2, <4>1 DEF FinishRename, TypeOK
    <3>3. QED
      BY <3>1, <3>2
  <2>3. PagesGrounded'
    BY <1>24, PagesKept DEF FinishRename, local
  <2>4. QED
    BY <1>24, <2>2, <2>3, SoundFrom DEF FinishRename, local, history, TypeOK
<1>25. ASSUME UNCHANGED plan, NEW p \in Phones, NEW s \in Slots, FailQuietly(p, s)
      PROVE  Sound'
  <2>1. handler[p][s].pc \in {"ok", "err"}
    BY <1>25 DEF FailQuietly, Ends
  <2>2. Handled
    BY <1>25, <2>1, EndKeeps DEF FailQuietly, local
  <2>3. PagesGrounded'
    BY <1>25, PagesKept DEF FailQuietly, local
  <2>4. QED
    BY <1>25, <2>2, <2>3, SoundFrom DEF FailQuietly, local, history, TypeOK
<1>26. ASSUME UNCHANGED plan, NEW p \in Phones, CommitHead(p)
      PROVE  Sound'
  <2>1. /\ me[p] \in Users /\ queue[p][me[p]] # << >> /\ Taken(p)
        /\ Commit(p, Oldest(p)) /\ UNCHANGED owner
    BY <1>26 DEF CommitHead, Taken, Oldest, TypeOK
  <2>2. Oldest(p) \in Mutations
    BY <2>1, TakenType
  <2>3. Handled
    BY <1>26, <2>1, AnswerKeeps DEF CommitHead, Commit
  <2>4. PagesGrounded'
    BY <1>26, PagesKept DEF CommitHead
  <2>5. /\ rooms' \in [Rooms -> Docs \cup {NoRoom}]
        /\ cache' \in [Phones -> [Rooms -> Docs \cup {NoRoom}]]
        /\ used \cup dead' \subseteq Rooms
    <3>1. Oldest(p).room \in Rooms
      BY <2>2 DEF Mutations
    <3>2. Apply(Oldest(p), rooms[Oldest(p).room]) \in Docs \cup {NoRoom}
      BY <2>2, <3>1 DEF Apply, Mutations, TypeOK
    <3>3. QED
      BY <2>1, <3>1, <3>2 DEF Commit, TypeOK
  <2>6. QED
    BY <1>26, <2>3, <2>4, <2>5, SoundFrom DEF CommitHead, TypeOK
<1>27. ASSUME UNCHANGED plan, NEW p \in Phones, RefuseHead(p)
      PROVE  Sound'
  <2>1. /\ me[p] # NoUser /\ queue[p][me[p]] # << >> /\ Taken(p)
        /\ Acknowledge(p, Oldest(p), "err") /\ UNCHANGED owner
    BY <1>27 DEF RefuseHead, Taken, Oldest, local
  <2>2. Handled
    BY <2>1, AnswerKeeps
  <2>3. PagesGrounded'
    BY <1>27, PagesKept DEF RefuseHead, local
  <2>4. QED
    BY <1>27, <2>2, <2>3, SoundFrom DEF RefuseHead, local, history, TypeOK
<1>28. ASSUME UNCHANGED plan, NEW p \in Phones, Crash(p)
      PROVE  Sound'
  <2>1. Owned'
    BY <1>28, CrashOwned DEF Sound
  <2>2. queue' \in [Phones -> [Users -> Seq(Mutations)]]
    BY <1>28, PlacesAfterCrash
  <2>3. /\ handler' \in [Phones -> [Slots -> HandlerStates \cup {Idle}]]
        /\ \A t \in Slots : handler'[p][t] = Idle
        /\ \A q \in Phones : q # p => handler'[q] = handler[q] /\ owner'[q] = owner[q]
    BY <1>28 DEF Crash, TypeOK
  <2>4. HandlersGrounded'
    BY <2>3 DEF Sound, HandlersGrounded
  <2>5. Handled
    BY <2>1, <2>2, <2>3, <2>4 DEF Handled
  <2>6. PagesGrounded'
    BY <1>28 DEF Crash, PagesGrounded, Page, TypeOK
  <2>7. ticks' \in [Phones -> [Users -> Nat]]
    BY <1>28 DEF Crash, TypeOK
  <2>8. bloc' \in [Phones -> [tag : Tags, list : SUBSET (Rooms \X Users)]]
    BY <1>28 DEF Crash, Emit, BlocState, Tags, TypeOK
  <2>9. QED
    BY <1>28, <2>5, <2>6, <2>7, <2>8, SoundFrom DEF Crash, Page, TypeOK
<1>29. CASE UNCHANGED vars
  <2>1. Handled
    BY <1>29, IdleKeeps DEF vars
  <2>2. PagesGrounded'
    BY <1>29, PagesKept DEF vars
  <2>3. QED
    BY <1>29, <2>1, <2>2, SoundFrom DEF vars, TypeOK
<1>30. QED
  BY <1>1, <1>2, <1>3, <1>4, <1>5, <1>6, <1>7, <1>8, <1>9, <1>10,
     <1>11, <1>12, <1>13, <1>14, <1>15, <1>16, <1>17, <1>18, <1>19, <1>20,
     <1>21, <1>22, <1>23, <1>24, <1>25, <1>26, <1>27, <1>28, <1>29
     DEF Next, UserActs, Progress

LEMMA SoundAtFirst == Init => Sound
<1> SUFFICES ASSUME Init PROVE Sound
  OBVIOUS
<1>1. plan \in Plans /\ rooms \in [Rooms -> Docs \cup {NoRoom}]
      /\ cache \in [Phones -> [Rooms -> Docs \cup {NoRoom}]]
  BY DEF Init
<1>2. /\ queue \in [Phones -> [Users -> Seq(Mutations)]]
      /\ \A p \in Phones : \A u \in Users : queue[p][u] = << >>
  BY DEF Init
<1>3. /\ handler \in [Phones -> [Slots -> HandlerStates \cup {Idle}]]
      /\ \A p \in Phones : \A s \in Slots : handler[p][s] = Idle
  BY DEF Init
<1>4. /\ me \in [Phones -> Users \cup {NoUser}] /\ owner \in [Phones -> Users \cup {NoUser}]
      /\ ticks \in [Phones -> [Users -> Nat]]
      /\ bloc \in [Phones -> [tag : Tags, list : SUBSET (Rooms \X Users)]]
  BY DEF Init, BlocState, Tags
<1>5. /\ page \in [Phones -> [at : {"out", "base", "list", "room", "add"},
                              room : Rooms \cup {NoRoom}, admin : Users \cup {NoUser}]]
      /\ \A p \in Phones : page[p].at = "out"
  BY DEF Init, Page
<1>6. TypeOK
  BY <1>1, <1>2, <1>3, <1>4, <1>5 DEF Init, TypeOK
<1>7. PagesGrounded
  BY <1>5 DEF PagesGrounded
<1>8. HandlersGrounded
  BY <1>3 DEF HandlersGrounded
<1>9. Owned
  BY <1>2 DEF Owned
<1>10. QED
  BY <1>6, <1>7, <1>8, <1>9 DEF Sound

\* Theorem 1.  The types of the variables, TypeOK.
THEOREM TypeCorrect == Spec => []TypeOK
<1>1. Sound => TypeOK
  BY DEF Sound
<1>2. QED
  BY <1>1, SoundAtFirst, SoundPreserved, PTL DEF Spec

-----------------------------------------------------------------------------
(***************************************************************************)
(* A group is made once.                                                   *)
(***************************************************************************)
LEMMA FreshKept ==
    ASSUME Fresh, UNCHANGED <<rooms, queue, used, dead>>
    PROVE  Fresh'
BY DEF Fresh

\* A group that is there may change as long as it stays.
LEMMA FreshGrown ==
    ASSUME TypeOK, Fresh, UNCHANGED <<queue, used, dead>>, NEW r \in Rooms, NEW d \in Docs,
           rooms[r] # NoRoom, rooms' = [rooms EXCEPT ![r] = d]
    PROVE  Fresh'
<1>1. /\ rooms'[r] # NoRoom
      /\ \A x \in Rooms : x # r => rooms'[x] = rooms[x]
  BY NullAssumption, DocAssumption DEF TypeOK, Docs
<1>2. \A x \in Rooms : rooms'[x] # NoRoom => x \in used \ dead
  BY <1>1 DEF Fresh
<1>3. ASSUME NEW p \in Phones, NEW q \in Phones, NEW u \in Users, NEW v \in Users,
             NEW i \in DOMAIN queue[p][u], NEW j \in DOMAIN queue[q][v],
             queue[p][u][i].op = "set"
      PROVE  /\ queue[p][u][i].doc \in Docs
             /\ queue[p][u][i].room \in used \ dead
             /\ rooms'[queue[p][u][i].room] = NoRoom
             /\ queue[q][v][j].op = "set" /\ queue[q][v][j].room = queue[p][u][i].room
                    => p = q /\ u = v /\ i = j
  <2>1. queue[p][u][i].room \in Rooms
    BY QueuedWrite DEF Mutations
  <2>2. /\ queue[p][u][i].doc \in Docs /\ queue[p][u][i].room \in used \ dead
        /\ rooms[queue[p][u][i].room] = NoRoom
        /\ queue[q][v][j].op = "set" /\ queue[q][v][j].room = queue[p][u][i].room
               => p = q /\ u = v /\ i = j
    BY <1>3 DEF Fresh
  <2>3. QED
    BY <1>1, <2>1, <2>2
<1>4. QED
  BY <1>2, <1>3 DEF Fresh

\* A write that makes no group is queued.
LEMMA FreshOther ==
    ASSUME TypeOK, Fresh, UNCHANGED <<rooms, used, dead>>, NEW p \in Phones, me[p] \in Users,
           NEW m \in Mutations, m.op # "set", Enqueue(p, m)
    PROVE  Fresh'
<1> SUFFICES ASSUME NEW a \in Phones, NEW b \in Phones, NEW u \in Users, NEW v \in Users,
                    NEW i \in DOMAIN queue'[a][u], NEW j \in DOMAIN queue'[b][v],
                    queue'[a][u][i].op = "set"
             PROVE  /\ queue'[a][u][i].doc \in Docs
                    /\ queue'[a][u][i].room \in used \ dead
                    /\ rooms[queue'[a][u][i].room] = NoRoom
                    /\ queue'[b][v][j].op = "set" /\ queue'[b][v][j].room = queue'[a][u][i].room
                           => a = b /\ u = v /\ i = j
  BY DEF Fresh
<1>1. i \in DOMAIN queue[a][u] /\ queue'[a][u][i] = queue[a][u][i]
  BY PlacesAfterAppend
<1>2. CASE queue'[b][v][j].op = "set"
  <2>1. j \in DOMAIN queue[b][v] /\ queue'[b][v][j] = queue[b][v][j]
    BY <1>2, PlacesAfterAppend
  <2>2. QED
    BY <1>1, <2>1 DEF Fresh
<1>3. CASE queue'[b][v][j].op # "set"
  BY <1>1, <1>3 DEF Fresh
<1>4. QED
  BY <1>2, <1>3

\* A group with a new id is queued.
LEMMA FreshSave ==
    ASSUME TypeOK, Fresh, UNCHANGED <<rooms, dead>>, NEW p \in Phones, me[p] \in Users,
           NEW m \in Mutations, m.doc \in Docs, m.room \notin used,
           used' = used \cup {m.room}, Enqueue(p, m)
    PROVE  Fresh'
<1>1. m.room \in Rooms /\ m.room \notin dead /\ rooms[m.room] = NoRoom
  BY DEF Fresh, Mutations
<1>2. \A a \in Phones : \A u \in Users : \A i \in DOMAIN queue[a][u] :
          queue[a][u][i].op = "set" => queue[a][u][i].room # m.room
  BY DEF Fresh
<1>3. dead' \subseteq used' /\ \A r \in Rooms : rooms'[r] # NoRoom => r \in used' \ dead'
  BY DEF Fresh
<1>4. ASSUME NEW a \in Phones, NEW b \in Phones, NEW u \in Users, NEW v \in Users,
             NEW i \in DOMAIN queue'[a][u], NEW j \in DOMAIN queue'[b][v],
             queue'[a][u][i].op = "set"
      PROVE  /\ queue'[a][u][i].doc \in Docs
             /\ queue'[a][u][i].room \in used' \ dead
             /\ rooms[queue'[a][u][i].room] = NoRoom
             /\ queue'[b][v][j].op = "set" /\ queue'[b][v][j].room = queue'[a][u][i].room
                    => a = b /\ u = v /\ i = j
  <2>1. CASE i \in DOMAIN queue[a][u] /\ queue'[a][u][i] = queue[a][u][i]
    <3>1. CASE j \in DOMAIN queue[b][v] /\ queue'[b][v][j] = queue[b][v][j]
      BY <1>4, <2>1, <3>1 DEF Fresh
    <3>2. CASE queue'[b][v][j] = m
      <4>1. queue'[b][v][j].room # queue'[a][u][i].room
        BY <1>2, <1>4, <2>1, <3>2
      <4>2. /\ queue[a][u][i].doc \in Docs /\ queue[a][u][i].room \in used \ dead
            /\ rooms[queue[a][u][i].room] = NoRoom
        BY <1>2, <1>4, <2>1 DEF Fresh
      <4>3. QED
        BY <2>1, <4>1, <4>2
    <3>3. QED
      BY <3>1, <3>2, PlacesAfterAppend
  <2>2. CASE a = p /\ u = me[p] /\ i = Len(queue[p][me[p]]) + 1 /\ queue'[a][u][i] = m
    <3>1. CASE j \in DOMAIN queue[b][v] /\ queue'[b][v][j] = queue[b][v][j]
      BY <1>1, <1>2, <2>2, <3>1
    <3>2. CASE b = p /\ v = me[p] /\ j = Len(queue[p][me[p]]) + 1
      BY <1>1, <2>2, <3>2
    <3>3. QED
      BY <3>1, <3>2, PlacesAfterAppend
  <2>3. QED
    BY <2>1, <2>2, PlacesAfterAppend
<1>5. QED
  BY <1>3, <1>4 DEF Fresh

\* A restart keeps what is queued.
LEMMA FreshCrash ==
    ASSUME TypeOK, Fresh, NEW p \in Phones, Crash(p)
    PROVE  Fresh'
<1>1. UNCHANGED <<rooms, used, dead>>
  BY DEF Crash
<1>2. ASSUME NEW q \in Phones, NEW u \in Users, NEW i \in DOMAIN queue'[q][u]
      PROVE  /\ i \in DOMAIN queue[q][u]
             /\ queue'[q][u][i].op = queue[q][u][i].op
             /\ queue'[q][u][i].room = queue[q][u][i].room
             /\ queue'[q][u][i].doc = queue[q][u][i].doc
  <2>1. i \in DOMAIN queue[q][u]
    BY PlacesAfterCrash
  <2>2. queue'[q][u][i] = IF q = p THEN [queue[q][u][i] EXCEPT !.slot = NoSlot]
                          ELSE queue[q][u][i]
    BY <2>1, PlacesAfterCrash
  <2>3. queue[q][u][i] \in Mutations
    BY <2>1, QueuedWrite
  <2>4. QED
    BY <2>1, <2>2, <2>3 DEF Mutations
<1>3. ASSUME NEW a \in Phones, NEW b \in Phones, NEW u \in Users, NEW v \in Users,
             NEW i \in DOMAIN queue'[a][u], NEW j \in DOMAIN queue'[b][v],
             queue'[a][u][i].op = "set"
      PROVE  /\ queue'[a][u][i].doc \in Docs
             /\ queue'[a][u][i].room \in used \ dead
             /\ rooms[queue'[a][u][i].room] = NoRoom
             /\ queue'[b][v][j].op = "set" /\ queue'[b][v][j].room = queue'[a][u][i].room
                    => a = b /\ u = v /\ i = j
  BY <1>2, <1>3 DEF Fresh
<1>4. QED
  BY <1>1, <1>3 DEF Fresh

\* The oldest write leaves the queue: what it means for the others.
LEMMA FreshTaken ==
    ASSUME TypeOK, Fresh, NEW p \in Phones, me[p] \in Users, queue[p][me[p]] # << >>, Taken(p),
           NEW a \in Phones, NEW b \in Phones, NEW u \in Users, NEW v \in Users,
           NEW i \in DOMAIN queue'[a][u], NEW j \in DOMAIN queue'[b][v],
           queue'[a][u][i].op = "set"
    PROVE  /\ queue'[a][u][i] \in Mutations
           /\ queue'[a][u][i].doc \in Docs
           /\ queue'[a][u][i].room \in used \ dead
           /\ rooms[queue'[a][u][i].room] = NoRoom
           /\ queue'[b][v][j].op = "set" /\ queue'[b][v][j].room = queue'[a][u][i].room
                  => a = b /\ u = v /\ i = j
           /\ Oldest(p).op = "set" => queue'[a][u][i].room # Oldest(p).room
<1> DEFINE k == Before(p, a, u, i)
           l == Before(p, b, v, j)
<1>1. /\ k \in DOMAIN queue[a][u] /\ queue'[a][u][i] = queue[a][u][k] /\ i \in Nat \ {0}
      /\ l \in DOMAIN queue[b][v] /\ queue'[b][v][j] = queue[b][v][l] /\ j \in Nat \ {0}
  BY PlacesAfterTake
<1>2. /\ queue[a][u][k].doc \in Docs
      /\ queue[a][u][k].room \in used \ dead
      /\ rooms[queue[a][u][k].room] = NoRoom
      /\ queue[b][v][l].op = "set" /\ queue[b][v][l].room = queue[a][u][k].room
             => a = b /\ u = v /\ k = l
  BY <1>1 DEF Fresh
<1>3. queue[a][u][k] \in Mutations
  BY <1>1, QueuedWrite
<1>4. a = b /\ u = v /\ k = l => i = j
  BY <1>1 DEF Before
<1>5. Oldest(p).op = "set" => queue[a][u][k].room # Oldest(p).room
  <2> SUFFICES ASSUME Oldest(p).op = "set", queue[a][u][k].room = Oldest(p).room PROVE FALSE
    OBVIOUS
  <2>1. Oldest(p) = queue[p][me[p]][1] /\ 1 \in DOMAIN queue[p][me[p]]
    BY TakenType
  <2>2. a = p /\ u = me[p] /\ k = 1
    BY <1>1, <2>1 DEF Fresh
  <2>3. QED
    BY <1>1, <2>2 DEF Before
<1>6. QED
  BY <1>1, <1>2, <1>3, <1>4, <1>5

LEMMA FreshRefuse ==
    ASSUME TypeOK, Fresh, NEW p \in Phones, me[p] \in Users, queue[p][me[p]] # << >>, Taken(p),
           UNCHANGED <<rooms, used, dead>>
    PROVE  Fresh'
<1>1. ASSUME NEW a \in Phones, NEW b \in Phones, NEW u \in Users, NEW v \in Users,
             NEW i \in DOMAIN queue'[a][u], NEW j \in DOMAIN queue'[b][v],
             queue'[a][u][i].op = "set"
      PROVE  /\ queue'[a][u][i].doc \in Docs
             /\ queue'[a][u][i].room \in used \ dead
             /\ rooms[queue'[a][u][i].room] = NoRoom
             /\ queue'[b][v][j].op = "set" /\ queue'[b][v][j].room = queue'[a][u][i].room
                    => a = b /\ u = v /\ i = j
  BY <1>1, FreshTaken
<1>2. QED
  BY <1>1 DEF Fresh

(***************************************************************************)
(* What a step does to the groups on the server.                           *)
(***************************************************************************)
Queued(d) ==
    \E p \in Phones : \E u \in Users : \E i \in DOMAIN queue[p][u] :
        queue[p][u][i].op = "set" /\ queue[p][u][i].doc = d
Made(r) ==
    /\ rooms[r] = NoRoom /\ r \notin dead /\ dead' = dead
    /\ \E d \in Docs : Queued(d) /\ rooms' = [rooms EXCEPT ![r] = d]
Grown(r) ==
    /\ rooms[r] \in Docs /\ r \notin dead /\ dead' = dead
    /\ \E S \in SUBSET Users :
           rooms' = [rooms EXCEPT ![r] = [rooms[r] EXCEPT !.members = rooms[r].members \cup S]]
Gone(r) ==
    /\ rooms[r] \in Docs /\ r \notin dead /\ dead' = dead \cup {r}
    /\ rooms' = [rooms EXCEPT ![r] = NoRoom]
GroupStep == UNCHANGED <<rooms, dead>> \/ \E r \in Rooms : Made(r) \/ Grown(r) \/ Gone(r)

LEMMA CommitGroups ==
    ASSUME Sound, Fresh, NEW p \in Phones, CommitHead(p)
    PROVE  /\ me[p] \in Users /\ queue[p][me[p]] # << >> /\ Taken(p)
           /\ Oldest(p) \in Mutations
           /\ Acknowledge(p, Oldest(p), "ok")
           /\ UNCHANGED used
           /\ \/ /\ Oldest(p).op = "set" /\ Made(Oldest(p).room) /\ Oldest(p).doc \in Docs
                 /\ rooms' = [rooms EXCEPT ![Oldest(p).room] = Oldest(p).doc]
              \/ Oldest(p).op # "set" /\ UNCHANGED <<rooms, dead>>
              \/ Oldest(p).op = "delete" /\ Gone(Oldest(p).room)
<1> DEFINE m == Oldest(p)
<1>1. /\ me[p] \in Users /\ queue[p][me[p]] # << >> /\ Taken(p)
      /\ Commit(p, m) /\ UNCHANGED used /\ TypeOK
  BY DEF CommitHead, Taken, Oldest, TypeOK, Sound
<1>2. m \in Mutations /\ m = queue[p][me[p]][1] /\ 1 \in DOMAIN queue[p][me[p]]
  BY <1>1, TakenType
<1> HIDE DEF m
<1>3. m.room \in Rooms /\ m.op \in {"set", "update", "delete"}
  BY <1>2 DEF Mutations
<1>4. /\ Acknowledge(p, m, "ok")
      /\ rooms' = [rooms EXCEPT ![m.room] = Apply(m, rooms[m.room])]
      /\ dead' = IF m.op = "delete" /\ rooms[m.room] # NoRoom THEN dead \cup {m.room} ELSE dead
  BY <1>1 DEF Commit
<1>5. CASE m.op = "set"
  <2>1. m.doc \in Docs /\ m.room \notin dead /\ rooms[m.room] = NoRoom
    BY <1>1, <1>2, <1>5 DEF Fresh
  <2>2. Apply(m, rooms[m.room]) = m.doc
    BY <1>5 DEF Apply
  <2>3. rooms' = [rooms EXCEPT ![m.room] = m.doc] /\ dead' = dead
    BY <1>4, <1>5, <2>2
  <2>4. Made(m.room)
    <3>1. Queued(m.doc)
      BY <1>1, <1>2, <1>5 DEF Queued
    <3>2. QED
      BY <2>1, <2>3, <3>1 DEF Made
  <2>5. QED
    BY <1>1, <1>2, <1>4, <1>5, <2>1, <2>3, <2>4 DEF m
<1>6. CASE m.op = "update"
  <2>1. Apply(m, rooms[m.room]) = rooms[m.room]
    BY <1>6 DEF Apply
  <2>2. rooms' = rooms /\ dead' = dead
    BY <1>1, <1>3, <1>4, <1>6, <2>1 DEF TypeOK
  <2>3. QED
    BY <1>1, <1>2, <1>4, <1>6, <2>2 DEF m
<1>7. CASE m.op = "delete"
  <2>1. Apply(m, rooms[m.room]) = NoRoom
    BY <1>7 DEF Apply
  <2>2. rooms' = [rooms EXCEPT ![m.room] = NoRoom]
    BY <1>4, <2>1
  <2>3. CASE rooms[m.room] = NoRoom
    <3>1. rooms' = rooms /\ dead' = dead
      BY <1>1, <1>3, <1>4, <2>2, <2>3 DEF TypeOK
    <3>2. QED
      BY <1>1, <1>2, <1>4, <1>7, <3>1 DEF m
  <2>4. CASE rooms[m.room] # NoRoom
    <3>1. m.room \notin dead /\ dead' = dead \cup {m.room}
      BY <1>3, <1>4, <1>7, <2>4 DEF Fresh
    <3>2. rooms[m.room] \in Docs
      BY <1>1, <1>3, <2>4 DEF TypeOK
    <3>3. Gone(m.room)
      BY <2>2, <3>1, <3>2 DEF Gone
    <3>4. QED
      BY <1>1, <1>2, <1>4, <1>7, <3>3 DEF m
  <2>5. QED
    BY <2>3, <2>4
<1>8. QED
  BY <1>3, <1>5, <1>6, <1>7

LEMMA FreshCommit ==
    ASSUME Sound, Fresh, NEW p \in Phones, CommitHead(p)
    PROVE  Fresh'
<1> DEFINE m == Oldest(p)
<1>1. TypeOK /\ me[p] \in Users /\ queue[p][me[p]] # << >> /\ Taken(p) /\ UNCHANGED used
  BY CommitGroups DEF Sound
<1>2. m.room \in Rooms
  BY CommitGroups DEF Mutations
<1>3. m.op = "set" => m.room \in used \ dead
  <2>1. m = queue[p][me[p]][1] /\ 1 \in DOMAIN queue[p][me[p]]
    BY <1>1, TakenType
  <2>2. QED
    BY <1>1, <2>1 DEF Fresh
<1>4. CASE UNCHANGED <<rooms, dead>>
  BY <1>1, <1>4, FreshRefuse
<1>5. CASE m.op = "set" /\ Made(m.room)
  <2>1. \A r \in Rooms : r # m.room => rooms'[r] = rooms[r]
    BY <1>1, <1>5 DEF Made, TypeOK
  <2>2. dead' = dead
    BY <1>5 DEF Made
  <2>3. dead' \subseteq used' /\ \A r \in Rooms : rooms'[r] # NoRoom => r \in used' \ dead'
    BY <1>1, <1>3, <1>5, <2>1, <2>2 DEF Fresh
  <2>4. ASSUME NEW a \in Phones, NEW b \in Phones, NEW u \in Users, NEW v \in Users,
               NEW i \in DOMAIN queue'[a][u], NEW j \in DOMAIN queue'[b][v],
               queue'[a][u][i].op = "set"
        PROVE  /\ queue'[a][u][i].doc \in Docs
               /\ queue'[a][u][i].room \in used' \ dead'
               /\ rooms'[queue'[a][u][i].room] = NoRoom
               /\ queue'[b][v][j].op = "set" /\ queue'[b][v][j].room = queue'[a][u][i].room
                      => a = b /\ u = v /\ i = j
    <3>1. /\ queue'[a][u][i] \in Mutations /\ queue'[a][u][i].doc \in Docs
          /\ queue'[a][u][i].room \in used \ dead
          /\ rooms[queue'[a][u][i].room] = NoRoom
          /\ queue'[b][v][j].op = "set" /\ queue'[b][v][j].room = queue'[a][u][i].room
                 => a = b /\ u = v /\ i = j
          /\ queue'[a][u][i].room # m.room
      BY <1>1, <1>5, <2>4, FreshTaken
    <3>2. queue'[a][u][i].room \in Rooms
      BY <3>1 DEF Mutations
    <3>3. QED
      BY <1>1, <2>1, <2>2, <3>1, <3>2
  <2>5. QED
    BY <2>3, <2>4 DEF Fresh
<1>6. CASE Gone(m.room)
  <2>1. /\ rooms[m.room] # NoRoom /\ dead' = dead \cup {m.room}
        /\ rooms'[m.room] = NoRoom
        /\ \A r \in Rooms : r # m.room => rooms'[r] = rooms[r]
    BY <1>1, <1>2, <1>6, DocAssumption DEF Gone, Docs, TypeOK
  <2>2. dead' \subseteq used' /\ \A r \in Rooms : rooms'[r] # NoRoom => r \in used' \ dead'
    BY <1>1, <1>2, <2>1 DEF Fresh
  <2>3. ASSUME NEW a \in Phones, NEW b \in Phones, NEW u \in Users, NEW v \in Users,
               NEW i \in DOMAIN queue'[a][u], NEW j \in DOMAIN queue'[b][v],
               queue'[a][u][i].op = "set"
        PROVE  /\ queue'[a][u][i].doc \in Docs
               /\ queue'[a][u][i].room \in used' \ dead'
               /\ rooms'[queue'[a][u][i].room] = NoRoom
               /\ queue'[b][v][j].op = "set" /\ queue'[b][v][j].room = queue'[a][u][i].room
                      => a = b /\ u = v /\ i = j
    <3>1. /\ queue'[a][u][i] \in Mutations /\ queue'[a][u][i].doc \in Docs
          /\ queue'[a][u][i].room \in used \ dead
          /\ rooms[queue'[a][u][i].room] = NoRoom
          /\ queue'[b][v][j].op = "set" /\ queue'[b][v][j].room = queue'[a][u][i].room
                 => a = b /\ u = v /\ i = j
      BY <1>1, <2>3, FreshTaken
    <3>2. queue'[a][u][i].room \in Rooms
      BY <3>1 DEF Mutations
    <3>3. queue'[a][u][i].room # m.room
      BY <2>1, <3>1
    <3>4. QED
      BY <1>1, <2>1, <3>1, <3>2, <3>3
  <2>4. QED
    BY <2>2, <2>3 DEF Fresh
<1>7. QED
  BY <1>4, <1>5, <1>6, CommitGroups

\* Every step but those of the server, the transaction and Save leaves the
\* groups and what is queued to make them alone.
LEMMA FreshPreserved == Sound /\ Fresh /\ [Next]_vars => Fresh' /\ GroupStep
<1> SUFFICES ASSUME Sound, Fresh, [Next]_vars PROVE Fresh' /\ GroupStep
  OBVIOUS
<1> TypeOK /\ PagesGrounded
  BY DEF Sound
<1>a. ASSUME UNCHANGED <<rooms, queue, used, dead>> PROVE Fresh' /\ GroupStep
  BY <1>a, FreshKept DEF GroupStep
<1>1. ASSUME NEW p \in Phones, NEW u \in Users, LogIn(p, u) PROVE Fresh' /\ GroupStep
  BY <1>1, <1>a DEF LogIn, history
<1>2. ASSUME NEW p \in Phones, LogOut(p) PROVE Fresh' /\ GroupStep
  BY <1>2, <1>a DEF LogOut, history
<1>3. ASSUME NEW p \in Phones, OpenRoom(p) PROVE Fresh' /\ GroupStep
  BY <1>3, <1>a DEF OpenRoom, history
<1>4. ASSUME NEW p \in Phones, Back(p) PROVE Fresh' /\ GroupStep
  BY <1>4, <1>a DEF Back, history
<1>5. ASSUME NEW p \in Phones, OpenAdd(p) PROVE Fresh' /\ GroupStep
  BY <1>5, <1>a DEF OpenAdd, history
<1>6. ASSUME NEW p \in Phones, NEW u \in Users, Tick(p, u) PROVE Fresh' /\ GroupStep
  BY <1>6, <1>a DEF Tick, history
<1>7. ASSUME NEW p \in Phones, NEW s \in Slots, OpenList(p, s) PROVE Fresh' /\ GroupStep
  BY <1>7, <1>a DEF OpenList
<1>8. ASSUME NEW p \in Phones, NEW s \in Slots, Refresh(p, s) PROVE Fresh' /\ GroupStep
  BY <1>8, <1>a DEF Refresh, history, local
<1>9. ASSUME NEW p \in Phones, NEW s \in Slots, FinishCreate(p, s) PROVE Fresh' /\ GroupStep
  BY <1>9, <1>a DEF FinishCreate, local
<1>10. ASSUME NEW p \in Phones, NEW s \in Slots, FailCreate(p, s) PROVE Fresh' /\ GroupStep
  BY <1>10, <1>a DEF FailCreate, history, local
<1>11. ASSUME NEW p \in Phones, NEW s \in Slots, ReadRooms(p, s) PROVE Fresh' /\ GroupStep
  BY <1>11, <1>a DEF ReadRooms, history
<1>12. ASSUME NEW p \in Phones, NEW s \in Slots, FinishLoad(p, s) PROVE Fresh' /\ GroupStep
  BY <1>12, <1>a DEF FinishLoad, local
<1>13. ASSUME NEW p \in Phones, NEW s \in Slots, FailLoad(p, s) PROVE Fresh' /\ GroupStep
  BY <1>13, <1>a DEF FailLoad, history, local
<1>14. ASSUME NEW p \in Phones, NEW s \in Slots, TxnGet(p, s) PROVE Fresh' /\ GroupStep
  BY <1>14, <1>a DEF TxnGet, history, local
<1>15. ASSUME NEW p \in Phones, NEW s \in Slots, FailTxn(p, s) PROVE Fresh' /\ GroupStep
  BY <1>15, <1>a DEF FailTxn, history, local
<1>16. ASSUME NEW p \in Phones, NEW s \in Slots, FinishAdd(p, s) PROVE Fresh' /\ GroupStep
  BY <1>16, <1>a DEF FinishAdd, local
<1>17. ASSUME NEW p \in Phones, NEW s \in Slots, FailAdd(p, s) PROVE Fresh' /\ GroupStep
  BY <1>17, <1>a DEF FailAdd, history, local
<1>18. ASSUME NEW p \in Phones, NEW s \in Slots, FinishDelete(p, s) PROVE Fresh' /\ GroupStep
  BY <1>18, <1>a DEF FinishDelete, DeleteDone
<1>19. ASSUME NEW p \in Phones, NEW s \in Slots, FinishRename(p, s) PROVE Fresh' /\ GroupStep
  BY <1>19, <1>a DEF FinishRename, history, local
<1>20. ASSUME NEW p \in Phones, NEW s \in Slots, FailQuietly(p, s) PROVE Fresh' /\ GroupStep
  BY <1>20, <1>a DEF FailQuietly, history, local
<1>21. ASSUME NEW p \in Phones, NEW s \in Slots, NEW S \in SUBSET Users, AddMembers(p, s, S) PROVE Fresh' /\ GroupStep
  BY <1>21, <1>a DEF AddMembers, history, local
<1>22. ASSUME NEW p \in Phones, NEW s \in Slots, NEW r \in Rooms, Save(p, s, r) PROVE Fresh' /\ GroupStep
  <2> DEFINE d == [members |-> Ticked(p) \cup {me[p]}, admin |-> owner[p]]
             m == Write("set", r, d, s)
  <2>1. owner[p] \in Users /\ me[p] \in Users
    BY <1>22 DEF Save, PagesGrounded, TypeOK
  <2>2. d \in Docs
    BY <2>1 DEF Ticked, Docs
  <2>3. Enqueue(p, m) /\ r \notin used /\ used' = used \cup {r} /\ UNCHANGED <<rooms, dead>>
    BY <1>22 DEF Save
  <2> HIDE DEF d
  <2>4. m \in Mutations /\ m.room = r /\ m.doc = d
    BY <2>2 DEF Write, Mutations
  <2> HIDE DEF m
  <2>5. Fresh'
    BY <2>1, <2>2, <2>3, <2>4, FreshSave
  <2>6. QED
    BY <2>3, <2>5 DEF GroupStep
<1>23. ASSUME NEW p \in Phones, NEW s \in Slots, Delete(p, s) PROVE Fresh' /\ GroupStep
  <2> DEFINE m == Write("delete", page[p].room, NoRoom, s)
  <2>1. me[p] \in Users /\ page[p].room \in Rooms
    BY <1>23 DEF Delete, PagesGrounded
  <2>2. Enqueue(p, m) /\ UNCHANGED <<rooms, used, dead>>
    BY <1>23 DEF Delete, history
  <2>3. m \in Mutations /\ m.op = "delete"
    BY <2>1 DEF Write, Mutations
  <2> HIDE DEF m
  <2>4. Fresh'
    BY <2>1, <2>2, <2>3, FreshOther
  <2>5. QED
    BY <2>2, <2>4 DEF GroupStep
<1>24. ASSUME NEW p \in Phones, NEW s \in Slots, Rename(p, s) PROVE Fresh' /\ GroupStep
  <2> DEFINE m == Write("update", page[p].room, NoRoom, s)
  <2>1. me[p] \in Users /\ page[p].room \in Rooms
    BY <1>24 DEF Rename, PagesGrounded
  <2>2. Enqueue(p, m) /\ UNCHANGED <<rooms, used, dead>>
    BY <1>24 DEF Rename, history
  <2>3. m \in Mutations /\ m.op = "update"
    BY <2>1 DEF Write, Mutations
  <2> HIDE DEF m
  <2>4. Fresh'
    BY <2>1, <2>2, <2>3, FreshOther
  <2>5. QED
    BY <2>2, <2>4 DEF GroupStep
<1>25. ASSUME NEW p \in Phones, NEW s \in Slots, TxnCommit(p, s) PROVE Fresh' /\ GroupStep
  <2> DEFINE h == handler[p][s]
             d == [rooms[h.room] EXCEPT !.members = rooms[h.room].members \cup h.set]
  <2>1. /\ h \in HandlerStates /\ h.doc \in Docs /\ h.room \in Rooms
        /\ UNCHANGED <<queue, used, dead>>
    BY <1>25, EndsFacts DEF TxnCommit, Kinds, history
  <2>2. CASE rooms[h.room] = h.doc
    <3>1. rooms[h.room] \in Docs /\ rooms[h.room] # NoRoom /\ h.set \in SUBSET Users
      BY <2>1, <2>2, DocAssumption DEF HandlerStates, Docs
    <3>2. rooms' = [rooms EXCEPT ![h.room] = d]
      BY <1>25, <2>1, <2>2 DEF TxnCommit, TypeOK
    <3>3. d \in Docs
      BY <3>1 DEF Docs
    <3>4. Fresh'
      BY <2>1, <3>1, <3>2, <3>3, FreshGrown
    <3>5. h.room \notin dead
      BY <2>1, <3>1 DEF Fresh
    <3>6. Grown(h.room)
      BY <2>1, <3>1, <3>2, <3>5 DEF Grown
    <3>7. QED
      BY <2>1, <3>4, <3>6 DEF GroupStep
  <2>3. CASE rooms[h.room] # h.doc
    BY <1>25, <1>a, <2>1, <2>3 DEF TxnCommit
  <2>4. QED
    BY <2>2, <2>3
<1>26. ASSUME NEW p \in Phones, CommitHead(p) PROVE Fresh' /\ GroupStep
  <2>1. Oldest(p).room \in Rooms
    BY <1>26, CommitGroups DEF Mutations
  <2>2. QED
    BY <1>26, <2>1, FreshCommit, CommitGroups DEF GroupStep
<1>27. ASSUME NEW p \in Phones, RefuseHead(p) PROVE Fresh' /\ GroupStep
  <2>1. /\ me[p] \in Users /\ queue[p][me[p]] # << >> /\ Taken(p)
        /\ UNCHANGED <<rooms, used, dead>>
    BY <1>27 DEF RefuseHead, Taken, history, TypeOK
  <2>2. QED
    BY <2>1, FreshRefuse DEF GroupStep
<1>28. ASSUME NEW p \in Phones, Crash(p) PROVE Fresh' /\ GroupStep
  BY <1>28, FreshCrash DEF Crash, GroupStep
<1>29. CASE UNCHANGED vars
  BY <1>29, <1>a DEF vars
<1>30. QED
  BY <1>1, <1>2, <1>3, <1>4, <1>5, <1>6, <1>7, <1>8, <1>9, <1>10,
     <1>11, <1>12, <1>13, <1>14, <1>15, <1>16, <1>17, <1>18, <1>19, <1>20,
     <1>21, <1>22, <1>23, <1>24, <1>25, <1>26, <1>27, <1>28, <1>29
     DEF Next, UserActs, Progress

-----------------------------------------------------------------------------
(***************************************************************************)
(* GroupChat implements Membership.                                        *)
(***************************************************************************)
LEMMA StepIsAbstract ==
    ASSUME Sound, GroupStep
    PROVE  [Abstract!Next]_(Abstract!vars)
<1> DEFINE L == [r \in Rooms |-> Life(r)]
           M == [r \in Rooms |-> MembersOf(r)]
<1>1. CASE UNCHANGED <<rooms, dead>>
  <2>1. L' = L /\ M' = M
    BY <1>1 DEF Life, MembersOf
  <2>2. QED
    BY <2>1 DEF Abstract!vars
<1>2. ASSUME NEW r \in Rooms, Made(r) PROVE Abstract!Next
  <2>1. PICK d \in Docs : rooms' = [rooms EXCEPT ![r] = d]
    BY <1>2 DEF Made
  <2>2. /\ rooms[r] = NoRoom /\ r \notin dead /\ dead' = dead
        /\ rooms'[r] = d /\ d # NoRoom
        /\ \A x \in Rooms : x # r => rooms'[x] = rooms[x]
    BY <1>2, <2>1, DocAssumption DEF Made, Docs, Sound, TypeOK
  <2>3. Life(r) = "fresh" /\ Life(r)' = "live" /\ MembersOf(r)' = d.members
    BY <2>2 DEF Life, MembersOf
  <2>4. \A x \in Rooms : x # r => Life(x)' = Life(x) /\ MembersOf(x)' = MembersOf(x)
    BY <2>2 DEF Life, MembersOf
  <2>5. L' = [L EXCEPT ![r] = "live"] /\ M' = [M EXCEPT ![r] = d.members]
    BY <2>3, <2>4
  <2>6. d.members \in SUBSET Users
    BY DEF Docs
  <2>7. Abstract!Found(r, d.members)
    BY <2>3, <2>5 DEF Abstract!Found
  <2>8. QED
    BY <2>6, <2>7 DEF Abstract!Next
<1>3. ASSUME NEW r \in Rooms, Grown(r) PROVE Abstract!Next
  <2>1. PICK S \in SUBSET Users :
            rooms' = [rooms EXCEPT ![r] = [rooms[r] EXCEPT !.members = rooms[r].members \cup S]]
    BY <1>3 DEF Grown
  <2> DEFINE d == [rooms[r] EXCEPT !.members = rooms[r].members \cup S]
  <2>2. d \in Docs /\ d # NoRoom /\ rooms[r] # NoRoom /\ d.members = rooms[r].members \cup S
    BY <1>3, DocAssumption DEF Grown, Docs
  <2>3. rooms' = [rooms EXCEPT ![r] = d]
    BY <2>1
  <2> HIDE DEF d
  <2>4. /\ r \notin dead /\ dead' = dead /\ rooms'[r] = d
        /\ \A x \in Rooms : x # r => rooms'[x] = rooms[x]
    BY <1>3, <2>3 DEF Grown, Sound, TypeOK
  <2>5. /\ Life(r) = "live" /\ Life(r)' = "live"
        /\ MembersOf(r)' = MembersOf(r) \cup S
    BY <2>2, <2>4 DEF Life, MembersOf
  <2>6. \A x \in Rooms : x # r => Life(x)' = Life(x) /\ MembersOf(x)' = MembersOf(x)
    BY <2>4 DEF Life, MembersOf
  <2>7. L' = L /\ M' = [M EXCEPT ![r] = M[r] \cup S]
    BY <2>5, <2>6
  <2>8. Abstract!Join(r, S)
    BY <2>5, <2>7 DEF Abstract!Join
  <2>9. QED
    BY <2>8 DEF Abstract!Next
<1>4. ASSUME NEW r \in Rooms, Gone(r) PROVE Abstract!Next
  <2>1. /\ rooms[r] # NoRoom /\ r \notin dead /\ dead' = dead \cup {r} /\ rooms'[r] = NoRoom
        /\ \A x \in Rooms : x # r => rooms'[x] = rooms[x]
    BY <1>4, DocAssumption DEF Gone, Docs, Sound, TypeOK
  <2>2. Life(r) = "live" /\ Life(r)' = "gone" /\ MembersOf(r)' = {}
    BY <2>1 DEF Life, MembersOf
  <2>3. \A x \in Rooms : x # r => Life(x)' = Life(x) /\ MembersOf(x)' = MembersOf(x)
    BY <2>1 DEF Life, MembersOf
  <2>4. L' = [L EXCEPT ![r] = "gone"] /\ M' = [M EXCEPT ![r] = {}]
    BY <2>2, <2>3
  <2>5. Abstract!Dissolve(r)
    BY <2>2, <2>4 DEF Abstract!Dissolve
  <2>6. QED
    BY <2>5 DEF Abstract!Next
<1>5. QED
  BY <1>1, <1>2, <1>3, <1>4 DEF GroupStep

LEMMA FreshAtFirst == Init => Fresh
BY DEF Init, Fresh

\* Theorem 2.  ImplementsMembership: a group is made once, only gains members
\* and never comes back, whatever is queued, replayed or retried.
THEOREM Refinement == Spec => ImplementsMembership
<1>1. Init => Abstract!Init
  BY DEF Init, Abstract!Init, Life, MembersOf
<1>2. Sound /\ Fresh /\ [Next]_vars => [Abstract!Next]_(Abstract!vars)
  BY FreshPreserved, StepIsAbstract
<1>3. Spec => [](Sound /\ Fresh)
  <2>1. Init => Sound /\ Fresh
    BY SoundAtFirst, FreshAtFirst
  <2>2. (Sound /\ Fresh) /\ [Next]_vars => (Sound /\ Fresh)'
    BY SoundPreserved, FreshPreserved
  <2>3. QED
    BY <2>1, <2>2, PTL DEF Spec
<1>4. QED
  BY <1>1, <1>2, <1>3, PTL DEF Spec, ImplementsMembership, Abstract!Spec

-----------------------------------------------------------------------------
(***************************************************************************)
(* A reported member stays.                                                *)
(***************************************************************************)
LEMMA Grows ==
    ASSUME Sound, GroupStep, NEW r \in Rooms
    PROVE  r \in dead' \/ (r \notin dead /\ MembersOf(r) \subseteq MembersOf(r)')
<1> DEFINE Kept == r \in dead' \/ (r \notin dead /\ MembersOf(r) \subseteq MembersOf(r)')
<1>1. CASE UNCHANGED <<rooms, dead>>
  BY <1>1 DEF MembersOf
<1>2. ASSUME NEW x \in Rooms, Made(x) PROVE Kept
  <2>1. rooms[x] = NoRoom /\ dead' = dead /\ (x # r => rooms'[r] = rooms[r])
    BY <1>2 DEF Made, Sound, TypeOK
  <2>2. QED
    BY <2>1 DEF MembersOf
<1>3. ASSUME NEW x \in Rooms, Grown(x) PROVE Kept
  <2>1. PICK S \in SUBSET Users :
            rooms' = [rooms EXCEPT ![x] = [rooms[x] EXCEPT !.members = rooms[x].members \cup S]]
    BY <1>3 DEF Grown
  <2> DEFINE d == [rooms[x] EXCEPT !.members = rooms[x].members \cup S]
  <2>2. d # NoRoom /\ rooms[x] # NoRoom /\ rooms[x].members \subseteq d.members
    BY <1>3, DocAssumption DEF Grown, Docs
  <2>3. rooms' = [rooms EXCEPT ![x] = d]
    BY <2>1
  <2> HIDE DEF d
  <2>4. dead' = dead /\ rooms'[x] = d /\ (x # r => rooms'[r] = rooms[r])
    BY <1>3, <2>3 DEF Grown, Sound, TypeOK
  <2>5. QED
    BY <2>2, <2>4 DEF MembersOf
<1>4. ASSUME NEW x \in Rooms, Gone(x) PROVE Kept
  <2>1. dead' = dead \cup {x} /\ (x # r => rooms'[r] = rooms[r])
    BY <1>4 DEF Gone, Sound, TypeOK
  <2>2. QED
    BY <2>1 DEF MembersOf
<1>5. QED
  BY <1>1, <1>2, <1>3, <1>4 DEF GroupStep

\* A handler that comes to report members got there by an answer of the
\* server or by its transaction.
LEMMA NewReports ==
    ASSUME Sound, [Next]_vars, NEW a \in Phones, NEW t \in Slots, Reports(handler'[a][t])
    PROVE  \/ handler'[a][t] = handler[a][t]
           \/ CommitHead(a) \/ TxnCommit(a, t)
<1> DEFINE Kept == handler'[a][t] = handler[a][t]
<1> TypeOK /\ PagesGrounded
  BY DEF Sound
<1>a. ASSUME UNCHANGED handler PROVE Kept
  BY <1>a
<1>b. ASSUME NEW p \in Phones, NEW s \in Slots, NEW h, ~Reports(h), Set(p, s, h)
      PROVE  Kept
  <2>1. handler'[a][t] = IF a = p /\ t = s THEN h ELSE handler[a][t]
    BY <1>b DEF Set, TypeOK
  <2>2. QED
    BY <1>b, <2>1
<1>c. \A p \in Phones : ~Reports(Load(p))
  BY DEF Reports, Load, Run
<1>d. ~Reports(Idle)
  BY DEF Reports
<1>1. ASSUME NEW p \in Phones, NEW u \in Users, LogIn(p, u) PROVE Kept
  BY <1>1, <1>a DEF LogIn
<1>2. ASSUME NEW p \in Phones, LogOut(p) PROVE Kept
  BY <1>2, <1>a DEF LogOut
<1>3. ASSUME NEW p \in Phones, OpenRoom(p) PROVE Kept
  BY <1>3, <1>a DEF OpenRoom
<1>4. ASSUME NEW p \in Phones, Back(p) PROVE Kept
  BY <1>4, <1>a DEF Back
<1>5. ASSUME NEW p \in Phones, OpenAdd(p) PROVE Kept
  BY <1>5, <1>a DEF OpenAdd
<1>6. ASSUME NEW p \in Phones, NEW u \in Users, Tick(p, u) PROVE Kept
  BY <1>6, <1>a DEF Tick
<1>7. ASSUME NEW p \in Phones, NEW s \in Slots, OpenList(p, s) PROVE Kept
  BY <1>7, <1>b, <1>c DEF OpenList, StartLoad
<1>8. ASSUME NEW p \in Phones, NEW s \in Slots, Refresh(p, s) PROVE Kept
  BY <1>8, <1>b, <1>c DEF Refresh, StartLoad
<1>9. ASSUME NEW p \in Phones, NEW s \in Slots, FinishAdd(p, s) PROVE Kept
  BY <1>9, <1>b, <1>c DEF FinishAdd, StartLoad
<1>10. ASSUME NEW p \in Phones, NEW s \in Slots, FinishDelete(p, s) PROVE Kept
  BY <1>10, <1>b, <1>c DEF FinishDelete, DeleteDone, StartLoad
<1>11. ASSUME NEW p \in Phones, NEW s \in Slots, FailCreate(p, s) PROVE Kept
  BY <1>11, <1>b, <1>d DEF FailCreate
<1>12. ASSUME NEW p \in Phones, NEW s \in Slots, FinishLoad(p, s) PROVE Kept
  BY <1>12, <1>b, <1>d DEF FinishLoad
<1>13. ASSUME NEW p \in Phones, NEW s \in Slots, FailLoad(p, s) PROVE Kept
  BY <1>13, <1>b, <1>d DEF FailLoad
<1>14. ASSUME NEW p \in Phones, NEW s \in Slots, FailAdd(p, s) PROVE Kept
  BY <1>14, <1>b, <1>d DEF FailAdd
<1>15. ASSUME NEW p \in Phones, NEW s \in Slots, FailQuietly(p, s) PROVE Kept
  BY <1>15, <1>b, <1>d DEF FailQuietly
<1>16. ASSUME NEW p \in Phones, NEW s \in Slots, FinishCreate(p, s) PROVE Kept
  <2>1. Set(p, s, Load(p)) \/ Set(p, s, Idle)
    BY <1>16 DEF FinishCreate, StartLoad
  <2>2. QED
    BY <1>b, <1>c, <1>d, <2>1
<1>17. ASSUME NEW p \in Phones, NEW s \in Slots, FinishRename(p, s) PROVE Kept
  <2>1. Set(p, s, Load(p)) \/ Set(p, s, Idle)
    BY <1>17 DEF FinishRename, StartLoad
  <2>2. QED
    BY <1>b, <1>c, <1>d, <2>1
<1>18. ASSUME NEW p \in Phones, NEW s \in Slots, NEW r \in Rooms, Save(p, s, r) PROVE Kept
  <2>1. Set(p, s, Run("create", me[p], r, Ticked(p) \cup {me[p]}, "write"))
    BY <1>18 DEF Save
  <2>2. ~Reports(Run("create", me[p], r, Ticked(p) \cup {me[p]}, "write"))
    BY DEF Reports, Run
  <2>3. QED
    BY <1>b, <2>1, <2>2
<1>19. ASSUME NEW p \in Phones, NEW s \in Slots, Delete(p, s) PROVE Kept
  <2>1. Set(p, s, Run("delete", me[p], page[p].room, {}, "write"))
    BY <1>19 DEF Delete
  <2>2. ~Reports(Run("delete", me[p], page[p].room, {}, "write"))
    BY DEF Reports, Run
  <2>3. QED
    BY <1>b, <2>1, <2>2
<1>20. ASSUME NEW p \in Phones, NEW s \in Slots, Rename(p, s) PROVE Kept
  <2>1. Set(p, s, Run("rename", me[p], page[p].room, {}, "write"))
    BY <1>20 DEF Rename
  <2>2. ~Reports(Run("rename", me[p], page[p].room, {}, "write"))
    BY DEF Reports, Run
  <2>3. QED
    BY <1>b, <2>1, <2>2
<1>21. ASSUME NEW p \in Phones, NEW s \in Slots, NEW S \in SUBSET Users, AddMembers(p, s, S) PROVE Kept
  <2>1. Set(p, s, Run("add", me[p], page[p].room, S, "get"))
    BY <1>21 DEF AddMembers
  <2>2. ~Reports(Run("add", me[p], page[p].room, S, "get"))
    BY DEF Reports, Run
  <2>3. QED
    BY <1>b, <2>1, <2>2
<1>22. ASSUME NEW p \in Phones, NEW s \in Slots, ReadRooms(p, s) PROVE Kept
  <2>1. handler[p][s] \in HandlerStates /\ handler[p][s].kind = "load"
    BY <1>22, EndsFacts DEF ReadRooms, Kinds
  <2>2. PICK docs \in {rooms, cache[p]} : Answer(p, s, handler[p][s].who, docs)
    BY <1>22 DEF ReadRooms
  <2> DEFINE L == Mine(handler[p][s].who, Seen(p, docs))
             h == [handler[p][s] EXCEPT !.pc = "answer", !.list = L]
  <2>3. Set(p, s, h)
    BY <2>2 DEF Answer, Set, TypeOK
  <2> HIDE DEF L
  <2>4. ~Reports(h)
    BY <2>1 DEF Reports, HandlerStates
  <2> HIDE DEF h
  <2>5. QED
    BY <1>b, <2>3, <2>4
<1>23. ASSUME NEW p \in Phones, NEW s \in Slots, TxnGet(p, s) PROVE Kept
  <2> DEFINE d == rooms[handler[p][s].room]
             h == [handler[p][s] EXCEPT !.doc = d, !.pc = IF d = NoRoom THEN "err" ELSE "commit"]
  <2>1. handler[p][s] \in HandlerStates
    BY <1>23, EndsFacts DEF TxnGet, Kinds
  <2>2. Set(p, s, h)
    BY <1>23 DEF TxnGet, Set, TypeOK
  <2> HIDE DEF d
  <2>3. ~Reports(h)
    BY <2>1 DEF Reports, HandlerStates
  <2> HIDE DEF h
  <2>4. QED
    BY <1>b, <2>2, <2>3
<1>24. ASSUME NEW p \in Phones, NEW s \in Slots, FailTxn(p, s) PROVE Kept
  <2> DEFINE h == [handler[p][s] EXCEPT !.pc = "err"]
  <2>1. handler[p][s] # Idle /\ handler[p][s] \in HandlerStates
    BY <1>24, RunningHandler DEF FailTxn, Ends
  <2>2. Set(p, s, h)
    BY <1>24, <2>1, StepIsSet DEF FailTxn
  <2>3. ~Reports(h)
    BY <2>1 DEF Reports, HandlerStates
  <2> HIDE DEF h
  <2>4. QED
    BY <1>b, <2>2, <2>3
<1>25. ASSUME NEW p \in Phones, CommitHead(p) PROVE Kept \/ CommitHead(a)
  <2>1. CASE p = a
    BY <1>25, <2>1
  <2>2. CASE p # a
    BY <1>25, <2>2 DEF CommitHead, Commit, Acknowledge, TypeOK
  <2>3. QED
    BY <2>1, <2>2
<1>26. ASSUME NEW p \in Phones, NEW s \in Slots, TxnCommit(p, s) PROVE Kept \/ TxnCommit(a, t)
  <2>1. CASE p = a /\ s = t
    BY <1>26, <2>1
  <2>2. CASE ~(p = a /\ s = t)
    <3>1. PICK pc \in {"ok", "get"} : handler' = [handler EXCEPT ![p][s].pc = pc]
      BY <1>26 DEF TxnCommit
    <3>2. QED
      BY <2>2, <3>1 DEF TypeOK
  <2>3. QED
    BY <2>1, <2>2
<1>27. ASSUME NEW p \in Phones, RefuseHead(p) PROVE Kept
  <2>1. /\ me[p] \in Users /\ queue[p][me[p]] # << >> /\ Taken(p)
        /\ Acknowledge(p, Oldest(p), "err") /\ Owned
    BY <1>27 DEF RefuseHead, Taken, Oldest, Sound, TypeOK
  <2>2. \A q \in Phones : \A x \in Slots :
            ~(q = p /\ x = Oldest(p).slot) => handler'[q][x] = handler[q][x]
    BY <2>1, AcknowledgeMoves
  <2>3. CASE a = p /\ t = Oldest(p).slot
    <3>1. t # NoSlot
      BY NullAssumption
    <3>2. handler'[a][t] = [handler[a][t] EXCEPT !.pc = "err"]
      BY <2>1, <2>3, <3>1, AcknowledgeMoves
    <3>3. handler[a][t] \in HandlerStates
      BY <2>1, <2>3, <3>1, HeadOwned
    <3>4. QED
      BY <3>2, <3>3 DEF Reports, HandlerStates
  <2>4. QED
    BY <2>2, <2>3
<1>28. ASSUME NEW p \in Phones, Crash(p) PROVE Kept
  <2>1. handler'[a][t] = IF a = p THEN Idle ELSE handler[a][t]
    BY <1>28 DEF Crash, TypeOK
  <2>2. QED
    BY <1>d, <2>1
<1>29. CASE UNCHANGED vars
  BY <1>29 DEF vars
<1>30. QED
  BY <1>1, <1>2, <1>3, <1>4, <1>5, <1>6, <1>7, <1>8, <1>9, <1>10,
     <1>11, <1>12, <1>13, <1>14, <1>15, <1>16, <1>17, <1>18, <1>19, <1>20,
     <1>21, <1>22, <1>23, <1>24, <1>25, <1>26, <1>27, <1>28, <1>29
     DEF Next, UserActs, Progress

LEMMA SettledPreserved == Sound /\ Fresh /\ Settled /\ [Next]_vars => Settled'
<1> SUFFICES ASSUME Sound, Fresh, Settled, [Next]_vars,
                    NEW p \in Phones, NEW s \in Slots, Reports(handler[p][s])'
             PROVE  Ready(p, s)'
  BY DEF Settled
<1> DEFINE h == handler[p][s]
<1>1. TypeOK /\ Owned /\ GroupStep
  BY FreshPreserved DEF Sound
<1>2. CASE handler'[p][s] = h
  <2>1. Reports(h)
    BY <1>2 DEF Reports
  <2>2. h.room \in Rooms /\ Ready(p, s)
    BY <2>1 DEF Reports, Settled, Sound, HandlersGrounded
  <2>3. PICK r \in Rooms : r = h.room
    BY <2>2
  <2>4. r \in dead' \/ (r \notin dead /\ MembersOf(r) \subseteq MembersOf(r)')
    BY <1>1, Grows
  <2>5. handler'[p][s].room = r
    BY <1>2, <2>3
  <2>6. QED
    BY <1>2, <2>2, <2>3, <2>4, <2>5 DEF Ready, MembersOf
<1>3. CASE TxnCommit(p, s)
  <2>1. /\ h \in HandlerStates /\ h # Idle /\ h.doc \in Docs /\ h.room \in Rooms
    BY <1>3, EndsFacts DEF TxnCommit, Kinds
  <2>2. PICK pc \in {"ok", "get"} : handler' = [handler EXCEPT ![p][s].pc = pc]
    BY <1>3 DEF TxnCommit
  <2>3. handler'[p][s] = [h EXCEPT !.pc = pc]
    BY <1>1, <2>2 DEF TypeOK
  <2>4. /\ handler'[p][s].pc = pc /\ handler'[p][s].room = h.room
        /\ handler'[p][s].set = h.set
    BY <2>1, <2>3 DEF HandlerStates
  <2>5. rooms[h.room] = h.doc
    <3> SUFFICES ASSUME rooms[h.room] # h.doc PROVE FALSE
      OBVIOUS
    <3>1. handler' = [handler EXCEPT ![p][s].pc = "get"]
      BY <1>3 DEF TxnCommit
    <3>2. handler'[p][s].pc = "get"
      BY <1>1, <2>1, <3>1 DEF TypeOK, HandlerStates
    <3>3. QED
      BY <3>2 DEF Reports
  <2> DEFINE d == [h.doc EXCEPT !.members = h.doc.members \cup h.set]
  <2>6. d \in Docs /\ d # NoRoom /\ h.set \subseteq d.members
    BY <2>1, DocAssumption DEF Docs, HandlerStates
  <2>7. rooms' = [rooms EXCEPT ![h.room] = d]
    BY <1>1, <1>3, <2>1, <2>5 DEF TxnCommit, TypeOK
  <2> HIDE DEF d
  <2>8. rooms'[h.room] = d
    BY <1>1, <2>1, <2>7 DEF TypeOK
  <2>9. QED
    BY <2>4, <2>6, <2>8 DEF Ready, MembersOf
<1>4. CASE CommitHead(p) /\ handler'[p][s] # h
  <2> DEFINE m == Oldest(p)
  <2>1. /\ me[p] \in Users /\ queue[p][me[p]] # << >> /\ Taken(p)
        /\ m \in Mutations /\ Acknowledge(p, m, "ok")
        /\ m.op = "set" => /\ m.doc \in Docs
                           /\ rooms' = [rooms EXCEPT ![m.room] = m.doc]
    BY <1>4, CommitGroups DEF Gone
  <2>2. s = m.slot
    <3>1. \A q \in Phones : \A x \in Slots :
              ~(q = p /\ x = m.slot) => handler'[q][x] = handler[q][x]
      BY <1>1, <2>1, AcknowledgeMoves
    <3>2. QED
      BY <1>4, <3>1
  <2>3. s # NoSlot
    BY NullAssumption
  <2>4. h \in HandlerStates /\ Fits(h, m)
    BY <1>1, <2>1, <2>2, <2>3, HeadOwned
  <2>5. handler'[p][s] = [h EXCEPT !.pc = "ok"]
    BY <1>1, <2>1, <2>2, <2>3, AcknowledgeMoves
  <2>6. /\ handler'[p][s].kind = h.kind /\ handler'[p][s].room = h.room
        /\ handler'[p][s].set = h.set
    BY <2>4, <2>5 DEF HandlerStates
  <2>7. h.kind = "create" /\ m.op = "set" /\ m.doc.members = h.set /\ m.room = h.room
    BY <2>4, <2>6 DEF Fits, Reports
  <2>8. m.room \in Rooms /\ m.doc # NoRoom
    BY <2>1, <2>7, DocAssumption DEF Mutations, Docs
  <2>9. rooms'[m.room] = m.doc
    BY <1>1, <2>1, <2>7, <2>8 DEF TypeOK
  <2>10. QED
    BY <2>6, <2>7, <2>8, <2>9 DEF Ready, MembersOf
<1>5. QED
  BY <1>2, <1>3, <1>4, NewReports

\* Who is reported comes from a handler that has its answer.
LEMMA NewMembers ==
    ASSUME Sound, Fresh, Settled, [Next]_vars, NEW ur \in added', ur \notin added
    PROVE  ur[2] \in dead' \/ ur[1] \in MembersOf(ur[2])'
<1> DEFINE New == ur[2] \in dead' \/ ur[1] \in MembersOf(ur[2])'
<1>1. ASSUME NEW p \in Phones, NEW s \in Slots,
             Ends(p, s, "create", "ok") \/ Ends(p, s, "add", "ok"),
             added' = added \cup Reported(p, s), UNCHANGED <<rooms, dead>>
      PROVE  New
  <2>1. ur[2] = handler[p][s].room /\ ur[1] \in handler[p][s].set
    BY <1>1 DEF Reported
  <2>2. Ready(p, s)
    BY <1>1 DEF Settled, Ends, Reports
  <2>3. ur[2] \in dead \/ ur[1] \in MembersOf(ur[2])
    BY <2>1, <2>2 DEF Ready
  <2>4. QED
    BY <1>1, <2>3 DEF MembersOf
<1>2. ASSUME NEW p \in Phones, NEW s \in Slots, FinishCreate(p, s) PROVE New
  <2>1. /\ Ends(p, s, "create", "ok") /\ added' = added \cup Reported(p, s)
        /\ UNCHANGED <<rooms, dead>>
    BY <1>2 DEF FinishCreate
  <2>2. QED
    BY <1>1, <2>1
<1>3. ASSUME NEW p \in Phones, NEW s \in Slots, FinishAdd(p, s) PROVE New
  <2>1. /\ Ends(p, s, "add", "ok") /\ added' = added \cup Reported(p, s)
        /\ UNCHANGED <<rooms, dead>>
    BY <1>3 DEF FinishAdd
  <2>2. QED
    BY <1>1, <2>1
<1>4. ASSUME NEW p \in Phones, UserActs(p) PROVE added' = added
  BY <1>4 DEF UserActs, LogIn, LogOut, OpenList, Refresh, OpenRoom, Back, OpenAdd, Tick,
              Save, AddMembers, Delete, Rename, history
<1>5. ASSUME NEW p \in Phones, CommitHead(p) \/ RefuseHead(p) \/ Crash(p)
      PROVE  added' = added
  BY <1>5 DEF CommitHead, RefuseHead, Crash, history
<1>6. ASSUME NEW p \in Phones, NEW s \in Slots, Progress(p, s),
             ~FinishCreate(p, s), ~FinishAdd(p, s)
      PROVE  added' = added
  BY <1>6 DEF Progress, FailCreate, ReadRooms, FinishLoad, FailLoad, TxnGet, TxnCommit,
              FailTxn, FailAdd, FinishDelete, DeleteDone, FinishRename, FailQuietly, history
<1>7. CASE UNCHANGED vars
  BY <1>7 DEF vars
<1>8. QED
  BY <1>2, <1>3, <1>4, <1>5, <1>6, <1>7 DEF Next

\* Theorem 3.  AddedStay: a user who was reported as a member of a group is
\* one until the group is deleted.
THEOREM AdditionsStay == Spec => []AddedStay
<1> DEFINE Inv == Sound /\ Fresh /\ Settled /\ AddedStay
<1>1. Init => Inv
  <2>1. Init => \A p \in Phones : \A s \in Slots : ~Reports(handler[p][s])
    BY DEF Init, Reports
  <2>2. Init => Settled /\ AddedStay
    BY <2>1 DEF Init, Settled, AddedStay
  <2>3. QED
    BY <2>2, SoundAtFirst, FreshAtFirst
<1>2. Inv /\ [Next]_vars => Inv'
  <2> SUFFICES ASSUME Inv, [Next]_vars PROVE Inv'
    OBVIOUS
  <2>1. Sound' /\ Fresh' /\ GroupStep /\ Settled'
    BY SoundPreserved, FreshPreserved, SettledPreserved
  <2>2. AddedStay'
    <3> SUFFICES ASSUME NEW ur \in added'
                 PROVE  ur[2] \in dead' \/ ur[1] \in MembersOf(ur[2])'
      BY DEF AddedStay, MembersOf
    <3>1. CASE ur \in added
      <4>1. ur[2] \in Rooms /\ (ur[2] \in dead \/ ur[1] \in MembersOf(ur[2]))
        BY <3>1 DEF AddedStay, Sound, TypeOK
      <4>2. QED
        BY <2>1, <4>1, Grows
    <3>2. CASE ur \notin added
      BY <3>2, NewMembers
    <3>3. QED
      BY <3>1, <3>2
  <2>3. QED
    BY <2>1, <2>2
<1>3. QED
  BY <1>1, <1>2, PTL DEF Spec

-----------------------------------------------------------------------------
(***************************************************************************)
(* A group has an admin among its members.                                 *)
(***************************************************************************)
\* Who looks at a phone and whose bloc it has are users of that phone.
Planned ==
    \A p \in Phones : me[p] \in plan[p] \cup {NoUser} /\ owner[p] \in plan[p] \cup {NoUser}
WellRun(d) == Shares(d.admin) \/ d.admin \in d.members
Headed == Planned /\ AdminIsMember /\ \A d \in Docs : Queued(d) => WellRun(d)

LEMMA PlannedPreserved == Sound /\ Planned /\ [Next]_vars => Planned' /\ plan' = plan
<1> SUFFICES ASSUME Sound, Planned, [Next]_vars PROVE Planned' /\ plan' = plan
  OBVIOUS
<1>1. plan' = plan
  BY DEF Next, vars
<1>2. ASSUME UNCHANGED <<me, owner>> PROVE Planned'
  BY <1>1, <1>2 DEF Planned
<1>3. ASSUME NEW p \in Phones, NEW u \in Users, LogIn(p, u) PROVE Planned'
  BY <1>1, <1>3 DEF LogIn, Planned, Sound, TypeOK
<1>4. ASSUME NEW p \in Phones, LogOut(p) PROVE Planned'
  BY <1>1, <1>4 DEF LogOut, Planned, Sound, TypeOK
<1>5. ASSUME NEW p \in Phones, NEW s \in Slots, OpenList(p, s) PROVE Planned'
  BY <1>1, <1>5 DEF OpenList, Planned, Sound, TypeOK
<1>6. ASSUME NEW p \in Phones, Crash(p) PROVE Planned'
  BY <1>1, <1>6 DEF Crash, Planned, Sound, TypeOK
<1>7. ASSUME NEW p \in Phones, UserActs(p) PROVE Planned'
  BY <1>2, <1>3, <1>4, <1>5, <1>7
     DEF UserActs, Refresh, OpenRoom, Back, OpenAdd, Tick, Save, AddMembers, Delete, Rename, local
<1>8. ASSUME NEW p \in Phones, CommitHead(p) \/ RefuseHead(p) PROVE Planned'
  BY <1>2, <1>8 DEF CommitHead, RefuseHead, local
<1>9. ASSUME NEW p \in Phones, NEW s \in Slots, Progress(p, s) PROVE Planned'
  BY <1>2, <1>9
     DEF Progress, FinishCreate, FailCreate, ReadRooms, FinishLoad, FailLoad, TxnGet,
         TxnCommit, FailTxn, FinishAdd, FailAdd, FinishDelete, DeleteDone, FinishRename,
         FailQuietly, local
<1>10. CASE UNCHANGED vars
  BY <1>2, <1>10 DEF vars
<1>11. QED
  BY <1>1, <1>6, <1>7, <1>8, <1>9, <1>10 DEF Next

\* A group that is queued was queued before, or is made now by its admin.
LEMMA NewSets ==
    ASSUME Sound, [Next]_vars, NEW d \in Docs, Queued(d)'
    PROVE  \/ Queued(d)
           \/ \E p \in Phones : /\ owner[p] \in Users /\ d.admin = owner[p]
                                /\ me[p] \in Users /\ me[p] \in d.members
<1> DEFINE New == \E p \in Phones : /\ owner[p] \in Users /\ d.admin = owner[p]
                                    /\ me[p] \in Users /\ me[p] \in d.members
<1> TypeOK /\ PagesGrounded
  BY DEF Sound
<1>1. ASSUME UNCHANGED queue PROVE Queued(d)
  BY <1>1 DEF Queued
<1>2. ASSUME NEW p \in Phones, me[p] \in Users, NEW m \in Mutations, Enqueue(p, m)
      PROVE  Queued(d) \/ (m.op = "set" /\ m.doc = d)
  <2>1a. PICK q \in Phones, u \in Users : \E i \in DOMAIN queue'[q][u] :
            queue'[q][u][i].op = "set" /\ queue'[q][u][i].doc = d
    BY DEF Queued
  <2>1. PICK i \in DOMAIN queue'[q][u] :
            queue'[q][u][i].op = "set" /\ queue'[q][u][i].doc = d
    BY <2>1a
  <2>2. \/ i \in DOMAIN queue[q][u] /\ queue'[q][u][i] = queue[q][u][i]
        \/ queue'[q][u][i] = m
    BY <1>2, <2>1, PlacesAfterAppend
  <2>3. QED
    BY <2>1, <2>2 DEF Queued
<1>3. ASSUME NEW p \in Phones, NEW s \in Slots, NEW r \in Rooms, Save(p, s, r)
      PROVE  New \/ Queued(d)
  <2> DEFINE e == [members |-> Ticked(p) \cup {me[p]}, admin |-> owner[p]]
             m == Write("set", r, e, s)
  <2>1. owner[p] \in Users /\ me[p] \in Users /\ Enqueue(p, m)
    BY <1>3 DEF Save, PagesGrounded, TypeOK
  <2>2. e \in Docs /\ e.admin = owner[p] /\ me[p] \in e.members
    BY <2>1 DEF Ticked, Docs
  <2> HIDE DEF e
  <2>3. m \in Mutations /\ m.doc = e
    BY <2>2 DEF Write, Mutations
  <2> HIDE DEF m
  <2>4. Queued(d) \/ d = e
    BY <1>2, <2>1, <2>3
  <2>5. QED
    BY <2>1, <2>2, <2>4
<1>4. ASSUME NEW p \in Phones, NEW s \in Slots, Delete(p, s) \/ Rename(p, s) PROVE Queued(d)
  <2>1. PICK o \in {"delete", "update"} : Enqueue(p, Write(o, page[p].room, NoRoom, s))
    BY <1>4 DEF Delete, Rename
  <2> DEFINE m == Write(o, page[p].room, NoRoom, s)
  <2>2. me[p] \in Users /\ page[p].room \in Rooms
    BY <1>4 DEF Delete, Rename, PagesGrounded
  <2>3. m \in Mutations /\ m.op # "set"
    BY <2>2 DEF Write, Mutations
  <2> HIDE DEF m
  <2>4. QED
    BY <1>2, <2>1, <2>2, <2>3 DEF m
<1>5. ASSUME NEW p \in Phones, UserActs(p) PROVE Queued(d) \/ New
  BY <1>1, <1>3, <1>4, <1>5
     DEF UserActs, LogIn, LogOut, OpenList, Refresh, OpenRoom, Back, OpenAdd, Tick, AddMembers
<1>6. ASSUME NEW p \in Phones, CommitHead(p) \/ RefuseHead(p) PROVE Queued(d)
  <2>1. me[p] \in Users /\ queue[p][me[p]] # << >> /\ Taken(p)
    BY <1>6 DEF CommitHead, RefuseHead, Taken, TypeOK
  <2>2a. PICK q \in Phones, u \in Users : \E i \in DOMAIN queue'[q][u] :
            queue'[q][u][i].op = "set" /\ queue'[q][u][i].doc = d
    BY DEF Queued
  <2>2. PICK i \in DOMAIN queue'[q][u] :
            queue'[q][u][i].op = "set" /\ queue'[q][u][i].doc = d
    BY <2>2a
  <2>3. PICK k \in DOMAIN queue[q][u] : queue'[q][u][i] = queue[q][u][k]
    BY <2>1, <2>2, PlacesAfterTake
  <2>4. QED
    BY <2>2, <2>3 DEF Queued
<1>7. ASSUME NEW p \in Phones, Crash(p) PROVE Queued(d)
  <2>1a. PICK q \in Phones, u \in Users : \E i \in DOMAIN queue'[q][u] :
            queue'[q][u][i].op = "set" /\ queue'[q][u][i].doc = d
    BY DEF Queued
  <2>1. PICK i \in DOMAIN queue'[q][u] :
            queue'[q][u][i].op = "set" /\ queue'[q][u][i].doc = d
    BY <2>1a
  <2>2. i \in DOMAIN queue[q][u]
    BY <1>7, PlacesAfterCrash
  <2>3. queue'[q][u][i] = IF q = p THEN [queue[q][u][i] EXCEPT !.slot = NoSlot]
                          ELSE queue[q][u][i]
    BY <1>7, <2>2, PlacesAfterCrash
  <2>4. queue[q][u][i] \in Mutations
    BY <2>2, QueuedWrite
  <2>5. queue[q][u][i].op = "set" /\ queue[q][u][i].doc = d
    BY <2>1, <2>3, <2>4 DEF Mutations
  <2>6. QED
    BY <2>2, <2>5 DEF Queued
<1>8. ASSUME NEW p \in Phones, NEW s \in Slots, Progress(p, s) PROVE Queued(d)
  BY <1>1, <1>8
     DEF Progress, FinishCreate, FailCreate, ReadRooms, FinishLoad, FailLoad, TxnGet,
         TxnCommit, FailTxn, FinishAdd, FailAdd, FinishDelete, DeleteDone, FinishRename,
         FailQuietly
<1>9. CASE UNCHANGED vars
  BY <1>1, <1>9 DEF vars
<1>10. QED
  BY <1>5, <1>6, <1>7, <1>8, <1>9 DEF Next

LEMMA HeadedPreserved == Sound /\ Fresh /\ Headed /\ [Next]_vars => Headed'
<1> SUFFICES ASSUME Sound, Fresh, Headed, [Next]_vars PROVE Headed'
  OBVIOUS
<1>1. TypeOK /\ GroupStep /\ Planned' /\ plan' = plan
  BY FreshPreserved, PlannedPreserved DEF Sound, Headed
<1>2. \A d \in Docs : WellRun(d)' <=> WellRun(d)
  BY <1>1 DEF WellRun, Shares
<1>3. ASSUME NEW p \in Phones, NEW d \in Docs, owner[p] \in Users, d.admin = owner[p],
             me[p] \in Users, me[p] \in d.members
      PROVE  WellRun(d)
  <2>1. owner[p] \in plan[p] /\ me[p] \in plan[p]
    BY <1>3, NullAssumption DEF Headed, Planned
  <2>2. CASE Shares(owner[p])
    BY <1>3, <2>2 DEF WellRun
  <2>3. CASE ~Shares(owner[p])
    <3>1. plan[p] \cap Users = {owner[p]}
      BY <2>1, <2>3 DEF Shares
    <3>2. me[p] = owner[p]
      BY <1>3, <2>1, <3>1
    <3>3. QED
      BY <1>3, <3>2 DEF WellRun
  <2>4. QED
    BY <2>2, <2>3
<1>4. \A d \in Docs : Queued(d)' => WellRun(d)'
  BY <1>2, <1>3, NewSets DEF Headed
<1>5. \A r \in Rooms : rooms[r] # NoRoom => rooms[r] \in Docs /\ WellRun(rooms[r])
  BY <1>1 DEF Headed, AdminIsMember, WellRun, TypeOK
<1>6. ASSUME NEW r \in Rooms, rooms'[r] # NoRoom, rooms'[r] # rooms[r]
      PROVE  rooms'[r] \in Docs /\ WellRun(rooms'[r])
  <2>1. ASSUME NEW x \in Rooms, Made(x) PROVE rooms'[r] \in Docs /\ WellRun(rooms'[r])
    <3>1. PICK d \in Docs : Queued(d) /\ rooms' = [rooms EXCEPT ![x] = d]
      BY <2>1 DEF Made
    <3>2. rooms'[r] = d
      BY <1>1, <1>6, <3>1 DEF TypeOK
    <3>3. QED
      BY <3>1, <3>2 DEF Headed
  <2>2. ASSUME NEW x \in Rooms, Grown(x) PROVE rooms'[r] \in Docs /\ WellRun(rooms'[r])
    <3>1. PICK S \in SUBSET Users :
              rooms' = [rooms EXCEPT ![x] = [rooms[x] EXCEPT !.members = rooms[x].members \cup S]]
      BY <2>2 DEF Grown
    <3>2. x = r
      BY <1>1, <1>6, <3>1 DEF TypeOK
    <3>3. rooms[r] \in Docs /\ rooms[r] # NoRoom
      BY <2>2, <3>2, DocAssumption DEF Grown, Docs
    <3>4. rooms'[r] = [rooms[r] EXCEPT !.members = rooms[r].members \cup S]
      BY <1>1, <3>1, <3>2 DEF TypeOK
    <3>5. /\ rooms'[r] \in Docs /\ rooms'[r].admin = rooms[r].admin
          /\ rooms[r].members \subseteq rooms'[r].members
      BY <3>3, <3>4 DEF Docs
    <3>6. QED
      BY <1>5, <3>3, <3>5 DEF WellRun
  <2>3. ASSUME NEW x \in Rooms, Gone(x) PROVE FALSE
    BY <1>1, <1>6, <2>3 DEF Gone, TypeOK
  <2>4. QED
    BY <1>1, <1>6, <2>1, <2>2, <2>3 DEF GroupStep
<1>7. \A r \in Rooms : rooms'[r] # NoRoom => rooms'[r] \in Docs /\ WellRun(rooms'[r])
  BY <1>5, <1>6
<1>8. AdminIsMember'
  <2> SUFFICES ASSUME NEW r \in Rooms, rooms'[r] # NoRoom, ~Shares(rooms[r].admin)'
               PROVE  rooms'[r].admin \in rooms'[r].members
    BY DEF AdminIsMember
  <2>1. WellRun(rooms'[r])
    BY <1>7
  <2>2. QED
    BY <1>1, <2>1 DEF WellRun, Shares
<1>9. QED
  BY <1>1, <1>4, <1>8 DEF Headed

\* Theorem 4.  AdminIsMember: the admin of a group is one of its members,
\* unless he shares a phone with another account.
THEOREM AdminStays == Spec => []AdminIsMember
<1> DEFINE Inv == Sound /\ Fresh /\ Headed
<1>1. Init => Inv
  <2>1. Init => Headed
    BY DEF Init, Headed, Planned, AdminIsMember, Queued
  <2>2. QED
    BY <2>1, SoundAtFirst, FreshAtFirst
<1>2. Inv /\ [Next]_vars => Inv'
  BY SoundPreserved, FreshPreserved, HeadedPreserved
<1>3. Inv => AdminIsMember
  BY DEF Headed
<1>4. QED
  BY <1>1, <1>2, <1>3, PTL DEF Spec

-----------------------------------------------------------------------------
(***************************************************************************)
(* The list settles: its state is an answer while no handler runs.         *)
(***************************************************************************)
Answers == {"Loaded", "LoadFailure", "CreateFailure", "AddFailure"}

\* A handler that will leave an answer; the others show none.
Answering(h) == h # Idle /\ h.kind \in {"create", "load", "add"}
Expected == \A p \in Phones :
    ListAlive(p) /\ bloc[p].tag \notin Answers => \E s \in Slots : Answering(handler[p][s])

LEMMA ExpectedAt ==
    ASSUME Expected, NEW p \in Phones,
           \A q \in Phones : q # p => /\ page'[q] = page[q] /\ bloc'[q] = bloc[q]
                                      /\ handler'[q] = handler[q],
           ListAlive(p)' /\ bloc'[p].tag \notin Answers
               => \E s \in Slots : Answering(handler'[p][s])
    PROVE  Expected'
<1> SUFFICES ASSUME NEW q \in Phones, ListAlive(q)', bloc'[q].tag \notin Answers
             PROVE  \E s \in Slots : Answering(handler'[q][s])
  BY DEF Expected, Answering
<1>1. CASE q = p
  BY <1>1
<1>2. CASE q # p
  <2>1. page'[q] = page[q] /\ bloc'[q] = bloc[q] /\ handler'[q] = handler[q]
    BY <1>2
  <2>2. ListAlive(q) /\ bloc[q].tag \notin Answers
    BY <2>1 DEF ListAlive
  <2>3. QED
    BY <2>1, <2>2 DEF Expected
<1>3. QED
  BY <1>1, <1>2

LEMMA ExpectedPreserved == Sound /\ Expected /\ [Next]_vars => Expected'
<1> SUFFICES ASSUME Sound, Expected, [Next]_vars PROVE Expected'
  OBVIOUS
<1> TypeOK
  BY DEF Sound
<1>a. ASSUME NEW p \in Phones, UNCHANGED <<handler, bloc>>,
             \A q \in Phones : q # p => page'[q] = page[q],
             ListAlive(p)' => ListAlive(p)
      PROVE  Expected'
  BY <1>a, ExpectedAt DEF Expected
<1>b. ASSUME NEW p \in Phones, NEW s \in Slots, NEW h, Set(p, s, h),
             \A q \in Phones : q # p => page'[q] = page[q] /\ bloc'[q] = bloc[q],
             Answering(h) \/ bloc'[p].tag \in Answers \/ ~ListAlive(p)'
      PROVE  Expected'
  <2>1. handler'[p][s] = h /\ \A q \in Phones : q # p => handler'[q] = handler[q]
    BY <1>b DEF Set, TypeOK
  <2>2. QED
    BY <1>b, <2>1, ExpectedAt
<1>c. \A p \in Phones : Answering(Load(p))
  BY DEF Answering, Load, Run, Idle
<1>d. ASSUME NEW p \in Phones, NEW s \in Slots, NEW h, Set(p, s, h),
             UNCHANGED <<page, bloc>>, ~Answering(handler[p][s]) \/ Answering(h)
      PROVE  Expected'
  <2>1. /\ \A q \in Phones : \A t \in Slots :
               handler'[q][t] = IF q = p /\ t = s THEN h ELSE handler[q][t]
        /\ \A q \in Phones : q # p => handler'[q] = handler[q]
    BY <1>d DEF Set, TypeOK
  <2>2. ASSUME ListAlive(p)', bloc'[p].tag \notin Answers
        PROVE  \E t \in Slots : Answering(handler'[p][t])
    <3>1. PICK t \in Slots : Answering(handler[p][t])
      BY <1>d, <2>2 DEF Expected, ListAlive
    <3>2. handler'[p][t] = IF t = s THEN h ELSE handler[p][t]
      BY <2>1
    <3>3. Answering(handler'[p][t])
      BY <1>d, <3>1, <3>2
    <3>4. QED
      BY <3>3
  <2>3. QED
    BY <1>d, <2>1, <2>2, ExpectedAt
<1>e. ASSUME NEW p \in Phones, NEW s \in Slots, StartLoad(p, s),
             \A q \in Phones : q # p => page'[q] = page[q]
      PROVE  Expected'
  <2>1. Set(p, s, Load(p)) /\ \A q \in Phones : q # p => bloc'[q] = bloc[q]
    BY <1>e DEF StartLoad, Emit, TypeOK
  <2>2. QED
    BY <1>b, <1>c, <1>e, <2>1
<1>f. ASSUME NEW p \in Phones, NEW s \in Slots, NEW tag \in Answers, Set(p, s, Idle),
             Emit(p, tag), UNCHANGED page
      PROVE  Expected'
  <2>1. bloc'[p].tag = tag /\ \A q \in Phones : q # p => bloc'[q] = bloc[q]
    BY <1>f DEF Emit, BlocState, TypeOK
  <2>2. QED
    BY <1>b, <1>f, <2>1
<1>g. ASSUME NEW p \in Phones, NEW pc \in {"ok", "err"}, me[p] \in Users,
             queue[p][me[p]] # << >>, Taken(p), Acknowledge(p, Oldest(p), pc),
             UNCHANGED <<page, bloc>>
      PROVE  Expected'
  <2>1. Owned
    BY DEF Sound
  <2>2. \A q \in Phones : \A x \in Slots :
            ~(q = p /\ x = Oldest(p).slot) => handler'[q][x] = handler[q][x]
    BY <1>g, <2>1, AcknowledgeMoves
  <2>3. ASSUME NEW q \in Phones, NEW x \in Slots, Answering(handler[q][x])
        PROVE  Answering(handler'[q][x])
    <3>1. CASE q = p /\ x = Oldest(p).slot
      <4>1. x # NoSlot
        BY NullAssumption
      <4>2. handler'[q][x] = [handler[q][x] EXCEPT !.pc = pc]
        BY <1>g, <2>1, <3>1, <4>1, AcknowledgeMoves
      <4>3. handler[q][x] \in HandlerStates
        BY <2>3, RunningHandler DEF Answering
      <4>4. handler'[q][x].kind = handler[q][x].kind /\ handler'[q][x] \in HandlerStates
        BY <4>2, <4>3 DEF HandlerStates
      <4>5. QED
        BY <2>3, <4>4, NotIdle DEF Answering
    <3>2. CASE ~(q = p /\ x = Oldest(p).slot)
      BY <2>2, <2>3, <3>2
    <3>3. QED
      BY <3>1, <3>2
  <2>4. SUFFICES ASSUME NEW q \in Phones, ListAlive(q)', bloc'[q].tag \notin Answers
                 PROVE  \E x \in Slots : Answering(handler'[q][x])
    BY DEF Expected, Answering
  <2>5. PICK x \in Slots : Answering(handler[q][x])
    BY <1>g, <2>4 DEF Expected, ListAlive
  <2>6. QED
    BY <2>3, <2>5
<1>1. ASSUME NEW p \in Phones, NEW u \in Users, LogIn(p, u) PROVE Expected'
  BY <1>1, <1>a DEF LogIn, ListAlive, Page, TypeOK
<1>2. ASSUME NEW p \in Phones, LogOut(p) PROVE Expected'
  BY <1>2, <1>a DEF LogOut, ListAlive, Page, TypeOK
<1>3. ASSUME NEW p \in Phones, OpenRoom(p) PROVE Expected'
  BY <1>3, <1>a DEF OpenRoom, ListAlive, Page, TypeOK
<1>4. ASSUME NEW p \in Phones, Back(p) PROVE Expected'
  BY <1>4, <1>a DEF Back, ListAlive, Page, TypeOK
<1>5. ASSUME NEW p \in Phones, OpenAdd(p) PROVE Expected'
  BY <1>5, <1>a DEF OpenAdd, ListAlive, Page, TypeOK
<1>6. ASSUME NEW p \in Phones, NEW u \in Users, Tick(p, u) PROVE Expected'
  BY <1>6, <1>a DEF Tick, ListAlive
<1>7. ASSUME NEW p \in Phones, NEW s \in Slots, OpenList(p, s) PROVE Expected'
  BY <1>7, <1>e DEF OpenList, TypeOK
<1>8. ASSUME NEW p \in Phones, NEW s \in Slots, Refresh(p, s) PROVE Expected'
  BY <1>8, <1>e DEF Refresh, local
<1>9. ASSUME NEW p \in Phones, NEW s \in Slots, FinishAdd(p, s) PROVE Expected'
  BY <1>9, <1>e DEF FinishAdd, local
<1>10. ASSUME NEW p \in Phones, NEW s \in Slots, FinishDelete(p, s) PROVE Expected'
  BY <1>10, <1>e DEF FinishDelete, DeleteDone, TypeOK
<1>11. ASSUME NEW p \in Phones, NEW s \in Slots, FailCreate(p, s) PROVE Expected'
  BY <1>11, <1>f DEF FailCreate, local, Answers
<1>12. ASSUME NEW p \in Phones, NEW s \in Slots, FailLoad(p, s) PROVE Expected'
  BY <1>12, <1>f DEF FailLoad, local, Answers
<1>13. ASSUME NEW p \in Phones, NEW s \in Slots, FailAdd(p, s) PROVE Expected'
  BY <1>13, <1>f DEF FailAdd, local, Answers
<1>14. ASSUME NEW p \in Phones, NEW s \in Slots, FinishLoad(p, s) PROVE Expected'
  <2>1. /\ Set(p, s, Idle) /\ UNCHANGED page /\ bloc'[p].tag = "Loaded"
        /\ \A q \in Phones : q # p => bloc'[q] = bloc[q]
    BY <1>14 DEF FinishLoad, local, BlocState, TypeOK
  <2>2. QED
    BY <1>b, <2>1 DEF Answers
<1>15. ASSUME NEW p \in Phones, NEW s \in Slots, FinishCreate(p, s) PROVE Expected'
  <2>1. CASE ListAlive(p)
    BY <1>15, <1>e, <2>1 DEF FinishCreate, local
  <2>2. CASE ~ListAlive(p)
    <3>1. Set(p, s, Idle) /\ Emit(p, "Created") /\ UNCHANGED page
      BY <1>15, <2>2 DEF FinishCreate, local
    <3>2. ~ListAlive(p)' /\ \A q \in Phones : q # p => bloc'[q] = bloc[q]
      BY <2>2, <3>1 DEF ListAlive, Emit, TypeOK
    <3>3. QED
      BY <1>b, <3>1, <3>2
  <2>3. QED
    BY <2>1, <2>2
<1>16. ASSUME NEW p \in Phones, NEW s \in Slots, FinishRename(p, s) PROVE Expected'
  <2>1. CASE page[p].at = "room"
    BY <1>16, <1>e, <2>1 DEF FinishRename, local
  <2>2. CASE page[p].at # "room"
    BY <1>16, <1>d, <2>2 DEF FinishRename, local, Ends, Answering
  <2>3. QED
    BY <2>1, <2>2
<1>17. ASSUME NEW p \in Phones, NEW s \in Slots, FailQuietly(p, s) PROVE Expected'
  BY <1>17, <1>d DEF FailQuietly, local, Ends, Answering
<1>18. ASSUME NEW p \in Phones, NEW s \in Slots, Delete(p, s) PROVE Expected'
  <2>1. Set(p, s, Run("delete", me[p], page[p].room, {}, "write")) /\ UNCHANGED <<page, bloc>>
    BY <1>18 DEF Delete, local
  <2>2. ~Answering(handler[p][s])
    BY <1>18 DEF Delete, Free, Answering
  <2>3. QED
    BY <1>d, <2>1, <2>2
<1>19. ASSUME NEW p \in Phones, NEW s \in Slots, Rename(p, s) PROVE Expected'
  <2>1. Set(p, s, Run("rename", me[p], page[p].room, {}, "write")) /\ UNCHANGED <<page, bloc>>
    BY <1>19 DEF Rename, local
  <2>2. ~Answering(handler[p][s])
    BY <1>19 DEF Rename, Free, Answering
  <2>3. QED
    BY <1>d, <2>1, <2>2
<1>20. ASSUME NEW p \in Phones, NEW s \in Slots, NEW r \in Rooms, Save(p, s, r) PROVE Expected'
  <2>1. Set(p, s, Run("create", me[p], r, Ticked(p) \cup {me[p]}, "write")) /\ UNCHANGED page
    BY <1>20 DEF Save, local
  <2>2. Answering(Run("create", me[p], r, Ticked(p) \cup {me[p]}, "write"))
    BY DEF Answering, Run, Idle
  <2>3. \A q \in Phones : q # p => bloc'[q] = bloc[q]
    BY <1>20 DEF Save, Emit, TypeOK
  <2>4. QED
    BY <1>b, <2>1, <2>2, <2>3
<1>21. ASSUME NEW p \in Phones, NEW s \in Slots, NEW S \in SUBSET Users, AddMembers(p, s, S) PROVE Expected'
  <2>1. Set(p, s, Run("add", me[p], page[p].room, S, "get")) /\ UNCHANGED page
    BY <1>21 DEF AddMembers, local
  <2>2. Answering(Run("add", me[p], page[p].room, S, "get"))
    BY DEF Answering, Run, Idle
  <2>3. \A q \in Phones : q # p => bloc'[q] = bloc[q]
    BY <1>21 DEF AddMembers, Emit, TypeOK
  <2>4. QED
    BY <1>b, <2>1, <2>2, <2>3
<1>22. ASSUME NEW p \in Phones, NEW s \in Slots, ReadRooms(p, s) PROVE Expected'
  <2>1. handler[p][s] \in HandlerStates /\ handler[p][s].kind = "load"
    BY <1>22, EndsFacts DEF ReadRooms, Kinds
  <2>2. PICK docs \in {rooms, cache[p]} : Answer(p, s, handler[p][s].who, docs)
    BY <1>22 DEF ReadRooms
  <2> DEFINE L == Mine(handler[p][s].who, Seen(p, docs))
             h == [handler[p][s] EXCEPT !.pc = "answer", !.list = L]
  <2>3. Set(p, s, h)
    BY <2>2 DEF Answer, Set, TypeOK
  <2> HIDE DEF L
  <2>4. Answering(h)
    BY <2>1 DEF Answering, HandlerStates, Idle
  <2> HIDE DEF h
  <2>5. QED
    BY <1>22, <1>d, <2>3, <2>4 DEF ReadRooms
<1>23. ASSUME NEW p \in Phones, NEW s \in Slots, TxnGet(p, s) PROVE Expected'
  <2> DEFINE d == rooms[handler[p][s].room]
             h == [handler[p][s] EXCEPT !.doc = d, !.pc = IF d = NoRoom THEN "err" ELSE "commit"]
  <2>1. handler[p][s] \in HandlerStates /\ handler[p][s].kind = "add"
    BY <1>23, EndsFacts DEF TxnGet, Kinds
  <2>2. Set(p, s, h)
    BY <1>23 DEF TxnGet, Set, TypeOK
  <2> HIDE DEF d
  <2>3. Answering(h)
    BY <2>1 DEF Answering, HandlerStates, Idle
  <2> HIDE DEF h
  <2>4. QED
    BY <1>23, <1>d, <2>2, <2>3 DEF TxnGet, local
<1>24. ASSUME NEW p \in Phones, NEW s \in Slots, TxnCommit(p, s) PROVE Expected'
  <2>1. handler[p][s] \in HandlerStates /\ handler[p][s] # Idle /\ handler[p][s].kind = "add"
    BY <1>24, RunningHandler DEF TxnCommit, Ends
  <2>2. PICK pc \in {"ok", "get", "err"} : handler' = [handler EXCEPT ![p][s].pc = pc]
    BY <1>24 DEF TxnCommit
  <2> DEFINE h == [handler[p][s] EXCEPT !.pc = pc]
  <2>3. Set(p, s, h)
    BY <2>1, <2>2, StepIsSet
  <2>4. Answering(h)
    BY <2>1 DEF Answering, HandlerStates, Idle
  <2> HIDE DEF h
  <2>5. QED
    BY <1>24, <1>d, <2>3, <2>4 DEF TxnCommit, local
<1>25. ASSUME NEW p \in Phones, NEW s \in Slots, FailTxn(p, s) PROVE Expected'
  <2>1. handler[p][s] \in HandlerStates /\ handler[p][s] # Idle /\ handler[p][s].kind = "add"
    BY <1>25, RunningHandler DEF FailTxn, Ends
  <2>2. PICK pc \in {"ok", "get", "err"} : handler' = [handler EXCEPT ![p][s].pc = pc]
    BY <1>25 DEF FailTxn
  <2> DEFINE h == [handler[p][s] EXCEPT !.pc = pc]
  <2>3. Set(p, s, h)
    BY <2>1, <2>2, StepIsSet
  <2>4. Answering(h)
    BY <2>1 DEF Answering, HandlerStates, Idle
  <2> HIDE DEF h
  <2>5. QED
    BY <1>25, <1>d, <2>3, <2>4 DEF FailTxn, local
<1>26. ASSUME NEW p \in Phones, CommitHead(p) PROVE Expected'
  BY <1>26, <1>g DEF CommitHead, Commit, Taken, Oldest, local, TypeOK
<1>27. ASSUME NEW p \in Phones, RefuseHead(p) PROVE Expected'
  BY <1>27, <1>g DEF RefuseHead, Commit, Taken, Oldest, local, TypeOK
<1>28. ASSUME NEW p \in Phones, Crash(p) PROVE Expected'
  <2>1. ~ListAlive(p)' /\ \A q \in Phones :
            q # p => page'[q] = page[q] /\ bloc'[q] = bloc[q] /\ handler'[q] = handler[q]
    BY <1>28 DEF Crash, Emit, ListAlive, Page, TypeOK
  <2>2. QED
    BY <2>1, ExpectedAt
<1>29. CASE UNCHANGED vars
  BY <1>29 DEF vars, Expected, ListAlive, Answering
<1>30. QED
  BY <1>1, <1>2, <1>3, <1>4, <1>5, <1>6, <1>7, <1>8, <1>9, <1>10,
     <1>11, <1>12, <1>13, <1>14, <1>15, <1>16, <1>17, <1>18, <1>19, <1>20,
     <1>21, <1>22, <1>23, <1>24, <1>25, <1>26, <1>27, <1>28, <1>29
     DEF Next, UserActs, Progress

\* Theorem 5.  ListSettles: when no handler runs, the tab of groups draws no
\* spinner, and the text for no groups only for an answer, which may be that a
\* load or an addition failed.
THEOREM ListAnswered == Spec => []ListSettles
<1>1. Init => Sound /\ Expected
  <2>1. Init => Expected
    BY DEF Init, Expected, ListAlive, Page
  <2>2. QED
    BY <2>1, SoundAtFirst
<1>2. (Sound /\ Expected) /\ [Next]_vars => (Sound /\ Expected)'
  BY SoundPreserved, ExpectedPreserved
<1>3. Sound /\ Expected => ListSettles
  BY DEF Expected, ListSettles, ListAlive, Running, Answering, Answers, Drawn
<1>4. QED
  BY <1>1, <1>2, <1>3, PTL DEF Spec
=============================================================================
