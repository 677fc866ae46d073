--------------------------- MODULE BlockingProofs ---------------------------
(***************************************************************************)
(* What holds of Blocking for any users, any number of handlers of a phone *)
(* and any writes left behind by restarts.                                 *)
(***************************************************************************)
EXTENDS Blocking, SequenceTheorems, TLAPS

(***************************************************************************)
(* The inductive invariant.                                                *)
(***************************************************************************)
Sides(a, b) == {a, b}
On(u, s) == Sides(u, handler[u][s].peer)
About(w) == Sides(w.doc[1], w.doc[2])
\* The write a handler waits for.
WriteOf(u, s, h) ==
    WriteTo(IF h.pc = "first" THEN FirstDoc(u, h.peer) ELSE SecondDoc(u, h.peer), h.kind, s)

Waits(u, s, h, w) ==
    h.pc \in {"first", "second"} /\ h.ack = "wait" /\ w = WriteOf(u, s, h)

\* A queued write is of a handler that waits for it, the only one of that
\* handler, or of a handler that died.
Owned ==
    /\ \A u \in Users : \A s \in Slots :
           handler[u][s].pc = "start" => handler[u][s].ack = "wait"
    /\ \A u \in Users : \A i \in DOMAIN queue[u] : \A s \in Slots :
           queue[u][i].slot = s => Waits(u, s, handler[u][s], queue[u][i])
    /\ \A u \in Users : \A i \in DOMAIN queue[u] : \A j \in DOMAIN queue[u] :
           queue[u][i].slot # NoSlot /\ queue[u][j].slot = queue[u][i].slot => i = j

\* A write of a dead handler makes its pair suspect.
OrphansSuspect ==
    \A u \in Users : \A i \in DOMAIN queue[u] :
        queue[u][i].slot = NoSlot => About(queue[u][i]) \in suspect

\* A clean handler is alone on its pair.
Alone ==
    \A u \in Users : \A s \in Slots : <<u, s>> \in clean =>
        /\ Writing(u, s)
        /\ \A v \in Users : \A t \in Slots :
               Writing(v, t) /\ On(v, t) = On(u, s) => v = u /\ t = s
        /\ \A v \in Users : \A i \in DOMAIN queue[v] :
               queue[v][i].slot = NoSlot => About(queue[v][i]) # On(u, s)

\* On a pair that is not suspect every handler is clean.
Trusted ==
    \A u \in Users : \A s \in Slots :
        Writing(u, s) /\ On(u, s) \notin suspect => <<u, s>> \in clean

\* What a clean handler was told is done, is done.
Done(B, d, k) == IF k = "block" THEN d \in B ELSE d \notin B
FirstDone(h) == (h.pc = "first" /\ h.ack = "ok") \/ h.pc = "second"
Effective ==
    \A u \in Users : \A s \in Slots : <<u, s>> \in clean =>
        /\ FirstDone(handler[u][s]) =>
               /\ Done(blocked, FirstDoc(u, handler[u][s].peer), handler[u][s].kind)
               /\ Done(cache[u], handler[u][s].peer, handler[u][s].kind)
        /\ Succeeded(u, s) =>
               Done(blocked, SecondDoc(u, handler[u][s].peer), handler[u][s].kind)

\* The sides of a pair that is not suspect agree until a handler on it has
\* written the first of them.
Agree(a, b) == <<a, b>> \in blocked <=> <<b, a>> \in blocked
Agreeing ==
    \A a \in Users : \A b \in Users :
        /\ a # b /\ Sides(a, b) \notin suspect
        /\ \A u \in Users : \A s \in Slots :
               Writing(u, s) /\ On(u, s) = Sides(a, b) => ~FirstDone(handler[u][s])
        => Agree(a, b)

\* What was reported as done, of each kind, and that nothing is on its way that
\* would undo it.
Promised(kd) == IF kd = "block" THEN shield ELSE free
OpOf(kd) == IF kd = "block" THEN "set" ELSE "delete"
Stands(kd, a, b) ==
    /\ Done(blocked, <<a, b>>, kd) /\ Done(blocked, <<b, a>>, kd) /\ Done(cache[a], b, kd)
    /\ \A u \in Users : \A i \in DOMAIN queue[u] :
           About(queue[u][i]) = Sides(a, b) => queue[u][i].op = OpOf(kd)
    /\ \A u \in Users : \A s \in Slots :
           Writing(u, s) /\ On(u, s) = Sides(a, b) => handler[u][s].kind = kd
Standing ==
    \A kd \in WriteKinds : \A a \in Users : \A b \in Users :
        <<a, b>> \in Promised(kd) => Stands(kd, a, b)

\* A list of chats leaves a finished block out from the moment it has its ids.
Hides(c, b) == (c.pc = "docs" => b \in c.list) /\ (c.pc = "shown" => b \notin c.list)
Hidden == \A a \in Users : \A b \in Users : <<a, b>> \in shield => Hides(chats[a], b)

\* The page of blocked users leaves a finished unblock out, and a list of chats
\* does not exclude it.
Omits(p, b) == p.pc \in {"docs", "shown"} => b \notin p.list
Omitted == \A a \in Users : \A b \in Users : <<a, b>> \in free => Omits(page[a], b)
Offers(c, b, G) == (c.pc = "docs" => b \notin c.list) /\ (c.pc = "shown" => b \in c.list \cup G)
Offered ==
    \A a \in Users : \A b \in Users :
        a # b /\ <<a, b>> \in free => Offers(chats[a], b, gone)

History == OrphansSuspect /\ Alone /\ Trusted /\ Effective /\ Agreeing
Sound ==
    /\ TypeOK /\ Owned /\ History /\ Standing
    /\ Hidden /\ Omitted /\ Offered

-----------------------------------------------------------------------------
(***************************************************************************)
(* Handlers and queues.                                                    *)
(***************************************************************************)
AnyState == HandlerStates \cup {Idle}

LEMMA HandlerType ==
    ASSUME TypeOK
    PROVE  /\ handler \in [Users -> [Slots -> AnyState]]
           /\ \A u \in Users : \A s \in Slots :
                  /\ handler[u][s] \in AnyState
                  /\ Writing(u, s) => handler[u][s] \in HandlerStates
                  /\ Writing(u, s) <=> handler[u][s].pc \in {"start", "first", "second"}
<1>1. handler \in [Users -> [Slots -> AnyState]]
  BY DEF TypeOK, AnyState
<1>2. ASSUME NEW u \in Users, NEW s \in Slots
      PROVE  /\ handler[u][s] \in AnyState
             /\ Writing(u, s) => handler[u][s] \in HandlerStates
             /\ Writing(u, s) <=> handler[u][s].pc \in {"start", "first", "second"}
  <2>1. handler[u][s] \in AnyState
    BY <1>1
  <2>2. QED
    BY <2>1 DEF AnyState, HandlerStates, Idle, Writing
<1>3. QED
  BY <1>1, <1>2

\* One handler of one phone becomes h.
Sets(u, s, h) ==
    /\ handler' \in [Users -> [Slots -> AnyState]]
    /\ handler'[u][s] = h
    /\ \A v \in Users : \A t \in Slots : v # u \/ t # s => handler'[v][t] = handler[v][t]

LEMMA SetStep ==
    ASSUME TypeOK, NEW u \in Users, NEW s \in Slots, NEW h \in AnyState,
           handler' = [handler EXCEPT ![u][s] = h]
    PROVE  Sets(u, s, h)
<1>1. handler \in [Users -> [Slots -> AnyState]]
  BY HandlerType
<1>2. [handler[u] EXCEPT ![s] = h] \in [Slots -> AnyState]
  BY <1>1
<1>3. handler' = [handler EXCEPT ![u] = [handler[u] EXCEPT ![s] = h]]
  BY <1>1
<1>4. handler' \in [Users -> [Slots -> AnyState]]
  BY <1>1, <1>2, <1>3
<1>5. handler'[u] = [handler[u] EXCEPT ![s] = h] /\ \A v \in Users \ {u} : handler'[v] = handler[v]
  BY <1>1, <1>3
<1>6. handler'[u][s] = h /\ \A t \in Slots \ {s} : handler'[u][t] = handler[u][t]
  BY <1>1, <1>5
<1>7. QED
  BY <1>4, <1>5, <1>6 DEF Sets

\* A handler goes on as it was.
Same(v, t) == handler'[v][t] = handler[v][t]

LEMMA OthersSame ==
    ASSUME NEW u \in Users, NEW s \in Slots, NEW h, Sets(u, s, h)
    PROVE  \A v \in Users : \A t \in Slots : v # u \/ t # s => Same(v, t)
BY DEF Sets, Same

LEMMA QueueType ==
    ASSUME TypeOK, NEW u \in Users
    PROVE  /\ queue[u] \in Seq(Mutations)
           /\ \A i \in DOMAIN queue[u] :
                  /\ queue[u][i] \in Mutations /\ queue[u][i].slot \in Slots \cup {NoSlot}
                  /\ queue[u][i].doc \in Users \X Users /\ queue[u][i].op \in {"set", "delete"}
<1>1. queue[u] \in Seq(Mutations)
  BY DEF TypeOK
<1>2. \A i \in DOMAIN queue[u] : queue[u][i] \in Mutations
  BY <1>1
<1>3. QED
  BY <1>1, <1>2 DEF Mutations

\* A write that joins a queue is its last.
Joins(u, w) ==
    /\ queue' \in [Users -> Seq(Mutations)]
    /\ \A v \in Users \ {u} : queue'[v] = queue[v]
    /\ \A i \in DOMAIN queue[u] : queue'[u][i] = queue[u][i]
    /\ \A i \in DOMAIN queue'[u] :
           i \in DOMAIN queue[u] \/ (i = Len(queue[u]) + 1 /\ queue'[u][i] = w)

LEMMA Joined ==
    ASSUME TypeOK, NEW u \in Users, NEW w \in Mutations, Enqueue(u, w)
    PROVE  Joins(u, w)
<1>1. queue[u] \in Seq(Mutations) /\ queue \in [Users -> Seq(Mutations)]
  BY DEF TypeOK
<1>2. queue' = [queue EXCEPT ![u] = Append(queue[u], w)]
  BY DEF Enqueue
<1>3. queue'[u] = Append(queue[u], w)
  BY <1>1, <1>2
<1>4. Append(queue[u], w) \in Seq(Mutations)
  BY <1>1, AppendProperties
<1>5. queue' \in [Users -> Seq(Mutations)] /\ \A v \in Users \ {u} : queue'[v] = queue[v]
  BY <1>1, <1>2, <1>4
<1>6. DOMAIN queue[u] = 1 .. Len(queue[u]) /\ Len(queue[u]) \in Nat
  BY <1>1, LenProperties
<1>7. DOMAIN queue'[u] = 1 .. Len(queue[u]) + 1
  BY <1>1, <1>3, <1>4, AppendProperties, LenProperties
<1>8. \A i \in 1 .. Len(queue[u]) : queue'[u][i] = queue[u][i]
  BY <1>1, <1>3, AppendProperties
<1>9. queue'[u][Len(queue[u]) + 1] = w
  BY <1>1, <1>3, AppendProperties
<1>10. QED
  BY <1>5, <1>6, <1>7, <1>8, <1>9 DEF Joins

\* A queue the server has taken a write from is its tail.
Serves(u) ==
    /\ queue' \in [Users -> Seq(Mutations)]
    /\ \A v \in Users \ {u} : queue'[v] = queue[v]
    /\ 1 \in DOMAIN queue[u]
    /\ \A i \in DOMAIN queue'[u] :
           /\ i \in Nat /\ i + 1 \in DOMAIN queue[u] /\ i + 1 # 1
           /\ queue'[u][i] = queue[u][i + 1]

LEMMA Served ==
    ASSUME TypeOK, NEW u \in Users, queue[u] # << >>,
           queue' = [queue EXCEPT ![u] = Tail(@)]
    PROVE  Serves(u) /\ Head(queue[u]) = queue[u][1]
<1>1. queue[u] \in Seq(Mutations) /\ queue \in [Users -> Seq(Mutations)]
  BY DEF TypeOK
<1>2. queue'[u] = Tail(queue[u])
  BY <1>1
<1>3. /\ Tail(queue[u]) \in Seq(Mutations) /\ Head(queue[u]) = queue[u][1]
      /\ Len(Tail(queue[u])) = Len(queue[u]) - 1
      /\ \A i \in 1 .. Len(Tail(queue[u])) : Tail(queue[u])[i] = queue[u][i + 1]
  BY <1>1, HeadTailProperties
<1>4. queue' \in [Users -> Seq(Mutations)] /\ \A v \in Users \ {u} : queue'[v] = queue[v]
  BY <1>1, <1>3
<1>5. DOMAIN queue[u] = 1 .. Len(queue[u]) /\ Len(queue[u]) \in Nat
  BY <1>1, LenProperties
<1>6. DOMAIN queue'[u] = 1 .. Len(queue[u]) - 1
  BY <1>2, <1>3, LenProperties
<1>7. Len(queue[u]) >= 1
  BY <1>1, <1>5, EmptySeq
<1>8. QED
  BY <1>2, <1>3, <1>4, <1>5, <1>6, <1>7 DEF Serves

-----------------------------------------------------------------------------
(***************************************************************************)
(* The kinds of steps, as far as writes and their history go.              *)
(***************************************************************************)
\* No write and no handler changes; a phone may store what it read.
Calm ==
    /\ UNCHANGED <<blocked, queue, handler, suspect, clean, shield, free>>
    /\ \A v \in Users : cache'[v] = cache[v] \/ cache'[v] = Stored(v)

\* A handler sends its first or its second write.
Sent(h) == [h EXCEPT !.pc = IF h.pc = "start" THEN "first" ELSE "second", !.ack = "wait"]
Sends(u, s) ==
    /\ UNCHANGED <<blocked, cache, suspect, clean, shield, free>>
    /\ handler[u][s].pc = "start" \/ (handler[u][s].pc = "first" /\ handler[u][s].ack = "ok")
    /\ Sets(u, s, Sent(handler[u][s]))
    /\ Joins(u, WriteOf(u, s, Sent(handler[u][s])))

\* The oldest write of a phone is answered.
Answers(u, a) ==
    /\ UNCHANGED <<suspect, clean, shield, free>>
    /\ Serves(u)
    /\ queue[u][1].slot = NoSlot => handler' = handler
    /\ \A t \in Slots : queue[u][1].slot = t =>
           Sets(u, t, [handler[u][t] EXCEPT !.ack = a])

\* A handler begins.
Begins(u, s, x) ==
    /\ UNCHANGED <<blocked, cache, queue>>
    /\ ~Writing(u, s) /\ Meet(u, s, x)
    /\ Sets(u, s, handler'[u][s]) /\ handler'[u][s] \in HandlerStates
    /\ handler'[u][s].pc = "start" /\ handler'[u][s].ack = "wait" /\ handler'[u][s].peer = x
    /\ \A kd \in WriteKinds :
           /\ Promised(kd)' \subseteq Promised(kd)
           /\ handler'[u][s].kind = kd \/ Promised(kd)' \cap {<<u, x>>, <<x, u>>} = {}

\* A handler ends.
Ends(u, s) ==
    /\ UNCHANGED <<blocked, cache, queue>>
    /\ Writing(u, s) /\ (Succeeded(u, s) \/ Failed(u, s)) /\ Judge(u, s)
    /\ Sets(u, s, Idle)
    /\ \A kd \in WriteKinds :
           \/ Promised(kd)' = Promised(kd)
           \/ /\ handler[u][s].kind = kd /\ Succeeded(u, s) /\ <<u, s>> \in clean
              /\ Promised(kd)' = Promised(kd) \cup {<<u, handler[u][s].peer>>}

\* The handlers of a phone die, its writes stay.
Dies(u) ==
    /\ UNCHANGED <<blocked, cache, shield, free>>
    /\ \A t \in Slots : handler'[u][t] = Idle
    /\ \A v \in Users \ {u} : \A t \in Slots : Same(v, t)
    /\ \A v \in Users \ {u} : queue'[v] = queue[v]
    /\ DOMAIN queue'[u] = DOMAIN queue[u]
    /\ \A i \in DOMAIN queue[u] : queue'[u][i] = [queue[u][i] EXCEPT !.slot = NoSlot]
    /\ \A t \in Slots : Writing(u, t) => On(u, t) \in suspect'
    /\ suspect \subseteq suspect' /\ clean' = clean \ ({u} \X Slots)

(***************************************************************************)
(* Which action is of which kind.                                          *)
(***************************************************************************)
LEMMA RunType ==
    ASSUME NEW x \in Users, NEW kd \in WriteKinds
    PROVE  /\ Run(kd, x) \in HandlerStates /\ Run(kd, x).kind = kd /\ Run(kd, x).peer = x
           /\ Run(kd, x).pc = "start" /\ Run(kd, x).ack = "wait"
BY DEF Run, HandlerStates

LEMMA WritesFirst ==
    ASSUME TypeOK, Owned, NEW u \in Users, NEW s \in Slots, WriteFirst(u, s)
    PROVE  Sends(u, s)
<1>1. handler[u][s].pc = "start" /\ handler[u][s].ack = "wait"
  BY DEF WriteFirst, Owned
<1>2. handler[u][s] \in HandlerStates
  BY <1>1, HandlerType
<1> DEFINE h == [handler[u][s] EXCEPT !.pc = "first"]
<1>3. h = Sent(handler[u][s])
  BY <1>1, <1>2 DEF Sent, HandlerStates
<1>4. h \in HandlerStates /\ h.pc = "first" /\ h.peer = handler[u][s].peer
      /\ h.kind = handler[u][s].kind
  BY <1>2 DEF HandlerStates
<1>5. handler' = [handler EXCEPT ![u][s] = h]
  BY DEF WriteFirst
<1> HIDE DEF h
<1>6. Sets(u, s, h)
  BY <1>4, <1>5, SetStep DEF AnyState
<1>7. WriteOf(u, s, h) \in Mutations
  BY <1>4 DEF WriteOf, WriteTo, FirstDoc, Mutations, HandlerStates
<1>8. Enqueue(u, WriteOf(u, s, h))
  BY <1>4 DEF WriteFirst, WriteOf
<1>9. Joins(u, WriteOf(u, s, h))
  BY <1>7, <1>8, Joined
<1>10. QED
  BY <1>1, <1>3, <1>6, <1>9 DEF Sends, WriteFirst, remote, history

LEMMA WritesSecond ==
    ASSUME TypeOK, Owned, NEW u \in Users, NEW s \in Slots, WriteSecond(u, s)
    PROVE  Sends(u, s)
<1>1. handler[u][s].pc = "first" /\ handler[u][s].ack = "ok"
  BY DEF WriteSecond
<1>2. handler[u][s] \in HandlerStates
  BY <1>1, HandlerType
<1> DEFINE h == [handler[u][s] EXCEPT !.pc = "second", !.ack = "wait"]
<1>3. h = Sent(handler[u][s])
  BY <1>1, <1>2 DEF Sent, HandlerStates
<1>4. h \in HandlerStates /\ h.pc = "second" /\ h.peer = handler[u][s].peer
      /\ h.kind = handler[u][s].kind
  BY <1>2 DEF HandlerStates
<1>5. handler' = [handler EXCEPT ![u][s] = h]
  BY DEF WriteSecond
<1> HIDE DEF h
<1>6. Sets(u, s, h)
  BY <1>4, <1>5, SetStep DEF AnyState
<1>7. WriteOf(u, s, h) \in Mutations
  BY <1>4 DEF WriteOf, WriteTo, SecondDoc, Mutations, HandlerStates
<1>8. Enqueue(u, WriteOf(u, s, h))
  BY <1>4 DEF WriteSecond, WriteOf
<1>9. Joins(u, WriteOf(u, s, h))
  BY <1>7, <1>8, Joined
<1>10. QED
  BY <1>1, <1>3, <1>6, <1>9 DEF Sends, WriteSecond, remote, history

\* The answer reaches the handler that waits for it.
LEMMA Acknowledged ==
    ASSUME TypeOK, Owned, NEW u \in Users, NEW a \in {"ok", "err"}, 1 \in DOMAIN queue[u],
           Acknowledge(u, queue[u][1], a)
    PROVE  /\ queue[u][1].slot = NoSlot => handler' = handler
           /\ \A t \in Slots : queue[u][1].slot = t =>
                  Sets(u, t, [handler[u][t] EXCEPT !.ack = a])
<1>1. queue[u][1].slot = NoSlot => handler' = handler
  BY DEF Acknowledge
<1>2. ASSUME NEW t \in Slots, queue[u][1].slot = t
      PROVE  Sets(u, t, [handler[u][t] EXCEPT !.ack = a])
  <2>1. handler[u][t].pc \in {"first", "second"}
    BY <1>2 DEF Owned, Waits
  <2>2. handler[u][t] \in HandlerStates
    BY <2>1, HandlerType
  <2>3. [handler[u][t] EXCEPT !.ack = a] \in AnyState
    BY <2>2 DEF HandlerStates, AnyState
  <2>4. handler' = [handler EXCEPT ![u][t] = [handler[u][t] EXCEPT !.ack = a]]
    BY <1>2, NoSlotAssumption DEF Acknowledge
  <2>5. QED
    BY <2>3, <2>4, SetStep
<1>3. QED
  BY <1>1, <1>2

LEMMA Commits ==
    ASSUME TypeOK, Owned, NEW u \in Users, CommitHead(u)
    PROVE  /\ Answers(u, "ok")
           /\ blocked' = IF queue[u][1].op = "set" THEN blocked \cup {queue[u][1].doc}
                         ELSE blocked \ {queue[u][1].doc}
           /\ cache' = IF queue[u][1].doc[1] # u THEN cache
                       ELSE IF queue[u][1].op = "set"
                       THEN [cache EXCEPT ![u] = @ \cup {queue[u][1].doc[2]}]
                       ELSE [cache EXCEPT ![u] = @ \ {queue[u][1].doc[2]}]
           /\ UNCHANGED <<gone, loading, page, chats>>
<1>1. Serves(u) /\ Head(queue[u]) = queue[u][1]
  BY Served DEF CommitHead
<1>2. Acknowledge(u, queue[u][1], "ok")
  BY <1>1 DEF CommitHead
<1>3. 1 \in DOMAIN queue[u]
  BY <1>1 DEF Serves
<1>4. QED
  BY <1>1, <1>2, <1>3, Acknowledged DEF CommitHead, Answers, history

LEMMA Refuses ==
    ASSUME TypeOK, Owned, NEW u \in Users, RefuseHead(u)
    PROVE  Answers(u, "err") /\ UNCHANGED <<blocked, gone, cache, loading, page, chats>>
<1>1. Serves(u) /\ Head(queue[u]) = queue[u][1]
  BY Served DEF RefuseHead
<1>2. Acknowledge(u, queue[u][1], "err")
  BY <1>1 DEF RefuseHead
<1>3. 1 \in DOMAIN queue[u]
  BY <1>1 DEF Serves
<1>4. QED
  BY <1>1, <1>2, <1>3, Acknowledged DEF RefuseHead, Answers, history, remote

\* A handler of kind kd begins, and what the other kind promised of its pair ends.
LEMMA Started ==
    ASSUME TypeOK, NEW kd \in WriteKinds, NEW u \in Users, NEW s \in Slots, NEW x \in Users,
           handler[u][s] = Idle, handler' = [handler EXCEPT ![u][s] = Run(kd, x)],
           Meet(u, s, x), UNCHANGED <<blocked, cache, queue>>,
           \A k \in WriteKinds : /\ Promised(k)' \subseteq Promised(k)
                                 /\ k = kd \/ Promised(k)' \cap {<<u, x>>, <<x, u>>} = {}
    PROVE  Begins(u, s, x)
<1>1. Sets(u, s, Run(kd, x))
  BY RunType, SetStep DEF AnyState
<1>2. handler'[u][s] = Run(kd, x) /\ ~Writing(u, s)
  BY <1>1 DEF Sets, Writing
<1>3. QED
  BY <1>1, <1>2, RunType DEF Begins

LEMMA BlockBegins ==
    ASSUME TypeOK, NEW u \in Users, NEW s \in Slots, NEW x \in Users, AddBlock(u, s, x)
    PROVE  Begins(u, s, x)
<1>1. /\ handler[u][s] = Idle /\ handler' = [handler EXCEPT ![u][s] = Run("block", x)]
      /\ Meet(u, s, x) /\ UNCHANGED <<blocked, cache, queue>>
      /\ free' = free \ {<<u, x>>, <<x, u>>} /\ shield' = shield
  BY DEF AddBlock, remote
<1>2. \A k \in WriteKinds : /\ Promised(k)' \subseteq Promised(k)
                            /\ k = "block" \/ Promised(k)' \cap {<<u, x>>, <<x, u>>} = {}
  BY <1>1 DEF Promised, WriteKinds
<1>3. QED
  BY <1>1, <1>2, Started DEF WriteKinds

LEMMA UnblockBegins ==
    ASSUME TypeOK, NEW u \in Users, NEW s \in Slots, NEW x \in Users, AddUnblock(u, s, x)
    PROVE  Begins(u, s, x)
<1>1. /\ handler[u][s] = Idle /\ handler' = [handler EXCEPT ![u][s] = Run("unblock", x)]
      /\ Meet(u, s, x) /\ UNCHANGED <<blocked, cache, queue>>
      /\ shield' = shield \ {<<u, x>>, <<x, u>>} /\ free' = free
  BY DEF AddUnblock, remote
<1>2. \A k \in WriteKinds : /\ Promised(k)' \subseteq Promised(k)
                            /\ k = "unblock" \/ Promised(k)' \cap {<<u, x>>, <<x, u>>} = {}
  BY <1>1 DEF Promised, WriteKinds
<1>3. QED
  BY <1>1, <1>2, Started DEF WriteKinds

LEMMA FinishEnds ==
    ASSUME TypeOK, NEW u \in Users, NEW s \in Slots, FinishBlock(u, s) \/ FinishUnblock(u, s)
    PROVE  Ends(u, s)
<1>1. /\ Writing(u, s) /\ (Succeeded(u, s) \/ Failed(u, s)) /\ Judge(u, s)
      /\ handler' = [handler EXCEPT ![u][s] = Idle] /\ UNCHANGED <<blocked, cache, queue>>
  BY DEF FinishBlock, FinishUnblock, Finish, remote, Writing
<1>2. Sets(u, s, Idle)
  BY <1>1, SetStep DEF AnyState
<1>3. \/ /\ handler[u][s].kind = "block" /\ free' = free
         /\ shield' = shield \cup Reported(u, s)
      \/ /\ handler[u][s].kind = "unblock" /\ shield' = shield
         /\ free' = free \cup Reported(u, s)
  BY DEF FinishBlock, FinishUnblock, Finish
<1>4. \/ Reported(u, s) = {}
      \/ /\ Succeeded(u, s) /\ <<u, s>> \in clean
         /\ Reported(u, s) = {<<u, handler[u][s].peer>>}
  BY DEF Reported
<1>5. \A kd \in WriteKinds :
          \/ Promised(kd)' = Promised(kd)
          \/ /\ handler[u][s].kind = kd /\ Succeeded(u, s) /\ <<u, s>> \in clean
             /\ Promised(kd)' = Promised(kd) \cup {<<u, handler[u][s].peer>>}
  BY <1>3, <1>4 DEF Promised, WriteKinds
<1>6. QED
  BY <1>1, <1>2, <1>5 DEF Ends

LEMMA Crashes ==
    ASSUME TypeOK, NEW u \in Users, Crash(u)
    PROVE  /\ Dies(u)
           /\ handler' \in [Users -> [Slots -> AnyState]]
           /\ \A v \in Users \ {u} : handler'[v] = handler[v]
           /\ queue' \in [Users -> Seq(Mutations)]
<1>1. handler \in [Users -> [Slots -> AnyState]] /\ queue \in [Users -> Seq(Mutations)]
  BY HandlerType DEF TypeOK
<1>2. [t \in Slots |-> Idle] \in [Slots -> AnyState]
  BY DEF AnyState
<1>3. handler' = [handler EXCEPT ![u] = [t \in Slots |-> Idle]]
  BY DEF Crash
<1>4. handler' \in [Users -> [Slots -> AnyState]] /\ handler'[u] = [t \in Slots |-> Idle]
      /\ \A v \in Users \ {u} : handler'[v] = handler[v]
  BY <1>1, <1>2, <1>3
<1>5. /\ \A t \in Slots : handler'[u][t] = Idle
      /\ \A v \in Users \ {u} : \A t \in Slots : Same(v, t)
  BY <1>4 DEF Same
<1> DEFINE q == [i \in DOMAIN queue[u] |-> [queue[u][i] EXCEPT !.slot = NoSlot]]
<1>6. queue' = [queue EXCEPT ![u] = q]
  BY DEF Crash
<1>7. DOMAIN q = DOMAIN queue[u]
      /\ \A i \in DOMAIN queue[u] : q[i] = [queue[u][i] EXCEPT !.slot = NoSlot]
  OBVIOUS
<1>8. q \in Seq(Mutations)
  <2>1. DOMAIN queue[u] = 1 .. Len(queue[u]) /\ Len(queue[u]) \in Nat
    BY <1>1, LenProperties
  <2>2. ASSUME NEW i \in DOMAIN queue[u]
        PROVE  [queue[u][i] EXCEPT !.slot = NoSlot] \in Mutations
    BY QueueType DEF Mutations
  <2>3. q \in [1 .. Len(queue[u]) -> Mutations]
    BY <2>1, <2>2
  <2>4. QED
    BY <2>1, <2>3, IsASeq
<1> HIDE DEF q
<1>9. queue' \in [Users -> Seq(Mutations)] /\ queue'[u] = q
      /\ \A v \in Users \ {u} : queue'[v] = queue[v]
  BY <1>1, <1>6, <1>8
<1>10. \A t \in Slots : Writing(u, t) => On(u, t) \in suspect'
  BY DEF Crash, On, Sides
<1>11. suspect \subseteq suspect' /\ clean' = clean \ ({u} \X Slots)
       /\ UNCHANGED <<blocked, cache, shield, free>>
  BY DEF Crash, remote
<1>12. QED
  BY <1>4, <1>5, <1>7, <1>9, <1>10, <1>11 DEF Dies

-----------------------------------------------------------------------------
(***************************************************************************)
(* Writes have their handlers.                                             *)
(***************************************************************************)
LEMMA WaitsSame ==
    ASSUME Owned, NEW u \in Users, NEW s \in Slots, Same(u, s)
    PROVE  /\ handler'[u][s].pc = "start" => handler'[u][s].ack = "wait"
           /\ \A i \in DOMAIN queue[u] : queue[u][i].slot = s =>
                  Waits(u, s, handler'[u][s], queue[u][i])
<1>1. handler'[u][s].pc = "start" => handler'[u][s].ack = "wait"
  BY DEF Same, Owned
<1>2. ASSUME NEW i \in DOMAIN queue[u], queue[u][i].slot = s
      PROVE  Waits(u, s, handler'[u][s], queue[u][i])
  <2>1. Waits(u, s, handler[u][s], queue[u][i])
    BY <1>2 DEF Owned
  <2>2. handler'[u][s] = handler[u][s]
    BY DEF Same
  <2>3. QED
    BY <2>1, <2>2
<1>3. QED
  BY <1>1, <1>2

LEMMA OwnedCalm == ASSUME Owned, Calm PROVE Owned'
BY DEF Owned, Calm

LEMMA OwnedSends ==
    ASSUME TypeOK, Owned, NEW u \in Users, NEW s \in Slots, Sends(u, s)
    PROVE  Owned'
<1> DEFINE h == Sent(handler[u][s])
           w == WriteOf(u, s, h)
<1>1. Sets(u, s, h) /\ Joins(u, w)
  BY DEF Sends
<1>2. handler[u][s] \in HandlerStates
  <2>1. Writing(u, s)
    BY DEF Sends, Writing, Idle
  <2>2. QED
    BY <2>1, HandlerType
<1>3. h.pc \in {"first", "second"} /\ h.ack = "wait"
  BY <1>2 DEF Sent, HandlerStates
<1>4. w.slot = s /\ Waits(u, s, h, w)
  BY <1>3 DEF Waits, WriteOf, WriteTo
<1> HIDE DEF h, w
<1>5. ASSUME NEW i \in DOMAIN queue[u] PROVE queue[u][i].slot # s
  <2>1. queue[u][i].slot = s => Waits(u, s, handler[u][s], queue[u][i])
    BY DEF Owned
  <2>2. QED
    BY <2>1 DEF Sends, Waits
<1>6. ASSUME NEW v \in Users, NEW t \in Slots
      PROVE  /\ handler'[v][t].pc = "start" => handler'[v][t].ack = "wait"
             /\ \A i \in DOMAIN queue'[v] : queue'[v][i].slot = t =>
                    Waits(v, t, handler'[v][t], queue'[v][i])
  <2>1. CASE v = u /\ t = s
    <3>1. handler'[v][t] = h
      BY <1>1, <2>1 DEF Sets
    <3>2. ASSUME NEW i \in DOMAIN queue'[v], queue'[v][i].slot = t
          PROVE  queue'[v][i] = w
      BY <1>1, <1>5, <2>1, <3>2 DEF Joins
    <3>3. QED
      BY <1>3, <1>4, <2>1, <3>1, <3>2
  <2>2. CASE v # u \/ t # s
    <3>1. Same(v, t)
      BY <1>1, <2>2, OthersSame
    <3>2. ASSUME NEW i \in DOMAIN queue'[v], queue'[v][i].slot = t
          PROVE  i \in DOMAIN queue[v] /\ queue'[v][i] = queue[v][i]
      BY <1>1, <1>4, <2>2, <3>2 DEF Joins
    <3>3. QED
      BY <3>1, <3>2, WaitsSame
  <2>3. QED
    BY <2>1, <2>2
<1>7. ASSUME NEW v \in Users, NEW i \in DOMAIN queue'[v], NEW j \in DOMAIN queue'[v],
             queue'[v][i].slot # NoSlot, queue'[v][j].slot = queue'[v][i].slot
      PROVE  i = j
  <2>1. CASE v # u
    BY <1>1, <1>7, <2>1 DEF Joins, Owned
  <2>2. CASE v = u /\ i \in DOMAIN queue[u] /\ j \in DOMAIN queue[u]
    BY <1>1, <1>7, <2>2 DEF Joins, Owned
  <2>3. CASE v = u /\ i \notin DOMAIN queue[u] /\ j \in DOMAIN queue[u]
    BY <1>1, <1>4, <1>5, <1>7, <2>3 DEF Joins
  <2>4. CASE v = u /\ i \in DOMAIN queue[u] /\ j \notin DOMAIN queue[u]
    BY <1>1, <1>4, <1>5, <1>7, <2>4 DEF Joins
  <2>5. CASE v = u /\ i \notin DOMAIN queue[u] /\ j \notin DOMAIN queue[u]
    BY <1>1, <2>5 DEF Joins
  <2>6. QED
    BY <2>1, <2>2, <2>3, <2>4, <2>5
<1>8. QED
  BY <1>6, <1>7 DEF Owned

LEMMA OwnedAnswers ==
    ASSUME TypeOK, Owned, NEW u \in Users, NEW a \in {"ok", "err"}, Answers(u, a)
    PROVE  Owned'
<1>1. Serves(u)
  BY DEF Answers
<1>2. ASSUME NEW v \in Users, NEW t \in Slots
      PROVE  /\ handler'[v][t].pc = "start" => handler'[v][t].ack = "wait"
             /\ \A i \in DOMAIN queue'[v] : queue'[v][i].slot = t =>
                    Waits(v, t, handler'[v][t], queue'[v][i])
  <2>1. CASE v = u /\ queue[u][1].slot = t
    <3>1. Waits(u, t, handler[u][t], queue[u][1])
      BY <1>1, <2>1 DEF Owned, Serves
    <3>2. handler[u][t] \in HandlerStates
      <4>1. Writing(u, t)
        BY <3>1 DEF Waits, Writing, Idle
      <4>2. QED
        BY <4>1, HandlerType
    <3>3. handler'[u][t] = [handler[u][t] EXCEPT !.ack = a]
      BY <2>1 DEF Answers, Sets
    <3>4. handler'[u][t].pc # "start"
      BY <3>1, <3>2, <3>3 DEF Waits, HandlerStates
    <3>5. ASSUME NEW i \in DOMAIN queue'[u] PROVE queue'[u][i].slot # t
      <4>1. /\ i + 1 \in DOMAIN queue[u] /\ 1 \in DOMAIN queue[u] /\ i + 1 # 1
            /\ queue'[u][i] = queue[u][i + 1]
        BY <1>1 DEF Serves
      <4>2. queue[u][1].slot # NoSlot
        BY <2>1, NoSlotAssumption
      <4>3. QED
        BY <2>1, <4>1, <4>2 DEF Owned
    <3>6. QED
      BY <2>1, <3>4, <3>5
  <2>2. CASE ~(v = u /\ queue[u][1].slot = t)
    <3>1. handler'[v][t] = handler[v][t]
      <4>1. queue[u][1].slot \in Slots \cup {NoSlot}
        BY <1>1, QueueType DEF Serves
      <4>2. CASE queue[u][1].slot = NoSlot
        BY <4>2 DEF Answers
      <4>3. ASSUME NEW r \in Slots, queue[u][1].slot = r PROVE handler'[v][t] = handler[v][t]
        <5>1. Sets(u, r, [handler[u][r] EXCEPT !.ack = a])
          BY <4>3 DEF Answers
        <5>2. v # u \/ t # r
          BY <2>2, <4>3
        <5>3. QED
          BY <5>1, <5>2 DEF Sets
      <4>4. QED
        BY <4>1, <4>2, <4>3
    <3>2. Same(v, t)
      BY <3>1 DEF Same
    <3>3. ASSUME NEW i \in DOMAIN queue'[v]
          PROVE  \E j \in DOMAIN queue[v] : queue'[v][i] = queue[v][j]
      BY <1>1 DEF Serves
    <3>4. QED
      BY <3>2, <3>3, WaitsSame
  <2>3. QED
    BY <2>1, <2>2
<1>3. ASSUME NEW v \in Users, NEW i \in DOMAIN queue'[v], NEW j \in DOMAIN queue'[v],
             queue'[v][i].slot # NoSlot, queue'[v][j].slot = queue'[v][i].slot
      PROVE  i = j
  <2>1. CASE v # u
    BY <1>1, <1>3, <2>1 DEF Serves, Owned
  <2>2. CASE v = u
    <3>1. /\ i \in Nat /\ i + 1 \in DOMAIN queue[u] /\ queue'[u][i] = queue[u][i + 1]
          /\ j \in Nat /\ j + 1 \in DOMAIN queue[u] /\ queue'[u][j] = queue[u][j + 1]
      BY <1>1, <2>2 DEF Serves
    <3>2. i + 1 = j + 1
      BY <1>3, <2>2, <3>1 DEF Owned
    <3>3. QED
      BY <3>1, <3>2
  <2>3. QED
    BY <2>1, <2>2
<1>4. QED
  BY <1>2, <1>3 DEF Owned

LEMMA OwnedBegins ==
    ASSUME TypeOK, Owned, NEW u \in Users, NEW s \in Slots, NEW x \in Users, Begins(u, s, x)
    PROVE  Owned'
<1>1. queue' = queue /\ ~Writing(u, s) /\ handler'[u][s].ack = "wait"
      /\ \A v \in Users : \A t \in Slots : v # u \/ t # s => Same(v, t)
  BY OthersSame DEF Begins
<1>2. ASSUME NEW v \in Users, NEW t \in Slots
      PROVE  /\ handler'[v][t].pc = "start" => handler'[v][t].ack = "wait"
             /\ \A i \in DOMAIN queue'[v] : queue'[v][i].slot = t =>
                    Waits(v, t, handler'[v][t], queue'[v][i])
  <2>1. CASE v = u /\ t = s
    BY <1>1, <2>1 DEF Owned, Waits, Writing, Idle
  <2>2. CASE v # u \/ t # s
    BY <1>1, <2>2, WaitsSame
  <2>3. QED
    BY <2>1, <2>2
<1>3. \A v \in Users : \A i \in DOMAIN queue'[v] : \A j \in DOMAIN queue'[v] :
          queue'[v][i].slot # NoSlot /\ queue'[v][j].slot = queue'[v][i].slot => i = j
  BY <1>1 DEF Owned
<1>4. QED
  BY <1>2, <1>3 DEF Owned

LEMMA OwnedEnds ==
    ASSUME TypeOK, Owned, NEW u \in Users, NEW s \in Slots, Ends(u, s)
    PROVE  Owned'
<1>1. /\ queue' = queue /\ handler'[u][s] = Idle /\ handler[u][s].ack # "wait"
      /\ \A v \in Users : \A t \in Slots : v # u \/ t # s => Same(v, t)
  BY OthersSame DEF Ends, Sets, Succeeded, Failed
<1>2. ASSUME NEW v \in Users, NEW t \in Slots
      PROVE  /\ handler'[v][t].pc = "start" => handler'[v][t].ack = "wait"
             /\ \A i \in DOMAIN queue'[v] : queue'[v][i].slot = t =>
                    Waits(v, t, handler'[v][t], queue'[v][i])
  <2>1. CASE v = u /\ t = s
    BY <1>1, <2>1 DEF Owned, Waits, Idle
  <2>2. CASE v # u \/ t # s
    BY <1>1, <2>2, WaitsSame
  <2>3. QED
    BY <2>1, <2>2
<1>3. \A v \in Users : \A i \in DOMAIN queue'[v] : \A j \in DOMAIN queue'[v] :
          queue'[v][i].slot # NoSlot /\ queue'[v][j].slot = queue'[v][i].slot => i = j
  BY <1>1 DEF Owned
<1>4. QED
  BY <1>2, <1>3 DEF Owned

LEMMA OwnedDies == ASSUME TypeOK, Owned, NEW u \in Users, Dies(u) PROVE Owned'
<1>1. ASSUME NEW i \in DOMAIN queue'[u] PROVE queue'[u][i].slot = NoSlot
  <2>1. i \in DOMAIN queue[u] /\ queue'[u][i] = [queue[u][i] EXCEPT !.slot = NoSlot]
    BY DEF Dies
  <2>2. QED
    BY <2>1, QueueType DEF Mutations
<1>2. /\ \A t \in Slots : handler'[u][t] = Idle
      /\ \A v \in Users \ {u} : queue'[v] = queue[v] /\ \A t \in Slots : Same(v, t)
  BY DEF Dies
<1>3. ASSUME NEW v \in Users, NEW t \in Slots
      PROVE  /\ handler'[v][t].pc = "start" => handler'[v][t].ack = "wait"
             /\ \A i \in DOMAIN queue'[v] : queue'[v][i].slot = t =>
                    Waits(v, t, handler'[v][t], queue'[v][i])
  <2>1. CASE v = u
    BY <1>1, <1>2, <2>1, NoSlotAssumption DEF Idle
  <2>2. CASE v # u
    BY <1>2, <2>2, WaitsSame
  <2>3. QED
    BY <2>1, <2>2
<1>4. \A v \in Users : \A i \in DOMAIN queue'[v] : \A j \in DOMAIN queue'[v] :
          queue'[v][i].slot # NoSlot /\ queue'[v][j].slot = queue'[v][i].slot => i = j
  BY <1>1, <1>2 DEF Owned
<1>5. QED
  BY <1>3, <1>4 DEF Owned

-----------------------------------------------------------------------------
(***************************************************************************)
(* The history of a pair.                                                  *)
(***************************************************************************)
LEMMA SameOn ==
    ASSUME NEW v \in Users, NEW t \in Slots, Same(v, t)
    PROVE  /\ Writing(v, t)' <=> Writing(v, t)
           /\ Writing(v, t) => handler'[v][t] = handler[v][t] /\ On(v, t)' = On(v, t)
BY DEF Same, Writing, On

\* A write is about the pair of the handler that waits for it.
LEMMA WaitAbout ==
    ASSUME Owned, NEW u \in Users, NEW s \in Slots, NEW i \in DOMAIN queue[u],
           queue[u][i].slot = s
    PROVE  /\ Writing(u, s) /\ handler[u][s].ack = "wait"
           /\ About(queue[u][i]) = On(u, s)
           /\ queue[u][i] = WriteOf(u, s, handler[u][s])
           /\ queue[u][i].op = IF handler[u][s].kind = "block" THEN "set" ELSE "delete"
<1>1. Waits(u, s, handler[u][s], queue[u][i])
  BY DEF Owned
<1>2. queue[u][i] = WriteOf(u, s, handler[u][s])
  BY <1>1 DEF Waits
<1>3. /\ queue[u][i].doc \in {<<u, handler[u][s].peer>>, <<handler[u][s].peer, u>>}
      /\ queue[u][i].op = IF handler[u][s].kind = "block" THEN "set" ELSE "delete"
  BY <1>2 DEF WriteOf, WriteTo, FirstDoc, SecondDoc
<1>4. QED
  BY <1>1, <1>2, <1>3 DEF Waits, Writing, Idle, About, On, Sides

\* Handlers keep their pair and their kind, and no orphan joins.
Keeps ==
    /\ UNCHANGED <<suspect, clean>>
    /\ \A v \in Users : \A t \in Slots :
           /\ Writing(v, t)' <=> Writing(v, t)
           /\ Writing(v, t) => /\ handler'[v][t].peer = handler[v][t].peer
                               /\ handler'[v][t].kind = handler[v][t].kind
    /\ \A v \in Users : \A i \in DOMAIN queue'[v] : queue'[v][i].slot = NoSlot =>
           \E j \in DOMAIN queue[v] : queue'[v][i] = queue[v][j]

LEMMA KeepsOn ==
    ASSUME Keeps, NEW v \in Users, NEW t \in Slots
    PROVE  /\ Writing(v, t)' <=> Writing(v, t)
           /\ Writing(v, t) => On(v, t)' = On(v, t)
BY DEF Keeps, On

LEMMA HistoryKept ==
    ASSUME TypeOK, OrphansSuspect, Alone, Trusted, Keeps
    PROVE  OrphansSuspect' /\ Alone' /\ Trusted'
<1>1. UNCHANGED <<suspect, clean>>
  BY DEF Keeps
<1>2. ASSUME NEW v \in Users, NEW i \in DOMAIN queue'[v], queue'[v][i].slot = NoSlot
      PROVE  \E j \in DOMAIN queue[v] : queue'[v][i] = queue[v][j]
  BY <1>2 DEF Keeps
<1>3. OrphansSuspect'
  BY <1>1, <1>2 DEF OrphansSuspect
<1>4. ASSUME NEW u \in Users, NEW s \in Slots, <<u, s>> \in clean'
      PROVE  /\ Writing(u, s)'
             /\ \A v \in Users : \A t \in Slots :
                    Writing(v, t)' /\ On(v, t)' = On(u, s)' => v = u /\ t = s
             /\ \A v \in Users : \A i \in DOMAIN queue'[v] :
                    queue'[v][i].slot = NoSlot => About(queue'[v][i]) # On(u, s)'
  <2>1. Writing(u, s) /\ Writing(u, s)' /\ On(u, s)' = On(u, s)
    BY <1>1, <1>4, KeepsOn DEF Alone
  <2>2. ASSUME NEW v \in Users, NEW t \in Slots, Writing(v, t)', On(v, t)' = On(u, s)'
        PROVE  v = u /\ t = s
    BY <1>1, <1>4, <2>1, <2>2, KeepsOn DEF Alone
  <2>3. ASSUME NEW v \in Users, NEW i \in DOMAIN queue'[v], queue'[v][i].slot = NoSlot
        PROVE  About(queue'[v][i]) # On(u, s)'
    BY <1>1, <1>2, <1>4, <2>1, <2>3 DEF Alone
  <2>4. QED
    BY <2>1, <2>2, <2>3
<1>5. Alone'
  BY <1>4 DEF Alone
<1>6. ASSUME NEW u \in Users, NEW s \in Slots, Writing(u, s)', On(u, s)' \notin suspect'
      PROVE  <<u, s>> \in clean'
  BY <1>1, <1>6, KeepsOn DEF Trusted
<1>7. Trusted'
  BY <1>6 DEF Trusted
<1>8. QED
  BY <1>3, <1>5, <1>7

\* Where nothing is written a pair stays as it was, when its handlers do.
LEMMA EffectsKept ==
    ASSUME TypeOK, Alone, Effective, Keeps, blocked' = blocked,
           \A v \in Users : cache'[v] = cache[v] \/ cache'[v] = Stored(v),
           \A v \in Users : \A t \in Slots : <<v, t>> \in clean =>
               /\ FirstDone(handler'[v][t]) => FirstDone(handler[v][t])
               /\ Succeeded(v, t)' => Succeeded(v, t)
    PROVE  Effective'
<1>1. ASSUME NEW u \in Users, NEW s \in Slots, <<u, s>> \in clean'
      PROVE  /\ FirstDone(handler'[u][s]) =>
                    /\ Done(blocked', FirstDoc(u, handler'[u][s].peer), handler'[u][s].kind)
                    /\ Done(cache'[u], handler'[u][s].peer, handler'[u][s].kind)
             /\ Succeeded(u, s)' =>
                    Done(blocked', SecondDoc(u, handler'[u][s].peer), handler'[u][s].kind)
  <2>1. <<u, s>> \in clean /\ Writing(u, s)
    BY <1>1 DEF Keeps, Alone
  <2>2. handler'[u][s].peer = handler[u][s].peer /\ handler'[u][s].kind = handler[u][s].kind
    BY <2>1 DEF Keeps
  <2>3. handler[u][s].peer \in Users
    BY <2>1, HandlerType DEF HandlerStates
  <2>4. ASSUME FirstDone(handler'[u][s])
        PROVE  /\ Done(blocked, FirstDoc(u, handler[u][s].peer), handler[u][s].kind)
               /\ Done(cache'[u], handler[u][s].peer, handler[u][s].kind)
    <3>1. /\ Done(blocked, FirstDoc(u, handler[u][s].peer), handler[u][s].kind)
          /\ Done(cache[u], handler[u][s].peer, handler[u][s].kind)
      BY <2>1, <2>4 DEF Effective
    <3>2. Done(Stored(u), handler[u][s].peer, handler[u][s].kind)
      BY <2>3, <3>1 DEF Done, FirstDoc, Stored
    <3>3. QED
      BY <3>1, <3>2
  <2>5. Succeeded(u, s)' => Done(blocked, SecondDoc(u, handler[u][s].peer), handler[u][s].kind)
    BY <2>1 DEF Effective
  <2>6. QED
    BY <2>2, <2>4, <2>5
<1>2. QED
  BY <1>1 DEF Effective

LEMMA AgreementKept ==
    ASSUME TypeOK, Agreeing, Keeps, blocked' = blocked,
           \A v \in Users : \A t \in Slots : Writing(v, t) /\ On(v, t) \notin suspect =>
               (FirstDone(handler[v][t]) => FirstDone(handler'[v][t]))
    PROVE  Agreeing'
<1>1. ASSUME NEW a \in Users, NEW b \in Users, a # b, Sides(a, b) \notin suspect',
             \A u \in Users : \A s \in Slots :
                 Writing(u, s)' /\ On(u, s)' = Sides(a, b) => ~FirstDone(handler'[u][s])
      PROVE  <<a, b>> \in blocked' <=> <<b, a>> \in blocked'
  <2>1. Sides(a, b) \notin suspect
    BY <1>1 DEF Keeps
  <2>2. ASSUME NEW u \in Users, NEW s \in Slots, Writing(u, s), On(u, s) = Sides(a, b)
        PROVE  ~FirstDone(handler[u][s])
    BY <1>1, <2>1, <2>2, KeepsOn
  <2>3. Agree(a, b)
    BY <1>1, <2>1, <2>2 DEF Agreeing
  <2>4. QED
    BY <2>3 DEF Agree
<1>2. QED
  BY <1>1 DEF Agreeing, Agree

LEMMA StandsAt ==
    ASSUME Standing, NEW kd \in WriteKinds, NEW a \in Users, NEW b \in Users,
           <<a, b>> \in Promised(kd)
    PROVE  Stands(kd, a, b)
BY DEF Standing

\* What is promised stands as long as no document and no handler changes and
\* every write that joins a queue is of the kind that was promised.
LEMMA StandsKept ==
    ASSUME Keeps, NEW kd \in WriteKinds, NEW a \in Users, NEW b \in Users, Stands(kd, a, b),
           Done(blocked', <<a, b>>, kd) /\ Done(blocked', <<b, a>>, kd) /\ Done(cache'[a], b, kd),
           \A v \in Users : \A i \in DOMAIN queue'[v] :
               \/ \E j \in DOMAIN queue[v] : queue'[v][i] = queue[v][j]
               \/ About(queue'[v][i]) = Sides(a, b) => queue'[v][i].op = OpOf(kd)
    PROVE  Stands(kd, a, b)'
<1>1. ASSUME NEW u \in Users, NEW i \in DOMAIN queue'[u], About(queue'[u][i]) = Sides(a, b)
      PROVE  queue'[u][i].op = OpOf(kd)
  <2>1. CASE \E j \in DOMAIN queue[u] : queue'[u][i] = queue[u][j]
    BY <1>1, <2>1 DEF Stands
  <2>2. QED
    BY <1>1, <2>1
<1>2. ASSUME NEW u \in Users, NEW s \in Slots, Writing(u, s)', On(u, s)' = Sides(a, b)
      PROVE  handler'[u][s].kind = kd
  <2>1. Writing(u, s) /\ On(u, s) = Sides(a, b)
    BY <1>2, KeepsOn
  <2>2. QED
    BY <2>1 DEF Keeps, Stands
<1>3. QED
  BY <1>1, <1>2 DEF Stands

LEMMA StandingKept ==
    ASSUME Standing, Keeps, UNCHANGED <<blocked, shield, free>>,
           \A v \in Users : cache'[v] = cache[v] \/ cache'[v] = Stored(v),
           \A v \in Users : \A i \in DOMAIN queue'[v] :
               \E j \in DOMAIN queue[v] : queue'[v][i] = queue[v][j]
    PROVE  Standing'
<1>1. ASSUME NEW kd \in WriteKinds, NEW a \in Users, NEW b \in Users, <<a, b>> \in Promised(kd)'
      PROVE  Stands(kd, a, b)'
  <2>1. Stands(kd, a, b)
    BY <1>1, StandsAt DEF Promised
  <2>2. Done(Stored(a), b, kd)
    BY <2>1 DEF Stands, Done, Stored
  <2>3. Done(blocked', <<a, b>>, kd) /\ Done(blocked', <<b, a>>, kd) /\ Done(cache'[a], b, kd)
    BY <2>1, <2>2 DEF Stands
  <2>4. QED
    BY <2>1, <2>3, StandsKept
<1>2. QED
  BY <1>1 DEF Standing

LEMMA CalmKept ==
    ASSUME TypeOK, History, Standing, Calm
    PROVE  History' /\ Standing'
<1>1. OrphansSuspect /\ Alone /\ Trusted /\ Effective /\ Agreeing
  BY DEF History
<1>2. /\ UNCHANGED <<blocked, queue, handler, suspect, clean, shield, free>>
      /\ \A v \in Users : cache'[v] = cache[v] \/ cache'[v] = Stored(v)
  BY DEF Calm
<1>3. Keeps
  BY <1>2 DEF Keeps, Writing
<1>4. OrphansSuspect' /\ Alone' /\ Trusted'
  BY <1>1, <1>3, HistoryKept
<1>5. \A v \in Users : \A t \in Slots : Succeeded(v, t)' <=> Succeeded(v, t)
  BY <1>2 DEF Succeeded
<1>6. Effective'
  BY <1>1, <1>2, <1>3, <1>5, EffectsKept
<1>7. Agreeing'
  BY <1>1, <1>2, <1>3, AgreementKept
<1>8. Standing'
  BY <1>2, <1>3, StandingKept
<1>9. QED
  BY <1>4, <1>6, <1>7, <1>8 DEF History

LEMMA SendsKept ==
    ASSUME TypeOK, Owned, History, Standing, NEW u \in Users, NEW s \in Slots, Sends(u, s)
    PROVE  History' /\ Standing'
<1> DEFINE h == Sent(handler[u][s])
           w == WriteOf(u, s, h)
<1>1. OrphansSuspect /\ Alone /\ Trusted /\ Effective /\ Agreeing
  BY DEF History
<1>2. /\ UNCHANGED <<blocked, cache, suspect, clean, shield, free>>
      /\ handler[u][s].pc = "start" \/ (handler[u][s].pc = "first" /\ handler[u][s].ack = "ok")
      /\ Sets(u, s, h) /\ Joins(u, w)
  BY DEF Sends
<1>3. Writing(u, s) /\ handler[u][s] \in HandlerStates
  <2>1. Writing(u, s)
    BY <1>2 DEF Writing, Idle
  <2>2. QED
    BY <2>1, HandlerType
<1>4. /\ h.pc = (IF handler[u][s].pc = "start" THEN "first" ELSE "second")
      /\ h.ack = "wait" /\ h.peer = handler[u][s].peer /\ h.kind = handler[u][s].kind
  BY <1>3 DEF Sent, HandlerStates
<1>5. /\ w.slot = s /\ About(w) = On(u, s)
      /\ w.op = IF handler[u][s].kind = "block" THEN "set" ELSE "delete"
  <2>1. /\ w.slot = s
        /\ w.doc \in {<<u, handler[u][s].peer>>, <<handler[u][s].peer, u>>}
        /\ w.op = IF handler[u][s].kind = "block" THEN "set" ELSE "delete"
    BY <1>4 DEF WriteOf, WriteTo, FirstDoc, SecondDoc
  <2>2. QED
    BY <2>1 DEF About, On, Sides
<1> HIDE DEF h, w
<1>6. handler'[u][s] = h
      /\ \A v \in Users : \A t \in Slots : v # u \/ t # s => handler'[v][t] = handler[v][t]
  BY <1>2 DEF Sets
<1>7. Keeps
  <2>1. ASSUME NEW v \in Users, NEW t \in Slots
        PROVE  /\ Writing(v, t)' <=> Writing(v, t)
               /\ Writing(v, t) => /\ handler'[v][t].peer = handler[v][t].peer
                                   /\ handler'[v][t].kind = handler[v][t].kind
    <3>1. CASE v = u /\ t = s
      BY <1>3, <1>4, <1>6, <3>1 DEF Writing, Idle
    <3>2. CASE v # u \/ t # s
      BY <1>6, <3>2 DEF Writing
    <3>3. QED
      BY <3>1, <3>2
  <2>2. ASSUME NEW v \in Users, NEW i \in DOMAIN queue'[v], queue'[v][i].slot = NoSlot
        PROVE  \E j \in DOMAIN queue[v] : queue'[v][i] = queue[v][j]
    BY <1>2, <1>5, <2>2, NoSlotAssumption DEF Joins
  <2>3. QED
    BY <1>2, <2>1, <2>2 DEF Keeps
<1>8. OrphansSuspect' /\ Alone' /\ Trusted'
  BY <1>1, <1>7, HistoryKept
<1>9. ASSUME NEW v \in Users, NEW t \in Slots
      PROVE  /\ FirstDone(handler'[v][t]) <=> FirstDone(handler[v][t])
             /\ Succeeded(v, t)' => Succeeded(v, t)
  <2>1. CASE v = u /\ t = s
    BY <1>2, <1>4, <1>6, <2>1 DEF FirstDone, Succeeded
  <2>2. CASE v # u \/ t # s
    BY <1>6, <2>2 DEF Succeeded
  <2>3. QED
    BY <2>1, <2>2
<1>10. Effective'
  BY <1>1, <1>2, <1>7, <1>9, EffectsKept
<1>11. Agreeing'
  BY <1>1, <1>2, <1>7, <1>9, AgreementKept
\* A write that joins is of a handler that may run beside the promise.
<1>12. Standing'
  <2> SUFFICES ASSUME NEW kd \in WriteKinds, NEW a \in Users, NEW b \in Users,
                      <<a, b>> \in Promised(kd)'
               PROVE  Stands(kd, a, b)'
    BY DEF Standing
  <2>1. Stands(kd, a, b)
    BY <1>2, StandsAt DEF Promised
  <2>2. Done(blocked', <<a, b>>, kd) /\ Done(blocked', <<b, a>>, kd) /\ Done(cache'[a], b, kd)
    BY <1>2, <2>1 DEF Stands
  <2>3. About(w) = Sides(a, b) => w.op = OpOf(kd)
    BY <1>3, <1>5, <2>1 DEF Stands, OpOf
  <2>4. \A v \in Users : \A i \in DOMAIN queue'[v] :
            \/ \E j \in DOMAIN queue[v] : queue'[v][i] = queue[v][j]
            \/ About(queue'[v][i]) = Sides(a, b) => queue'[v][i].op = OpOf(kd)
    BY <1>2, <2>3 DEF Joins
  <2>5. QED
    BY <1>7, <2>1, <2>2, <2>4, StandsKept
<1>13. QED
  BY <1>8, <1>10, <1>11, <1>12 DEF History

\* An answer changes no pair and no kind.
LEMMA AnswersKeep ==
    ASSUME TypeOK, Owned, NEW u \in Users, NEW a \in {"ok", "err"}, Answers(u, a)
    PROVE  /\ Keeps
           /\ \A v \in Users : \A i \in DOMAIN queue'[v] :
                  \E j \in DOMAIN queue[v] : queue'[v][i] = queue[v][j]
           /\ \A v \in Users : \A t \in Slots :
                  \/ handler'[v][t] = handler[v][t]
                  \/ /\ v = u /\ queue[u][1].slot = t
                     /\ handler[v][t] \in HandlerStates /\ handler[v][t].pc # "start"
                     /\ handler[v][t].ack = "wait"
                     /\ handler'[v][t] = [handler[v][t] EXCEPT !.ack = a]
<1>1. Serves(u) /\ 1 \in DOMAIN queue[u] /\ queue[u][1].slot \in Slots \cup {NoSlot}
  BY QueueType DEF Answers, Serves
<1>2. ASSUME NEW v \in Users, NEW t \in Slots
      PROVE  \/ handler'[v][t] = handler[v][t]
             \/ /\ v = u /\ queue[u][1].slot = t
                /\ handler[v][t] \in HandlerStates /\ handler[v][t].pc # "start"
                /\ handler[v][t].ack = "wait"
                /\ handler'[v][t] = [handler[v][t] EXCEPT !.ack = a]
  <2>1. CASE queue[u][1].slot = NoSlot
    BY <2>1 DEF Answers
  <2>2. CASE v = u /\ queue[u][1].slot = t
    <3>1. Waits(u, t, handler[u][t], queue[u][1])
      BY <1>1, <2>2 DEF Owned
    <3>2. handler[u][t].pc # "start" /\ handler[u][t].ack = "wait" /\ Writing(u, t)
      BY <3>1 DEF Waits, Writing, Idle
    <3>3. handler[u][t] \in HandlerStates
      BY <3>2, HandlerType
    <3>4. handler'[u][t] = [handler[u][t] EXCEPT !.ack = a]
      BY <2>2 DEF Answers, Sets
    <3>5. QED
      BY <2>2, <3>2, <3>3, <3>4
  <2>3. ASSUME NEW r \in Slots, queue[u][1].slot = r, v # u \/ r # t
        PROVE  handler'[v][t] = handler[v][t]
    <3>1. Sets(u, r, [handler[u][r] EXCEPT !.ack = a])
      BY <2>3 DEF Answers
    <3>2. QED
      BY <2>3, <3>1 DEF Sets
  <2>4. QED
    BY <1>1, <2>1, <2>2, <2>3
<1>3. ASSUME NEW v \in Users, NEW i \in DOMAIN queue'[v]
      PROVE  \E j \in DOMAIN queue[v] : queue'[v][i] = queue[v][j]
  BY <1>1 DEF Serves
<1>4. ASSUME NEW v \in Users, NEW t \in Slots
      PROVE  /\ Writing(v, t)' <=> Writing(v, t)
             /\ Writing(v, t) => /\ handler'[v][t].peer = handler[v][t].peer
                                 /\ handler'[v][t].kind = handler[v][t].kind
  <2>1. CASE handler'[v][t] = handler[v][t]
    BY <2>1 DEF Writing
  <2>2. CASE handler[v][t] \in HandlerStates
             /\ handler'[v][t] = [handler[v][t] EXCEPT !.ack = a]
    BY <2>2 DEF Writing, Idle, HandlerStates
  <2>3. QED
    BY <1>2, <2>1, <2>2
<1>5. UNCHANGED <<suspect, clean>>
  BY DEF Answers
<1>6. Keeps
  BY <1>3, <1>4, <1>5 DEF Keeps
<1>7. QED
  BY <1>2, <1>3, <1>6

LEMMA RefusalKept ==
    ASSUME TypeOK, Owned, History, Standing, NEW u \in Users, Answers(u, "err"),
           UNCHANGED <<blocked, cache>>
    PROVE  History' /\ Standing'
<1>1. OrphansSuspect /\ Alone /\ Trusted /\ Effective /\ Agreeing
  BY DEF History
<1>2. /\ Keeps
      /\ \A v \in Users : \A i \in DOMAIN queue'[v] :
             \E j \in DOMAIN queue[v] : queue'[v][i] = queue[v][j]
  BY AnswersKeep
<1>3. OrphansSuspect' /\ Alone' /\ Trusted'
  BY <1>1, <1>2, HistoryKept
<1>4. ASSUME NEW v \in Users, NEW t \in Slots
      PROVE  /\ FirstDone(handler'[v][t]) <=> FirstDone(handler[v][t])
             /\ Succeeded(v, t)' => Succeeded(v, t)
  <2>1. CASE handler'[v][t] = handler[v][t]
    BY <2>1 DEF Succeeded
  <2>2. CASE /\ handler[v][t] \in HandlerStates /\ handler[v][t].ack = "wait"
             /\ handler'[v][t] = [handler[v][t] EXCEPT !.ack = "err"]
    BY <2>2 DEF FirstDone, Succeeded, HandlerStates
  <2>3. QED
    BY <2>1, <2>2, AnswersKeep
<1>5. Effective'
  BY <1>1, <1>2, <1>4, EffectsKept
<1>6. Agreeing'
  BY <1>1, <1>2, <1>4, AgreementKept
<1>7. Standing'
  <2>1. UNCHANGED <<shield, free>>
    BY DEF Answers
  <2>2. QED
    BY <1>2, <2>1, StandingKept
<1>8. QED
  BY <1>3, <1>5, <1>6, <1>7 DEF History

\* The oldest write of a phone and what the server does with it.
Oldest(u) == queue[u][1]
Applied(u) ==
    /\ blocked' = IF Oldest(u).op = "set" THEN blocked \cup {Oldest(u).doc}
                  ELSE blocked \ {Oldest(u).doc}
    /\ cache' = IF Oldest(u).doc[1] # u THEN cache
                ELSE IF Oldest(u).op = "set"
                THEN [cache EXCEPT ![u] = @ \cup {Oldest(u).doc[2]}]
                ELSE [cache EXCEPT ![u] = @ \ {Oldest(u).doc[2]}]

LEMMA AppliedDocs ==
    ASSUME TypeOK, NEW u \in Users, 1 \in DOMAIN queue[u], Applied(u)
    PROVE  /\ \A a \in Users : \A b \in Users : <<a, b>> # Oldest(u).doc =>
                  (<<a, b>> \in blocked' <=> <<a, b>> \in blocked)
           /\ Oldest(u).op = "set" => Oldest(u).doc \in blocked'
           /\ Oldest(u).op = "delete" => Oldest(u).doc \notin blocked'
           /\ \A v \in Users : \A y \in Users :
                  v # u \/ Oldest(u).doc # <<v, y>> => (y \in cache'[v] <=> y \in cache[v])
           /\ \A y \in Users : Oldest(u).doc = <<u, y>> =>
                  (y \in cache'[u] <=> Oldest(u).op = "set")
           /\ Oldest(u).doc \in Users \X Users /\ Oldest(u).op \in {"set", "delete"}
           /\ Oldest(u).slot \in Slots \cup {NoSlot}
           /\ cache' \in [Users -> SUBSET Users] /\ blocked' \subseteq Users \X Users
<1> DEFINE w == Oldest(u)
<1>1. w.doc \in Users \X Users /\ w.op \in {"set", "delete"} /\ w.slot \in Slots \cup {NoSlot}
  BY QueueType DEF Oldest
<1>2. cache \in [Users -> SUBSET Users] /\ blocked \subseteq Users \X Users
  BY DEF TypeOK
<1>3. w.doc[2] \in Users /\ w.doc = <<w.doc[1], w.doc[2]>>
  BY <1>1
<1>4. blocked' = (IF w.op = "set" THEN blocked \cup {w.doc} ELSE blocked \ {w.doc})
  BY DEF Applied
<1>5. \/ w.doc[1] # u /\ cache' = cache
      \/ w.doc[1] = u /\ w.op = "set" /\ cache' = [cache EXCEPT ![u] = cache[u] \cup {w.doc[2]}]
      \/ w.doc[1] = u /\ w.op # "set" /\ cache' = [cache EXCEPT ![u] = cache[u] \ {w.doc[2]}]
  BY DEF Applied
<1> HIDE DEF w
<1>6. cache' \in [Users -> SUBSET Users] /\ blocked' \subseteq Users \X Users
  BY <1>1, <1>2, <1>3, <1>4, <1>5
<1>7. ASSUME NEW v \in Users, NEW y \in Users, v # u \/ w.doc # <<v, y>>
      PROVE  y \in cache'[v] <=> y \in cache[v]
  BY <1>2, <1>3, <1>5, <1>7
<1>8. ASSUME NEW y \in Users, w.doc = <<u, y>> PROVE y \in cache'[u] <=> w.op = "set"
  <2>1. w.doc[1] = u /\ w.doc[2] = y
    BY <1>8
  <2>2. cache'[u] = IF w.op = "set" THEN cache[u] \cup {y} ELSE cache[u] \ {y}
    BY <1>2, <1>5, <2>1
  <2>3. QED
    BY <2>2
<1>9. /\ \A a \in Users : \A b \in Users : <<a, b>> # w.doc =>
             (<<a, b>> \in blocked' <=> <<a, b>> \in blocked)
      /\ w.op = "set" => w.doc \in blocked'
      /\ w.op = "delete" => w.doc \notin blocked'
  BY <1>4
<1>10. QED
  BY <1>1, <1>6, <1>7, <1>8, <1>9 DEF w

\* A write about another pair is of neither document of this one.
LEMMA OtherDocs ==
    ASSUME NEW a \in Users, NEW b \in Users, NEW w, w.doc \in Users \X Users,
           w.doc = <<a, b>> \/ w.doc = <<b, a>>
    PROVE  About(w) = Sides(a, b)
BY DEF About, Sides

LEMMA CommitKept ==
    ASSUME TypeOK, Owned, History, Standing, NEW u \in Users, Answers(u, "ok"), Applied(u)
    PROVE  History' /\ Standing'
<1> DEFINE w == Oldest(u)
<1>1. OrphansSuspect /\ Alone /\ Trusted /\ Effective /\ Agreeing
  BY DEF History
<1>2. /\ Keeps
      /\ \A v \in Users : \A i \in DOMAIN queue'[v] :
             \E j \in DOMAIN queue[v] : queue'[v][i] = queue[v][j]
  BY AnswersKeep
<1>3. OrphansSuspect' /\ Alone' /\ Trusted'
  BY <1>1, <1>2, HistoryKept
<1>4. 1 \in DOMAIN queue[u] /\ UNCHANGED <<suspect, clean, shield, free>>
  BY DEF Answers, Serves
<1>5. /\ \A a \in Users : \A b \in Users : <<a, b>> # w.doc =>
             (<<a, b>> \in blocked' <=> <<a, b>> \in blocked)
      /\ w.op = "set" => w.doc \in blocked'
      /\ w.op = "delete" => w.doc \notin blocked'
  BY <1>4, AppliedDocs
<1>6. /\ \A v \in Users : \A y \in Users :
             v # u \/ w.doc # <<v, y>> => (y \in cache'[v] <=> y \in cache[v])
      /\ \A y \in Users : w.doc = <<u, y>> => (y \in cache'[u] <=> w.op = "set")
  BY <1>4, AppliedDocs
<1>7. w.doc \in Users \X Users /\ w.op \in {"set", "delete"} /\ w.slot \in Slots \cup {NoSlot}
  BY <1>4, AppliedDocs
<1>8. ASSUME NEW r \in Slots, w.slot = r
      PROVE  /\ Writing(u, r) /\ handler[u][r].ack = "wait" /\ About(w) = On(u, r)
             /\ w = WriteOf(u, r, handler[u][r])
             /\ w.op = IF handler[u][r].kind = "block" THEN "set" ELSE "delete"
  BY <1>4, <1>8, WaitAbout DEF Oldest
<1>9. ASSUME NEW v \in Users, NEW t \in Slots
      PROVE  \/ handler'[v][t] = handler[v][t]
             \/ /\ v = u /\ w.slot = t
                /\ handler[v][t] \in HandlerStates /\ handler[v][t].pc # "start"
                /\ handler[v][t].ack = "wait"
                /\ handler'[v][t] = [handler[v][t] EXCEPT !.ack = "ok"]
  BY AnswersKeep DEF Oldest
<1>10. w.slot = NoSlot => About(w) \in suspect
  BY <1>1, <1>4 DEF OrphansSuspect, Oldest
<1>11. ASSUME NEW v \in Users, NEW t \in Slots, <<v, t>> \in clean, w.slot = NoSlot
       PROVE  About(w) # On(v, t)
  BY <1>1, <1>4, <1>11 DEF Alone, Oldest
<1> HIDE DEF w
<1>12. ASSUME NEW v \in Users, NEW t \in Slots, <<v, t>> \in clean'
       PROVE  /\ FirstDone(handler'[v][t]) =>
                     /\ Done(blocked', FirstDoc(v, handler'[v][t].peer), handler'[v][t].kind)
                     /\ Done(cache'[v], handler'[v][t].peer, handler'[v][t].kind)
              /\ Succeeded(v, t)' =>
                     Done(blocked', SecondDoc(v, handler'[v][t].peer), handler'[v][t].kind)
  <2> DEFINE x == handler[v][t].peer
             k == handler[v][t].kind
  <2>1. <<v, t>> \in clean /\ Writing(v, t) /\ handler'[v][t].peer = x /\ handler'[v][t].kind = k
    BY <1>1, <1>2, <1>4, <1>12 DEF Keeps, Alone
  <2>2. x \in Users /\ k \in WriteKinds /\ handler[v][t] \in HandlerStates
    BY <2>1, HandlerType DEF HandlerStates
  <2>3. FirstDone(handler[v][t]) =>
            Done(blocked, <<v, x>>, k) /\ Done(cache[v], x, k)
    BY <1>1, <2>1 DEF Effective, FirstDoc
  <2>4. Succeeded(v, t) => Done(blocked, <<x, v>>, k)
    BY <1>1, <2>1 DEF Effective, SecondDoc
  <2>5. On(v, t) = Sides(v, x)
    BY DEF On
  <2> HIDE DEF x, k
  <2>6. CASE About(w) # On(v, t)
    <3>1. handler'[v][t] = handler[v][t]
      BY <1>8, <1>9, <2>6
    <3>2. w.doc # <<v, x>> /\ w.doc # <<x, v>>
      BY <1>7, <2>2, <2>5, <2>6, OtherDocs
    <3>3. /\ Done(blocked, <<v, x>>, k) => Done(blocked', <<v, x>>, k)
          /\ Done(blocked, <<x, v>>, k) => Done(blocked', <<x, v>>, k)
          /\ Done(cache[v], x, k) => Done(cache'[v], x, k)
      BY <1>5, <1>6, <2>2, <3>2 DEF Done
    <3>4. Succeeded(v, t)' => Succeeded(v, t)
      BY <3>1 DEF Succeeded
    <3>5. QED
      BY <2>1, <2>3, <2>4, <3>1, <3>3, <3>4 DEF FirstDoc, SecondDoc
  <2>7. CASE About(w) = On(v, t)
    <3>1. v = u /\ w.slot = t
      <4>1. w.slot # NoSlot
        BY <1>11, <2>1, <2>7
      <4>2. PICK r \in Slots : w.slot = r
        BY <1>7, <4>1
      <4>3. Writing(u, r) /\ On(u, r) = On(v, t)
        BY <1>8, <2>7, <4>2
      <4>4. u = v /\ r = t
        BY <1>1, <2>1, <4>3 DEF Alone
      <4>5. QED
        BY <4>2, <4>4
    <3>2. /\ handler[v][t].ack = "wait" /\ w = WriteOf(v, t, handler[v][t])
          /\ w.op = IF k = "block" THEN "set" ELSE "delete"
      BY <1>8, <3>1 DEF k
    <3>3. w.doc = IF handler[v][t].pc = "first" THEN <<v, x>> ELSE <<x, v>>
      BY <3>2 DEF WriteOf, WriteTo, FirstDoc, SecondDoc, x
    <3>4. /\ handler[v][t].pc \in {"first", "second"}
          /\ handler'[v][t].pc = handler[v][t].pc
      <4>1. CASE handler'[v][t] = handler[v][t]
        <5>1. Waits(v, t, handler[v][t], queue[u][1])
          BY <1>4, <3>1 DEF Owned, w, Oldest
        <5>2. QED
          BY <4>1, <5>1 DEF Waits
      <4>2. CASE handler[v][t].pc # "start" /\ handler'[v][t] = [handler[v][t] EXCEPT !.ack = "ok"]
        BY <2>2, <4>2 DEF HandlerStates
      <4>3. QED
        BY <1>9, <4>1, <4>2
    <3>5. Done(blocked', w.doc, k)
      BY <1>5, <3>2 DEF Done
    <3>6. Done(cache[v], x, k) => Done(cache'[v], x, k)
      BY <1>6, <2>2, <3>1, <3>2 DEF Done
    <3>7. CASE handler[v][t].pc = "first"
      <4>1. Done(blocked', <<v, x>>, k)
        BY <3>3, <3>5, <3>7
      <4>2. Done(cache'[v], x, k)
        BY <1>6, <2>2, <3>1, <3>2, <3>3, <3>7 DEF Done
      <4>3. ~Succeeded(v, t)'
        BY <3>4, <3>7 DEF Succeeded
      <4>4. QED
        BY <2>1, <4>1, <4>2, <4>3 DEF FirstDoc
    <3>8. CASE handler[v][t].pc = "second"
      <4>1. Done(blocked, <<v, x>>, k) /\ Done(cache[v], x, k)
        BY <2>3, <3>8 DEF FirstDone
      <4>2. Done(blocked', <<x, v>>, k)
        BY <3>3, <3>5, <3>8
      <4>3. Done(blocked', <<v, x>>, k)
        BY <1>5, <2>2, <3>5, <4>1 DEF Done
      <4>4. QED
        BY <2>1, <2>2, <3>6, <4>1, <4>2, <4>3 DEF FirstDoc, SecondDoc
    <3>9. QED
      BY <3>4, <3>7, <3>8
  <2>8. QED
    BY <2>6, <2>7
<1>13. Effective'
  BY <1>12 DEF Effective
<1>14. ASSUME NEW a \in Users, NEW b \in Users, a # b, Sides(a, b) \notin suspect',
              \A v \in Users : \A t \in Slots :
                  Writing(v, t)' /\ On(v, t)' = Sides(a, b) => ~FirstDone(handler'[v][t])
       PROVE  <<a, b>> \in blocked' <=> <<b, a>> \in blocked'
  <2>1. ASSUME NEW v \in Users, NEW t \in Slots, Writing(v, t), On(v, t) = Sides(a, b)
        PROVE  ~FirstDone(handler[v][t]) /\ ~FirstDone(handler'[v][t])
    <3>1. Writing(v, t)' /\ On(v, t)' = Sides(a, b)
      BY <1>2, <2>1, KeepsOn
    <3>2. ~FirstDone(handler'[v][t])
      BY <1>14, <3>1
    <3>3. FirstDone(handler[v][t]) => FirstDone(handler'[v][t])
      <4>1. CASE handler'[v][t] = handler[v][t]
        BY <4>1
      <4>2. CASE /\ handler[v][t] \in HandlerStates
                 /\ handler'[v][t] = [handler[v][t] EXCEPT !.ack = "ok"]
        BY <4>2 DEF FirstDone, HandlerStates
      <4>3. QED
        BY <1>9, <4>1, <4>2
    <3>4. QED
      BY <3>2, <3>3
  <2>2. Agree(a, b)
    BY <1>1, <1>4, <1>14, <2>1 DEF Agreeing
  <2>3. About(w) # Sides(a, b)
    <3>1. SUFFICES ASSUME About(w) = Sides(a, b) PROVE FALSE
      OBVIOUS
    <3>2. w.slot # NoSlot
      BY <1>4, <1>10, <1>14, <3>1
    <3>3. PICK r \in Slots : w.slot = r
      BY <1>7, <3>2
    <3>4. Writing(u, r) /\ On(u, r) = Sides(a, b) /\ handler[u][r].ack = "wait"
      BY <1>8, <3>1, <3>3
    <3>5. handler'[u][r] # handler[u][r]
      <4>1. Sets(u, r, [handler[u][r] EXCEPT !.ack = "ok"])
        BY <3>3 DEF Answers, w, Oldest
      <4>2. handler'[u][r].ack = "ok"
        <5>1. handler[u][r] \in HandlerStates
          BY <3>4, HandlerType
        <5>2. QED
          BY <4>1, <5>1 DEF Sets, HandlerStates
      <4>3. QED
        BY <3>4, <4>2
    <3>6. /\ handler[u][r] \in HandlerStates /\ handler[u][r].pc # "start"
          /\ handler'[u][r] = [handler[u][r] EXCEPT !.ack = "ok"]
      BY <1>9, <3>5
    <3>7. FirstDone(handler'[u][r])
      BY <3>6 DEF FirstDone, HandlerStates
    <3>8. QED
      BY <2>1, <3>4, <3>7
  <2>4. w.doc # <<a, b>> /\ w.doc # <<b, a>>
    BY <1>7, <2>3, OtherDocs
  <2>5. QED
    BY <1>5, <2>2, <2>4 DEF Agree
<1>15. Agreeing'
  BY <1>14 DEF Agreeing, Agree
<1>16. Standing'
  <2> SUFFICES ASSUME NEW kd \in WriteKinds, NEW a \in Users, NEW b \in Users,
                      <<a, b>> \in Promised(kd)'
               PROVE  Stands(kd, a, b)'
    BY DEF Standing
  <2>1. Stands(kd, a, b)
    BY <1>4, StandsAt DEF Promised
  <2>2. About(w) = Sides(a, b) => w.op = OpOf(kd)
    BY <1>4, <2>1 DEF Stands, w, Oldest
  <2>3. w.op = OpOf(kd) \/ (w.doc # <<a, b>> /\ w.doc # <<b, a>>)
    BY <1>7, <2>2, OtherDocs
  <2>4. Done(blocked', <<a, b>>, kd) /\ Done(blocked', <<b, a>>, kd)
    BY <1>5, <2>1, <2>3 DEF Stands, Done, OpOf, WriteKinds
  <2>5. Done(cache'[a], b, kd)
    BY <1>6, <2>1, <2>3 DEF Stands, Done, OpOf, WriteKinds
  <2>6. QED
    BY <1>2, <2>1, <2>4, <2>5, StandsKept
<1>17. QED
  BY <1>3, <1>13, <1>15, <1>16 DEF History

\* Who is on a pair, in the terms of the model.
LEMMA InActive ==
    ASSUME NEW a \in Users, NEW b \in Users, NEW v \in Users, NEW t \in Slots
    PROVE  <<v, t>> \in ActiveOn({a, b}) <=> Writing(v, t) /\ On(v, t) = Sides(a, b)
BY DEF ActiveOn, Handlers, On, Sides

LEMMA Meeting ==
    ASSUME TypeOK, Alone, NEW u \in Users, NEW s \in Slots, NEW x \in Users, Meet(u, s, x),
           ~Writing(u, s)
    PROVE  /\ \A v \in Users : \A t \in Slots : v # u \/ t # s =>
                  /\ <<v, t>> \in clean' => <<v, t>> \in clean /\ On(v, t) # Sides(u, x)
                  /\ <<v, t>> \in clean /\ On(v, t) # Sides(u, x) => <<v, t>> \in clean'
           /\ <<u, s>> \in clean' =>
                  /\ \A v \in Users : \A t \in Slots :
                         Writing(v, t) => On(v, t) # Sides(u, x)
                  /\ \A v \in Users : \A i \in DOMAIN queue[v] :
                         queue[v][i].slot = NoSlot => About(queue[v][i]) # Sides(u, x)
           /\ suspect \subseteq suspect'
           /\ Sides(u, x) \notin suspect' => <<u, s>> \in clean'
<1> DEFINE p == {u, x}
<1>1. p = Sides(u, x)
  BY DEF Sides
<1>2. ASSUME NEW v \in Users, NEW t \in Slots
      PROVE  /\ <<v, t>> \in ActiveOn(p) <=> Writing(v, t) /\ On(v, t) = Sides(u, x)
             /\ <<v, t>> \in clean => Writing(v, t)
  BY InActive DEF Alone
<1>3. <<u, s>> \notin clean
  BY <1>2
<1>4. CASE Quiet(p)
  <2>1. clean' = clean \cup {<<u, s>>} /\ suspect' = suspect
    BY <1>4 DEF Meet
  <2>2. ActiveOn(p) = {} /\ ~Leftover(p)
    BY <1>4 DEF Quiet
  <2>3. ASSUME NEW v \in Users, NEW t \in Slots, Writing(v, t) PROVE On(v, t) # Sides(u, x)
    BY <1>2, <2>2, <2>3
  <2>4. ASSUME NEW v \in Users, NEW i \in DOMAIN queue[v], queue[v][i].slot = NoSlot
        PROVE  About(queue[v][i]) # Sides(u, x)
    BY <1>1, <2>2, <2>4 DEF Leftover, About, Sides
  <2>5. QED
    BY <1>2, <2>1, <2>3, <2>4
<1>5. CASE ~Quiet(p)
  <2>1. clean' = clean \ ActiveOn(p) /\ suspect' = suspect \cup {Sides(u, x)}
    BY <1>1, <1>5 DEF Meet
  <2>2. QED
    BY <1>2, <1>3, <2>1
<1>6. QED
  BY <1>4, <1>5

LEMMA BeginsKept ==
    ASSUME TypeOK, Owned, History, Standing, NEW u \in Users, NEW s \in Slots,
           NEW x \in Users, Begins(u, s, x)
    PROVE  History' /\ Standing'
<1>1. OrphansSuspect /\ Alone /\ Trusted /\ Effective /\ Agreeing
  BY DEF History
<1>2. /\ UNCHANGED <<blocked, cache, queue>> /\ ~Writing(u, s) /\ Meet(u, s, x)
      /\ handler'[u][s].pc = "start" /\ handler'[u][s].peer = x
  BY DEF Begins
<1>3. ASSUME NEW v \in Users, NEW t \in Slots, v # u \/ t # s
      PROVE  /\ Writing(v, t)' <=> Writing(v, t)
             /\ Writing(v, t) => handler'[v][t] = handler[v][t] /\ On(v, t)' = On(v, t)
  <2>1. Same(v, t)
    BY <1>3, OthersSame DEF Begins
  <2>2. QED
    BY <2>1, SameOn
<1>4. Writing(u, s)' /\ On(u, s)' = Sides(u, x)
  BY <1>2 DEF Writing, Idle, On
<1>5. /\ \A v \in Users : \A t \in Slots : v # u \/ t # s =>
             /\ <<v, t>> \in clean' => <<v, t>> \in clean /\ On(v, t) # Sides(u, x)
             /\ <<v, t>> \in clean /\ On(v, t) # Sides(u, x) => <<v, t>> \in clean'
      /\ <<u, s>> \in clean' =>
             /\ \A v \in Users : \A t \in Slots : Writing(v, t) => On(v, t) # Sides(u, x)
             /\ \A v \in Users : \A i \in DOMAIN queue[v] :
                    queue[v][i].slot = NoSlot => About(queue[v][i]) # Sides(u, x)
      /\ suspect \subseteq suspect'
      /\ Sides(u, x) \notin suspect' => <<u, s>> \in clean'
  BY <1>1, <1>2, Meeting
<1>6. OrphansSuspect'
  BY <1>1, <1>2, <1>5 DEF OrphansSuspect
<1>7. ASSUME NEW v \in Users, NEW t \in Slots, <<v, t>> \in clean'
      PROVE  /\ Writing(v, t)'
             /\ \A r \in Users : \A k \in Slots :
                    Writing(r, k)' /\ On(r, k)' = On(v, t)' => r = v /\ k = t
             /\ \A r \in Users : \A i \in DOMAIN queue'[r] :
                    queue'[r][i].slot = NoSlot => About(queue'[r][i]) # On(v, t)'
  <2>1. CASE v = u /\ t = s
    <3>1. ASSUME NEW r \in Users, NEW k \in Slots, Writing(r, k)', On(r, k)' = Sides(u, x)
          PROVE  r = u /\ k = s
      BY <1>3, <1>5, <1>7, <2>1, <3>1
    <3>2. QED
      BY <1>2, <1>4, <1>5, <1>7, <2>1, <3>1
  <2>2. CASE v # u \/ t # s
    <3>1. <<v, t>> \in clean /\ On(v, t) # Sides(u, x)
      BY <1>5, <1>7, <2>2
    <3>2. /\ Writing(v, t)
          /\ \A r \in Users : \A k \in Slots :
                 Writing(r, k) /\ On(r, k) = On(v, t) => r = v /\ k = t
          /\ \A r \in Users : \A i \in DOMAIN queue[r] :
                 queue[r][i].slot = NoSlot => About(queue[r][i]) # On(v, t)
      BY <1>1, <3>1 DEF Alone
    <3>3. Writing(v, t)' /\ On(v, t)' = On(v, t)
      BY <1>3, <2>2, <3>2
    <3>4. ASSUME NEW r \in Users, NEW k \in Slots, Writing(r, k)', On(r, k)' = On(v, t)'
          PROVE  r = v /\ k = t
      <4>1. CASE r = u /\ k = s
        BY <1>4, <3>1, <3>3, <3>4, <4>1
      <4>2. CASE r # u \/ k # s
        BY <1>3, <3>2, <3>3, <3>4, <4>2
      <4>3. QED
        BY <4>1, <4>2
    <3>5. QED
      BY <1>2, <3>2, <3>3, <3>4
  <2>3. QED
    BY <2>1, <2>2
<1>8. Alone'
  BY <1>7 DEF Alone
<1>9. ASSUME NEW v \in Users, NEW t \in Slots, Writing(v, t)', On(v, t)' \notin suspect'
      PROVE  <<v, t>> \in clean'
  <2>1. CASE v = u /\ t = s
    BY <1>4, <1>5, <1>9, <2>1
  <2>2. CASE v # u \/ t # s
    <3>1. Writing(v, t) /\ On(v, t)' = On(v, t)
      BY <1>3, <1>9, <2>2
    <3>2. <<v, t>> \in clean
      BY <1>1, <1>5, <1>9, <3>1 DEF Trusted
    <3>3. CASE On(v, t) = Sides(u, x)
      BY <1>5, <1>9, <3>1, <3>3
    <3>4. QED
      BY <1>5, <2>2, <3>2, <3>3
  <2>3. QED
    BY <2>1, <2>2
<1>10. Trusted'
  BY <1>9 DEF Trusted
<1>11. ASSUME NEW v \in Users, NEW t \in Slots, <<v, t>> \in clean'
       PROVE  /\ FirstDone(handler'[v][t]) =>
                     /\ Done(blocked', FirstDoc(v, handler'[v][t].peer), handler'[v][t].kind)
                     /\ Done(cache'[v], handler'[v][t].peer, handler'[v][t].kind)
              /\ Succeeded(v, t)' =>
                     Done(blocked', SecondDoc(v, handler'[v][t].peer), handler'[v][t].kind)
  <2>1. CASE v = u /\ t = s
    BY <1>2, <2>1 DEF FirstDone, Succeeded
  <2>2. CASE v # u \/ t # s
    <3>1. <<v, t>> \in clean /\ Writing(v, t)
      BY <1>1, <1>5, <1>11, <2>2 DEF Alone
    <3>2. handler'[v][t] = handler[v][t]
      BY <1>3, <2>2, <3>1
    <3>3. Succeeded(v, t)' <=> Succeeded(v, t)
      BY <3>2 DEF Succeeded
    <3>4. QED
      BY <1>1, <1>2, <3>1, <3>2, <3>3 DEF Effective
  <2>3. QED
    BY <2>1, <2>2
<1>12. Effective'
  BY <1>11 DEF Effective
<1>13. ASSUME NEW a \in Users, NEW b \in Users, a # b, Sides(a, b) \notin suspect',
              \A v \in Users : \A t \in Slots :
                  Writing(v, t)' /\ On(v, t)' = Sides(a, b) => ~FirstDone(handler'[v][t])
       PROVE  <<a, b>> \in blocked' <=> <<b, a>> \in blocked'
  <2>1. ASSUME NEW v \in Users, NEW t \in Slots, Writing(v, t), On(v, t) = Sides(a, b)
        PROVE  ~FirstDone(handler[v][t])
    <3>1. v # u \/ t # s
      BY <1>2, <2>1
    <3>2. Writing(v, t)' /\ On(v, t)' = Sides(a, b) /\ handler'[v][t] = handler[v][t]
      BY <1>3, <2>1, <3>1
    <3>3. ~FirstDone(handler'[v][t])
      BY <1>13, <3>2
    <3>4. QED
      BY <3>2, <3>3
  <2>2. Agree(a, b)
    BY <1>1, <1>5, <1>13, <2>1 DEF Agreeing
  <2>3. QED
    BY <1>2, <2>2 DEF Agree
<1>14. Agreeing'
  BY <1>13 DEF Agreeing, Agree
<1>15. Standing'
  <2> SUFFICES ASSUME NEW kd \in WriteKinds, NEW a \in Users, NEW b \in Users,
                      <<a, b>> \in Promised(kd)'
               PROVE  Stands(kd, a, b)'
    BY DEF Standing
  <2>1. /\ Promised(kd)' \subseteq Promised(kd)
        /\ handler'[u][s].kind = kd \/ Promised(kd)' \cap {<<u, x>>, <<x, u>>} = {}
    BY DEF Begins
  <2>2. Stands(kd, a, b)
    BY <2>1, StandsAt
  <2>3. ASSUME NEW v \in Users, NEW t \in Slots, Writing(v, t)', On(v, t)' = Sides(a, b)
        PROVE  handler'[v][t].kind = kd
    <3>1. CASE v = u /\ t = s
      <4>1. Sides(u, x) = Sides(a, b)
        BY <1>4, <2>3, <3>1
      <4>2. <<a, b>> \in {<<u, x>>, <<x, u>>}
        BY <4>1 DEF Sides
      <4>3. QED
        BY <2>1, <3>1, <4>2
    <3>2. CASE v # u \/ t # s
      <4>1. Writing(v, t) /\ On(v, t) = Sides(a, b) /\ handler'[v][t] = handler[v][t]
        BY <1>3, <2>3, <3>2
      <4>2. QED
        BY <2>2, <4>1 DEF Stands
    <3>3. QED
      BY <3>1, <3>2
  <2>4. QED
    BY <1>2, <2>2, <2>3 DEF Stands
<1>16. QED
  BY <1>6, <1>8, <1>10, <1>12, <1>14, <1>15 DEF History

LEMMA DiesKept ==
    ASSUME TypeOK, Owned, History, Standing, NEW u \in Users, Dies(u)
    PROVE  History' /\ Standing'
<1>1. OrphansSuspect /\ Alone /\ Trusted /\ Effective /\ Agreeing
  BY DEF History
<1>2. /\ UNCHANGED <<blocked, cache, shield, free>>
      /\ suspect \subseteq suspect' /\ clean' = clean \ ({u} \X Slots)
      /\ \A t \in Slots : Writing(u, t) => On(u, t) \in suspect'
  BY DEF Dies
<1>3. ASSUME NEW v \in Users, v # u, NEW t \in Slots
      PROVE  /\ Writing(v, t)' <=> Writing(v, t)
             /\ Writing(v, t) => handler'[v][t] = handler[v][t] /\ On(v, t)' = On(v, t)
  <2>1. Same(v, t)
    BY <1>3 DEF Dies
  <2>2. QED
    BY <2>1, SameOn
<1>4. ASSUME NEW t \in Slots PROVE ~Writing(u, t)' /\ <<u, t>> \notin clean'
  BY <1>2 DEF Dies, Idle, Writing
\* What a write of this phone is about, and was about.
<1>5. ASSUME NEW v \in Users, NEW i \in DOMAIN queue'[v]
      PROVE  /\ i \in DOMAIN queue[v] /\ About(queue'[v][i]) = About(queue[v][i])
             /\ queue'[v][i].op = queue[v][i].op
             /\ v # u => queue'[v][i].slot = queue[v][i].slot
  <2>1. CASE v = u
    <3>1. i \in DOMAIN queue[u] /\ queue'[u][i] = [queue[u][i] EXCEPT !.slot = NoSlot]
      BY <2>1 DEF Dies
    <3>2. queue'[u][i].doc = queue[u][i].doc /\ queue'[u][i].op = queue[u][i].op
      BY <3>1, QueueType DEF Mutations
    <3>3. QED
      BY <2>1, <3>1, <3>2 DEF About
  <2>2. CASE v # u
    BY <2>2 DEF Dies
  <2>3. QED
    BY <2>1, <2>2
<1>6. ASSUME NEW i \in DOMAIN queue[u]
      PROVE  \/ queue[u][i].slot = NoSlot
             \/ \E r \in Slots : Writing(u, r) /\ On(u, r) = About(queue[u][i])
  BY QueueType, WaitAbout
<1>7. ASSUME NEW v \in Users, NEW i \in DOMAIN queue'[v], queue'[v][i].slot = NoSlot
      PROVE  About(queue'[v][i]) \in suspect'
  <2>1. CASE queue[v][i].slot = NoSlot
    BY <1>1, <1>2, <1>5, <2>1 DEF OrphansSuspect
  <2>2. CASE v = u
    BY <1>2, <1>5, <1>6, <2>1, <2>2
  <2>3. QED
    BY <1>5, <1>7, <2>1, <2>2
<1>8. OrphansSuspect'
  BY <1>7 DEF OrphansSuspect
<1>9. ASSUME NEW v \in Users, NEW t \in Slots, <<v, t>> \in clean'
      PROVE  /\ Writing(v, t)'
             /\ \A r \in Users : \A k \in Slots :
                    Writing(r, k)' /\ On(r, k)' = On(v, t)' => r = v /\ k = t
             /\ \A r \in Users : \A i \in DOMAIN queue'[r] :
                    queue'[r][i].slot = NoSlot => About(queue'[r][i]) # On(v, t)'
  <2>1. <<v, t>> \in clean /\ v # u
    BY <1>2, <1>4, <1>9
  <2>2. /\ Writing(v, t)
        /\ \A r \in Users : \A k \in Slots :
               Writing(r, k) /\ On(r, k) = On(v, t) => r = v /\ k = t
        /\ \A r \in Users : \A i \in DOMAIN queue[r] :
               queue[r][i].slot = NoSlot => About(queue[r][i]) # On(v, t)
    BY <1>1, <2>1 DEF Alone
  <2>3. Writing(v, t)' /\ On(v, t)' = On(v, t)
    BY <1>3, <2>1, <2>2
  <2>4. ASSUME NEW r \in Users, NEW k \in Slots, Writing(r, k)', On(r, k)' = On(v, t)'
        PROVE  r = v /\ k = t
    BY <1>3, <1>4, <2>2, <2>3, <2>4
  <2>5. ASSUME NEW r \in Users, NEW i \in DOMAIN queue'[r], queue'[r][i].slot = NoSlot
        PROVE  About(queue'[r][i]) # On(v, t)'
    <3>1. i \in DOMAIN queue[r] /\ About(queue'[r][i]) = About(queue[r][i])
      BY <1>5
    <3>2. CASE queue[r][i].slot = NoSlot
      BY <2>2, <2>3, <3>1, <3>2
    <3>3. CASE r = u /\ queue[r][i].slot # NoSlot
      <4>1. PICK k \in Slots : Writing(u, k) /\ On(u, k) = About(queue[u][i])
        BY <1>6, <3>1, <3>3
      <4>2. QED
        BY <2>1, <2>2, <2>3, <3>1, <3>3, <4>1
    <3>4. QED
      BY <1>5, <2>5, <3>2, <3>3
  <2>6. QED
    BY <2>3, <2>4, <2>5
<1>10. Alone'
  BY <1>9 DEF Alone
<1>11. ASSUME NEW v \in Users, NEW t \in Slots, Writing(v, t)', On(v, t)' \notin suspect'
       PROVE  <<v, t>> \in clean'
  <2>1. v # u
    BY <1>4, <1>11
  <2>2. Writing(v, t) /\ On(v, t) \notin suspect
    BY <1>2, <1>3, <1>11, <2>1
  <2>3. QED
    BY <1>1, <1>2, <2>1, <2>2 DEF Trusted
<1>12. Trusted'
  BY <1>11 DEF Trusted
<1>13. ASSUME NEW v \in Users, NEW t \in Slots, <<v, t>> \in clean'
       PROVE  /\ FirstDone(handler'[v][t]) =>
                     /\ Done(blocked', FirstDoc(v, handler'[v][t].peer), handler'[v][t].kind)
                     /\ Done(cache'[v], handler'[v][t].peer, handler'[v][t].kind)
              /\ Succeeded(v, t)' =>
                     Done(blocked', SecondDoc(v, handler'[v][t].peer), handler'[v][t].kind)
  <2>1. <<v, t>> \in clean /\ v # u /\ Writing(v, t)
    BY <1>1, <1>2, <1>4, <1>13 DEF Alone
  <2>2. handler'[v][t] = handler[v][t]
    BY <1>3, <2>1
  <2>3. Succeeded(v, t)' <=> Succeeded(v, t)
    BY <2>2 DEF Succeeded
  <2>4. QED
    BY <1>1, <1>2, <2>1, <2>2, <2>3 DEF Effective
<1>14. Effective'
  BY <1>13 DEF Effective
<1>15. ASSUME NEW a \in Users, NEW b \in Users, a # b, Sides(a, b) \notin suspect',
              \A v \in Users : \A t \in Slots :
                  Writing(v, t)' /\ On(v, t)' = Sides(a, b) => ~FirstDone(handler'[v][t])
       PROVE  <<a, b>> \in blocked' <=> <<b, a>> \in blocked'
  <2>1. ASSUME NEW v \in Users, NEW t \in Slots, Writing(v, t), On(v, t) = Sides(a, b)
        PROVE  ~FirstDone(handler[v][t])
    <3>1. v # u
      BY <1>2, <1>15, <2>1
    <3>2. Writing(v, t)' /\ On(v, t)' = Sides(a, b) /\ handler'[v][t] = handler[v][t]
      BY <1>3, <2>1, <3>1
    <3>3. ~FirstDone(handler'[v][t])
      BY <1>15, <3>2
    <3>4. QED
      BY <3>2, <3>3
  <2>2. Agree(a, b)
    BY <1>1, <1>2, <1>15, <2>1 DEF Agreeing
  <2>3. QED
    BY <1>2, <2>2 DEF Agree
<1>16. Agreeing'
  BY <1>15 DEF Agreeing, Agree
<1>17. Standing'
  <2> SUFFICES ASSUME NEW kd \in WriteKinds, NEW a \in Users, NEW b \in Users,
                      <<a, b>> \in Promised(kd)'
               PROVE  Stands(kd, a, b)'
    BY DEF Standing
  <2>1. Stands(kd, a, b)
    BY <1>2, StandsAt DEF Promised
  <2>2. ASSUME NEW v \in Users, NEW i \in DOMAIN queue'[v], About(queue'[v][i]) = Sides(a, b)
        PROVE  queue'[v][i].op = OpOf(kd)
    BY <1>5, <2>1, <2>2 DEF Stands
  <2>3. ASSUME NEW v \in Users, NEW t \in Slots, Writing(v, t)', On(v, t)' = Sides(a, b)
        PROVE  handler'[v][t].kind = kd
    BY <1>3, <1>4, <2>1, <2>3 DEF Stands
  <2>4. QED
    BY <1>2, <2>1, <2>2, <2>3 DEF Stands
<1>18. QED
  BY <1>8, <1>10, <1>12, <1>14, <1>16, <1>17 DEF History

LEMMA EndsKept ==
    ASSUME TypeOK, Owned, History, Standing, NEW u \in Users, NEW s \in Slots, Ends(u, s)
    PROVE  History' /\ Standing'
<1> DEFINE x == handler[u][s].peer
           k == handler[u][s].kind
           won == Succeeded(u, s) /\ <<u, s>> \in clean
<1>1. OrphansSuspect /\ Alone /\ Trusted /\ Effective /\ Agreeing
  BY DEF History
<1>2. /\ UNCHANGED <<blocked, cache, queue>>
      /\ Writing(u, s) /\ (Succeeded(u, s) \/ Failed(u, s)) /\ ~Writing(u, s)'
  BY DEF Ends, Sets, Writing
<1>3. ASSUME NEW v \in Users, NEW t \in Slots, v # u \/ t # s
      PROVE  /\ Writing(v, t)' <=> Writing(v, t)
             /\ Writing(v, t) => handler'[v][t] = handler[v][t] /\ On(v, t)' = On(v, t)
  <2>1. Same(v, t)
    BY <1>3, OthersSame DEF Ends
  <2>2. QED
    BY <2>1, SameOn
<1>4. x \in Users /\ k \in WriteKinds /\ On(u, s) = Sides(u, x)
  <2>1. handler[u][s] \in HandlerStates
    BY <1>2, HandlerType
  <2>2. QED
    BY <2>1 DEF HandlerStates, On
<1>5. /\ clean' = clean \ {<<u, s>>}
      /\ won => suspect' = suspect \ {On(u, s)}
      /\ ~won => suspect \subseteq suspect'
      /\ ~Succeeded(u, s) /\ handler[u][s].pc = "second" => On(u, s) \in suspect'
  BY DEF Ends, Judge, On, Sides
<1>6. won => /\ Done(blocked, <<u, x>>, k) /\ Done(blocked, <<x, u>>, k)
             /\ Done(cache[u], x, k)
  <2>1. Succeeded(u, s) => FirstDone(handler[u][s])
    BY DEF Succeeded, FirstDone
  <2>2. QED
    BY <1>1, <2>1 DEF Effective, FirstDoc, SecondDoc
<1>7. won => /\ \A v \in Users : \A t \in Slots :
                    Writing(v, t) /\ On(v, t) = On(u, s) => v = u /\ t = s
             /\ \A v \in Users : \A i \in DOMAIN queue[v] : About(queue[v][i]) # On(u, s)
  <2>1. won => /\ \A v \in Users : \A t \in Slots :
                      Writing(v, t) /\ On(v, t) = On(u, s) => v = u /\ t = s
               /\ \A v \in Users : \A i \in DOMAIN queue[v] :
                      queue[v][i].slot = NoSlot => About(queue[v][i]) # On(u, s)
    BY <1>1 DEF Alone
  <2>2. ASSUME won, NEW v \in Users, NEW i \in DOMAIN queue[v], NEW r \in Slots,
               queue[v][i].slot = r
        PROVE  About(queue[v][i]) # On(u, s)
    <3>1. Writing(v, r) /\ handler[v][r].ack = "wait" /\ About(queue[v][i]) = On(v, r)
      BY <2>2, <1>1, WaitAbout
    <3>2. handler[u][s].ack = "ok"
      BY <2>2 DEF Succeeded
    <3>3. QED
      BY <2>1, <2>2, <3>1, <3>2
  <2>3. ASSUME NEW v \in Users, NEW i \in DOMAIN queue[v]
        PROVE  queue[v][i].slot = NoSlot \/ \E r \in Slots : queue[v][i].slot = r
    BY QueueType
  <2>4. QED
    BY <2>1, <2>2, <2>3
<1>8. Succeeded(u, s) /\ <<u, s>> \notin clean => On(u, s) \in suspect
  BY <1>1, <1>2 DEF Trusted
<1>w. won <=> Succeeded(u, s) /\ <<u, s>> \in clean
  OBVIOUS
<1>x. x = handler[u][s].peer /\ k = handler[u][s].kind
  OBVIOUS
<1> HIDE DEF x, k, won
<1>9. ASSUME NEW v \in Users, NEW i \in DOMAIN queue'[v], queue'[v][i].slot = NoSlot
      PROVE  About(queue'[v][i]) \in suspect'
  BY <1>1, <1>2, <1>5, <1>7, <1>9 DEF OrphansSuspect
<1>10. OrphansSuspect'
  BY <1>9 DEF OrphansSuspect
<1>11. ASSUME NEW v \in Users, NEW t \in Slots, <<v, t>> \in clean'
       PROVE  /\ v # u \/ t # s
              /\ <<v, t>> \in clean /\ Writing(v, t) /\ Writing(v, t)'
              /\ handler'[v][t] = handler[v][t] /\ On(v, t)' = On(v, t)
  <2>1. (v # u \/ t # s) /\ <<v, t>> \in clean
    BY <1>5, <1>11
  <2>2. Writing(v, t)
    BY <1>1, <2>1 DEF Alone
  <2>3. QED
    BY <1>3, <2>1, <2>2
<1>12. ASSUME NEW v \in Users, NEW t \in Slots, <<v, t>> \in clean'
       PROVE  /\ Writing(v, t)'
              /\ \A r \in Users : \A j \in Slots :
                     Writing(r, j)' /\ On(r, j)' = On(v, t)' => r = v /\ j = t
              /\ \A r \in Users : \A i \in DOMAIN queue'[r] :
                     queue'[r][i].slot = NoSlot => About(queue'[r][i]) # On(v, t)'
  <2>1. <<v, t>> \in clean /\ Writing(v, t)' /\ On(v, t)' = On(v, t)
    BY <1>11, <1>12
  <2>2. /\ \A r \in Users : \A j \in Slots :
               Writing(r, j) /\ On(r, j) = On(v, t) => r = v /\ j = t
        /\ \A r \in Users : \A i \in DOMAIN queue[r] :
               queue[r][i].slot = NoSlot => About(queue[r][i]) # On(v, t)
    BY <1>1, <2>1 DEF Alone
  <2>3. ASSUME NEW r \in Users, NEW j \in Slots, Writing(r, j)', On(r, j)' = On(v, t)'
        PROVE  r = v /\ j = t
    <3>1. r # u \/ j # s
      BY <1>2, <2>3
    <3>2. Writing(r, j) /\ On(r, j) = On(v, t)
      BY <1>3, <2>1, <2>3, <3>1
    <3>3. QED
      BY <2>2, <3>2
  <2>4. QED
    BY <1>2, <2>1, <2>2, <2>3
<1>13. Alone'
  BY <1>12 DEF Alone
<1>14. ASSUME NEW v \in Users, NEW t \in Slots, Writing(v, t)', On(v, t)' \notin suspect'
       PROVE  <<v, t>> \in clean'
  <2>1. v # u \/ t # s
    BY <1>2, <1>14
  <2>2. Writing(v, t) /\ On(v, t) \notin suspect' /\ <<v, t>> # <<u, s>>
    BY <1>3, <1>14, <2>1
  <2>3. On(v, t) \notin suspect
    BY <1>5, <1>7, <2>1, <2>2
  <2>4. QED
    BY <1>1, <1>5, <2>2, <2>3 DEF Trusted
<1>15. Trusted'
  BY <1>14 DEF Trusted
<1>16. ASSUME NEW v \in Users, NEW t \in Slots, <<v, t>> \in clean'
       PROVE  /\ FirstDone(handler'[v][t]) =>
                     /\ Done(blocked', FirstDoc(v, handler'[v][t].peer), handler'[v][t].kind)
                     /\ Done(cache'[v], handler'[v][t].peer, handler'[v][t].kind)
              /\ Succeeded(v, t)' =>
                     Done(blocked', SecondDoc(v, handler'[v][t].peer), handler'[v][t].kind)
  <2>1. <<v, t>> \in clean /\ handler'[v][t] = handler[v][t]
    BY <1>11, <1>16
  <2>2. Succeeded(v, t)' <=> Succeeded(v, t)
    BY <2>1 DEF Succeeded
  <2>3. QED
    BY <1>1, <1>2, <2>1, <2>2 DEF Effective
<1>17. Effective'
  BY <1>16 DEF Effective
<1>18. ASSUME NEW a \in Users, NEW b \in Users, a # b, Sides(a, b) \notin suspect',
              \A v \in Users : \A t \in Slots :
                  Writing(v, t)' /\ On(v, t)' = Sides(a, b) => ~FirstDone(handler'[v][t])
       PROVE  <<a, b>> \in blocked' <=> <<b, a>> \in blocked'
  <2>1. ASSUME NEW v \in Users, NEW t \in Slots, v # u \/ t # s,
               Writing(v, t), On(v, t) = Sides(a, b)
        PROVE  ~FirstDone(handler[v][t])
    <3>1. Writing(v, t)' /\ On(v, t)' = Sides(a, b) /\ handler'[v][t] = handler[v][t]
      BY <1>3, <2>1
    <3>2. ~FirstDone(handler'[v][t])
      BY <1>18, <3>1
    <3>3. QED
      BY <3>1, <3>2
  <2>2. CASE won /\ On(u, s) = Sides(a, b)
    <3>1. Sides(u, x) = Sides(a, b)
      BY <1>4, <2>2
    <3>2. (u = a /\ x = b) \/ (u = b /\ x = a)
      BY <1>18, <3>1 DEF Sides
    <3>3. Done(blocked, <<u, x>>, k) /\ Done(blocked, <<x, u>>, k)
      BY <1>6, <2>2
    <3>4. QED
      BY <1>2, <3>2, <3>3 DEF Done
  <2>3. CASE ~(won /\ On(u, s) = Sides(a, b))
    <3>1. Sides(a, b) \notin suspect
      BY <1>5, <1>18, <2>3
    <3>2. On(u, s) = Sides(a, b) => ~FirstDone(handler[u][s])
      <4>1. SUFFICES ASSUME On(u, s) = Sides(a, b) PROVE ~FirstDone(handler[u][s])
        OBVIOUS
      <4>2. ~Succeeded(u, s)
        BY <1>8, <1>w, <2>3, <3>1, <4>1
      <4>3. handler[u][s].pc # "second" /\ handler[u][s].ack = "err"
        BY <1>2, <1>5, <1>18, <4>1, <4>2 DEF Failed
      <4>4. QED
        BY <4>3 DEF FirstDone
    <3>3. Agree(a, b)
      BY <1>1, <1>18, <2>1, <3>1, <3>2 DEF Agreeing
    <3>4. QED
      BY <1>2, <3>3 DEF Agree
  <2>4. QED
    BY <2>2, <2>3
<1>19. Agreeing'
  BY <1>18 DEF Agreeing, Agree
<1>20. Standing'
  <2> SUFFICES ASSUME NEW kd \in WriteKinds, NEW a \in Users, NEW b \in Users,
                      <<a, b>> \in Promised(kd)'
               PROVE  Stands(kd, a, b)'
    BY DEF Standing
  <2>1. CASE <<a, b>> \in Promised(kd)
    <3>1. Stands(kd, a, b)
      BY <2>1, StandsAt
    <3>2. ASSUME NEW v \in Users, NEW t \in Slots, Writing(v, t)', On(v, t)' = Sides(a, b)
          PROVE  handler'[v][t].kind = kd
      <4>1. v # u \/ t # s
        BY <1>2, <3>2
      <4>2. Writing(v, t) /\ On(v, t) = Sides(a, b) /\ handler'[v][t] = handler[v][t]
        BY <1>3, <3>2, <4>1
      <4>3. QED
        BY <3>1, <4>2 DEF Stands
    <3>3. QED
      BY <1>2, <3>1, <3>2 DEF Stands
  <2>2. CASE <<a, b>> \notin Promised(kd)
    <3>1. a = u /\ b = x /\ k = kd /\ won
      BY <1>w, <1>x, <2>2 DEF Ends
    <3>2. Sides(a, b) = On(u, s)
      BY <1>4, <3>1
    <3>3. Done(blocked, <<a, b>>, kd) /\ Done(blocked, <<b, a>>, kd) /\ Done(cache[a], b, kd)
      BY <1>6, <3>1
    <3>4. ASSUME NEW v \in Users, NEW t \in Slots, Writing(v, t)', On(v, t)' = Sides(a, b)
          PROVE  FALSE
      <4>1. v # u \/ t # s
        BY <1>2, <3>4
      <4>2. Writing(v, t) /\ On(v, t) = On(u, s)
        BY <1>3, <3>2, <3>4, <4>1
      <4>3. QED
        BY <1>7, <3>1, <4>1, <4>2
    <3>5. QED
      BY <1>2, <1>7, <3>1, <3>2, <3>3, <3>4 DEF Stands
  <2>3. QED
    BY <2>1, <2>2
<1>21. QED
  BY <1>10, <1>13, <1>15, <1>17, <1>19, <1>20 DEF History

-----------------------------------------------------------------------------
(***************************************************************************)
(* Types.                                                                  *)
(***************************************************************************)
Pages == Lists \cup {Closed}

LEMMA TypeNow ==
    ASSUME TypeOK
    PROVE  /\ handler \in [Users -> [Slots -> AnyState]]
           /\ queue \in [Users -> Seq(Mutations)] /\ blocked \subseteq Users \X Users
           /\ gone \subseteq Users /\ cache \in [Users -> SUBSET Users]
           /\ loading \subseteq Users /\ page \in [Users -> Pages]
           /\ chats \in [Users -> Lists] /\ suspect \subseteq SUBSET Users
           /\ clean \subseteq Handlers /\ shield \subseteq Users \X Users
           /\ free \subseteq Users \X Users
BY DEF TypeOK, AnyState, Pages

LEMMA TypeOf ==
    ASSUME TypeOK, UNCHANGED plan, handler' \in [Users -> [Slots -> AnyState]],
           queue' \in [Users -> Seq(Mutations)], blocked' \subseteq Users \X Users,
           gone' \subseteq Users, cache' \in [Users -> SUBSET Users],
           loading' \subseteq Users, page' \in [Users -> Pages],
           chats' \in [Users -> Lists], suspect' \subseteq SUBSET Users,
           clean' \subseteq Handlers, shield' \subseteq Users \X Users,
           free' \subseteq Users \X Users
    PROVE  TypeOK'
BY DEF TypeOK, AnyState, Pages

LEMMA ListTypes ==
    /\ \A pc \in {"ids", "docs", "shown", "failed"} : \A S \in SUBSET Users :
           [pc |-> pc, list |-> S] \in Lists
    /\ Opening \in Lists /\ Closed \in Pages /\ Lists \subseteq Pages
    /\ Opening.pc = "ids" /\ Closed.pc = "closed"
BY DEF Lists, Opening, Closed, Pages

LEMMA ChatType ==
    ASSUME TypeOK, NEW u \in Users, NEW c \in Lists, chats' = [chats EXCEPT ![u] = c]
    PROVE  /\ chats' \in [Users -> Lists] /\ chats'[u] = c
           /\ \A v \in Users \ {u} : chats'[v] = chats[v]
BY TypeNow

LEMMA PageType ==
    ASSUME TypeOK, NEW u \in Users, NEW g \in Pages, page' = [page EXCEPT ![u] = g]
    PROVE  /\ page' \in [Users -> Pages] /\ page'[u] = g
           /\ \A v \in Users \ {u} : page'[v] = page[v]
BY TypeNow

LEMMA OpenBaseType ==
    ASSUME TypeOK, NEW u \in Users, OpenBase(u)
    PROVE  /\ page' \in [Users -> Pages] /\ page'[u] = Closed
           /\ \A v \in Users \ {u} : page'[v] = page[v]
           /\ chats' \in [Users -> Lists] /\ chats'[u] = Opening
           /\ \A v \in Users \ {u} : chats'[v] = chats[v]
<1>1. page' = [page EXCEPT ![u] = Closed] /\ chats' = [chats EXCEPT ![u] = Opening]
  BY DEF OpenBase
<1>2. QED
  BY <1>1, ListTypes, PageType, ChatType

LEMMA MeetType ==
    ASSUME TypeOK, NEW u \in Users, NEW s \in Slots, NEW x \in Users, Meet(u, s, x)
    PROVE  suspect' \subseteq SUBSET Users /\ clean' \subseteq Handlers
<1>1. clean' \subseteq clean \cup {<<u, s>>} /\ suspect' \subseteq suspect \cup {{u, x}}
  BY DEF Meet
<1>2. <<u, s>> \in Handlers /\ {u, x} \in SUBSET Users
  BY DEF Handlers
<1>3. suspect \subseteq SUBSET Users /\ clean \subseteq Handlers
  BY TypeNow
<1>4. QED
  BY <1>1, <1>2, <1>3

LEMMA JudgeType ==
    ASSUME TypeOK, NEW u \in Users, NEW s \in Slots, Writing(u, s), Judge(u, s)
    PROVE  suspect' \subseteq SUBSET Users /\ clean' \subseteq Handlers
<1>1. handler[u][s].peer \in Users
  <2>1. handler[u][s] \in HandlerStates
    BY HandlerType
  <2>2. QED
    BY <2>1 DEF HandlerStates
<1>2. clean' \subseteq clean /\ suspect' \subseteq suspect \cup {{u, handler[u][s].peer}}
  BY DEF Judge
<1>3. {u, handler[u][s].peer} \in SUBSET Users
  BY <1>1
<1>4. suspect \subseteq SUBSET Users /\ clean \subseteq Handlers
  BY TypeNow
<1>5. QED
  BY <1>2, <1>3, <1>4

LEMMA SnapshotType ==
    ASSUME TypeOK, NEW u \in Users, NEW S, FirstSnapshot(u, S)
    PROVE  /\ S \in SUBSET Users /\ cache' \in [Users -> SUBSET Users]
           /\ \A v \in Users : cache'[v] = cache[v] \/ cache'[v] = Stored(v)
<1>1. Stored(u) \in SUBSET Users /\ \A T : Seen(u, T) \in SUBSET Users
  BY DEF Stored, Seen
<1>2. S \in SUBSET Users
  BY <1>1 DEF FirstSnapshot
<1>3. cache' = cache \/ cache' = [cache EXCEPT ![u] = Stored(u)]
  BY DEF FirstSnapshot
<1>4. cache \in [Users -> SUBSET Users]
  BY TypeNow
<1>5. cache' \in [Users -> SUBSET Users]
  BY <1>1, <1>3, <1>4
<1>6. \A v \in Users : cache'[v] = cache[v] \/ cache'[v] = Stored(v)
  BY <1>3, <1>4
<1>7. QED
  BY <1>2, <1>5, <1>6

LEMMA AnswersType ==
    ASSUME TypeOK, NEW u \in Users, NEW a \in {"ok", "err"}, Answers(u, a)
    PROVE  /\ handler' \in [Users -> [Slots -> AnyState]]
           /\ queue' \in [Users -> Seq(Mutations)]
           /\ \A v \in Users \ {u} : \A t \in Slots : handler'[v][t] = handler[v][t]
<1>1. queue[u][1].slot \in Slots \cup {NoSlot}
  BY QueueType DEF Answers, Serves
<1>2. CASE queue[u][1].slot = NoSlot
  BY <1>2, TypeNow DEF Answers, Serves
<1>3. ASSUME NEW t \in Slots, queue[u][1].slot = t
      PROVE  /\ handler' \in [Users -> [Slots -> AnyState]]
             /\ \A v \in Users \ {u} : \A r \in Slots : handler'[v][r] = handler[v][r]
  BY <1>3 DEF Answers, Sets
<1>4. queue' \in [Users -> Seq(Mutations)]
  BY DEF Answers, Serves
<1>5. QED
  BY <1>1, <1>2, <1>3, <1>4

\* What the steps of the two lists make of them.
LEMMA BlockedIds ==
    ASSUME TypeOK, NEW u \in Users, ReadBlockedIds(u)
    PROVE  \E S : /\ FirstSnapshot(u, S) /\ S \in SUBSET Users
                  /\ page' \in [Users -> Pages] /\ page'[u] = [pc |-> "docs", list |-> S]
                  /\ \A v \in Users \ {u} : page'[v] = page[v]
<1>1. PICK S \in SUBSET Users : /\ FirstSnapshot(u, S)
                                /\ page' = [page EXCEPT ![u] = [pc |-> "docs", list |-> S]]
  BY DEF ReadBlockedIds
<1>2. [pc |-> "docs", list |-> S] \in Pages
  BY ListTypes
<1>3. QED
  BY <1>1, <1>2, PageType

LEMMA BlockedShown ==
    ASSUME TypeOK, NEW u \in Users, ShowBlocked(u)
    PROVE  /\ page[u].pc = "docs" /\ page' \in [Users -> Pages]
           /\ page'[u].list = page[u].list
           /\ \A v \in Users \ {u} : page'[v] = page[v]
<1> DEFINE g == [page[u] EXCEPT !.pc = "shown"]
<1>1. page[u].pc = "docs" /\ page' = [page EXCEPT ![u] = g]
  BY DEF ShowBlocked
<1>2. page[u] \in Lists
  BY <1>1, TypeNow DEF Pages, Closed
<1>3. g \in Lists /\ g.list = page[u].list
  BY <1>2 DEF Lists
<1> HIDE DEF g
<1>4. QED
  BY <1>1, <1>3, ListTypes, PageType

LEMMA BlockedFailed ==
    ASSUME TypeOK, NEW u \in Users, FailBlocked(u)
    PROVE  /\ page' \in [Users -> Pages] /\ page'[u].pc = "failed"
           /\ \A v \in Users \ {u} : page'[v] = page[v]
<1>1. page' = [page EXCEPT ![u] = [pc |-> "failed", list |-> {}]]
  BY DEF FailBlocked
<1>2. [pc |-> "failed", list |-> {}] \in Pages
  BY ListTypes
<1>3. QED
  BY <1>1, <1>2, PageType

LEMMA ChatIds ==
    ASSUME TypeOK, NEW u \in Users, ReadChatIds(u)
    PROVE  \E S : /\ FirstSnapshot(u, S) /\ S \in SUBSET Users
                  /\ chats' \in [Users -> Lists] /\ chats'[u] = [pc |-> "docs", list |-> S]
                  /\ \A v \in Users \ {u} : chats'[v] = chats[v]
<1>1. PICK S \in SUBSET Users : /\ FirstSnapshot(u, S)
                                /\ chats' = [chats EXCEPT ![u] = [pc |-> "docs", list |-> S]]
  BY DEF ReadChatIds
<1>2. [pc |-> "docs", list |-> S] \in Lists
  BY ListTypes
<1>3. QED
  BY <1>1, <1>2, ChatType

LEMMA ChatsShown ==
    ASSUME TypeOK, NEW u \in Users, ShowChats(u)
    PROVE  /\ chats[u].pc = "docs" /\ chats' \in [Users -> Lists]
           /\ chats'[u] = [pc |-> "shown", list |-> Users \ (gone \cup chats[u].list \cup {u})]
           /\ \A v \in Users \ {u} : chats'[v] = chats[v]
<1> DEFINE S == Users \ (gone \cup chats[u].list \cup {u})
<1>1. chats[u].pc = "docs" /\ chats' = [chats EXCEPT ![u] = [pc |-> "shown", list |-> S]]
  BY DEF ShowChats
<1>2. [pc |-> "shown", list |-> S] \in Lists
  BY ListTypes
<1> HIDE DEF S
<1>3. chats' \in [Users -> Lists] /\ chats'[u] = [pc |-> "shown", list |-> S]
      /\ \A v \in Users \ {u} : chats'[v] = chats[v]
  BY <1>1, <1>2, ChatType
<1>4. QED
  BY <1>1, <1>3 DEF S

LEMMA ChatsReset ==
    ASSUME TypeOK, NEW u \in Users, FailChats(u) \/ Refresh(u)
    PROVE  /\ chats' \in [Users -> Lists] /\ chats'[u].pc \in {"ids", "failed"}
           /\ \A v \in Users \ {u} : chats'[v] = chats[v]
<1>1. PICK c \in {[pc |-> "failed", list |-> {}], Opening} : chats' = [chats EXCEPT ![u] = c]
  BY DEF FailChats, Refresh
<1>2. c \in Lists /\ c.pc \in {"ids", "failed"}
  BY <1>1, ListTypes
<1>3. QED
  BY <1>1, <1>2, ChatType

LEMMA TypeStep == ASSUME TypeOK, Owned, Next PROVE TypeOK'
<1>0. UNCHANGED plan
  BY DEF Next
<1>1. ASSUME NEW u \in Users, CommitHead(u) PROVE TypeOK'
  <2>1. Answers(u, "ok") /\ Applied(u) /\ UNCHANGED <<gone, loading, page, chats>>
    BY <1>1, Commits DEF Applied, Oldest
  <2>2. 1 \in DOMAIN queue[u] /\ UNCHANGED <<suspect, clean, shield, free>>
    BY <2>1 DEF Answers, Serves
  <2>3. cache' \in [Users -> SUBSET Users] /\ blocked' \subseteq Users \X Users
    BY <2>1, <2>2, AppliedDocs
  <2>4. QED
    BY <1>0, <2>1, <2>2, <2>3, AnswersType, TypeNow, TypeOf
<1>2. ASSUME NEW u \in Users, RefuseHead(u) PROVE TypeOK'
  <2>1. Answers(u, "err") /\ UNCHANGED <<blocked, gone, cache, loading, page, chats>>
    BY <1>2, Refuses
  <2>2. UNCHANGED <<suspect, clean, shield, free>>
    BY <2>1 DEF Answers
  <2>3. QED
    BY <1>0, <2>1, <2>2, AnswersType, TypeNow, TypeOf
<1>3. ASSUME NEW u \in Users, Crash(u) PROVE TypeOK'
  <2>1. /\ UNCHANGED <<blocked, gone, cache, shield, free>>
        /\ loading' \subseteq loading /\ clean' \subseteq clean /\ OpenBase(u)
    BY <1>3 DEF Crash, remote
  <2>2. suspect' \subseteq SUBSET Users
    <3>1. ASSUME NEW t \in Slots, Writing(u, t) PROVE handler[u][t].peer \in Users
      BY <3>1, HandlerType DEF HandlerStates
    <3>2. suspect' = suspect \cup {{u, handler[u][s].peer} : s \in {t \in Slots : Writing(u, t)}}
      BY <1>3 DEF Crash
    <3>3. suspect \subseteq SUBSET Users
      BY TypeNow
    <3>4. \A t \in Slots : Writing(u, t) => {u, handler[u][t].peer} \in SUBSET Users
      BY <3>1
    <3>5. {{u, handler[u][s].peer} : s \in {t \in Slots : Writing(u, t)}} \subseteq SUBSET Users
      BY <3>4
    <3>6. QED
      BY <3>2, <3>3, <3>5
  <2>3. QED
    BY <1>0, <1>3, <2>1, <2>2, Crashes, OpenBaseType, TypeNow, TypeOf
<1>4. ASSUME NEW u \in Users, ReadChatIds(u) \/ ReadBlockedIds(u) \/ Load(u) PROVE TypeOK'
  <2>1. PICK S : FirstSnapshot(u, S)
    BY <1>4 DEF ReadChatIds, ReadBlockedIds, Load
  <2>2. cache' \in [Users -> SUBSET Users]
    BY <2>1, SnapshotType
  <2>3. page' \in [Users -> Pages] /\ chats' \in [Users -> Lists]
    <3>1. page' = page \/ ReadBlockedIds(u)
      BY <1>4 DEF ReadChatIds, Load
    <3>2. chats' = chats \/ ReadChatIds(u)
      BY <1>4 DEF ReadBlockedIds, Load
    <3>3. QED
      BY <3>1, <3>2, BlockedIds, ChatIds, TypeNow
  <2>4. UNCHANGED <<blocked, gone, queue, handler, history>> /\ loading' \subseteq loading
    BY <1>4 DEF ReadChatIds, ReadBlockedIds, Load
  <2>5. QED
    BY <1>0, <2>2, <2>3, <2>4, TypeNow, TypeOf DEF history
<1>5. ASSUME NEW u \in Users, ShowChats(u) \/ FailChats(u) \/ Refresh(u) PROVE TypeOK'
  <2>1. UNCHANGED <<remote, queue, handler, loading, page, history>>
    BY <1>5 DEF ShowChats, FailChats, Refresh
  <2>2. chats' \in [Users -> Lists]
    BY <1>5, ChatsShown, ChatsReset
  <2>3. QED
    BY <1>0, <2>1, <2>2, TypeNow, TypeOf DEF remote, history
<1>6. ASSUME NEW u \in Users, ShowBlocked(u) \/ FailBlocked(u) PROVE TypeOK'
  <2>1. UNCHANGED <<remote, queue, handler, loading, chats, history>>
    BY <1>6 DEF ShowBlocked, FailBlocked
  <2>2. page' \in [Users -> Pages]
    BY <1>6, BlockedShown, BlockedFailed
  <2>3. QED
    BY <1>0, <2>1, <2>2, TypeNow, TypeOf DEF remote, history
<1>7. ASSUME NEW u \in Users, NEW s \in Slots, NEW x \in Users,
             AddBlock(u, s, x) \/ AddUnblock(u, s, x)
      PROVE  TypeOK'
  <2>1. /\ UNCHANGED <<remote, queue, page, chats>> /\ Meet(u, s, x)
        /\ shield' \subseteq shield /\ free' \subseteq free /\ loading' \subseteq loading \cup {u}
    BY <1>7 DEF AddBlock, AddUnblock
  <2>2. handler' \in [Users -> [Slots -> AnyState]]
    BY <1>7, BlockBegins, UnblockBegins DEF Begins, Sets
  <2>3. QED
    BY <1>0, <2>1, <2>2, MeetType, TypeNow, TypeOf DEF remote
<1>8. ASSUME NEW u \in Users, OpenBlocked(u) \/ Back(u) PROVE TypeOK'
  <2>1. /\ UNCHANGED <<remote, queue, handler, loading, chats, history>>
        /\ page' = [page EXCEPT ![u] = Opening] \/ page' = [page EXCEPT ![u] = Closed]
    BY <1>8 DEF OpenBlocked, Back
  <2>2. page' \in [Users -> Pages]
    BY <2>1, ListTypes, PageType
  <2>3. QED
    BY <1>0, <2>1, <2>2, TypeNow, TypeOf DEF remote, history
<1>9. ASSUME NEW u \in Users, OpenTab(u) \/ DeleteAccount(u) PROVE TypeOK'
  <2>1. /\ UNCHANGED <<blocked, cache, queue, handler, page, chats, history>>
        /\ gone' \subseteq gone \cup {u} /\ loading' \subseteq loading \cup {u}
    BY <1>9 DEF OpenTab, DeleteAccount, remote
  <2>2. QED
    BY <1>0, <2>1, TypeNow, TypeOf DEF history
<1>10. ASSUME NEW u \in Users, NEW s \in Slots, WriteFirst(u, s) \/ WriteSecond(u, s)
       PROVE  TypeOK'
  <2>1. UNCHANGED <<remote, loading, page, chats, history>>
    BY <1>10 DEF WriteFirst, WriteSecond
  <2>2. Sends(u, s)
    BY <1>10, WritesFirst, WritesSecond
  <2>3. handler' \in [Users -> [Slots -> AnyState]] /\ queue' \in [Users -> Seq(Mutations)]
    BY <2>2 DEF Sends, Sets, Joins
  <2>4. QED
    BY <1>0, <2>1, <2>3, TypeNow, TypeOf DEF remote, history
<1>11. ASSUME NEW u \in Users, NEW s \in Slots, FinishBlock(u, s) \/ FinishUnblock(u, s)
       PROVE  TypeOK'
  <2>1. /\ UNCHANGED <<remote, queue>> /\ loading' = loading \cup {u}
        /\ OpenBase(u) \/ UNCHANGED <<page, chats>>
        /\ shield' \subseteq shield \cup Reported(u, s) /\ free' \subseteq free \cup Reported(u, s)
    BY <1>11 DEF FinishBlock, FinishUnblock, Finish
  <2>2. Writing(u, s) /\ Judge(u, s) /\ handler' \in [Users -> [Slots -> AnyState]]
    BY <1>11, FinishEnds DEF Ends, Sets
  <2>3. Reported(u, s) \subseteq Users \X Users
    <3>1. handler[u][s].peer \in Users
      BY <2>2, HandlerType DEF HandlerStates
    <3>2. QED
      BY <3>1 DEF Reported
  <2>4. page' \in [Users -> Pages] /\ chats' \in [Users -> Lists]
    BY <2>1, OpenBaseType, TypeNow
  <2>5. QED
    BY <1>0, <2>1, <2>2, <2>3, <2>4, JudgeType, TypeNow, TypeOf DEF remote
<1>12. QED
  BY <1>1, <1>2, <1>3, <1>4, <1>5, <1>6, <1>7, <1>8, <1>9, <1>10, <1>11
     DEF Next, Server, Reads, AddEvent, Progress

-----------------------------------------------------------------------------
(***************************************************************************)
(* The list of chats and the page of blocked users.                        *)
(***************************************************************************)
\* What a phone reads of its blocks agrees with what it was told is done.
LEMMA ReadsPromised ==
    ASSUME Standing, NEW kd \in WriteKinds, NEW u \in Users, NEW b \in Users,
           <<u, b>> \in Promised(kd), NEW S, FirstSnapshot(u, S)
    PROVE  Done(S, b, kd)
<1>1. Stands(kd, u, b)
  BY StandsAt
<1>2. ASSUME NEW i \in WritesOn(u, <<u, b>>)
      PROVE  i \in DOMAIN queue[u] /\ queue[u][i].op = OpOf(kd)
  <2>1. i \in DOMAIN queue[u] /\ queue[u][i].doc = <<u, b>>
    BY DEF WritesOn
  <2>2. About(queue[u][i]) = Sides(u, b)
    BY <2>1 DEF About
  <2>3. QED
    BY <1>1, <2>1, <2>2 DEF Stands
<1>3. WritesOn(u, <<u, b>>) # {} => (SetLast(u, <<u, b>>) <=> kd = "block")
  <2>1. CASE kd = "block"
    BY <1>2, <2>1 DEF SetLast, OpOf
  <2>2. CASE kd # "block"
    BY <1>2, <2>2 DEF SetLast, OpOf
  <2>3. QED
    BY <2>1, <2>2
<1>4. Done(Stored(u), b, kd) /\ Done(cache[u], b, kd)
  BY <1>1 DEF Stands, Stored, Done
<1>5. S = Seen(u, Stored(u)) \/ S = Seen(u, cache[u])
  BY DEF FirstSnapshot
<1>6. QED
  BY <1>3, <1>4, <1>5 DEF Seen, Done

\* How the three lists of a step follow: what is promised, and what is shown,
\* changes for u alone, and what u is newly promised finds its lists empty.
LEMMA ListsKept ==
    ASSUME Hidden, Omitted, Offered, NEW u \in Users, gone \subseteq gone',
           \A v \in Users \ {u} : page'[v] = page[v] /\ chats'[v] = chats[v],
           page'[u] = page[u] \/ page'[u].pc \notin {"docs", "shown"},
           chats'[u] = chats[u] \/ chats'[u].pc \in {"ids", "failed"},
           \A a \in Users : \A b \in Users : \A kd \in WriteKinds :
               <<a, b>> \in Promised(kd)' =>
                   \/ <<a, b>> \in Promised(kd)
                   \/ /\ a = u /\ page'[u].pc \notin {"docs", "shown"}
                      /\ chats'[u].pc \in {"ids", "failed"}
    PROVE  Hidden' /\ Omitted' /\ Offered'
<1>1. ASSUME NEW a \in Users, NEW b \in Users
      PROVE  /\ <<a, b>> \in shield' =>
                    \/ <<a, b>> \in shield
                    \/ a = u /\ chats'[u].pc \in {"ids", "failed"}
             /\ <<a, b>> \in free' =>
                    \/ <<a, b>> \in free
                    \/ /\ a = u /\ page'[u].pc \notin {"docs", "shown"}
                       /\ chats'[u].pc \in {"ids", "failed"}
  BY DEF Promised, WriteKinds
<1>2. ASSUME NEW a \in Users, NEW b \in Users, <<a, b>> \in shield' PROVE Hides(chats'[a], b)
  BY <1>1, <1>2 DEF Hidden, Hides
<1>3. ASSUME NEW a \in Users, NEW b \in Users, <<a, b>> \in free' PROVE Omits(page'[a], b)
  BY <1>1, <1>3 DEF Omitted, Omits
<1>4. ASSUME NEW a \in Users, NEW b \in Users, a # b, <<a, b>> \in free'
      PROVE  Offers(chats'[a], b, gone')
  BY <1>1, <1>4 DEF Offered, Offers
<1>5. QED
  BY <1>2, <1>3, <1>4 DEF Hidden, Omitted, Offered

LEMMA ListsStep ==
    ASSUME TypeOK, Owned, Standing, Hidden, Omitted, Offered, Next
    PROVE  Hidden' /\ Omitted' /\ Offered'
<1>1. ASSUME NEW u \in Users,
             \/ Server(u) \/ Load(u) \/ OpenTab(u) \/ DeleteAccount(u)
             \/ \E s \in Slots : WriteFirst(u, s) \/ WriteSecond(u, s)
             \/ \E s \in Slots, x \in Users : AddBlock(u, s, x) \/ AddUnblock(u, s, x)
      PROVE  Hidden' /\ Omitted' /\ Offered'
  <2>1. UNCHANGED <<page, chats>> /\ shield' \subseteq shield /\ free' \subseteq free
        /\ gone \subseteq gone'
    BY <1>1 DEF Server, CommitHead, RefuseHead, Load, OpenTab, DeleteAccount, WriteFirst,
                WriteSecond, AddBlock, AddUnblock, remote, history
  <2>2. \A kd \in WriteKinds : Promised(kd)' \subseteq Promised(kd)
    BY <2>1 DEF Promised
  <2>3. \A v \in Users : page'[v] = page[v] /\ chats'[v] = chats[v]
    BY <2>1
  <2>4. QED
    BY <2>1, <2>2, <2>3, ListsKept
<1>2. ASSUME NEW u \in Users, Crash(u) PROVE Hidden' /\ Omitted' /\ Offered'
  <2>1. OpenBase(u) /\ UNCHANGED <<gone, shield, free>>
    BY <1>2 DEF Crash, remote
  <2>2. /\ page'[u].pc = "closed" /\ chats'[u].pc = "ids"
        /\ \A v \in Users \ {u} : page'[v] = page[v] /\ chats'[v] = chats[v]
    BY <2>1, OpenBaseType, ListTypes
  <2>3. QED
    BY <2>1, <2>2, ListsKept DEF Promised
<1>3. ASSUME NEW u \in Users, OpenBlocked(u) \/ Back(u) \/ FailBlocked(u)
      PROVE  Hidden' /\ Omitted' /\ Offered'
  <2>1. UNCHANGED <<gone, chats, shield, free>>
    BY <1>3 DEF OpenBlocked, Back, FailBlocked, remote, history
  <2>2. page'[u].pc \notin {"docs", "shown"} /\ \A v \in Users \ {u} : page'[v] = page[v]
    BY <1>3, BlockedFailed, ListTypes, PageType DEF OpenBlocked, Back
  <2>3. QED
    BY <2>1, <2>2, ListsKept DEF Promised
<1>4. ASSUME NEW u \in Users, FailChats(u) \/ Refresh(u) PROVE Hidden' /\ Omitted' /\ Offered'
  <2>1. UNCHANGED <<gone, page, shield, free>>
    BY <1>4 DEF FailChats, Refresh, remote, history
  <2>2. QED
    BY <1>4, <2>1, ChatsReset, ListsKept DEF Promised
<1>5. ASSUME NEW u \in Users, NEW s \in Slots, FinishBlock(u, s) \/ FinishUnblock(u, s)
      PROVE  Hidden' /\ Omitted' /\ Offered'
  <2>1. gone' = gone
    BY <1>5 DEF FinishBlock, FinishUnblock, Finish, remote
  <2>2. CASE OpenBase(u)
    <3>1. /\ page'[u].pc = "closed" /\ chats'[u].pc = "ids"
          /\ \A v \in Users \ {u} : page'[v] = page[v] /\ chats'[v] = chats[v]
      BY <2>2, OpenBaseType, ListTypes
    <3>2. ASSUME NEW kd \in WriteKinds, NEW a \in Users, NEW b \in Users,
                 <<a, b>> \in Promised(kd)'
          PROVE  <<a, b>> \in Promised(kd) \/ a = u
      <4>1. \/ Promised(kd)' = Promised(kd)
            \/ Promised(kd)' = Promised(kd) \cup {<<u, handler[u][s].peer>>}
        BY <1>5, FinishEnds DEF Ends
      <4>2. QED
        BY <3>2, <4>1
    <3>3. QED
      BY <2>1, <3>1, <3>2, ListsKept
  <2>3. CASE Failed(u, s) /\ UNCHANGED <<page, chats>>
    <3>1. Reported(u, s) = {}
      BY <2>3 DEF Failed, Succeeded, Reported
    <3>2. UNCHANGED <<shield, free>>
      BY <1>5, <3>1 DEF FinishBlock, FinishUnblock
    <3>3. QED
      BY <2>1, <2>3, <3>2, ListsKept DEF Promised
  <2>4. QED
    BY <1>5, <2>2, <2>3 DEF FinishBlock, FinishUnblock, Finish
\* The ids of the page of blocked users leave a finished unblock out.
<1>6. ASSUME NEW u \in Users, ReadBlockedIds(u) PROVE Hidden' /\ Omitted' /\ Offered'
  <2>1. UNCHANGED <<gone, chats, shield, free>>
    BY <1>6 DEF ReadBlockedIds, history
  <2>2. PICK S : /\ FirstSnapshot(u, S) /\ page'[u] = [pc |-> "docs", list |-> S]
                 /\ \A v \in Users \ {u} : page'[v] = page[v]
    BY <1>6, BlockedIds
  <2>3. ASSUME NEW a \in Users, NEW b \in Users, <<a, b>> \in free PROVE Omits(page'[a], b)
    <3>1. CASE a = u
      <4>1. Done(S, b, "unblock")
        BY <2>2, <2>3, <3>1, ReadsPromised DEF Promised, WriteKinds
      <4>2. QED
        BY <2>2, <3>1, <4>1 DEF Omits, Done
    <3>2. CASE a # u
      BY <2>2, <2>3, <3>2 DEF Omitted
    <3>3. QED
      BY <3>1, <3>2
  <2>4. QED
    BY <2>1, <2>3 DEF Hidden, Omitted, Offered
<1>7. ASSUME NEW u \in Users, ShowBlocked(u) PROVE Hidden' /\ Omitted' /\ Offered'
  <2>1. UNCHANGED <<gone, chats, shield, free>>
    BY <1>7 DEF ShowBlocked, remote, history
  <2>2. \A a \in Users : \A b \in Users : Omits(page[a], b) => Omits(page'[a], b)
    <3>1. /\ page[u].pc = "docs" /\ page'[u].list = page[u].list
          /\ \A v \in Users \ {u} : page'[v] = page[v]
      BY <1>7, BlockedShown
    <3>2. QED
      BY <3>1 DEF Omits
  <2>3. QED
    BY <2>1, <2>2 DEF Hidden, Omitted, Offered
\* The ids that a list of chats excludes hold the finished blocks and none of
\* the finished unblocks.
<1>8. ASSUME NEW u \in Users, ReadChatIds(u) PROVE Hidden' /\ Omitted' /\ Offered'
  <2>1. UNCHANGED <<gone, page, shield, free>>
    BY <1>8 DEF ReadChatIds, history
  <2>2. PICK S : /\ FirstSnapshot(u, S) /\ chats'[u] = [pc |-> "docs", list |-> S]
                 /\ \A v \in Users \ {u} : chats'[v] = chats[v]
    BY <1>8, ChatIds
  <2>3. ASSUME NEW a \in Users, NEW b \in Users, <<a, b>> \in shield PROVE Hides(chats'[a], b)
    <3>1. CASE a = u
      <4>1. Done(S, b, "block")
        BY <2>2, <2>3, <3>1, ReadsPromised DEF Promised, WriteKinds
      <4>2. QED
        BY <2>2, <3>1, <4>1 DEF Hides, Done
    <3>2. CASE a # u
      BY <2>2, <2>3, <3>2 DEF Hidden
    <3>3. QED
      BY <3>1, <3>2
  <2>4. ASSUME NEW a \in Users, NEW b \in Users, a # b, <<a, b>> \in free
        PROVE  Offers(chats'[a], b, gone)
    <3>1. CASE a = u
      <4>1. Done(S, b, "unblock")
        BY <2>2, <2>4, <3>1, ReadsPromised DEF Promised, WriteKinds
      <4>2. QED
        BY <2>2, <3>1, <4>1 DEF Offers, Done
    <3>2. CASE a # u
      BY <2>2, <2>4, <3>2 DEF Offered
    <3>3. QED
      BY <3>1, <3>2
  <2>5. QED
    BY <2>1, <2>3, <2>4 DEF Hidden, Omitted, Offered
<1>9. ASSUME NEW u \in Users, ShowChats(u) PROVE Hidden' /\ Omitted' /\ Offered'
  <2>1. UNCHANGED <<gone, page, shield, free>>
    BY <1>9 DEF ShowChats, remote, history
  <2>2. /\ chats[u].pc = "docs"
        /\ chats'[u] = [pc |-> "shown", list |-> Users \ (gone \cup chats[u].list \cup {u})]
        /\ \A v \in Users \ {u} : chats'[v] = chats[v]
    BY <1>9, ChatsShown
  <2>3. ASSUME NEW a \in Users, NEW b \in Users, Hides(chats[a], b) PROVE Hides(chats'[a], b)
    BY <2>2, <2>3 DEF Hides
  <2>4. ASSUME NEW a \in Users, NEW b \in Users, a # b, Offers(chats[a], b, gone)
        PROVE  Offers(chats'[a], b, gone)
    BY <2>2, <2>4 DEF Offers
  <2>5. QED
    BY <2>1, <2>3, <2>4 DEF Hidden, Omitted, Offered
<1>10. QED
  BY <1>1, <1>2, <1>3, <1>4, <1>5, <1>6, <1>7, <1>8, <1>9
     DEF Next, Reads, AddEvent, Progress

-----------------------------------------------------------------------------
(***************************************************************************)
(* The writes and their history.                                           *)
(***************************************************************************)
LEMMA CalmStep ==
    ASSUME TypeOK, Owned, History, Standing, Calm
    PROVE  Owned' /\ History' /\ Standing'
BY OwnedCalm, CalmKept

LEMMA CoreStep ==
    ASSUME TypeOK, Owned, History, Standing, Next
    PROVE  Owned' /\ History' /\ Standing'
<1>1. ASSUME NEW u \in Users, CommitHead(u) PROVE Owned' /\ History' /\ Standing'
  <2>1. Answers(u, "ok") /\ Applied(u)
    BY <1>1, Commits DEF Applied, Oldest
  <2>2. QED
    BY <2>1, OwnedAnswers, CommitKept
<1>2. ASSUME NEW u \in Users, RefuseHead(u) PROVE Owned' /\ History' /\ Standing'
  <2>1. Answers(u, "err") /\ UNCHANGED <<blocked, cache>>
    BY <1>2, Refuses
  <2>2. QED
    BY <2>1, OwnedAnswers, RefusalKept
<1>3. ASSUME NEW u \in Users, Crash(u) PROVE Owned' /\ History' /\ Standing'
  BY <1>3, Crashes, OwnedDies, DiesKept
<1>4. ASSUME NEW u \in Users, Reads(u) PROVE Owned' /\ History' /\ Standing'
  <2>1. UNCHANGED <<blocked, queue, handler, suspect, clean, shield, free>>
    BY <1>4 DEF Reads, Load, ReadBlockedIds, ShowBlocked, FailBlocked, ReadChatIds, ShowChats,
                FailChats, remote, history
  <2>2. cache' = cache \/ \E S : FirstSnapshot(u, S)
    BY <1>4 DEF Reads, Load, ReadBlockedIds, ShowBlocked, FailBlocked, ReadChatIds, ShowChats,
                FailChats, remote
  <2>3. \A v \in Users : cache'[v] = cache[v] \/ cache'[v] = Stored(v)
    BY <2>2, SnapshotType
  <2>4. QED
    BY <2>1, <2>3, CalmStep DEF Calm
<1>5. ASSUME NEW u \in Users, NEW s \in Slots, NEW x \in Users,
             AddBlock(u, s, x) \/ AddUnblock(u, s, x)
      PROVE  Owned' /\ History' /\ Standing'
  BY <1>5, BlockBegins, UnblockBegins, OwnedBegins, BeginsKept
<1>6. ASSUME NEW u \in Users,
             OpenBlocked(u) \/ Back(u) \/ OpenTab(u) \/ Refresh(u) \/ DeleteAccount(u)
      PROVE  Owned' /\ History' /\ Standing'
  <2>1. UNCHANGED <<blocked, cache, queue, handler, suspect, clean, shield, free>>
    BY <1>6 DEF OpenBlocked, Back, OpenTab, Refresh, DeleteAccount, remote, history
  <2>2. QED
    BY <2>1, CalmStep DEF Calm
<1>7. ASSUME NEW u \in Users, NEW s \in Slots, WriteFirst(u, s) \/ WriteSecond(u, s)
      PROVE  Owned' /\ History' /\ Standing'
  BY <1>7, WritesFirst, WritesSecond, OwnedSends, SendsKept
<1>8. ASSUME NEW u \in Users, NEW s \in Slots, FinishBlock(u, s) \/ FinishUnblock(u, s)
      PROVE  Owned' /\ History' /\ Standing'
  BY <1>8, FinishEnds, OwnedEnds, EndsKept
<1>9. QED
  BY <1>1, <1>2, <1>3, <1>4, <1>5, <1>6, <1>7, <1>8 DEF Next, Server, AddEvent, Progress

-----------------------------------------------------------------------------
LEMMA SoundInit == ASSUME Init PROVE Sound
<1>1. /\ \A u \in Users : queue[u] = << >> /\ DOMAIN queue[u] = {}
      /\ \A u \in Users : \A s \in Slots : handler[u][s] = Idle
      /\ blocked = {} /\ suspect = {} /\ clean = {} /\ shield = {} /\ free = {}
  BY DEF Init
<1>2. \A u \in Users : \A s \in Slots : handler[u][s].pc = "idle" /\ ~Writing(u, s)
  BY <1>1 DEF Idle, Writing
<1>3. TypeOK
  <2>1. << >> \in Seq(Mutations) /\ Idle \in HandlerStates \cup {Idle}
    OBVIOUS
  <2>2. Closed \in Lists \cup {Closed} /\ Opening \in Lists
    BY ListTypes
  <2>3. QED
    BY <2>1, <2>2 DEF Init, TypeOK
<1>4. Owned
  BY <1>1, <1>2 DEF Owned
<1>5. OrphansSuspect /\ Alone /\ Trusted /\ Effective
  BY <1>1, <1>2 DEF OrphansSuspect, Alone, Trusted, Effective
<1>6. Agreeing
  BY <1>1 DEF Agreeing, Agree
<1>7. Standing /\ Hidden /\ Omitted /\ Offered
  BY <1>1 DEF Standing, Promised, Hidden, Omitted, Offered
<1>8. QED
  BY <1>3, <1>4, <1>5, <1>6, <1>7 DEF Sound, History

LEMMA SoundStep == ASSUME Sound, [Next]_vars PROVE Sound'
<1>1. CASE Next
  <2>1. TypeOK'
    BY <1>1, TypeStep DEF Sound
  <2>2. Owned' /\ History' /\ Standing'
    BY <1>1, CoreStep DEF Sound
  <2>3. Hidden' /\ Omitted' /\ Offered'
    BY <1>1, ListsStep DEF Sound
  <2>4. QED
    BY <2>1, <2>2, <2>3 DEF Sound
<1>2. CASE UNCHANGED vars
  <2>1. UNCHANGED <<plan, blocked, gone, cache, queue, handler, loading, page, chats,
                    suspect, clean, shield, free>>
    BY <1>2 DEF vars
  <2>2. TypeOK'
    BY <2>1 DEF Sound, TypeOK
  <2>3. Hidden' /\ Omitted' /\ Offered'
    BY <2>1 DEF Sound, Hidden, Omitted, Offered
  <2>4. Calm
    BY <2>1 DEF Calm
  <2>5. QED
    BY <2>2, <2>3, <2>4, CalmStep DEF Sound
<1>3. QED
  BY <1>1, <1>2

\* Every variable holds what the program can put there, for any users, any
\* number of handlers of a phone's bloc and any number of leftover writes.
THEOREM TypeCorrect == Spec => []TypeOK
<1>1. Sound => TypeOK
  BY DEF Sound
<1>2. QED
  BY <1>1, SoundInit, SoundStep, PTL DEF Spec

\* The two documents of a block agree when nobody changes them, unless an
\* overlap, a crash between the two writes or a refused second write came after
\* the last undisturbed handler.
THEOREM BlockSides == Spec => []SidesAgree
<1>1. Sound => SidesAgree
  <2>1. SUFFICES ASSUME Sound, NEW a \in Users, NEW b \in Users,
                        a # b, {a, b} \notin suspect, Quiet({a, b})
                 PROVE  Agree(a, b)
    BY DEF SidesAgree, Agree
  <2>2. \A v \in Users : \A t \in Slots : ~(Writing(v, t) /\ On(v, t) = Sides(a, b))
    <3>1. ActiveOn({a, b}) = {}
      BY <2>1 DEF Quiet
    <3>2. QED
      BY <3>1, InActive
  <2>3. Sides(a, b) \notin suspect /\ Agreeing
    BY <2>1 DEF Sides, Sound, History
  <2>4. QED
    BY <2>1, <2>2, <2>3 DEF Agreeing
<1>2. QED
  BY <1>1, SoundInit, SoundStep, PTL DEF Spec

\* A block that was reported as done stands on both sides, and hides the other
\* user from every list of chats read since, until one of the two unblocks.
THEOREM BlocksStand == Spec => []BlockStands
<1>1. Sound => BlockStands
  BY DEF Sound, Standing, Stands, Promised, Done, WriteKinds, Hidden, Hides, BlockStands
<1>2. QED
  BY <1>1, SoundInit, SoundStep, PTL DEF Spec

\* An unblock that was reported as done leaves no block on either side until one
\* of the two blocks again; the page of blocked users shows none and the list of
\* chats leaves the other out no longer.
THEOREM UnblocksStand == Spec => []UnblockStands
<1>1. Sound => UnblockStands
  <2>1. SUFFICES ASSUME Sound, NEW a \in Users, NEW b \in Users, a # b, <<a, b>> \in free
                 PROVE  /\ {<<a, b>>, <<b, a>>} \cap blocked = {}
                        /\ Omits(page[a], b) /\ Offers(chats[a], b, gone)
    BY DEF UnblockStands, Omits, Offers
  <2>2. Stands("unblock", a, b)
    BY <2>1 DEF Sound, Standing, Promised, WriteKinds
  <2>3. QED
    BY <2>1, <2>2 DEF Stands, Done, Sound, Omitted, Offered
<1>2. QED
  BY <1>1, SoundInit, SoundStep, PTL DEF Spec
=============================================================================
