-------------------------- MODULE MessagingProofs ---------------------------
(***************************************************************************)
(* What holds of Messaging for any users, groups and pictures, whatever is *)
(* written and removed and whatever fails.                                 *)
(***************************************************************************)
EXTENDS Messaging, SequenceTheorems, TLAPS

Writes == [op : {"add", "remove"}, m : Ids, room : Rooms]
Entry(o, m, room) == [op |-> o, m |-> m, room |-> room]

(***************************************************************************)
(* The inductive invariant.                                                *)
(***************************************************************************)
RemovedFrom(h) == [in |-> "chat_rooms", id |-> {h.from, h.chat}]

\* A queued write is of a message of that phone, for the collection its
\* handler computed; an add has its handler or a restart behind it, a removal
\* was not taken before.
QueueSound ==
    \A u \in Users : \A i \in DOMAIN queue[u] :
        /\ msg[queue[u][i].m].pc \in {"wait", "orphan", "sent", "lost"}
        /\ msg[queue[u][i].m].from = u
        /\ queue[u][i].op = "add" =>
               /\ msg[queue[u][i].m].pc \in {"wait", "orphan"}
               /\ queue[u][i].room = Room(u, msg[queue[u][i].m].chat)
        /\ queue[u][i].op = "remove" =>
               /\ queue[u][i].room = RemovedFrom(msg[queue[u][i].m])
               /\ queue[u][i].m \notin gone

\* A message is added once and removed once, in that order.
QueueOnce ==
    \A u \in Users : \A i \in DOMAIN queue[u] : \A j \in DOMAIN queue[u] :
        queue[u][j].m = queue[u][i].m =>
            /\ queue[u][j].op = queue[u][i].op => i = j
            /\ queue[u][i].op = "add" /\ queue[u][j].op = "remove" => i < j

\* A message whose add has no answer has its add in the queue.
AddQueued ==
    \A m \in Ids : msg[m].pc \in {"wait", "orphan"} =>
        \E i \in DOMAIN queue[msg[m].from] :
            /\ queue[msg[m].from][i].m = m
            /\ queue[msg[m].from][i].op = "add"

\* The server has the messages it took and no others, but for removed ones.
HomeOf(m) == Room(msg[m].from, msg[m].chat)
StoreSound ==
    /\ \A r \in Rooms : \A m \in Ids : <<r, m>> \in store =>
           /\ msg[m].pc = "sent" /\ r = HomeOf(m)
           /\ m \in gone => ToGroup(m)
    /\ \A m \in Ids : msg[m].pc = "sent" /\ m \notin gone => <<HomeOf(m), m>> \in store
    /\ \A m \in gone : msg[m].pc \in {"sent", "lost"}
    /\ reported \subseteq gone

\* A message has its final timestamp.
Timed(m) == msg[m].pc \notin {"put", "url"} /\ (msg[m].pc = "get" => ~ToGroup(m))

\* Timestamps follow the clock of the phone, and the order of writing.
Ordered ==
    /\ \A m \in Ids : msg[m].pc # "new" => msg[m].at <= clock[msg[m].from]
    /\ \A m \in Ids : msg[m].pc \in {"put", "url"} => msg[m].pic # NoPicture
    /\ \A m \in Ids : \A n \in Ids : <<m, n>> \in before =>
           /\ msg[m].pc # "new" /\ msg[n].pc # "new" /\ msg[m].from = msg[n].from
           /\ Written(m) /\ Written(n) =>
                  Timed(m) /\ (Timed(n) => msg[m].at < msg[n].at)

\* A number is drawn once, or is known to clash; an uploaded picture is there.
Drawn ==
    /\ \A m \in Ids : \A o \in Ids : Written(m) /\ Written(o) /\ m # o =>
           msg[m].name \cap msg[o].name \subseteq clash
    /\ \A m \in Ids : Written(m) /\ msg[m].pc # "put" =>
           \A n \in msg[m].name \ clash : objects[n] = msg[m].pic

-----------------------------------------------------------------------------
(***************************************************************************)
(* Messages, queues and types.                                             *)
(***************************************************************************)
\* A message that was written is a record of all its fields.
LEMMA IsMessage ==
    ASSUME TypeOK, NEW m \in Ids, msg[m].pc # "new"
    PROVE  msg[m] \in Messages
BY DEF TypeOK, New

LEMMA RoomType ==
    ASSUME NEW u \in Users, NEW c \in Users \cup Groups
    PROVE  Room(u, c) \in Rooms
BY DEF Room, Rooms

\* A step of a handler changes one message, and not who wrote what to whom.
Moves(m, pc, at) ==
    /\ msg' \in [Ids -> Messages \cup {New}]
    /\ \A o \in Ids \ {m} : msg'[o] = msg[o]
    /\ msg'[m].pc = pc /\ msg'[m].at = at
    /\ msg'[m].from = msg[m].from /\ msg'[m].chat = msg[m].chat
    /\ msg'[m].pic = msg[m].pic /\ msg'[m].name = msg[m].name

LEMMA MoveStep ==
    ASSUME TypeOK, NEW m \in Ids, msg[m].pc # "new",
           NEW pc \in {"url", "get", "wait", "orphan", "sent", "lost"}, NEW at \in Nat,
           msg' = [msg EXCEPT ![m].pc = pc, ![m].at = at]
    PROVE  Moves(m, pc, at)
<1>1. msg[m] \in Messages /\ msg \in [Ids -> Messages \cup {New}]
  BY IsMessage DEF TypeOK
<1>2. [msg[m] EXCEPT !.pc = pc, !.at = at] \in Messages
  BY <1>1 DEF Messages
<1>3. msg' = [msg EXCEPT ![m] = [msg[m] EXCEPT !.pc = pc, !.at = at]]
  BY <1>1
<1>4. msg' \in [Ids -> Messages \cup {New}] /\ \A o \in Ids \ {m} : msg'[o] = msg[o]
  BY <1>1, <1>2, <1>3
<1>5. msg'[m] = [msg[m] EXCEPT !.pc = pc, !.at = at]
  BY <1>1, <1>3
<1>6. QED
  BY <1>1, <1>4, <1>5 DEF Moves, Messages

LEMMA PcStep ==
    ASSUME TypeOK, NEW m \in Ids, msg[m].pc # "new",
           NEW pc \in {"url", "get", "wait", "orphan", "sent", "lost"},
           msg' = [msg EXCEPT ![m].pc = pc]
    PROVE  Moves(m, pc, msg[m].at)
<1>1. msg[m] \in Messages /\ msg \in [Ids -> Messages \cup {New}]
  BY IsMessage DEF TypeOK
<1>2. [msg[m] EXCEPT !.pc = pc] \in Messages
  BY <1>1 DEF Messages
<1>3. msg' \in [Ids -> Messages \cup {New}] /\ \A o \in Ids \ {m} : msg'[o] = msg[o]
  BY <1>1, <1>2
<1>4. msg'[m] = [msg[m] EXCEPT !.pc = pc]
  BY <1>1
<1>5. QED
  BY <1>1, <1>3, <1>4 DEF Moves, Messages

\* A message that is put where there was none.
Puts(m, h) ==
    /\ msg' \in [Ids -> Messages \cup {New}]
    /\ \A o \in Ids \ {m} : msg'[o] = msg[o]
    /\ msg'[m] = h

LEMMA PutStep ==
    ASSUME TypeOK, NEW m \in Ids, NEW h \in Messages, Put(m, h)
    PROVE  Puts(m, h)
BY DEF TypeOK, Put, Puts

LEMMA NewMessage ==
    ASSUME NEW u \in Users, NEW c \in Users \cup Groups,
           NEW p \in Pictures \cup {NoPicture}, NEW at \in Nat,
           NEW pc \in {"put", "get"}
    PROVE  /\ Message(u, c, p, at, pc) \in Messages
           /\ \A n \in Names : /\ [Message(u, c, p, at, pc) EXCEPT !.name = {n}] \in Messages
                               /\ [Message(u, c, p, at, pc) EXCEPT !.name = {n}].name = {n}
BY DEF Message, Messages

\* A write that joins a queue is its last.
LEMMA Joined ==
    ASSUME TypeOK, NEW u \in Users, NEW o \in {"add", "remove"}, NEW m \in Ids,
           NEW r \in Rooms, Enqueue(u, o, m, r)
    PROVE  /\ queue' \in [Users -> Seq(Writes)]
           /\ \A v \in Users \ {u} : queue'[v] = queue[v]
           /\ Len(queue[u]) + 1 \in DOMAIN queue'[u]
           /\ queue'[u][Len(queue[u]) + 1] = Entry(o, m, r)
           /\ \A i \in DOMAIN queue[u] :
                  i \in DOMAIN queue'[u] /\ queue'[u][i] = queue[u][i]
           /\ \A i \in DOMAIN queue'[u] :
                  i \in DOMAIN queue[u] \/ i = Len(queue[u]) + 1
           /\ \A i \in DOMAIN queue[u] : i \in Nat /\ i <= Len(queue[u])
           /\ Len(queue[u]) \in Nat
<1>1. queue[u] \in Seq(Writes) /\ queue \in [Users -> Seq(Writes)]
  BY DEF TypeOK, Writes
<1>2. Entry(o, m, r) \in Writes
  BY DEF Entry, Writes
<1>3. queue' = [queue EXCEPT ![u] = Append(queue[u], Entry(o, m, r))]
  BY DEF Enqueue, Entry
<1>4. queue'[u] = Append(queue[u], Entry(o, m, r))
  BY <1>1, <1>3
<1>5. Append(queue[u], Entry(o, m, r)) \in Seq(Writes)
  BY <1>1, <1>2, AppendProperties
<1>6. queue' \in [Users -> Seq(Writes)] /\ \A v \in Users \ {u} : queue'[v] = queue[v]
  BY <1>1, <1>3, <1>5
<1>7. DOMAIN queue[u] = 1 .. Len(queue[u]) /\ Len(queue[u]) \in Nat
  BY <1>1, LenProperties
<1>8. DOMAIN queue'[u] = 1 .. Len(queue[u]) + 1
  BY <1>1, <1>2, <1>4, <1>5, AppendProperties, LenProperties
<1>9. \A i \in 1 .. Len(queue[u]) : queue'[u][i] = queue[u][i]
  BY <1>1, <1>2, <1>4, AppendProperties
<1>10. queue'[u][Len(queue[u]) + 1] = Entry(o, m, r)
  BY <1>1, <1>2, <1>4, AppendProperties
<1>11. QED
  BY <1>6, <1>7, <1>8, <1>9, <1>10

\* The rest of a queue is its tail.
LEMMA Served ==
    ASSUME TypeOK, NEW u \in Users, queue[u] # << >>,
           queue' = [queue EXCEPT ![u] = Tail(@)]
    PROVE  /\ queue' \in [Users -> Seq(Writes)]
           /\ \A v \in Users \ {u} : queue'[v] = queue[v]
           /\ 1 \in DOMAIN queue[u] /\ Head(queue[u]) = queue[u][1]
           /\ queue[u][1] \in Writes
           /\ \A i \in DOMAIN queue'[u] :
                  i \in Nat /\ i + 1 \in DOMAIN queue[u] /\ queue'[u][i] = queue[u][i + 1]
           /\ \A i \in DOMAIN queue[u] :
                  i \in Nat /\ i >= 1 /\ (i # 1 => i - 1 \in DOMAIN queue'[u])
<1>1. queue[u] \in Seq(Writes) /\ queue \in [Users -> Seq(Writes)]
  BY DEF TypeOK, Writes
<1>2. queue'[u] = Tail(queue[u])
  BY <1>1
<1>3. /\ Tail(queue[u]) \in Seq(Writes) /\ Head(queue[u]) = queue[u][1]
      /\ Len(Tail(queue[u])) = Len(queue[u]) - 1
      /\ \A i \in 1 .. Len(Tail(queue[u])) : Tail(queue[u])[i] = queue[u][i + 1]
  BY <1>1, HeadTailProperties
<1>4. queue' \in [Users -> Seq(Writes)] /\ \A v \in Users \ {u} : queue'[v] = queue[v]
  BY <1>1, <1>3
<1>5. DOMAIN queue[u] = 1 .. Len(queue[u]) /\ Len(queue[u]) \in Nat
  BY <1>1, LenProperties
<1>6. DOMAIN queue'[u] = 1 .. Len(queue[u]) - 1
  BY <1>2, <1>3, LenProperties
<1>7. Len(queue[u]) >= 1
  BY <1>1, <1>5, EmptySeq
<1>8. queue[u][1] \in Writes
  BY <1>1, <1>5, <1>7, ElementOfSeq
<1>9. QED
  BY <1>2, <1>3, <1>4, <1>5, <1>6, <1>7, <1>8

-----------------------------------------------------------------------------
(***************************************************************************)
(* What each action does to the messages.                                  *)
(***************************************************************************)
LEMMA SendsText ==
    ASSUME TypeOK, NEW u \in Users, NEW m \in Ids, NEW c \in Users \cup Groups,
           SendText(u, m, c)
    PROVE  Puts(m, Message(u, c, NoPicture, clock[u] + 1, "get")) /\ msg[m].pc = "new"
<1>1. clock[u] + 1 \in Nat
  BY DEF TypeOK
<1>2. Message(u, c, NoPicture, clock[u] + 1, "get") \in Messages
  BY <1>1, NewMessage
<1>3. QED
  BY <1>2, PutStep DEF SendText, New

LEMMA SendsToGroup ==
    ASSUME TypeOK, NEW u \in Users, NEW m \in Ids, NEW c \in Users \cup Groups,
           SendToGroup(u, m, c)
    PROVE  Puts(m, Message(u, c, NoPicture, 0, "get")) /\ msg[m].pc = "new"
<1>1. Message(u, c, NoPicture, 0, "get") \in Messages
  BY NewMessage
<1>2. QED
  BY <1>1, PutStep DEF SendToGroup, New

LEMMA SendsPicture ==
    ASSUME TypeOK, NEW u \in Users, NEW m \in Ids, NEW c \in Users \cup Groups,
           NEW n \in Names, SendPicture(u, m, c, n)
    PROVE  /\ Puts(m, [Message(u, c, picked[u], 0, "put") EXCEPT !.name = {n}])
           /\ msg[m].pc = "new" /\ c \in Users
<1>1. picked[u] \in Pictures \cup {NoPicture}
  BY DEF TypeOK
<1>2. [Message(u, c, picked[u], 0, "put") EXCEPT !.name = {n}] \in Messages
  BY <1>1, NewMessage
<1>3. QED
  BY <1>2, PutStep DEF SendPicture, New

LEMMA AnswersGet ==
    ASSUME TypeOK, NEW u \in Users, NEW m \in Ids, AnswerGet(u, m)
    PROVE  /\ ToGroup(m) => Moves(m, "wait", clock[u] + 1) /\ Tick(u)
           /\ ~ToGroup(m) => Moves(m, "wait", msg[m].at) /\ UNCHANGED clock
           /\ msg[m].pc = "get" /\ msg[m].from = u
<1>1. msg[m].pc = "get" /\ msg[m].from = u /\ msg[m] \in Messages
  BY IsMessage DEF AnswerGet
<1>2. clock[u] + 1 \in Nat /\ msg[m].at \in Nat
  BY <1>1 DEF TypeOK, Messages
<1>3. CASE ToGroup(m)
  <2>1. msg' = [msg EXCEPT ![m].pc = "wait", ![m].at = clock[u] + 1]
    BY <1>3 DEF AnswerGet
  <2>2. QED
    BY <1>1, <1>2, <1>3, <2>1, MoveStep DEF AnswerGet
<1>4. CASE ~ToGroup(m)
  <2>1. msg' = [msg EXCEPT ![m].pc = "wait", ![m].at = msg[m].at]
    BY <1>1, <1>4 DEF AnswerGet, TypeOK, Messages
  <2>2. QED
    BY <1>1, <1>2, <1>4, <2>1, MoveStep DEF AnswerGet
<1>5. QED
  BY <1>3, <1>4

LEMMA FailsSend ==
    ASSUME TypeOK, NEW u \in Users, NEW m \in Ids, FailSend(u, m)
    PROVE  Moves(m, "lost", msg[m].at) /\ msg[m].pc \in {"put", "url", "get"}
BY PcStep DEF FailSend, Lose

LEMMA Uploads ==
    ASSUME TypeOK, NEW u \in Users, NEW m \in Ids, Upload(u, m)
    PROVE  Moves(m, "url", msg[m].at) /\ msg[m].pc = "put"
BY PcStep DEF Upload

LEMMA AnswersUrl ==
    ASSUME TypeOK, NEW u \in Users, NEW m \in Ids, AnswerUrl(u, m)
    PROVE  Moves(m, "get", clock[u] + 1) /\ msg[m].pc = "url" /\ msg[m].from = u
<1>1. msg[m].pc = "url" /\ msg[m].from = u /\ clock[u] + 1 \in Nat
  BY DEF AnswerUrl, TypeOK
<1>2. msg' = [msg EXCEPT ![m].pc = "get", ![m].at = clock[u] + 1]
  BY DEF AnswerUrl
<1>3. QED
  BY <1>1, <1>2, MoveStep

\* The oldest write of a phone, and what the server does with it.
Oldest(u) == Head(queue[u])

LEMMA OldestSound ==
    ASSUME TypeOK, QueueSound, NEW u \in Users, queue[u] # << >>
    PROVE  /\ Oldest(u) = queue[u][1] /\ 1 \in DOMAIN queue[u] /\ Oldest(u) \in Writes
           /\ Oldest(u).m \in Ids /\ msg[Oldest(u).m] \in Messages
           /\ msg[Oldest(u).m].from = u
           /\ msg[Oldest(u).m].pc \in {"wait", "orphan", "sent", "lost"}
           /\ Oldest(u).op = "add" =>
                  /\ msg[Oldest(u).m].pc \in {"wait", "orphan"}
                  /\ Oldest(u).room = HomeOf(Oldest(u).m)
           /\ Oldest(u).op = "remove" =>
                  Oldest(u).room = RemoveRoom(Oldest(u).m) /\ Oldest(u).m \notin gone
<1>1. queue[u] \in Seq(Writes)
  BY DEF TypeOK, Writes
<1>2. Oldest(u) = queue[u][1] /\ 1 \in DOMAIN queue[u] /\ Oldest(u) \in Writes
  BY <1>1, HeadTailProperties, LenProperties, EmptySeq DEF Oldest
<1>3. Oldest(u).m \in Ids
  BY <1>2 DEF Writes
<1>4. /\ msg[Oldest(u).m].from = u
      /\ msg[Oldest(u).m].pc \in {"wait", "orphan", "sent", "lost"}
      /\ Oldest(u).op = "add" =>
             /\ msg[Oldest(u).m].pc \in {"wait", "orphan"}
             /\ Oldest(u).room = Room(u, msg[Oldest(u).m].chat)
      /\ Oldest(u).op = "remove" =>
             Oldest(u).room = RemoveRoom(Oldest(u).m) /\ Oldest(u).m \notin gone
  BY <1>2 DEF QueueSound, RemovedFrom, RemoveRoom
<1>5. QED
  BY <1>2, <1>3, <1>4, IsMessage DEF HomeOf

LEMMA Commits ==
    ASSUME TypeOK, QueueSound, NEW u \in Users, CommitHead(u)
    PROVE  /\ queue[u] # << >> /\ queue' = [queue EXCEPT ![u] = Tail(@)]
           /\ UNCHANGED <<clock, objects, before, clash>>
           /\ \/ /\ Oldest(u).op = "add"
                 /\ Moves(Oldest(u).m, "sent", msg[Oldest(u).m].at)
                 /\ store' = store \cup {<<Oldest(u).room, Oldest(u).m>>}
                 /\ picked' \in {picked, [picked EXCEPT ![u] = NoPicture]}
                 /\ UNCHANGED removals
              \/ /\ Oldest(u).op = "remove" /\ UNCHANGED msg
                 /\ store' = store \ {<<Oldest(u).room, Oldest(u).m>>}
                 /\ gone' = gone \cup {Oldest(u).m} /\ asked' = asked \ {Oldest(u).m}
                 /\ reported' \in {reported, reported \cup {Oldest(u).m}}
                 /\ picked' \in {picked, [picked EXCEPT ![u] = NoPicture]}
<1>1. CASE Oldest(u).op = "add"
  <2>1. msg' = [msg EXCEPT ![Oldest(u).m].pc = "sent"]
    BY <1>1 DEF CommitHead, Oldest
  <2>2. queue[u] # << >>
    BY DEF CommitHead
  <2>3. Oldest(u).m \in Ids /\ msg[Oldest(u).m].pc # "new"
    BY <2>2, OldestSound
  <2>4. Moves(Oldest(u).m, "sent", msg[Oldest(u).m].at)
    BY <2>1, <2>3, PcStep
  <2>5. QED
    BY <1>1, <2>4 DEF CommitHead, Oldest, Ended, Drop, removals
<1>2. CASE Oldest(u).op # "add"
  BY <1>2 DEF CommitHead, Oldest, Drop
<1>3. QED
  BY <1>1, <1>2

LEMMA Refuses ==
    ASSUME TypeOK, QueueSound, NEW u \in Users, RefuseHead(u)
    PROVE  /\ queue[u] # << >> /\ queue' = [queue EXCEPT ![u] = Tail(@)]
           /\ UNCHANGED <<store, clock, objects, gone, reported, before, clash>>
           /\ \/ /\ Oldest(u).op = "add"
                 /\ Moves(Oldest(u).m, "lost", msg[Oldest(u).m].at)
                 /\ picked' \in {picked, [picked EXCEPT ![u] = NoPicture]}
                 /\ UNCHANGED asked
              \/ /\ Oldest(u).op = "remove" /\ UNCHANGED <<msg, picked>>
                 /\ asked' = asked \ {Oldest(u).m}
<1>1. CASE Oldest(u).op = "add"
  <2>1. msg' = [msg EXCEPT ![Oldest(u).m].pc = "lost"]
    BY <1>1 DEF RefuseHead, Oldest, Lose
  <2>2. queue[u] # << >>
    BY DEF RefuseHead
  <2>3. Oldest(u).m \in Ids /\ msg[Oldest(u).m].pc # "new"
    BY <2>2, OldestSound
  <2>4. Moves(Oldest(u).m, "lost", msg[Oldest(u).m].at)
    BY <2>1, <2>3, PcStep
  <2>5. QED
    BY <1>1, <2>4 DEF RefuseHead, Oldest, Ended, Drop
<1>2. CASE Oldest(u).op # "add"
  BY <1>2 DEF RefuseHead, Oldest
<1>3. QED
  BY <1>1, <1>2

\* A restart ends the handlers of a phone; a queued add stays.
LEMMA Restarts ==
    ASSUME TypeOK, NEW u \in Users, Crash(u)
    PROVE  /\ msg' \in [Ids -> Messages \cup {New}]
           /\ \A o \in Ids :
                /\ msg'[o].from = msg[o].from /\ msg'[o].chat = msg[o].chat
                /\ msg'[o].pic = msg[o].pic /\ msg'[o].name = msg[o].name
                /\ msg'[o].at = msg[o].at
                /\ \/ msg'[o].pc = msg[o].pc
                   \/ msg[o].pc = "wait" /\ msg'[o].pc = "orphan"
                   \/ msg[o].pc \in {"put", "url", "get"} /\ msg'[o].pc = "lost"
<1>1. \A o \in Ids \ Running(u) : msg'[o] = msg[o]
  BY DEF Crash
<1>2. ASSUME NEW o \in Ids, o \in Running(u)
      PROVE  /\ msg'[o] \in Messages
             /\ msg'[o].from = msg[o].from /\ msg'[o].chat = msg[o].chat
             /\ msg'[o].pic = msg[o].pic /\ msg'[o].name = msg[o].name
             /\ msg'[o].at = msg[o].at
             /\ \/ msg[o].pc = "wait" /\ msg'[o].pc = "orphan"
                \/ msg[o].pc \in {"put", "url", "get"} /\ msg'[o].pc = "lost"
  <2>1. msg[o].pc \in {"put", "url", "get", "wait"} /\ msg[o] \in Messages
    BY <1>2, IsMessage DEF Running
  <2>2. msg'[o] = [msg[o] EXCEPT !.pc = IF msg[o].pc = "wait" THEN "orphan" ELSE "lost"]
    BY <1>2, <2>1 DEF Crash, Messages
  <2>3. QED
    BY <2>1, <2>2 DEF Messages
<1>3. DOMAIN msg' = Ids /\ msg' = [o \in Ids |-> msg'[o]]
  BY DEF Crash
<1>4. \A o \in Ids : msg'[o] \in Messages \cup {New}
  BY <1>1, <1>2 DEF TypeOK
<1>5. QED
  BY <1>1, <1>2, <1>3, <1>4

-----------------------------------------------------------------------------
(***************************************************************************)
(* Types.                                                                  *)
(***************************************************************************)
\* A step has types when its messages and its queues have them.
LEMMA TypeOf ==
    ASSUME TypeOK, UNCHANGED plan,
           msg' \in [Ids -> Messages \cup {New}],
           queue' \in [Users -> Seq(Writes)],
           store' \subseteq Rooms \X Ids, clock' \in [Users -> Nat],
           picked' \in [Users -> Pictures \cup {NoPicture}],
           objects' \in [Names -> Pictures \cup {NoPicture}],
           asked' \cup gone' \cup reported' \subseteq Ids,
           before' \subseteq Ids \X Ids, clash' \subseteq Names
    PROVE  TypeOK'
BY DEF TypeOK, Writes

LEMMA MovesType ==
    ASSUME TypeOK, NEW m \in Ids, NEW pc, NEW at, Moves(m, pc, at) PROVE msg' \in [Ids -> Messages \cup {New}]
BY DEF Moves

LEMMA PutsType ==
    ASSUME NEW m \in Ids, NEW h, Puts(m, h) PROVE msg' \in [Ids -> Messages \cup {New}]
BY DEF Puts

LEMMA TickType ==
    ASSUME TypeOK, NEW u \in Users, Tick(u)
    PROVE  /\ clock' \in [Users -> Nat] /\ clock'[u] = clock[u] + 1
           /\ \A v \in Users : clock'[v] >= clock[v]
BY DEF TypeOK, Tick

LEMMA TypeStep ==
    ASSUME TypeOK, QueueSound, [Next]_vars PROVE TypeOK'
<1>q. queue \in [Users -> Seq(Writes)]
  BY DEF TypeOK, Writes
<1>1. CASE UNCHANGED vars
  BY <1>1 DEF vars, TypeOK
<1>2. ASSUME NEW u \in Users, UNCHANGED plan, CommitHead(u) PROVE TypeOK'
  <2>1. queue[u] # << >>
    BY <1>2 DEF CommitHead
  <2>2. Oldest(u).m \in Ids /\ Oldest(u) \in Writes
    BY <2>1, OldestSound
  <2>3. msg' \in [Ids -> Messages \cup {New}]
    <3>1. CASE Oldest(u).op = "add"
      BY <1>2, <2>2, <3>1, Commits, MovesType
    <3>2. CASE Oldest(u).op # "add"
      BY <1>2, <3>2, Commits DEF TypeOK
    <3>3. QED
      BY <3>1, <3>2
  <2>4. queue' \in [Users -> Seq(Writes)]
    BY <1>2, <2>1, Commits, Served
  <2>5. store' \subseteq Rooms \X Ids
    <3>1. <<Oldest(u).room, Oldest(u).m>> \in Rooms \X Ids
      BY <2>2 DEF Writes
    <3>2. store' = store \cup {<<Oldest(u).room, Oldest(u).m>>} \/ store' \subseteq store
      BY <1>2, Commits
    <3>3. QED
      BY <3>1, <3>2 DEF TypeOK
  <2>6. picked' \in [Users -> Pictures \cup {NoPicture}]
    BY <1>2, Commits DEF TypeOK
  <2>7. asked' \cup gone' \cup reported' \subseteq Ids
    <3>1. /\ asked' \subseteq asked
          /\ gone' \subseteq gone \cup {Oldest(u).m}
          /\ reported' \subseteq reported \cup {Oldest(u).m}
      BY <1>2, Commits DEF removals
    <3>2. QED
      BY <2>2, <3>1 DEF TypeOK
  <2>8. UNCHANGED <<clock, objects, before, clash>>
    BY <1>2, Commits
  <2>9. QED
    BY <1>2, <2>3, <2>4, <2>5, <2>6, <2>7, <2>8, TypeOf DEF TypeOK
<1>3. ASSUME NEW u \in Users, UNCHANGED plan, RefuseHead(u) PROVE TypeOK'
  <2>1. queue[u] # << >>
    BY <1>3 DEF RefuseHead
  <2>2. Oldest(u).m \in Ids
    BY <2>1, OldestSound
  <2>3. msg' \in [Ids -> Messages \cup {New}]
    <3>1. CASE Oldest(u).op = "add"
      BY <1>3, <2>2, <3>1, Refuses, MovesType
    <3>2. CASE Oldest(u).op # "add"
      BY <1>3, <3>2, Refuses DEF TypeOK
    <3>3. QED
      BY <3>1, <3>2
  <2>4. queue' \in [Users -> Seq(Writes)]
    BY <1>3, <2>1, Refuses, Served
  <2>5. picked' \in [Users -> Pictures \cup {NoPicture}] /\ asked' \subseteq Ids
    BY <1>3, Refuses DEF TypeOK
  <2>6. UNCHANGED <<store, clock, objects, gone, reported, before, clash>>
    BY <1>3, Refuses
  <2>7. QED
    BY <1>3, <2>3, <2>4, <2>5, <2>6, TypeOf DEF TypeOK
<1>4. ASSUME NEW u \in Users, UNCHANGED plan, Crash(u) PROVE TypeOK'
  <2>1. msg' \in [Ids -> Messages \cup {New}]
    BY <1>4, Restarts
  <2>2. QED
    BY <1>4, <1>q, <2>1, TypeOf DEF Crash, Drop, TypeOK
<1>5. ASSUME NEW u \in Users, UNCHANGED plan, CancelPicture(u) PROVE TypeOK'
  BY <1>5, <1>q, TypeOf DEF CancelPicture, Drop, removals, TypeOK
<1>6. ASSUME NEW u \in Users, NEW p \in Pictures, UNCHANGED plan, Pick(u, p) PROVE TypeOK'
  BY <1>6, <1>q, TypeOf DEF Pick, removals, TypeOK
<1>7. ASSUME NEW u \in Users, NEW m \in Ids, UNCHANGED plan, AnswerGet(u, m) PROVE TypeOK'
  <2>1. msg' \in [Ids -> Messages \cup {New}]
    BY <1>7, AnswersGet, MovesType
  <2>5. clock' \in [Users -> Nat]
    BY <1>7, AnswersGet, TickType DEF TypeOK
  <2>2. msg[m] \in Messages
    BY <1>7, AnswersGet, IsMessage
  <2>3. Room(u, msg[m].chat) \in Rooms
    BY <2>2, RoomType DEF Messages
  <2>4. queue' \in [Users -> Seq(Writes)]
    BY <1>7, <2>3, Joined DEF AnswerGet
  <2>6. QED
    BY <1>7, <2>1, <2>4, <2>5, TypeOf DEF AnswerGet, pictures, removals, TypeOK
<1>8. ASSUME NEW u \in Users, NEW m \in Ids, UNCHANGED plan, FailSend(u, m) PROVE TypeOK'
  <2>1. msg' \in [Ids -> Messages \cup {New}]
    BY <1>8, FailsSend, MovesType
  <2>2. picked' \in [Users -> Pictures \cup {NoPicture}]
    BY <1>8 DEF FailSend, Ended, Drop, TypeOK
  <2>3. QED
    BY <1>8, <1>q, <2>1, <2>2, TypeOf DEF FailSend, removals, TypeOK
<1>9. ASSUME NEW u \in Users, NEW m \in Ids, UNCHANGED plan, Upload(u, m) PROVE TypeOK'
  <2>1. msg' \in [Ids -> Messages \cup {New}]
    BY <1>9, Uploads, MovesType
  <2>2. msg[m] \in Messages
    BY <1>9, Uploads, IsMessage
  <2>3. objects' \in [Names -> Pictures \cup {NoPicture}]
    BY <1>9, <2>2 DEF Upload, Messages, TypeOK
  <2>4. QED
    BY <1>9, <1>q, <2>1, <2>3, TypeOf DEF Upload, removals, TypeOK
<1>10. ASSUME NEW u \in Users, NEW m \in Ids, UNCHANGED plan, AnswerUrl(u, m) PROVE TypeOK'
  <2>1. msg' \in [Ids -> Messages \cup {New}]
    BY <1>10, AnswersUrl, MovesType
  <2>2. QED
    BY <1>10, <1>q, <2>1, TypeOf, TickType DEF AnswerUrl, pictures, removals, TypeOK
<1>11. ASSUME NEW u \in Users, NEW m \in Ids, UNCHANGED plan, Remove(u, m) PROVE TypeOK'
  <2>1. msg[m] \in Messages
    BY <1>11, IsMessage DEF Remove, Written
  <2>2. RemoveRoom(m) \in Rooms
    BY <2>1 DEF RemoveRoom, Rooms, Messages
  <2>3. queue' \in [Users -> Seq(Writes)]
    BY <1>11, <2>2, Joined DEF Remove
  <2>4. QED
    BY <1>11, <2>3, TypeOf DEF Remove, pictures, TypeOK
<1>12. ASSUME NEW u \in Users, NEW m \in Ids, NEW c \in Users \cup Groups, UNCHANGED plan,
              SendText(u, m, c) PROVE TypeOK'
  <2>1. msg' \in [Ids -> Messages \cup {New}]
    BY <1>12, SendsText, PutsType
  <2>2. before' \subseteq Ids \X Ids
    BY <1>12 DEF SendText, Precedes, Earlier, TypeOK
  <2>3. QED
    BY <1>12, <1>q, <2>1, <2>2, TypeOf, TickType DEF SendText, pictures, removals, TypeOK
<1>13. ASSUME NEW u \in Users, NEW m \in Ids, NEW c \in Users \cup Groups, UNCHANGED plan,
              SendToGroup(u, m, c) PROVE TypeOK'
  <2>1. msg' \in [Ids -> Messages \cup {New}]
    BY <1>13, SendsToGroup, PutsType
  <2>2. before' \subseteq Ids \X Ids
    BY <1>13 DEF SendToGroup, Precedes, Earlier, TypeOK
  <2>3. QED
    BY <1>13, <1>q, <2>1, <2>2, TypeOf DEF SendToGroup, pictures, removals, TypeOK
<1>14. ASSUME NEW u \in Users, NEW m \in Ids, NEW c \in Users \cup Groups, NEW n \in Names,
              UNCHANGED plan, SendPicture(u, m, c, n) PROVE TypeOK'
  <2>1. msg' \in [Ids -> Messages \cup {New}]
    BY <1>14, SendsPicture, PutsType
  <2>2. before' \subseteq Ids \X Ids
    BY <1>14 DEF SendPicture, Precedes, Earlier, TypeOK
  <2>3. clash' \subseteq Names /\ picked' \in [Users -> Pictures \cup {NoPicture}]
    BY <1>14 DEF SendPicture, Drop, TypeOK
  <2>4. QED
    BY <1>14, <1>q, <2>1, <2>2, <2>3, TypeOf DEF SendPicture, removals, TypeOK
<1>15. QED
  BY <1>1, <1>2, <1>3, <1>4, <1>5, <1>6, <1>7, <1>8, <1>9, <1>10, <1>11, <1>12, <1>13, <1>14
     DEF Next

-----------------------------------------------------------------------------
(***************************************************************************)
(* Queues.                                                                 *)
(***************************************************************************)
\* What a phone lists has an add in the queue or on the server.
LEMMA ListedMeans ==
    ASSUME TypeOK, QueueSound, StoreSound, NEW u \in Users,
           NEW c \in Users \cup Groups, NEW m \in Listed(u, c)
    PROVE  m \in Ids /\ msg[m].pc \in {"wait", "orphan", "sent"}
<1> DEFINE on == {i \in DOMAIN queue[u] : queue[u][i].m = m /\ queue[u][i].room = Room(u, c)}
<1>1. m \in Ids
  BY DEF Listed
<1>2. CASE on = {}
  <2>1. <<Room(u, c), m>> \in store
    BY <1>2 DEF Listed
  <2>2. QED
    BY <1>1, <2>1, RoomType DEF StoreSound
<1>3. CASE on # {}
  <2>1. PICK i \in DOMAIN queue[u] : queue[u][i].m = m /\ queue[u][i].op = "add"
    BY <1>3 DEF Listed
  <2>2. msg[m].pc \in {"wait", "orphan"}
    BY <2>1 DEF QueueSound
  <2>3. QED
    BY <1>1, <2>2
<1>4. QED
  BY <1>2, <1>3

\* Entries of a queue are writes of messages.
LEMMA EntryType ==
    ASSUME TypeOK, NEW u \in Users, NEW i \in DOMAIN queue[u]
    PROVE  queue[u][i] \in Writes /\ queue[u][i].m \in Ids
<1>1. queue[u] \in Seq(Writes)
  BY DEF TypeOK, Writes
<1>2. queue[u][i] \in Writes
  BY <1>1, ElementOfSeq, LenProperties
<1>3. QED
  BY <1>2 DEF Writes

\* A step that leaves the queues alone does not take a message back.
LEMMA QueueKept ==
    ASSUME QueueSound, UNCHANGED <<queue, gone>>,
           \A o \in Ids : msg[o].pc \in {"wait", "orphan", "sent", "lost"} =>
               /\ msg'[o].from = msg[o].from /\ msg'[o].chat = msg[o].chat
               /\ msg'[o].pc \in {"wait", "orphan", "sent", "lost"}
               /\ msg[o].pc \in {"wait", "orphan"} => msg'[o].pc \in {"wait", "orphan"},
           TypeOK
    PROVE  QueueSound'
<1> SUFFICES ASSUME NEW u \in Users, NEW i \in DOMAIN queue[u]
             PROVE  /\ msg'[queue[u][i].m].pc \in {"wait", "orphan", "sent", "lost"}
                    /\ msg'[queue[u][i].m].from = u
                    /\ queue[u][i].op = "add" =>
                           /\ msg'[queue[u][i].m].pc \in {"wait", "orphan"}
                           /\ queue[u][i].room = Room(u, msg'[queue[u][i].m].chat)
                    /\ queue[u][i].op = "remove" =>
                           /\ queue[u][i].room = RemovedFrom(msg'[queue[u][i].m])
                           /\ queue[u][i].m \notin gone
  BY DEF QueueSound
<1>1. queue[u][i].m \in Ids
  BY EntryType
<1>2. /\ msg[queue[u][i].m].pc \in {"wait", "orphan", "sent", "lost"}
      /\ msg[queue[u][i].m].from = u
      /\ queue[u][i].op = "add" =>
             /\ msg[queue[u][i].m].pc \in {"wait", "orphan"}
             /\ queue[u][i].room = Room(u, msg[queue[u][i].m].chat)
      /\ queue[u][i].op = "remove" =>
             /\ queue[u][i].room = RemovedFrom(msg[queue[u][i].m])
             /\ queue[u][i].m \notin gone
  BY DEF QueueSound
<1>3. msg'[queue[u][i].m].from = u /\ msg'[queue[u][i].m].chat = msg[queue[u][i].m].chat
  BY <1>1, <1>2
<1>4. RemovedFrom(msg'[queue[u][i].m]) = RemovedFrom(msg[queue[u][i].m])
  BY <1>2, <1>3 DEF RemovedFrom
<1>5. QED
  BY <1>1, <1>2, <1>3, <1>4

\* A write that joins is sound when the message is, and the queue was.
LEMMA QueueJoined ==
    ASSUME TypeOK, QueueSound, QueueOnce, NEW u \in Users, NEW m \in Ids,
           NEW o \in {"add", "remove"}, NEW r \in Rooms, Enqueue(u, o, m, r),
           gone' = gone, \A k \in Ids \ {m} : msg'[k] = msg[k],
           msg[m].from = u, msg'[m].from = u, msg'[m].chat = msg[m].chat,
           \/ o = "add" /\ msg[m].pc = "get" /\ msg'[m].pc = "wait" /\ r = Room(u, msg[m].chat)
           \/ /\ o = "remove" /\ msg[m].pc \in {"wait", "orphan", "sent"} /\ msg' = msg
              /\ r = RemovedFrom(msg[m]) /\ m \notin gone /\ ~Asking(m)
    PROVE  QueueSound' /\ QueueOnce'
<1> DEFINE n == Len(queue[u]) + 1
<1>q. /\ \A v \in Users \ {u} : queue'[v] = queue[v]
      /\ n \in DOMAIN queue'[u] /\ queue'[u][n] = Entry(o, m, r)
      /\ \A i \in DOMAIN queue[u] : i \in DOMAIN queue'[u] /\ queue'[u][i] = queue[u][i]
      /\ \A i \in DOMAIN queue'[u] : i \in DOMAIN queue[u] \/ i = n
      /\ \A i \in DOMAIN queue[u] : i \in Nat /\ i < n
      /\ n \in Nat
  BY Joined
<1>e. Entry(o, m, r).op = o /\ Entry(o, m, r).m = m /\ Entry(o, m, r).room = r
  BY DEF Entry
<1> HIDE DEF n
\* The entries of m that are there already.
<1>1. ASSUME NEW v \in Users, NEW i \in DOMAIN queue[v], queue[v][i].m = m
      PROVE  v = u /\ o = "remove" /\ msg' = msg /\ queue[v][i].op = "add"
  <2>1. msg[m].pc \in {"wait", "orphan", "sent", "lost"} /\ v = u
    BY <1>1 DEF QueueSound
  <2>2. o = "remove" /\ msg' = msg /\ ~Asking(m)
    BY <2>1
  <2>3. queue[u][i].op # "remove"
    BY <1>1, <2>1, <2>2 DEF Asking
  <2>4. QED
    BY <1>1, <2>1, <2>2, <2>3, EntryType DEF Writes
<1>2. ASSUME NEW v \in Users, NEW i \in DOMAIN queue[v]
      PROVE  /\ msg'[queue[v][i].m] = msg[queue[v][i].m]
             /\ RemovedFrom(msg'[queue[v][i].m]) = RemovedFrom(msg[queue[v][i].m])
  <2>1. queue[v][i].m \in Ids
    BY EntryType
  <2>2. msg'[queue[v][i].m] = msg[queue[v][i].m]
    BY <1>1, <2>1
  <2>3. QED
    BY <2>2
<1>3. QueueSound'
  <2> SUFFICES ASSUME NEW v \in Users, NEW i \in DOMAIN queue'[v]
               PROVE  /\ msg'[queue'[v][i].m].pc \in {"wait", "orphan", "sent", "lost"}
                      /\ msg'[queue'[v][i].m].from = v
                      /\ queue'[v][i].op = "add" =>
                             /\ msg'[queue'[v][i].m].pc \in {"wait", "orphan"}
                             /\ queue'[v][i].room = Room(v, msg'[queue'[v][i].m].chat)
                      /\ queue'[v][i].op = "remove" =>
                             /\ queue'[v][i].room = RemovedFrom(msg'[queue'[v][i].m])
                             /\ queue'[v][i].m \notin gone
    BY DEF QueueSound
  <2>1. CASE i \in DOMAIN queue[v] /\ queue'[v][i] = queue[v][i]
    <3>1. /\ msg[queue[v][i].m].pc \in {"wait", "orphan", "sent", "lost"}
          /\ msg[queue[v][i].m].from = v
          /\ queue[v][i].op = "add" =>
                 /\ msg[queue[v][i].m].pc \in {"wait", "orphan"}
                 /\ queue[v][i].room = Room(v, msg[queue[v][i].m].chat)
          /\ queue[v][i].op = "remove" =>
                 /\ queue[v][i].room = RemovedFrom(msg[queue[v][i].m])
                 /\ queue[v][i].m \notin gone
      BY <2>1 DEF QueueSound
    <3>2. /\ msg'[queue[v][i].m] = msg[queue[v][i].m]
          /\ RemovedFrom(msg'[queue[v][i].m]) = RemovedFrom(msg[queue[v][i].m])
      BY <1>2, <2>1
    <3>3. QED
      BY <2>1, <3>1, <3>2
  <2>2. CASE v = u /\ i = n
    <3>1. queue'[v][i].op = o /\ queue'[v][i].m = m /\ queue'[v][i].room = r
      BY <1>q, <1>e, <2>2
    <3>2. QED
      BY <2>2, <3>1
  <2>3. QED
    BY <1>q, <2>1, <2>2
<1>4. QueueOnce'
  <2> SUFFICES ASSUME NEW v \in Users, NEW i \in DOMAIN queue'[v], NEW j \in DOMAIN queue'[v],
                      queue'[v][j].m = queue'[v][i].m
               PROVE  /\ queue'[v][j].op = queue'[v][i].op => i = j
                      /\ queue'[v][i].op = "add" /\ queue'[v][j].op = "remove" => i < j
    BY DEF QueueOnce
  <2>1. CASE /\ i \in DOMAIN queue[v] /\ queue'[v][i] = queue[v][i]
             /\ j \in DOMAIN queue[v] /\ queue'[v][j] = queue[v][j]
    BY <2>1 DEF QueueOnce
  <2>2. CASE v = u /\ i = n /\ j # n
    <3>1. j \in DOMAIN queue[u] /\ queue'[u][j] = queue[u][j] /\ queue'[u][i] = Entry(o, m, r)
      BY <1>q, <2>2
    <3>2. o = "remove" /\ queue[u][j].op = "add"
      BY <1>1, <1>e, <2>2, <3>1
    <3>3. QED
      BY <1>e, <2>2, <3>1, <3>2
  <2>3. CASE v = u /\ i # n /\ j = n
    <3>1. /\ i \in DOMAIN queue[u] /\ queue'[u][i] = queue[u][i] /\ queue'[u][j] = Entry(o, m, r)
          /\ i < n
      BY <1>q, <2>3
    <3>2. o = "remove" /\ queue[u][i].op = "add"
      BY <1>1, <1>e, <2>3, <3>1
    <3>3. QED
      BY <1>e, <2>3, <3>1, <3>2
  <2>4. CASE v = u /\ i = n /\ j = n
    BY <1>e, <1>q, <2>4
  <2>5. QED
    BY <1>q, <2>1, <2>2, <2>3, <2>4
<1>5. QED
  BY <1>3, <1>4

\* The oldest write goes; what it did concerns no other write.
LEMMA QueueServed ==
    ASSUME TypeOK, QueueSound, QueueOnce, NEW u \in Users, queue[u] # << >>,
           queue' = [queue EXCEPT ![u] = Tail(@)],
           \A o \in Ids : o # Oldest(u).m => msg'[o] = msg[o],
           gone' \in {gone, gone \cup {Oldest(u).m}},
           \/ /\ Oldest(u).op = "add" /\ gone' = gone
              /\ msg'[Oldest(u).m].pc \in {"sent", "lost"}
              /\ msg'[Oldest(u).m].from = msg[Oldest(u).m].from
              /\ msg'[Oldest(u).m].chat = msg[Oldest(u).m].chat
           \/ Oldest(u).op = "remove" /\ msg' = msg
    PROVE  QueueSound' /\ QueueOnce'
<1>q. /\ \A v \in Users \ {u} : queue'[v] = queue[v]
      /\ 1 \in DOMAIN queue[u] /\ Oldest(u) = queue[u][1]
      /\ \A i \in DOMAIN queue'[u] :
             i \in Nat /\ i + 1 \in DOMAIN queue[u] /\ queue'[u][i] = queue[u][i + 1]
      /\ \A i \in DOMAIN queue[u] : i \in Nat /\ i >= 1
  BY Served DEF Oldest
<1>m. Oldest(u).m \in Ids /\ msg[Oldest(u).m].from = u
  BY OldestSound
\* Where an entry that remains was, and that it is another write.
<1>1. ASSUME NEW v \in Users, NEW i \in DOMAIN queue'[v]
      PROVE  \E k \in DOMAIN queue[v] :
                /\ queue'[v][i] = queue[v][k] /\ (v = u => k = i + 1 /\ k # 1)
                /\ v # u => k = i
  <2>1. CASE v = u
    BY <1>q, <2>1
  <2>2. CASE v # u
    BY <1>q, <2>2
  <2>3. QED
    BY <2>1, <2>2
<1>2. ASSUME NEW v \in Users, NEW k \in DOMAIN queue[v], v = u => k # 1,
             queue[v][k].m = Oldest(u).m
      PROVE  v = u /\ queue[v][k].op # Oldest(u).op
  <2>1. v = u
    BY <1>2, <1>m DEF QueueSound
  <2>2. QED
    BY <1>2, <1>q, <2>1 DEF QueueOnce
<1>3. QueueSound'
  <2> SUFFICES ASSUME NEW v \in Users, NEW i \in DOMAIN queue'[v]
               PROVE  /\ msg'[queue'[v][i].m].pc \in {"wait", "orphan", "sent", "lost"}
                      /\ msg'[queue'[v][i].m].from = v
                      /\ queue'[v][i].op = "add" =>
                             /\ msg'[queue'[v][i].m].pc \in {"wait", "orphan"}
                             /\ queue'[v][i].room = Room(v, msg'[queue'[v][i].m].chat)
                      /\ queue'[v][i].op = "remove" =>
                             /\ queue'[v][i].room = RemovedFrom(msg'[queue'[v][i].m])
                             /\ queue'[v][i].m \notin gone'
    BY DEF QueueSound
  <2>1. PICK k \in DOMAIN queue[v] : queue'[v][i] = queue[v][k] /\ (v = u => k # 1)
    BY <1>1
  <2>2. /\ msg[queue[v][k].m].pc \in {"wait", "orphan", "sent", "lost"}
        /\ msg[queue[v][k].m].from = v
        /\ queue[v][k].op = "add" =>
               /\ msg[queue[v][k].m].pc \in {"wait", "orphan"}
               /\ queue[v][k].room = Room(v, msg[queue[v][k].m].chat)
        /\ queue[v][k].op = "remove" =>
               /\ queue[v][k].room = RemovedFrom(msg[queue[v][k].m])
               /\ queue[v][k].m \notin gone
    BY DEF QueueSound
  <2>3. queue[v][k].m \in Ids /\ queue[v][k].op \in {"add", "remove"}
    BY EntryType DEF Writes
  <2>4. RemovedFrom(msg'[queue'[v][i].m]) = RemovedFrom(msg[queue[v][k].m])
    <3>1. /\ msg'[queue[v][k].m].from = msg[queue[v][k].m].from
          /\ msg'[queue[v][k].m].chat = msg[queue[v][k].m].chat
      BY <2>3
    <3>2. QED
      BY <2>1, <3>1 DEF RemovedFrom
  <2>5. CASE queue[v][k].m = Oldest(u).m
    <3>1. queue[v][k].op # Oldest(u).op
      BY <1>2, <2>1, <2>5
    <3>2. CASE Oldest(u).op = "add"
      BY <2>1, <2>2, <2>3, <2>4, <2>5, <3>1, <3>2
    <3>3. CASE Oldest(u).op = "remove"
      BY <2>1, <2>2, <2>3, <2>4, <2>5, <3>1, <3>3
    <3>4. QED
      BY <3>2, <3>3
  <2>6. CASE queue[v][k].m # Oldest(u).m
    BY <2>1, <2>2, <2>3, <2>4, <2>6
  <2>7. QED
    BY <2>5, <2>6
<1>4. QueueOnce'
  <2> SUFFICES ASSUME NEW v \in Users, NEW i \in DOMAIN queue'[v], NEW j \in DOMAIN queue'[v],
                      queue'[v][j].m = queue'[v][i].m
               PROVE  /\ queue'[v][j].op = queue'[v][i].op => i = j
                      /\ queue'[v][i].op = "add" /\ queue'[v][j].op = "remove" => i < j
    BY DEF QueueOnce
  <2>1. CASE v = u
    <3>1. /\ i \in Nat /\ j \in Nat /\ i + 1 \in DOMAIN queue[u] /\ j + 1 \in DOMAIN queue[u]
          /\ queue'[u][i] = queue[u][i + 1] /\ queue'[u][j] = queue[u][j + 1]
      BY <1>q, <2>1
    <3>2. /\ queue[u][j + 1].op = queue[u][i + 1].op => i + 1 = j + 1
          /\ queue[u][i + 1].op = "add" /\ queue[u][j + 1].op = "remove" => i + 1 < j + 1
      BY <2>1, <3>1 DEF QueueOnce
    <3>3. QED
      BY <2>1, <3>1, <3>2
  <2>2. CASE v # u
    BY <1>q, <2>2 DEF QueueOnce
  <2>3. QED
    BY <2>1, <2>2
<1>5. QED
  BY <1>3, <1>4

-----------------------------------------------------------------------------
(***************************************************************************)
(* The steps seen from the queues and the collections.                     *)
(***************************************************************************)
\* Nothing reaches or leaves a queue; handlers before their add may go on.
Calm ==
    /\ UNCHANGED <<queue, store, gone, reported>>
    /\ \A o \in Ids :
        /\ msg[o].pc \in {"wait", "orphan", "sent", "lost"} =>
               /\ msg'[o].from = msg[o].from /\ msg'[o].chat = msg[o].chat
               /\ msg'[o].pc = msg[o].pc \/ (msg[o].pc = "wait" /\ msg'[o].pc = "orphan")
        /\ msg'[o].pc \in {"wait", "orphan", "sent"} =>
               msg[o].pc \in {"wait", "orphan", "sent"}

LEMMA CalmPut ==
    ASSUME NEW m \in Ids, NEW h, Puts(m, h), msg[m].pc = "new", h.pc \in {"put", "get"},
           UNCHANGED <<queue, store, gone, reported>>
    PROVE  Calm
BY DEF Calm, Puts

LEMMA CalmMove ==
    ASSUME NEW m \in Ids, NEW pc \in {"url", "get", "lost"}, NEW at, Moves(m, pc, at),
           msg[m].pc \in {"put", "url", "get"},
           UNCHANGED <<queue, store, gone, reported>>
    PROVE  Calm
BY DEF Calm, Moves

LEMMA StepKinds ==
    ASSUME TypeOK, [Next]_vars
    PROVE  \/ Calm
           \/ \E u \in Users : CommitHead(u) \/ RefuseHead(u)
           \/ \E u \in Users : \E m \in Ids : AnswerGet(u, m) \/ Remove(u, m)
<1>1. CASE UNCHANGED vars
  BY <1>1 DEF vars, Calm
<1>2. ASSUME NEW u \in Users, Crash(u) PROVE Calm
  <2>1. UNCHANGED <<queue, store, gone, reported>>
    BY <1>2 DEF Crash
  <2>2. QED
    BY <1>2, <2>1, Restarts DEF Calm
<1>3. ASSUME NEW u \in Users, CancelPicture(u) PROVE Calm
  BY <1>3 DEF CancelPicture, removals, Calm
<1>4. ASSUME NEW u \in Users, NEW p \in Pictures, Pick(u, p) PROVE Calm
  BY <1>4 DEF Pick, removals, Calm
<1>5. ASSUME NEW u \in Users, NEW m \in Ids, FailSend(u, m) PROVE Calm
  <2>1. UNCHANGED <<queue, store, gone, reported>>
    BY <1>5 DEF FailSend, removals
  <2>2. QED
    BY <1>5, <2>1, FailsSend, CalmMove
<1>6. ASSUME NEW u \in Users, NEW m \in Ids, Upload(u, m) PROVE Calm
  <2>1. UNCHANGED <<queue, store, gone, reported>>
    BY <1>6 DEF Upload, removals
  <2>2. QED
    BY <1>6, <2>1, Uploads, CalmMove
<1>7. ASSUME NEW u \in Users, NEW m \in Ids, AnswerUrl(u, m) PROVE Calm
  <2>1. UNCHANGED <<queue, store, gone, reported>>
    BY <1>7 DEF AnswerUrl, removals
  <2>2. QED
    BY <1>7, <2>1, AnswersUrl, CalmMove
<1>8. ASSUME NEW u \in Users, NEW m \in Ids, NEW c \in Users \cup Groups, SendText(u, m, c)
      PROVE  Calm
  <2>1. UNCHANGED <<queue, store, gone, reported>>
    BY <1>8 DEF SendText, removals
  <2>2. Message(u, c, NoPicture, clock[u] + 1, "get").pc = "get"
    BY DEF Message
  <2>3. QED
    BY <1>8, <2>1, <2>2, SendsText, CalmPut
<1>9. ASSUME NEW u \in Users, NEW m \in Ids, NEW c \in Users \cup Groups, SendToGroup(u, m, c)
      PROVE  Calm
  <2>1. UNCHANGED <<queue, store, gone, reported>>
    BY <1>9 DEF SendToGroup, removals
  <2>2. Message(u, c, NoPicture, 0, "get").pc = "get"
    BY DEF Message
  <2>3. QED
    BY <1>9, <2>1, <2>2, SendsToGroup, CalmPut
<1>10. ASSUME NEW u \in Users, NEW m \in Ids, NEW c \in Users \cup Groups, NEW n \in Names,
              SendPicture(u, m, c, n)
       PROVE  Calm
  <2>1. UNCHANGED <<queue, store, gone, reported>>
    BY <1>10 DEF SendPicture, removals
  <2>2. [Message(u, c, picked[u], 0, "put") EXCEPT !.name = {n}].pc = "put"
    BY DEF Message
  <2>3. QED
    BY <1>10, <2>1, <2>2, SendsPicture, CalmPut
<1>11. QED
  BY <1>1, <1>2, <1>3, <1>4, <1>5, <1>6, <1>7, <1>8, <1>9, <1>10 DEF Next

\* The queues.
LEMMA QueueStep ==
    ASSUME TypeOK, QueueSound, QueueOnce, StoreSound, [Next]_vars
    PROVE  QueueSound' /\ QueueOnce'
<1>1. CASE Calm
  <2>1. QueueSound'
    BY <1>1, QueueKept DEF Calm
  <2>2. QED
    BY <1>1, <2>1 DEF Calm, QueueOnce
<1>2. ASSUME NEW u \in Users, CommitHead(u) PROVE QueueSound' /\ QueueOnce'
  <2>1. queue[u] # << >> /\ queue' = [queue EXCEPT ![u] = Tail(@)]
    BY <1>2, Commits
  <2>2. CASE Oldest(u).op = "add"
    <3>1. Moves(Oldest(u).m, "sent", msg[Oldest(u).m].at) /\ gone' = gone
      BY <1>2, <2>2, Commits DEF removals
    <3>2. Oldest(u).m \in Ids
      BY <2>1, OldestSound
    <3>3. QED
      BY <2>1, <2>2, <3>1, <3>2, QueueServed DEF Moves
  <2>3. CASE Oldest(u).op # "add"
    BY <1>2, <2>1, <2>3, Commits, QueueServed
  <2>4. QED
    BY <2>2, <2>3
<1>3. ASSUME NEW u \in Users, RefuseHead(u) PROVE QueueSound' /\ QueueOnce'
  <2>1. queue[u] # << >> /\ queue' = [queue EXCEPT ![u] = Tail(@)] /\ gone' = gone
    BY <1>3, Refuses
  <2>2. CASE Oldest(u).op = "add"
    <3>1. Moves(Oldest(u).m, "lost", msg[Oldest(u).m].at)
      BY <1>3, <2>2, Refuses
    <3>2. Oldest(u).m \in Ids
      BY <2>1, OldestSound
    <3>3. QED
      BY <2>1, <2>2, <3>1, <3>2, QueueServed DEF Moves
  <2>3. CASE Oldest(u).op # "add"
    BY <1>3, <2>1, <2>3, Refuses, QueueServed
  <2>4. QED
    BY <2>2, <2>3
<1>4. ASSUME NEW u \in Users, NEW m \in Ids, AnswerGet(u, m) PROVE QueueSound' /\ QueueOnce'
  <2>1. /\ msg[m].pc = "get" /\ msg[m].from = u /\ msg[m] \in Messages
        /\ msg'[m].pc = "wait" /\ msg'[m].from = u /\ msg'[m].chat = msg[m].chat
        /\ \A o \in Ids \ {m} : msg'[o] = msg[o]
    BY <1>4, AnswersGet, IsMessage DEF Moves
  <2>2. Room(u, msg[m].chat) \in Rooms
    BY <2>1, RoomType DEF Messages
  <2>3. Enqueue(u, "add", m, Room(u, msg[m].chat)) /\ gone' = gone
    BY <1>4 DEF AnswerGet, removals
  <2>4. QED
    BY <2>1, <2>2, <2>3, QueueJoined
<1>5. ASSUME NEW u \in Users, NEW m \in Ids, Remove(u, m) PROVE QueueSound' /\ QueueOnce'
  <2>1. msg[m] \in Messages /\ msg[m].from = u
    BY <1>5, IsMessage DEF Remove, Written
  <2>2. RemoveRoom(m) \in Rooms /\ RemoveRoom(m) = RemovedFrom(msg[m])
    BY <2>1 DEF RemoveRoom, RemovedFrom, Rooms, Messages
  <2>3. /\ Enqueue(u, "remove", m, RemovedFrom(msg[m])) /\ gone' = gone /\ msg' = msg
        /\ m \notin gone /\ ~Asking(m)
    BY <1>5, <2>2 DEF Remove
  <2>4. msg[m].chat \in Users \cup Groups /\ m \in Listed(u, msg[m].chat)
    BY <1>5, <2>1 DEF Remove, Messages
  <2>5. msg[m].pc \in {"wait", "orphan", "sent"}
    BY <2>4, ListedMeans
  <2>6. QED
    BY <2>1, <2>2, <2>3, <2>5, QueueJoined
<1>6. QED
  BY <1>1, <1>2, <1>3, <1>4, <1>5, StepKinds

\* An add stays in its queue until the server takes or refuses it.
LEMMA AddQueuedStep ==
    ASSUME TypeOK, QueueSound, QueueOnce, StoreSound, AddQueued, [Next]_vars
    PROVE  AddQueued'
<1> SUFFICES ASSUME NEW o \in Ids, msg'[o].pc \in {"wait", "orphan"}
             PROVE  \E i \in DOMAIN queue'[msg'[o].from] :
                        /\ queue'[msg'[o].from][i].m = o
                        /\ queue'[msg'[o].from][i].op = "add"
  BY DEF AddQueued
<1>1. CASE Calm
  <2>1. msg[o].pc \in {"wait", "orphan"} /\ msg'[o].from = msg[o].from /\ queue' = queue
    BY <1>1 DEF Calm
  <2>2. QED
    BY <2>1 DEF AddQueued
<1>2. ASSUME NEW u \in Users, queue[u] # << >>, queue' = [queue EXCEPT ![u] = Tail(@)],
             msg'[o] = msg[o], Oldest(u).m = o => Oldest(u).op # "add"
      PROVE  \E i \in DOMAIN queue'[msg'[o].from] :
                 /\ queue'[msg'[o].from][i].m = o
                 /\ queue'[msg'[o].from][i].op = "add"
  <2>1. msg[o].pc \in {"wait", "orphan"} /\ msg[o] \in Messages
    BY <1>2, IsMessage
  <2>2. msg[o].from \in Users
    BY <2>1 DEF Messages
  <2>3. \E i \in DOMAIN queue[msg[o].from] :
            queue[msg[o].from][i].m = o /\ queue[msg[o].from][i].op = "add"
    BY <2>1 DEF AddQueued
  <2>4. \E i \in DOMAIN queue'[msg[o].from] :
            queue'[msg[o].from][i].m = o /\ queue'[msg[o].from][i].op = "add"
    <3>1. PICK v \in Users : v = msg[o].from
      BY <2>2
    <3>2. PICK j \in DOMAIN queue[v] : queue[v][j].m = o /\ queue[v][j].op = "add"
      BY <2>3, <3>1
    <3>3. \E i \in DOMAIN queue'[v] : queue'[v][i].m = o /\ queue'[v][i].op = "add"
      <4>1. CASE v # u
        BY <1>2, <3>2, <4>1, Served
      <4>2. CASE v = u
        <5>1. j # 1
          BY <1>2, <3>2, <4>2, Served DEF Oldest
        <5>2. j \in Nat /\ j - 1 \in DOMAIN queue'[u]
          BY <1>2, <4>2, <5>1, Served
        <5>3. queue'[u][j - 1] = queue[u][(j - 1) + 1]
          BY <1>2, <5>2, Served
        <5>4. (j - 1) + 1 = j
          BY <5>2
        <5>5. QED
          BY <3>2, <4>2, <5>2, <5>3, <5>4
      <4>3. QED
        BY <4>1, <4>2
    <3>4. QED
      BY <3>1, <3>3
  <2>5. QED
    BY <1>2, <2>4
<1>3. ASSUME NEW u \in Users, CommitHead(u) \/ RefuseHead(u)
      PROVE  /\ queue[u] # << >> /\ queue' = [queue EXCEPT ![u] = Tail(@)]
             /\ msg'[o] = msg[o] /\ (Oldest(u).m = o => Oldest(u).op # "add")
  BY <1>3, Commits, Refuses DEF Moves
<1>4. ASSUME NEW u \in Users, NEW m \in Ids, NEW r \in Rooms, NEW k \in {"add", "remove"},
             Enqueue(u, k, m, r), msg'[o] = msg[o], o = m => k # "add"
      PROVE  \E i \in DOMAIN queue'[msg'[o].from] :
                 /\ queue'[msg'[o].from][i].m = o
                 /\ queue'[msg'[o].from][i].op = "add"
  <2>1. msg[o].pc \in {"wait", "orphan"} /\ msg[o] \in Messages
    BY <1>4, IsMessage
  <2>2. msg[o].from \in Users
    BY <2>1 DEF Messages
  <2>3. PICK i \in DOMAIN queue[msg[o].from] :
            queue[msg[o].from][i].m = o /\ queue[msg[o].from][i].op = "add"
    BY <2>1 DEF AddQueued
  <2>4. i \in DOMAIN queue'[msg[o].from] /\ queue'[msg[o].from][i] = queue[msg[o].from][i]
    BY <1>4, <2>2, Joined
  <2>5. QED
    BY <1>4, <2>3, <2>4
<1>5. ASSUME NEW u \in Users, NEW m \in Ids, AnswerGet(u, m)
      PROVE  \E i \in DOMAIN queue'[msg'[o].from] :
                 /\ queue'[msg'[o].from][i].m = o
                 /\ queue'[msg'[o].from][i].op = "add"
  <2>1. /\ msg[m].from = u /\ msg[m] \in Messages /\ msg'[m].from = u
        /\ \A k \in Ids \ {m} : msg'[k] = msg[k]
    BY <1>5, AnswersGet, IsMessage DEF Moves
  <2>2. Room(u, msg[m].chat) \in Rooms
    BY <2>1, RoomType DEF Messages
  <2>3. Enqueue(u, "add", m, Room(u, msg[m].chat))
    BY <1>5 DEF AnswerGet
  <2>4. CASE o = m
    <3>1. /\ Len(queue[u]) + 1 \in DOMAIN queue'[u]
          /\ queue'[u][Len(queue[u]) + 1] = Entry("add", m, Room(u, msg[m].chat))
      BY <2>2, <2>3, Joined
    <3>2. QED
      BY <2>1, <2>4, <3>1 DEF Entry
  <2>5. CASE o # m
    BY <1>4, <2>1, <2>2, <2>3, <2>5
  <2>6. QED
    BY <2>4, <2>5
<1>6. ASSUME NEW u \in Users, NEW m \in Ids, Remove(u, m)
      PROVE  \E i \in DOMAIN queue'[msg'[o].from] :
                 /\ queue'[msg'[o].from][i].m = o
                 /\ queue'[msg'[o].from][i].op = "add"
  <2>1. msg[m] \in Messages
    BY <1>6, IsMessage DEF Remove, Written
  <2>2. RemoveRoom(m) \in Rooms
    BY <2>1 DEF RemoveRoom, Rooms, Messages
  <2>3. Enqueue(u, "remove", m, RemoveRoom(m)) /\ msg' = msg
    BY <1>6 DEF Remove
  <2>4. QED
    BY <1>4, <2>2, <2>3
<1>7. QED
  BY <1>1, <1>2, <1>3, <1>5, <1>6, StepKinds

\* The collections.
LEMMA StoreStep ==
    ASSUME TypeOK, QueueSound, QueueOnce, StoreSound, AddQueued, [Next]_vars
    PROVE  StoreSound'
<1>1. CASE Calm
  <2>1. /\ \A o \in Ids : msg'[o].pc = "sent" <=> msg[o].pc = "sent"
        /\ \A o \in Ids : msg[o].pc = "sent" =>
               HomeOf(o)' = HomeOf(o) /\ (ToGroup(o)' <=> ToGroup(o))
        /\ \A o \in Ids : msg[o].pc \in {"sent", "lost"} => msg'[o].pc \in {"sent", "lost"}
    BY <1>1 DEF Calm, HomeOf, ToGroup
  <2>2. gone \subseteq Ids
    BY DEF TypeOK
  <2>3. QED
    BY <1>1, <2>1, <2>2 DEF Calm, StoreSound
<1>2. ASSUME NEW m \in Ids, \A o \in Ids \ {m} : msg'[o] = msg[o],
             msg[m].pc \notin {"sent", "lost"}, msg'[m].pc # "sent",
             UNCHANGED <<store, gone, reported>>
      PROVE  StoreSound'
  <2>1. gone \subseteq Ids /\ m \notin gone
    BY <1>2 DEF TypeOK, StoreSound
  <2>2. \A o \in Ids \ {m} : HomeOf(o)' = HomeOf(o) /\ (ToGroup(o)' <=> ToGroup(o))
    BY <1>2 DEF HomeOf, ToGroup
  <2>3. QED
    BY <1>2, <2>1, <2>2 DEF StoreSound
<1>3. ASSUME NEW u \in Users, NEW m \in Ids, AnswerGet(u, m) PROVE StoreSound'
  <2>1. /\ msg[m].pc = "get" /\ msg'[m].pc = "wait"
        /\ \A o \in Ids \ {m} : msg'[o] = msg[o]
    BY <1>3, AnswersGet DEF Moves
  <2>2. QED
    BY <1>2, <1>3, <2>1 DEF AnswerGet, removals
<1>4. ASSUME NEW u \in Users, NEW m \in Ids, Remove(u, m) PROVE StoreSound'
  <2>1. UNCHANGED <<msg, store, gone, reported>>
    BY <1>4 DEF Remove
  <2>2. QED
    BY <2>1 DEF StoreSound, HomeOf, ToGroup
<1>5. ASSUME NEW u \in Users, RefuseHead(u) PROVE StoreSound'
  <2>1. queue[u] # << >> /\ UNCHANGED <<store, gone, reported>>
    BY <1>5, Refuses
  <2>2. CASE Oldest(u).op = "add"
    BY <1>2, <1>5, <2>1, <2>2, Refuses, OldestSound DEF Moves
  <2>3. CASE Oldest(u).op # "add"
    <3>1. msg' = msg
      BY <1>5, <2>3, Refuses
    <3>2. QED
      BY <2>1, <3>1 DEF StoreSound, HomeOf, ToGroup
  <2>4. QED
    BY <2>2, <2>3
<1>6. ASSUME NEW u \in Users, NEW m \in Ids, CommitHead(u), m = Oldest(u).m PROVE StoreSound'
  <2>1. queue[u] # << >>
    BY <1>6, Commits
  <2>2. CASE Oldest(u).op = "add"
    <3>1. /\ msg[m].pc \in {"wait", "orphan"} /\ Oldest(u).room = HomeOf(m)
          /\ Moves(m, "sent", msg[m].at) /\ store' = store \cup {<<HomeOf(m), m>>}
          /\ UNCHANGED <<gone, reported>>
      BY <1>6, <2>1, <2>2, Commits, OldestSound DEF removals
    <3>2. gone \subseteq Ids /\ m \notin gone
      BY <3>1 DEF TypeOK, StoreSound
    <3>3. \A o \in Ids : HomeOf(o)' = HomeOf(o) /\ (ToGroup(o)' <=> ToGroup(o))
      BY <3>1 DEF HomeOf, ToGroup, Moves
    <3>4. msg'[m].pc = "sent" /\ \A o \in Ids \ {m} : msg'[o] = msg[o]
      BY <3>1 DEF Moves
    <3>5. \A r \in Rooms : <<r, m>> \notin store
      BY <3>1 DEF StoreSound
    <3>6. \A r \in Rooms : \A o \in Ids : <<r, o>> \in store' =>
              <<r, o>> \in store \/ (o = m /\ r = HomeOf(m))
      BY <3>1
    <3>7. QED
      BY <3>1, <3>2, <3>3, <3>4, <3>5, <3>6 DEF StoreSound
  <2>3. CASE Oldest(u).op # "add"
    <3>1. /\ Oldest(u).op = "remove" /\ UNCHANGED msg
          /\ store' = store \ {<<RemoveRoom(m), m>>}
          /\ gone' = gone \cup {m} /\ reported' \subseteq reported \cup {m}
      <4>1. Oldest(u).op = "remove" /\ Oldest(u).room = RemoveRoom(m)
        BY <1>6, <2>1, <2>3, Commits, OldestSound
      <4>2. /\ UNCHANGED msg /\ store' = store \ {<<Oldest(u).room, m>>}
            /\ gone' = gone \cup {m} /\ reported' \in {reported, reported \cup {m}}
        BY <1>6, <2>3, Commits
      <4>3. QED
        BY <4>1, <4>2
    <3>2. msg[m].pc \in {"wait", "orphan", "sent", "lost"} /\ msg[m].from = u /\ msg[m] \in Messages
      BY <1>6, <2>1, OldestSound
    \* Its add was before it in the queue, so there is none.
    <3>3. msg[m].pc \notin {"wait", "orphan"}
      <4> SUFFICES ASSUME msg[m].pc \in {"wait", "orphan"} PROVE FALSE
        OBVIOUS
      <4>1. PICK i \in DOMAIN queue[u] : queue[u][i].m = m /\ queue[u][i].op = "add"
        BY <3>2 DEF AddQueued
      <4>2. 1 \in DOMAIN queue[u] /\ queue[u][1].m = m /\ queue[u][1].op = "remove"
        BY <1>6, <2>1, <3>1, OldestSound
      <4>3. i < 1
        BY <4>1, <4>2 DEF QueueOnce
      <4>4. i \in Nat /\ i >= 1
        BY <1>6, <2>1, <4>1, Commits, Served
      <4>5. QED
        BY <4>3, <4>4
    <3>4. ~ToGroup(m) => HomeOf(m) = RemoveRoom(m)
      BY DEF ToGroup, HomeOf, RemoveRoom, Room
    <3>5. \A r \in Rooms : \A o \in Ids : <<r, o>> \in store' =>
              <<r, o>> \in store /\ (o = m => r # RemoveRoom(m))
      BY <3>1
    <3>6. \A r \in Rooms : \A o \in Ids : <<r, o>> \in store' =>
              /\ msg[o].pc = "sent" /\ r = HomeOf(o)
              /\ o \in gone' => ToGroup(o)
      BY <3>1, <3>4, <3>5 DEF StoreSound
    <3>7. \A o \in Ids : msg[o].pc = "sent" /\ o \notin gone' => <<HomeOf(o), o>> \in store'
      BY <3>1 DEF StoreSound
    <3>8. \A o \in gone' : msg[o].pc \in {"sent", "lost"}
      BY <3>1, <3>2, <3>3 DEF StoreSound
    <3>9. reported' \subseteq gone'
      BY <3>1 DEF StoreSound
    <3>10. \A o \in Ids : HomeOf(o)' = HomeOf(o) /\ (ToGroup(o)' <=> ToGroup(o))
      BY <3>1 DEF HomeOf, ToGroup
    <3>11. QED
      BY <3>1, <3>6, <3>7, <3>8, <3>9, <3>10 DEF StoreSound
  <2>4. QED
    BY <2>2, <2>3
<1>7. ASSUME NEW u \in Users, CommitHead(u) PROVE StoreSound'
  <2>1. Oldest(u).m \in Ids
    BY <1>7, Commits, OldestSound
  <2>2. QED
    BY <1>6, <1>7, <2>1
<1>8. QED
  BY <1>1, <1>3, <1>4, <1>5, <1>7, StepKinds

-----------------------------------------------------------------------------
(***************************************************************************)
(* Timestamps.                                                             *)
(***************************************************************************)
LEMMA TimestampType ==
    ASSUME TypeOK, NEW m \in Ids, msg[m].pc # "new"
    PROVE  msg[m].at \in Nat /\ msg[m].from \in Users
BY IsMessage DEF Messages

\* A step that gives no timestamp and writes nothing new.
LEMMA OrderKept ==
    ASSUME Ordered, UNCHANGED <<clock, before>>,
           \A o \in Ids :
               /\ msg'[o].pc = "new" <=> msg[o].pc = "new"
               /\ msg[o].pc # "new" =>
                      /\ msg'[o].at = msg[o].at /\ msg'[o].from = msg[o].from
                      /\ msg'[o].pic = msg[o].pic
               /\ msg'[o].pc \in {"put", "url"} => msg[o].pc \in {"put", "url"}
               /\ Written(o)' => Written(o) /\ (Timed(o)' <=> Timed(o))
    PROVE  Ordered'
<1>1. \A m \in Ids : msg'[m].pc # "new" => msg'[m].at <= clock'[msg'[m].from]
  BY DEF Ordered
<1>2. \A m \in Ids : msg'[m].pc \in {"put", "url"} => msg'[m].pic # NoPicture
  BY DEF Ordered
<1>3. ASSUME NEW m \in Ids, NEW n \in Ids, <<m, n>> \in before'
      PROVE  /\ msg'[m].pc # "new" /\ msg'[n].pc # "new" /\ msg'[m].from = msg'[n].from
             /\ Written(m)' /\ Written(n)' =>
                    Timed(m)' /\ (Timed(n)' => msg'[m].at < msg'[n].at)
  <2>1. /\ msg[m].pc # "new" /\ msg[n].pc # "new" /\ msg[m].from = msg[n].from
        /\ Written(m) /\ Written(n) =>
               Timed(m) /\ (Timed(n) => msg[m].at < msg[n].at)
    BY <1>3 DEF Ordered
  <2>2. msg'[m].at = msg[m].at /\ msg'[n].at = msg[n].at
    BY <2>1
  <2>3. QED
    BY <2>1, <2>2
<1>4. QED
  BY <1>1, <1>2, <1>3 DEF Ordered

\* A handler that goes on and keeps the timestamp of its message.
LEMMA OrderMoved ==
    ASSUME TypeOK, Ordered, NEW m \in Ids, NEW pc, Moves(m, pc, msg[m].at),
           UNCHANGED <<clock, before>>,
           \/ pc = "lost" /\ msg[m].pc # "new"
           \/ pc = "sent" /\ msg[m].pc \in {"wait", "orphan"}
           \/ pc = "url" /\ msg[m].pc = "put"
           \/ pc = "wait" /\ msg[m].pc = "get" /\ ~ToGroup(m)
    PROVE  Ordered'
<1>1. ASSUME NEW o \in Ids, o # m
      PROVE  msg'[o] = msg[o] /\ (Written(o)' <=> Written(o)) /\ (Timed(o)' <=> Timed(o))
  BY <1>1 DEF Moves, Written, Timed, ToGroup
<1>2. /\ msg'[m].pc # "new" /\ msg'[m].at = msg[m].at /\ msg'[m].from = msg[m].from
      /\ msg'[m].pic = msg[m].pic /\ msg[m].pc # "new"
      /\ msg'[m].pc \in {"put", "url"} => msg[m].pc \in {"put", "url"}
      /\ Written(m)' => Written(m)
  BY DEF Moves, Written
<1>3. Written(m)' => (Timed(m)' <=> Timed(m))
  BY DEF Moves, Written, Timed, ToGroup
<1>4. QED
  BY <1>1, <1>2, <1>3, OrderKept

\* A message gets its timestamp now.
LEMMA OrderStamped ==
    ASSUME TypeOK, Ordered, NEW u \in Users, NEW m \in Ids, NEW pc \in {"get", "wait"},
           Moves(m, pc, clock[u] + 1), msg[m].from = u, Tick(u), UNCHANGED before,
           msg[m].pc = "url" \/ (msg[m].pc = "get" /\ ToGroup(m))
    PROVE  Ordered'
<1>1. /\ \A o \in Ids \ {m} : msg'[o] = msg[o]
      /\ msg'[m].pc = pc /\ msg'[m].at = clock[u] + 1 /\ msg'[m].from = u
  BY DEF Moves
<1>2. ASSUME NEW o \in Ids, o # m
      PROVE  msg'[o] = msg[o] /\ (Written(o)' <=> Written(o)) /\ (Timed(o)' <=> Timed(o))
  BY <1>1, <1>2 DEF Written, Timed, ToGroup
<1>3. clock' \in [Users -> Nat] /\ clock'[u] = clock[u] + 1 /\ clock \in [Users -> Nat]
      /\ \A v \in Users : clock'[v] >= clock[v]
  BY TickType DEF TypeOK
<1>4. Written(m) /\ ~Timed(m)
  BY DEF Written, Timed
<1>5. \A o \in Ids : msg'[o].pc # "new" => msg'[o].at <= clock'[msg'[o].from]
  <2> SUFFICES ASSUME NEW o \in Ids, msg'[o].pc # "new"
               PROVE  msg'[o].at <= clock'[msg'[o].from]
    OBVIOUS
  <2>1. CASE o = m
    BY <1>1, <1>3, <2>1
  <2>2. CASE o # m
    <3>1. msg[o].at \in Nat /\ msg[o].from \in Users /\ msg[o].at <= clock[msg[o].from]
      BY <1>2, <2>2, TimestampType DEF Ordered
    <3>2. clock[msg[o].from] \in Nat /\ clock'[msg[o].from] \in Nat
          /\ clock'[msg[o].from] >= clock[msg[o].from]
      BY <1>3, <3>1
    <3>3. QED
      BY <1>2, <2>2, <3>1, <3>2
  <2>3. QED
    BY <2>1, <2>2
<1>6. \A o \in Ids : msg'[o].pc \in {"put", "url"} => msg'[o].pic # NoPicture
  BY <1>1 DEF Ordered
<1>7. ASSUME NEW k \in Ids, NEW n \in Ids, <<k, n>> \in before'
      PROVE  /\ msg'[k].pc # "new" /\ msg'[n].pc # "new" /\ msg'[k].from = msg'[n].from
             /\ Written(k)' /\ Written(n)' =>
                    Timed(k)' /\ (Timed(n)' => msg'[k].at < msg'[n].at)
  <2>1. /\ msg[k].pc # "new" /\ msg[n].pc # "new" /\ msg[k].from = msg[n].from
        /\ Written(k) /\ Written(n) =>
               Timed(k) /\ (Timed(n) => msg[k].at < msg[n].at)
    BY <1>7 DEF Ordered
  <2>2. msg'[k].pc # "new" /\ msg'[n].pc # "new" /\ msg'[k].from = msg'[n].from
    BY <1>1, <2>1
  <2>3. ASSUME Written(k)', Written(n)'
        PROVE  Timed(k)' /\ (Timed(n)' => msg'[k].at < msg'[n].at)
    <3>1. Written(k) /\ Written(n)
      BY <1>2, <1>4, <2>3
    <3>2. Timed(k) /\ k # m
      BY <1>4, <2>1, <3>1
    <3>3. CASE n = m
      <4>1. msg[k].at \in Nat /\ msg[k].at <= clock[u]
        BY <2>1, <3>3, TimestampType DEF Ordered
      <4>2. clock[u] \in Nat
        BY <1>3
      <4>3. msg'[k].at < msg'[n].at
        BY <1>1, <3>2, <3>3, <4>1, <4>2
      <4>4. QED
        BY <1>2, <3>2, <4>3
    <3>4. CASE n # m
      BY <1>2, <2>1, <3>1, <3>2, <3>4
    <3>5. QED
      BY <3>3, <3>4
  <2>4. QED
    BY <2>2, <2>3
<1>8. QED
  BY <1>5, <1>6, <1>7 DEF Ordered

\* A new message comes after those that have their timestamp.
LEMMA OrderPut ==
    ASSUME TypeOK, Ordered, NEW u \in Users, NEW m \in Ids, NEW h \in Messages,
           Puts(m, h), msg[m].pc = "new", h.from = u, h.pc \in {"put", "get"},
           h.pc = "put" => h.pic # NoPicture,
           clock' \in [Users -> Nat], \A v \in Users : clock'[v] >= clock[v],
           h.at <= clock'[u],
           NEW E \in SUBSET Ids, before' = before \cup (E \X {m}),
           \A k \in E : Written(k) /\ Timed(k) /\ msg[k].from = u,
           Timed(m)' => h.at > clock[u]
    PROVE  Ordered'
<1>1. msg'[m] = h /\ \A o \in Ids \ {m} : msg'[o] = msg[o]
  BY DEF Puts
<1>2. ASSUME NEW o \in Ids, o # m
      PROVE  msg'[o] = msg[o] /\ (Written(o)' <=> Written(o)) /\ (Timed(o)' <=> Timed(o))
  BY <1>1, <1>2 DEF Written, Timed, ToGroup
<1>3. clock \in [Users -> Nat] /\ h.at \in Nat
  BY DEF TypeOK, Messages
<1>4. \A o \in Ids : msg'[o].pc # "new" => msg'[o].at <= clock'[msg'[o].from]
  <2> SUFFICES ASSUME NEW o \in Ids, msg'[o].pc # "new"
               PROVE  msg'[o].at <= clock'[msg'[o].from]
    OBVIOUS
  <2>1. CASE o = m
    BY <1>1, <2>1
  <2>2. CASE o # m
    <3>1. msg[o].at \in Nat /\ msg[o].from \in Users /\ msg[o].at <= clock[msg[o].from]
      BY <1>2, <2>2, TimestampType DEF Ordered
    <3>2. clock[msg[o].from] \in Nat /\ clock'[msg[o].from] \in Nat
          /\ clock'[msg[o].from] >= clock[msg[o].from]
      BY <1>3, <3>1
    <3>3. QED
      BY <1>2, <2>2, <3>1, <3>2
  <2>3. QED
    BY <2>1, <2>2
<1>5. \A o \in Ids : msg'[o].pc \in {"put", "url"} => msg'[o].pic # NoPicture
  BY <1>1 DEF Ordered
<1>6. ASSUME NEW k \in Ids, NEW n \in Ids, <<k, n>> \in before'
      PROVE  /\ msg'[k].pc # "new" /\ msg'[n].pc # "new" /\ msg'[k].from = msg'[n].from
             /\ Written(k)' /\ Written(n)' =>
                    Timed(k)' /\ (Timed(n)' => msg'[k].at < msg'[n].at)
  <2>1. CASE <<k, n>> \in before
    <3>1. /\ msg[k].pc # "new" /\ msg[n].pc # "new" /\ msg[k].from = msg[n].from
          /\ Written(k) /\ Written(n) =>
                 Timed(k) /\ (Timed(n) => msg[k].at < msg[n].at)
      BY <2>1 DEF Ordered
    <3>2. k # m /\ n # m
      BY <3>1
    <3>3. QED
      BY <1>2, <3>1, <3>2
  <2>2. CASE k \in E /\ n = m
    <3>1. Written(k) /\ Timed(k) /\ msg[k].from = u /\ k # m
      BY <2>2 DEF Written
    <3>2. msg[k].pc # "new"
      BY <3>1 DEF Written
    <3>3. msg[k].at \in Nat /\ msg[k].at <= clock[u] /\ clock[u] \in Nat
      BY <1>3, <3>1, <3>2, TimestampType DEF Ordered
    <3>4. msg'[k].pc # "new" /\ msg'[n].pc # "new" /\ msg'[k].from = msg'[n].from /\ Timed(k)'
      BY <1>1, <1>2, <2>2, <3>1, <3>2
    <3>5. Timed(n)' => msg'[k].at < msg'[n].at
      BY <1>1, <1>3, <2>2, <3>1, <3>3
    <3>6. QED
      BY <3>4, <3>5
  <2>3. QED
    BY <1>6, <2>1, <2>2
<1>7. QED
  BY <1>4, <1>5, <1>6 DEF Ordered

\* Those a message comes after have their timestamp.
LEMMA EarlierTimed ==
    ASSUME TypeOK, QueueSound, StoreSound, Ordered, NEW u \in Users,
           NEW c \in Users \cup Groups, NEW text \in BOOLEAN, text => c \in Users
    PROVE  /\ Earlier(u, c, text) \in SUBSET Ids
           /\ \A k \in Earlier(u, c, text) : Written(k) /\ Timed(k) /\ msg[k].from = u
<1>1. Earlier(u, c, text) \in SUBSET Ids
  BY DEF Earlier
<1>2. ASSUME NEW k \in Earlier(u, c, text) PROVE Written(k) /\ Timed(k) /\ msg[k].from = u
  <2>1. /\ k \in Ids /\ Written(k) /\ msg[k].from = u /\ msg[k].chat = c
        /\ k \in Listed(u, c) \/ (text /\ msg[k].pic = NoPicture)
    BY DEF Earlier
  <2>2. CASE k \in Listed(u, c)
    <3>1. msg[k].pc \in {"wait", "orphan", "sent"}
      BY <2>2, ListedMeans
    <3>2. QED
      BY <2>1, <3>1 DEF Timed
  <2>3. CASE text /\ msg[k].pic = NoPicture
    <3>1. msg[k].pc \notin {"put", "url"}
      BY <2>1, <2>3 DEF Ordered
    <3>2. ~ToGroup(k)
      BY <2>1, <2>3, GroupsAssumption DEF ToGroup
    <3>3. QED
      BY <2>1, <3>1, <3>2 DEF Timed
  <2>4. QED
    BY <2>1, <2>2, <2>3
<1>3. QED
  BY <1>1, <1>2

LEMMA OrderedStep ==
    ASSUME TypeOK, QueueSound, StoreSound, Ordered, [Next]_vars
    PROVE  Ordered'
<1>0. ASSUME UNCHANGED <<msg, clock, before>> PROVE Ordered'
  BY <1>0 DEF Ordered, Written, Timed, ToGroup
<1>1. CASE UNCHANGED vars
  BY <1>0, <1>1 DEF vars
<1>2. ASSUME NEW u \in Users, CommitHead(u) PROVE Ordered'
  <2>1. queue[u] # << >> /\ UNCHANGED <<clock, before>>
    BY <1>2, Commits
  <2>2. CASE Oldest(u).op = "add"
    <3>1. Oldest(u).m \in Ids /\ msg[Oldest(u).m].pc \in {"wait", "orphan"}
      BY <2>1, <2>2, OldestSound
    <3>2. Moves(Oldest(u).m, "sent", msg[Oldest(u).m].at)
      BY <1>2, <2>2, Commits
    <3>3. QED
      BY <2>1, <3>1, <3>2, OrderMoved
  <2>3. CASE Oldest(u).op # "add"
    BY <1>0, <1>2, <2>1, <2>3, Commits
  <2>4. QED
    BY <2>2, <2>3
<1>3. ASSUME NEW u \in Users, RefuseHead(u) PROVE Ordered'
  <2>1. queue[u] # << >> /\ UNCHANGED <<clock, before>>
    BY <1>3, Refuses
  <2>2. CASE Oldest(u).op = "add"
    <3>1. Oldest(u).m \in Ids /\ msg[Oldest(u).m].pc # "new"
      BY <2>1, <2>2, OldestSound
    <3>2. Moves(Oldest(u).m, "lost", msg[Oldest(u).m].at)
      BY <1>3, <2>2, Refuses
    <3>3. QED
      BY <2>1, <3>1, <3>2, OrderMoved
  <2>3. CASE Oldest(u).op # "add"
    BY <1>0, <1>3, <2>1, <2>3, Refuses
  <2>4. QED
    BY <2>2, <2>3
<1>4. ASSUME NEW u \in Users, Crash(u) PROVE Ordered'
  <2>1. UNCHANGED <<clock, before>>
    BY <1>4 DEF Crash
  <2>2. ASSUME NEW o \in Ids
        PROVE  /\ msg'[o].pc = "new" <=> msg[o].pc = "new"
               /\ msg'[o].at = msg[o].at /\ msg'[o].from = msg[o].from
               /\ msg'[o].pic = msg[o].pic
               /\ msg'[o].pc \in {"put", "url"} => msg[o].pc \in {"put", "url"}
               /\ Written(o)' => Written(o)
    BY <1>4, Restarts DEF Written
  <2>3. ASSUME NEW o \in Ids PROVE Written(o)' => (Timed(o)' <=> Timed(o))
    BY <1>4, Restarts DEF Written, Timed, ToGroup
  <2>4. QED
    BY <2>1, <2>2, <2>3, OrderKept
<1>5. ASSUME NEW u \in Users, CancelPicture(u) PROVE Ordered'
  BY <1>0, <1>5 DEF CancelPicture
<1>6. ASSUME NEW u \in Users, NEW p \in Pictures, Pick(u, p) PROVE Ordered'
  BY <1>0, <1>6 DEF Pick
<1>7. ASSUME NEW u \in Users, NEW m \in Ids, AnswerGet(u, m) PROVE Ordered'
  <2>1. UNCHANGED before
    BY <1>7 DEF AnswerGet
  <2>2. CASE ToGroup(m)
    BY <1>7, <2>1, <2>2, AnswersGet, OrderStamped
  <2>3. CASE ~ToGroup(m)
    BY <1>7, <2>1, <2>3, AnswersGet, OrderMoved
  <2>4. QED
    BY <2>2, <2>3
<1>8. ASSUME NEW u \in Users, NEW m \in Ids, FailSend(u, m) PROVE Ordered'
  <2>1. UNCHANGED <<clock, before>>
    BY <1>8 DEF FailSend
  <2>2. QED
    BY <1>8, <2>1, FailsSend, OrderMoved
<1>9. ASSUME NEW u \in Users, NEW m \in Ids, Upload(u, m) PROVE Ordered'
  <2>1. UNCHANGED <<clock, before>>
    BY <1>9 DEF Upload
  <2>2. QED
    BY <1>9, <2>1, Uploads, OrderMoved
<1>10. ASSUME NEW u \in Users, NEW m \in Ids, AnswerUrl(u, m) PROVE Ordered'
  <2>1. UNCHANGED before /\ Tick(u)
    BY <1>10 DEF AnswerUrl
  <2>2. QED
    BY <1>10, <2>1, AnswersUrl, OrderStamped
<1>11. ASSUME NEW u \in Users, NEW m \in Ids, Remove(u, m) PROVE Ordered'
  BY <1>0, <1>11 DEF Remove
<1>12. ASSUME NEW u \in Users, NEW m \in Ids, NEW c \in Users \cup Groups, SendText(u, m, c)
       PROVE  Ordered'
  <2> DEFINE h == Message(u, c, NoPicture, clock[u] + 1, "get")
  <2>1. Tick(u) /\ c \in Users /\ before' = before \cup (Earlier(u, c, TRUE) \X {m})
    BY <1>12 DEF SendText, Precedes
  <2>2. clock' \in [Users -> Nat] /\ clock'[u] = clock[u] + 1
        /\ (\A v \in Users : clock'[v] >= clock[v]) /\ clock[u] \in Nat
    BY <2>1, TickType DEF TypeOK
  <2>3. h \in Messages /\ h.from = u /\ h.pc = "get" /\ h.at = clock[u] + 1
    <3>1. clock[u] + 1 \in Nat /\ NoPicture \in Pictures \cup {NoPicture}
      BY <2>2
    <3>2. h \in Messages
      BY <3>1, NewMessage
    <3>3. QED
      BY <3>2 DEF Message
  <2>4. Puts(m, h) /\ msg[m].pc = "new"
    BY <1>12, SendsText
  <2>5. /\ Earlier(u, c, TRUE) \in SUBSET Ids
        /\ \A k \in Earlier(u, c, TRUE) : Written(k) /\ Timed(k) /\ msg[k].from = u
    BY <2>1, EarlierTimed
  <2>6. h.at <= clock'[u] /\ h.at > clock[u]
    BY <2>2, <2>3
  <2> HIDE DEF h
  <2>7. QED
    BY <2>1, <2>2, <2>3, <2>4, <2>5, <2>6, OrderPut
<1>13. ASSUME NEW u \in Users, NEW m \in Ids, NEW c \in Users \cup Groups, SendToGroup(u, m, c)
       PROVE  Ordered'
  <2> DEFINE h == Message(u, c, NoPicture, 0, "get")
  <2>1. c \in Groups /\ before' = before \cup (Earlier(u, c, FALSE) \X {m}) /\ clock' = clock
    BY <1>13 DEF SendToGroup, Precedes
  <2>2. clock \in [Users -> Nat]
    BY DEF TypeOK
  <2>3. h \in Messages /\ h.from = u /\ h.pc = "get" /\ h.at = 0 /\ h.chat = c
    BY NewMessage DEF Message
  <2>4. Puts(m, h) /\ msg[m].pc = "new"
    BY <1>13, SendsToGroup
  <2>5. /\ Earlier(u, c, FALSE) \in SUBSET Ids
        /\ \A k \in Earlier(u, c, FALSE) : Written(k) /\ Timed(k) /\ msg[k].from = u
    BY <2>1, EarlierTimed
  <2> HIDE DEF h
  <2>6. h.at <= clock'[u] /\ \A v \in Users : clock'[v] >= clock[v]
    BY <2>1, <2>2, <2>3
  <2>7. ~Timed(m)'
    BY <2>1, <2>3, <2>4 DEF Timed, ToGroup, Puts
  <2>8. QED
    BY <2>1, <2>2, <2>3, <2>4, <2>5, <2>6, <2>7, OrderPut
<1>14. ASSUME NEW u \in Users, NEW m \in Ids, NEW c \in Users \cup Groups, NEW n \in Names,
              SendPicture(u, m, c, n)
       PROVE  Ordered'
  <2> DEFINE h == [Message(u, c, picked[u], 0, "put") EXCEPT !.name = {n}]
  <2>1. before' = before \cup (Earlier(u, c, FALSE) \X {m}) /\ clock' = clock
    BY <1>14 DEF SendPicture, Precedes
  <2>2. clock \in [Users -> Nat] /\ picked[u] \in Pictures \cup {NoPicture}
    BY DEF TypeOK
  <2>3. h \in Messages /\ h.from = u /\ h.pc = "put" /\ h.at = 0 /\ h.pic = picked[u]
    <3>1. h \in Messages
      BY <2>2, NewMessage
    <3>2. QED
      BY <3>1 DEF Message
  <2>4. Puts(m, h) /\ msg[m].pc = "new" /\ picked[u] # NoPicture
    BY <1>14, SendsPicture DEF SendPicture
  <2>5. /\ Earlier(u, c, FALSE) \in SUBSET Ids
        /\ \A k \in Earlier(u, c, FALSE) : Written(k) /\ Timed(k) /\ msg[k].from = u
    BY EarlierTimed
  <2> HIDE DEF h
  <2>6. h.at <= clock'[u] /\ \A v \in Users : clock'[v] >= clock[v]
    BY <2>1, <2>2, <2>3
  <2>7. ~Timed(m)'
    BY <2>3, <2>4 DEF Timed, Puts
  <2>8. QED
    BY <2>1, <2>2, <2>3, <2>4, <2>5, <2>6, <2>7, OrderPut
<1>15. QED
  BY <1>1, <1>2, <1>3, <1>4, <1>5, <1>6, <1>7, <1>8, <1>9, <1>10, <1>11, <1>12, <1>13, <1>14
     DEF Next

-----------------------------------------------------------------------------
(***************************************************************************)
(* Pictures.                                                               *)
(***************************************************************************)
\* A step that uploads nothing and draws no number.
LEMMA DrawnKept ==
    ASSUME Drawn, UNCHANGED <<objects, clash>>,
           \A o \in Ids : Written(o)' =>
               /\ Written(o)
               /\ msg'[o].name = msg[o].name /\ msg'[o].pic = msg[o].pic
               /\ msg'[o].pc # "put" => msg[o].pc # "put"
    PROVE  Drawn'
BY DEF Drawn

LEMMA DrawnMoved ==
    ASSUME Drawn, NEW m \in Ids, NEW pc, NEW at, Moves(m, pc, at),
           UNCHANGED <<objects, clash>>,
           \/ pc = "lost"
           \/ pc \in {"get", "wait", "sent"} /\ msg[m].pc \notin {"new", "lost", "put"}
    PROVE  Drawn'
<1>1. ASSUME NEW o \in Ids, o # m
      PROVE  msg'[o] = msg[o] /\ (Written(o)' <=> Written(o))
  BY <1>1 DEF Moves, Written
<1>2. Written(m)' => Written(m) /\ msg[m].pc # "put"
  BY DEF Moves, Written
<1>3. msg'[m].name = msg[m].name /\ msg'[m].pic = msg[m].pic
  BY DEF Moves
<1>4. QED
  BY <1>1, <1>2, <1>3, DrawnKept

\* A text has no picture.
LEMMA DrawnText ==
    ASSUME Drawn, NEW m \in Ids, NEW h, Puts(m, h), h.name = {}, UNCHANGED <<objects, clash>>
    PROVE  Drawn'
<1>1. msg'[m].name = {} /\ \A o \in Ids \ {m} : msg'[o] = msg[o]
  BY DEF Puts
<1>2. ASSUME NEW o \in Ids, o # m PROVE msg'[o] = msg[o] /\ (Written(o)' <=> Written(o))
  BY <1>1, <1>2 DEF Written
<1>3. ASSUME NEW o \in Ids, NEW k \in Ids, Written(o)', Written(k)', o # k
      PROVE  msg'[o].name \cap msg'[k].name \subseteq clash
  <2>1. CASE o = m \/ k = m
    BY <1>1, <2>1
  <2>2. CASE o # m /\ k # m
    BY <1>2, <1>3, <2>2 DEF Drawn
  <2>3. QED
    BY <2>1, <2>2
<1>4. ASSUME NEW o \in Ids, Written(o)', msg'[o].pc # "put"
      PROVE  \A n \in msg'[o].name \ clash : objects[n] = msg'[o].pic
  <2>1. CASE o = m
    BY <1>1, <2>1
  <2>2. CASE o # m
    BY <1>2, <1>4, <2>2 DEF Drawn
  <2>3. QED
    BY <2>1, <2>2
<1>5. QED
  BY <1>3, <1>4 DEF Drawn

LEMMA DrawnStep ==
    ASSUME TypeOK, QueueSound, Drawn, [Next]_vars
    PROVE  Drawn'
<1>0. ASSUME UNCHANGED <<msg, objects, clash>> PROVE Drawn'
  BY <1>0 DEF Drawn, Written
<1>1. CASE UNCHANGED vars
  BY <1>0, <1>1 DEF vars
<1>2. ASSUME NEW u \in Users, CommitHead(u) PROVE Drawn'
  <2>1. queue[u] # << >> /\ UNCHANGED <<objects, clash>>
    BY <1>2, Commits
  <2>2. CASE Oldest(u).op = "add"
    <3>1. Oldest(u).m \in Ids /\ msg[Oldest(u).m].pc \in {"wait", "orphan"}
      BY <2>1, <2>2, OldestSound
    <3>2. Moves(Oldest(u).m, "sent", msg[Oldest(u).m].at)
      BY <1>2, <2>2, Commits
    <3>3. QED
      BY <2>1, <3>1, <3>2, DrawnMoved
  <2>3. CASE Oldest(u).op # "add"
    BY <1>0, <1>2, <2>1, <2>3, Commits
  <2>4. QED
    BY <2>2, <2>3
<1>3. ASSUME NEW u \in Users, RefuseHead(u) PROVE Drawn'
  <2>1. queue[u] # << >> /\ UNCHANGED <<objects, clash>>
    BY <1>3, Refuses
  <2>2. CASE Oldest(u).op = "add"
    <3>1. Oldest(u).m \in Ids
      BY <2>1, <2>2, OldestSound
    <3>2. Moves(Oldest(u).m, "lost", msg[Oldest(u).m].at)
      BY <1>3, <2>2, Refuses
    <3>3. QED
      BY <2>1, <3>1, <3>2, DrawnMoved
  <2>3. CASE Oldest(u).op # "add"
    BY <1>0, <1>3, <2>1, <2>3, Refuses
  <2>4. QED
    BY <2>2, <2>3
<1>4. ASSUME NEW u \in Users, Crash(u) PROVE Drawn'
  <2>1. UNCHANGED <<objects, clash>>
    BY <1>4 DEF Crash
  <2>2. ASSUME NEW o \in Ids, Written(o)'
        PROVE  /\ Written(o)
               /\ msg'[o].name = msg[o].name /\ msg'[o].pic = msg[o].pic
               /\ msg'[o].pc # "put" => msg[o].pc # "put"
    BY <1>4, <2>2, Restarts DEF Written
  <2>3. QED
    BY <2>1, <2>2, DrawnKept
<1>5. ASSUME NEW u \in Users, CancelPicture(u) PROVE Drawn'
  BY <1>0, <1>5 DEF CancelPicture
<1>6. ASSUME NEW u \in Users, NEW p \in Pictures, Pick(u, p) PROVE Drawn'
  BY <1>0, <1>6 DEF Pick
<1>7. ASSUME NEW u \in Users, NEW m \in Ids, AnswerGet(u, m) PROVE Drawn'
  <2>1. UNCHANGED <<objects, clash>>
    BY <1>7 DEF AnswerGet, pictures
  <2>2. QED
    BY <1>7, <2>1, AnswersGet, DrawnMoved
<1>8. ASSUME NEW u \in Users, NEW m \in Ids, FailSend(u, m) PROVE Drawn'
  <2>1. UNCHANGED <<objects, clash>>
    BY <1>8 DEF FailSend
  <2>2. QED
    BY <1>8, <2>1, FailsSend, DrawnMoved
<1>9. ASSUME NEW u \in Users, NEW m \in Ids, Upload(u, m) PROVE Drawn'
  <2>1. /\ msg[m].pc = "put" /\ clash' = clash /\ msg[m] \in Messages
        /\ msg'[m].name = msg[m].name /\ msg'[m].pic = msg[m].pic
        /\ \A o \in Ids \ {m} : msg'[o] = msg[o]
    BY <1>9, Uploads, IsMessage DEF Upload, Moves
  <2>2. PICK n \in msg[m].name : objects' = [objects EXCEPT ![n] = msg[m].pic]
    BY <1>9 DEF Upload
  <2>3. msg[m].name = {n} /\ n \in Names
    BY <2>1, <2>2 DEF Messages
  <2>4. objects'[n] = msg[m].pic /\ \A x \in Names \ {n} : objects'[x] = objects[x]
    BY <2>2, <2>3 DEF TypeOK
  <2>5. Written(m) /\ \A o \in Ids \ {m} : Written(o)' <=> Written(o)
    BY <2>1 DEF Written
  <2>6. ASSUME NEW o \in Ids, NEW k \in Ids, Written(o)', Written(k)', o # k
        PROVE  msg'[o].name \cap msg'[k].name \subseteq clash'
    <3>1. Written(o) /\ Written(k) /\ msg'[o].name = msg[o].name /\ msg'[k].name = msg[k].name
      BY <2>1, <2>5, <2>6
    <3>2. QED
      BY <2>1, <2>6, <3>1 DEF Drawn
  <2>7. ASSUME NEW o \in Ids, Written(o)', msg'[o].pc # "put", NEW x \in msg'[o].name \ clash'
        PROVE  objects'[x] = msg'[o].pic
    <3>1. CASE o = m
      BY <2>1, <2>3, <2>4, <2>7, <3>1
    <3>2. CASE o # m
      <4>1. msg'[o] = msg[o] /\ Written(o) /\ x \notin clash
        BY <2>1, <2>5, <2>7, <3>2
      <4>2. objects[x] = msg[o].pic
        BY <2>7, <4>1 DEF Drawn
      <4>3. x # n
        BY <2>3, <2>5, <2>7, <3>2, <4>1 DEF Drawn
      <4>4. msg[o] \in Messages /\ x \in msg[o].name
        BY <2>7, <4>1, IsMessage DEF Written
      <4>5. x \in Names
        BY <4>4 DEF Messages
      <4>6. QED
        BY <2>4, <4>1, <4>2, <4>3, <4>5
    <3>3. QED
      BY <3>1, <3>2
  <2>8. QED
    BY <2>6, <2>7 DEF Drawn
<1>10. ASSUME NEW u \in Users, NEW m \in Ids, AnswerUrl(u, m) PROVE Drawn'
  <2>1. UNCHANGED <<objects, clash>>
    BY <1>10 DEF AnswerUrl, pictures
  <2>2. QED
    BY <1>10, <2>1, AnswersUrl, DrawnMoved
<1>11. ASSUME NEW u \in Users, NEW m \in Ids, Remove(u, m) PROVE Drawn'
  BY <1>0, <1>11 DEF Remove, pictures
<1>12. ASSUME NEW u \in Users, NEW m \in Ids, NEW c \in Users \cup Groups, SendText(u, m, c)
       PROVE  Drawn'
  <2>1. UNCHANGED <<objects, clash>>
    BY <1>12 DEF SendText, pictures
  <2>2. Message(u, c, NoPicture, clock[u] + 1, "get").name = {}
    BY DEF Message
  <2>3. QED
    BY <1>12, <2>1, <2>2, SendsText, DrawnText
<1>13. ASSUME NEW u \in Users, NEW m \in Ids, NEW c \in Users \cup Groups, SendToGroup(u, m, c)
       PROVE  Drawn'
  <2>1. UNCHANGED <<objects, clash>>
    BY <1>13 DEF SendToGroup, pictures
  <2>2. Message(u, c, NoPicture, 0, "get").name = {}
    BY DEF Message
  <2>3. QED
    BY <1>13, <2>1, <2>2, SendsToGroup, DrawnText
<1>14. ASSUME NEW u \in Users, NEW m \in Ids, NEW c \in Users \cup Groups, NEW n \in Names,
              SendPicture(u, m, c, n)
       PROVE  Drawn'
  <2> DEFINE h == [Message(u, c, picked[u], 0, "put") EXCEPT !.name = {n}]
  <2>1. h.name = {n} /\ h.pc = "put"
    BY DEF Message
  <2>2. Puts(m, h) /\ msg[m].pc = "new"
    BY <1>14, SendsPicture
  <2> HIDE DEF h
  <2>3. /\ objects' = objects
        /\ clash' = IF objects[n] # NoPicture \/ \E o \in Ids : Written(o) /\ n \in msg[o].name
                    THEN clash \cup {n} ELSE clash
    BY <1>14 DEF SendPicture
  <2>4. clash \subseteq clash' /\ \A o \in Ids : Written(o) /\ n \in msg[o].name => n \in clash'
    BY <2>3
  <2>5. msg'[m] = h /\ \A o \in Ids \ {m} : msg'[o] = msg[o] /\ (Written(o)' <=> Written(o))
    BY <2>2 DEF Puts, Written
  <2>6. ASSUME NEW o \in Ids, NEW k \in Ids, Written(o)', Written(k)', o # k
        PROVE  msg'[o].name \cap msg'[k].name \subseteq clash'
    <3>1. CASE o # m /\ k # m
      BY <2>4, <2>5, <2>6, <3>1 DEF Drawn
    <3>2. CASE o = m
      <4>1. msg'[k] = msg[k] /\ Written(k) /\ msg'[o].name = {n}
        BY <2>1, <2>5, <2>6, <3>2
      <4>2. QED
        BY <2>4, <4>1
    <3>3. CASE k = m
      <4>1. msg'[o] = msg[o] /\ Written(o) /\ msg'[k].name = {n}
        BY <2>1, <2>5, <2>6, <3>3
      <4>2. QED
        BY <2>4, <4>1
    <3>4. QED
      BY <3>1, <3>2, <3>3
  <2>7. ASSUME NEW o \in Ids, Written(o)', msg'[o].pc # "put", NEW x \in msg'[o].name \ clash'
        PROVE  objects'[x] = msg'[o].pic
    <3>1. o # m
      BY <2>1, <2>5, <2>7
    <3>2. msg'[o] = msg[o] /\ Written(o) /\ x \notin clash
      BY <2>4, <2>5, <2>7, <3>1
    <3>3. QED
      BY <2>3, <2>7, <3>2 DEF Drawn
  <2>8. QED
    BY <2>6, <2>7 DEF Drawn
<1>15. QED
  BY <1>1, <1>2, <1>3, <1>4, <1>5, <1>6, <1>7, <1>8, <1>9, <1>10, <1>11, <1>12, <1>13, <1>14
     DEF Next

-----------------------------------------------------------------------------
(***************************************************************************)
(* The theorems.                                                           *)
(***************************************************************************)
Sound ==
    TypeOK /\ QueueSound /\ QueueOnce /\ StoreSound /\ AddQueued /\ Ordered /\ Drawn

LEMMA SoundInit == Init => Sound
<1> SUFFICES ASSUME Init PROVE Sound
  OBVIOUS
<1>1. \A u \in Users : queue[u] = << >>
  BY DEF Init
<1>2. queue \in [Users -> Seq(Writes)] /\ DOMAIN << >> = {}
  BY EmptySeq DEF Init
<1>3. \A m \in Ids : msg[m] = New /\ msg[m].pc = "new" /\ ~Written(m)
  BY DEF Init, New, Written
<1>4. TypeOK
  BY <1>2 DEF Init, TypeOK, Writes
<1>5. QueueSound /\ QueueOnce
  BY <1>1, <1>2 DEF QueueSound, QueueOnce
<1>6. StoreSound /\ AddQueued
  BY <1>3 DEF Init, StoreSound, AddQueued
<1>7. Ordered /\ Drawn
  BY <1>3 DEF Init, Ordered, Drawn
<1>8. QED
  BY <1>4, <1>5, <1>6, <1>7 DEF Sound

LEMMA SoundStep == Sound /\ [Next]_vars => Sound'
BY TypeStep, QueueStep, StoreStep, AddQueuedStep, OrderedStep, DrawnStep DEF Sound

\* The model's variables hold what the program can put there: types, for any
\* users, messages and pictures, and whatever fails.
THEOREM TypeCorrect == Spec => []TypeOK
<1>1. Sound => TypeOK
  BY DEF Sound
<1>2. QED
  BY <1>1, SoundInit, SoundStep, PTL DEF Spec

\* Every message whose handler passed its read is listed for its author at
\* once and for all readers once the server has it, until its removal
\* (ChatService.sendMessage, sendGroupMessage, deleteMessage and the streams).
THEOREM MessagesArrive == Spec => []SentIsListed
<1>1. ASSUME Sound PROVE SentIsListed
  <2>0. TypeOK /\ QueueSound /\ QueueOnce /\ StoreSound /\ AddQueued
    BY <1>1 DEF Sound
  <2> SUFFICES ASSUME NEW m \in Ids, Written(m), m \notin gone, ~Asking(m)
               PROVE  /\ msg[m].pc \in {"wait", "orphan"} => Lists(msg[m].from, m)
                      /\ msg[m].pc = "sent" => \A u \in Readers(m) : Lists(u, m)
    BY DEF SentIsListed
  <2>1. msg[m] \in Messages
    BY <2>0, IsMessage DEF Written
  <2>2. msg[m].from \in Users /\ msg[m].chat \in Users \cup Groups
    BY <2>1 DEF Messages
  \* Only its author's queue has writes of it, all of them adds.
  <2>3. ASSUME NEW u \in Users, NEW i \in DOMAIN queue[u], queue[u][i].m = m
        PROVE  u = msg[m].from /\ queue[u][i].op = "add" /\ msg[m].pc \in {"wait", "orphan"}
    <3>1. u = msg[m].from
      BY <2>0, <2>3 DEF QueueSound
    <3>2. queue[u][i].op = "add"
      BY <2>0, <2>3, <3>1, EntryType DEF Asking, Writes
    <3>3. QED
      BY <2>0, <2>3, <3>1, <3>2 DEF QueueSound
  <2>4. ASSUME msg[m].pc \in {"wait", "orphan"} PROVE Lists(msg[m].from, m)
    <3>1. PICK u \in Users : u = msg[m].from
      BY <2>2
    <3>2. PICK i \in DOMAIN queue[u] : queue[u][i].m = m /\ queue[u][i].op = "add"
      BY <2>0, <2>4, <3>1 DEF AddQueued
    <3>3. queue[u][i].room = Room(u, msg[m].chat)
      BY <2>0, <3>1, <3>2 DEF QueueSound
    <3>4. \A j \in DOMAIN queue[u] : queue[u][j].m = m => j = i
      BY <2>0, <2>3, <3>2 DEF QueueOnce
    <3>5. i \in Nat /\ i <= i
      <4>1. queue[u] \in Seq(Writes)
        BY <2>0 DEF TypeOK, Writes
      <4>2. QED
        BY <4>1, LenProperties
    <3>6. m \in Listed(u, msg[m].chat)
      BY <3>2, <3>3, <3>4, <3>5 DEF Listed
    <3>7. ChatOf(u, m) = msg[m].chat
      BY <3>1 DEF ChatOf
    <3>8. QED
      BY <3>1, <3>6, <3>7 DEF Lists
  <2>5. ASSUME msg[m].pc = "sent", NEW u \in Readers(m) PROVE Lists(u, m)
    <3>1. u \in Users
      BY <2>2 DEF Readers, ToGroup
    <3>2. \A i \in DOMAIN queue[u] : queue[u][i].m # m
      BY <2>3, <2>5, <3>1
    <3>3. Room(u, ChatOf(u, m)) = HomeOf(m)
      BY <2>2, <3>1, GroupsAssumption DEF Readers, ChatOf, HomeOf, Room, ToGroup
    <3>4. <<HomeOf(m), m>> \in store
      BY <2>0, <2>5 DEF StoreSound
    <3>5. QED
      BY <3>2, <3>3, <3>4 DEF Lists, Listed
  <2>6. QED
    BY <2>4, <2>5
<1>2. QED
  BY <1>1, SoundInit, SoundStep, PTL DEF Spec

\* A message between two users that was reported as deleted stays off both
\* lists (the bubble's "Message Deleted" after ChatService.deleteMessage).
THEOREM RemovalsStay == Spec => []ReportedIsGone
<1>1. ASSUME Sound PROVE ReportedIsGone
  <2>0. TypeOK /\ QueueSound /\ QueueOnce /\ StoreSound /\ AddQueued
    BY <1>1 DEF Sound
  <2> SUFFICES ASSUME NEW m \in reported, Written(m), ~ToGroup(m), NEW u \in Readers(m)
               PROVE  ~Lists(u, m)
    BY DEF ReportedIsGone
  <2>1. m \in gone /\ m \in Ids
    BY <2>0 DEF StoreSound, TypeOK
  <2>2. msg[m].pc = "sent" /\ msg[m] \in Messages
    BY <2>0, <2>1, IsMessage DEF StoreSound, Written
  <2>3. msg[m].from \in Users /\ msg[m].chat \in Users /\ u \in {msg[m].from, msg[m].chat}
    BY <2>2 DEF Messages, ToGroup, Readers
  <2>4. u \in Users /\ Room(u, ChatOf(u, m)) = HomeOf(m)
    BY <2>3, GroupsAssumption DEF ChatOf, HomeOf, Room, ToGroup
  <2>5. HomeOf(m) \in Rooms
    BY <2>3, RoomType DEF HomeOf
  <2>6. <<HomeOf(m), m>> \notin store
    BY <2>0, <2>1, <2>5 DEF StoreSound
  <2>7. ASSUME NEW i \in DOMAIN queue[u] PROVE queue[u][i].m # m
    <3>1. queue[u][i].op \in {"add", "remove"}
      BY <2>0, <2>4, EntryType DEF Writes
    <3>2. QED
      BY <2>0, <2>1, <2>2, <2>4, <3>1 DEF QueueSound
  <2>8. QED
    BY <2>4, <2>6, <2>7 DEF Lists, Listed
<1>2. QED
  BY <1>1, SoundInit, SoundStep, PTL DEF Spec

\* The messages of one author are in the order they were written, however the
\* reads before the adds are answered (the timestamps of sendMessage and
\* sendGroupMessage).
THEOREM AuthorsOrder == Spec => []OwnOrder
<1>1. ASSUME Sound PROVE OwnOrder
  <2>1. TypeOK /\ Ordered
    BY <1>1 DEF Sound
  <2> SUFFICES ASSUME NEW mn \in before, Written(mn[1]), Written(mn[2]),
                      msg[mn[2]].pc \in {"wait", "orphan", "sent"}
               PROVE  msg[mn[1]].at < msg[mn[2]].at
    BY DEF OwnOrder
  <2>2. mn[1] \in Ids /\ mn[2] \in Ids /\ <<mn[1], mn[2]>> \in before
    <3>1. mn \in Ids \X Ids
      BY <2>1 DEF TypeOK
    <3>2. mn = <<mn[1], mn[2]>> /\ mn[1] \in Ids /\ mn[2] \in Ids
      BY <3>1
    <3>3. QED
      BY <3>2
  <2>3. Timed(mn[2])
    BY DEF Timed
  <2>4. QED
    BY <2>1, <2>2, <2>3 DEF Ordered
<1>2. QED
  BY <1>1, SoundInit, SoundStep, PTL DEF Spec

\* A message shows the picture its author sent, whatever is picked, uploaded
\* or sent meanwhile, unless its number was drawn again (the uploads of
\* ChatBloc).
THEOREM PicturesStay == Spec => []PictureShown
<1>1. ASSUME Sound PROVE PictureShown
  BY <1>1 DEF Sound, Drawn, PictureShown
<1>2. QED
  BY <1>1, SoundInit, SoundStep, PTL DEF Spec
=============================================================================
