----------------------------- MODULE Messaging ------------------------------
(***************************************************************************)
(* Messages: ChatService.sendMessage, sendGroupMessage and deleteMessage,  *)
(* the streams of the two chat pages, the bubble that removes a message,   *)
(* and the pictures of ChatBloc.                                           *)
(*                                                                         *)
(* A text leaves the text field at once.  Its handler reads a user         *)
(* document, then adds a document to the collection both ends name from    *)
(* their sorted ids.  Nobody awaits the handler: what fails before the add *)
(* is lost without a word.  Timestamps come from the clock of the phone,   *)
(* of a text before the read, of a group's message after it, of a picture  *)
(* after its upload.  ChatBloc is app-wide: the picture it holds is        *)
(* offered on every chat page, and ends with any answer.                   *)
(*                                                                         *)
(* External: the queue of the Firestore client, whose writes a phone sees  *)
(* at once and which outlives the app; the storage, an object per name.    *)
(* Push messages are left out: their call is neither awaited nor answered. *)
(***************************************************************************)
EXTENDS Sequences, Naturals

CONSTANTS
    Users,
    Groups,    \* groups of all the users
    Ids,       \* messages; bounds how many are written
    Pictures,
    Names,     \* the numbers a picture's file name can get
    NoPicture,
    Plans      \* for each scenario: what each user does and what fails

Acts == {"text", "group", "picture", "remove"}
Faults == {"offline", "refuse", "crash"}

ASSUME PlansAssumption == Plans \subseteq [Users -> SUBSET (Acts \cup Faults)]
ASSUME GroupsAssumption == Groups \cap Users = {}
ASSUME NoPictureAssumption == NoPicture \notin Pictures

VARIABLES
    plan,      \* plan[u]: the scenario
    msg,       \* msg[m]: the message and where its handler stands
    store,     \* <<room, m>>: the document of m is in that collection
    queue,     \* queue[u]: writes of u's phone the server has not seen
    clock,     \* clock[u]: the clock of u's phone, a count of timestamps
    picked,    \* picked[u]: the picture ChatBloc of u holds
    objects,   \* objects[n]: the storage
    asked,     \* removals whose answer a phone waits for
    gone,      \* history: removals the server took
    reported,  \* history: messages reported as "Message Deleted"
    before,    \* history: <<m, n>>, n was written by one who had written m
    clash      \* history: names drawn more than once

vars == <<plan, msg, store, queue, clock, picked, objects, asked, gone,
          reported, before, clash>>
pictures == <<picked, objects, clash>>
removals == <<asked, gone, reported>>

New == [pc |-> "new"]
\* Mutant: the document keeps the pair instead of the receiver.
MessageOfPair(u, c, pic, at, pc) ==
    [pc |-> pc, from |-> u, chat |-> {u, c}, pic |-> pic, name |-> {}, at |-> at]

Message(u, c, pic, at, pc) ==
    [pc |-> pc, from |-> u, chat |-> c, pic |-> pic, name |-> {}, at |-> at]
Messages ==
    [pc : {"put", "url", "get", "wait", "orphan", "sent", "lost"}, from : Users,
     chat : Users \cup Groups, pic : Pictures \cup {NoPicture},
     name : {{}} \cup {{n} : n \in Names}, at : Nat]
Lose(m) == msg' = [msg EXCEPT ![m].pc = "lost"]
Written(m) == msg[m].pc \notin {"new", "lost"}
ToGroup(m) == msg[m].chat \in Groups

\* Mutant: the ids of a pair are not sorted.
RoomUnsorted(u, c) ==
    IF c \in Groups THEN [in |-> "chatRooms", id |-> <<c>>]
    ELSE [in |-> "chat_rooms", id |-> <<u, c>>]

\* A pair of sorted ids is one name for both ends.
Room(u, c) ==
    IF c \in Groups THEN [in |-> "chatRooms", id |-> {c}]
    ELSE [in |-> "chat_rooms", id |-> {u, c}]

\* deleteMessage names a pair whatever the chat is: the sender and the
\* receiver, which for a message of a group is the group.
RemoveRoom(m) == [in |-> "chat_rooms", id |-> {msg[m].from, msg[m].chat}]

Rooms == [in : {"chatRooms", "chat_rooms"}, id : SUBSET (Users \cup Groups)]

\* What a phone lists in a chat: its queued writes over the collection.
Listed(u, c) ==
    LET room == Room(u, c)
        on(m) == {i \in DOMAIN queue[u] : queue[u][i].m = m /\ queue[u][i].room = room}
    IN  {m \in Ids :
            IF on(m) = {} THEN <<room, m>> \in store
            ELSE \E i \in on(m) : queue[u][i].op = "add" /\ \A j \in on(m) : j <= i}

\* A removal of m is on its way to the server.
Asking(m) == \E i \in DOMAIN queue[msg[m].from] :
    queue[msg[m].from][i].m = m /\ queue[msg[m].from][i].op = "remove"

-----------------------------------------------------------------------------
Init ==
    /\ plan \in Plans
    /\ msg = [m \in Ids |-> New]
    /\ store = {}
    /\ queue = [u \in Users |-> << >>]
    /\ clock = [u \in Users |-> 0]
    /\ picked = [u \in Users |-> NoPicture]
    /\ objects = [n \in Names |-> NoPicture]
    /\ asked = {} /\ gone = {} /\ reported = {} /\ before = {} /\ clash = {}

Put(m, new) == msg' = [msg EXCEPT ![m] = new]
Tick(u) == clock' = [clock EXCEPT ![u] = @ + 1]
Enqueue(u, o, m, room) ==
    queue' = [queue EXCEPT ![u] = Append(@, [op |-> o, m |-> m, room |-> room])]

\* The messages of u in chat c that one written now comes after: those in
\* u's list, and for a text every text, in the list or on its way.
Earlier(u, c, text) ==
    {m \in Ids : /\ Written(m) /\ msg[m].from = u /\ msg[m].chat = c
                 /\ m \in Listed(u, c) \/ (text /\ msg[m].pic = NoPicture)}
Precedes(u, c, text, m) == before' = before \cup (Earlier(u, c, text) \X {m})

(***************************************************************************)
(* Writing.                                                                *)
(***************************************************************************)
\* sendMessage up to its await: the timestamp is taken, the text is gone.
SendText(u, m, c) ==
    /\ "text" \in plan[u] /\ msg[m] = New /\ c \in Users \ {u}
    /\ Put(m, Message(u, c, NoPicture, clock[u] + 1, "get"))
    /\ Tick(u)
    /\ Precedes(u, c, TRUE, m)
    /\ UNCHANGED <<store, queue, pictures, removals>>

\* sendGroupMessage up to its await.
SendToGroup(u, m, c) ==
    /\ "group" \in plan[u] /\ msg[m] = New /\ c \in Groups
    /\ Put(m, Message(u, c, NoPicture, 0, "get"))
    /\ Precedes(u, c, FALSE, m)
    /\ UNCHANGED <<store, queue, clock, pictures, removals>>

\* Mutant: the timestamp of every message is taken when it is added.
AnswerGetStamped(u, m) ==
    /\ msg[m].pc = "get" /\ msg[m].from = u
    /\ msg' = [msg EXCEPT ![m].pc = "wait", ![m].at = clock[u] + 1]
    /\ Tick(u)
    /\ Enqueue(u, "add", m, Room(u, msg[m].chat))
    /\ UNCHANGED <<store, pictures, removals, before>>

\* The user document is read; a message of a group gets its timestamp now.
AnswerGet(u, m) ==
    /\ msg[m].pc = "get" /\ msg[m].from = u
    /\ msg' = [msg EXCEPT ![m].pc = "wait",
                          ![m].at = IF ToGroup(m) THEN clock[u] + 1 ELSE @]
    /\ IF ToGroup(m) THEN Tick(u) ELSE UNCHANGED clock
    /\ Enqueue(u, "add", m, Room(u, msg[m].chat))
    /\ UNCHANGED <<store, pictures, removals, before>>

\* ImageLoadFailure and ImageCancelImage both bring the text field back.
Drop(u) == picked' = [picked EXCEPT ![u] = NoPicture]
Ended(u, m) ==
    IF msg[m].pic # NoPicture /\ msg[m].pc # "orphan" THEN Drop(u) ELSE UNCHANGED picked

\* No network and no cached document, or an upload that fails.
FailSend(u, m) ==
    /\ "offline" \in plan[u]
    /\ msg[m].pc \in {"put", "url", "get"} /\ msg[m].from = u
    /\ Ended(u, m)
    /\ Lose(m)
    /\ UNCHANGED <<store, queue, clock, objects, removals, before, clash>>

(***************************************************************************)
(* Pictures.                                                               *)
(***************************************************************************)
Unused(p) == (\A m \in Ids : Written(m) => msg[m].pic # p) /\ \A u \in Users : picked[u] # p

Pick(u, p) ==
    /\ "picture" \in plan[u] /\ Unused(p)
    /\ picked' = [picked EXCEPT ![u] = p]
    /\ UNCHANGED <<msg, store, queue, clock, objects, removals, before, clash>>

CancelPicture(u) ==
    /\ picked[u] # NoPicture
    /\ Drop(u)
    /\ UNCHANGED <<msg, store, queue, clock, objects, removals, before, clash>>

\* ImageSendEvent on the page of c: the text field is back, a name is drawn.
SendPicture(u, m, c, n) ==
    /\ msg[m] = New /\ c \in Users \ {u}
    /\ picked[u] # NoPicture
    /\ Put(m, [Message(u, c, picked[u], 0, "put") EXCEPT !.name = {n}])
    /\ clash' = IF objects[n] # NoPicture \/ \E o \in Ids : Written(o) /\ n \in msg[o].name
                THEN clash \cup {n} ELSE clash
    /\ Drop(u)
    /\ Precedes(u, c, FALSE, m)
    /\ UNCHANGED <<store, queue, clock, objects, removals>>

\* Mutant: the picture that is uploaded is the one in the input by then.
UploadCurrent(u, m) ==
    /\ msg[m].pc = "put" /\ msg[m].from = u
    /\ \E n \in msg[m].name : objects' = [objects EXCEPT ![n] =
            IF picked[u] = NoPicture THEN msg[m].pic ELSE picked[u]]
    /\ msg' = [msg EXCEPT ![m].pc = "url"]
    /\ UNCHANGED <<store, queue, clock, picked, removals, before, clash>>

\* putFile: an object of that name is replaced.
Upload(u, m) ==
    /\ msg[m].pc = "put" /\ msg[m].from = u
    /\ \E n \in msg[m].name : objects' = [objects EXCEPT ![n] = msg[m].pic]
    /\ msg' = [msg EXCEPT ![m].pc = "url"]
    /\ UNCHANGED <<store, queue, clock, picked, removals, before, clash>>

\* getDownloadURL, and sendMessage up to its await.
AnswerUrl(u, m) ==
    /\ msg[m].pc = "url" /\ msg[m].from = u
    /\ msg' = [msg EXCEPT ![m].pc = "get", ![m].at = clock[u] + 1]
    /\ Tick(u)
    /\ UNCHANGED <<store, queue, pictures, removals, before>>

(***************************************************************************)
(* Removing.                                                               *)
(***************************************************************************)
\* Mutant: the removal is reported without waiting for the server.
RemoveUnawaited(u, m) ==
    /\ "remove" \in plan[u] /\ Written(m) /\ msg[m].from = u
    /\ m \in Listed(u, msg[m].chat) \ gone /\ ~Asking(m)
    /\ Enqueue(u, "remove", m, RemoveRoom(m))
    /\ reported' = reported \cup {m}
    /\ UNCHANGED <<msg, store, clock, pictures, asked, gone, before>>

\* Only the author's bubble offers it.  Bound: one removal of a message that
\* the server takes, and one at a time.
Remove(u, m) ==
    /\ "remove" \in plan[u] /\ Written(m) /\ msg[m].from = u
    /\ m \in Listed(u, msg[m].chat) \ gone /\ ~Asking(m)
    /\ Enqueue(u, "remove", m, RemoveRoom(m))
    /\ asked' = asked \cup {m}
    /\ UNCHANGED <<msg, store, clock, pictures, gone, reported, before>>

-----------------------------------------------------------------------------
\* The server takes the oldest write of a phone.  An added picture ends with
\* ImageCancelEvent, an answered removal with FetchChatEvent: either way the
\* picture in the input is dropped.
CommitHead(u) ==
    /\ queue[u] # << >>
    /\ queue' = [queue EXCEPT ![u] = Tail(@)]
    /\ LET w == Head(queue[u])
           m == w.m
       IN  \/ /\ w.op = "add"
              /\ store' = store \cup {<<w.room, m>>}
              /\ msg' = [msg EXCEPT ![m].pc = "sent"]
              /\ Ended(u, m)
              /\ UNCHANGED removals
           \/ /\ w.op = "remove"
              /\ store' = store \ {<<w.room, m>>}
              /\ gone' = gone \cup {m}
              /\ asked' = asked \ {m}
              /\ IF m \in asked THEN reported' = reported \cup {m} /\ Drop(u)
                 ELSE UNCHANGED <<reported, picked>>
              /\ UNCHANGED msg
    /\ UNCHANGED <<clock, objects, before, clash>>

\* It refuses one: the phone forgets it, an error nobody handles is thrown.
RefuseHead(u) ==
    /\ "refuse" \in plan[u] /\ queue[u] # << >>
    /\ queue' = [queue EXCEPT ![u] = Tail(@)]
    /\ LET w == Head(queue[u])
       IN  \/ w.op = "add" /\ Ended(u, w.m) /\ Lose(w.m) /\ UNCHANGED asked
           \/ w.op = "remove" /\ asked' = asked \ {w.m} /\ UNCHANGED <<msg, picked>>
    /\ UNCHANGED <<store, clock, objects, gone, reported, before, clash>>

Running(u) == {m \in Ids : /\ msg[m].pc \in {"put", "url", "get", "wait"}
                           /\ msg[m].from = u}

\* The app is killed and started again: handlers die, the queue stays.
Crash(u) ==
    /\ "crash" \in plan[u]
    /\ Running(u) # {} \/ \E m \in asked : msg[m].from = u
    /\ msg' = [m \in Ids |->
            IF m \in Running(u)
            THEN [msg[m] EXCEPT !.pc = IF @ = "wait" THEN "orphan" ELSE "lost"] ELSE msg[m]]
    /\ asked' = {m \in asked : msg[m].from # u}
    /\ Drop(u)
    /\ UNCHANGED <<store, queue, clock, objects, gone, reported, before, clash>>

Next ==
    /\ UNCHANGED plan
    /\ \E u \in Users :
        \/ CommitHead(u) \/ RefuseHead(u) \/ Crash(u) \/ CancelPicture(u)
        \/ \E p \in Pictures : Pick(u, p)
        \/ \E m \in Ids :
            \/ AnswerGet(u, m) \/ FailSend(u, m) \/ Upload(u, m) \/ AnswerUrl(u, m)
            \/ Remove(u, m)
            \/ \E c \in Users \cup Groups :
                \/ SendText(u, m, c) \/ SendToGroup(u, m, c)
                \/ \E n \in Names : SendPicture(u, m, c, n)

Spec == Init /\ [][Next]_vars

-----------------------------------------------------------------------------
\* Every variable holds what the program can put there.
TypeOK ==
    /\ plan \in Plans
    /\ msg \in [Ids -> Messages \cup {New}]
    /\ store \subseteq Rooms \X Ids
    /\ queue \in [Users -> Seq([op : {"add", "remove"}, m : Ids, room : Rooms])]
    /\ clock \in [Users -> Nat]
    /\ picked \in [Users -> Pictures \cup {NoPicture}]
    /\ objects \in [Names -> Pictures \cup {NoPicture}]
    /\ asked \cup gone \cup reported \subseteq Ids
    /\ before \subseteq Ids \X Ids /\ clash \subseteq Names

Readers(m) == IF ToGroup(m) THEN Users ELSE {msg[m].from, msg[m].chat}
\* The chat in which u reads m.
ChatOf(u, m) ==
    IF ToGroup(m) \/ u = msg[m].from THEN msg[m].chat ELSE msg[m].from
Lists(u, m) == m \in Listed(u, ChatOf(u, m))

\* No message is lost but for a failed read or upload, a refusal or the death
\* of the app before the add: a message whose handler has gone on is listed
\* for its author at once, and for everyone in the chat once the server has
\* it, until its author removes it.
SentIsListed ==
    \A m \in Ids : Written(m) /\ m \notin gone /\ ~Asking(m) =>
        /\ msg[m].pc \in {"wait", "orphan"} => Lists(msg[m].from, m)
        /\ msg[m].pc = "sent" => \A u \in Readers(m) : Lists(u, m)

\* A message between two users that was reported as deleted is listed for
\* neither of them, then and later.
ReportedIsGone ==
    \A m \in reported : Written(m) /\ ~ToGroup(m) => \A u \in Readers(m) : ~Lists(u, m)

\* An author's own messages are in the order in which they were written: each
\* after those already listed then, and texts between two users also after
\* those still on their way, however the reads before the adds are answered.
OwnOrder ==
    \A mn \in before : Written(mn[1]) /\ Written(mn[2]) =>
        (msg[mn[2]].pc \in {"wait", "orphan", "sent"} => msg[mn[1]].at < msg[mn[2]].at)

\* The picture of a message is the one its author sent, whatever else is
\* picked or uploaded meanwhile, unless another upload drew the same number.
PictureShown ==
    \A m \in Ids : Written(m) /\ msg[m].pc \in {"get", "wait", "orphan", "sent"} =>
        \A n \in msg[m].name \ clash : objects[n] = msg[m].pic
=============================================================================
