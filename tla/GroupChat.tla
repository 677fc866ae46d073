----------------------------- MODULE GroupChat ------------------------------
(***************************************************************************)
(* Group chats: GroupchatBloc, the pages that add its events (the list of  *)
(* groups with its dialog, a group and its details, new members) and       *)
(* ChatService.addMembersToChatRoom.                                       *)
(*                                                                         *)
(* A group is one document chatRooms/<id>.  Its id is made on the phone,   *)
(* its first members are the ticks of a dialog that are kept in a list     *)
(* outside every page, its admin is the user the bloc found when it was    *)
(* made.  Both outlive a log-out: the next account on the phone gets them. *)
(* New members come through a transaction, everything else through the     *)
(* queue of the Firestore client.                                          *)
(*                                                                         *)
(* The Firestore client is external: a queue of writes for each account,   *)
(* sent while that account is logged in and kept over a restart; a cache   *)
(* that answers a query when the phone is offline; a transaction that the  *)
(* server commits only when the document it read has not changed.  Name    *)
(* and picture of a group are left out: an update of them (Rename) needs   *)
(* the document and leaves its members alone.                              *)
(***************************************************************************)
EXTENDS Sequences, FiniteSets, Naturals

CONSTANTS
    Users,
    Phones,
    Rooms,     \* the ids that doc() makes; bounds the groups saved
    Slots,     \* handlers one GroupchatBloc can run at the same time
    NoUser,    \* nobody is logged in, or the bloc is not made yet
    NoRoom,    \* a document that does not exist; also: no page of a group
    NoSlot,    \* the owner of a queued write whose handler died with the app
    Plans,     \* for each scenario: who uses a phone, the ids it makes, what
               \* is done there (with "overlap" also while a handler runs) and
               \* what fails
    MaxQueue   \* bound: writes of one account a phone queues

Acts == {"add", "delete", "rename", "refresh", "overlap"}
Faults == {"offline", "refuse", "crash"}

ASSUME PlansAssumption == Plans \subseteq [Phones -> SUBSET (Users \cup Rooms \cup Acts \cup Faults)]
ASSUME NullAssumption == NoUser \notin Users /\ NoRoom \notin Rooms /\ NoSlot \notin Slots
ASSUME QueueAssumption == MaxQueue \in Nat
\* NoRoom is told apart from a document.
ASSUME DocAssumption == NoRoom \notin [members : SUBSET Users, admin : Users]

VARIABLES
    plan,      \* plan[p]: the scenario
    rooms,     \* rooms[r]: the document chatRooms/r
    cache,     \* cache[p]: what p's phone has stored of that collection
    queue,     \* queue[p][u]: writes of account u on p the server has not seen
    me,        \* me[p]: FirebaseAuth.instance.currentUser
    owner,     \* owner[p]: currentUserId of the GroupchatBloc of p
    ticks,     \* ticks[p][u]: how often _selectedMemberIds holds u
    page,      \* page[p]: the page in front, its group and that group's admin
    bloc,      \* bloc[p]: the state GroupchatBloc emitted last
    handler,   \* handler[p][s]: a running handler
    used,      \* history: ids made by doc()
    dead,      \* history: groups the server deleted
    added,     \* history: <<u, r>>, u was reported as a member of r
    dropped,   \* history: dropped[p]: groups whose deletion p reported to the
               \* account that asked for it
    early,     \* history: loads that were answered before that report
    foreign,   \* history: phones whose account changed under a handler
    late       \* history: phones that show the list of an early load

local == <<cache, me, owner, ticks, page>>
history == <<used, dead, added, dropped, early, foreign, late>>
vars == <<plan, rooms, cache, queue, me, owner, ticks, page, bloc, handler,
          used, dead, added, dropped, early, foreign, late>>

Docs == [members : SUBSET Users, admin : Users]
Kinds == {"create", "load", "add", "delete", "rename"}
Idle == [pc |-> "idle"]
Run(k, u, r, S, pc) ==
    [kind |-> k, who |-> u, room |-> r, set |-> S, pc |-> pc, doc |-> NoRoom,
     list |-> {}]
HandlerStates ==
    [kind : Kinds, who : Users \cup {NoUser}, room : Rooms \cup {NoRoom},
     set : SUBSET Users, list : SUBSET (Rooms \X Users),
     pc : {"write", "ok", "err", "read", "answer", "get", "commit"},
     doc : Docs \cup {NoRoom}]
Mutations == [op : {"set", "update", "delete"}, room : Rooms,
              doc : Docs \cup {NoRoom}, slot : Slots \cup {NoSlot}]
Tags == {"Initial", "CreateLoading", "Loading", "Loaded", "LoadFailure",
         "CreateFailure", "Created", "MembersAdding", "AddFailure"}

BlocState(tag, S) == [tag |-> tag, list |-> S]
Emit(p, tag) == bloc' = [bloc EXCEPT ![p] = BlocState(tag, {})]
Page(at) == [at |-> at, room |-> NoRoom, admin |-> NoUser]
Set(p, s, h) == handler' = [handler EXCEPT ![p][s] = h]
Enqueue(p, m) ==
    /\ Len(queue[p][me[p]]) < MaxQueue
    /\ queue' = [queue EXCEPT ![p][me[p]] = Append(@, m)]
Write(o, r, d, s) == [op |-> o, room |-> r, doc |-> d, slot |-> s]

\* GroupChatLoadEvent: the spinner, then the uid of this moment.
Load(p) == Run("load", me[p], NoRoom, {}, "read")
StartLoad(p, s) == Set(p, s, Load(p)) /\ Emit(p, "Loading")

(***************************************************************************)
(* What a phone sees: the queued writes of its account over the documents. *)
(***************************************************************************)
Apply(m, d) ==
    CASE m.op = "set" -> m.doc [] m.op = "update" -> d [] m.op = "delete" -> NoRoom

Overlay(q, docs) ==
    [r \in Rooms |->
        LET on == {i \in DOMAIN q : q[i].room = r /\ q[i].op # "update"}
        IN  IF on = {} THEN docs[r]
            ELSE Apply(q[CHOOSE i \in on : \A j \in on : j <= i], docs[r])]

Seen(p, docs) == IF me[p] = NoUser THEN docs ELSE Overlay(queue[p][me[p]], docs)

\* The groups of a user, each with its admin, as the list keeps them.
Mine(u, docs) ==
    {ra \in Rooms \X Users : \E d \in Docs :
        docs[ra[1]] = d /\ u \in d.members /\ ra[2] = d.admin}

-----------------------------------------------------------------------------
Init ==
    /\ plan \in Plans
    /\ rooms = [r \in Rooms |-> NoRoom]
    /\ cache = [p \in Phones |-> [r \in Rooms |-> NoRoom]]
    /\ queue = [p \in Phones |-> [u \in Users |-> << >>]]
    /\ me = [p \in Phones |-> NoUser]
    /\ owner = [p \in Phones |-> NoUser]
    /\ ticks = [p \in Phones |-> [u \in Users |-> 0]]
    /\ page = [p \in Phones |-> Page("out")]
    /\ bloc = [p \in Phones |-> BlocState("Initial", {})]
    /\ handler = [p \in Phones |-> [s \in Slots |-> Idle]]
    /\ used = {} /\ dead = {} /\ added = {}
    /\ dropped = [p \in Phones |-> {}]
    /\ early = {} /\ foreign = {} /\ late = {}

(***************************************************************************)
(* Pages.                                                                  *)
(***************************************************************************)
Running(p) == \E s \in Slots : handler[p][s] # Idle
Free(p, s) == handler[p][s] = Idle /\ ("overlap" \in plan[p] \/ ~Running(p))

LogIn(p, u) ==
    /\ page[p].at = "out" /\ u \in plan[p]
    /\ me' = [me EXCEPT ![p] = u]
    /\ page' = [page EXCEPT ![p] = Page("base")]
    /\ UNCHANGED <<rooms, cache, queue, owner, ticks, bloc, handler, history>>

\* The bloc, its handlers and the ticks stay as they are.
LogOut(p) ==
    /\ page[p].at \in {"base", "list"}
    /\ \E u \in Users \cap plan[p] : u # me[p]
    /\ me' = [me EXCEPT ![p] = NoUser]
    /\ page' = [page EXCEPT ![p] = Page("out")]
    /\ foreign' = IF Running(p) THEN foreign \cup {p} ELSE foreign
    /\ UNCHANGED <<rooms, cache, queue, owner, ticks, bloc, handler>>
    /\ UNCHANGED <<used, dead, added, dropped, early, late>>

\* Mutant: the user of the bloc is not read.
OpenListNoOwner(p, s) ==
    /\ page[p].at = "base" /\ Free(p, s)
    /\ page' = [page EXCEPT ![p] = Page("list")]
    /\ StartLoad(p, s)
    /\ UNCHANGED <<rooms, cache, queue, me, owner, ticks, history>>

\* The tab of groups, built for the first time: the bloc is made now, unless
\* there is one.
OpenList(p, s) ==
    /\ page[p].at = "base" /\ Free(p, s)
    /\ page' = [page EXCEPT ![p] = Page("list")]
    /\ owner' = [owner EXCEPT ![p] = IF @ = NoUser THEN me[p] ELSE @]
    /\ StartLoad(p, s)
    /\ foreign' = foreign \ (IF Running(p) THEN {} ELSE {p})
    /\ late' = late \ {p}
    /\ UNCHANGED <<rooms, cache, queue, me, ticks>>
    /\ UNCHANGED <<used, dead, added, dropped, early>>

Refresh(p, s) ==
    /\ "refresh" \in plan[p] /\ page[p].at = "list" /\ Free(p, s)
    /\ StartLoad(p, s)
    /\ UNCHANGED <<rooms, queue, local, history>>

\* A group in the list is opened with the admin the list holds; its details
\* need a user.
OpenRoom(p) ==
    /\ page[p].at = "list" /\ bloc[p].tag = "Loaded" /\ me[p] # NoUser
    /\ \E ra \in bloc[p].list :
        page' = [page EXCEPT ![p] = [at |-> "room", room |-> ra[1], admin |-> ra[2]]]
    /\ UNCHANGED <<rooms, cache, queue, me, owner, ticks, bloc, handler, history>>

Back(p) ==
    /\ page[p].at \in {"room", "add"}
    /\ page' = [page EXCEPT ![p] =
            IF @.at = "add" THEN [@ EXCEPT !.at = "room"] ELSE Page("list")]
    /\ UNCHANGED <<rooms, cache, queue, me, owner, ticks, bloc, handler, history>>

\* Only the admin gets to the page of new members.
OpenAdd(p) ==
    /\ "add" \in plan[p]
    /\ page[p].at = "room" /\ page[p].admin = me[p]
    /\ page' = [page EXCEPT ![p].at = "add"]
    /\ UNCHANGED <<rooms, cache, queue, me, owner, ticks, bloc, handler, history>>

(***************************************************************************)
(* Creating a group.                                                       *)
(***************************************************************************)
\* A tick in the dialog; the dialog lists other users, and a tick taken away
\* is taken away once.
Tick(p, u) ==
    /\ plan[p] \cap Rooms # {} /\ page[p].at = "list" /\ u # me[p]
    /\ ticks' = [ticks EXCEPT ![p][u] = IF @ = 0 THEN 1 ELSE @ - 1]
    /\ UNCHANGED <<rooms, cache, queue, me, owner, page, bloc, handler, history>>

Ticked(p) == {u \in Users : ticks[p][u] > 0}

\* Mutant: the creator is left to tick himself.
SaveUnticked(p, s, r) ==
    /\ r \in plan[p] /\ page[p].at = "list" /\ me[p] # NoUser /\ Free(p, s)
    /\ r \notin used /\ used' = used \cup {r}
    /\ LET d == [members |-> Ticked(p), admin |-> owner[p]]
       IN  /\ Enqueue(p, Write("set", r, d, s))
           /\ Set(p, s, Run("create", me[p], r, d.members, "write"))
    /\ Emit(p, "CreateLoading")
    /\ UNCHANGED <<rooms, cache, me, owner, ticks, page>>
    /\ UNCHANGED <<dead, added, dropped, early, foreign, late>>

\* Save adds the own uid to the ticks and never clears them.
Save(p, s, r) ==
    /\ r \in plan[p] /\ page[p].at = "list" /\ me[p] # NoUser /\ Free(p, s)
    /\ r \notin used /\ used' = used \cup {r}
    /\ ticks' = [ticks EXCEPT ![p][me[p]] = @ + 1]
    /\ LET d == [members |-> Ticked(p) \cup {me[p]}, admin |-> owner[p]]
       IN  /\ Enqueue(p, Write("set", r, d, s))
           /\ Set(p, s, Run("create", me[p], r, d.members, "write"))
    /\ Emit(p, "CreateLoading")
    /\ UNCHANGED <<rooms, cache, me, owner, page>>
    /\ UNCHANGED <<dead, added, dropped, early, foreign, late>>

Ends(p, s, k, pc) ==
    handler[p][s] # Idle /\ handler[p][s].kind = k /\ handler[p][s].pc = pc
ListAlive(p) == page[p].at \in {"list", "room", "add"}
Reported(p, s) == {<<u, handler[p][s].room>> : u \in handler[p][s].set}

\* Mutant: nothing loads the list after a group was created.
FinishCreateNoReload(p, s) ==
    /\ Ends(p, s, "create", "ok")
    /\ added' = added \cup Reported(p, s)
    /\ Set(p, s, Idle) /\ Emit(p, "Created")
    /\ UNCHANGED <<rooms, queue, local>>
    /\ UNCHANGED <<used, dead, dropped, early, foreign, late>>

\* ChatRoomCreated: the listener of the list, where there is one, loads it.
FinishCreate(p, s) ==
    /\ Ends(p, s, "create", "ok")
    /\ added' = added \cup Reported(p, s)
    /\ IF ListAlive(p) THEN StartLoad(p, s)
       ELSE Set(p, s, Idle) /\ Emit(p, "Created")
    /\ UNCHANGED <<rooms, queue, local>>
    /\ UNCHANGED <<used, dead, dropped, early, foreign, late>>

FailCreate(p, s) ==
    /\ Ends(p, s, "create", "err")
    /\ Set(p, s, Idle) /\ Emit(p, "CreateFailure")
    /\ UNCHANGED <<rooms, queue, local, history>>

(***************************************************************************)
(* Loading the list.                                                       *)
(***************************************************************************)
Answer(p, s, u, docs) ==
    handler' = [handler EXCEPT ![p][s] = [@ EXCEPT
        !.pc = "answer", !.list = Mine(u, Seen(p, docs))]]

\* Mutant: the groups are those of the user the bloc was made for.
ReadRoomsByOwner(p, s) ==
    /\ Ends(p, s, "load", "read") /\ handler[p][s].who # NoUser
    /\ \/ Answer(p, s, owner[p], rooms) /\ cache' = [cache EXCEPT ![p] = rooms]
       \/ "offline" \in plan[p] /\ Answer(p, s, owner[p], cache[p]) /\ UNCHANGED cache
    /\ UNCHANGED <<rooms, queue, me, owner, ticks, page, bloc, history>>

\* All groups are read, from the server or, offline, from the cache, and the
\* phone keeps those of the user the load began with.
ReadRooms(p, s) ==
    /\ Ends(p, s, "load", "read") /\ handler[p][s].who # NoUser
    /\ LET u == handler[p][s].who
       IN  \/ Answer(p, s, u, rooms) /\ cache' = [cache EXCEPT ![p] = rooms]
           \/ "offline" \in plan[p] /\ Answer(p, s, u, cache[p]) /\ UNCHANGED cache
    /\ UNCHANGED <<rooms, queue, me, owner, ticks, page, bloc, history>>

FinishLoad(p, s) ==
    /\ Ends(p, s, "load", "answer")
    /\ Set(p, s, Idle)
    /\ bloc' = [bloc EXCEPT ![p] = BlocState("Loaded", handler[p][s].list)]
    /\ late' = IF <<p, s>> \in early THEN late \cup {p} ELSE late \ {p}
    /\ early' = early \ {<<p, s>>}
    /\ UNCHANGED <<rooms, queue, local, used, dead, added, dropped, foreign>>

\* A load without a user throws at once; any other may fail.
FailLoad(p, s) ==
    /\ Ends(p, s, "load", "read")
    /\ Set(p, s, Idle) /\ Emit(p, "LoadFailure")
    /\ UNCHANGED <<rooms, queue, local, history>>

(***************************************************************************)
(* New members.                                                            *)
(***************************************************************************)
\* The page offers friends; its own listener waits for a state of another
\* bloc, so it stays open and the button can be used again.
AddMembers(p, s, S) ==
    /\ page[p].at = "add" /\ Free(p, s)
    /\ S # {} /\ S \subseteq Users \ {me[p]}
    /\ Set(p, s, Run("add", me[p], page[p].room, S, "get"))
    /\ Emit(p, "MembersAdding")
    /\ UNCHANGED <<rooms, queue, local, history>>

\* The transaction reads the document on the server.
TxnGet(p, s) ==
    /\ Ends(p, s, "add", "get")
    /\ LET d == rooms[handler[p][s].room]
       IN  handler' = [handler EXCEPT ![p][s] = [@ EXCEPT
               !.doc = d, !.pc = IF d = NoRoom THEN "err" ELSE "commit"]]
    /\ UNCHANGED <<rooms, queue, local, bloc, history>>

\* Mutant: get and update without a transaction.
TxnCommitBlind(p, s) ==
    /\ Ends(p, s, "add", "commit")
    /\ LET h == handler[p][s]
       IN  IF rooms[h.room] # NoRoom
           THEN /\ rooms' = [rooms EXCEPT ![h.room].members = h.doc.members \cup h.set]
                /\ handler' = [handler EXCEPT ![p][s].pc = "ok"]
           ELSE UNCHANGED rooms /\ handler' = [handler EXCEPT ![p][s].pc = "get"]
    /\ UNCHANGED <<queue, local, bloc, history>>

\* It commits when the document is the one it read and starts again if not.
TxnCommit(p, s) ==
    /\ Ends(p, s, "add", "commit")
    /\ LET h == handler[p][s]
       IN  IF rooms[h.room] = h.doc
           THEN /\ rooms' = [rooms EXCEPT ![h.room].members = h.doc.members \cup h.set]
                /\ handler' = [handler EXCEPT ![p][s].pc = "ok"]
           ELSE UNCHANGED rooms /\ handler' = [handler EXCEPT ![p][s].pc = "get"]
    /\ UNCHANGED <<queue, local, bloc, history>>

\* No network, or too many retries.
FailTxn(p, s) ==
    /\ Ends(p, s, "add", "get") \/ Ends(p, s, "add", "commit")
    /\ handler' = [handler EXCEPT ![p][s].pc = "err"]
    /\ UNCHANGED <<rooms, queue, local, bloc, history>>

\* AddMembersSuccess and GroupChatLoadEvent.
FinishAdd(p, s) ==
    /\ Ends(p, s, "add", "ok")
    /\ added' = added \cup Reported(p, s)
    /\ StartLoad(p, s)
    /\ UNCHANGED <<rooms, queue, local, used, dead, dropped, early, foreign, late>>

FailAdd(p, s) ==
    /\ Ends(p, s, "add", "err")
    /\ Set(p, s, Idle) /\ Emit(p, "AddFailure")
    /\ UNCHANGED <<rooms, queue, local, history>>

(***************************************************************************)
(* Deleting and renaming a group.                                          *)
(***************************************************************************)
Delete(p, s) ==
    /\ "delete" \in plan[p]
    /\ page[p].at = "room" /\ page[p].admin = me[p] /\ Free(p, s)
    /\ Enqueue(p, Write("delete", page[p].room, NoRoom, s))
    /\ Set(p, s, Run("delete", me[p], page[p].room, {}, "write"))
    /\ UNCHANGED <<rooms, local, bloc, history>>

AnsweredLoads(p) == {ps \in {p} \X Slots : Ends(p, ps[2], "load", "answer")}

\* GroupchatDeleteSuccess; the main page is replaced and loads the list.
DeleteDone(p, s) ==
    /\ dropped' = IF p \in foreign THEN dropped
                  ELSE [dropped EXCEPT ![p] = @ \cup {handler[p][s].room}]
    /\ early' = early \cup AnsweredLoads(p)
    /\ page' = [page EXCEPT ![p] = Page("list")]
    /\ StartLoad(p, s)
    /\ UNCHANGED <<rooms, queue, cache, me, owner, ticks>>
    /\ UNCHANGED <<used, dead, added, foreign, late>>

\* Mutant: a refused deletion is reported like one that was done.
FinishDeleteAnyway(p, s) ==
    /\ Ends(p, s, "delete", "ok") \/ Ends(p, s, "delete", "err")
    /\ DeleteDone(p, s)

FinishDelete(p, s) == Ends(p, s, "delete", "ok") /\ DeleteDone(p, s)

\* Mutant: the new name is set instead of updated.
RenameWithSet(p, s) ==
    /\ "rename" \in plan[p]
    /\ page[p].at = "room" /\ Free(p, s)
    /\ LET d == [members |-> {me[p]}, admin |-> page[p].admin]
       IN  Enqueue(p, Write("set", page[p].room, d, s))
    /\ Set(p, s, Run("rename", me[p], page[p].room, {}, "write"))
    /\ UNCHANGED <<rooms, local, bloc, history>>

\* Any member can rename the group; the editor's bloc loads the list.
Rename(p, s) ==
    /\ "rename" \in plan[p]
    /\ page[p].at = "room" /\ Free(p, s)
    /\ Enqueue(p, Write("update", page[p].room, NoRoom, s))
    /\ Set(p, s, Run("rename", me[p], page[p].room, {}, "write"))
    /\ UNCHANGED <<rooms, local, bloc, history>>

FinishRename(p, s) ==
    /\ Ends(p, s, "rename", "ok")
    /\ IF page[p].at = "room" THEN StartLoad(p, s) ELSE Set(p, s, Idle) /\ UNCHANGED bloc
    /\ UNCHANGED <<rooms, queue, local, history>>

\* Neither failure shows in the list; a rename that was stored fails like this
\* when the read of the name after it does.
FailQuietly(p, s) ==
    /\ \/ Ends(p, s, "delete", "err")
       \/ Ends(p, s, "rename", "err")
       \/ Ends(p, s, "rename", "ok")
    /\ Set(p, s, Idle)
    /\ UNCHANGED <<rooms, queue, local, bloc, history>>

-----------------------------------------------------------------------------
Acknowledge(p, m, pc) ==
    handler' = IF m.slot = NoSlot THEN handler
               ELSE [handler EXCEPT ![p][m.slot].pc = pc]

\* The server takes the oldest write of the account that is logged in.
Commit(p, m) ==
    LET r == m.room
        d == Apply(m, rooms[r])
    IN  /\ rooms' = [rooms EXCEPT ![r] = d]
        /\ cache' = [cache EXCEPT ![p][r] = d]
        /\ dead' = IF m.op = "delete" /\ rooms[r] # NoRoom THEN dead \cup {r} ELSE dead
        /\ Acknowledge(p, m, "ok")

CommitHead(p) ==
    /\ me[p] # NoUser /\ queue[p][me[p]] # << >>
    /\ LET m == Head(queue[p][me[p]])
       IN  /\ m.op = "update" => rooms[m.room] # NoRoom
           /\ Commit(p, m)
    /\ queue' = [queue EXCEPT ![p][me[p]] = Tail(@)]
    /\ UNCHANGED <<me, owner, ticks, page, bloc>>
    /\ UNCHANGED <<used, added, dropped, early, foreign, late>>

\* It refuses an update of a missing document, and what the rules forbid.
RefuseHead(p) ==
    /\ me[p] # NoUser /\ queue[p][me[p]] # << >>
    /\ LET m == Head(queue[p][me[p]])
       IN  /\ \/ "refuse" \in plan[p]
              \/ m.op = "update" /\ rooms[m.room] = NoRoom
           /\ Acknowledge(p, m, "err")
    /\ queue' = [queue EXCEPT ![p][me[p]] = Tail(@)]
    /\ UNCHANGED <<rooms, local, bloc, history>>

\* The app is killed and started again: bloc, ticks and handlers are new,
\* queue, cache and account stay.
Crash(p) ==
    /\ "crash" \in plan[p] /\ me[p] # NoUser /\ Running(p)
    /\ handler' = [handler EXCEPT ![p] = [s \in Slots |-> Idle]]
    /\ queue' = [queue EXCEPT ![p] = [u \in Users |->
            [i \in DOMAIN queue[p][u] |-> [queue[p][u][i] EXCEPT !.slot = NoSlot]]]]
    /\ owner' = [owner EXCEPT ![p] = NoUser]
    /\ ticks' = [ticks EXCEPT ![p] = [u \in Users |-> 0]]
    /\ page' = [page EXCEPT ![p] = Page("base")]
    /\ Emit(p, "Initial")
    /\ early' = early \ ({p} \X Slots)
    /\ late' = late \ {p} /\ foreign' = foreign \ {p}
    /\ UNCHANGED <<rooms, cache, me, used, dead, added, dropped>>

(***************************************************************************)
(* The specification.                                                      *)
(***************************************************************************)
UserActs(p) ==
    \/ LogOut(p) \/ OpenRoom(p) \/ OpenAdd(p) \/ Back(p)
    \/ \E u \in Users : LogIn(p, u) \/ Tick(p, u)
    \/ \E s \in Slots :
        \/ OpenList(p, s) \/ Refresh(p, s) \/ Delete(p, s) \/ Rename(p, s)
        \/ \E r \in Rooms : Save(p, s, r)
        \/ \E S \in SUBSET Users : AddMembers(p, s, S)

Progress(p, s) ==
    \/ FinishCreate(p, s) \/ FailCreate(p, s)
    \/ ReadRooms(p, s) \/ FinishLoad(p, s) \/ FailLoad(p, s)
    \/ TxnGet(p, s) \/ TxnCommit(p, s) \/ FailTxn(p, s)
    \/ FinishAdd(p, s) \/ FailAdd(p, s)
    \/ FinishDelete(p, s) \/ FinishRename(p, s) \/ FailQuietly(p, s)

Next ==
    /\ UNCHANGED plan
    /\ \E p \in Phones :
        \/ UserActs(p) \/ CommitHead(p) \/ RefuseHead(p) \/ Crash(p)
        \/ \E s \in Slots : Progress(p, s)

Spec == Init /\ [][Next]_vars

-----------------------------------------------------------------------------
\* Every variable holds what the program can put there.
TypeOK ==
    /\ plan \in Plans
    /\ rooms \in [Rooms -> Docs \cup {NoRoom}]
    /\ cache \in [Phones -> [Rooms -> Docs \cup {NoRoom}]]
    /\ queue \in [Phones -> [Users -> Seq(Mutations)]]
    /\ me \in [Phones -> Users \cup {NoUser}]
    /\ owner \in [Phones -> Users \cup {NoUser}]
    /\ ticks \in [Phones -> [Users -> Nat]]
    /\ page \in [Phones -> [at : {"out", "base", "list", "room", "add"},
                            room : Rooms \cup {NoRoom}, admin : Users \cup {NoUser}]]
    /\ bloc \in [Phones -> [tag : Tags, list : SUBSET (Rooms \X Users)]]
    /\ handler \in [Phones -> [Slots -> HandlerStates \cup {Idle}]]
    /\ used \cup dead \subseteq Rooms /\ added \subseteq Users \X Rooms
    /\ dropped \in [Phones -> SUBSET Rooms]
    /\ early \subseteq Phones \X Slots
    /\ foreign \subseteq Phones /\ late \subseteq Phones

\* Who is in a group behaves as Membership says: a group is made once, only
\* gains members, and is not brought back by a write, a transaction or a
\* replayed queue after it was deleted.
Life(r) ==
    IF r \in dead THEN "gone" ELSE IF rooms[r] = NoRoom THEN "fresh" ELSE "live"
MembersOf(r) == IF rooms[r] = NoRoom THEN {} ELSE rooms[r].members
Abstract == INSTANCE Membership
    WITH life <- [r \in Rooms |-> Life(r)], members <- [r \in Rooms |-> MembersOf(r)]
ImplementsMembership == Abstract!Spec

\* A user who was reported as a member, by the creation of a group or by the
\* addition of members, is one until the group is deleted, whoever else adds
\* members at the same time.
AddedStay ==
    \A ur \in added : ur[2] \in dead \/ ur[1] \in MembersOf(ur[2])

\* A group has an admin among its members, who alone can delete it or add to
\* it, unless that user shares a phone with another account: the bloc keeps
\* the account it was made for.
Shares(u) == \E p \in Phones : u \in plan[p] /\ plan[p] \cap Users # {u}
AdminIsMember ==
    \A r \in Rooms : rooms[r] # NoRoom /\ ~Shares(rooms[r].admin)
        => rooms[r].admin \in rooms[r].members

\* The list shows groups of the account that is logged in, not those of one
\* that was there before, unless a handler of that one was still running.
ListIsMine ==
    \A p \in Phones :
        page[p].at = "list" /\ p \notin foreign =>
            \A ra \in bloc[p].list : rooms[ra[1]] # NoRoom => me[p] \in MembersOf(ra[1])

\* A group whose deletion was reported on a phone is not listed there again,
\* unless a load that had its answer before the report shows it afterwards.
DroppedNotListed ==
    \A p \in Phones \ late : \A ra \in bloc[p].list : ra[1] \notin dropped[p]

\* What the tab of groups draws: a state it does not know is drawn like an
\* empty list, with the text that no rooms were created yet.
Drawn(p) ==
    CASE bloc[p].tag = "Loading" -> "spinner"
      [] bloc[p].tag = "Loaded" /\ bloc[p].list # {} -> "list"
      [] bloc[p].tag = "CreateFailure" -> "error"
      [] OTHER -> "none"

\* When no handler runs the tab of groups draws no spinner, and the text that
\* no rooms were created yet only after a load found none or after a load or
\* an addition of members failed: such a failure is not told apart from having
\* no groups, but the text is never left by a state that is no answer.
ListSettles ==
    \A p \in Phones :
        page[p].at = "list" /\ ~Running(p) =>
            /\ Drawn(p) # "spinner"
            /\ Drawn(p) = "none" => bloc[p].tag \in {"Loaded", "LoadFailure", "AddFailure"}
=============================================================================
