------------------------------ MODULE Blocking ------------------------------
(***************************************************************************)
(* Blocking and unblocking: ChatService.blockUser and unBlockUser, the     *)
(* handlers of the app-wide UserBloc that call them, the page of blocked   *)
(* users and the list of chats.                                            *)
(*                                                                         *)
(* A block is two empty documents, users/a/BlockedUsers/b and              *)
(* users/b/BlockedUsers/a, written (and deleted) one after the other with  *)
(* an await between.  The writing handlers of a phone run concurrently in  *)
(* its app-wide UserBloc.  The list of chats has a bloc of its own, made   *)
(* with the main page, and so has the page of blocked users, made when it  *)
(* is opened: each reads its list once.  What the app-wide bloc loads is   *)
(* shown by neither; its loads are here for what they leave in the cache.  *)
(*                                                                         *)
(* The Firestore client is external: it queues the writes of a phone,      *)
(* lays them over what the phone reads, and answers the FIRST snapshot of  *)
(* a query from its cache (`cache`) when it has one or is offline: the     *)
(* lists are read with snapshots().first.                                  *)
(***************************************************************************)
EXTENDS Sequences, FiniteSets, Naturals

CONSTANTS
    Users,
    Slots,       \* writing handlers one phone can run at the same time
    NoSlot,      \* the owner of a queued write whose handler died with the app
    Plans,       \* for each scenario: what each user does, and what goes wrong
    MaxOrphans   \* bound: writes of dead handlers kept in one queue

WriteKinds == {"block", "unblock"}

Acts == {"block", "unblock", "refresh", "tab", "delete"}
Faults == {"read", "refuse", "crash"}

ASSUME PlansAssumption == Plans \subseteq [Users -> SUBSET (Acts \cup Faults)]
ASSUME NoSlotAssumption == NoSlot \notin Slots
ASSUME BoundAssumption == MaxOrphans \in Nat

VARIABLES
    plan,     \* plan[u]: what u does, and what goes wrong on u's phone
    blocked,  \* <<a, b>> \in blocked: users/a/BlockedUsers/b exists
    gone,     \* users whose account, and document, were deleted
    cache,    \* cache[u]: what u's phone has stored of users/u/BlockedUsers
    queue,    \* queue[u]: writes of u's phone the server has not processed
    handler,  \* handler[u][s]: a handler of u's app-wide UserBloc that writes
    loading,  \* phones whose app-wide bloc is loading a list of users
    page,     \* page[u]: the page of blocked users with its list, or "closed"
    chats,    \* chats[u]: the list of chats on u's main page
    suspect,  \* history: pairs whose two sides may disagree
    clean,    \* history: handlers that met no other on their pair so far
    shield,   \* history: <<a, b>>, a's block of b is complete, none undid it
    free      \* history: <<a, b>>, a's unblock of b is complete, none redid it

remote == <<blocked, gone, cache>>
history == <<suspect, clean, shield, free>>
vars == <<plan, blocked, gone, cache, queue, handler, loading, page, chats,
          suspect, clean, shield, free>>

Handlers == Users \X Slots
Idle == [pc |-> "idle"]
Closed == [pc |-> "closed", list |-> {}]
Opening == [pc |-> "ids", list |-> {}]

Run(k, x) == [kind |-> k, peer |-> x, pc |-> "start", ack |-> "wait"]

HandlerStates ==
    [kind : WriteKinds, peer : Users, pc : {"start", "first", "second"},
     ack : {"wait", "ok", "err"}]
Mutations == [doc : Users \X Users, op : {"set", "delete"}, slot : Slots \cup {NoSlot}]
Lists == [pc : {"ids", "docs", "shown", "failed"}, list : SUBSET Users]

FirstDoc(u, x) == <<u, x>>
\* Mutant: the second write goes to the user's own side again.
SecondDocOwn(u, x) == <<u, x>>

SecondDoc(u, x) == <<x, u>>

\* Mutant: a block is written as an update of a document.
WriteToUpdate(doc, k, s) ==
    [doc |-> doc, op |-> IF k = "block" THEN "update" ELSE "delete", slot |-> s]

WriteTo(doc, k, s) ==
    [doc |-> doc, op |-> IF k = "block" THEN "set" ELSE "delete", slot |-> s]

Enqueue(u, m) == queue' = [queue EXCEPT ![u] = Append(@, m)]

(***************************************************************************)
(* What a phone sees: its queued writes over the cache or the server.      *)
(***************************************************************************)
Stored(u) == {x \in Users : <<u, x>> \in blocked}
WritesOn(u, d) == {i \in DOMAIN queue[u] : queue[u][i].doc = d}
SetLast(u, d) ==
    \E i \in WritesOn(u, d) :
        /\ queue[u][i].op = "set"
        /\ \A j \in WritesOn(u, d) : queue[u][j].op = "delete" => j < i
Seen(u, S) ==
    {x \in Users : IF WritesOn(u, <<u, x>>) = {} THEN x \in S
                   ELSE SetLast(u, <<u, x>>)}

(***************************************************************************)
(* History: which handlers and leftovers touch one pair of users.          *)
(***************************************************************************)
Writing(u, s) == handler[u][s] # Idle
ActiveOn(p) ==
    {h \in Handlers : /\ Writing(h[1], h[2])
                      /\ {h[1], handler[h[1]][h[2]].peer} = p}
Leftover(p) ==
    \E u \in Users : \E i \in DOMAIN queue[u] :
        /\ queue[u][i].slot = NoSlot
        /\ {queue[u][i].doc[1], queue[u][i].doc[2]} = p
Quiet(p) == ActiveOn(p) = {} /\ ~Leftover(p)

Meet(u, s, x) ==
    IF Quiet({u, x})
    THEN /\ clean' = clean \cup {<<u, s>>}
         /\ UNCHANGED suspect
    ELSE /\ suspect' = suspect \cup {{u, x}}
         /\ clean' = clean \ ActiveOn({u, x})

-----------------------------------------------------------------------------
Init ==
    /\ plan \in Plans
    /\ blocked = {}
    /\ gone = {}
    /\ cache = [u \in Users |-> {}]
    /\ queue = [u \in Users |-> << >>]
    /\ handler = [u \in Users |-> [s \in Slots |-> Idle]]
    /\ loading = {}
    /\ page = [u \in Users |-> Closed]
    /\ chats = [u \in Users |-> Opening]
    /\ suspect = {}
    /\ clean = {}
    /\ shield = {}
    /\ free = {}

\* The menu of a chat on the main page: BlockUserEvent.
AddBlock(u, s, x) ==
    /\ "block" \in plan[u]
    /\ page[u] = Closed
    /\ chats[u].pc = "shown" /\ x \in chats[u].list
    /\ handler[u][s] = Idle
    /\ handler' = [handler EXCEPT ![u][s] = Run("block", x)]
    /\ Meet(u, s, x)
    /\ free' = free \ {<<u, x>>, <<x, u>>}
    /\ UNCHANGED <<remote, queue, loading, page, chats, shield>>

\* The dialog of the page of blocked users adds UnBlockUserEvent and
\* LoadBlockedUsers to the app-wide bloc.  The page goes on showing its list:
\* the same user can be unblocked again while the first unblock runs.
AddUnblock(u, s, x) ==
    /\ "unblock" \in plan[u]
    /\ page[u].pc = "shown" /\ x \in page[u].list
    /\ handler[u][s] = Idle
    /\ handler' = [handler EXCEPT ![u][s] = Run("unblock", x)]
    /\ loading' = loading \cup {u}
    /\ Meet(u, s, x)
    /\ shield' = shield \ {<<u, x>>, <<x, u>>}
    /\ UNCHANGED <<remote, queue, page, chats, free>>

\* The page of blocked users is opened with a UserBloc of its own, to which
\* its initState adds LoadBlockedUsers.
OpenBlocked(u) ==
    /\ "unblock" \in plan[u]
    /\ page[u] = Closed
    /\ page' = [page EXCEPT ![u] = Opening]
    /\ UNCHANGED <<remote, queue, handler, loading, chats, history>>

\* Back to the main page, as it was.
Back(u) ==
    /\ page[u] # Closed
    /\ page' = [page EXCEPT ![u] = Closed]
    /\ UNCHANGED <<remote, queue, handler, loading, chats, history>>

\* The tab of people adds LoadAllUsers to the app-wide bloc.
OpenTab(u) ==
    /\ "tab" \in plan[u]
    /\ page[u] = Closed
    /\ loading' = loading \cup {u}
    /\ UNCHANGED <<remote, queue, handler, page, chats, history>>

\* Pull to refresh on the list of chats.
Refresh(u) ==
    /\ "refresh" \in plan[u]
    /\ page[u] = Closed /\ chats[u].pc = "shown"
    /\ chats' = [chats EXCEPT ![u] = Opening]
    /\ UNCHANGED <<remote, queue, handler, loading, page, history>>

\* An account is deleted: its document goes, the blocks around it stay.
DeleteAccount(u) ==
    /\ "delete" \in plan[u]
    /\ u \notin gone /\ page[u] = Closed /\ queue[u] = << >>
    /\ \A s \in Slots : handler[u][s] = Idle
    /\ gone' = gone \cup {u}
    /\ UNCHANGED <<blocked, cache, queue, handler, loading, page, chats, history>>

-----------------------------------------------------------------------------
\* blockUser and unBlockUser: the first write, the second after its answer.
WriteFirst(u, s) ==
    /\ handler[u][s].pc = "start"
    /\ LET h == handler[u][s]
       IN  Enqueue(u, WriteTo(FirstDoc(u, h.peer), h.kind, s))
    /\ handler' = [handler EXCEPT ![u][s].pc = "first"]
    /\ UNCHANGED <<remote, loading, page, chats, history>>

WriteSecond(u, s) ==
    /\ handler[u][s].pc = "first"
    /\ handler[u][s].ack = "ok"
    /\ LET h == handler[u][s]
       IN  Enqueue(u, WriteTo(SecondDoc(u, h.peer), h.kind, s))
    /\ handler' = [handler EXCEPT ![u][s] = [@ EXCEPT !.pc = "second", !.ack = "wait"]]
    /\ UNCHANGED <<remote, loading, page, chats, history>>

Acknowledge(u, m, ack) ==
    handler' = IF m.slot = NoSlot THEN handler
               ELSE [handler EXCEPT ![u][m.slot].ack = ack]

\* The server applies the oldest queued write; the phone's cache follows when
\* the document is one of its own.
CommitHead(u) ==
    /\ queue[u] # << >>
    /\ LET m == Head(queue[u])
       IN  /\ blocked' = IF m.op = "set" THEN blocked \cup {m.doc}
                                         ELSE blocked \ {m.doc}
           /\ cache' = IF m.doc[1] # u THEN cache
                       ELSE IF m.op = "set"
                       THEN [cache EXCEPT ![u] = @ \cup {m.doc[2]}]
                       ELSE [cache EXCEPT ![u] = @ \ {m.doc[2]}]
           /\ Acknowledge(u, m, "ok")
    /\ queue' = [queue EXCEPT ![u] = Tail(@)]
    /\ UNCHANGED <<gone, loading, page, chats, history>>

RefuseHead(u) ==
    /\ "refuse" \in plan[u]
    /\ queue[u] # << >>
    /\ Acknowledge(u, Head(queue[u]), "err")
    /\ queue' = [queue EXCEPT ![u] = Tail(@)]
    /\ UNCHANGED <<remote, loading, page, chats, history>>

Succeeded(u, s) == handler[u][s].pc = "second" /\ handler[u][s].ack = "ok"
Failed(u, s) == handler[u][s].ack = "err"

Judge(u, s) ==
    LET p == {u, handler[u][s].peer}
    IN  /\ suspect' = IF Succeeded(u, s)
                      THEN IF <<u, s>> \in clean THEN suspect \ {p} ELSE suspect
                      ELSE IF handler[u][s].pc = "second" THEN suspect \cup {p}
                      ELSE suspect
        /\ clean' = clean \ {<<u, s>>}

\* What a handler that succeeded undisturbed reports as done.
Reported(u, s) ==
    IF Succeeded(u, s) /\ <<u, s>> \in clean THEN {<<u, handler[u][s].peer>>} ELSE {}

\* Get.offAll(() => Base()): one new main page, with a new list of chats.
OpenBase(u) ==
    /\ page' = [page EXCEPT ![u] = Closed]
    /\ chats' = [chats EXCEPT ![u] = Opening]

\* The end of a handler of kind k, which goes on to load a list of users.
\* blockUser and unBlockUser return "Error" instead of throwing, so a failure
\* changes no page.
Finish(u, s, k) ==
    /\ handler[u][s] # Idle /\ handler[u][s].kind = k
    /\ \/ Succeeded(u, s) /\ OpenBase(u)
       \/ Failed(u, s) /\ UNCHANGED <<page, chats>>
    /\ Judge(u, s)
    /\ handler' = [handler EXCEPT ![u][s] = Idle]
    /\ loading' = loading \cup {u}
    /\ UNCHANGED <<remote, queue>>

\* Mutant: the pages stay as they are.
FinishInPlace(u, s, k) ==
    /\ handler[u][s] # Idle /\ handler[u][s].kind = k
    /\ Succeeded(u, s) \/ Failed(u, s)
    /\ UNCHANGED <<page, chats>>
    /\ Judge(u, s)
    /\ handler' = [handler EXCEPT ![u][s] = Idle]
    /\ loading' = loading \cup {u}
    /\ UNCHANGED <<remote, queue>>

\* Mutant: a finished block leaves the pages as they are.
FinishBlockInPlace(u, s) ==
    /\ FinishInPlace(u, s, "block")
    /\ shield' = shield \cup Reported(u, s)
    /\ UNCHANGED free

FinishBlock(u, s) ==
    /\ Finish(u, s, "block")
    /\ shield' = shield \cup Reported(u, s)
    /\ UNCHANGED free

\* Mutant: a finished unblock leaves the pages as they are.
FinishUnblockInPlace(u, s) ==
    /\ FinishInPlace(u, s, "unblock")
    /\ free' = free \cup Reported(u, s)
    /\ UNCHANGED shield

FinishUnblock(u, s) ==
    /\ Finish(u, s, "unblock")
    /\ free' = free \cup Reported(u, s)
    /\ UNCHANGED shield

-----------------------------------------------------------------------------
\* The first snapshot of the own BlockedUsers, from the server or the cache.
FirstSnapshot(u, S) ==
    \/ S = Seen(u, Stored(u)) /\ cache' = [cache EXCEPT ![u] = Stored(u)]
    \/ S = Seen(u, cache[u]) /\ UNCHANGED cache

\* The app-wide bloc loads a list of users, which starts with the blocked
\* ones, or fails; another load of it may still be on its way.
Load(u) ==
    /\ u \in loading
    /\ \E S \in SUBSET Users : FirstSnapshot(u, S)
    /\ loading' \in {loading, loading \ {u}}
    /\ UNCHANGED <<blocked, gone, queue, handler, page, chats, history>>

\* The page of blocked users: the ids, then the documents of the users.  It
\* fails when one of them was deleted, whose data is null.
ReadBlockedIds(u) ==
    /\ page[u].pc = "ids"
    /\ \E S \in SUBSET Users :
        /\ FirstSnapshot(u, S)
        /\ page' = [page EXCEPT ![u] = [pc |-> "docs", list |-> S]]
    /\ UNCHANGED <<blocked, gone, queue, handler, loading, chats, history>>

ShowBlocked(u) ==
    /\ page[u].pc = "docs" /\ page[u].list \cap gone = {}
    /\ page' = [page EXCEPT ![u].pc = "shown"]
    /\ UNCHANGED <<remote, queue, handler, loading, chats, history>>

FailBlocked(u) ==
    /\ \/ page[u].pc = "docs" /\ page[u].list \cap gone # {}
       \/ page[u].pc \in {"ids", "docs"} /\ "read" \in plan[u]
    /\ page' = [page EXCEPT ![u] = [pc |-> "failed", list |-> {}]]
    /\ UNCHANGED <<remote, queue, handler, loading, chats, history>>

\* The list of chats: the friends that are not blocked.
ReadChatIds(u) ==
    /\ chats[u].pc = "ids"
    /\ \E S \in SUBSET Users :
        /\ FirstSnapshot(u, S)
        /\ chats' = [chats EXCEPT ![u] = [pc |-> "docs", list |-> S]]
    /\ UNCHANGED <<blocked, gone, queue, handler, loading, page, history>>

ShowChats(u) ==
    /\ chats[u].pc = "docs"
    /\ chats' = [chats EXCEPT ![u] =
            [pc |-> "shown", list |-> Users \ (gone \cup @.list \cup {u})]]
    /\ UNCHANGED <<remote, queue, handler, loading, page, history>>

FailChats(u) ==
    /\ "read" \in plan[u]
    /\ chats[u].pc \in {"ids", "docs"}
    /\ chats' = [chats EXCEPT ![u] = [pc |-> "failed", list |-> {}]]
    /\ UNCHANGED <<remote, queue, handler, loading, page, history>>

-----------------------------------------------------------------------------
\* The app is killed and started again: handlers die, queued writes survive.
Crash(u) ==
    /\ "crash" \in plan[u]
    /\ Len(queue[u]) <= MaxOrphans
    /\ chats[u].pc = "failed" \/ u \in loading \/ \E s \in Slots : handler[u][s] # Idle
    /\ handler' = [handler EXCEPT ![u] = [s \in Slots |-> Idle]]
    /\ queue' = [queue EXCEPT ![u] =
            [i \in DOMAIN @ |-> [@[i] EXCEPT !.slot = NoSlot]]]
    /\ loading' = loading \ {u}
    /\ OpenBase(u)
    /\ suspect' = suspect \cup
            {{u, handler[u][s].peer} : s \in {t \in Slots : Writing(u, t)}}
    /\ clean' = clean \ ({u} \X Slots)
    /\ UNCHANGED <<remote, shield, free>>

AddEvent(u) ==
    \/ \E s \in Slots, x \in Users : AddBlock(u, s, x) \/ AddUnblock(u, s, x)
    \/ OpenBlocked(u) \/ Back(u) \/ OpenTab(u) \/ Refresh(u)
    \/ DeleteAccount(u)

Server(u) == CommitHead(u) \/ RefuseHead(u)
Progress(u, s) ==
    \/ WriteFirst(u, s) \/ WriteSecond(u, s)
    \/ FinishBlock(u, s) \/ FinishUnblock(u, s)
Reads(u) ==
    \/ Load(u)
    \/ ReadBlockedIds(u) \/ ShowBlocked(u) \/ FailBlocked(u)
    \/ ReadChatIds(u) \/ ShowChats(u) \/ FailChats(u)

Next ==
    /\ UNCHANGED plan
    /\ \E u \in Users :
        \/ Server(u)
        \/ Crash(u)
        \/ Reads(u)
        \/ u \notin gone /\ AddEvent(u)
        \/ \E s \in Slots : Progress(u, s)

Spec == Init /\ [][Next]_vars

-----------------------------------------------------------------------------
\* Every variable holds what the program can put there.
TypeOK ==
    /\ plan \in Plans
    /\ blocked \subseteq Users \X Users
    /\ gone \subseteq Users
    /\ cache \in [Users -> SUBSET Users]
    /\ queue \in [Users -> Seq(Mutations)]
    /\ handler \in [Users -> [Slots -> HandlerStates \cup {Idle}]]
    /\ loading \subseteq Users
    /\ page \in [Users -> Lists \cup {Closed}]
    /\ chats \in [Users -> Lists]
    /\ suspect \subseteq SUBSET Users
    /\ clean \subseteq Handlers
    /\ shield \subseteq Users \X Users
    /\ free \subseteq Users \X Users

\* The two sides of a block agree whenever nobody is changing them, unless an
\* overlap of two handlers, a crash between the two writes or a refused second
\* write came after the last undisturbed handler: a block is never one-way
\* for any other reason, and one undisturbed block or unblock repairs it.
SidesAgree ==
    \A a, b \in Users :
        a # b /\ {a, b} \notin suspect /\ Quiet({a, b})
            => (<<a, b>> \in blocked <=> <<b, a>> \in blocked)

\* A block that was reported as done stands on both sides until one of the two
\* unblocks, and meanwhile the person who blocked does not find the other in
\* the list of chats: not from the cache, not from a list that was being read
\* when the block was done, not after a restart.
BlockStands ==
    \A a, b \in Users :
        <<a, b>> \in shield =>
            /\ {<<a, b>>, <<b, a>>} \subseteq blocked
            /\ chats[a].pc = "docs" => b \in chats[a].list
            /\ chats[a].pc = "shown" => b \notin chats[a].list

\* An unblock that was reported as done leaves no block on either side until
\* one of the two blocks again, and meanwhile the person who unblocked finds the
\* other among the chats, unless that account was deleted, and not on the page
\* of blocked users: not from the cache, not from a list that was being read or
\* shown when the unblock was done.
UnblockStands ==
    \A a, b \in Users :
        a # b /\ <<a, b>> \in free =>
            /\ {<<a, b>>, <<b, a>>} \cap blocked = {}
            /\ page[a].pc \in {"docs", "shown"} => b \notin page[a].list
            /\ chats[a].pc = "docs" => b \notin chats[a].list
            /\ chats[a].pc = "shown" => b \in chats[a].list \cup gone

\* chat_services.dart:247 says of the list of chats "Get all the users which
\* are friends and arenot blocked": the ids it excludes contain every user
\* with whom a block is stored when they are read.
ListExcludesBlocked ==
    [][\A u \in Users :
          chats[u].pc = "ids" /\ chats'[u].pc = "docs"
              => Seen(u, Stored(u)) \subseteq chats'[u].list]_vars
=============================================================================
