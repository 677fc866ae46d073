--------------------------- MODULE FriendRequests ---------------------------
(***************************************************************************)
(* The friend-request protocol of lib/Bloc/friendRequest.                  *)
(*                                                                         *)
(* A request between two users is stored TWICE in Firestore, once under    *)
(* each of them: the document users/<o>/friendRequests/<f> is req[<<o, f>>].   *)
(* A handler of FriendRequestBloc changes both copies with two awaited     *)
(* writes, one after the other, and only the `friends` collection is       *)
(* changed by a transaction.  The bloc runs its handlers concurrently, so  *)
(* the handlers of one phone, and those of the two phones, interleave at   *)
(* every await; a phone may be killed at every await too.                  *)
(*                                                                         *)
(* The Firestore client is external.  It keeps the writes of a phone that  *)
(* the server has not acknowledged in a queue on disk (queue[u]), sends    *)
(* them in order, replays them after a restart, and lays them over what    *)
(* the server returns when the phone reads.  A transaction is never        *)
(* queued.  The server refuses an update of a missing document, and may    *)
(* refuse any write (the rules of the database are not in the repository). *)
(***************************************************************************)
EXTENDS Integers, Sequences, FiniteSets

CONSTANTS
    Users,       \* the uids; the order of the numbers is Firestore's order of ids
    Slots,       \* handlers one phone can run at the same time
    NoDoc,       \* a document that does not exist
    NoSlot,      \* the owner of a queued write whose handler died with the app
    Kinds,       \* the events the screens add
    MaxOrphans   \* bound: writes of dead handlers kept in one queue

WriteKinds == {"send", "accept", "reject", "cancel", "remove"}
ReadKinds == {"check", "load"}
Statuses == {"pending", "accepted", "rejected", "cancelled", "removed"}
Docs == [status : Statuses, from : Users]

ASSUME UsersAssumption == Users \subseteq Nat /\ IsFiniteSet(Users)
ASSUME KindsAssumption == Kinds \subseteq WriteKinds \cup ReadKinds
ASSUME NoDocAssumption == NoDoc \notin Docs
ASSUME NoSlotAssumption == NoSlot \notin Slots
ASSUME BoundAssumption == MaxOrphans \in Nat

VARIABLES
    req,      \* req[<<o, f>>]: the document users/o/friendRequests/f
    friends,  \* <<o, f>> \in friends: the document users/o/friends/f exists
    handler,  \* handler[u][s]: an event handler of u's FriendRequestBloc
    queue,    \* queue[u]: writes of u's phone the server has not processed
    bloc,     \* bloc[u]: the last state u's FriendRequestBloc emitted
    suspect,  \* history: pairs whose two copies may disagree
    clean     \* history: handlers that met no other on their pair so far

stored == <<req, friends>>
history == <<suspect, clean>>
vars == <<req, friends, handler, queue, bloc, suspect, clean>>

(***************************************************************************)
(* Handlers, writes and emitted states.                                    *)
(***************************************************************************)
Handlers == Users \X Slots
Idle == [pc |-> "idle"]

Run(kinds, pcs) ==
    [kind : kinds, peer : Users, pc : pcs, ack : {"wait", "ok", "err"},
     res : Statuses \cup {"none"}, list : SUBSET Users]
WriterStates == Run(WriteKinds, {"first", "second", "txn"})
ReaderStates == Run({"check"}, {"get"}) \cup Run({"load"}, {"pending", "incoming"})
HandlerStates == WriterStates \cup ReaderStates

Mutations ==
    [doc : Users \X Users, op : {"set", "update"}, status : Statuses,
     from : Users, slot : Slots \cup {NoSlot}]

BlocStates ==
    [tag : {"Initial", "Sending", "Processing", "Accepted", "Error",
            "AlreadyFriends", "StatusLoaded", "RequestedUsersLoaded"},
     sent : BOOLEAN, list : SUBSET Users]

State(tag) == [tag |-> tag, sent |-> FALSE, list |-> {}]
StatusLoaded(isSent) == [State("StatusLoaded") EXCEPT !.sent = isSent]
UsersShown(S) == [State("RequestedUsersLoaded") EXCEPT !.list = S]

\* Mutant: the status of an accepted request is misspelt.
NewStatusMisspelt ==
    [send |-> "pending", accept |-> "accept", reject |-> "rejected",
     cancel |-> "cancelled", remove |-> "removed"]

NewStatus ==
    [send |-> "pending", accept |-> "accepted", reject |-> "rejected",
     cancel |-> "cancelled", remove |-> "removed"]

\* Accept and reject write the user's own copy first, the others the peer's.
FirstDoc(k, u, x) == IF k \in {"accept", "reject"} THEN <<u, x>> ELSE <<x, u>>
\* Mutant: the second write goes to the user's own copy whatever the event.
SecondDocOwn(k, u, x) == <<u, x>>

SecondDoc(k, u, x) == IF k \in {"accept", "reject"} THEN <<x, u>> ELSE <<u, x>>

WriteTo(doc, k, u, s) ==
    [doc |-> doc, op |-> IF k = "send" THEN "set" ELSE "update",
     status |-> NewStatus[k], from |-> u, slot |-> s]

Enqueue(u, m) == queue' = [queue EXCEPT ![u] = Append(@, m)]
Advance(u, s, pc, ack) ==
    handler' = [handler EXCEPT ![u][s] = [@ EXCEPT !.pc = pc, !.ack = ack]]
Emit(u, st) == bloc' = [bloc EXCEPT ![u] = st]

Start(k, x, pc) ==
    [kind |-> k, peer |-> x, pc |-> pc, ack |-> "wait", res |-> "none", list |-> {}]

(***************************************************************************)
(* What the database holds and what a phone sees of it.                    *)
(***************************************************************************)
Exists(d) == req[d] # NoDoc
Applied(m, old) ==
    IF m.op = "set" THEN [status |-> m.status, from |-> m.from]
                    ELSE [old EXCEPT !.status = m.status]

\* The queued writes of u's phone that take effect on its view of d.
Overlay(u, d) ==
    {i \in DOMAIN queue[u] :
        /\ queue[u][i].doc = d
        /\ \/ Exists(d)
           \/ \E j \in 1 .. i : queue[u][j].doc = d /\ queue[u][j].op = "set"}

Latest(S) == CHOOSE i \in S : \A j \in S : j <= i

SeenStatus(u, d) ==
    IF Overlay(u, d) # {} THEN queue[u][Latest(Overlay(u, d))].status
    ELSE IF Exists(d) THEN req[d].status ELSE "none"

\* A queued set makes u the sender; otherwise the stored sender stands.
SeenFrom(u, d) ==
    IF \E i \in Overlay(u, d) : queue[u][i].op = "set" THEN u ELSE req[d].from

PendingOf(u) == {x \in Users \ {u} : SeenStatus(u, <<u, x>>) = "pending"}
IncomingOf(u) == {x \in PendingOf(u) : SeenFrom(u, <<u, x>>) # u}

FirstN(S, n) == {x \in S : Cardinality({y \in S : y < x}) < n}

(***************************************************************************)
(* History: which handlers and leftovers touch one pair of users.          *)
(***************************************************************************)
PairOf(d) == {d[1], d[2]}
Writing(u, s) == handler[u][s].pc \in {"first", "second", "txn"}
ActiveOn(p) ==
    {h \in Handlers : /\ Writing(h[1], h[2])
                      /\ {h[1], handler[h[1]][h[2]].peer} = p}
Leftover(p) ==
    \E u \in Users : \E i \in DOMAIN queue[u] :
        queue[u][i].slot = NoSlot /\ PairOf(queue[u][i].doc) = p
Quiet(p) == ActiveOn(p) = {} /\ ~Leftover(p)

Interrupted(u) ==
    {{u, handler[u][s].peer} : s \in {t \in Slots : Writing(u, t)}}

-----------------------------------------------------------------------------
Init ==
    /\ req = [d \in Users \X Users |-> NoDoc]
    /\ friends = {}
    /\ handler = [u \in Users |-> [s \in Slots |-> Idle]]
    /\ queue = [u \in Users |-> << >>]
    /\ bloc = [u \in Users |-> State("Initial")]
    /\ suspect = {}
    /\ clean = {}

\* Send, Accept, Reject, Cancel, Remove up to their first await: the spinner
\* is emitted and the first write handed to the Firestore client.
AddWrite(u, s, k, x) ==
    /\ k \in Kinds \cap WriteKinds
    /\ x # u
    /\ handler[u][s] = Idle
    /\ handler' = [handler EXCEPT ![u][s] = Start(k, x, "first")]
    /\ Enqueue(u, WriteTo(FirstDoc(k, u, x), k, u, s))
    /\ Emit(u, CASE k \in {"send", "cancel"} -> State("Sending")
                 [] k \in {"accept", "reject"} -> State("Processing")
                 [] k = "remove" -> bloc[u])
    /\ IF Quiet({u, x})
       THEN /\ clean' = clean \cup {<<u, s>>}
            /\ UNCHANGED suspect
       ELSE /\ suspect' = suspect \cup {{u, x}}
            /\ clean' = clean \ ActiveOn({u, x})
    /\ UNCHANGED stored

AddCheck(u, s, x) ==
    /\ "check" \in Kinds
    /\ x # u
    /\ handler[u][s] = Idle
    /\ handler' = [handler EXCEPT ![u][s] = Start("check", x, "get")]
    /\ Emit(u, State("Initial"))
    /\ UNCHANGED <<stored, queue, history>>

AddLoad(u, s) ==
    /\ "load" \in Kinds
    /\ handler[u][s] = Idle
    /\ handler' = [handler EXCEPT ![u][s] = Start("load", u, "pending")]
    /\ UNCHANGED <<stored, queue, bloc, history>>

-----------------------------------------------------------------------------
Acknowledge(u, m, ack) ==
    handler' = IF m.slot = NoSlot THEN handler
               ELSE [handler EXCEPT ![u][m.slot].ack = ack]

\* The server applies the oldest queued write of u's phone.
CommitHead(u) ==
    /\ queue[u] # << >>
    /\ LET m == Head(queue[u])
       IN  /\ m.op = "set" \/ Exists(m.doc)
           /\ req' = [req EXCEPT ![m.doc] = Applied(m, @)]
           /\ Acknowledge(u, m, "ok")
    /\ queue' = [queue EXCEPT ![u] = Tail(@)]
    /\ UNCHANGED <<friends, bloc, history>>

\* The server refuses it: always when it updates a missing document.
RefuseHead(u) ==
    /\ queue[u] # << >>
    /\ Acknowledge(u, Head(queue[u]), "err")
    /\ queue' = [queue EXCEPT ![u] = Tail(@)]
    /\ UNCHANGED <<stored, bloc, history>>

\* Mutant: the first write is not awaited.
WriteSecondUnawaited(u, s) ==
    /\ handler[u][s].pc = "first"
    /\ handler[u][s].ack \in {"wait", "ok"}
    /\ LET k == handler[u][s].kind
           x == handler[u][s].peer
       IN  Enqueue(u, WriteTo(SecondDoc(k, u, x), k, u, s))
    /\ Advance(u, s, "second", "wait")
    /\ UNCHANGED <<stored, bloc, history>>

\* The first await returned: the second copy is written.
WriteSecond(u, s) ==
    /\ handler[u][s].pc = "first"
    /\ handler[u][s].ack = "ok"
    /\ LET k == handler[u][s].kind
           x == handler[u][s].peer
       IN  Enqueue(u, WriteTo(SecondDoc(k, u, x), k, u, s))
    /\ Advance(u, s, "second", "wait")
    /\ UNCHANGED <<stored, bloc, history>>

\* Mutant: the second write is not awaited.
StartTxnUnawaited(u, s) ==
    /\ handler[u][s].pc = "second"
    /\ handler[u][s].kind \in {"accept", "remove"}
    /\ Advance(u, s, "txn", "wait")
    /\ UNCHANGED <<stored, queue, bloc, history>>

\* Accept and remove go on to the transaction on the friends collection.
StartTxn(u, s) ==
    /\ handler[u][s].pc = "second"
    /\ handler[u][s].ack = "ok"
    /\ handler[u][s].kind \in {"accept", "remove"}
    /\ Advance(u, s, "txn", "wait")
    /\ UNCHANGED <<stored, queue, bloc, history>>

\* Mutant: accept adds the friend on the side of the user only.
CommitTxnOneSided(u, s) ==
    /\ handler[u][s].pc = "txn"
    /\ handler[u][s].ack = "wait"
    /\ LET x == handler[u][s].peer
       IN  friends' = IF handler[u][s].kind = "accept"
                      THEN friends \cup {<<u, x>>}
                      ELSE friends \ {<<u, x>>, <<x, u>>}
    /\ Advance(u, s, "txn", "ok")
    /\ UNCHANGED <<req, queue, bloc, history>>

CommitTxn(u, s) ==
    /\ handler[u][s].pc = "txn"
    /\ handler[u][s].ack = "wait"
    /\ LET x == handler[u][s].peer
           both == {<<u, x>>, <<x, u>>}
       IN  friends' = IF handler[u][s].kind = "accept"
                      THEN friends \cup both ELSE friends \ both
    /\ Advance(u, s, "txn", "ok")
    /\ UNCHANGED <<req, queue, bloc, history>>

FailTxn(u, s) ==
    /\ handler[u][s].pc = "txn"
    /\ handler[u][s].ack = "wait"
    /\ Advance(u, s, "txn", "err")
    /\ UNCHANGED <<stored, queue, bloc, history>>

\* Mutant: the catch emits nothing, and the spinner stays.
FinalStateNoCatch(k, ok) ==
    CASE ok /\ k = "accept" -> State("Accepted")
      [] ok /\ k # "accept" -> StatusLoaded(k = "send")
      [] ~ok -> State(IF k \in {"send", "cancel"} THEN "Sending" ELSE "Processing")

\* The state a handler leaves behind, after its last await or in its catch.
\* (Sent, Rejected and Cancelled are emitted just before and never last.)
FinalState(k, ok) ==
    CASE k = "send" -> StatusLoaded(ok)
      [] k = "accept" -> IF ok THEN State("Accepted") ELSE State("Error")
      [] k = "cancel" -> IF ok THEN StatusLoaded(FALSE) ELSE State("Error")
      [] k \in {"reject", "remove"} -> StatusLoaded(FALSE)

\* Mutant: a refused write never ends the handler.
FinishWriteOnSuccess(u, s) ==
    /\ Writing(u, s)
    /\ handler[u][s].ack = "ok"
    /\ handler[u][s].pc = "txn" \/ handler[u][s].kind \notin {"accept", "remove"}
    /\ handler[u][s].pc # "first"
    /\ Emit(u, FinalState(handler[u][s].kind, TRUE))
    /\ handler' = [handler EXCEPT ![u][s] = Idle]
    /\ UNCHANGED <<stored, queue, history>>

FinishWrite(u, s) ==
    /\ Writing(u, s)
    /\ LET h == handler[u][s]
           p == {u, h.peer}
           last == \/ h.pc = "txn"
                   \/ h.pc = "second" /\ h.kind \notin {"accept", "remove"}
       IN  /\ \/ h.ack = "err"
              \/ h.ack = "ok" /\ last
           /\ Emit(u, FinalState(h.kind, h.ack = "ok"))
           /\ suspect' =
                CASE h.pc = "second" /\ h.ack = "err" -> suspect \cup {p}
                  [] h.pc = "first" -> suspect
                  [] OTHER -> IF <<u, s>> \in clean THEN suspect \ {p}
                                                    ELSE suspect
    /\ handler' = [handler EXCEPT ![u][s] = Idle]
    /\ clean' = clean \ {<<u, s>>}
    /\ UNCHANGED <<stored, queue>>

-----------------------------------------------------------------------------
\* Check reads the copy kept by the other user; load first asks which users
\* have a pending document with u, and in a second query which of those
\* documents u did not send.
AnswerCheck(u, s) ==
    /\ handler[u][s].pc = "get"
    /\ handler[u][s].ack = "wait"
    /\ LET seen == SeenStatus(u, <<handler[u][s].peer, u>>)
       IN  handler' = [handler EXCEPT ![u][s] = [@ EXCEPT !.ack = "ok", !.res = seen]]
    /\ UNCHANGED <<stored, queue, bloc, history>>

\* The blocked users and the profiles are read before the requests, with an
\* await each; this module has neither, so one step stands for the three reads
\* and any of the users may turn out to be blocked and is left out.
AnswerPending(u, s) ==
    /\ handler[u][s].pc = "pending"
    /\ handler[u][s].ack = "wait"
    /\ \E blocked \in SUBSET Users :
        handler' = [handler EXCEPT ![u][s] = [@ EXCEPT
            !.pc = "incoming", !.list = PendingOf(u) \ blocked]]
    /\ UNCHANGED <<stored, queue, bloc, history>>

\* The screen pairs the two lists by index and shows a row per common index.
AnswerIncoming(u, s) ==
    /\ handler[u][s].pc = "incoming"
    /\ handler[u][s].ack = "wait"
    /\ LET rows == FirstN(handler[u][s].list, Cardinality(IncomingOf(u)))
       IN  handler' = [handler EXCEPT ![u][s] = [@ EXCEPT !.ack = "ok", !.list = rows]]
    /\ UNCHANGED <<stored, queue, bloc, history>>

FailRead(u, s) ==
    /\ handler[u][s].pc \in {"get", "pending", "incoming"}
    /\ handler[u][s].ack = "wait"
    /\ Advance(u, s, handler[u][s].pc, "err")
    /\ UNCHANGED <<stored, queue, bloc, history>>

CheckResult(status) ==
    CASE status = "pending" -> StatusLoaded(TRUE)
      [] status = "accepted" -> State("AlreadyFriends")
      [] OTHER -> StatusLoaded(FALSE)

FinishRead(u, s) ==
    /\ handler[u][s].pc \in {"get", "pending", "incoming"}
    /\ LET h == handler[u][s]
       IN  \/ h.ack = "ok" /\ h.kind = "check" /\ Emit(u, CheckResult(h.res))
           \/ h.ack = "ok" /\ h.kind = "load" /\ Emit(u, UsersShown(h.list))
           \/ h.ack = "err" /\ h.kind = "check" /\ Emit(u, State("Error"))
           \/ h.ack = "err" /\ h.kind = "load" /\ UNCHANGED bloc
    /\ handler' = [handler EXCEPT ![u][s] = Idle]
    /\ UNCHANGED <<stored, queue, history>>

-----------------------------------------------------------------------------
\* The app is killed and started again: handlers die, queued writes survive.
Crash(u) ==
    /\ Len(queue[u]) <= MaxOrphans
    /\ \E s \in Slots : handler[u][s] # Idle
    /\ handler' = [handler EXCEPT ![u] = [s \in Slots |-> Idle]]
    /\ queue' = [queue EXCEPT ![u] =
            [i \in DOMAIN @ |-> [@[i] EXCEPT !.slot = NoSlot]]]
    /\ Emit(u, State("Initial"))
    /\ suspect' = suspect \cup Interrupted(u)
    /\ clean' = clean \ ({u} \X Slots)
    /\ UNCHANGED stored

AddEvent(u, s) ==
    \/ \E k \in WriteKinds, x \in Users : AddWrite(u, s, k, x)
    \/ \E x \in Users : AddCheck(u, s, x)
    \/ AddLoad(u, s)

Server(u) == CommitHead(u) \/ RefuseHead(u)

Progress(u, s) ==
    \/ WriteSecond(u, s) \/ StartTxn(u, s) \/ CommitTxn(u, s) \/ FailTxn(u, s)
    \/ FinishWrite(u, s)
    \/ AnswerCheck(u, s) \/ AnswerPending(u, s) \/ AnswerIncoming(u, s)
    \/ FailRead(u, s) \/ FinishRead(u, s)

Next ==
    \E u \in Users :
        \/ Server(u)
        \/ Crash(u)
        \/ \E s \in Slots : AddEvent(u, s) \/ Progress(u, s)

Spec == Init /\ [][Next]_vars

\* The network comes back in the end and the Dart event loop is fair.
Fairness ==
    \A u \in Users : /\ WF_vars(Server(u))
                     /\ \A s \in Slots : WF_vars(Progress(u, s))

FairSpec == Spec /\ Fairness

-----------------------------------------------------------------------------
(***************************************************************************)
(* Properties.                                                             *)
(***************************************************************************)
\* Every variable holds what the program can put there; a handler that waits
\* for a write has exactly the kind and step the source allows.
TypeOK ==
    /\ req \in [Users \X Users -> Docs \cup {NoDoc}]
    /\ friends \subseteq Users \X Users
    /\ handler \in [Users -> [Slots -> HandlerStates \cup {Idle}]]
    /\ queue \in [Users -> Seq(Mutations)]
    /\ bloc \in [Users -> BlocStates]
    /\ suspect \subseteq SUBSET Users
    /\ clean \subseteq Handlers

\* The friends collection is the same seen from both sides, whatever crashes,
\* refusals and overlapping handlers do to the request documents: it is only
\* changed by the transactions of accept and remove.
FriendsSymmetric == \A a, b \in Users : <<a, b>> \in friends => <<b, a>> \in friends

\* The document handler[u][s] is writing, or wrote last.
CurrentDoc(u, s) ==
    LET h == handler[u][s]
    IN  IF h.pc = "first" THEN FirstDoc(h.kind, u, h.peer)
                          ELSE SecondDoc(h.kind, u, h.peer)

Expected(u, m) ==
    LET h == handler[u][m.slot]
    IN  /\ h.pc \in {"first", "second"}
        /\ h.ack = "wait"
        /\ m.doc = CurrentDoc(u, m.slot)
        /\ m.status = NewStatus[h.kind]

\* A write in the queue of a living handler is the one that handler waits for,
\* and its only one: an answer of the server never reaches another handler,
\* not even after a restart gave the slot to a new one.
WritesOwned ==
    \A u \in Users : \A i, j \in DOMAIN queue[u] :
        queue[u][i].slot # NoSlot =>
            /\ Expected(u, queue[u][i])
            /\ queue[u][j].slot = queue[u][i].slot => j = i

FirstWritten(h) == h.pc \in {"second", "txn"} \/ (h.pc = "first" /\ h.ack = "ok")
SecondWritten(h) == h.pc = "txn" \/ (h.pc = "second" /\ h.ack = "ok")

HandlerDocs(u, s) ==
    LET h == handler[u][s]
    IN  /\ FirstWritten(h) => Exists(FirstDoc(h.kind, u, h.peer))
        /\ SecondWritten(h) => Exists(SecondDoc(h.kind, u, h.peer))

\* A handler goes past an await only when the copy it wrote is stored: what
\* its next step, and in the end the transaction, relies on is there.
DocsWritten == \A u \in Users, s \in Slots : HandlerDocs(u, s)

Both(o, f) == Exists(<<o, f>>) /\ Exists(<<f, o>>)

\* Two users are friends only when both copies of a request between them
\* exist: accept creates no document, and a failed write stops it before the
\* transaction.
FriendsHaveRequests ==
    \A a, b \in Users : <<a, b>> \in friends => Both(a, b)

SameStatus(d, e) ==
    IF Exists(d) /\ Exists(e) THEN req[d].status = req[e].status
                              ELSE ~Exists(d) /\ ~Exists(e)

\* The two copies of a request agree whenever nobody is changing them, unless
\* an overlap of two handlers, a crash between the two writes or a refused
\* second write came after the last undisturbed handler: one undisturbed run
\* of any of the five write handlers repairs the pair.
CopiesAgree ==
    \A a, b \in Users :
        a # b /\ {a, b} \notin suspect /\ Quiet({a, b})
            => SameStatus(<<a, b>>, <<b, a>>)

\* The spinner of the profile page and of the request rows is on only while a
\* handler that will replace it is running: no failure path forgets to.
SpinnerHasHandler ==
    \A u \in Users :
        bloc[u].tag \in {"Sending", "Processing"} =>
            \E s \in Slots : Writing(u, s)

\* Every event handler comes to its end.
HandlersFinish ==
    \A u \in Users, s \in Slots : handler[u][s] # Idle ~> handler[u][s] = Idle

\* A spinner that is shown is replaced.
SpinnerStops ==
    \A u \in Users :
        bloc[u].tag \in {"Sending", "Processing"}
            ~> bloc[u].tag \notin {"Sending", "Processing"}

\* The protocol implements Friendship: a pair has asked when both copies of
\* its request exist, and is befriended when both entries exist.
asked == {p \in SUBSET Users : \E o, f \in Users : p = {o, f} /\ Both(o, f)}
graph == {p \in SUBSET Users :
            \E o, f \in Users : p = {o, f} /\ {<<o, f>>, <<f, o>>} \subseteq friends}
Abstract == INSTANCE Friendship WITH Pairs <- SUBSET Users,
                                     asked <- asked, graph <- graph
ImplementsFriendship == Abstract!Spec

\* friend_request_bloc.dart:65 says of accept "Update the status to accepted
\* for both users' friendRequests subcollections": once no handler runs and no
\* write is queued, a request accepted in one copy is accepted in the other.
AcceptedForBoth ==
    (\A u \in Users : queue[u] = << >> /\ \A s \in Slots : handler[u][s] = Idle)
        => \A a, b \in Users :
               Exists(<<a, b>>) /\ req[<<a, b>>].status = "accepted"
                   => Exists(<<b, a>>) /\ req[<<b, a>>].status = "accepted"
=============================================================================
