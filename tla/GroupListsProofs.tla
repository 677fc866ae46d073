-------------------------- MODULE GroupListsProofs ---------------------------
(***************************************************************************)
(* What the list of groups shows, for any users, phones and groups.        *)
(***************************************************************************)
EXTENDS GroupChatProofs, WellFoundedInduction

(***************************************************************************)
(* What lasts of a group.                                                  *)
(***************************************************************************)
Sets(m, r) == m.op = "set" /\ m.room = r

\* Nobody will make r any more.
Placed(r) ==
    /\ r \in used
    /\ \A q \in Phones : \A v \in Users : \A i \in DOMAIN queue[q][v] : ~Sets(queue[q][v][i], r)
Void(r) == Placed(r) /\ rooms[r] = NoRoom
\* d was the document of r.
Known(d, r) == Placed(r) /\ (rooms[r] # NoRoom => d.members \subseteq rooms[r].members)
\* u is a member of r, or will be when it is made.
Belongs(u, r) ==
    /\ r \in used
    /\ rooms[r] # NoRoom => u \in rooms[r].members
    /\ \A q \in Phones : \A v \in Users : \A i \in DOMAIN queue[q][v] :
           Sets(queue[q][v][i], r) => u \in queue[q][v][i].doc.members
\* If r is still to be made, then by u on p.
OnlyBy(p, u, r) ==
    /\ r \in used
    /\ \A q \in Phones : \A v \in Users : \A i \in DOMAIN queue[q][v] :
           Sets(queue[q][v][i], r) => q = p /\ v = u
Mate(p, u, r) == Belongs(u, r) /\ OnlyBy(p, u, r)
\* r is gone, for p also offline.
Wiped(p, r) == Void(r) /\ cache[p][r] = NoRoom

\* A set that is queued after a step was queued before, or is that of a new
\* group.
LEMMA SetsFrom ==
    ASSUME Sound, [Next]_vars, NEW q \in Phones, NEW v \in Users,
           NEW i \in DOMAIN queue'[q][v], queue'[q][v][i].op = "set"
    PROVE  \/ \E k \in DOMAIN queue[q][v] :
                  /\ queue[q][v][k].op = "set"
                  /\ queue[q][v][k].room = queue'[q][v][i].room
                  /\ queue[q][v][k].doc = queue'[q][v][i].doc
           \/ queue'[q][v][i].room \notin used
<1> DEFINE m == queue'[q][v][i]
           Old == \E k \in DOMAIN queue[q][v] :
                      /\ queue[q][v][k].op = "set" /\ queue[q][v][k].room = m.room
                      /\ queue[q][v][k].doc = m.doc
<1> TypeOK /\ PagesGrounded
  BY DEF Sound
<1>1. ASSUME UNCHANGED queue PROVE Old
  BY <1>1
<1>2. ASSUME NEW p \in Phones, NEW s \in Slots, NEW r \in Rooms, Save(p, s, r)
      PROVE  Old \/ m.room \notin used
  <2> DEFINE e == [members |-> Ticked(p) \cup {me[p]}, admin |-> owner[p]]
             w == Write("set", r, e, s)
  <2>1. owner[p] \in Users /\ me[p] \in Users /\ Enqueue(p, w) /\ r \notin used
    BY <1>2 DEF Save, PagesGrounded, TypeOK
  <2>2. e \in Docs
    BY <2>1 DEF Ticked, Docs
  <2> HIDE DEF e
  <2>3. w \in Mutations /\ w.room = r
    BY <2>2 DEF Write, Mutations
  <2> HIDE DEF w
  <2>4. (i \in DOMAIN queue[q][v] /\ m = queue[q][v][i]) \/ m = w
    BY <2>1, <2>3, PlacesAfterAppend
  <2>5. QED
    BY <2>1, <2>3, <2>4
<1>3. ASSUME NEW p \in Phones, NEW s \in Slots, Delete(p, s) \/ Rename(p, s) PROVE Old
  <2>1. PICK o \in {"delete", "update"} : Enqueue(p, Write(o, page[p].room, NoRoom, s))
    BY <1>3 DEF Delete, Rename
  <2> DEFINE w == Write(o, page[p].room, NoRoom, s)
  <2>2. me[p] \in Users /\ page[p].room \in Rooms
    BY <1>3 DEF Delete, Rename, PagesGrounded
  <2>3. w \in Mutations /\ w.op # "set" /\ Enqueue(p, w)
    BY <2>1, <2>2 DEF Write, Mutations
  <2> HIDE DEF w
  <2>4. i \in DOMAIN queue[q][v] /\ m = queue[q][v][i]
    BY <2>2, <2>3, PlacesAfterAppend
  <2>5. QED
    BY <2>4
<1>4. ASSUME NEW p \in Phones, UserActs(p) PROVE Old \/ m.room \notin used
  BY <1>1, <1>2, <1>3, <1>4
     DEF UserActs, LogIn, LogOut, OpenList, Refresh, OpenRoom, Back, OpenAdd, Tick, AddMembers
<1>5. ASSUME NEW p \in Phones, CommitHead(p) \/ RefuseHead(p) PROVE Old
  <2>1. me[p] \in Users /\ queue[p][me[p]] # << >> /\ Taken(p)
    BY <1>5 DEF CommitHead, RefuseHead, Taken, TypeOK
  <2>2. PICK k \in DOMAIN queue[q][v] : m = queue[q][v][k]
    BY <2>1, PlacesAfterTake
  <2>3. QED
    BY <2>2
<1>6. ASSUME NEW p \in Phones, Crash(p) PROVE Old
  <2>1. i \in DOMAIN queue[q][v]
    BY <1>6, PlacesAfterCrash
  <2>2. m = IF q = p THEN [queue[q][v][i] EXCEPT !.slot = NoSlot] ELSE queue[q][v][i]
    BY <1>6, <2>1, PlacesAfterCrash
  <2>3. queue[q][v][i] \in Mutations
    BY <2>1, QueuedWrite
  <2>4. /\ queue[q][v][i].op = m.op /\ queue[q][v][i].room = m.room
        /\ queue[q][v][i].doc = m.doc
    BY <2>2, <2>3 DEF Mutations
  <2>5. QED
    BY <2>1, <2>4
<1>7. ASSUME NEW p \in Phones, NEW s \in Slots, Progress(p, s) PROVE Old
  BY <1>1, <1>7
     DEF Progress, FinishCreate, FailCreate, ReadRooms, FinishLoad, FailLoad, TxnGet,
         TxnCommit, FailTxn, FinishAdd, FailAdd, FinishDelete, DeleteDone, FinishRename,
         FailQuietly
<1>8. CASE UNCHANGED vars
  BY <1>1, <1>8 DEF vars
<1>9. QED
  BY <1>4, <1>5, <1>6, <1>7, <1>8 DEF Next

\* Ids are used for good.
LEMMA UsedStays == [Next]_vars => used \subseteq used'
<1> SUFFICES ASSUME [Next]_vars PROVE used \subseteq used'
  OBVIOUS
<1>1. ASSUME NEW p \in Phones, UserActs(p) PROVE used \subseteq used'
  BY <1>1
     DEF UserActs, LogIn, LogOut, OpenList, Refresh, OpenRoom, Back, OpenAdd, Tick, Save,
         AddMembers, Delete, Rename, history
<1>2. ASSUME NEW p \in Phones, NEW s \in Slots, Progress(p, s) PROVE used \subseteq used'
  BY <1>2
     DEF Progress, FinishCreate, FailCreate, ReadRooms, FinishLoad, FailLoad, TxnGet,
         TxnCommit, FailTxn, FinishAdd, FailAdd, FinishDelete, DeleteDone, FinishRename,
         FailQuietly, history
<1>3. ASSUME NEW p \in Phones, CommitHead(p) \/ RefuseHead(p) \/ Crash(p)
      PROVE  used \subseteq used'
  BY <1>3 DEF CommitHead, RefuseHead, Crash, history
<1>4. QED
  BY <1>1, <1>2, <1>3 DEF Next, vars

\* A group on the server was there before with fewer members, or was queued.
LEMMA RoomsFrom ==
    ASSUME Sound, Fresh, [Next]_vars, NEW r \in Rooms, rooms'[r] # NoRoom
    PROVE  \/ rooms[r] # NoRoom /\ rooms[r].members \subseteq rooms'[r].members
           \/ \E q \in Phones : \E v \in Users : \E i \in DOMAIN queue[q][v] :
                  Sets(queue[q][v][i], r) /\ queue[q][v][i].doc = rooms'[r]
<1> DEFINE Kept == rooms[r] # NoRoom /\ rooms[r].members \subseteq rooms'[r].members
           Came == \E q \in Phones : \E v \in Users : \E i \in DOMAIN queue[q][v] :
                       Sets(queue[q][v][i], r) /\ queue[q][v][i].doc = rooms'[r]
<1> TypeOK
  BY DEF Sound
<1>1. ASSUME UNCHANGED rooms PROVE Kept
  BY <1>1
<1>2. ASSUME NEW p \in Phones, CommitHead(p) PROVE Kept \/ Came
  <2> DEFINE m == Oldest(p)
  <2>1. me[p] \in Users /\ queue[p][me[p]] # << >> /\ Taken(p) /\ m \in Mutations
    BY <1>2, CommitGroups
  <2>2. 1 \in DOMAIN queue[p][me[p]] /\ m = queue[p][me[p]][1]
    BY <2>1, TakenType
  <2>3. CASE m.op = "set" /\ rooms' = [rooms EXCEPT ![m.room] = m.doc]
    <3>1. CASE m.room = r
      <4>1. rooms'[r] = m.doc
        BY <2>3, <3>1 DEF TypeOK
      <4>2. QED
        BY <2>1, <2>2, <2>3, <3>1, <4>1 DEF Sets
    <3>2. CASE m.room # r
      BY <2>3, <3>2 DEF TypeOK
    <3>3. QED
      BY <3>1, <3>2
  <2>4. CASE Gone(m.room)
    BY <2>4 DEF Gone, TypeOK
  <2>5. QED
    BY <1>1, <1>2, <2>3, <2>4, CommitGroups
<1>3. ASSUME NEW p \in Phones, NEW s \in Slots, TxnCommit(p, s) PROVE Kept
  <2> DEFINE h == handler[p][s]
  <2>1. h.doc \in Docs /\ h.room \in Rooms
    BY <1>3, EndsFacts DEF TxnCommit, Kinds
  <2>2. CASE rooms[h.room] = h.doc
    <3> DEFINE d == [rooms[h.room] EXCEPT !.members = h.doc.members \cup h.set]
    <3>1. rooms' = [rooms EXCEPT ![h.room] = d]
      BY <1>3, <2>1, <2>2 DEF TxnCommit, TypeOK
    <3>2. d.members = h.doc.members \cup h.set /\ h.doc # NoRoom
      BY <2>1, <2>2, DocAssumption DEF Docs
    <3> HIDE DEF d
    <3>3. rooms'[r] = IF r = h.room THEN d ELSE rooms[r]
      BY <3>1 DEF TypeOK
    <3>4. QED
      BY <2>2, <3>2, <3>3
  <2>3. CASE rooms[h.room] # h.doc
    BY <1>1, <1>3, <2>3 DEF TxnCommit
  <2>4. QED
    BY <2>2, <2>3
<1>4. ASSUME NEW p \in Phones, UserActs(p) PROVE Kept
  BY <1>1, <1>4
     DEF UserActs, LogIn, LogOut, OpenList, Refresh, OpenRoom, Back, OpenAdd, Tick, Save,
         AddMembers, Delete, Rename
<1>5. ASSUME NEW p \in Phones, NEW s \in Slots, Progress(p, s) PROVE Kept
  BY <1>1, <1>3, <1>5
     DEF Progress, FinishCreate, FailCreate, ReadRooms, FinishLoad, FailLoad, TxnGet,
         FailTxn, FinishAdd, FailAdd, FinishDelete, DeleteDone, FinishRename, FailQuietly
<1>6. ASSUME NEW p \in Phones, RefuseHead(p) \/ Crash(p) PROVE Kept
  BY <1>1, <1>6 DEF RefuseHead, Crash
<1>7. CASE UNCHANGED vars
  BY <1>1, <1>7 DEF vars
<1>8. QED
  BY <1>2, <1>4, <1>5, <1>6, <1>7 DEF Next

-----------------------------------------------------------------------------
\* What is known of a group stays true.
LEMMA PlacedLasts ==
    ASSUME Sound, [Next]_vars, NEW r \in Rooms, Placed(r)
    PROVE  Placed(r)'
<1>1. r \in used'
  BY UsedStays DEF Placed
<1>2. ASSUME NEW q \in Phones, NEW v \in Users, NEW i \in DOMAIN queue'[q][v],
             Sets(queue'[q][v][i], r)
      PROVE  FALSE
  <2>1. queue'[q][v][i].op = "set" /\ queue'[q][v][i].room = r
    BY <1>2 DEF Sets
  <2>2. \/ \E k \in DOMAIN queue[q][v] : Sets(queue[q][v][k], r)
        \/ r \notin used
    BY <2>1, SetsFrom DEF Sets
  <2>3. QED
    BY <2>2 DEF Placed
<1>3. QED
  BY <1>1, <1>2 DEF Placed

LEMMA KnownLasts ==
    ASSUME Sound, Fresh, [Next]_vars, NEW r \in Rooms, NEW d, Known(d, r)
    PROVE  Known(d, r)'
<1>1. Placed(r) /\ Placed(r)'
  BY PlacedLasts DEF Known
<1>2. rooms'[r] # NoRoom => rooms[r] # NoRoom /\ rooms[r].members \subseteq rooms'[r].members
  BY <1>1, RoomsFrom DEF Placed
<1>3. QED
  BY <1>1, <1>2 DEF Known

LEMMA VoidLasts ==
    ASSUME Sound, Fresh, [Next]_vars, NEW r \in Rooms, Void(r)
    PROVE  Void(r)'
<1>1. Placed(r) /\ Placed(r)'
  BY PlacedLasts DEF Void
<1>2. rooms'[r] # NoRoom => rooms[r] # NoRoom
  BY <1>1, RoomsFrom DEF Placed
<1>3. QED
  BY <1>1, <1>2 DEF Void

LEMMA OnlyByLasts ==
    ASSUME Sound, [Next]_vars, NEW r \in Rooms, NEW p, NEW u, OnlyBy(p, u, r)
    PROVE  OnlyBy(p, u, r)'
<1>1. r \in used'
  BY UsedStays DEF OnlyBy
<1>2. ASSUME NEW q \in Phones, NEW v \in Users, NEW i \in DOMAIN queue'[q][v],
             Sets(queue'[q][v][i], r)
      PROVE  q = p /\ v = u
  <2>1. queue'[q][v][i].op = "set" /\ queue'[q][v][i].room = r
    BY <1>2 DEF Sets
  <2>2. \/ \E k \in DOMAIN queue[q][v] : Sets(queue[q][v][k], r)
        \/ r \notin used
    BY <2>1, SetsFrom DEF Sets
  <2>3. QED
    BY <2>2 DEF OnlyBy
<1>3. QED
  BY <1>1, <1>2 DEF OnlyBy

LEMMA BelongsLasts ==
    ASSUME Sound, Fresh, [Next]_vars, NEW r \in Rooms, NEW u, Belongs(u, r)
    PROVE  Belongs(u, r)'
<1>1. r \in used'
  BY UsedStays DEF Belongs
<1>2. ASSUME NEW q \in Phones, NEW v \in Users, NEW i \in DOMAIN queue'[q][v],
             Sets(queue'[q][v][i], r)
      PROVE  u \in queue'[q][v][i].doc.members
  <2>1. queue'[q][v][i].op = "set" /\ queue'[q][v][i].room = r
    BY <1>2 DEF Sets
  <2>2. \/ \E k \in DOMAIN queue[q][v] :
               Sets(queue[q][v][k], r) /\ queue[q][v][k].doc = queue'[q][v][i].doc
        \/ r \notin used
    BY <2>1, SetsFrom DEF Sets
  <2>3. QED
    BY <2>2 DEF Belongs
<1>3. rooms'[r] # NoRoom => u \in rooms'[r].members
  BY RoomsFrom DEF Belongs
<1>4. QED
  BY <1>1, <1>2, <1>3 DEF Belongs

LEMMA MateLasts ==
    ASSUME Sound, Fresh, [Next]_vars, NEW r \in Rooms, NEW p, NEW u, Mate(p, u, r)
    PROVE  Mate(p, u, r)'
BY BelongsLasts, OnlyByLasts DEF Mate

-----------------------------------------------------------------------------
(***************************************************************************)
(* What a phone reads.                                                     *)
(***************************************************************************)
\* What a phone has stored was on the server.
Stored ==
    \A p \in Phones : \A r \in Rooms : \A d \in Docs : cache[p][r] = d => Known(d, r)

LEMMA CacheMoves ==
    ASSUME Sound, Fresh, [Next]_vars, NEW p \in Phones, NEW r \in Rooms
    PROVE  cache'[p][r] = cache[p][r] \/ cache'[p][r] = rooms'[r]
<1> DEFINE Kept == cache'[p][r] = cache[p][r] \/ cache'[p][r] = rooms'[r]
<1> TypeOK
  BY DEF Sound
<1>1. ASSUME UNCHANGED cache PROVE Kept
  BY <1>1
<1>2. ASSUME NEW q \in Phones, CommitHead(q) PROVE Kept
  <2> DEFINE m == Head(queue[q][me[q]])
             d == Apply(m, rooms[m.room])
  <2>1. rooms' = [rooms EXCEPT ![m.room] = d] /\ cache' = [cache EXCEPT ![q][m.room] = d]
    BY <1>2 DEF CommitHead, Commit
  <2> HIDE DEF m, d
  <2>2. CASE q = p /\ m.room = r
    BY <2>1, <2>2 DEF TypeOK
  <2>3. CASE ~(q = p /\ m.room = r)
    BY <2>1, <2>3 DEF TypeOK
  <2>4. QED
    BY <2>2, <2>3
<1>3. ASSUME NEW q \in Phones, NEW s \in Slots, ReadRooms(q, s) PROVE Kept
  <2>1. UNCHANGED rooms /\ (cache' = [cache EXCEPT ![q] = rooms] \/ UNCHANGED cache)
    BY <1>3 DEF ReadRooms
  <2>2. QED
    BY <2>1 DEF TypeOK
<1>4. ASSUME NEW q \in Phones, UserActs(q) PROVE Kept
  BY <1>1, <1>4
     DEF UserActs, LogIn, LogOut, OpenList, Refresh, OpenRoom, Back, OpenAdd, Tick, Save,
         AddMembers, Delete, Rename, local
<1>5. ASSUME NEW q \in Phones, NEW s \in Slots, Progress(q, s) PROVE Kept
  BY <1>1, <1>3, <1>5
     DEF Progress, FinishCreate, FailCreate, FinishLoad, FailLoad, TxnGet, TxnCommit,
         FailTxn, FinishAdd, FailAdd, FinishDelete, DeleteDone, FinishRename, FailQuietly,
         local
<1>6. ASSUME NEW q \in Phones, RefuseHead(q) \/ Crash(q) PROVE Kept
  BY <1>1, <1>6 DEF RefuseHead, Crash, local
<1>7. CASE UNCHANGED vars
  BY <1>1, <1>7 DEF vars
<1>8. QED
  BY <1>2, <1>4, <1>5, <1>6, <1>7 DEF Next

\* What is on the server is known.
LEMMA OnServer ==
    ASSUME TypeOK, Fresh, NEW r \in Rooms, rooms[r] # NoRoom
    PROVE  Placed(r) /\ rooms[r] \in Docs
<1>1. r \in used
  BY DEF Fresh
<1>2. ASSUME NEW q \in Phones, NEW v \in Users, NEW i \in DOMAIN queue[q][v],
             Sets(queue[q][v][i], r)
      PROVE  FALSE
  <2>1. queue[q][v][i].op = "set" => rooms[queue[q][v][i].room] = NoRoom
    BY DEF Fresh
  <2>2. QED
    BY <1>2, <2>1 DEF Sets
<1>3. QED
  BY <1>1, <1>2 DEF Placed, TypeOK

LEMMA StoredPreserved == Sound /\ Fresh /\ Stored /\ [Next]_vars => Stored'
<1> SUFFICES ASSUME Sound, Fresh, Stored, [Next]_vars,
                    NEW p \in Phones, NEW r \in Rooms, NEW d \in Docs, cache'[p][r] = d
             PROVE  Known(d, r)'
  BY DEF Stored
<1>1. TypeOK' /\ Fresh'
  BY SoundPreserved, FreshPreserved DEF Sound
<1>2. d # NoRoom
  BY DocAssumption DEF Docs
<1>3. CASE cache[p][r] = d
  <2>1. Known(d, r)
    BY <1>3 DEF Stored
  <2>2. QED
    BY <2>1, KnownLasts
<1>4. CASE rooms'[r] = d
  <2>2. Placed(r)'
    <3>1. r \in used'
      BY <1>1, <1>2, <1>4 DEF Fresh
    <3>2. ASSUME NEW q \in Phones, NEW v \in Users, NEW i \in DOMAIN queue'[q][v],
                 Sets(queue'[q][v][i], r)
          PROVE  FALSE
      <4>1. queue'[q][v][i].op = "set" => rooms'[queue'[q][v][i].room] = NoRoom
        BY <1>1 DEF Fresh
      <4>2. QED
        BY <1>2, <1>4, <3>2, <4>1 DEF Sets
    <3>3. QED
      BY <3>1, <3>2 DEF Placed
  <2>3. QED
    BY <1>4, <2>2 DEF Known
<1>5. QED
  BY <1>3, <1>4, CacheMoves

\* A set of places has a last one.
LEMMA Least == \A T \in SUBSET Nat : T # {} => \E x \in T : \A y \in T : x <= y
<1> DEFINE R == {ss \in Nat \X Nat : ss[1] < ss[2]}
<1> SUFFICES ASSUME NEW T \in SUBSET Nat, T # {} PROVE \E x \in T : \A y \in T : x <= y
  OBVIOUS
<1>1. IsWellFoundedOn(R, Nat)
  BY NatLessThanWellFounded DEF OpToRel
<1>2. T \subseteq Nat
  OBVIOUS
<1> HIDE DEF R
<1>3. PICK x \in T : \A y \in T : ~ (<<y, x>> \in R)
  BY <1>1, <1>2, WFMin
<1>4. \A y \in T : ~(y < x)
  BY <1>3 DEF R
<1>5. QED
  BY <1>4

LEMMA Last ==
    ASSUME NEW n \in Nat, NEW T \in SUBSET (1 .. n), T # {}
    PROVE  \E x \in T : \A y \in T : y <= x
<1> DEFINE D == {n - i : i \in T}
<1>1. \A i \in T : i \in Int /\ n - i \in Nat
  OBVIOUS
<1>2. D \subseteq Nat /\ D # {}
  BY <1>1
<1>3. PICK d \in D : \A y \in D : d <= y
  <2> HIDE DEF D
  <2>1. QED
    BY <1>2, Least
<1>4. PICK x \in T : d = n - x
  OBVIOUS
<1>5. \A y \in T : n - x <= n - y
  BY <1>3, <1>4
<1>6. QED
  BY <1>1, <1>5

\* A group that is seen is in the documents read, or queued by the account.
LEMMA SeenFrom ==
    ASSUME Sound, NEW p \in Phones, NEW u \in Users, NEW docs,
           NEW r \in Rooms, NEW a \in Users, <<r, a>> \in Mine(u, Seen(p, docs))
    PROVE  \E d \in Docs :
               /\ u \in d.members
               /\ \/ docs[r] = d
                  \/ /\ me[p] \in Users
                     /\ \E k \in DOMAIN queue[p][me[p]] :
                            Sets(queue[p][me[p]][k], r) /\ queue[p][me[p]][k].doc = d
<1> DEFINE q == queue[p][me[p]]
           on == {i \in DOMAIN q : q[i].room = r /\ q[i].op # "update"}
           k == CHOOSE i \in on : \A j \in on : j <= i
<1> TypeOK
  BY DEF Sound
<1>1. PICK d \in Docs : Seen(p, docs)[r] = d /\ u \in d.members
  BY DEF Mine
<1>2. d # NoRoom
  BY DocAssumption DEF Docs
<1>3. CASE me[p] = NoUser \/ on = {}
  <2>1. docs[r] = d
    BY <1>1, <1>3 DEF Seen, Overlay
  <2>2. QED
    BY <1>1, <2>1
<1>4. CASE me[p] # NoUser /\ on # {}
  <2>1. me[p] \in Users
    BY <1>4 DEF TypeOK
  <2>2. Len(q) \in Nat /\ DOMAIN q = 1 .. Len(q)
    BY <2>1, QueuedWrite
  <2>3. on \in SUBSET (1 .. Len(q))
    BY <2>2
  <2>4. d = Apply(q[k], docs[r])
    BY <1>1, <1>4 DEF Seen, Overlay
  <2>5. k \in on
    <3> HIDE DEF on, q
    <3>1. \E i \in on : \A j \in on : j <= i
      BY <1>4, <2>2, <2>3, Last
    <3>2. QED
      BY <3>1
  <2> HIDE DEF k
  <2>6. k \in DOMAIN q /\ q[k].room = r /\ q[k].op # "update" /\ q[k] \in Mutations
    BY <2>1, <2>5, QueuedWrite
  <2>7. q[k].op = "set" /\ d = q[k].doc
    BY <1>2, <2>4, <2>6 DEF Apply, Mutations
  <2>8. QED
    BY <1>1, <2>1, <2>6, <2>7 DEF Sets
<1>5. QED
  BY <1>3, <1>4

\* A group the account u sees is one of its groups.
LEMMA SeenIsMine ==
    ASSUME Sound, Fresh, Stored, NEW p \in Phones, NEW u \in Users, me[p] = u,
           NEW docs, docs = rooms \/ docs = cache[p],
           NEW r \in Rooms, NEW a \in Users, <<r, a>> \in Mine(u, Seen(p, docs))
    PROVE  Mate(p, u, r)
<1> TypeOK
  BY DEF Sound
<1>1. PICK d \in Docs :
          /\ u \in d.members
          /\ \/ docs[r] = d
             \/ /\ me[p] \in Users
                /\ \E k \in DOMAIN queue[p][me[p]] :
                       Sets(queue[p][me[p]][k], r) /\ queue[p][me[p]][k].doc = d
  BY SeenFrom
<1>2. d # NoRoom
  BY DocAssumption DEF Docs
<1>3. CASE docs[r] = d
  <2>1. CASE docs = rooms
    <3>1. rooms[r] = d /\ Placed(r)
      BY <1>2, <1>3, <2>1, OnServer
    <3>2. QED
      BY <1>1, <3>1 DEF Placed, Mate, Belongs, OnlyBy
  <2>2. CASE docs = cache[p]
    <3>1. Known(d, r)
      BY <1>3, <2>2 DEF Stored
    <3>2. QED
      BY <1>1, <3>1 DEF Known, Placed, Mate, Belongs, OnlyBy
  <2>3. QED
    BY <2>1, <2>2
<1>4. CASE docs[r] # d
  <2>1. PICK k \in DOMAIN queue[p][u] : Sets(queue[p][u][k], r) /\ queue[p][u][k].doc = d
    BY <1>1, <1>4
  <2>2. r \in used /\ rooms[r] = NoRoom
    BY <2>1 DEF Fresh, Sets
  <2>3. ASSUME NEW b \in Phones, NEW v \in Users, NEW j \in DOMAIN queue[b][v],
               Sets(queue[b][v][j], r)
        PROVE  b = p /\ v = u /\ j = k
    BY <2>1, <2>3 DEF Fresh, Sets
  <2>4. QED
    BY <1>1, <2>1, <2>2, <2>3 DEF Mate, Belongs, OnlyBy
<1>5. QED
  BY <1>3, <1>4

\* Nobody sees a group that is gone.
LEMMA SeenIsThere ==
    ASSUME Sound, NEW p \in Phones, NEW u \in Users,
           NEW docs, docs = rooms \/ docs = cache[p],
           NEW r \in Rooms, NEW a \in Users, <<r, a>> \in Mine(u, Seen(p, docs))
    PROVE  ~Wiped(p, r)
<1>1. PICK d \in Docs :
          /\ u \in d.members
          /\ \/ docs[r] = d
             \/ /\ me[p] \in Users
                /\ \E k \in DOMAIN queue[p][me[p]] :
                       Sets(queue[p][me[p]][k], r) /\ queue[p][me[p]][k].doc = d
  BY SeenFrom
<1>2. d # NoRoom
  BY DocAssumption DEF Docs
<1>3. QED
  BY <1>1, <1>2 DEF Wiped, Void, Placed

-----------------------------------------------------------------------------
(***************************************************************************)
(* A step is one of a phone, and leaves the others alone.                  *)
(***************************************************************************)
Step(p) ==
    \/ UserActs(p) \/ CommitHead(p) \/ RefuseHead(p) \/ Crash(p)
    \/ \E s \in Slots : Progress(p, s)

\* What the step of another phone leaves to p.
Same(p) ==
    /\ page'[p] = page[p] /\ bloc'[p] = bloc[p] /\ handler'[p] = handler[p]
    /\ me'[p] = me[p] /\ dropped'[p] = dropped[p] /\ queue'[p] = queue[p]
    /\ p \in foreign' <=> p \in foreign
    /\ p \in late' <=> p \in late
    /\ \A s \in Slots : <<p, s>> \in early' <=> <<p, s>> \in early

LEMMA OthersAct ==
    ASSUME Sound, NEW q \in Phones, UserActs(q), NEW p \in Phones, p # q
    PROVE  Same(p)
<1> TypeOK
  BY DEF Sound
<1>1. CASE LogOut(q) \/ OpenRoom(q) \/ OpenAdd(q) \/ Back(q)
           \/ \E u \in Users : LogIn(q, u) \/ Tick(q, u)
  BY <1>1 DEF LogOut, OpenRoom, OpenAdd, Back, LogIn, Tick, history, Same, TypeOK
<1>2. ASSUME NEW s \in Slots, OpenList(q, s) \/ Refresh(q, s) PROVE Same(p)
  BY <1>2 DEF OpenList, Refresh, StartLoad, Set, Emit, local, history, Same, TypeOK
<1>3. ASSUME NEW s \in Slots, Delete(q, s) \/ Rename(q, s) PROVE Same(p)
  BY <1>3 DEF Delete, Rename, Enqueue, Set, local, history, Same, TypeOK
<1>4. ASSUME NEW s \in Slots, NEW r \in Rooms, Save(q, s, r) PROVE Same(p)
  BY <1>4 DEF Save, Enqueue, Set, Emit, Same, TypeOK
<1>5. ASSUME NEW s \in Slots, NEW S \in SUBSET Users, AddMembers(q, s, S) PROVE Same(p)
  BY <1>5 DEF AddMembers, Set, Emit, local, history, Same, TypeOK
<1>6. QED
  BY <1>1, <1>2, <1>3, <1>4, <1>5 DEF UserActs

LEMMA OthersProgress ==
    ASSUME Sound, NEW q \in Phones, NEW s \in Slots, Progress(q, s), NEW p \in Phones, p # q
    PROVE  Same(p)
<1> TypeOK
  BY DEF Sound
<1>1. CASE FinishCreate(q, s) \/ FailCreate(q, s) \/ FinishAdd(q, s) \/ FailAdd(q, s)
  BY <1>1 DEF FinishCreate, FailCreate, FinishAdd, FailAdd, StartLoad, Set, Emit, local,
         history, Same, TypeOK
<1>2. CASE ReadRooms(q, s)
  BY <1>2 DEF ReadRooms, Answer, history, Same, TypeOK
<1>3. CASE FinishLoad(q, s)
  BY <1>3 DEF FinishLoad, Set, local, Same, TypeOK
<1>4. CASE FailLoad(q, s) \/ FinishRename(q, s) \/ FailQuietly(q, s)
  BY <1>4 DEF FailLoad, FinishRename, FailQuietly, StartLoad, Set, Emit, local, history,
         Same, TypeOK
<1>5. CASE TxnGet(q, s) \/ TxnCommit(q, s) \/ FailTxn(q, s)
  BY <1>5 DEF TxnGet, TxnCommit, FailTxn, local, history, Same, TypeOK
<1>6. CASE FinishDelete(q, s)
  <2>1. \A t \in Slots : <<p, t>> \in early' <=> <<p, t>> \in early
    BY <1>6 DEF FinishDelete, DeleteDone, AnsweredLoads
  <2>2. QED
    BY <1>6, <2>1 DEF FinishDelete, DeleteDone, StartLoad, Set, Emit, Same, TypeOK
<1>7. QED
  BY <1>1, <1>2, <1>3, <1>4, <1>5, <1>6 DEF Progress

LEMMA OthersStay ==
    ASSUME Sound, [Next]_vars, NEW p \in Phones
    PROVE  Same(p) \/ Step(p)
<1> TypeOK
  BY DEF Sound
<1>1. ASSUME NEW q \in Phones, q # p, CommitHead(q) \/ RefuseHead(q) PROVE Same(p)
  <2> DEFINE m == Head(queue[q][me[q]])
  <2>1. PICK pc \in {"ok", "err"} : Acknowledge(q, m, pc)
    BY <1>1 DEF CommitHead, Commit, RefuseHead
  <2> HIDE DEF m
  <2>2. handler'[p] = handler[p]
    BY <1>1, <2>1 DEF Acknowledge, TypeOK
  <2>3. QED
    BY <1>1, <2>2 DEF CommitHead, RefuseHead, local, history, Same, TypeOK
<1>2. ASSUME NEW q \in Phones, q # p, Crash(q) PROVE Same(p)
  BY <1>2 DEF Crash, Emit, Same, TypeOK
<1>3. CASE UNCHANGED vars
  BY <1>3 DEF vars, Same
<1>4. QED
  BY <1>1, <1>2, <1>3, OthersAct, OthersProgress DEF Next, Step

-----------------------------------------------------------------------------
(***************************************************************************)
(* Why a phone shows and runs what it does.                                *)
(***************************************************************************)
LEMMA ListMoves ==
    ASSUME Sound, [Next]_vars, NEW p \in Phones
    PROVE  \/ bloc'[p].list = {}
           \/ /\ bloc'[p] = bloc[p] /\ dropped'[p] = dropped[p]
              /\ p \notin late' => p \notin late
              /\ p \notin foreign' => p \notin foreign
              /\ ListAlive(p)' => ListAlive(p) /\ me'[p] = me[p]
           \/ \E s \in Slots : FinishLoad(p, s)
<1> DEFINE Kept == /\ bloc'[p] = bloc[p] /\ dropped'[p] = dropped[p]
                   /\ p \notin late' => p \notin late
                   /\ p \notin foreign' => p \notin foreign
                   /\ ListAlive(p)' => ListAlive(p) /\ me'[p] = me[p]
           Blank == bloc'[p].list = {}
<1> TypeOK
  BY DEF Sound
<1>a. ASSUME NEW tag, Emit(p, tag) PROVE Blank
  BY <1>a DEF Emit, BlocState, TypeOK
<1>b. ASSUME NEW s \in Slots, StartLoad(p, s) PROVE Blank
  BY <1>a, <1>b DEF StartLoad
<1>1. CASE Same(p)
  BY <1>1 DEF Same, ListAlive
<1>2. CASE OpenRoom(p) \/ Back(p) \/ OpenAdd(p) \/ LogOut(p)
           \/ \E u \in Users : Tick(p, u) \/ LogIn(p, u)
  BY <1>2 DEF OpenRoom, Back, OpenAdd, LogOut, Tick, LogIn, ListAlive, Page, history, TypeOK
<1>3. ASSUME NEW s \in Slots, OpenList(p, s) \/ Refresh(p, s) PROVE Blank
  BY <1>3, <1>b DEF OpenList, Refresh
<1>4. ASSUME NEW s \in Slots, Delete(p, s) \/ Rename(p, s) PROVE Kept
  BY <1>4 DEF Delete, Rename, ListAlive, local, history
<1>5. ASSUME NEW s \in Slots, NEW r \in Rooms, Save(p, s, r) PROVE Blank
  BY <1>5, <1>a DEF Save
<1>6. ASSUME NEW s \in Slots, NEW S \in SUBSET Users, AddMembers(p, s, S) PROVE Blank
  BY <1>6, <1>a DEF AddMembers
<1>7. CASE CommitHead(p) \/ RefuseHead(p)
  BY <1>7 DEF CommitHead, RefuseHead, ListAlive, local, history
<1>8. CASE Crash(p)
  BY <1>8, <1>a DEF Crash
<1>9. ASSUME NEW s \in Slots, Progress(p, s), ~FinishLoad(p, s) PROVE Blank \/ Kept
  <2>1. CASE FinishCreate(p, s) \/ FailCreate(p, s) \/ FinishAdd(p, s) \/ FailAdd(p, s)
             \/ FailLoad(p, s) \/ FinishDelete(p, s)
    BY <2>1, <1>a, <1>b
       DEF FinishCreate, FailCreate, FinishAdd, FailAdd, FailLoad, FinishDelete, DeleteDone
  <2>2. CASE ReadRooms(p, s) \/ TxnGet(p, s) \/ TxnCommit(p, s) \/ FailTxn(p, s)
             \/ FailQuietly(p, s)
    BY <2>2 DEF ReadRooms, TxnGet, TxnCommit, FailTxn, FailQuietly, ListAlive, local, history
  <2>3. CASE FinishRename(p, s)
    BY <2>3, <1>b DEF FinishRename, ListAlive, local, history
  <2>4. QED
    BY <1>9, <2>1, <2>2, <2>3 DEF Progress
<1>10. CASE UserActs(p)
  BY <1>2, <1>3, <1>4, <1>5, <1>6, <1>10 DEF UserActs
<1>11. QED
  BY <1>1, <1>7, <1>8, <1>9, <1>10, OthersStay DEF Step

\* A page of a group stays, or is opened from the list.
LEMMA PageMoves ==
    ASSUME Sound, [Next]_vars, NEW p \in Phones, page'[p].at \in {"room", "add"}
    PROVE  \/ OpenRoom(p)
           \/ /\ page[p].at \in {"room", "add"} /\ page'[p].room = page[p].room
              /\ me'[p] = me[p]
              /\ p \notin foreign' => p \notin foreign
<1> DEFINE Kept == /\ page[p].at \in {"room", "add"} /\ page'[p].room = page[p].room
                   /\ me'[p] = me[p]
                   /\ p \notin foreign' => p \notin foreign
<1> TypeOK
  BY DEF Sound
<1>1. CASE Same(p)
  BY <1>1 DEF Same
<1>2. CASE Back(p) \/ OpenAdd(p)
  BY <1>2 DEF Back, OpenAdd, Page, history, TypeOK
<1>3. ASSUME NEW u \in Users, LogIn(p, u) \/ LogOut(p) PROVE FALSE
  BY <1>3 DEF LogIn, LogOut, Page, TypeOK
<1>4. ASSUME NEW s \in Slots, OpenList(p, s) PROVE FALSE
  BY <1>4 DEF OpenList, Page, TypeOK
<1>5. CASE UserActs(p)
  BY <1>2, <1>3, <1>4, <1>5
     DEF UserActs, Refresh, Tick, Save, AddMembers, Delete, Rename, local, history, LogOut,
         Page, TypeOK
<1>6. CASE CommitHead(p) \/ RefuseHead(p)
  BY <1>6 DEF CommitHead, RefuseHead, local, history
<1>7. ~Crash(p)
  BY DEF Crash, Page, TypeOK
<1>8. ASSUME NEW s \in Slots, Progress(p, s) PROVE Kept
  <2>1. ~FinishDelete(p, s)
    BY DEF FinishDelete, DeleteDone, Page, TypeOK
  <2>2. QED
    BY <1>8, <2>1
       DEF Progress, FinishCreate, FailCreate, ReadRooms, FinishLoad, FailLoad, TxnGet,
           TxnCommit, FailTxn, FinishAdd, FailAdd, FinishRename, FailQuietly, local, history
<1>9. QED
  BY <1>1, <1>5, <1>6, <1>7, <1>8, OthersStay DEF Step

\* Nothing runs on a phone nobody is logged in on, unless it outlived an account.
Quiet ==
    \A p \in Phones : \A s \in Slots :
        page[p].at = "out" /\ p \notin foreign => handler[p][s] = Idle

LEMMA QuietPreserved == Sound /\ Quiet /\ [Next]_vars => Quiet'
<1> SUFFICES ASSUME Sound, Quiet, [Next]_vars, NEW p \in Phones, NEW s \in Slots,
                    page'[p].at = "out", p \notin foreign'
             PROVE  handler'[p][s] = Idle
  BY DEF Quiet, Idle
<1> TypeOK /\ Owned
  BY DEF Sound
<1>1. CASE Same(p)
  BY <1>1 DEF Same, Quiet
<1>2. CASE LogOut(p)
  BY <1>2 DEF LogOut, Running
<1>3. ASSUME page[p].at = "out", p \notin foreign PROVE \A t \in Slots : handler[p][t] = Idle
  BY <1>3 DEF Quiet
<1>4. ASSUME NEW u \in Users, LogIn(p, u) PROVE FALSE
  BY <1>4 DEF LogIn, Page, TypeOK
<1>5. ~OpenRoom(p) /\ ~OpenAdd(p) /\ ~Back(p)
  BY DEF OpenRoom, OpenAdd, Back, Page, TypeOK
<1>6. ASSUME NEW u \in Users, Tick(p, u) PROVE FALSE
  BY <1>6 DEF Tick
<1>7. ASSUME NEW t \in Slots, OpenList(p, t) PROVE FALSE
  BY <1>7 DEF OpenList, Page, TypeOK
<1>8. CASE UserActs(p)
  BY <1>2, <1>4, <1>5, <1>6, <1>7, <1>8
     DEF UserActs, Refresh, Save, AddMembers, Delete, Rename, local
<1>9. CASE CommitHead(p) \/ RefuseHead(p)
  <2>1. me[p] \in Users /\ queue[p][me[p]] # << >> /\ Taken(p)
    BY <1>9 DEF CommitHead, RefuseHead, Taken, TypeOK
  <2>2. page[p].at = "out" /\ p \notin foreign
    BY <1>9 DEF CommitHead, RefuseHead, local, history
  <2>3. PICK pc \in {"ok", "err"} : Acknowledge(p, Oldest(p), pc)
    BY <1>9 DEF CommitHead, Commit, RefuseHead, Oldest
  <2>4. Oldest(p).slot = NoSlot
    BY <1>3, <2>1, <2>2, HeadOwned DEF Fits
  <2>5. handler' = handler
    BY <2>3, <2>4 DEF Acknowledge
  <2>6. QED
    BY <1>3, <2>2, <2>5
<1>10. CASE Crash(p)
  BY <1>10 DEF Crash, TypeOK
<1>11. ASSUME NEW t \in Slots, Progress(p, t) PROVE FALSE
  <2>1. handler[p][t] # Idle
    BY <1>11
       DEF Progress, FinishCreate, FailCreate, ReadRooms, FinishLoad, FailLoad, TxnGet,
           TxnCommit, FailTxn, FinishAdd, FailAdd, FinishDelete, FinishRename, FailQuietly, Ends
  <2>2. ~FinishDelete(p, t)
    BY DEF FinishDelete, DeleteDone, Page, TypeOK
  <2>3. page[p].at = "out" /\ p \notin foreign
    BY <1>11, <2>2
       DEF Progress, FinishCreate, FailCreate, ReadRooms, FinishLoad, FailLoad, TxnGet,
           TxnCommit, FailTxn, FinishAdd, FailAdd, FinishRename, FailQuietly, local, history
  <2>4. QED
    BY <1>3, <2>1, <2>3
<1>12. QED
  BY <1>1, <1>8, <1>9, <1>10, <1>11, OthersStay DEF Step

-----------------------------------------------------------------------------
(***************************************************************************)
(* How a handler of a list or of a deletion comes to be where it is.       *)
(***************************************************************************)
\* A load waits for no write.
LoadsRead ==
    \A p \in Phones : \A s \in Slots :
        handler[p][s] # Idle /\ handler[p][s].kind = "load" =>
            handler[p][s].pc \in {"read", "answer"}

\* A load that goes on, for the same account and with what was dropped still
\* before its answer.
Onward(p, s) ==
    /\ handler'[p][s] = handler[p][s]
    /\ p \notin foreign' => p \notin foreign /\ me'[p] = me[p]
    /\ handler[p][s].pc = "answer" /\ <<p, s>> \notin early'
           => <<p, s>> \notin early /\ dropped'[p] = dropped[p]

LEMMA SlotAfter ==
    ASSUME TypeOK, NEW p \in Phones, NEW t \in Slots, NEW h, Set(p, t, h), NEW s \in Slots
    PROVE  handler'[p][s] = IF s = t THEN h ELSE handler[p][s]
BY DEF Set, TypeOK

\* An answer of the server finds a handler that waits for a write.
LEMMA AnswerMoves ==
    ASSUME Sound, NEW p \in Phones, CommitHead(p) \/ RefuseHead(p), NEW s \in Slots
    PROVE  \/ handler'[p][s] = handler[p][s]
           \/ /\ s = Oldest(p).slot /\ Fits(handler[p][s], Oldest(p))
              /\ handler[p][s] \in HandlerStates
              /\ \E pc \in {"ok", "err"} : /\ handler'[p][s] = [handler[p][s] EXCEPT !.pc = pc]
                                           /\ pc = "ok" => CommitHead(p)
<1> TypeOK /\ Owned
  BY DEF Sound
<1>1. me[p] \in Users /\ queue[p][me[p]] # << >> /\ Taken(p)
  BY DEF CommitHead, RefuseHead, Taken, TypeOK
<1>2. PICK pc \in {"ok", "err"} : Acknowledge(p, Oldest(p), pc) /\ (pc = "ok" => CommitHead(p))
  BY DEF CommitHead, Commit, RefuseHead, Oldest
<1>3. CASE s = Oldest(p).slot
  <2>1. Oldest(p).slot # NoSlot
    BY <1>3, NullAssumption
  <2>2. /\ Fits(handler[p][s], Oldest(p)) /\ handler[p][s] \in HandlerStates
    BY <1>1, <1>3, <2>1, HeadOwned
  <2>3. handler'[p][s] = [handler[p][s] EXCEPT !.pc = pc]
    BY <1>1, <1>2, <1>3, <2>1, AcknowledgeMoves
  <2>4. QED
    BY <1>2, <1>3, <2>2, <2>3
<1>4. CASE s # Oldest(p).slot
  <2>1. Acknowledge(p, Oldest(p), pc)
    BY <1>2
  <2>2. \A q \in Phones : \A t \in Slots :
            ~(q = p /\ t = Oldest(p).slot) => handler'[q][t] = handler[q][t]
    BY <1>1, <2>1, AcknowledgeMoves
  <2>3. QED
    BY <1>4, <2>2
<1>5. QED
  BY <1>3, <1>4

\* A transaction moves a handler that adds members.
LEMMA TxnMoves ==
    ASSUME Sound, NEW p \in Phones, NEW t \in Slots,
           TxnGet(p, t) \/ TxnCommit(p, t) \/ FailTxn(p, t)
    PROVE  /\ handler[p][t].kind = "add" /\ handler[p][t].pc \in {"get", "commit"}
           /\ handler'[p][t].kind = "add"
           /\ \A s \in Slots : s # t => handler'[p][s] = handler[p][s]
<1> TypeOK
  BY DEF Sound
<1>1. /\ handler[p][t] \in HandlerStates /\ handler[p][t].kind = "add"
      /\ handler[p][t].pc \in {"get", "commit"}
  BY RunningHandler DEF TxnGet, TxnCommit, FailTxn, Ends
<1>2. CASE TxnGet(p, t)
  <2> DEFINE d == rooms[handler[p][t].room]
             h == [handler[p][t] EXCEPT !.doc = d, !.pc = IF d = NoRoom THEN "err" ELSE "commit"]
  <2>1. Set(p, t, h)
    BY <1>2 DEF TxnGet, Set, TypeOK
  <2> HIDE DEF d
  <2>2. h.kind = "add"
    BY <1>1 DEF HandlerStates
  <2> HIDE DEF h
  <2>3. QED
    BY <1>1, <2>1, <2>2 DEF Set, TypeOK
<1>3. CASE TxnCommit(p, t) \/ FailTxn(p, t)
  <2>1. PICK pc \in {"ok", "get", "err"} : handler' = [handler EXCEPT ![p][t].pc = pc]
    BY <1>3 DEF TxnCommit, FailTxn
  <2>2. handler'[p][t] = [handler[p][t] EXCEPT !.pc = pc]
    BY <2>1 DEF TypeOK
  <2>3. handler'[p][t].kind = "add"
    BY <1>1, <2>2 DEF HandlerStates
  <2>4. QED
    BY <1>1, <2>1, <2>3 DEF TypeOK
<1>4. QED
  BY <1>2, <1>3

LEMMA LoadMoves ==
    ASSUME Sound, Quiet, LoadsRead, [Next]_vars, NEW p \in Phones, NEW s \in Slots,
           handler'[p][s] # Idle, handler'[p][s].kind = "load"
    PROVE  \/ handler'[p][s] = Load(p) /\ me'[p] = me[p]
           \/ Onward(p, s)
           \/ ReadRooms(p, s)
<1> DEFINE Starts == handler'[p][s] = Load(p) /\ me'[p] = me[p]
<1> TypeOK
  BY DEF Sound
<1>a. ASSUME handler'[p][s] = handler[p][s], UNCHANGED <<me, foreign, early, dropped>>
      PROVE  Onward(p, s)
  BY <1>a DEF Onward
<1>b. ASSUME NEW t \in Slots, NEW h, Set(p, t, h), h = Idle \/ h.kind # "load"
      PROVE  handler'[p][s] = handler[p][s]
  BY <1>b, SlotAfter
<1>c. ASSUME NEW t \in Slots, StartLoad(p, t)
      PROVE  handler'[p][s] = IF s = t THEN Load(p) ELSE handler[p][s]
  BY <1>c, SlotAfter DEF StartLoad
<1>1. CASE Same(p)
  BY <1>1 DEF Same, Onward
<1>2. CASE OpenRoom(p) \/ Back(p) \/ OpenAdd(p) \/ \E u \in Users : Tick(p, u)
  BY <1>2, <1>a DEF OpenRoom, Back, OpenAdd, Tick, history
<1>3. ASSUME NEW u \in Users, LogIn(p, u) PROVE Onward(p, s)
  <2>1. p \in foreign' /\ UNCHANGED <<handler, early, dropped>>
    BY <1>3 DEF LogIn, history, Quiet
  <2>2. QED
    BY <2>1 DEF Onward
<1>4. CASE LogOut(p)
  <2>1. p \in foreign' /\ UNCHANGED <<handler, early, dropped>>
    BY <1>4 DEF LogOut, Running
  <2>2. QED
    BY <2>1 DEF Onward
<1>5. ASSUME NEW t \in Slots, OpenList(p, t) PROVE Starts \/ Onward(p, s)
  <2>1. StartLoad(p, t) /\ UNCHANGED <<me, early, dropped>>
    BY <1>5 DEF OpenList
  <2>2. CASE s = t
    BY <1>c, <2>1, <2>2
  <2>3. CASE s # t
    <3>1. handler'[p][s] = handler[p][s]
      BY <1>c, <2>1, <2>3
    <3>2. Running(p)
      BY <3>1 DEF Running
    <3>3. foreign' = foreign
      BY <1>5, <3>2 DEF OpenList
    <3>4. QED
      BY <1>a, <2>1, <3>1, <3>3
  <2>4. QED
    BY <2>2, <2>3
<1>6. ASSUME NEW t \in Slots, Refresh(p, t) PROVE Starts \/ Onward(p, s)
  BY <1>6, <1>a, <1>c DEF Refresh, local, history
<1>7. ASSUME NEW t \in Slots, Delete(p, t) \/ Rename(p, t) PROVE Onward(p, s)
  <2>1. PICK k \in {"delete", "rename"} : Set(p, t, Run(k, me[p], page[p].room, {}, "write"))
    BY <1>7 DEF Delete, Rename
  <2>2. Run(k, me[p], page[p].room, {}, "write").kind # "load"
    BY DEF Run
  <2>3. handler'[p][s] = handler[p][s]
    BY <1>b, <2>1, <2>2
  <2>4. QED
    BY <1>7, <1>a, <2>3 DEF Delete, Rename, local, history
<1>8. ASSUME NEW t \in Slots, NEW r \in Rooms, Save(p, t, r) PROVE Onward(p, s)
  <2> DEFINE h == Run("create", me[p], r, Ticked(p) \cup {me[p]}, "write")
  <2>1. Set(p, t, h)
    BY <1>8 DEF Save
  <2>2. h.kind # "load"
    BY DEF Run
  <2> HIDE DEF h
  <2>3. handler'[p][s] = handler[p][s]
    BY <1>b, <2>1, <2>2
  <2>4. QED
    BY <1>8, <1>a, <2>3 DEF Save
<1>9. ASSUME NEW t \in Slots, NEW S \in SUBSET Users, AddMembers(p, t, S) PROVE Onward(p, s)
  <2> DEFINE h == Run("add", me[p], page[p].room, S, "get")
  <2>1. Set(p, t, h)
    BY <1>9 DEF AddMembers
  <2>2. h.kind # "load"
    BY DEF Run
  <2> HIDE DEF h
  <2>3. handler'[p][s] = handler[p][s]
    BY <1>b, <2>1, <2>2
  <2>4. QED
    BY <1>9, <1>a, <2>3 DEF AddMembers, local, history
<1>10. CASE UserActs(p)
  BY <1>2, <1>3, <1>4, <1>5, <1>6, <1>7, <1>8, <1>9, <1>10 DEF UserActs
<1>11. CASE CommitHead(p) \/ RefuseHead(p)
  <2>1. handler'[p][s] = handler[p][s]
    <3> SUFFICES ASSUME handler'[p][s] # handler[p][s] PROVE FALSE
      OBVIOUS
    <3>1. /\ Fits(handler[p][s], Oldest(p)) /\ handler[p][s] \in HandlerStates
          /\ \E pc \in {"ok", "err"} : handler'[p][s] = [handler[p][s] EXCEPT !.pc = pc]
      BY <1>11, AnswerMoves
    <3>2. handler'[p][s].kind = handler[p][s].kind
      BY <3>1 DEF HandlerStates
    <3>3. handler[p][s] # Idle /\ handler[p][s].pc = "write"
      BY <3>1 DEF Fits
    <3>4. QED
      BY <3>2, <3>3 DEF LoadsRead
  <2>2. QED
    BY <1>11, <1>a, <2>1 DEF CommitHead, RefuseHead, local, history
<1>12. ~Crash(p)
  BY DEF Crash, TypeOK
<1>13. ASSUME NEW t \in Slots, Progress(p, t)
       PROVE  Starts \/ Onward(p, s) \/ ReadRooms(p, s)
  <2>1. CASE FinishCreate(p, t)
    BY <1>a, <1>b, <1>c, <2>1 DEF FinishCreate, local, StartLoad
  <2>2. CASE FailCreate(p, t) \/ FailLoad(p, t) \/ FailAdd(p, t) \/ FailQuietly(p, t)
    BY <1>a, <1>b, <2>2 DEF FailCreate, FailLoad, FailAdd, FailQuietly, local, history
  <2>3. CASE ReadRooms(p, t)
    <3>1. CASE s = t
      BY <2>3, <3>1
    <3>2. CASE s # t
      <4>1. handler'[p][s] = handler[p][s]
        BY <2>3, <3>2 DEF ReadRooms, Answer, TypeOK
      <4>2. QED
        BY <1>a, <2>3, <4>1 DEF ReadRooms, history
    <3>3. QED
      BY <3>1, <3>2
  <2>4. CASE FinishLoad(p, t)
    <3>1. s # t /\ handler'[p][s] = handler[p][s]
      BY <2>4, SlotAfter DEF FinishLoad
    <3>2. early' = early \ {<<p, t>>} /\ UNCHANGED <<me, foreign, dropped>>
      BY <2>4 DEF FinishLoad, local
    <3>3. QED
      BY <3>1, <3>2 DEF Onward
  <2>5. CASE FinishAdd(p, t)
    BY <1>a, <1>c, <2>5 DEF FinishAdd, local
  <2>6. CASE FinishRename(p, t)
    BY <1>a, <1>b, <1>c, <2>6 DEF FinishRename, local, history
  <2>7. CASE TxnGet(p, t) \/ TxnCommit(p, t) \/ FailTxn(p, t)
    <3>1. s # t /\ handler'[p][s] = handler[p][s]
      BY <2>7, TxnMoves
    <3>2. QED
      BY <1>a, <2>7, <3>1 DEF TxnGet, TxnCommit, FailTxn, local, history
  <2>8. CASE FinishDelete(p, t)
    <3>1. StartLoad(p, t) /\ UNCHANGED <<me, foreign>> /\ early' = early \cup AnsweredLoads(p)
      BY <2>8 DEF FinishDelete, DeleteDone
    <3>2. CASE s = t
      BY <1>c, <3>1, <3>2
    <3>3. CASE s # t
      <4>1. handler'[p][s] = handler[p][s]
        BY <1>c, <3>1, <3>3
      <4>2. handler[p][s].pc = "answer" => <<p, s>> \in AnsweredLoads(p)
        BY <4>1 DEF AnsweredLoads, Ends
      <4>3. QED
        BY <3>1, <4>1, <4>2 DEF Onward
    <3>4. QED
      BY <3>2, <3>3
  <2>9. QED
    BY <1>13, <2>1, <2>2, <2>3, <2>4, <2>5, <2>6, <2>7, <2>8 DEF Progress
<1>14. QED
  BY <1>1, <1>10, <1>11, <1>12, <1>13, OthersStay DEF Step

\* What a read of the groups leaves in its handler.
LEMMA ReadMoves ==
    ASSUME Sound, NEW p \in Phones, NEW s \in Slots, ReadRooms(p, s)
    PROVE  /\ handler[p][s].who \in Users
           /\ handler'[p][s].who = handler[p][s].who /\ handler'[p][s].pc = "answer"
           /\ \E docs : /\ docs = rooms \/ docs = cache[p]
                        /\ handler'[p][s].list = Mine(handler[p][s].who, Seen(p, docs))
           /\ handler[p][s] # Idle /\ handler[p][s].kind = "load"
           /\ UNCHANGED <<me, foreign, dropped, early>>
<1>1. handler[p][s] \in HandlerStates /\ handler[p][s] # Idle /\ handler[p][s].kind = "load"
  BY RunningHandler DEF ReadRooms, Ends, Sound
<1>2. PICK docs : /\ docs = rooms \/ docs = cache[p]
                  /\ Answer(p, s, handler[p][s].who, docs)
  BY DEF ReadRooms
<1> DEFINE L == Mine(handler[p][s].who, Seen(p, docs))
<1>3. handler'[p][s] = [handler[p][s] EXCEPT !.pc = "answer", !.list = L]
  BY <1>2 DEF Answer, Sound, TypeOK
<1> HIDE DEF L
<1>4. /\ handler'[p][s].who = handler[p][s].who /\ handler'[p][s].pc = "answer"
      /\ handler'[p][s].list = L
  BY <1>1, <1>3 DEF HandlerStates
<1>5. handler[p][s].who \in Users
  BY <1>1 DEF ReadRooms, HandlerStates
<1>6. QED
  BY <1>1, <1>2, <1>4, <1>5 DEF L, ReadRooms, history

LEMMA LoadsReadPreserved == Sound /\ Quiet /\ LoadsRead /\ [Next]_vars => LoadsRead'
<1> SUFFICES ASSUME Sound, Quiet, LoadsRead, [Next]_vars, NEW p \in Phones, NEW s \in Slots,
                    handler'[p][s] # Idle, handler'[p][s].kind = "load"
             PROVE  handler'[p][s].pc \in {"read", "answer"}
  BY DEF LoadsRead, Idle
<1>1. CASE handler'[p][s] = Load(p)
  BY <1>1 DEF Load, Run
<1>2. CASE Onward(p, s)
  BY <1>2 DEF Onward, LoadsRead
<1>3. CASE ReadRooms(p, s)
  BY <1>3, ReadMoves
<1>4. QED
  BY <1>1, <1>2, <1>3, LoadMoves

-----------------------------------------------------------------------------
(***************************************************************************)
(* The list shows groups of the account that is logged in.                 *)
(***************************************************************************)
\* A load is one of the account, and has found groups of that account.
OwnLoads ==
    \A p \in Phones : \A s \in Slots : \A u \in Users \cup {NoUser} :
        p \notin foreign /\ me[p] = u /\ handler[p][s] # Idle /\ handler[p][s].kind = "load" =>
            /\ handler[p][s].who = u
            /\ handler[p][s].pc = "answer" =>
                   \A r \in Rooms : \A a \in Users :
                       <<r, a>> \in handler[p][s].list => Mate(p, u, r)

\* So has the list that is shown.
OwnLists ==
    \A p \in Phones : \A u \in Users \cup {NoUser} :
        p \notin foreign /\ me[p] = u /\ ListAlive(p) =>
            \A r \in Rooms : \A a \in Users : <<r, a>> \in bloc[p].list => Mate(p, u, r)

LEMMA OwnLoadsPreserved ==
    Sound /\ Fresh /\ Stored /\ Quiet /\ LoadsRead /\ OwnLoads /\ [Next]_vars => OwnLoads'
<1> SUFFICES ASSUME Sound, Fresh, Stored, Quiet, LoadsRead, OwnLoads, [Next]_vars,
                    NEW p \in Phones, NEW s \in Slots, NEW u \in Users \cup {NoUser},
                    p \notin foreign', me'[p] = u,
                    handler'[p][s] # Idle, handler'[p][s].kind = "load"
             PROVE  /\ handler'[p][s].who = u
                    /\ handler'[p][s].pc = "answer" =>
                           \A r \in Rooms : \A a \in Users :
                               <<r, a>> \in handler'[p][s].list => Mate(p, u, r)'
  BY DEF OwnLoads, Idle
<1>1. CASE handler'[p][s] = Load(p) /\ me'[p] = me[p]
  BY <1>1 DEF Load, Run
<1>2. CASE Onward(p, s)
  <2>1. handler'[p][s] = handler[p][s] /\ p \notin foreign /\ me[p] = u
    BY <1>2 DEF Onward
  <2>2. /\ handler[p][s].who = u
        /\ handler[p][s].pc = "answer" =>
               \A r \in Rooms : \A a \in Users : <<r, a>> \in handler[p][s].list => Mate(p, u, r)
    BY <2>1 DEF OwnLoads
  <2>3. QED
    BY <2>1, <2>2, MateLasts
<1>3. CASE ReadRooms(p, s)
  <2>1. PICK docs : /\ docs = rooms \/ docs = cache[p]
                    /\ handler'[p][s].list = Mine(handler[p][s].who, Seen(p, docs))
    BY <1>3, ReadMoves
  <2>2. /\ handler[p][s].who \in Users /\ handler'[p][s].who = handler[p][s].who
        /\ handler[p][s] # Idle /\ handler[p][s].kind = "load"
        /\ p \notin foreign /\ me[p] = u
    BY <1>3, ReadMoves
  <2>3. handler[p][s].who = u
    BY <2>2 DEF OwnLoads
  <2>4. ASSUME NEW r \in Rooms, NEW a \in Users, <<r, a>> \in handler'[p][s].list
        PROVE  Mate(p, u, r)'
    <3>1. u \in Users /\ <<r, a>> \in Mine(u, Seen(p, docs))
      BY <2>1, <2>2, <2>3, <2>4
    <3>2. Mate(p, u, r)
      BY <2>1, <2>2, <3>1, SeenIsMine
    <3>3. QED
      BY <3>2, MateLasts
  <2>5. QED
    BY <2>2, <2>3, <2>4
<1>4. QED
  BY <1>1, <1>2, <1>3, LoadMoves

\* What the end of a load shows.
LEMMA FinishMoves ==
    ASSUME Sound, NEW p \in Phones, NEW s \in Slots, FinishLoad(p, s)
    PROVE  /\ bloc'[p].list = handler[p][s].list
           /\ handler[p][s] # Idle /\ handler[p][s].kind = "load" /\ handler[p][s].pc = "answer"
           /\ UNCHANGED <<me, page, foreign, dropped>>
           /\ p \notin late' => <<p, s>> \notin early
BY DEF FinishLoad, Ends, BlocState, local, Sound, TypeOK

LEMMA OwnListsPreserved ==
    Sound /\ Fresh /\ OwnLoads /\ OwnLists /\ [Next]_vars => OwnLists'
<1> SUFFICES ASSUME Sound, Fresh, OwnLoads, OwnLists, [Next]_vars,
                    NEW p \in Phones, NEW u \in Users \cup {NoUser},
                    p \notin foreign', me'[p] = u, ListAlive(p)',
                    NEW r \in Rooms, NEW a \in Users, <<r, a>> \in bloc'[p].list
             PROVE  Mate(p, u, r)'
  BY DEF OwnLists
<1>1. SUFFICES Mate(p, u, r)
  BY MateLasts
<1>2. CASE bloc'[p].list = {}
  BY <1>2
<1>3. CASE /\ bloc'[p] = bloc[p] /\ p \notin foreign
           /\ ListAlive(p) /\ me'[p] = me[p]
  BY <1>3 DEF OwnLists
<1>4. ASSUME NEW s \in Slots, FinishLoad(p, s) PROVE Mate(p, u, r)
  <2>1. /\ <<r, a>> \in handler[p][s].list /\ p \notin foreign /\ me[p] = u
        /\ handler[p][s] # Idle /\ handler[p][s].kind = "load" /\ handler[p][s].pc = "answer"
    BY <1>4, FinishMoves
  <2>2. QED
    BY <2>1 DEF OwnLoads
<1>5. QED
  BY <1>2, <1>3, <1>4, ListMoves

Reading == Sound /\ Fresh /\ Stored /\ Quiet /\ LoadsRead /\ OwnLoads /\ OwnLists

LEMMA ReadingAtFirst == Init => Reading
<1> SUFFICES ASSUME Init PROVE Reading
  OBVIOUS
<1>1. Sound /\ Fresh
  BY SoundAtFirst, FreshAtFirst
<1>2. Stored
  BY DocAssumption DEF Init, Stored, Docs
<1>3. Quiet /\ LoadsRead /\ OwnLoads
  BY DEF Init, Quiet, LoadsRead, OwnLoads
<1>4. OwnLists
  BY DEF Init, OwnLists, ListAlive, Page
<1>5. QED
  BY <1>1, <1>2, <1>3, <1>4 DEF Reading

LEMMA ReadingPreserved == Reading /\ [Next]_vars => Reading'
BY SoundPreserved, FreshPreserved, StoredPreserved, QuietPreserved, LoadsReadPreserved,
   OwnLoadsPreserved, OwnListsPreserved DEF Reading

\* Theorem 1.  ListIsMine: the groups in the list are groups of the account
\* that is logged in, whoever used the phone before, whatever is queued,
\* cached or replayed, unless a handler outlived an account.
THEOREM ListsAreOwn == Spec => []ListIsMine
<1>1. Reading => ListIsMine
  <2> SUFFICES ASSUME Reading, NEW p \in Phones, page[p].at = "list", p \notin foreign,
                      NEW ra \in bloc[p].list, rooms[ra[1]] # NoRoom
               PROVE  me[p] \in MembersOf(ra[1])
    BY DEF ListIsMine
  <2>1. PICK r \in Rooms, a \in Users : ra = <<r, a>>
    BY DEF Reading, Sound, TypeOK
  <2>2. PICK u \in Users \cup {NoUser} : me[p] = u
    BY DEF Reading, Sound, TypeOK
  <2>3. Mate(p, u, r)
    BY <2>1, <2>2 DEF Reading, OwnLists, ListAlive
  <2>4. QED
    BY <2>1, <2>2, <2>3 DEF Mate, Belongs, MembersOf
<1>2. QED
  BY <1>1, ReadingAtFirst, ReadingPreserved, PTL DEF Spec

-----------------------------------------------------------------------------
(***************************************************************************)
(* What is in a queue and waited for.                                      *)
(***************************************************************************)
\* Only the server, or the end of the app, moves a handler that waits for a write.
LEMMA WriterStays ==
    ASSUME Sound, NEW p \in Phones, NEW s \in Slots,
           handler[p][s] # Idle, handler[p][s].pc = "write",
           Same(p) \/ UserActs(p) \/ \E t \in Slots : Progress(p, t)
    PROVE  handler'[p][s] = handler[p][s] /\ (p \notin foreign' => p \notin foreign)
<1> DEFINE Kept == handler'[p][s] = handler[p][s] /\ (p \notin foreign' => p \notin foreign)
<1> TypeOK
  BY DEF Sound
<1>a. ASSUME NEW t \in Slots, NEW h, Set(p, t, h),
             handler[p][t] = Idle \/ handler[p][t].pc # "write"
      PROVE  handler'[p][s] = handler[p][s]
  BY <1>a, SlotAfter
<1>b. ASSUME NEW t \in Slots, StartLoad(p, t), handler[p][t] = Idle \/ handler[p][t].pc # "write"
      PROVE  handler'[p][s] = handler[p][s]
  BY <1>a, <1>b DEF StartLoad
<1>1. CASE Same(p)
  BY <1>1 DEF Same
<1>2. CASE OpenRoom(p) \/ Back(p) \/ OpenAdd(p) \/ LogOut(p)
           \/ \E u \in Users : Tick(p, u) \/ LogIn(p, u)
  BY <1>2 DEF OpenRoom, Back, OpenAdd, LogOut, Tick, LogIn, history
<1>3. ASSUME NEW t \in Slots, OpenList(p, t) PROVE Kept
  <2>1. handler'[p][s] = handler[p][s]
    BY <1>3, <1>b DEF OpenList, Free
  <2>2. foreign' = foreign
    BY <1>3 DEF OpenList, Running
  <2>3. QED
    BY <2>1, <2>2
<1>4. ASSUME NEW t \in Slots, Refresh(p, t) PROVE Kept
  BY <1>4, <1>b DEF Refresh, Free, history
<1>5. ASSUME NEW t \in Slots, Delete(p, t) \/ Rename(p, t) PROVE Kept
  BY <1>5, <1>a DEF Delete, Rename, Free, history
<1>6. ASSUME NEW t \in Slots, NEW r \in Rooms, Save(p, t, r) PROVE Kept
  BY <1>6, <1>a DEF Save, Free
<1>7. ASSUME NEW t \in Slots, NEW S \in SUBSET Users, AddMembers(p, t, S) PROVE Kept
  BY <1>7, <1>a DEF AddMembers, Free, history
<1>8. CASE UserActs(p)
  BY <1>2, <1>3, <1>4, <1>5, <1>6, <1>7, <1>8 DEF UserActs
<1>9. ASSUME NEW t \in Slots, Progress(p, t) PROVE Kept
  <2>1. CASE FinishCreate(p, t) \/ FinishAdd(p, t) \/ FinishDelete(p, t) \/ FinishRename(p, t)
    BY <1>a, <1>b, <2>1
       DEF FinishCreate, FinishAdd, FinishDelete, DeleteDone, FinishRename, Ends, history
  <2>2. CASE FailCreate(p, t) \/ FailLoad(p, t) \/ FailAdd(p, t) \/ FailQuietly(p, t)
             \/ FinishLoad(p, t)
    BY <1>a, <2>2 DEF FailCreate, FailLoad, FailAdd, FailQuietly, FinishLoad, Ends, history
  <2>3. CASE TxnGet(p, t) \/ TxnCommit(p, t) \/ FailTxn(p, t)
    <3>1. s # t /\ handler'[p][s] = handler[p][s]
      BY <2>3, TxnMoves
    <3>2. QED
      BY <2>3, <3>1 DEF TxnGet, TxnCommit, FailTxn, history
  <2>4. CASE ReadRooms(p, t)
    <3>1. s # t
      BY <2>4 DEF ReadRooms, Ends
    <3>2. handler'[p][s] = handler[p][s]
      BY <2>4, <3>1 DEF ReadRooms, Answer, TypeOK
    <3>3. QED
      BY <2>4, <3>2 DEF ReadRooms, history
  <2>5. QED
    BY <1>9, <2>1, <2>2, <2>3, <2>4 DEF Progress
<1>10. QED
  BY <1>1, <1>8, <1>9

\* A write that was queued before, at k, with what else was queued then.
Carried(p, u, i, k) ==
    /\ queue'[p][u][i] = queue[p][u][k]
    /\ handler'[p][queue[p][u][k].slot] = handler[p][queue[p][u][k].slot]
    /\ p \notin foreign' => p \notin foreign
    /\ \A j \in DOMAIN queue'[p][u] : queue'[p][u][j].op = "set" =>
           \/ queue'[p][u][j].room \notin used
           \/ \E l \in DOMAIN queue[p][u] : queue'[p][u][j] = queue[p][u][l] /\ (l < k => j < i)

LEMMA WaitsFrom ==
    ASSUME Sound, [Next]_vars, NEW p \in Phones, NEW u \in Users,
           NEW i \in DOMAIN queue'[p][u], queue'[p][u][i].slot # NoSlot
    PROVE  \/ \E k \in DOMAIN queue[p][u] : Carried(p, u, i, k)
           \/ /\ Delete(p, queue'[p][u][i].slot) /\ u = me[p]
              /\ queue'[p][u][i].room = page[p].room /\ queue'[p][u][i].op = "delete"
              /\ \A j \in DOMAIN queue'[p][u] : queue'[p][u][j].op = "set" => j < i
           \/ /\ queue'[p][u][i].op # "delete"
              /\ handler'[p][queue'[p][u][i].slot].kind # "delete"
<1> DEFINE m == queue'[p][u][i]
           Old == \E k \in DOMAIN queue[p][u] : Carried(p, u, i, k)
           Asked == /\ Delete(p, m.slot) /\ u = me[p]
                    /\ m.room = page[p].room /\ m.op = "delete"
                    /\ \A j \in DOMAIN queue'[p][u] : queue'[p][u][j].op = "set" => j < i
           Other == m.op # "delete" /\ handler'[p][m.slot].kind # "delete"
<1> TypeOK /\ PagesGrounded /\ Owned
  BY DEF Sound
<1>a. ASSUME NEW k \in DOMAIN queue[p][u], queue[p][u][k].slot # NoSlot
      PROVE  /\ queue[p][u][k].slot \in Slots
             /\ handler[p][queue[p][u][k].slot] # Idle
             /\ handler[p][queue[p][u][k].slot].pc = "write"
  <2>1. queue[p][u][k] \in Mutations
    BY QueuedWrite
  <2>2. queue[p][u][k].slot \in Slots
    BY <1>a, <2>1 DEF Mutations
  <2>3. Fits(handler[p][queue[p][u][k].slot], queue[p][u][k])
    BY <1>a DEF Owned
  <2>4. QED
    BY <2>2, <2>3 DEF Fits
<1>b. ASSUME queue'[p][u] = queue[p][u],
             Same(p) \/ UserActs(p) \/ \E t \in Slots : Progress(p, t)
      PROVE  Old
  <2>1. i \in DOMAIN queue[p][u] /\ queue[p][u][i].slot # NoSlot
    BY <1>b
  <2>2. /\ handler'[p][queue[p][u][i].slot] = handler[p][queue[p][u][i].slot]
        /\ p \notin foreign' => p \notin foreign
    BY <1>a, <1>b, <2>1, WriterStays
  <2>3. Carried(p, u, i, i)
    BY <1>b, <2>2 DEF Carried
  <2>4. QED
    BY <2>1, <2>3
<1>c. ASSUME me[p] \in Users, NEW w \in Mutations, Enqueue(p, w),
             w.op = "set" => w.room \notin used,
             NEW s \in Slots, NEW h, Set(p, s, h), handler[p][s] = Idle, UNCHANGED foreign,
             i \in DOMAIN queue[p][u], m = queue[p][u][i]
      PROVE  Old
  <2>1. queue[p][u][i].slot \in Slots /\ queue[p][u][i].slot # s
    BY <1>a, <1>c
  <2>2. handler'[p][queue[p][u][i].slot] = handler[p][queue[p][u][i].slot]
    BY <1>c, <2>1, SlotAfter
  <2>3. \A j \in DOMAIN queue'[p][u] :
            \/ j \in DOMAIN queue[p][u] /\ queue'[p][u][j] = queue[p][u][j]
            \/ queue'[p][u][j] = w
    BY <1>c, PlacesAfterAppend
  <2>4. Carried(p, u, i, i)
    BY <1>c, <2>2, <2>3 DEF Carried
  <2>5. QED
    BY <1>c, <2>4
<1>1. CASE Same(p)
  BY <1>1, <1>b DEF Same
<1>2. ASSUME NEW s \in Slots, NEW r \in Rooms, Save(p, s, r) PROVE Old \/ Other
  <2> DEFINE e == [members |-> Ticked(p) \cup {me[p]}, admin |-> owner[p]]
             w == Write("set", r, e, s)
             h == Run("create", me[p], r, e.members, "write")
  <2>1. /\ owner[p] \in Users /\ me[p] \in Users /\ Enqueue(p, w) /\ r \notin used
        /\ Set(p, s, h) /\ handler[p][s] = Idle /\ UNCHANGED foreign
    BY <1>2 DEF Save, Free, PagesGrounded, TypeOK
  <2>2. e \in Docs
    BY <2>1 DEF Ticked, Docs
  <2> HIDE DEF e
  <2>3. w \in Mutations /\ w.room = r /\ w.op = "set" /\ w.slot = s /\ h.kind = "create"
    BY <2>2 DEF Write, Mutations, Run
  <2> HIDE DEF w, h
  <2>4. (i \in DOMAIN queue[p][u] /\ m = queue[p][u][i]) \/ m = w
    BY <2>1, <2>3, PlacesAfterAppend
  <2>5. handler'[p][s] = h
    BY <2>1, SlotAfter
  <2>6. QED
    BY <1>c, <2>1, <2>3, <2>4, <2>5
<1>3. ASSUME NEW s \in Slots, Rename(p, s) PROVE Old \/ Other
  <2> DEFINE w == Write("update", page[p].room, NoRoom, s)
             h == Run("rename", me[p], page[p].room, {}, "write")
  <2>1. /\ me[p] \in Users /\ page[p].room \in Rooms /\ Enqueue(p, w)
        /\ Set(p, s, h) /\ handler[p][s] = Idle /\ UNCHANGED foreign
    BY <1>3 DEF Rename, Free, PagesGrounded, history
  <2>2. w \in Mutations /\ w.op = "update" /\ w.slot = s /\ h.kind = "rename"
    BY <2>1 DEF Write, Mutations, Run
  <2> HIDE DEF w, h
  <2>3. (i \in DOMAIN queue[p][u] /\ m = queue[p][u][i]) \/ m = w
    BY <2>1, <2>2, PlacesAfterAppend
  <2>4. handler'[p][s] = h
    BY <2>1, SlotAfter
  <2>5. QED
    BY <1>c, <2>1, <2>2, <2>3, <2>4
<1>4. ASSUME NEW s \in Slots, Delete(p, s) PROVE Old \/ Asked
  <2> DEFINE w == Write("delete", page[p].room, NoRoom, s)
             h == Run("delete", me[p], page[p].room, {}, "write")
             n == Len(queue[p][me[p]])
  <2>1. /\ me[p] \in Users /\ page[p].room \in Rooms /\ Enqueue(p, w)
        /\ Set(p, s, h) /\ handler[p][s] = Idle /\ UNCHANGED foreign
    BY <1>4 DEF Delete, Free, PagesGrounded, history
  <2>2. /\ w \in Mutations /\ w.op = "delete" /\ w.slot = s /\ w.room = page[p].room
    BY <2>1 DEF Write, Mutations
  <2> HIDE DEF w, h
  <2>3. \A j \in DOMAIN queue'[p][u] :
            \/ j \in DOMAIN queue[p][u] /\ queue'[p][u][j] = queue[p][u][j]
            \/ u = me[p] /\ j = n + 1 /\ queue'[p][u][j] = w
    BY <2>1, <2>2, PlacesAfterAppend
  <2>4. CASE i \in DOMAIN queue[p][u] /\ m = queue[p][u][i]
    BY <1>c, <2>1, <2>2, <2>4
  <2>5. CASE u = me[p] /\ i = n + 1 /\ m = w
    <3>1. n \in Nat /\ DOMAIN queue[p][u] = 1 .. n
      BY <2>1, <2>5, QueuedWrite
    <3>2. \A j \in DOMAIN queue'[p][u] : queue'[p][u][j].op = "set" => j < i
      BY <2>2, <2>3, <2>5, <3>1
    <3>3. QED
      BY <1>4, <2>2, <2>5, <3>2
  <2>6. QED
    BY <2>3, <2>4, <2>5
<1>5. CASE UserActs(p)
  <2>1. CASE UNCHANGED queue
    BY <1>b, <1>5, <2>1
  <2>2. CASE queue' # queue
    BY <1>2, <1>3, <1>4, <1>5, <2>2
       DEF UserActs, LogIn, LogOut, OpenList, Refresh, OpenRoom, Back, OpenAdd, Tick, AddMembers
  <2>3. QED
    BY <2>1, <2>2
<1>6. CASE CommitHead(p) \/ RefuseHead(p)
  <2> DEFINE k == Before(p, p, u, i)
  <2>1. me[p] \in Users /\ queue[p][me[p]] # << >> /\ Taken(p)
    BY <1>6 DEF CommitHead, RefuseHead, Taken, TypeOK
  <2>2. k \in DOMAIN queue[p][u] /\ m = queue[p][u][k] /\ i \in Nat \ {0}
    BY <2>1, PlacesAfterTake
  <2>3. queue[p][u][k].slot # Oldest(p).slot
    <3> SUFFICES ASSUME queue[p][u][k].slot = Oldest(p).slot PROVE FALSE
      OBVIOUS
    <3>1. Oldest(p) = queue[p][me[p]][1] /\ 1 \in DOMAIN queue[p][me[p]]
      BY <2>1, TakenType
    <3>2. u = me[p] /\ k = 1
      BY <2>1, <2>2, <3>1 DEF Owned
    <3>3. QED
      BY <2>2, <3>2 DEF Before
  <2>4. queue[p][u][k].slot \in Slots
    BY <1>a, <2>2
  <2>5. handler'[p][queue[p][u][k].slot] = handler[p][queue[p][u][k].slot]
    BY <1>6, <2>3, <2>4, AnswerMoves
  <2>6. UNCHANGED foreign
    BY <1>6 DEF CommitHead, RefuseHead, history
  <2>7. ASSUME NEW j \in DOMAIN queue'[p][u]
        PROVE  \E l \in DOMAIN queue[p][u] : queue'[p][u][j] = queue[p][u][l] /\ (l < k => j < i)
    <3> DEFINE l == Before(p, p, u, j)
    <3>1. l \in DOMAIN queue[p][u] /\ queue'[p][u][j] = queue[p][u][l] /\ j \in Nat \ {0}
      BY <2>1, PlacesAfterTake
    <3>2. l < k => j < i
      BY <2>2, <3>1 DEF Before
    <3>3. QED
      BY <3>1, <3>2
  <2> HIDE DEF k
  <2>8. Carried(p, u, i, k)
    BY <2>2, <2>5, <2>6, <2>7 DEF Carried
  <2>9. QED
    BY <2>2, <2>8
<1>7. ~Crash(p)
  <2> SUFFICES ASSUME Crash(p) PROVE FALSE
    OBVIOUS
  <2>1. i \in DOMAIN queue[p][u] /\ m = [queue[p][u][i] EXCEPT !.slot = NoSlot]
    BY PlacesAfterCrash
  <2>2. queue[p][u][i] \in Mutations
    BY <2>1, QueuedWrite
  <2>3. QED
    BY <2>1, <2>2 DEF Mutations
<1>8. ASSUME NEW s \in Slots, Progress(p, s) PROVE Old
  <2>1. UNCHANGED queue
    BY <1>8
       DEF Progress, FinishCreate, FailCreate, ReadRooms, FinishLoad, FailLoad, TxnGet,
           TxnCommit, FailTxn, FinishAdd, FailAdd, FinishDelete, DeleteDone, FinishRename,
           FailQuietly
  <2>2. QED
    BY <1>b, <1>8, <2>1
<1>9. QED
  BY <1>1, <1>5, <1>6, <1>7, <1>8, OthersStay DEF Step
-----------------------------------------------------------------------------
(***************************************************************************)
(* A group whose deletion was reported is gone.                            *)
(***************************************************************************)
LEMMA WipedLasts ==
    ASSUME Sound, Fresh, [Next]_vars, NEW p \in Phones, NEW r \in Rooms, Wiped(p, r)
    PROVE  Wiped(p, r)'
<1>1. Void(r)'
  BY VoidLasts DEF Wiped
<1>2. cache'[p][r] = NoRoom
  BY <1>1, CacheMoves DEF Wiped, Void
<1>3. QED
  BY <1>1, <1>2 DEF Wiped

\* The group of a page is made, or is still queued by the account there.
OwnPages ==
    \A p \in Phones : \A u \in Users \cup {NoUser} : \A r \in Rooms :
        p \notin foreign /\ me[p] = u /\ page[p].at \in {"room", "add"} /\ page[p].room = r =>
            OnlyBy(p, u, r)

\* The handler of a deletion waits for a deletion.
Matching ==
    \A p \in Phones : \A u \in Users : \A i \in DOMAIN queue[p][u] :
        queue[p][u][i].slot # NoSlot /\ handler[p][queue[p][u][i].slot].kind = "delete" =>
            queue[p][u][i].op = "delete"

\* Such a deletion comes after the group.
After(p, u, r, i) ==
    OnlyBy(p, u, r) /\ \A j \in DOMAIN queue[p][u] : Sets(queue[p][u][j], r) => j < i
Erasing ==
    \A p \in Phones : \A u \in Users : \A i \in DOMAIN queue[p][u] : \A r \in Rooms :
        /\ p \notin foreign /\ queue[p][u][i].slot # NoSlot
        /\ queue[p][u][i].op = "delete" /\ queue[p][u][i].room = r
        => After(p, u, r, i)

LEMMA OwnPagesPreserved ==
    Sound /\ OwnLists /\ OwnPages /\ [Next]_vars => OwnPages'
<1> SUFFICES ASSUME Sound, OwnLists, OwnPages, [Next]_vars,
                    NEW p \in Phones, NEW u \in Users \cup {NoUser}, NEW r \in Rooms,
                    p \notin foreign', me'[p] = u, page'[p].at \in {"room", "add"},
                    page'[p].room = r
             PROVE  OnlyBy(p, u, r)'
  BY DEF OwnPages
<1>1. SUFFICES OnlyBy(p, u, r)
  BY OnlyByLasts
<1>2. CASE /\ page[p].at \in {"room", "add"} /\ page'[p].room = page[p].room
           /\ me'[p] = me[p] /\ p \notin foreign
  BY <1>2 DEF OwnPages
<1>3. CASE OpenRoom(p)
  <2>1. PICK ra \in bloc[p].list :
            page' = [page EXCEPT ![p] = [at |-> "room", room |-> ra[1], admin |-> ra[2]]]
    BY <1>3 DEF OpenRoom
  <2>2. page'[p].room = ra[1]
    BY <2>1 DEF Sound, TypeOK
  <2>3. PICK a \in Users : ra = <<r, a>>
    BY <2>1, <2>2 DEF Sound, TypeOK
  <2>4. p \notin foreign /\ me[p] = u /\ ListAlive(p)
    BY <1>3 DEF OpenRoom, ListAlive, history
  <2>5. QED
    BY <2>1, <2>3, <2>4 DEF OwnLists, Mate
<1>4. QED
  BY <1>2, <1>3, PageMoves

LEMMA MatchingPreserved == Sound /\ Matching /\ [Next]_vars => Matching'
<1> SUFFICES ASSUME Sound, Matching, [Next]_vars,
                    NEW p \in Phones, NEW u \in Users, NEW i \in DOMAIN queue'[p][u],
                    queue'[p][u][i].slot # NoSlot,
                    handler'[p][queue'[p][u][i].slot].kind = "delete"
             PROVE  queue'[p][u][i].op = "delete"
  BY DEF Matching
<1>1. ASSUME NEW k \in DOMAIN queue[p][u], Carried(p, u, i, k)
      PROVE  queue'[p][u][i].op = "delete"
  BY <1>1 DEF Carried, Matching
<1>2. QED
  BY <1>1, WaitsFrom

LEMMA ErasingPreserved ==
    Sound /\ OwnPages /\ Erasing /\ [Next]_vars => Erasing'
<1> SUFFICES ASSUME Sound, OwnPages, Erasing, [Next]_vars,
                    NEW p \in Phones, NEW u \in Users, NEW i \in DOMAIN queue'[p][u],
                    NEW r \in Rooms, p \notin foreign', queue'[p][u][i].slot # NoSlot,
                    queue'[p][u][i].op = "delete", queue'[p][u][i].room = r
             PROVE  After(p, u, r, i)'
  BY DEF Erasing
<1>1. ASSUME NEW k \in DOMAIN queue[p][u], Carried(p, u, i, k)
      PROVE  After(p, u, r, i)'
  <2>1. After(p, u, r, k)
    BY <1>1 DEF Carried, Erasing
  <2>2. OnlyBy(p, u, r)'
    BY <2>1, OnlyByLasts DEF After
  <2>3. ASSUME NEW j \in DOMAIN queue'[p][u], Sets(queue'[p][u][j], r)
        PROVE  j < i
    <3>1. queue'[p][u][j].op = "set" /\ queue'[p][u][j].room \in used
      BY <2>1, <2>3 DEF Sets, After, OnlyBy
    <3>2. PICK l \in DOMAIN queue[p][u] :
              queue'[p][u][j] = queue[p][u][l] /\ (l < k => j < i)
      BY <1>1, <3>1 DEF Carried
    <3>3. l < k
      BY <2>1, <2>3, <3>2 DEF After
    <3>4. QED
      BY <3>2, <3>3
  <2>4. QED
    BY <2>2, <2>3 DEF After
<1>2. CASE /\ Delete(p, queue'[p][u][i].slot) /\ u = me[p]
           /\ queue'[p][u][i].room = page[p].room
           /\ \A j \in DOMAIN queue'[p][u] : queue'[p][u][j].op = "set" => j < i
  <2>1. page[p].at \in {"room", "add"} /\ p \notin foreign
    BY <1>2 DEF Delete, history
  <2>2. OnlyBy(p, u, r)
    BY <1>2, <2>1 DEF OwnPages
  <2>3. QED
    BY <1>2, <2>2, OnlyByLasts DEF After, Sets
<1>3. QED
  BY <1>1, <1>2, WaitsFrom
\* A handler whose deletion is done got there by an answer of the server.
Deleted(h) == h # Idle /\ h.kind = "delete" /\ h.pc = "ok"

LEMMA DeletedMoves ==
    ASSUME Sound, [Next]_vars, NEW p \in Phones, NEW s \in Slots, Deleted(handler'[p][s])
    PROVE  \/ handler'[p][s] = handler[p][s] /\ (p \notin foreign' => p \notin foreign)
           \/ /\ CommitHead(p) /\ s = Oldest(p).slot
              /\ Fits(handler[p][s], Oldest(p)) /\ handler[p][s].kind = "delete"
              /\ handler'[p][s].room = handler[p][s].room
<1> DEFINE Kept == handler'[p][s] = handler[p][s] /\ (p \notin foreign' => p \notin foreign)
           Done == /\ CommitHead(p) /\ s = Oldest(p).slot
                   /\ Fits(handler[p][s], Oldest(p)) /\ handler[p][s].kind = "delete"
                   /\ handler'[p][s].room = handler[p][s].room
<1> TypeOK
  BY DEF Sound
<1>a. ASSUME NEW t \in Slots, NEW h, Set(p, t, h), ~Deleted(h)
      PROVE  handler'[p][s] = handler[p][s]
  BY <1>a, SlotAfter
<1>b. ASSUME NEW t \in Slots, StartLoad(p, t) PROVE handler'[p][s] = handler[p][s]
  <2>1. ~Deleted(Load(p))
    BY DEF Deleted, Load, Run
  <2>2. QED
    BY <1>a, <1>b, <2>1 DEF StartLoad
<1>c. ASSUME NEW t \in Slots, Set(p, t, Idle) PROVE handler'[p][s] = handler[p][s]
  BY <1>a, <1>c DEF Deleted
<1>d. ASSUME NEW t \in Slots, NEW k, NEW u, NEW r, NEW S, NEW pc \in {"write", "get"},
             Set(p, t, Run(k, u, r, S, pc))
      PROVE  handler'[p][s] = handler[p][s]
  <2>1. ~Deleted(Run(k, u, r, S, pc))
    BY DEF Deleted, Run
  <2>2. QED
    BY <1>a, <1>d, <2>1
<1>1. CASE Same(p)
  BY <1>1 DEF Same
<1>2. CASE OpenRoom(p) \/ Back(p) \/ OpenAdd(p) \/ LogOut(p)
           \/ \E u \in Users : Tick(p, u) \/ LogIn(p, u)
  BY <1>2 DEF OpenRoom, Back, OpenAdd, LogOut, Tick, LogIn, history
<1>3. ASSUME NEW t \in Slots, OpenList(p, t) PROVE Kept
  <2>1. handler'[p][s] = handler[p][s]
    BY <1>3, <1>b DEF OpenList
  <2>2. Running(p)
    BY <2>1 DEF Running, Deleted
  <2>3. foreign' = foreign
    BY <1>3, <2>2 DEF OpenList
  <2>4. QED
    BY <2>1, <2>3
<1>4. ASSUME NEW t \in Slots, Refresh(p, t) PROVE Kept
  BY <1>4, <1>b DEF Refresh, history
<1>5. ASSUME NEW t \in Slots, Delete(p, t) \/ Rename(p, t) PROVE Kept
  BY <1>5, <1>d DEF Delete, Rename, history
<1>6. ASSUME NEW t \in Slots, NEW r \in Rooms, Save(p, t, r) PROVE Kept
  BY <1>6, <1>d DEF Save
<1>7. ASSUME NEW t \in Slots, NEW S \in SUBSET Users, AddMembers(p, t, S) PROVE Kept
  BY <1>7, <1>d DEF AddMembers, history
<1>8. CASE UserActs(p)
  BY <1>2, <1>3, <1>4, <1>5, <1>6, <1>7, <1>8 DEF UserActs
<1>9. CASE CommitHead(p) \/ RefuseHead(p)
  <2>1. CASE handler'[p][s] = handler[p][s]
    BY <1>9, <2>1 DEF CommitHead, RefuseHead, history
  <2>2. ASSUME s = Oldest(p).slot, Fits(handler[p][s], Oldest(p)),
               handler[p][s] \in HandlerStates, NEW pc \in {"ok", "err"},
               handler'[p][s] = [handler[p][s] EXCEPT !.pc = pc],
               pc = "ok" => CommitHead(p)
        PROVE  Done
    <3>1. /\ handler'[p][s].kind = handler[p][s].kind /\ handler'[p][s].pc = pc
          /\ handler'[p][s].room = handler[p][s].room
      BY <2>2 DEF HandlerStates
    <3>2. QED
      BY <2>2, <3>1 DEF Deleted
  <2>3. QED
    BY <1>9, <2>1, <2>2, AnswerMoves
<1>10. ~Crash(p)
  BY DEF Crash, Deleted, TypeOK
<1>11. ASSUME NEW t \in Slots, Progress(p, t) PROVE Kept
  <2>1. CASE FinishCreate(p, t) \/ FinishAdd(p, t) \/ FinishDelete(p, t) \/ FinishRename(p, t)
    BY <1>b, <1>c, <2>1
       DEF FinishCreate, FinishAdd, FinishDelete, DeleteDone, FinishRename, history
  <2>2. CASE FailCreate(p, t) \/ FailLoad(p, t) \/ FailAdd(p, t) \/ FailQuietly(p, t)
             \/ FinishLoad(p, t)
    BY <1>c, <2>2 DEF FailCreate, FailLoad, FailAdd, FailQuietly, FinishLoad, history
  <2>3. CASE TxnGet(p, t) \/ TxnCommit(p, t) \/ FailTxn(p, t)
    <3>1. handler'[p][s] = handler[p][s]
      BY <2>3, TxnMoves DEF Deleted
    <3>2. QED
      BY <2>3, <3>1 DEF TxnGet, TxnCommit, FailTxn, history
  <2>4. CASE ReadRooms(p, t)
    <3>1. handler'[p][t].pc = "answer"
      BY <2>4, ReadMoves
    <3>2. s # t
      BY <3>1 DEF Deleted
    <3>3. handler'[p][s] = handler[p][s]
      BY <2>4, <3>2 DEF ReadRooms, Answer, TypeOK
    <3>4. QED
      BY <2>4, <3>3 DEF ReadRooms, history
  <2>5. QED
    BY <1>11, <2>1, <2>2, <2>3, <2>4 DEF Progress
<1>12. QED
  BY <1>1, <1>8, <1>9, <1>10, <1>11, OthersStay DEF Step

\* The group of such a handler is gone, unless the account changed under it.
Erased ==
    \A p \in Phones : \A s \in Slots : \A r \in Rooms :
        p \notin foreign /\ Deleted(handler[p][s]) /\ handler[p][s].room = r => Wiped(p, r)

LEMMA ErasedPreserved ==
    Sound /\ Fresh /\ Matching /\ Erasing /\ Erased /\ [Next]_vars => Erased'
<1> SUFFICES ASSUME Sound, Fresh, Matching, Erasing, Erased, [Next]_vars,
                    NEW p \in Phones, NEW s \in Slots, NEW r \in Rooms, p \notin foreign',
                    Deleted(handler'[p][s]), handler'[p][s].room = r
             PROVE  Wiped(p, r)'
  BY DEF Erased, Deleted
<1> TypeOK
  BY DEF Sound
<1>1. CASE handler'[p][s] = handler[p][s] /\ p \notin foreign
  <2>1. Wiped(p, r)
    BY <1>1 DEF Erased
  <2>2. QED
    BY <2>1, WipedLasts
<1>2. CASE /\ CommitHead(p) /\ s = Oldest(p).slot
           /\ Fits(handler[p][s], Oldest(p)) /\ handler[p][s].kind = "delete"
           /\ handler'[p][s].room = handler[p][s].room
  <2>1. /\ me[p] \in Users /\ 1 \in DOMAIN queue[p][me[p]]
        /\ Oldest(p) = queue[p][me[p]][1] /\ Oldest(p).slot # NoSlot
    BY <1>2, CommitGroups, TakenType, NullAssumption
  <2>2. Oldest(p).op = "delete" /\ Oldest(p).room = r /\ p \notin foreign
    BY <1>2, <2>1 DEF Matching, Fits, CommitHead
  <2>3. PICK u \in Users : u = me[p]
    BY <2>1
  <2>4. After(p, u, r, 1)
    BY <2>1, <2>2, <2>3 DEF Erasing
  <2>5. Placed(r)
    <3>1. \A j \in DOMAIN queue[p][u] : ~(j < 1)
      BY QueuedWrite
    <3>2. QED
      BY <2>4, <3>1 DEF After, OnlyBy, Placed
  <2>6. Placed(r)'
    BY <2>5, PlacedLasts
  <2>7. rooms'[r] = NoRoom /\ cache'[p][r] = NoRoom
    <3>1. Apply(Oldest(p), rooms[r]) = NoRoom
      BY <2>2 DEF Apply
    <3>2. /\ rooms' = [rooms EXCEPT ![r] = Apply(Oldest(p), rooms[r])]
          /\ cache' = [cache EXCEPT ![p][r] = Apply(Oldest(p), rooms[r])]
      BY <1>2, <2>2 DEF CommitHead, Commit, Oldest
    <3>3. QED
      BY <3>1, <3>2 DEF TypeOK
  <2>8. QED
    BY <2>6, <2>7 DEF Wiped, Void
<1>3. QED
  BY <1>1, <1>2, DeletedMoves
LEMMA DropMoves ==
    ASSUME Sound, [Next]_vars, NEW p \in Phones, NEW r \in dropped'[p]
    PROVE  \/ r \in dropped[p]
           \/ \E s \in Slots : /\ p \notin foreign /\ Deleted(handler[p][s])
                               /\ handler[p][s].room = r
<1> TypeOK
  BY DEF Sound
<1>1. CASE Same(p)
  BY <1>1 DEF Same
<1>2. CASE UserActs(p)
  BY <1>2
     DEF UserActs, LogIn, LogOut, OpenList, Refresh, OpenRoom, Back, OpenAdd, Tick, Save,
         AddMembers, Delete, Rename, history
<1>3. CASE CommitHead(p) \/ RefuseHead(p) \/ Crash(p)
  BY <1>3 DEF CommitHead, RefuseHead, Crash, history
<1>4. ASSUME NEW s \in Slots, FinishDelete(p, s), r \notin dropped[p]
      PROVE  p \notin foreign /\ Deleted(handler[p][s]) /\ handler[p][s].room = r
  <2>1. p \notin foreign /\ dropped' = [dropped EXCEPT ![p] = @ \cup {handler[p][s].room}]
    BY <1>4 DEF FinishDelete, DeleteDone
  <2>2. Deleted(handler[p][s])
    BY <1>4 DEF FinishDelete, Ends, Deleted
  <2>3. QED
    BY <1>4, <2>1, <2>2 DEF TypeOK
<1>5. ASSUME NEW s \in Slots, Progress(p, s), ~FinishDelete(p, s) PROVE r \in dropped[p]
  BY <1>5
     DEF Progress, FinishCreate, FailCreate, ReadRooms, FinishLoad, FailLoad, TxnGet,
         TxnCommit, FailTxn, FinishAdd, FailAdd, FinishRename, FailQuietly, history
<1>6. QED
  BY <1>1, <1>2, <1>3, <1>4, <1>5, OthersStay DEF Step

\* What was reported as deleted is gone.
Dropped == \A p \in Phones : \A r \in Rooms : r \in dropped[p] => Wiped(p, r)

LEMMA DroppedPreserved ==
    Sound /\ Fresh /\ Erased /\ Dropped /\ [Next]_vars => Dropped'
<1> SUFFICES ASSUME Sound, Fresh, Erased, Dropped, [Next]_vars,
                    NEW p \in Phones, NEW r \in Rooms, r \in dropped'[p]
             PROVE  Wiped(p, r)'
  BY DEF Dropped
<1>1. SUFFICES Wiped(p, r)
  BY WipedLasts
<1>2. CASE r \in dropped[p]
  BY <1>2 DEF Dropped
<1>3. ASSUME NEW s \in Slots, p \notin foreign, Deleted(handler[p][s]), handler[p][s].room = r
      PROVE  Wiped(p, r)
  BY <1>3 DEF Erased
<1>4. QED
  BY <1>2, <1>3, DropMoves

\* A load that is answered has found none of it, if it was answered since.
Answered ==
    \A p \in Phones : \A s \in Slots : \A r \in Rooms : \A a \in Users :
        /\ handler[p][s] # Idle /\ handler[p][s].kind = "load" /\ handler[p][s].pc = "answer"
        /\ <<p, s>> \notin early /\ <<r, a>> \in handler[p][s].list
        => r \notin dropped[p]

LEMMA AnsweredPreserved ==
    Sound /\ Quiet /\ LoadsRead /\ Dropped /\ Answered /\ [Next]_vars => Answered'
<1> SUFFICES ASSUME Sound, Quiet, LoadsRead, Dropped, Answered, [Next]_vars,
                    NEW p \in Phones, NEW s \in Slots, NEW r \in Rooms, NEW a \in Users,
                    handler'[p][s] # Idle, handler'[p][s].kind = "load",
                    handler'[p][s].pc = "answer", <<p, s>> \notin early',
                    <<r, a>> \in handler'[p][s].list
             PROVE  r \notin dropped'[p]
  BY DEF Answered, Idle
<1>1. CASE handler'[p][s] = Load(p)
  BY <1>1 DEF Load, Run
<1>2. CASE Onward(p, s)
  BY <1>2 DEF Onward, Answered
<1>3. CASE ReadRooms(p, s)
  <2>1. PICK docs : /\ docs = rooms \/ docs = cache[p]
                    /\ handler'[p][s].list = Mine(handler[p][s].who, Seen(p, docs))
    BY <1>3, ReadMoves
  <2>2. handler[p][s].who \in Users /\ dropped' = dropped
    BY <1>3, ReadMoves
  <2>3. ~Wiped(p, r)
    BY <2>1, <2>2, SeenIsThere
  <2>4. QED
    BY <2>2, <2>3 DEF Dropped
<1>4. QED
  BY <1>1, <1>2, <1>3, LoadMoves

\* The list that is shown, by the groups it holds.
Away ==
    \A p \in Phones : \A r \in Rooms : \A a \in Users :
        p \notin late /\ <<r, a>> \in bloc[p].list => r \notin dropped[p]

LEMMA AwayPreserved == Sound /\ Answered /\ Away /\ [Next]_vars => Away'
<1> SUFFICES ASSUME Sound, Answered, Away, [Next]_vars,
                    NEW p \in Phones, NEW r \in Rooms, NEW a \in Users,
                    p \notin late', <<r, a>> \in bloc'[p].list
             PROVE  r \notin dropped'[p]
  BY DEF Away
<1>1. CASE bloc'[p].list = {}
  BY <1>1
<1>2. CASE bloc'[p] = bloc[p] /\ dropped'[p] = dropped[p] /\ p \notin late
  BY <1>2 DEF Away
<1>3. ASSUME NEW s \in Slots, FinishLoad(p, s) PROVE r \notin dropped'[p]
  <2>1. /\ <<r, a>> \in handler[p][s].list /\ <<p, s>> \notin early /\ dropped' = dropped
        /\ handler[p][s] # Idle /\ handler[p][s].kind = "load" /\ handler[p][s].pc = "answer"
    BY <1>3, FinishMoves
  <2>2. QED
    BY <2>1 DEF Answered
<1>4. QED
  BY <1>1, <1>2, <1>3, ListMoves

Deleting == Reading /\ OwnPages /\ Matching /\ Erasing /\ Erased /\ Dropped /\ Answered /\ Away

LEMMA DeletingAtFirst == Init => Deleting
<1> SUFFICES ASSUME Init PROVE Deleting
  OBVIOUS
<1>1. Reading
  BY ReadingAtFirst
<1>2. OwnPages
  BY DEF Init, OwnPages, Page
<1>3. Matching /\ Erasing
  BY DEF Init, Matching, Erasing
<1>4. Erased /\ Answered
  BY DEF Init, Erased, Deleted, Answered
<1>5. Dropped /\ Away
  BY DEF Init, Dropped, Away
<1>6. QED
  BY <1>1, <1>2, <1>3, <1>4, <1>5 DEF Deleting

LEMMA DeletingPreserved == Deleting /\ [Next]_vars => Deleting'
<1> SUFFICES ASSUME Deleting, [Next]_vars PROVE Deleting'
  OBVIOUS
<1>1. /\ Reading /\ Sound /\ Fresh /\ Quiet /\ LoadsRead /\ OwnLists /\ OwnPages /\ Matching
      /\ Erasing /\ Erased /\ Dropped /\ Answered /\ Away
  BY DEF Deleting, Reading
<1>2. Reading' /\ OwnPages' /\ Matching' /\ Erasing'
  BY <1>1, ReadingPreserved, OwnPagesPreserved, MatchingPreserved, ErasingPreserved
<1>3. Erased' /\ Dropped' /\ Answered' /\ Away'
  BY <1>1, ErasedPreserved, DroppedPreserved, AnsweredPreserved, AwayPreserved
<1>4. QED
  BY <1>2, <1>3 DEF Deleting

\* Theorem 2.  DroppedNotListed: a group whose deletion was reported on a phone
\* to the account that asked for it is not listed there again, from the server
\* or from the cache, unless by a load that was answered before the report.
THEOREM DroppedStayAway == Spec => []DroppedNotListed
<1>1. Deleting => DroppedNotListed
  <2> SUFFICES ASSUME Deleting, NEW p \in Phones \ late, NEW ra \in bloc[p].list
               PROVE  ra[1] \notin dropped[p]
    BY DEF DroppedNotListed
  <2>1. PICK r \in Rooms, a \in Users : ra = <<r, a>>
    BY DEF Deleting, Reading, Sound, TypeOK
  <2>2. QED
    BY <2>1 DEF Deleting, Away
<1>2. QED
  BY <1>1, DeletingAtFirst, DeletingPreserved, PTL DEF Spec
=============================================================================
