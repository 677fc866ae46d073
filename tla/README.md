# TLA+ verification of MinimalChatApp

The repository is a Flutter chat application on Firebase. Its own code is
`lib/` (about 14 000 lines of Dart in 114 files); everything else is vendored
(`ios/Pods`, `functions/node_modules`), generated (the platform runners) or
assets. `functions/index.js` is commented out entirely, there are no Firestore
rules in the repository, and `test/widget_test.dart` is the untouched template
of a counter application. All logic is client side: bloc event handlers that
read and write Firestore documents, with no server code to keep them apart.
What is hard in this code is therefore what happens *between two awaits*.

## 1. Inventory

| Part | Files | State it keeps | Operations | What makes it hard, what makes it correct |
|---|---|---|---|---|
| Friend requests | `Bloc/friendRequest/*`, `pages/screen/profile_page.dart`, `friend_request_screen.dart`, the menu of `Chat/chat_page.dart` | two copies of each request (`users/A/friendRequests/B`, `users/B/friendRequests/A`), `users/A/friends/B`, the bloc's state | send, accept, reject, cancel, remove, check, load | two awaited writes per event, handlers run concurrently, two phones, offline queue and restarts. The copies must agree, friendship must be mutual and come from a request, a spinner must stop |
| User lists and blocking | `Bloc/userBloc/*`, `services/chat_services.dart:178-360`, `pages/Drawer/blocked_users.dart`, `pages/screen/users.dart` | `users/A/BlockedUsers/B`, the list shown | load lists, block, unblock, own profile, delete profile | two writes per block, unblock removes both sides, lists built from the first snapshot, which may be the cache's. three blocs of the same class, of which the page of blocked users shows one and its dialog another. The two sides agree, a finished block stands and its victim is off the list of chats, a finished unblock brings him back |
| Groups | `Bloc/GroupChatBloc/*`, `Bloc/GroupInfoBloc/*`, `pages/Chat/groupchat.dart/*`, `chat_services.dart` (`addMembersToChatRoom`) | `chatRooms/G` with admin and member ids, selection list of the page | create, load, add members (transaction), rename, change picture, delete, leave (empty) | concurrent read-modify-write, stale admin id, a list of ticks that outlives page and account. Members only grow until a deletion, which is final; the list never stays a spinner and never says without a reason that there are no groups |
| Messages | `services/chat_services.dart:28-176`, `Bloc/chatBloc/*`, `pages/Chat/*` | `chat_rooms/A_B/messages` | send text and image, report, delete, stream | client clock order, two phones naming one room, cleared text field, one input picture for all chats. Nothing is lost without a reason, nothing removed comes back, own messages keep their order |
| Session | `services/auth_services.dart`, `Bloc/loginbloc`, `Bloc/Signupbloc`, `pages/Login&signUp/*`, `SplashScreen&onBoard/*`, `constants/Sharedpreferences`, `Api/firebase_api.dart`, `Drawer/customDrawer.dart`, `screen/settings.dart` | signed-in Firebase user, the flags on disk, the user's document, push token | sign up, verify e-mail, log in, Google, start, log out, delete account | several stores changed one after the other without awaiting, restart in between |
| Connectivity | `Bloc/internetBloc/*`, listeners of `splashScreen`, `base`, `sign_inpage` | connection state, navigation stack | check, listen, push and pop the "no internet" page | duplicated events, a pop that removes another page |
| Stories | `Bloc/StoriesBloc`, `Bloc/fetchStoryBloc`, `pages/screen/stories.dart` | `stories/U` with a list of urls, files in storage | upload, fetch | file names of four random digits, upload then document, fixed delay before the fetch |
| Profile, password, picture | `Bloc/profileImagebloc`, `Bloc/passwordbloc`, `Bloc/ImagePicker`, `pages/Drawer/*` | profile document, picture | load, upload, change password | states that are never left |
| Fingerprint and face | `Bloc/biometricBloc`, `pages/Drawer/biometric.dart`, `face_authentication.dart`, `recognition_screen.dart`, `registration_screen.dart`, `sign_inpage.dart:80-133` | stored credentials, authentication state | register, authenticate, clear | state read right after an event was added |
| Premium, theme, notifications, widgets, startup | the remaining files | little or none | | display only, empty handlers or commented-out code |

The parts meet in Firestore (one user's bloc writes into documents another
user's bloc reads), in the blocs of `lib/main.dart:98-154`, which live as long
as the application and are shared by all pages, and in the navigation stack.

## 2. Plan

Each module is one component with the other phones, the Firestore client and
process death around it; nothing in the program ties two components together by
more than a page that opens another, so they are checked one at a time.

1. `FriendRequests` with `Friendship`, `FriendRequestsProofs` and `CopiesProofs`: the
   only protocol between users with an answer to every step. Done.
2. `Session` with `SessionProofs` and `SessionDataProofs`: sign-up, log-in, start,
   log-out and account deletion. Done.
3. `Blocking`: block and unblock from both sides, and the lists computed from
   several reads. Done, with `BlockingProofs`.
4. `GroupChat` with `Membership`, `GroupChatProofs` and `GroupListsProofs`: groups
   with several admins' phones, accounts sharing a phone, the transaction of
   `addMembersToChatRoom`. Done.
5. `Messaging`: texts, pictures, removals, and what each phone lists. Done, with `MessagingProofs`.
6. Left out, with the reasons in section 6: screens without a protocol, the
   connection page, stories, profile, fingerprint and face.

## 3. Modules

All modules share one picture of the phone. The Firestore client is outside
`src/lib`; it is modelled from how the code relies on it. `queue[u]` holds the
writes of a phone in order; `CommitHead` and `RefuseHead` are the server taking or
refusing the oldest one and completing its `Future`; reads show the queued writes
over the stored documents; a transaction is never queued. A handler is one action
up to its first await and one for each continuation, with everything a
continuation calls in it. `Crash` is the process being killed: handlers are gone,
queued writes stay and are sent after the restart with nobody waiting for them.
What users do and what goes wrong is data (`Kinds`, `Taps`, `Plans`), so one
specification serves every run and the theorems hold for all of it.

**FriendRequests.** `req[<<o, f>>]` is the document `users/o/friendRequests/f`,
`friends` the set of documents of the `friends` collections, `handler[u][s]` a
running event handler (slot `s` of phone `u`), `bloc[u]` the last emitted state. A
handler of `FriendRequestBloc` is `AddWrite`, `WriteSecond`, `StartTxn`,
`CommitTxn`/`FailTxn` and `FinishWrite`. `AddCheck`, `AddLoad`, `Answer*` and
`FinishRead` are the two reading handlers. `suspect` and `clean` are history
variables used by `CopiesAgree` only: a pair becomes suspect when two handlers
meet on it, when a crash interrupts one, or when the second write is refused, and
it is cleared when a handler that met no other has written both copies.
`AddLoad` reads the blocked users and the profiles before the requests, which are
documents of other modules: `AnswerPending` is one step for the three reads and
leaves out any set of blocked users.

**Friendship.** What the protocol promises: a pair asks, then becomes friends in
one step seen from both sides, then stops being friends; nothing that was asked
is forgotten. `ImplementsFriendship` is the refinement.

**Session.** One phone and the accounts its user signs up, in and out of.
Who is logged in is kept in four places that are changed one after the other:

| Variable | Code |
|---|---|
| `status`, `verified` | the account at Firebase Auth; absent, alive or retired (deleted for good) |
| `docs` | the name in `users/<uid>` |
| `user`, `seen`, `leaving` | `FirebaseAuth.instance.currentUser`, its field `emailVerified`, a `signOut()` that was called and has not run |
| `prefs`, `disk` | SharedPreferences in memory and on the device: the flag `KEYLOGIN` and the name |
| `page`, `login`, `signup` | the page in front, the states of `LoginBloc` and `SignupBloc` |
| `op[k][a]` | the await at which the handler `k` for account `a` stands |
| `queue`, `tokens` | writes the Firestore client has not had answered; push tokens being fetched by `Base` |

A handler is a `Tap...` action up to its first await and one `Answer...`,
`Finish...` or `Fail...` action for each continuation. What a continuation calls
without awaiting (the document of a new account, `signOut`, `saveName`) shows as a
queued write, as `leaving`, or as `prefs` ahead of `disk`. `user.delete()` goes by
the current user alone (`RetireUser`): when another account signed in while the
deletion of `a` waited, that one is deleted, and the deletion of `a` reported.
Firebase's re-authentication does compare the accounts (`AnswerReauth`), but it
comes first and sees no later change. An await that only goes
to the local preferences, or from one call to the next, is not a step of its own;
being killed there is (`KilledAfterCreate`, `KilledAfterRetire`). The user object
that `_checkEmailVerification` read before `reload` is kept as the step it waits
at, `reloadSeen` or `reloadStale`. History variables: `excuse` says why the flag may
be set without a user (the account was deleted, a handler outlived the log-out,
the app was killed before the cleared flag was on disk), `mixed` the accounts for
which two handlers met, `deleted` the reported deletions, `crossed` the accounts
during whose deletion another one signed in, `asked` the checks started after the
verification.

**Blocking.** `blocked` holds the documents `users/a/BlockedUsers/b`, `cache[u]` what
a phone has stored of its own. There are three `UserBloc`s on a phone: the app-wide
one of `main.dart:107`, one made with the main page for the list of chats
(`chat_screen.dart:308`), and one made with the page of blocked users
(`customDrawer.dart:148-153`). Dialogs are built under the root navigator, so
`BlockUserEvent`, `UnBlockUserEvent` and the reload next to it go to the app-wide
bloc, whose writing handlers are `handler[u][s]`. What it loads is shown by neither
page; `loading` says that it does, which matters for the cache only (`Load`).
`chats[u]` is the list of chats with the step of its read, `page[u]` the page of
blocked users with its own, or closed. A block is `AddBlock` (the menu of a chat),
`WriteFirst`, `WriteSecond` and `FinishBlock`, an unblock `AddUnblock`, the same two
writes and `FinishUnblock`; the page keeps its old list meanwhile, so the same user
can be unblocked twice. Both ends (`Finish`) replace every page by a new main page
when they succeeded. The lists are read with `snapshots().first`, whose first answer
comes from the cache when there is one: `FirstSnapshot`. History variables:
`suspect` and `clean` as in `FriendRequests`; `shield` and `free` the blocks and the
unblocks reported as done that nobody has started to undo.

**GroupChat.** `rooms[r]` is the document `chatRooms/r` (members, admin), `queue[p][u]`
the writes of account `u` on phone `p` (sent only while it is logged in), `owner[p]`
the uid `GroupchatBloc` read when it was made, `ticks[p]` the list
`_selectedMemberIds`, which lives outside every page and is never cleared,
`handler[p][s]` a running handler with the group, the members and the document its
transaction read. `Save`, `Delete` and `Rename` go through the queue,
`AddMembers`/`TxnGet`/`TxnCommit` through a transaction that commits only the
document it read. `Drawn` is what the tab of groups shows for a state of the bloc:
every state it does not know gives "No Rooms Created Yet.". A rename reads the name
back after its update; when that read fails the list is not loaded (`FailQuietly`).
Several accounts can use one phone one after the other. History variables: `added`
and `dropped` are what was reported (a deletion only to the account that asked for
it), `dead` and `used` the groups deleted and made; `early`/`late`
follow a load that was answered before a deletion was reported, `foreign` an account
that left under a running handler, until the list is opened with none running.

**Membership.** What groups promise about their members: made once, only growing,
gone for good when deleted. `ImplementsMembership` is the refinement.

**Messaging.** `msg[m]` is a message and where its handler stands: `put` and `url`
(the upload of a picture), `get` (the read of a user document before the add),
`wait` (the add is queued), `orphan` (as `wait`, the app died since), `sent`, `lost`.
`store` holds the documents of the collections, `Listed(u, c)` what a phone shows of
chat `c`: its queued writes over the collection. `Room` is the collection both ends
compute from the sorted ids; `RemoveRoom` what `deleteMessage` computes, which is
the same for two users and not for a group. `picked[u]` is the picture in the one
`ChatBloc` of the app, `objects` the storage under its drawn names. History
variables: `before` which message was written after which, `reported` and `gone`
the removals a phone announced and the server took, `clash` names drawn twice.

**...Proofs.** The theorems about each, section 5.
**MCFriendRequests**, **MCSession**, **MCBlocking**, **MCGroupChat**,
**MCMessaging.** The events, taps and scenarios of the runs.

## 4. Runs

| Run | Instance | Shows |
|---|---|---|
| friends | 2 users, 1 handler each, send/accept/cancel/remove, 1 orphaned write | types, `CopiesAgree`, `WritesOwned`, `DocsWritten`, `FriendsSymmetric`, `FriendsHaveRequests`, the refinement of `Friendship` |
| overlap | 2 users, 2 handlers each (symmetric), send/reject | `CopiesAgree` and `SpinnerHasHandler` with two handlers on one phone |
| live | 2 users, 1 handler each, send/cancel/check/load, fair | `HandlersFinish`, `SpinnerStops` |
| divergence | 2 users, send/accept/cancel | finding: the copies may be apart with nothing running or queued |
| password | 1 account with a password, everything it can do, fair | types, `UserBehindPages`, `DeletedIsGone`, `ThroughVerified`, `LoginAnswers` |
| accounts | 1 password and 1 Google account, everything but the log-in with the password and the log-out, 2 queued writes | `DocNameOwn`, `DeletedIsGone`, `AnswersOwned` with sign-up, Google log-in and deletion overlapping, a deletion that finds another current user included |
| opened | 1 account, sign-up/log-in/erase | finding: after a deletion the next start opens the main page with no user |
| redirect | 1 account, sign-up/continue/log-in/log-out | finding: Continue after the verification does not redirect |
| blocking | 2 users, 2 handlers each (symmetric), three scenarios | types, `SidesAgree`, `BlockStands`, `UnblockStands` |
| blocking_stale | 2 users, block and refresh | finding: the list of chats shows a user with whom a block is stored |
| groups | 3 users, 2 phones, 2 groups, 2 handlers each, five scenarios | types, `AddedStay`, `AdminIsMember`, `ListIsMine`, `DroppedNotListed`, `ListSettles`, the refinement of `Membership` |
| messages | 2 users, 1 group, 3 messages, 2 pictures, 2 names, three scenarios | types, `SentIsListed`, `ReportedIsGone`, `OwnOrder`, `PictureShown` |

A scenario (`Plans`) says what each user does and which faults happen on which
phone. It is chosen in the initial state and stays, so a run checks every
behaviour of every one of its scenarios; together they contain every action.

Bounds, and why they are enough.

* Two users are one pair, and every property of `FriendRequests` and `Blocking` is
  about one pair; handlers on different pairs share only the bloc state and the
  order of the queue, which two users already exercise. One handler per phone
  gives all interleavings of the two phones, two those of a second tap, a
  re-opened page, or an event a page adds next to another.
* `MaxOrphans` (a guard of `Crash`) limits how many writes of killed handlers one
  queue keeps; one is enough for a replayed write to meet a newer handler.
* `MaxQueue` limits the writes an account has queued in `Session` and `GroupChat`.
  Two let a write wait behind an older one, and behind a deletion.
* `Session`: one handler of a kind per account; a second tap for the same account
  meets the same server state. The flag, the pages and the deletion by password
  concern the current user only; names, Google log-ins and deletions that meet
  another sign-in involve two accounts. There a Google log-in and a sign-up change
  the current user, so the log-in with a password and the log-out are left to the
  run with one account. TLC tells the states of that run apart by the view
  `Relevant`: all variables but `signup`, `excuse` and `asked`, which no guard and
  no property of the run reads.
  With one Google account the dialog of the deletion cannot answer with another
  Google account; the action allows it and the theorems include it.
* `GroupChat`: two groups are enough for a list with more than one, and for the
  leftover ticks to reach the second; the third user is the one who is only ever
  added. `Rooms` bounds the groups made.
* `Messaging`: three messages are two of one author and one that comes between or
  answers. Two pictures and two names let an upload overwrite another. The server
  takes one removal per message. Every message has its own id, as in Firestore.

Deadlock is checked in `FriendRequests` and `Session`. The other passing runs end where
their scenario ends (all messages written, nothing left to do on a phone), so it
is off there.

Fairness. `FairSpec` of `Session` assumes only that a log-in with a password gets
an answer or an error at each of its two calls, both of which have a timeout in
the client. Nothing is assumed about Google (its dialog can stay open) or the
writes of the queue. `FairSpec` of `FriendRequests` assumes that a phone with
queued writes is served in the end (the Firestore client retries for ever) and
that a started handler is continued (the Dart event loop is first come, first
served). It assumes nothing about which answer comes: refusals and failed reads
are always possible. `ListSettles` states for groups what holds without fairness:
once nothing runs, the tab draws an answer.

Known limits of the code that the properties exempt by name, so that a reader does
not take them for guarantees: a request pair touched by two overlapping handlers
(`suspect`, also for blocks); an account whose Google log-in met its deletion
(`mixed`); an account during whose deletion another one signed in, which is then
deleted in its place (`crossed`; without it TLC finds `DeletedIsGone` violated in
the accounts run); a group made
on a phone that two accounts share, whose admin may be the other account
(`Shares`); a list answered before a deletion or a change of account (`late`,
`foreign`); a failed load of groups or a failed addition of members, which the tab
draws as having no groups (`ListSettles` names both); a message of a group, which is
reported as deleted and stays, because `deleteMessage` looks for it in `chat_rooms/<pair>` (`ReportedIsGone` speaks of two
users); texts to a group, whose timestamps follow the answers of their reads
(`OwnOrder` orders them after what was listed); a picture name drawn twice
(`clash`).

## 5. Proofs

Each theorem holds for every value of the constants that the `ASSUME`s of its
module allow.

**FriendRequestsProofs**, any `Users`, `Slots`, `Kinds` and `MaxOrphans`: types
(`TypeCorrect`), `WritesOwned`, `DocsWritten`, `FriendsSymmetric`,
`FriendsHaveRequests` and `ImplementsFriendship`. `FriendsHaveRequests` is not
inductive: the transaction relies on both copies being there, which is what the
handler's position says (`DocsWritten`); that position is right only if the answer
that moved the handler on was the answer to its own write (`WritesOwned`): a queue
holds at most one write of a living handler, for the document the handler is at.
`WritesOwned` is inductive with the types. The refinement follows: only the server
adds a document, only one at a time and it never deletes one (`AskedChange`), and
only the transaction changes `friends`, always both entries of one pair
(`GraphChange`).

**CopiesProofs**, over the same constants and on top of the two theorems `TypeCorrect`
and `AnswersReachTheirHandler`: `CopiesAgree` (`CopiesStayEqual`) and
`SpinnerHasHandler` (`SpinnerIsServed`). `CopiesAgree` says nothing while a handler
runs, so `History` says what each handler has done so far.

* `Alone`: a handler still in `clean` is the only one on its pair, and no leftover
  write is of the pair. `Effective`: what such a handler was told it wrote is what
  the copies say, since nobody else could have changed them.
* `Trusted`: on a pair that is not suspect every handler is clean. `OrphansSuspect`:
  what a restart left behind made its pair suspect.
* `Agreeing`: the copies of a pair that is not suspect agree until a handler has the
  answer to its first write; its end, by `Effective`, makes them agree again.
* Every other step (`Steady`) changes no copy and tells no handler that it wrote one.

`SpinnerHasHandler` is inductive with the types: `FinalState` and `CheckResult` show
no spinner, and no handler ends by another step.

**SessionProofs**, any `Accounts`, `GoogleAccounts`, `Taps` and `MaxQueue`: types
(`TypeCorrect`), `AnswersOwned`, `UserBehindPages`. That the flag and the pages have a
user is not inductive: a handler that has passed its sign-in will set the flag and
open the main page later, and a `signOut` on its way will take the user away.
`UserBehindPages` says both: such a handler (`Advanced`) has a user, and while a
log-out without an excuse is on its way the flag is clear, the page is the sign-in
or sign-up page and no handler is advanced. A step of the server could still
advance a handler; `AnswersOwned` excludes it, because an answer only ever moves a
handler that waited for it, which was advanced already.

**SessionDataProofs**, over the same constants and on top of `TypeCorrect` and
`AnswersReachTheirHandler`: `ThroughVerified` (`OnlyVerifiedPass`), `DocNameOwn`
(`NamesAreOwn`) and `DeletedIsGone` (`DeletedStaysGone`). Each asks what one step
can do to one store, so lemmas say it once: who moves a handler (`OpMoves`), who
queues a write (`QueueMoves`), who changes the name on the phone (`NameMoves`).

* `SeenTrue`: a user object, and a check that read it, say verified only of an
  account the server knows as verified; the page lets through no other check.
* `Named`: a sign-up that nobody disturbed finds its own name on the phone when its
  account is there. With it every queued set has the name of its owner.
* `Gone`: after the delete in the queue no set of the same account follows
  (`LastWord`), so nothing is left when it was applied (`Emptied`). A deletion
  that no other sign-in met finds its own account, or nobody, as the current user
  (`Uncrossed`), so a password account is retired before its delete is queued
  (`Retired`); a Google account has no log-in on its way (`Apart`), and a retired
  account gets neither a sign-up nor a sign-in, so what is empty stays so
  (`NothingLeft`).

**GroupChatProofs**, any `Users`, `Phones`, `Rooms`, `Slots`, `Plans` and `MaxQueue`:
types (`TypeCorrect`), the refinement of `Membership` (`Refinement`), `AddedStay`
(`AdditionsStay`), `AdminIsMember` (`AdminStays`), `ListSettles` (`ListAnswered`).

* `Sound` is the types with what they rest on: a page of groups has a bloc with a
  user (`PagesGrounded`), a running handler has one and its group
  (`HandlersGrounded`), and a queued write with a slot belongs to the handler that
  waits there and is its only one (`Owned`), so that an answer never moves another.
* `Fresh`: a group is in a queue to be made only before it is on the server, and
  only once in all queues. With it a step of the server makes, grows or deletes at
  most one group and never brings one back (`GroupStep`), which is the refinement.
* `AddedStay` adds `Settled`: a handler about to report members has them in the
  group. The transaction gives it to an addition, `Fresh` to a creation, and
  `GroupStep` keeps both.
* `AdminIsMember` adds `Headed`: documents that are planned or queued already have
  their admin among the members, because a phone of one account made its bloc for
  that account.
* `ListSettles` adds `Expected`: a list without an answer has a handler that will
  give one, and that handler is not taken away by any other. What is drawn follows
  from the state (`Drawn`).

**GroupListsProofs**, over the same constants and on top of `Sound` and `Fresh`:
`ListIsMine` (`ListsAreOwn`) and `DroppedNotListed` (`DroppedStayAway`). Both relate
what a phone shows to documents other phones change meanwhile. So the invariants
speak of a group only through facts that no step takes back, whoever takes it: it
will not be made any more (`Placed`), it is gone for good (`Void`), also from the
cache of a phone (`Wiped`), a document of it was there before (`Known`), a user is a
member or will be when it is made (`Belongs`), only one account can still make it
(`OnlyBy`). The lemmas `PlacedLasts` to `WipedLasts` say so once; what remains is
where a list, a page or a handler comes from (`ListMoves`, `PageMoves`, `LoadMoves`,
`WaitsFrom`, `DeletedMoves`).

* `Stored`: what a phone has in its cache is `Known`. So what an account sees online,
  offline or in its own queue is one of its groups (`SeenIsMine`), and never one that
  is `Wiped` (`SeenIsThere`). The last queued write decides what is seen, which needs
  that a finite set of places has a last one (`Last`).
* `ListIsMine` adds that a load runs for the account that is logged in and found
  groups of it (`OwnLoads`), and so does the list (`OwnLists`). That is false once a
  handler outlived a log-out, which is what `foreign` remembers; `Quiet`: no other
  handler waits on a phone nobody is logged in on.
* `DroppedNotListed` adds, for a deletion that is asked, queued and answered in this
  order: the group of an open page can only be made by the account there
  (`OwnPages`), so in the queue its creation comes before the deletion (`Erasing`);
  when the server has taken the deletion nothing can make the group again
  (`Erased`), so it is wiped when that is reported (`Dropped`), and a load answered
  afterwards can not find it (`Answered`, `Away`). `Erasing` fails for a deletion
  whose account changed under it and `Answered` for a load that was answered before,
  so both are exempt.

**BlockingProofs**, any `Users`, `Slots`, `Plans` and `MaxOrphans`: types
(`TypeCorrect`), `SidesAgree` (`BlockSides`), `BlockStands` (`BlocksStand`),
`UnblockStands` (`UnblocksStand`). Every action is one of six kinds as far as writes
go (`Calm`, `Sends`, `Answers`, `Begins`, `Ends`, `Dies`), and each part of the
invariant is shown for the kinds.

* `Owned`: a queued write is the one its handler waits for, and its only one, or of
  a handler that died.
* `SidesAgree` says nothing while a handler runs, so it is not inductive. `Alone`,
  `Effective`, `Trusted`, `Agreeing` and `OrphansSuspect` strengthen it as they do
  `CopiesAgree` in `CopiesProofs`, for the documents of a block and the phone's cache
  of its own.
* `BlockStands` and `UnblockStands` add `Standing`, for the two kinds at once: what
  was finished is so on both sides and in the phone's cache, and every write and
  handler of the pair is of the same kind. So what a list reads agrees with it, from
  the server or from the cache under the queue. `Hidden` follows a list of chats to
  the screen after a block, `Omitted` the page of blocked users and `Offered` the
  list of chats after an unblock.

**MessagingProofs**, any `Users`, `Groups`, `Ids`, `Pictures`, `Names` and `Plans`: types
(`TypeCorrect`), `SentIsListed` (`MessagesArrive`), `ReportedIsGone` (`RemovalsStay`),
`OwnOrder` (`AuthorsOrder`), `PictureShown` (`PicturesStay`).

* `QueueSound` and `QueueOnce`: a queued write is of a message of that phone, for the
  collection its handler computed; a message is added once and removed once, in
  that order. `AddQueued`: a message waiting for its add has it in the queue.
* `StoreSound`: the server holds what it took and did not remove, in the collection
  of both ends. With the three above, what a phone lists is what was sent, and a
  removal that was reported leaves no add behind it that could bring a text back.
* `Ordered`: a message that was followed by another of its author has its final
  timestamp, and no timestamp is ahead of its phone's clock; the next one is later
  although the reads before the adds are answered in any order.
* `Drawn`: two messages share a number only when it is known to clash, so an object
  in the storage is overwritten by no other picture.

Every invariant of a run and every refinement has its theorem. Only model-checked:
the liveness properties (fairness is out of the prover's reach).

## 6. Not modelled

* Friend screens (`profile_page.dart`, `friend_request_screen.dart`): layout over
  `FriendRequests`, which lets a user add any of their events at any time. The
  pairing by index of two queries is described under the hazards; no text of the
  repository says what it should show.
* Connection: `base.dart:85` pops whatever page is on top. What is popped depends
  on the stack of all pages of the program, most of which have no other state.
* Stories: no page opens the tab in this commit (`base.dart:71`), so none of its
  states is one the program can be in.
* Profile, password, picture: one awaited write or upload behind a button each,
  with nothing that runs against it.
* Fingerprint and face: recognition is the platform and an image model; what is
  left of `BiometricBloc` is a flag read before it is set. The log-in it starts
  is the one of `Session`.
* Premium, themes, widgets, start-up: no protocol. `GroupMessage` and
  `NotificationBloc` are empty or unused.
* Reports and push messages: one write or call that nobody reads or awaits. The
  list of a group's members (`see_members.dart`): one read. `SendMessage` and
  `LoadMessages` of `ChatBloc`: no page adds their events. Leaving a group is an
  empty tap. `_onStartListeningForFriendRequests`: no code adds its event.
* In `FriendRequests`, reads from the cache of a phone without a network; there a
  read sees the server with the phone's own writes over it, or fails. `Blocking`
  and `GroupChat` have the cache.
* In `Session`: a second phone of the same account, wrong passwords as distinct
  from other failures, contact, e-mail address and picture (kept with the name),
  the fingerprint log-in. A failed Google log-in leaves the spinner of the sign-in
  button, as in the code, so liveness is claimed of the password log-in only.
* In `Messaging`: the clocks of two phones are not compared, since nothing in the
  code relates them; pages of a chat that was left; the text itself.
* In `Blocking`: the pages that show the state of the app-wide `UserBloc` (the ticks
  of a new group, new members, the members of a group), which any load of it
  replaces.
* In `GroupChat`: the name and the picture of a group, which an update changes
  (`Rename`) and no property tells apart.
* The fields of documents no handler reads; security rules, which the repository
  does not contain: a refusal is possible where a scenario says so.
* Code that is not the application's: `ios/Pods`, the platform runners,
  `functions/node_modules`; `functions/index.js` is commented out entirely and the
  test is the template of another application. Nearly all lines of the repository
  are of this kind.
