------------------------------ MODULE Session ------------------------------
(***************************************************************************)
(* Who is logged in on a phone: sign-up, e-mail verification, log-in with  *)
(* a password or with Google, start of the app, log-out and account        *)
(* deletion (services/auth_services.dart, Bloc/loginbloc, Bloc/Signupbloc, *)
(* the deletion handlers of Bloc/userBloc, the pages that add the events). *)
(*                                                                         *)
(* The answer is spread over stores that are changed one after the other,  *)
(* most of them without awaiting: the user object of Firebase Auth (user), *)
(* the flag `login` and the name in SharedPreferences (prefs in memory,    *)
(* disk on the device), the account and its document on the server.  The   *)
(* splash screen decides by the flag alone; the pages behind it rely on    *)
(* the user object.                                                        *)
(*                                                                         *)
(* External: Firebase Auth (an operation acts on the phone's current user, *)
(* a User object read earlier keeps its old fields after reload), the      *)
(* Firestore client (a queue of writes that survives a restart, laid over  *)
(* what is read), SharedPreferences (memory at once, disk later).          *)
(*                                                                         *)
(* An account is a uid; a person who deleted one does not get it back.     *)
(* Passwords, e-mail addresses, contact and picture are left out: they are *)
(* saved and cleared together with the name.                               *)
(***************************************************************************)
EXTENDS Integers, Sequences, FiniteSets

CONSTANTS
    Accounts,        \* uids; an account stands for its owner's name as well
    GoogleAccounts,  \* those that sign in with Google
    NoUser,          \* no current user; also the null of a name
    NoDoc,           \* a document that does not exist
    Taps,            \* what the user does in a run
    MaxQueue         \* bound: writes the phone queues

ASSUME GoogleAssumption == GoogleAccounts \subseteq Accounts
ASSUME NullAssumption == NoUser \notin Accounts /\ NoDoc \notin Accounts \cup {NoUser}
ASSUME QueueAssumption == MaxQueue \in Nat

VARIABLES
    status,    \* status[a]: the account on the server, absent, alive or retired
    verified,  \* accounts whose e-mail address the server knows as verified
    docs,      \* docs[a]: the name in the document users/a
    user,      \* FirebaseAuth.instance.currentUser
    seen,      \* the field emailVerified of that object
    leaving,   \* signOut was called and has not run yet
    queue,     \* writes the server has not processed
    prefs,     \* SharedPreferences in memory
    disk,      \* SharedPreferences on the device
    page,      \* the page in front
    login,     \* the state of LoginBloc
    signup,    \* the state of SignupBloc
    op,        \* op[k][a]: the step the handler k for account a waits at
    tokens,    \* accounts whose push token is being fetched (saveUserToken)
    excuse,    \* history: why the flag may be set without a user
    mixed,     \* history: accounts two handlers of which met (names, documents)
    deleted,   \* history: accounts whose deletion was reported
    crossed,   \* history: accounts whose deletion another account's sign-in met
    asked      \* history: checks that were started after the verification

server == <<status, verified, docs>>
auth == <<user, seen, leaving>>
local == <<prefs, disk>>
screen == <<page, login, signup>>
history == <<excuse, mixed, deleted, crossed, asked>>
vars == <<status, verified, docs, user, seen, leaving, queue, prefs, disk,
          page, login, signup, op, tokens, excuse, mixed, deleted, crossed, asked>>

Tapped == {"login", "google", "signup", "continue", "logout", "erase"}
ASSUME TapsAssumption == Taps \subseteq Tapped

EmailAccounts == Accounts \ GoogleAccounts
OpKinds == {"login", "google", "signup", "verify", "erase", "eraseGoogle"}
Steps == {"idle", "signIn", "readDoc", "create", "reloadSeen",
          "reloadStale", "reauth", "dropUser", "wait", "done",
          "refused"}
Pages == {"Splash", "SignIn", "SignUp", "Verify", "Base", "Settings"}
Prefs == [login : BOOLEAN, name : Accounts \cup {NoUser}]
Writes == [op : {"set", "update", "delete"}, acct : Accounts,
           name : Accounts \cup {NoUser}, by : OpKinds \cup {"nobody"}]

At(k, a, step) == op[k][a] = step
Goto(k, a, step) == op' = [op EXCEPT ![k][a] = step]
InFlight == {ka \in OpKinds \X Accounts : op[ka[1]][ka[2]] # "idle"}

(***************************************************************************)
(* The Firestore client.                                                   *)
(***************************************************************************)
Write(o, a, n, k) == [op |-> o, acct |-> a, name |-> n, by |-> k]
Enqueue(w) == Len(queue) < MaxQueue /\ queue' = Append(queue, w)

\* The queued sets and deletes of users/a, the last of which is what is read.
Overlay(a) == {i \in DOMAIN queue : queue[i].acct = a /\ queue[i].op # "update"}
SeenDoc(a) ==
    IF Overlay(a) = {} THEN docs[a]
    ELSE LET i == CHOOSE i \in Overlay(a) : \A j \in Overlay(a) : j <= i
         IN  IF queue[i].op = "set" THEN queue[i].name ELSE NoDoc

(***************************************************************************)
(* Steps shared by several handlers.                                       *)
(***************************************************************************)
\* saveName, saveStatus and clearData change the memory at once.
Saved(flag, n) == prefs' = [login |-> flag, name |-> n] /\ UNCHANGED disk

\* The sign-ups, other than a's own, that have not read the name yet.
Unread == {b \in Accounts : At("signup", b, "create")}

\* The deletions that are about to delete whoever is the current user.
Deleting(a) == At("erase", a, "dropUser") \/ op["eraseGoogle"][a] \in {"wait", "done"}

\* Firebase Auth completes a sign-in; a log-out called before it has run.
SignsIn(a, v) ==
    /\ ~leaving
    /\ user' = a /\ seen' = v
    /\ excuse' = "none"
    /\ crossed' = crossed \cup {b \in Accounts \ {a} : Deleting(b)}
    /\ UNCHANGED <<leaving, asked>>

\* Base.initState: the push token is fetched for the user of this moment.
Opens(u) == page' = "Base" /\ tokens' = tokens \cup ({u} \ {NoUser})

\* Mutant: a name is saved whether or not the document exists.
WelcomeUnchecked(n) ==
    /\ Saved(TRUE, n)
    /\ mixed' = mixed \cup Unread
    /\ login' = "Success"
    /\ IF page = "SignIn" THEN Opens(user) ELSE UNCHANGED <<page, tokens>>
    /\ UNCHANGED <<server, auth, signup, excuse, deleted, crossed, asked>>

\* Only the sign-in page listens to LoginSuccessfullState.
Welcome(n) ==
    /\ Saved(TRUE, IF n \in Accounts THEN n ELSE prefs.name)
    /\ mixed' = IF n \in Accounts THEN mixed \cup Unread ELSE mixed
    /\ login' = "Success"
    /\ IF page = "SignIn" THEN Opens(user) ELSE UNCHANGED <<page, tokens>>
    /\ UNCHANGED <<server, auth, signup, excuse, deleted, crossed, asked>>

-----------------------------------------------------------------------------
Init ==
    /\ status = [a \in Accounts |-> "absent"]
    /\ verified = {}
    /\ docs = [a \in Accounts |-> NoDoc]
    /\ user = NoUser /\ seen = FALSE /\ leaving = FALSE
    /\ queue = << >>
    /\ prefs = [login |-> FALSE, name |-> NoUser]
    /\ disk = [login |-> FALSE, name |-> NoUser]
    /\ page = "Splash" /\ login = "Initial" /\ signup = "Initial"
    /\ op = [k \in OpKinds |-> [a \in Accounts |-> "idle"]]
    /\ tokens = {}
    /\ excuse = "none" /\ mixed = {} /\ deleted = {} /\ crossed = {} /\ asked = {}

(***************************************************************************)
(* Start and navigation.                                                   *)
(***************************************************************************)
\* The splash screen goes by the flag alone.
SplashDone ==
    /\ page = "Splash"
    /\ IF prefs.login THEN Opens(user) ELSE page' = "SignIn" /\ UNCHANGED tokens
    /\ UNCHANGED <<server, auth, local, queue, login, signup, op, history>>

Navigate ==
    /\ \/ page = "SignIn" /\ page' = "SignUp"
       \/ page = "SignUp" /\ page' = "SignIn"
       \/ page = "Verify" /\ page' = "SignUp"
       \/ page = "Base" /\ "erase" \in Taps /\ page' = "Settings"
       \/ page = "Settings" /\ page' = "Base"
    /\ UNCHANGED <<server, auth, local, queue, login, signup, op, tokens, history>>

(***************************************************************************)
(* Sign-up and verification.                                               *)
(***************************************************************************)
\* Mutant: the name is not saved before the account is created.
TapSignUpUnsaved(a) ==
    /\ "signup" \in Taps /\ page = "SignUp" /\ a \in EmailAccounts
    /\ At("signup", a, "idle")
    /\ Goto("signup", a, "create")
    /\ mixed' = mixed \cup Unread
    /\ UNCHANGED <<server, auth, local, queue, screen, tokens>>
    /\ UNCHANGED <<excuse, deleted, crossed, asked>>

\* The button is never disabled: sign-ups of two accounts can overlap.
TapSignUp(a) ==
    /\ "signup" \in Taps /\ page = "SignUp" /\ a \in EmailAccounts
    /\ At("signup", a, "idle")
    /\ Saved(prefs.login, a)
    /\ Goto("signup", a, "create")
    /\ mixed' = mixed \cup Unread
    /\ UNCHANGED <<server, auth, queue, screen, tokens, excuse, deleted, crossed, asked>>

\* The account exists; the document gets the name that is saved by now, is
\* not awaited, and the verification page replaces whatever is shown.
AnswerCreate(a) ==
    /\ At("signup", a, "create") /\ status[a] = "absent"
    /\ status' = [status EXCEPT ![a] = "alive"]
    /\ SignsIn(a, FALSE)
    /\ Enqueue(Write("set", a, prefs.name, "nobody"))
    /\ Goto("signup", a, "idle")
    /\ page' = "Verify" /\ signup' = "EmailSent"
    /\ UNCHANGED <<verified, docs, local, login, tokens, mixed, deleted>>

\* No account, or one whose creation the phone never learns of.
FailCreate(a) ==
    /\ At("signup", a, "create")
    /\ \/ UNCHANGED status
       \/ status[a] = "absent" /\ status' = [status EXCEPT ![a] = "alive"]
    /\ Goto("signup", a, "idle")
    /\ UNCHANGED <<verified, docs, auth, local, queue, screen, tokens, history>>

\* The owner of the address follows the link in the mail.
FollowLink(a) ==
    /\ a \in EmailAccounts /\ status[a] = "alive"
    /\ verified' = verified \cup {a}
    /\ UNCHANGED <<status, docs, auth, local, queue, screen, op, tokens, history>>

\* Continue sets the flag whatever the check will say; the check reads the
\* current user before it reloads it.
TapContinue ==
    /\ "continue" \in Taps /\ page = "Verify"
    /\ Saved(TRUE, prefs.name)
    /\ IF user = NoUser
       THEN signup' = "Error" /\ UNCHANGED <<op, asked>>
       ELSE /\ At("verify", user, "idle")
            /\ Goto("verify", user, IF seen THEN "reloadSeen" ELSE "reloadStale")
            /\ asked' = IF user \in verified THEN asked \cup {user} ELSE asked \ {user}
            /\ signup' = "Loading"
    /\ UNCHANGED <<server, auth, queue, page, login, tokens>>
    /\ UNCHANGED <<excuse, mixed, deleted, crossed>>

\* Mutant: the check does not look at emailVerified.
AnswerReloadUnchecked(a) ==
    /\ op["verify"][a] \in {"reloadSeen", "reloadStale"}
    /\ user = a /\ status[a] = "alive"
    /\ seen' = (a \in verified)
    /\ Saved(TRUE, prefs.name) /\ signup' = "Success"
    /\ IF page = "Verify" THEN Opens(user) ELSE UNCHANGED <<page, tokens>>
    /\ Goto("verify", a, "idle")
    /\ UNCHANGED <<server, user, leaving, queue, login, history>>

\* reload renews the current user; the check looks at the object it read.
AnswerReload(a) ==
    /\ op["verify"][a] \in {"reloadSeen", "reloadStale"}
    /\ user = a /\ status[a] = "alive"
    /\ seen' = (a \in verified)
    /\ IF At("verify", a, "reloadSeen")
       THEN /\ Saved(TRUE, prefs.name) /\ signup' = "Success"
            /\ IF page = "Verify" THEN Opens(user) ELSE UNCHANGED <<page, tokens>>
       ELSE signup' = "Error" /\ UNCHANGED <<local, page, tokens>>
    /\ Goto("verify", a, "idle")
    /\ UNCHANGED <<server, user, leaving, queue, login, history>>

\* reload throws and nothing catches it.
FailReload(a) ==
    /\ op["verify"][a] \in {"reloadSeen", "reloadStale"}
    /\ Goto("verify", a, "idle")
    /\ UNCHANGED <<server, auth, local, queue, screen, tokens, history>>

(***************************************************************************)
(* Log-in with a password.                                                 *)
(***************************************************************************)
\* The button is a spinner while the state is LoginLoadingState.
TapLogin(a) ==
    /\ "login" \in Taps /\ page = "SignIn" /\ login # "Loading"
    /\ a \in EmailAccounts /\ At("login", a, "idle")
    /\ login' = "Loading"
    /\ Goto("login", a, "signIn")
    /\ UNCHANGED <<server, auth, local, queue, page, signup, tokens, history>>

\* An empty field ends the handler before its first await.
TapLoginEmpty ==
    /\ "login" \in Taps /\ page = "SignIn" /\ login # "Loading"
    /\ login' = "Error"
    /\ UNCHANGED <<server, auth, local, queue, page, signup, op, tokens, history>>

AnswerSignIn(a) ==
    /\ At("login", a, "signIn") /\ status[a] = "alive"
    /\ SignsIn(a, a \in verified)
    /\ Goto("login", a, "readDoc")
    /\ UNCHANGED <<server, local, queue, screen, tokens, mixed, deleted>>

\* A missing document is no error; the name on the phone then stays.
AnswerLoginDoc(a) ==
    /\ At("login", a, "readDoc")
    /\ Welcome(SeenDoc(a))
    /\ Goto("login", a, "idle")
    /\ UNCHANGED queue

\* Mutant: a failure is not emitted.
FailLoginSilent(a) ==
    /\ op["login"][a] \in {"signIn", "readDoc"}
    /\ Goto("login", a, "idle")
    /\ UNCHANGED <<server, auth, local, queue, screen, tokens, history>>

\* After the sign-in a failed read is shown as a failed log-in.
FailLogin(a) ==
    /\ op["login"][a] \in {"signIn", "readDoc"}
    /\ login' = "Error"
    /\ Goto("login", a, "idle")
    /\ UNCHANGED <<server, auth, local, queue, page, signup, tokens, history>>

(***************************************************************************)
(* Log-in with Google.                                                     *)
(***************************************************************************)
\* The button stays while another log-in is running.
TapGoogle(a) ==
    /\ "google" \in Taps /\ page = "SignIn" /\ a \in GoogleAccounts
    /\ At("google", a, "idle")
    /\ login' = "Loading"
    /\ Goto("google", a, "signIn")
    /\ mixed' = IF At("eraseGoogle", a, "idle") THEN mixed ELSE mixed \cup {a}
    /\ UNCHANGED <<server, auth, local, queue, page, signup, tokens>>
    /\ UNCHANGED <<excuse, deleted, crossed, asked>>

\* The first sign-in of a Google user creates the account.
GoogleSignsIn(a) ==
    /\ status[a] # "retired"
    /\ status' = [status EXCEPT ![a] = "alive"]
    /\ verified' = verified \cup {a}
    /\ SignsIn(a, TRUE)
    /\ UNCHANGED docs

AnswerGoogle(a) ==
    /\ At("google", a, "signIn")
    /\ GoogleSignsIn(a)
    /\ Saved(prefs.login, a) /\ mixed' = mixed \cup Unread
    /\ Goto("google", a, "readDoc")
    /\ UNCHANGED <<queue, screen, tokens, deleted>>

AnswerGoogleDoc(a) ==
    /\ At("google", a, "readDoc")
    /\ IF SeenDoc(a) # NoDoc
       THEN /\ Welcome(SeenDoc(a))
            /\ Goto("google", a, "idle")
            /\ UNCHANGED queue
       ELSE /\ Enqueue(Write("set", a, a, "google"))
            /\ Goto("google", a, "wait")
            /\ UNCHANGED <<server, auth, local, screen, tokens, history>>

FinishGoogle(a) ==
    /\ At("google", a, "done")
    /\ Welcome(NoUser)
    /\ Goto("google", a, "idle")
    /\ UNCHANGED queue

\* A failure shows a message and leaves the spinner.
FailGoogle(a) ==
    /\ op["google"][a] \in {"signIn", "readDoc", "refused"}
    /\ Goto("google", a, "idle")
    /\ UNCHANGED <<server, auth, local, queue, screen, tokens, history>>

(***************************************************************************)
(* Log-out, and the push token of the signed-in user.                      *)
(***************************************************************************)
\* Mutant: the flag is left as it is.
LogOutFlagKept ==
    /\ "logout" \in Taps /\ page = "Base"
    /\ leaving' = TRUE
    /\ Saved(prefs.login, NoUser) /\ mixed' = mixed \cup Unread
    /\ page' = "SignIn"
    /\ excuse' = IF InFlight # {} THEN "late" ELSE "none"
    /\ UNCHANGED <<server, user, seen, queue, login, signup, op, tokens>>
    /\ UNCHANGED <<deleted, crossed, asked>>

\* signOut is called and not awaited, the data of the phone is cleared.
LogOut ==
    /\ "logout" \in Taps /\ page = "Base"
    /\ leaving' = TRUE
    /\ Saved(FALSE, NoUser) /\ mixed' = mixed \cup Unread
    /\ page' = "SignIn"
    /\ excuse' = IF InFlight # {} THEN "late" ELSE "none"
    /\ UNCHANGED <<server, user, seen, queue, login, signup, op, tokens>>
    /\ UNCHANGED <<deleted, crossed, asked>>

SignOutRuns ==
    /\ leaving
    /\ user' = NoUser /\ seen' = FALSE /\ leaving' = FALSE
    /\ UNCHANGED <<server, local, queue, screen, op, tokens, history>>

\* Mutant: the token is written with set.
SaveTokenSet(a) ==
    /\ a \in tokens /\ tokens' = tokens \ {a}
    /\ Enqueue(Write("set", a, NoUser, "nobody"))
    /\ UNCHANGED <<server, auth, local, screen, op, history>>

\* The token arrives and is written for the user the page was opened for.
SaveToken(a) ==
    /\ a \in tokens /\ tokens' = tokens \ {a}
    /\ Enqueue(Write("update", a, NoUser, "nobody"))
    /\ UNCHANGED <<server, auth, local, screen, op, history>>

(***************************************************************************)
(* Account deletion.  A user with a password is re-authenticated and       *)
(* deleted before the document; with Google the document goes first.       *)
(***************************************************************************)
TapErase ==
    /\ "erase" \in Taps /\ page = "Settings" /\ user \in EmailAccounts
    /\ At("erase", user, "idle")
    /\ Goto("erase", user, "reauth")
    /\ UNCHANGED <<server, auth, local, queue, screen, tokens, history>>

\* Firebase Auth refuses to re-authenticate another current user than a with
\* the address and the password of a.
AnswerReauth(a) ==
    /\ At("erase", a, "reauth") /\ user = a /\ status[a] = "alive"
    /\ Goto("erase", a, "dropUser")
    /\ UNCHANGED <<server, auth, local, queue, screen, tokens, history>>

\* Whoever is the current user by now, without looking which account the
\* deletion was asked for, is gone on the server and on the phone; the flag
\* stays.
RetireUser ==
    /\ user # NoUser /\ status[user] = "alive"
    /\ status' = [status EXCEPT ![user] = "retired"]
    /\ user' = NoUser /\ seen' = FALSE
    /\ excuse' = "deleted"

AnswerDropUser(a) ==
    /\ At("erase", a, "dropUser")
    /\ RetireUser
    /\ Enqueue(Write("delete", a, NoUser, "erase"))
    /\ Goto("erase", a, "wait")
    /\ UNCHANGED <<verified, docs, leaving, local, screen, tokens>>
    /\ UNCHANGED <<mixed, deleted, crossed, asked>>

\* Only the settings page listens to DeleteProfileSuccess.
ReportDeleted(a) ==
    /\ deleted' = deleted \cup {a}
    /\ page' = IF page = "Settings" THEN "SignIn" ELSE page

\* Mutant: the deletion of the document is not awaited.
FinishEraseUnawaited(a) ==
    /\ op["erase"][a] \in {"wait", "done"}
    /\ ReportDeleted(a)
    /\ Goto("erase", a, "idle")
    /\ UNCHANGED <<server, auth, local, queue, login, signup, tokens>>
    /\ UNCHANGED <<excuse, mixed, crossed, asked>>

FinishErase(a) ==
    /\ At("erase", a, "done")
    /\ ReportDeleted(a)
    /\ Goto("erase", a, "idle")
    /\ UNCHANGED <<server, auth, local, queue, login, signup, tokens>>
    /\ UNCHANGED <<excuse, mixed, crossed, asked>>

FailErase(a) ==
    /\ op["erase"][a] \in {"reauth", "dropUser", "refused"}
    /\ Goto("erase", a, "idle")
    /\ UNCHANGED <<server, auth, local, queue, screen, tokens, history>>

\* The Google dialog asks again which account it is.
TapEraseGoogle(g) ==
    /\ "erase" \in Taps /\ page = "Settings" /\ user \in GoogleAccounts
    /\ g \in GoogleAccounts /\ At("eraseGoogle", g, "idle")
    /\ Goto("eraseGoogle", g, "signIn")
    /\ mixed' = IF At("google", g, "idle") THEN mixed ELSE mixed \cup {g}
    /\ UNCHANGED <<server, auth, local, queue, screen, tokens>>
    /\ UNCHANGED <<excuse, deleted, crossed, asked>>

AnswerEraseGoogle(g) ==
    /\ At("eraseGoogle", g, "signIn")
    /\ GoogleSignsIn(g)
    /\ Enqueue(Write("delete", g, NoUser, "eraseGoogle"))
    /\ Goto("eraseGoogle", g, "wait")
    /\ UNCHANGED <<local, screen, tokens, mixed, deleted>>

FinishEraseGoogle(g) ==
    /\ At("eraseGoogle", g, "done")
    /\ RetireUser
    /\ ReportDeleted(g)
    /\ Goto("eraseGoogle", g, "idle")
    /\ UNCHANGED <<verified, docs, leaving, local, queue, login, signup, tokens>>
    /\ UNCHANGED <<mixed, crossed, asked>>

FailEraseGoogle(g) ==
    /\ op["eraseGoogle"][g] \in {"signIn", "done", "refused"}
    /\ Goto("eraseGoogle", g, "idle")
    /\ UNCHANGED <<server, auth, local, queue, screen, tokens, history>>

-----------------------------------------------------------------------------
Acknowledge(w, step) ==
    op' = IF w.by = "nobody" THEN op ELSE [op EXCEPT ![w.by][w.acct] = step]

\* The server applies the oldest queued write.
CommitHead ==
    /\ queue # << >> /\ queue' = Tail(queue)
    /\ LET w == Head(queue)
       IN  /\ docs' = CASE w.op = "set" -> [docs EXCEPT ![w.acct] = w.name]
                        [] w.op = "delete" -> [docs EXCEPT ![w.acct] = NoDoc]
                        [] w.op = "update" -> docs
           /\ Acknowledge(w, "done")
    /\ UNCHANGED <<status, verified, auth, local, screen, tokens, history>>

\* The server refuses it; an update of a missing document always.
RefuseHead ==
    /\ queue # << >> /\ queue' = Tail(queue)
    /\ Acknowledge(Head(queue), "refused")
    /\ UNCHANGED <<server, auth, local, screen, tokens, history>>

\* One key of SharedPreferences reaches the device (the order is left open).
Flush ==
    /\ \E key \in {"login", "name"} : disk' = [disk EXCEPT ![key] = prefs[key]]
    /\ UNCHANGED <<server, auth, prefs, queue, screen, op, tokens, history>>

\* The app is killed and started again.
Restart ==
    /\ page # "Splash"
    /\ page' = "Splash" /\ login' = "Initial" /\ signup' = "Initial"
    /\ prefs' = disk
    /\ leaving' = FALSE
    /\ op' = [k \in OpKinds |-> [a \in Accounts |-> "idle"]]
    /\ tokens' = {}
    /\ queue' = [i \in DOMAIN queue |-> [queue[i] EXCEPT !.by = "nobody"]]
    /\ UNCHANGED <<verified, docs, disk, mixed, deleted, crossed, asked>>

Crash ==
    /\ Restart
    /\ excuse' = IF disk.login /\ ~prefs.login THEN "killed" ELSE excuse
    /\ UNCHANGED <<status, user, seen>>

\* Killed between two calls that follow each other: the account is there and
\* signed in, or retired, and its document is not written, or not deleted.
KilledAfterCreate(a) ==
    /\ At("signup", a, "create") /\ status[a] = "absent" /\ ~leaving
    /\ status' = [status EXCEPT ![a] = "alive"]
    /\ user' = a /\ seen' = FALSE /\ excuse' = "none"
    /\ Restart

KilledAfterRetire(a) ==
    /\ At("erase", a, "dropUser")
    /\ RetireUser
    /\ Restart

(***************************************************************************)
(* The specification.                                                      *)
(***************************************************************************)
UserActs ==
    \/ Navigate \/ TapContinue \/ TapLoginEmpty \/ LogOut \/ TapErase
    \/ \E a \in Accounts : \/ TapSignUp(a) \/ TapLogin(a) \/ TapGoogle(a)
                           \/ TapEraseGoogle(a) \/ FollowLink(a)

LoginStep(a) == AnswerSignIn(a) \/ AnswerLoginDoc(a) \/ FailLogin(a)
GoogleStep(a) ==
    AnswerGoogle(a) \/ AnswerGoogleDoc(a) \/ FinishGoogle(a) \/ FailGoogle(a)
SignUpStep(a) == AnswerCreate(a) \/ FailCreate(a)
VerifyStep(a) == AnswerReload(a) \/ FailReload(a)
EraseStep(a) ==
    \/ AnswerReauth(a) \/ AnswerDropUser(a) \/ FinishErase(a) \/ FailErase(a)
EraseGoogleStep(a) ==
    AnswerEraseGoogle(a) \/ FinishEraseGoogle(a) \/ FailEraseGoogle(a)

Progress(a) ==
    \/ LoginStep(a) \/ GoogleStep(a) \/ SignUpStep(a) \/ VerifyStep(a)
    \/ EraseStep(a) \/ EraseGoogleStep(a) \/ SaveToken(a)

Next ==
    \/ UserActs \/ SplashDone \/ SignOutRuns \/ Flush \/ Crash
    \/ CommitHead \/ RefuseHead
    \/ \E a \in Accounts : Progress(a) \/ KilledAfterCreate(a) \/ KilledAfterRetire(a)

Spec == Init /\ [][Next]_vars

\* The answers of a log-in come, or its timeout does.
Fairness == \A a \in Accounts : WF_vars(LoginStep(a))
FairSpec == Spec /\ Fairness

-----------------------------------------------------------------------------
(***************************************************************************)
(* Properties.                                                             *)
(***************************************************************************)
\* Types; a name on the phone or in a document is the name of somebody.
TypeOK ==
    /\ status \in [Accounts -> {"absent", "alive", "retired"}]
    /\ verified \subseteq Accounts
    /\ docs \in [Accounts -> Accounts \cup {NoUser, NoDoc}]
    /\ user \in Accounts \cup {NoUser} /\ seen \in BOOLEAN /\ leaving \in BOOLEAN
    /\ queue \in Seq(Writes)
    /\ prefs \in Prefs /\ disk \in Prefs
    /\ page \in Pages
    /\ login \in {"Initial", "Loading", "Success", "Error"}
    /\ signup \in {"Initial", "EmailSent", "Loading", "Success", "Error"}
    /\ op \in [OpKinds -> [Accounts -> Steps]]
    /\ tokens \subseteq Accounts
    /\ excuse \in {"none", "deleted", "late", "killed"}
    /\ mixed \cup deleted \cup crossed \cup asked \subseteq Accounts

\* The flag, the pages behind the log-in and the handlers past a sign-in have
\* a user: log-in sets the flag after the user, log-out clears both.  Three
\* things break it, until the next sign-in or log-out: the deletion of the
\* account (nobody clears the flag), a handler that outlived the log-out, and
\* an app killed before the cleared flag reached the device.  Without them a
\* log-out on its way finds nothing left to lose its user.
Ready == user # NoUser \/ excuse # "none"
Advanced == {ka \in InFlight : op[ka[1]][ka[2]] \notin {"signIn", "create"}}
LoggedOutQuietly ==
    ~prefs.login /\ page \in {"SignIn", "SignUp"} /\ Advanced = {}
UserBehindPages ==
    /\ prefs.login \/ page \in {"Verify", "Base", "Settings"} \/ Advanced # {} => Ready
    /\ leaving /\ excuse = "none" => LoggedOutQuietly

\* A queued write that a handler waits for is the only one of that handler:
\* the answer of the server never moves a handler that did not ask, not even
\* after a restart.
AnswersOwned ==
    \A i, j \in DOMAIN queue :
        queue[i].by # "nobody" =>
            /\ At(queue[i].by, queue[i].acct, "wait")
            /\ queue[j].by = queue[i].by /\ queue[j].acct = queue[i].acct => j = i

\* A document carries the name its owner typed, wherever it is still on its
\* way, unless somebody else's name was saved while the sign-up was running.
DocNameOwn ==
    \A a \in Accounts \ mixed :
        /\ docs[a] \in {a, NoDoc}
        /\ \A i \in DOMAIN queue :
               queue[i].acct = a /\ queue[i].op = "set" => queue[i].name = a

\* An account that was reported deleted is gone, its document too, and stays
\* so: no write that was on its way when it was deleted brings it back (a
\* Google log-in of the same account that runs during the deletion may).  Only
\* an account during whose deletion another one signed in is not: the other
\* one is deleted in its place, and success reported all the same.
DeletedIsGone ==
    \A a \in deleted \ crossed :
        status[a] = "retired" /\ (a \notin mixed => docs[a] = NoDoc)

\* The verification page lets through only a check whose account is verified
\* on the server, not one that a second log-in or a reload has overtaken.
ThroughVerified ==
    [][page = "Verify" /\ page' = "Base" =>
        \E a \in verified : op["verify"][a] # "idle" /\ op'["verify"][a] = "idle"
       ]_vars

\* A log-in with a password is answered: the spinner goes.
LoginAnswers == login = "Loading" ~> login # "Loading"

\* customDrawer.dart:70 asserts FirebaseAuth.instance.currentUser! when the
\* drawer tab of the main page is built: the main page is opened with a user.
OpenedWithUser == 
    [][page \notin {"Base", "Settings"} /\ page' = "Base" => user' # NoUser]_vars

\* email_verification_page.dart:68 tells the user "If not auto-redirected
\* after verification, click on the Continue button.": a check that was
\* started after the verification and could be completed opens the main page.
ContinueRedirects ==
    [][\A a \in Accounts :
        /\ page = "Verify" /\ op["verify"][a] # "idle" /\ op'["verify"][a] = "idle"
        /\ a \in asked /\ signup' \in {"Success", "Error"}
        => page' = "Base"]_vars
=============================================================================
