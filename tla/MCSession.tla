------------------------------ MODULE MCSession ------------------------------
(***************************************************************************)
(* The things a user does in the runs of Session: a life with a password   *)
(* up to the deletion of the account, the parts of it the two findings     *)
(* need, and an account with a password next to one of Google.             *)
(***************************************************************************)
EXTENDS Session

Living == {"signup", "continue", "login", "logout", "erase"}
SigningUp == {"signup", "continue", "login", "logout"}
Erasing == {"signup", "login", "erase"}
BothWays == {"signup", "continue", "google", "erase"}

\* The state without signup, excuse and asked: only the steps that set one of
\* them read it, and nothing the run of two accounts checks does.
Relevant == <<server, auth, queue, local, page, login, op, tokens,
              mixed, deleted, crossed>>
=============================================================================
