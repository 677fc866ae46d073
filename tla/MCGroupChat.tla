---------------------------- MODULE MCGroupChat -----------------------------
(***************************************************************************)
(* Who uses which phone, and what is done there, in the run of GroupChat.  *)
(***************************************************************************)
EXTENDS GroupChat, TLC

CONSTANTS r1, r2

Pair(A, B) == (1 :> A) @@ (2 :> B)

Scenarios == {
    \* The admin adds and deletes while another member renames.
    Pair({"a", r1, "add", "delete"}, {"b", "rename", "crash"}),
    \* The admin uses two phones.
    Pair({"a", r1, "delete"}, {"a", "add"}),
    \* Two accounts share a phone, and handlers outlive a log-out.
    Pair({"a", "b", r1, "delete", "overlap"}, {}),
    \* One phone, two groups, and everything goes wrong.
    Pair({"a", r1, r2, "delete", "offline", "refuse", "crash"}, {}),
    Pair({"a", r1, "delete", "add", "refresh", "offline", "refuse", "overlap"}, {})}
=============================================================================
