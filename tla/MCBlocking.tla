----------------------------- MODULE MCBlocking -----------------------------
(***************************************************************************)
(* What each user does in the runs of Blocking.                            *)
(***************************************************************************)
EXTENDS Blocking, TLC

Pair(A, B) == (1 :> A) @@ (2 :> B)

Scenarios == {
    \* One blocks and takes it back, and everything can go wrong.
    Pair({"block", "unblock"} \cup Faults, {}),
    \* One blocks, the other undoes it.
    Pair({"unblock", "refuse"}, {"block", "crash"}),
    \* One acts on every page, the other leaves.
    Pair({"block", "unblock", "tab", "read", "refuse"}, {"delete"})}

\* The handlers of a phone differ in nothing but their name.
SlotSymmetry == Permutations(Slots)

Refreshing == {Pair({"block", "refresh"}, {"block", "refresh"})}
=============================================================================
