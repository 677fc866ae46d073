---------------------------- MODULE MCMessaging -----------------------------
(***************************************************************************)
(* The scenarios of the run of Messaging: two users write to each other,   *)
(* send pictures, write to a group, and remove messages, on phones that    *)
(* lose the network, die, or are refused a write.                          *)
(***************************************************************************)
EXTENDS Messaging, TLC

CONSTANTS a, b

All == {"offline", "refuse", "crash"}
Pair(x, y) == [u \in {a, b} |-> IF u = a THEN x ELSE y]
Scenarios ==
    {Pair({"text", "remove"} \cup All, {"text", "remove", "offline"}),
     Pair({"picture", "text", "remove"} \cup All, {"picture"}),
     Pair({"group", "text", "remove"} \cup All, {"group", "remove"})}

\* One message, one picture, one number is as good as another.
Symmetry == Permutations(Ids) \cup Permutations(Pictures) \cup Permutations(Names)
=============================================================================
