----------------------------- MODULE Friendship -----------------------------
(***************************************************************************)
(* What the friend-request protocol promises, without documents, phones or *)
(* handlers: two users become friends only after one of them asked the     *)
(* other, both of them see the friendship begin and end in one step, and   *)
(* what was asked is never forgotten.  FriendRequests implements it.       *)
(***************************************************************************)
CONSTANT Pairs     \* the sets of users that can befriend each other

VARIABLES asked,   \* the pairs between which a request was made
          graph    \* the pairs that are friends now

Init == asked = {} /\ graph = {}

Ask(p) ==
    /\ p \notin asked
    /\ asked' = asked \cup {p}
    /\ UNCHANGED graph

Befriend(p) ==
    /\ p \in asked \ graph
    /\ graph' = graph \cup {p}
    /\ UNCHANGED asked

Unfriend(p) ==
    /\ p \in graph
    /\ graph' = graph \ {p}
    /\ UNCHANGED asked

Next == \E p \in Pairs : Ask(p) \/ Befriend(p) \/ Unfriend(p)

Spec == Init /\ [][Next]_<<asked, graph>>
=============================================================================
