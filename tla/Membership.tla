----------------------------- MODULE Membership -----------------------------
(***************************************************************************)
(* What the group chats promise about who is in a group: a group is made   *)
(* once with its first members, then only gains members, and once deleted  *)
(* it never comes back.  No handler, queue or failure appears here.        *)
(***************************************************************************)
CONSTANTS Users, Rooms

VARIABLES
    life,     \* life[r]: "fresh" (the id is unused), "live" or "gone"
    members   \* members[r]: who is in r while it is live

vars == <<life, members>>

Init ==
    /\ life = [r \in Rooms |-> "fresh"]
    /\ members = [r \in Rooms |-> {}]

Found(r, S) ==
    /\ life[r] = "fresh"
    /\ life' = [life EXCEPT ![r] = "live"]
    /\ members' = [members EXCEPT ![r] = S]

Join(r, S) ==
    /\ life[r] = "live"
    /\ members' = [members EXCEPT ![r] = @ \cup S]
    /\ UNCHANGED life

Dissolve(r) ==
    /\ life[r] = "live"
    /\ life' = [life EXCEPT ![r] = "gone"]
    /\ members' = [members EXCEPT ![r] = {}]

Next ==
    \E r \in Rooms :
        \/ \E S \in SUBSET Users : Found(r, S) \/ Join(r, S)
        \/ Dissolve(r)

Spec == Init /\ [][Next]_vars
=============================================================================
