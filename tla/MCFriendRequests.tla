-------------------------- MODULE MCFriendRequests --------------------------
(***************************************************************************)
(* The sets of events the runs of FriendRequests enable.  Each run takes   *)
(* the kinds of event its properties are about: a user asks, and the other *)
(* answers, withdraws, or ends what came of it.                            *)
(***************************************************************************)
EXTENDS FriendRequests, TLC

AskAndAnswer == {"send", "accept", "cancel"}
Befriending == {"send", "accept", "cancel", "remove"}
AskAndReject == {"send", "reject"}
Reading == {"send", "cancel", "check", "load"}

\* One handler of a phone is as good as another.
SlotSymmetry == Permutations(Slots)
=============================================================================
