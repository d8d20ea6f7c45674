-------------------------- MODULE MCNotifications --------------------------
(* One user with two sockets, so that a push can go to a closed socket and *)
(* a registration can change hands between two attempts; the overlaps of   *)
(* more sockets are MCSocketRegistry's.  No message arrives.               *)
EXTENDS Inbox, TLC

CONSTANTS alice, s1, s2

MCUsers == {alice}
MCOneSocket == {s1}
MCSockets == {s1, s2}
MCOwner == [s \in Sockets |-> alice]
MCSymmetry == Permutations(MCSockets)

PushInit == Init /\ Tab!Init
PushNext == Next /\ UNCHANGED conversation
PushSpec == PushInit /\ [][PushNext]_<<vars, conversation>> /\ Fairness
=============================================================================
