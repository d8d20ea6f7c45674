------------------------------ MODULE MCIntake ------------------------------
(* What a page's messages need: the tab they are stored in and the rows    *)
(* they refer to.  The scene is set at the start:                          *)
(*   connect  overlapping connects with their settings, a crash, and       *)
(*            owners who are unassigned                                    *)
(*   switch   pauses, removals and messages of a page, which may be        *)
(*            connected twice; settings are inserted at once               *)
(*   senders  a message to a page and its reply, a comment and the answer  *)
(*            to it below one post, all of one customer; or two of them,   *)
(*            one of which is delivered again                              *)
EXTENDS Intake, TLC

CONSTANTS c1, c2, c3, owner, other, page1, k1, k2,
          customer, page, post, e1, e2, e3, e4
VARIABLE scene

MCUsers == {owner, other}
MCManagers == {owner}
MCPages == {page1}
MCKeys == {k1, k2}
MCClients == {c1, c2, c3}
MCKinds == {"connect", "setting", "toggle", "remove", "message", "unassign"}
MCEvents == { [id |-> e1, needs |-> <<customer, page>>, parent |-> NoParent],
              [id |-> e2, needs |-> <<page, customer>>, parent |-> NoParent],
              [id |-> e3, needs |-> <<post, customer>>, parent |-> NoParent],
              [id |-> e4, needs |-> <<post, customer>>, parent |-> e3] }
MCSymmetry == Permutations(MCClients) \union Permutations(MCKeys)

Busy == {c \in MCClients : request[c] # Idle}

(* Within a scene of the tabs.                                             *)
Within ==
    CASE scene = "connect" ->
             Cardinality(Busy') <= 2 /\ toggles' = 0 /\ messages' = 0
      [] scene = "switch" ->
             /\ crashes' = 0 /\ updates' = 0 /\ spoilt' = {}
             /\ \A m \in member' : ~m.delete
             /\ tasks # {} => Cardinality(tasks') < Cardinality(tasks)

SceneInit == /\ Init /\ Senders!Init
             /\ scene \in {"connect", "switch", "senders"}
SceneNext == /\ \/ scene # "senders" /\ Next /\ Within /\ UNCHANGED senders
                \/ /\ scene = "senders" /\ Senders!Next /\ UNCHANGED vars
                   /\ redeliveries' > 0 => Cardinality(arrived') <= 2
             /\ UNCHANGED scene
SceneSpec == SceneInit /\ [][SceneNext]_<<vars, senders, scene>>
=============================================================================
