-------------------------- MODULE MCTabMembership --------------------------
(* Two requests in flight: two hand-overs, two assigns, or one of them and *)
(* a change of the members under it.  The charts rest.                     *)
EXTENDS Reports, TLC

CONSTANTS u1, u2, t1, t2, p1, p2

MCTwoHandlers == {p1, p2}
MCUsers == {u1, u2}
MCTabs == {t1, t2}
MCCalendar == [t \in Times |-> [day |-> t, hour |-> 0]]
MCSymmetry == Permutations(Handlers) \union Permutations(Users)

(* The scene is set at the start: the people of one tab who hand it to     *)
(* each other, or one user who is put on two tabs and taken off them.      *)
VARIABLE scene

Handled(p) == job[p].todo \union
    IF job[p].user = NoUser THEN {} ELSE {[userId |-> job[p].user, tabId |-> job[p].tab]}
Pairings == UNION {Handled(p) : p \in Handlers} \union
    {[userId |-> userInTab[i].userId, tabId |-> userInTab[i].tabId] : i \in Members!Ids}

Within ==
    CASE scene = "hand over" -> /\ Cardinality(Members!Ids) + Members!Pending("create") <= 2
                                /\ \A pair \in Pairings : pair.tabId = t1
      [] scene = "assign" -> /\ promotions = 0
                             /\ \A a, b \in Pairings : a.userId = b.userId

SceneInit == Init /\ Members!Init /\ scene \in {"hand over", "assign"}
SceneNext == Members!Next /\ UNCHANGED <<vars, scene>> /\ Within'
SceneSpec == SceneInit /\ [][SceneNext]_<<members, vars, scene>>
=============================================================================
