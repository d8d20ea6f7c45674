--------------------------- MODULE TabMembership ---------------------------
(***************************************************************************)
(* Who works on which tab, and in which role: assignUsers, unassignUsers   *)
(* and updateRoleUser of UserInTabService.                                 *)
(*                                                                         *)
(* Each request is a loop or a chain of awaited queries without a          *)
(* transaction, and UserInTab has no uniqueness constraint.  A request     *)
(* occupies a slot of Handlers; pc is the query it awaits next.            *)
(*                                                                         *)
(* userInTab  the UserInTab rows (a row's id is its position)              *)
(* pc, job    the requests in flight and their local variables             *)
(*                                                                         *)
(* The row fields checkedAt, since, lookedAt and crowded, the job fields   *)
(* checkedAt, lookedAt, crowded and demoted, and the variables promotions, *)
(* managed and excused are history: no guard but the bound reads them.     *)
(***************************************************************************)
EXTENDS Naturals, Sequences, FiniteSets

CONSTANTS Handlers,       \* slots for requests in flight
          Users,          \* employees of the group that owns the tabs
          Tabs,           \* its SocialTab rows
          NoUser, NoTab,  \* locals without a value
          MaxRows,        \* bound: UserInTab rows created
          MaxPromotions   \* bound: requests that hand a tab to a manager

MemberAssumption ==
    /\ NoUser \notin Users /\ NoTab \notin Tabs
    /\ MaxRows \in Nat /\ MaxPromotions \in Nat

VARIABLES userInTab, pc, job, promotions, managed, excused

history == <<promotions, managed, excused>>
vars == <<userInTab, pc, job, history>>

Roles == {"MANAGER", "SUPPORTER"}
Ops == {"none", "assign", "unassign", "role"}
Steps == {"idle", "check", "create", "remove",
          "manager", "demote", "target", "update"}
Pairs == [userId : Users, tabId : Tabs]

Row == [userId : Users, tabId : Tabs, roleId : Roles, live : BOOLEAN,
        checkedAt : Nat, since : Nat, lookedAt : Nat, crowded : BOOLEAN]
Jobs == [op : Ops, todo : SUBSET Pairs, user : Users \union {NoUser},
         tab : Tabs \union {NoTab}, role : Roles, entry : Nat,
         checkedAt : Nat, lookedAt : Nat, crowded : BOOLEAN, demoted : BOOLEAN]

Locals(op, todo, u, t, role) ==
    [op |-> op, todo |-> todo, user |-> u, tab |-> t, role |-> role,
     entry |-> 0, checkedAt |-> 0, lookedAt |-> 0, crowded |-> FALSE,
     demoted |-> FALSE]
NoJob == Locals("none", {}, NoUser, NoTab, "SUPPORTER")

Ids == 1..Len(userInTab)

(* checkUserInTab, and the lookup of the user whose role is changed.       *)
Membership(u, t) ==
    {i \in Ids : /\ userInTab[i].userId = u /\ userInTab[i].tabId = t
                 /\ userInTab[i].live}

(* getManagerOfTab: findFirst picks any of these.                          *)
Managers(t) ==
    {i \in Ids : /\ userInTab[i].tabId = t /\ userInTab[i].live
                 /\ userInTab[i].roleId = "MANAGER"}

Init ==
    /\ userInTab = <<>>
    /\ pc = [p \in Handlers |-> "idle"]
    /\ job = [p \in Handlers |-> NoJob]
    /\ promotions = 0
    /\ managed = {}
    /\ excused = {}

Start(p, step, j) ==
    /\ pc[p] = "idle"
    /\ pc' = [pc EXCEPT ![p] = step]
    /\ job' = [job EXCEPT ![p] = j]

Goto(p, step) == pc' = [pc EXCEPT ![p] = step]

Leave(p) ==
    /\ pc' = [pc EXCEPT ![p] = "idle"]
    /\ job' = [job EXCEPT ![p] = NoJob]

(* The loop goes on with the next pair, or the request answers.            *)
NextPair(p) ==
    LET rest == job[p].todo \ {[userId |-> job[p].user, tabId |-> job[p].tab]}
    IN  IF rest = {}
        THEN Leave(p)
        ELSE /\ Goto(p, "check")
             /\ job' = [job EXCEPT ![p] =
                    Locals(job[p].op, rest, NoUser, NoTab, "SUPPORTER")]
-----------------------------------------------------------------------------
(* assignUsers and unassignUsers: every user of one list with every tab of *)
(* the other, one pair after the other.                                    *)

Pending(step) == Cardinality({p \in Handlers : pc[p] = step})

AssignUsers(p) ==
    /\ \E us \in SUBSET Users \ {{}}, ts \in SUBSET Tabs \ {{}} :
          Start(p, "check", Locals("assign", [userId : us, tabId : ts],
                                   NoUser, NoTab, "SUPPORTER"))
    /\ UNCHANGED <<userInTab, history>>

UnassignUsers(p) ==
    /\ \E us \in SUBSET Users \ {{}}, ts \in SUBSET Tabs \ {{}} :
          Start(p, "check", Locals("unassign", [userId : us, tabId : ts],
                                   NoUser, NoTab, "SUPPORTER"))
    /\ UNCHANGED <<userInTab, history>>

At(j, pair, e, n) ==
    [j EXCEPT !.user = pair.userId, !.tab = pair.tabId, !.entry = e,
              !.checkedAt = n]

(* Mutant: nobody is asked whether the user is on the tab.                 *)
CheckAssignUnasked(p) ==
    /\ pc[p] = "check" /\ job[p].op = "assign"
    /\ Len(userInTab) + Pending("create") < MaxRows
    /\ \E pair \in job[p].todo : job' = [job EXCEPT ![p] = At(@, pair, 0, Len(userInTab))]
    /\ Goto(p, "create")
    /\ UNCHANGED <<userInTab, history>>

(* A pair that is not a member yet is added.                               *)
CheckAssign(p) ==
    /\ pc[p] = "check" /\ job[p].op = "assign"
    /\ Len(userInTab) + Pending("create") < MaxRows
    /\ \E pair \in job[p].todo :
          /\ Membership(pair.userId, pair.tabId) = {}
          /\ job' = [job EXCEPT ![p] = At(@, pair, 0, Len(userInTab))]
    /\ Goto(p, "create")
    /\ UNCHANGED <<userInTab, history>>

(* A pair that is a member is removed: one row of it.                      *)
CheckUnassign(p) ==
    /\ pc[p] = "check" /\ job[p].op = "unassign"
    /\ \E pair \in job[p].todo : \E e \in Membership(pair.userId, pair.tabId) :
          job' = [job EXCEPT ![p] = At(@, pair, e, 0)]
    /\ Goto(p, "remove")
    /\ UNCHANGED <<userInTab, history>>

(* A pair that already is what it should be is passed over.                *)
SkipPair(p) ==
    /\ pc[p] = "check"
    /\ \E pair \in job[p].todo :
          /\ (Membership(pair.userId, pair.tabId) = {}) = (job[p].op = "unassign")
          /\ LET rest == job[p].todo \ {pair}
             IN  IF rest = {} THEN Leave(p)
                 ELSE /\ job' = [job EXCEPT ![p].todo = rest]
                      /\ UNCHANGED pc
    /\ UNCHANGED <<userInTab, history>>

NewRow(j) ==
    [userId |-> j.user, tabId |-> j.tab, roleId |-> "SUPPORTER", live |-> TRUE,
     checkedAt |-> j.checkedAt, since |-> 0, lookedAt |-> 0, crowded |-> FALSE]

AddUserToTab(p) ==
    /\ pc[p] = "create"
    /\ userInTab' = Append(userInTab, NewRow(job[p]))
    /\ NextPair(p)
    /\ UNCHANGED history

(* The tab whose last manager the request removes or demotes on purpose,   *)
(* and the tab whose manager it demoted without making another.            *)
Dismissed(j) == IF Managers(j.tab) = {j.entry} THEN {j.tab} ELSE {}
Abandoned(j) == IF j.demoted /\ Managers(j.tab) = {} THEN {j.tab} ELSE {}

(* The update is by id.                                                    *)
RemoveUserFromTab(p) ==
    /\ pc[p] = "remove"
    /\ userInTab' = [userInTab EXCEPT ![job[p].entry].live = FALSE]
    /\ excused' = excused \union Dismissed(job[p])
    /\ NextPair(p)
    /\ UNCHANGED <<promotions, managed>>

(* A failing write is swallowed and the loop goes on.                      *)
WriteFails(p) ==
    /\ pc[p] \in {"create", "remove"}
    /\ NextPair(p)
    /\ UNCHANGED <<userInTab, history>>
-----------------------------------------------------------------------------
(* updateRoleUser.                                                         *)

UpdateRoleUser(p) ==
    /\ \E u \in Users, t \in Tabs :
          \/ /\ promotions + Cardinality({q \in Handlers : job[q].role = "MANAGER"})
                    < MaxPromotions
             /\ Start(p, "manager", Locals("role", {}, u, t, "MANAGER"))
          \/ Start(p, "target", Locals("role", {}, u, t, "SUPPORTER"))
    /\ UNCHANGED <<userInTab, history>>

Crowded(t) == \E i, k \in Managers(t) : i # k

LookedUp(j, e) ==
    [j EXCEPT !.entry = e, !.lookedAt = promotions, !.crowded = Crowded(j.tab)]

(* Mutant: the present manager is left alone.                              *)
GetManagerOfTabKept(p) ==
    /\ pc[p] = "manager"
    /\ job' = [job EXCEPT ![p] = LookedUp(@, 0)]
    /\ Goto(p, "target")
    /\ UNCHANGED <<userInTab, history>>

GetManagerOfTab(p) ==
    /\ pc[p] = "manager"
    /\ LET found == Managers(job[p].tab)
       IN  IF found = {}
           THEN /\ job' = [job EXCEPT ![p] = LookedUp(@, 0)]
                /\ Goto(p, "target")
           ELSE /\ \E e \in found : job' = [job EXCEPT ![p] = LookedUp(@, e)]
                /\ Goto(p, "demote")
    /\ UNCHANGED <<userInTab, history>>

(* The tab has no manager from here to the request's last write.           *)
DemoteManager(p) ==
    /\ pc[p] = "demote"
    /\ userInTab' = [userInTab EXCEPT ![job[p].entry].roleId = "SUPPORTER"]
    /\ job' = [job EXCEPT ![p].demoted = TRUE]
    /\ Goto(p, "target")
    /\ UNCHANGED history

FindTarget(p) ==
    /\ pc[p] = "target"
    /\ \E e \in Membership(job[p].user, job[p].tab) :
          job' = [job EXCEPT ![p].entry = e]
    /\ Goto(p, "update")
    /\ UNCHANGED <<userInTab, history>>

(* Nobody to promote: `user.id` throws, after the demotion.                *)
NoTarget(p) ==
    /\ pc[p] = "target"
    /\ Membership(job[p].user, job[p].tab) = {}
    /\ excused' = excused \union Abandoned(job[p])
    /\ Leave(p)
    /\ UNCHANGED <<userInTab, promotions, managed>>

Promoted(row, j, n) ==
    [row EXCEPT !.roleId = "MANAGER", !.since = n, !.lookedAt = j.lookedAt,
                !.crowded = j.crowded]

(* The update is by id: a row removed meanwhile is promoted all the same.  *)
Promote(p) ==
    /\ pc[p] = "update" /\ job[p].role = "MANAGER"
    /\ promotions' = promotions + 1
    /\ userInTab' = [userInTab EXCEPT
           ![job[p].entry] = Promoted(@, job[p], promotions + 1)]
    /\ IF userInTab[job[p].entry].live
       THEN managed' = managed \union {job[p].tab} /\ excused' = excused \ {job[p].tab}
       ELSE excused' = excused \union Abandoned(job[p]) /\ UNCHANGED managed
    /\ Leave(p)

(* Mutant: a role change that asks for SUPPORTER gives it to every row.    *)
DemoteEveryone(p) ==
    /\ pc[p] = "update" /\ job[p].role = "SUPPORTER"
    /\ userInTab' = [i \in Ids |-> [userInTab[i] EXCEPT !.roleId = "SUPPORTER"]]
    /\ excused' = excused \union Dismissed(job[p])
    /\ Leave(p)
    /\ UNCHANGED <<promotions, managed>>

Demote(p) ==
    /\ pc[p] = "update" /\ job[p].role = "SUPPORTER"
    /\ userInTab' = [userInTab EXCEPT ![job[p].entry].roleId = "SUPPORTER"]
    /\ excused' = excused \union Dismissed(job[p])
    /\ Leave(p)
    /\ UNCHANGED <<promotions, managed>>

(* Any query of the request is rejected, or the process ends under it.     *)
Fail(p) ==
    /\ pc[p] \in {"check", "manager", "demote", "target", "update"}
    /\ excused' = excused \union Abandoned(job[p])
    /\ Leave(p)
    /\ UNCHANGED <<userInTab, promotions, managed>>

Step(p) ==
    \/ CheckAssign(p) \/ CheckUnassign(p) \/ SkipPair(p)
    \/ AddUserToTab(p) \/ RemoveUserFromTab(p) \/ WriteFails(p)
    \/ GetManagerOfTab(p) \/ DemoteManager(p) \/ FindTarget(p) \/ NoTarget(p)
    \/ Promote(p) \/ Demote(p)

Next == \E p \in Handlers :
    AssignUsers(p) \/ UnassignUsers(p) \/ UpdateRoleUser(p) \/ Step(p) \/ Fail(p)

Spec == Init /\ [][Next]_vars
-----------------------------------------------------------------------------
TypeOK ==
    /\ userInTab \in Seq(Row)
    /\ pc \in [Handlers -> Steps]
    /\ job \in [Handlers -> Jobs]
    /\ promotions \in Nat
    /\ managed \subseteq Tabs
    /\ excused \subseteq Tabs

(* A user is on a tab twice only if two assigns raced: the later row's     *)
(* check ran before the earlier row was there (check-then-create).         *)
DuplicatesOnlyFromRacingAssigns ==
    \A i, k \in Ids :
        /\ i < k
        /\ userInTab[i].live /\ userInTab[k].live
        /\ userInTab[i].userId = userInTab[k].userId
        /\ userInTab[i].tabId = userInTab[k].tabId
        => userInTab[k].checkedAt < i

(* A tab has two managers only if the later promotion looked for a manager *)
(* before the earlier one was made, or already found two of them and       *)
(* replaced one (getManagerOfTab demotes the first it finds).              *)
TwoManagersOnlyFromRacingHandOvers ==
    \A t \in Tabs : \A i, k \in Managers(t) :
        userInTab[i].since < userInTab[k].since
            => \/ userInTab[k].lookedAt < userInTab[i].since
               \/ userInTab[k].crowded

HandingOver(p, t) == job[p].tab = t /\ job[p].demoted

(* A tab that had a manager is without one only while a hand-over is       *)
(* between its two writes, after one that never made its second, or when   *)
(* somebody removed or demoted the manager on purpose.                     *)
VacancyExplained ==
    \A t \in managed :
        \/ Managers(t) # {}
        \/ t \in excused
        \/ \E p \in Handlers : HandingOver(p, t)
-----------------------------------------------------------------------------
(* The inductive strengthening, in named parts.  What concerns one request *)
(* is said of its step s and its locals j.                                 *)

Placed == {"create", "remove", "manager", "demote", "target", "update"}

(* A request in flight is about a user and a tab, its snapshots are not    *)
(* from the future, and only a hand-over has demoted anybody.              *)
RequestOK(s, j) ==
    /\ s \in Placed => j.user \in Users /\ j.tab \in Tabs
    /\ s \in {"manager", "demote"} => j.role = "MANAGER"
    /\ j.checkedAt <= Len(userInTab)
    /\ j.lookedAt <= promotions
    /\ j.demoted => s \in {"target", "update"} /\ j.role = "MANAGER"

(* The row a request is about to write was found on the request's tab.     *)
EntryOK(s, j) ==
    s \in {"remove", "demote", "update"} =>
        j.entry \in Ids /\ userInTab[j.entry].tabId = j.tab

(* Rows of a pair that was to be added are younger than its check.         *)
CheckOK(s, j) ==
    s = "create" => \A i \in Membership(j.user, j.tab) : j.checkedAt < i

(* Managers a hand-over has not seen are younger than its look; the one it *)
(* has seen it will demote first.                                          *)
LookOK(s, j) ==
    \/ j.crowded
    \/ /\ s = "demote" =>
             \A i \in Managers(j.tab) \ {j.entry} : j.lookedAt < userInTab[i].since
       /\ s \in {"target", "update"} /\ j.role = "MANAGER" =>
             \A i \in Managers(j.tab) : j.lookedAt < userInTab[i].since

LocalOK(s, j) ==
    RequestOK(s, j) /\ EntryOK(s, j) /\ CheckOK(s, j) /\ LookOK(s, j)

SinceOK == \A i \in Ids : userInTab[i].since <= promotions

IInv ==
    /\ TypeOK
    /\ SinceOK
    /\ \A p \in Handlers : LocalOK(pc[p], job[p])
    /\ DuplicatesOnlyFromRacingAssigns
    /\ TwoManagersOnlyFromRacingHandOvers
    /\ VacancyExplained
=============================================================================
