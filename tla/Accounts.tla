------------------------------ MODULE Accounts ------------------------------
(***************************************************************************)
(* Users, the groups they manage and their memberships: registration,      *)
(* employees made, imported, edited, removed, activated and deactivated by *)
(* the owner of a group, administrators made by administrators, logins.    *)
(*                                                                         *)
(* Every request is a chain of awaited queries without a transaction, and  *)
(* neither User.email nor a membership is unique.  A request occupies a    *)
(* slot of Handlers; pc is the query it awaits next.                       *)
(*                                                                         *)
(* users     the User rows (a row's id is its position)                    *)
(* groups    users who manage a SocialGroup (managerId is unique)          *)
(* members   the UserInGroup rows; a group goes by its manager             *)
(* pc, job   the requests in flight and their locals                       *)
(*                                                                         *)
(* The row fields since and checkedAt, the job fields checkedAt and out    *)
(* and the variables writes (addresses written), torn (users of requests   *)
(* that died half-way), out (users whose removal or deactivation was       *)
(* answered) and intruders (those of them who have logged in) are history. *)
(***************************************************************************)
EXTENDS Naturals, Sequences

CONSTANTS Handlers,
          Emails, Lower,    \* addresses, and each in lower case
          NoEmail,
          Kinds,            \* the kinds of request that arrive
          MaxUsers,         \* bound: User rows
          MaxWrites         \* bound: addresses written

ASSUME EmailAssumption ==
    /\ Lower \in [Emails -> Emails] /\ NoEmail \notin Emails
    /\ \A e \in Emails : Lower[Lower[e]] = Lower[e]
ASSUME BoundAssumption == MaxUsers \in Nat /\ MaxWrites \in Nat

VARIABLES users, groups, members, pc, job, intruders, writes, torn, out

rows == <<users, groups, members>>
history == <<intruders, writes, torn, out>>
vars == <<rows, pc, job, history>>

Roles == {"ADMIN", "OWNER", "SUPPORTER"}
Ops == {"none", "register", "employee", "admin", "edit", "account",
        "import", "remove", "activate", "deactivate", "login"}
Steps == {"idle", "email", "group", "row", "create", "mail", "found", "join",
          "rights", "member", "update", "leave", "delete", "toggle", "active"}

UserIds == 1..Len(users)
MemberIds == 1..Len(members)

(* by: the caller; id: the user it is about; entry: the membership found.  *)
Locals(op, by, id, email) ==
    [op |-> op, by |-> by, id |-> id, email |-> email, hasGroup |-> FALSE,
     entry |-> 0, checkedAt |-> 0, out |-> {}]
NoJob == Locals("none", 0, 0, NoEmail)

(* A system with its administrator and an owner who has registered.        *)
Init ==
    /\ \E e \in Emails : \E f \in Emails \ {e} :
          /\ Lower[f] = f
          /\ users = << [email |-> e, role |-> "ADMIN", deleted |-> FALSE,
                         since |-> 1, checkedAt |-> 0],
                        [email |-> f, role |-> "OWNER", deleted |-> FALSE,
                         since |-> 2, checkedAt |-> 1] >>
    /\ groups = {2}
    /\ members = << [user |-> 2, group |-> 2, live |-> TRUE, active |-> TRUE] >>
    /\ pc = [p \in Handlers |-> "idle"]
    /\ job = [p \in Handlers |-> NoJob]
    /\ intruders = {} /\ writes = 2 /\ torn = {} /\ out = {}

Goto(p, step) == pc' = [pc EXCEPT ![p] = step]
Leave(p) ==
    /\ pc' = [pc EXCEPT ![p] = "idle"]
    /\ job' = [job EXCEPT ![p] = NoJob]
Begin(p, step, j) ==
    /\ pc[p] = "idle" /\ j.op \in Kinds
    /\ pc' = [pc EXCEPT ![p] = step]
    /\ job' = [job EXCEPT ![p] = [j EXCEPT !.out = IF j.op = "login" THEN out ELSE {}]]
    /\ UNCHANGED <<rows, history>>

-----------------------------------------------------------------------------
(* The endpoints.  A caller is anybody with a session: PermissionGuard     *)
(* knows owners and administrators by their role's permissions, and looks  *)
(* neither at deleteAt nor at the membership.                              *)

(* The address is taken in lower case here, and nowhere else.              *)
Register(p) == \E e \in Emails : Begin(p, "email", Locals("register", 0, 0, Lower[e]))

CreateEmployee(p) ==
    \E by \in UserIds, e \in Emails :
        users[by].role # "SUPPORTER" /\ Begin(p, "email", Locals("employee", by, 0, e))

CreateAdminAccount(p) ==
    \E by \in UserIds, e \in Emails :
        users[by].role = "ADMIN" /\ Begin(p, "email", Locals("admin", by, 0, e))

(* importData runs in a worker: a sheet of employees for the group of the  *)
(* uploader, who is no administrator.  A second run of the job by Bull is  *)
(* an import of its own here; the queue is module ImportUsers.             *)
ImportData(p) ==
    \E by \in UserIds :
        users[by].role = "OWNER" /\ Begin(p, "group", Locals("import", by, 0, NoEmail))

EditEmployee(p) ==
    \E by, u \in UserIds, e \in Emails :
        users[by].role # "SUPPORTER" /\ Begin(p, "email", Locals("edit", by, u, e))

UpdateInformation(p) ==
    \E u \in UserIds, e \in Emails : Begin(p, "update", Locals("account", u, u, e))

RemoveEmployee(p) ==
    \E by, u \in UserIds :
        /\ users[by].role # "SUPPORTER"
        /\ Begin(p, IF users[u].role = "ADMIN" THEN "delete" ELSE "rights",
                 Locals("remove", by, u, NoEmail))

ActivateAccount(p) ==
    \E by, u \in UserIds :
        /\ pc[p] = "idle" /\ "activate" \in Kinds /\ users[by].role # "SUPPORTER"
        /\ Goto(p, "rights")
        /\ LET readmitted == IF users[u].deleted THEN {} ELSE {u}
           IN  /\ out' = out \ readmitted
               /\ job' = [q \in Handlers |->
                      IF q = p THEN Locals("activate", by, u, NoEmail)
                      ELSE [job[q] EXCEPT !.out = @ \ readmitted]]
        /\ UNCHANGED <<rows, intruders, writes, torn>>

DeactivateAccount(p) ==
    \E by, u \in UserIds :
        users[by].role # "SUPPORTER"
        /\ Begin(p, "rights", Locals("deactivate", by, u, NoEmail))

LogIn(p) == \E e \in Emails : Begin(p, "email", Locals("login", 0, 0, e))
-----------------------------------------------------------------------------
(* Lookups.                                                                *)

Addressees(e) == {i \in UserIds : users[i].email = e /\ ~users[i].deleted}
Memberships(u, g) ==
    {i \in MemberIds : members[i].user = u /\ members[i].group = g /\ members[i].live}

NextAfterEmail(op) == CASE op = "employee" -> "group" [] op = "edit" -> "rights"
                        [] OTHER -> "create"

(* Mutant: addresses are not looked up before they are given away.         *)
GetUserByEmailUnasked(p) ==
    /\ pc[p] = "email" /\ job[p].op # "login"
    /\ job' = [job EXCEPT ![p].checkedAt = writes]
    /\ Goto(p, NextAfterEmail(job[p].op))
    /\ UNCHANGED <<rows, history>>

(* Nobody has the address, or findFirst answers with the user himself.     *)
GetUserByEmail(p) ==
    /\ pc[p] = "email" /\ job[p].op # "login"
    /\ \/ Addressees(job[p].email) = {}
       \/ job[p].op = "edit" /\ job[p].id \in Addressees(job[p].email)
    /\ job' = [job EXCEPT ![p].checkedAt =
           IF Addressees(job[p].email) \ {job[p].id} = {} THEN writes ELSE 0]
    /\ Goto(p, NextAfterEmail(job[p].op))
    /\ UNCHANGED <<rows, history>>

(* The group of the caller; an administrator has none.                     *)
GetSocialGroupByManagerId(p) ==
    /\ pc[p] = "group"
    /\ job' = [job EXCEPT ![p].hasGroup = job[p].by \in groups]
    /\ Goto(p, IF job[p].op = "import" THEN "row" ELSE "create")
    /\ UNCHANGED <<rows, history>>

(* The next row of the sheet: nobody asks whether its address is taken.    *)
NextRow(p) ==
    /\ pc[p] = "row"
    /\ \E e \in Emails : job' = [job EXCEPT ![p].email = e]
    /\ Goto(p, "create")
    /\ UNCHANGED <<rows, history>>

(* Employees are changed by the owner of their group, administrators may   *)
(* be edited by administrators.                                            *)
GetUserWithGroup(p) ==
    /\ pc[p] = "rights"
    /\ LET j == job[p]
           member == j.by \in groups /\ j.id # j.by /\ Memberships(j.id, j.by) # {}
       IN  \/ /\ j.op = "edit"
              /\ \/ users[j.by].role = "ADMIN" /\ users[j.id].role = "ADMIN"
                 \/ users[j.by].role = "OWNER" /\ users[j.id].role = "SUPPORTER" /\ member
              /\ Goto(p, "update")
           \/ j.op \in {"remove", "activate", "deactivate"} /\ member /\ Goto(p, "member")
    /\ UNCHANGED <<rows, job, history>>

(* removeUserFromGroup, activateAccount and deactivateAccount look again.  *)
FindMembership(p) ==
    /\ pc[p] = "member"
    /\ \E e \in Memberships(job[p].id, job[p].by) : job' = [job EXCEPT ![p].entry = e]
    /\ Goto(p, IF job[p].op = "remove" THEN "leave" ELSE "toggle")
    /\ UNCHANGED <<rows, history>>

(* A lookup that finds what it must not, or not what it needs, ends the    *)
(* request with a message; so does a rejected query.  What it has written  *)
(* stays.                                                                  *)
HalfDone(p) == \/ pc[p] \in {"mail", "found", "join"}
               \/ pc[p] = "delete" /\ job[p].entry # 0
Fail(p) ==
    /\ pc[p] # "idle"
    /\ torn' = IF HalfDone(p) THEN torn \union {job[p].id} ELSE torn
    /\ Leave(p)
    /\ UNCHANGED <<rows, intruders, writes, out>>

ToNextRow(p) ==
    /\ job' = [job EXCEPT ![p].email = NoEmail, ![p].id = 0]
    /\ Goto(p, "row")

(* An import catches the failure of a row and goes on with the next one.   *)
RowFails(p) ==
    /\ job[p].op = "import" /\ pc[p] \in {"create", "join"}
    /\ torn' = IF HalfDone(p) THEN torn \union {job[p].id} ELSE torn
    /\ ToNextRow(p)
    /\ UNCHANGED <<rows, intruders, writes, out>>
-----------------------------------------------------------------------------
(* Writes.                                                                 *)

NewUser(j) ==
    [email |-> j.email, deleted |-> FALSE, since |-> writes + 1,
     checkedAt |-> j.checkedAt,
     role |-> CASE j.op = "register" -> "OWNER" [] j.op = "admin" -> "ADMIN"
                [] OTHER -> "SUPPORTER"]

InsertUser(p) ==
    /\ pc[p] = "create" /\ Len(users) < MaxUsers /\ writes < MaxWrites
    /\ users' = Append(users, NewUser(job[p]))
    /\ writes' = writes + 1
    /\ CASE job[p].op = "admin" -> Leave(p)
         [] OTHER -> /\ job' = [job EXCEPT ![p].id = Len(users) + 1]
                     /\ Goto(p, IF job[p].op = "register" THEN "mail" ELSE "join")
    /\ UNCHANGED <<groups, members, intruders, torn, out>>

(* The link's token is stored and its mail queued (module AccountLinks).   *)
SendVerificationLink(p) ==
    /\ pc[p] = "mail"
    /\ Goto(p, "found")
    /\ UNCHANGED <<rows, job, history>>

CreateSocialGroup(p) ==
    /\ pc[p] = "found"
    /\ groups' = groups \union {job[p].id}
    /\ Goto(p, "join")
    /\ UNCHANGED <<users, members, job, history>>

(* An employee joins the caller's group; without one `group.id` throws,    *)
(* with the user already there, which is a Fail, or a RowFails.            *)
AddUserToGroup(p) ==
    /\ pc[p] = "join"
    /\ job[p].op = "register" \/ job[p].hasGroup
    /\ members' = Append(members,
           [user |-> job[p].id, live |-> TRUE, active |-> TRUE,
            group |-> IF job[p].op = "register" THEN job[p].id ELSE job[p].by])
    /\ IF job[p].op = "import" THEN ToNextRow(p) ELSE Leave(p)
    /\ UNCHANGED <<users, groups, history>>

(* updateAccount and editEmployee write the address by id, the former      *)
(* having looked at nothing.                                               *)
UpdateUser(p) ==
    /\ pc[p] = "update"
    /\ IF users[job[p].id].email = job[p].email
       THEN UNCHANGED <<users, writes>>
       ELSE /\ writes < MaxWrites
            /\ users' = [users EXCEPT ![job[p].id].email = job[p].email,
                                      ![job[p].id].since = writes + 1,
                                      ![job[p].id].checkedAt = job[p].checkedAt]
            /\ writes' = writes + 1
    /\ Leave(p)
    /\ UNCHANGED <<groups, members, intruders, torn, out>>

RemoveUserFromGroup(p) ==
    /\ pc[p] = "leave"
    /\ members' = [members EXCEPT ![job[p].entry].live = FALSE]
    /\ Goto(p, "delete")
    /\ UNCHANGED <<users, groups, job, history>>

(* Mutant: a user who has left the group is not deleted.                   *)
RemoveAccountForgotten(p) ==
    /\ pc[p] = "delete"
    /\ out' = out \union {job[p].id}
    /\ Leave(p)
    /\ UNCHANGED <<rows, intruders, writes, torn>>

RemoveAccount(p) ==
    /\ pc[p] = "delete"
    /\ users' = [users EXCEPT ![job[p].id].deleted = TRUE]
    /\ out' = out \union {job[p].id}
    /\ Leave(p)
    /\ UNCHANGED <<groups, members, intruders, writes, torn>>

Activating(u) == \E q \in Handlers : job[q].op = "activate" /\ job[q].id = u

ToggleActive(p) ==
    /\ pc[p] = "toggle"
    /\ members' = [members EXCEPT ![job[p].entry].active = (job[p].op = "activate")]
    /\ out' = IF job[p].op = "deactivate" /\ ~Activating(job[p].id)
              THEN out \union {job[p].id} ELSE out
    /\ Leave(p)
    /\ UNCHANGED <<users, groups, intruders, writes, torn>>
-----------------------------------------------------------------------------
(* getAuthenticatedUser, the password being right.                         *)

FindAddressee(p) ==
    /\ pc[p] = "email" /\ job[p].op = "login"
    /\ \E i \in Addressees(job[p].email) : job' = [job EXCEPT ![p].id = i]
    /\ Goto(p, "active")
    /\ UNCHANGED <<rows, history>>

(* checkActivate takes any active membership, removed or not.              *)
Admitted(u) == \/ users[u].role = "ADMIN"
               \/ \E i \in MemberIds : members[i].user = u /\ members[i].active

(* Mutant: a membership that was not removed will do.                      *)
CheckActivateLive(p) ==
    /\ pc[p] = "active"
    /\ \/ users[job[p].id].role = "ADMIN"
       \/ \E i \in MemberIds : members[i].user = job[p].id /\ members[i].live
    /\ intruders' = intruders \union ({job[p].id} \intersect job[p].out \intersect out)
    /\ Leave(p)
    /\ UNCHANGED <<rows, writes, torn, out>>

CheckActivate(p) ==
    /\ pc[p] = "active" /\ Admitted(job[p].id)
    /\ intruders' = intruders \union ({job[p].id} \intersect job[p].out \intersect out)
    /\ Leave(p)
    /\ UNCHANGED <<rows, writes, torn, out>>

Start(p) ==
    \/ Register(p) \/ CreateEmployee(p) \/ CreateAdminAccount(p)
    \/ ImportData(p) \/ EditEmployee(p) \/ UpdateInformation(p) \/ RemoveEmployee(p)
    \/ ActivateAccount(p) \/ DeactivateAccount(p) \/ LogIn(p)

Step(p) ==
    \/ GetUserByEmail(p) \/ GetSocialGroupByManagerId(p) \/ NextRow(p) \/ RowFails(p)
    \/ GetUserWithGroup(p)
    \/ FindMembership(p) \/ InsertUser(p) \/ SendVerificationLink(p)
    \/ CreateSocialGroup(p) \/ AddUserToGroup(p) \/ UpdateUser(p)
    \/ RemoveUserFromGroup(p) \/ RemoveAccount(p) \/ ToggleActive(p)
    \/ FindAddressee(p) \/ CheckActivate(p)

Next == \E p \in Handlers : Start(p) \/ Step(p) \/ Fail(p)

Spec == Init /\ [][Next]_vars
-----------------------------------------------------------------------------
User == [email : Emails, role : Roles, deleted : BOOLEAN, since : Nat, checkedAt : Nat]
Jobs == [op : Ops, by : {0} \union UserIds, id : {0} \union UserIds,
         email : Emails \union {NoEmail}, hasGroup : BOOLEAN,
         entry : {0} \union MemberIds, checkedAt : Nat, out : SUBSET UserIds]

TypeOK ==
    /\ users \in Seq(User)
    /\ groups \subseteq UserIds
    /\ members \in Seq([user : UserIds, group : groups, live : BOOLEAN, active : BOOLEAN])
    /\ pc \in [Handlers -> Steps]
    /\ job \in [Handlers -> Jobs]
    /\ writes \in Nat /\ intruders \subseteq UserIds /\ torn \subseteq UserIds /\ out \subseteq UserIds

(* Two living users have one address only if the later one's check ran     *)
(* before the earlier one had it, or if nothing was checked: updateAccount *)
(* and the rows of an import (importData) write an address nobody looked   *)
(* up, and editEmployee takes the user's own row for an answer, which says *)
(* nothing of another row of that address.                                 *)
SameAddressOnlyFromRaces ==
    \A i, k \in UserIds :
        /\ users[i].email = users[k].email
        /\ ~users[i].deleted /\ ~users[k].deleted
        /\ users[i].since < users[k].since
        => users[k].checkedAt < users[i].since

UnderWay(i) ==
    \E q \in Handlers : job[q].id = i /\ pc[q] \in {"mail", "found", "join", "delete"}

(* An account is whole: an owner manages a group and is in it, an employee *)
(* is in a group, unless the request that makes or removes it is under way *)
(* or died between its writes (an administrator's createEmployee always    *)
(* does, having no group).                                                 *)
AccountsWholeUnlessTorn ==
    \A i \in UserIds :
        ~users[i].deleted /\ users[i].role # "ADMIN" /\ i \notin torn /\ ~UnderWay(i)
            => \E g \in groups : /\ Memberships(i, g) # {}
                                 /\ users[i].role = "OWNER" => g = i

(* No request, whoever sends it and whatever it overlaps with, takes an    *)
(* owner's account or membership away.                                     *)
OwnersStay ==
    \A i \in UserIds : users[i].role = "OWNER" =>
        /\ ~users[i].deleted
        /\ \A k \in MemberIds : members[k].user = i => members[k].live /\ members[k].active

(* Nobody gets in with a login that began after his removal or             *)
(* deactivation was answered, although the login reads the account first   *)
(* and the membership later, and takes memberships that were removed.      *)
NobodyBarredLogsIn == intruders = {}

(* Accounts are whole, and owners keep theirs.                             *)
AccountsKept == TypeOK /\ AccountsWholeUnlessTorn /\ OwnersStay
=============================================================================
