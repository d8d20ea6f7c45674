------------------------------ MODULE Startup ------------------------------
(***************************************************************************)
(* onModuleInit of AppService, which seeds the database at every start,    *)
(* the role ids that UserInTabService reads while it is constructed, and   *)
(* the requests that assign permissions to the administrators' role and    *)
(* take them away again.                                                   *)
(*                                                                         *)
(* A group of seeds is one Promise.all: its tasks run side by side, each a *)
(* lookup, a create and, for the administrator and for a permission, one   *)
(* more write.  The next group waits for all of them.  A query that fails  *)
(* ends the process, as does a crash; the rows stay.                       *)
(*                                                                         *)
(* copies      rows of each seed that its lookup finds                     *)
(* holder      who has the administrator's address: its account, inactive  *)
(*             or active, or another user                                  *)
(* assigned    permissions of the ADMIN role (Role_Permission)             *)
(* phase       "down", the group being seeded, or "ready"                  *)
(* task        how far the task of each seed has come                      *)
(* roleRead    what UserInTabService knows of its two roles                *)
(* op, work    the requests in flight: what they do, and how far each of   *)
(*             their permissions has come                                  *)
(*                                                                         *)
(* torn (seeds whose last write was lost), fresh (roles that this process  *)
(* created), wish (the last request about a permission), excused           *)
(* (permissions about which requests overlapped or died) are history;      *)
(* crashes and requests are counters for the bounds.                       *)
(***************************************************************************)
EXTENDS Naturals

CONSTANTS Settings, Roles, Permissions,   \* the lists of the constructor
          Administrator,                  \* its user
          ManagerRole, SupporterRole,     \* two of the roles
          Slots,                          \* slots for requests in flight
          MaxCrashes, MaxRequests         \* bounds

ASSUME RoleAssumption == ManagerRole \in Roles /\ SupporterRole \in Roles
ASSUME SeedAssumption ==
    /\ Settings \intersect (Roles \union Permissions) = {}
    /\ Roles \intersect Permissions = {}
    /\ Administrator \notin Settings \union Roles \union Permissions

VARIABLES copies, holder, assigned, phase, task, roleRead, op, work,
          torn, fresh, wish, excused, crashes, requests

seeding == <<phase, task, copies, holder, fresh>>
serving == <<op, work, wish, requests>>
vars == <<seeding, assigned, roleRead, serving, torn, excused, crashes>>

Seeds == Settings \union Roles \union Permissions \union {Administrator}

Group == [settings |-> Settings, roles |-> Roles,
          admin |-> {Administrator}, permissions |-> Permissions]
NextGroup == [settings |-> "roles", roles |-> "admin",
              admin |-> "permissions", permissions |-> "ready"]
Groups == DOMAIN Group

Rank == [x \in Seeds |-> IF x \in Settings THEN 0
                         ELSE IF x \in Roles THEN 1
                         ELSE IF x = Administrator THEN 2 ELSE 3]

Rooms == {ManagerRole, SupporterRole}
Idle == [x \in Permissions |-> "none"]
Pending(x) == \E p \in Slots : work[p][x] # "none"

Init ==
    /\ copies = [x \in Seeds |-> 0]
    /\ holder = "inactive"
    /\ assigned = {}
    /\ phase = "down"
    /\ task = [x \in Seeds |-> "check"]
    /\ roleRead = [r \in Rooms |-> "unread"]
    /\ op = [p \in Slots |-> "none"]
    /\ work = [p \in Slots |-> Idle]
    /\ torn = {} /\ fresh = {} /\ excused = {}
    /\ wish = [x \in Permissions |-> "none"]
    /\ crashes = 0 /\ requests = 0
-----------------------------------------------------------------------------
(* The start of a process.                                                 *)

Boot ==
    /\ phase = "down"
    /\ phase' = "settings"
    /\ task' = [x \in Seeds |-> "check"]
    /\ roleRead' = [r \in Rooms |-> "unread"]
    /\ fresh' = {}
    /\ UNCHANGED <<copies, holder, assigned, serving, torn, excused, crashes>>

(* findFirst by name, by group and key, or by address.                     *)
Missing(x) == copies[x] = 0

Running(x, step) == phase \in Groups /\ x \in Group[phase] /\ task[x] = step
Advance(x, step) == task' = [task EXCEPT ![x] = step]

(* Mutant: the lookup is skipped.                                          *)
CheckSkipped(x) ==
    /\ Running(x, "check")
    /\ Advance(x, "create")
    /\ UNCHANGED <<phase, copies, holder, assigned, fresh, roleRead, serving,
                   torn, excused, crashes>>

(* Mutant: a permission that exists is assigned again.                     *)
CheckReassigns(x) ==
    /\ Running(x, "check")
    /\ Advance(x, IF Missing(x) THEN "create"
                  ELSE IF x \in Permissions THEN "follow" ELSE "done")
    /\ UNCHANGED <<phase, copies, holder, assigned, fresh, roleRead, serving,
                   torn, excused, crashes>>

Check(x) ==
    /\ Running(x, "check")
    /\ Advance(x, IF Missing(x) THEN "create" ELSE "done")
    /\ UNCHANGED <<phase, copies, holder, assigned, fresh, roleRead, serving,
                   torn, excused, crashes>>

(* A setting, a role or a permission.                                      *)
Create(x) ==
    /\ x # Administrator /\ Running(x, "create")
    /\ copies' = [copies EXCEPT ![x] = @ + 1]
    /\ Advance(x, IF x \in Permissions THEN "follow" ELSE "done")
    /\ fresh' = fresh \union ({x} \intersect Roles)
    /\ UNCHANGED <<phase, holder, assigned, roleRead, serving, torn, excused, crashes>>

(* The administrator's user, inactive as yet.                              *)
CreateUser ==
    /\ Running(Administrator, "create")
    /\ copies' = [copies EXCEPT ![Administrator] = @ + 1]
    /\ Advance(Administrator, "follow")
    /\ holder' = "inactive"
    /\ torn' = torn \ {Administrator}
    /\ UNCHANGED <<phase, assigned, fresh, roleRead, serving, excused, crashes>>

ActiveAccount ==
    /\ Running(Administrator, "follow")
    /\ holder' = "active"
    /\ Advance(Administrator, "done")
    /\ UNCHANGED <<phase, copies, assigned, fresh, roleRead, serving,
                   torn, excused, crashes>>

AssignPermissionToRole(x) ==
    /\ x \in Permissions /\ Running(x, "follow")
    /\ assigned' = assigned \union {x}
    /\ Advance(x, "done")
    /\ UNCHANGED <<phase, copies, holder, fresh, roleRead, serving,
                   torn, excused, crashes>>

(* Mutant: the tasks of a group are not awaited.                           *)
AwaitGroupSkipped ==
    /\ phase \in Groups
    /\ phase' = NextGroup[phase]
    /\ UNCHANGED <<task, copies, holder, assigned, fresh, roleRead, serving,
                   torn, excused, crashes>>

AwaitGroup ==
    /\ phase \in Groups
    /\ \A x \in Group[phase] : task[x] = "done"
    /\ phase' = NextGroup[phase]
    /\ UNCHANGED <<task, copies, holder, assigned, fresh, roleRead, serving,
                   torn, excused, crashes>>
-----------------------------------------------------------------------------
(* initRole, which the constructor of UserInTabService does not wait for:  *)
(* one role and then the other, at any time after the process has begun.   *)

InitRole(r) ==
    /\ phase # "down" /\ roleRead[r] = "unread"
    /\ r = SupporterRole => roleRead[ManagerRole] # "unread"
    /\ roleRead' = [roleRead EXCEPT ![r] = IF Missing(r) THEN "null" ELSE "found"]
    /\ UNCHANGED <<seeding, assigned, serving, torn, excused, crashes>>
-----------------------------------------------------------------------------
(* Requests about the ADMIN role.  assign answers before its tasks run.    *)

Request(p, kind, xs) ==
    /\ phase = "ready" /\ requests < MaxRequests
    /\ op[p] = "none"
    /\ op' = [op EXCEPT ![p] = kind]
    /\ work' = [work EXCEPT ![p] = [x \in Permissions |->
                    IF x \in xs THEN "check" ELSE "none"]]
    /\ wish' = [x \in Permissions |-> IF x \in xs THEN kind ELSE wish[x]]
    /\ excused' = (excused \ xs) \union {x \in xs : Pending(x)}
    /\ requests' = requests + 1
    /\ UNCHANGED <<seeding, assigned, roleRead, torn, crashes>>

AssignPermission(p) == \E xs \in SUBSET Permissions \ {{}} : Request(p, "assign", xs)
RemovePermission(p) == \E x \in Permissions : Request(p, "remove", {x})
RemoveListRolePermission(p) ==
    \E xs \in SUBSET Permissions \ {{}} : Request(p, "remove", xs)

(* The request is over with its last permission.                           *)
Settle(p, x) ==
    /\ work' = [work EXCEPT ![p][x] = "none"]
    /\ op' = IF \A y \in Permissions \ {x} : work[p][y] = "none"
             THEN [op EXCEPT ![p] = "none"] ELSE op

(* Mutant: assignment goes on where there is a row, and removal where      *)
(* there is none.                                                          *)
GetRolePermissionNegated(p, x) ==
    /\ work[p][x] = "check"
    /\ IF (x \in assigned) = (op[p] = "assign")
       THEN work' = [work EXCEPT ![p][x] = "write"] /\ UNCHANGED op
       ELSE Settle(p, x)
    /\ UNCHANGED <<seeding, assigned, roleRead, wish, requests,
                   torn, excused, crashes>>

GetRolePermission(p, x) ==
    /\ work[p][x] = "check"
    /\ IF (x \in assigned) = (op[p] = "remove")
       THEN work' = [work EXCEPT ![p][x] = "write"] /\ UNCHANGED op
       ELSE Settle(p, x)
    /\ UNCHANGED <<seeding, assigned, roleRead, wish, requests,
                   torn, excused, crashes>>

(* The key of Role_Permission is the pair, so a second create fails, and   *)
(* so does a second delete; both failures are swallowed.                   *)
CreateRolePermission(p, x) ==
    /\ work[p][x] = "write" /\ op[p] = "assign"
    /\ assigned' = assigned \union {x}
    /\ Settle(p, x)
    /\ UNCHANGED <<seeding, roleRead, wish, requests, torn, excused, crashes>>

DeleteRolePermission(p, x) ==
    /\ work[p][x] = "write" /\ op[p] = "remove"
    /\ assigned' = assigned \ {x}
    /\ Settle(p, x)
    /\ UNCHANGED <<seeding, roleRead, wish, requests, torn, excused, crashes>>

TaskFails(p, x) ==
    /\ work[p][x] # "none"
    /\ Settle(p, x)
    /\ excused' = excused \union {x}
    /\ UNCHANGED <<seeding, assigned, roleRead, wish, requests, torn, crashes>>

(* Whoever has the administrator's address is removed or takes another.    *)
ReleaseAdministrator ==
    /\ phase = "ready" /\ copies[Administrator] = 1
    /\ requests < MaxRequests
    /\ requests' = requests + 1
    /\ copies' = [copies EXCEPT ![Administrator] = 0]
    /\ UNCHANGED <<phase, task, holder, fresh, assigned, roleRead, op, work,
                   wish, torn, excused, crashes>>

(* updateAccount and importData ask nobody: another user gets the address. *)
(* If it does so while the administrator has it too, the lookup finds one  *)
(* of them and nothing changes here until the administrator gives it up.   *)
TakeAddress ==
    /\ phase = "ready" /\ Missing(Administrator)
    /\ requests < MaxRequests
    /\ requests' = requests + 1
    /\ copies' = [copies EXCEPT ![Administrator] = @ + 1]
    /\ holder' = "other"
    /\ UNCHANGED <<phase, task, fresh, assigned, roleRead, op, work,
                   wish, torn, excused, crashes>>

(* The process ends: by a failing query of the start, or by anything else. *)
Crash ==
    /\ phase # "down" /\ crashes < MaxCrashes
    /\ crashes' = crashes + 1
    /\ phase' = "down"
    /\ torn' = torn \union {x \in Seeds : task[x] = "follow"}
    /\ excused' = excused \union {x \in Permissions : Pending(x)}
    /\ op' = [p \in Slots |-> "none"]
    /\ work' = [p \in Slots |-> Idle]
    /\ UNCHANGED <<task, copies, holder, fresh, assigned, roleRead, wish, requests>>

SeedStep ==
    \/ \E x \in Seeds : Check(x) \/ Create(x) \/ AssignPermissionToRole(x)
    \/ CreateUser \/ ActiveAccount \/ AwaitGroup

(* The bounds are reached and nothing is in flight.                        *)
Rest ==
    /\ phase = "ready" /\ crashes = MaxCrashes /\ requests = MaxRequests
    /\ \A p \in Slots : op[p] = "none"
    /\ UNCHANGED vars

Next ==
    \/ Boot \/ SeedStep \/ Crash \/ ReleaseAdministrator \/ TakeAddress \/ Rest
    \/ \E r \in Rooms : InitRole(r)
    \/ \E p \in Slots :
          \/ AssignPermission(p) \/ RemovePermission(p) \/ RemoveListRolePermission(p)
          \/ \E x \in Permissions : \/ GetRolePermission(p, x) \/ TaskFails(p, x)
                                    \/ CreateRolePermission(p, x)
                                    \/ DeleteRolePermission(p, x)

Spec == Init /\ [][Next]_vars
-----------------------------------------------------------------------------
TypeOK ==
    /\ copies \in [Seeds -> Nat]
    /\ holder \in {"inactive", "active", "other"}
    /\ assigned \subseteq Permissions
    /\ phase \in {"down", "ready"} \union Groups
    /\ task \in [Seeds -> {"check", "create", "follow", "done"}]
    /\ roleRead \in [Rooms -> {"unread", "null", "found"}]
    /\ op \in [Slots -> {"none", "assign", "remove"}]
    /\ work \in [Slots -> [Permissions -> {"none", "check", "write"}]]
    /\ torn \subseteq Seeds /\ fresh \subseteq Roles /\ excused \subseteq Permissions
    /\ wish \in [Permissions -> {"none", "assign", "remove"}]
    /\ crashes \in Nat /\ requests \in Nat

(* Restarts are idempotent: however often and wherever onModuleInit is     *)
(* cut short, no seed is created twice, and none before the rows that it   *)
(* refers to (a user its role, an assignment its role).                    *)
Planted == INSTANCE Seeding WITH Loseable <- {Administrator}
SeedsOnceAndInOrder == Planted!Spec

(* The administrator of a running system can pass the e-mail guard unless  *)
(* a process ended between creating and activating the account, which no   *)
(* later start mends, or its address is another user's by now.             *)
AdministratorActiveUnlessTorn ==
    phase = "ready" /\ copies[Administrator] = 1
        => holder # "inactive" \/ Administrator \in torn

(* A running system's ADMIN role lacks a permission only if a process      *)
(* ended between creating and assigning it, or a request was about it.     *)
PermissionsAssignedUnlessTorn ==
    phase = "ready" => \A x \in Permissions :
        x \in assigned \/ x \in torn \/ wish[x] # "none"

(* The last request about a permission decides whether the role has it,    *)
(* over restarts too, unless it overlapped with another, one of them being *)
(* an assignment already answered, or died half-way.                       *)
LastRequestDecides ==
    \A x \in Permissions :
        ~Pending(x) /\ x \notin excused
            => /\ wish[x] = "assign" => x \in assigned
               /\ wish[x] = "remove" => x \notin assigned

(* UserInTabService works without a role's id, for as long as the process  *)
(* lives, only in the process that created the role.                       *)
RoleIdsKnownAfterFirstStart ==
    \A r \in Rooms : phase = "ready" /\ roleRead[r] = "null" => r \in fresh

(* What a running system lacks was lost by a process that ended between    *)
(* two writes, or is only unknown to the process that created it.          *)
NothingMissingUnlessTorn ==
    /\ AdministratorActiveUnlessTorn /\ PermissionsAssignedUnlessTorn
    /\ RoleIdsKnownAfterFirstStart
=============================================================================
