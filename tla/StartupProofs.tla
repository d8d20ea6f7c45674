--------------------------- MODULE StartupProofs ---------------------------
(***************************************************************************)
(* What a start promises for any seeds, any requests and any number of     *)
(* crashes, and that it implements Seeding.                                *)
(*                                                                         *)
(* A start works on the seeds of one rank at a time: those below are done, *)
(* those above are untouched (TasksOK).  A step therefore moves the task   *)
(* of one seed of the phase's rank, or the phase, or a request.            *)
(***************************************************************************)
EXTENDS Startup, TLAPS
-----------------------------------------------------------------------------
(* The inductive invariant.  A start goes through the ranks in order.      *)
Level(ph) == IF ph = "settings" THEN 0 ELSE IF ph = "roles" THEN 1
             ELSE IF ph = "admin" THEN 2 ELSE IF ph = "permissions" THEN 3 ELSE 4
Up == phase # "down"

TasksOK ==
    /\ \A x \in Seeds : copies[x] \in {0, 1}
    /\ Up => \A x \in Seeds :
          /\ Rank[x] < Level(phase) => task[x] = "done"
          /\ Rank[x] > Level(phase) => task[x] = "check"
          /\ task[x] = "create" => copies[x] = 0
          /\ task[x] \in {"follow", "done"} =>
                copies[x] = 1 \/ (x = Administrator /\ phase = "ready")
          /\ task[x] = "follow" => copies[x] = 1 /\ x \in Permissions \union {Administrator}

AdministratorOK ==
    copies[Administrator] = 1 => \/ holder # "inactive" \/ Administrator \in torn
                                 \/ Up /\ task[Administrator] = "follow"

(* A permission is assigned with its creation and by requests alone.       *)
AssignmentOK ==
    \A x \in Permissions :
        /\ copies[x] = 0 \/ (Up /\ task[x] = "follow") => wish[x] = "none"
        /\ copies[x] = 1 => \/ x \in assigned \/ x \in torn \/ wish[x] # "none"
                            \/ Up /\ task[x] = "follow"

RoleIdsOK ==
    Up => \A r \in Rooms : roleRead[r] = "null" => copies[r] = 0 \/ r \in fresh

(* The one request that may still decide about a permission.               *)
WorkOK ==
    \A p \in Slots : \A x \in Permissions : work[p][x] # "none" =>
        /\ phase = "ready"
        /\ wish[x] # "none"
        /\ op[p] # "none"
        /\ x \notin excused =>
              /\ op[p] = wish[x]
              /\ \A q \in Slots \ {p} : work[q][x] = "none"

IInv == /\ TypeOK /\ TasksOK /\ AdministratorOK /\ AssignmentOK /\ RoleIdsOK
        /\ WorkOK /\ LastRequestDecides
-----------------------------------------------------------------------------
LEMMA Ranks ==
    /\ \A x \in Seeds : Rank[x] \in 0..3
    /\ \A x \in Seeds : /\ Rank[x] = 0 <=> x \in Settings
                        /\ Rank[x] = 1 <=> x \in Roles
                        /\ Rank[x] = 2 <=> x = Administrator
                        /\ Rank[x] = 3 <=> x \in Permissions
    /\ Settings \subseteq Seeds /\ Roles \subseteq Seeds /\ Permissions \subseteq Seeds
    /\ Administrator \in Seeds /\ Administrator \notin Permissions
    /\ Administrator \notin Roles
    /\ Rooms \subseteq Roles
<1>1. \A x \in Seeds : /\ x \in Settings => Rank[x] = 0
                       /\ x \in Roles => Rank[x] = 1
                       /\ x = Administrator => Rank[x] = 2
                       /\ x \in Permissions => Rank[x] = 3
  BY SeedAssumption DEF Rank
<1>2. \A x \in Seeds : x \in Settings \/ x \in Roles \/ x = Administrator \/ x \in Permissions
  BY DEF Seeds
<1>3. /\ Settings \subseteq Seeds /\ Roles \subseteq Seeds /\ Permissions \subseteq Seeds
      /\ Administrator \in Seeds /\ Administrator \notin Permissions
      /\ Administrator \notin Roles /\ Rooms \subseteq Roles
  BY SeedAssumption, RoleAssumption DEF Seeds, Rooms
<1>4. \A x \in Seeds : /\ Rank[x] \in 0..3
                       /\ Rank[x] = 0 <=> x \in Settings
                       /\ Rank[x] = 1 <=> x \in Roles
                       /\ Rank[x] = 2 <=> x = Administrator
                       /\ Rank[x] = 3 <=> x \in Permissions
  BY <1>1, <1>2
<1> QED
  BY <1>3, <1>4

LEMMA GroupNames == Groups = {"settings", "roles", "admin", "permissions"}
BY DEF Groups, Group

(* The seeds of a phase are those of its rank, and the phases follow each  *)
(* other by rank.                                                          *)
LEMMA Phases ==
    ASSUME NEW ph \in Groups
    PROVE  /\ Group[ph] = {x \in Seeds : Rank[x] = Level(ph)}
           /\ NextGroup[ph] \in {"ready"} \union Groups
           /\ Level(NextGroup[ph]) = Level(ph) + 1
           /\ Level(ph) \in 0..3 /\ ph # "down" /\ NextGroup[ph] # "down"
<1>1. CASE ph = "settings"
  BY <1>1, Ranks, GroupNames DEF Group, NextGroup, Level
<1>2. CASE ph = "roles"
  BY <1>2, Ranks, GroupNames DEF Group, NextGroup, Level
<1>3. CASE ph = "admin"
  BY <1>3, Ranks, GroupNames DEF Group, NextGroup, Level
<1>4. CASE ph = "permissions"
  BY <1>4, Ranks, GroupNames DEF Group, NextGroup, Level
<1> QED
  BY <1>1, <1>2, <1>3, <1>4, GroupNames

LEMMA InitIInv == Init => IInv
<1> SUFFICES ASSUME Init PROVE IInv
  OBVIOUS
<1> USE Ranks
<1>1. TypeOK
  BY DEF Init, TypeOK, Idle
<1>2. TasksOK /\ RoleIdsOK
  BY DEF Init, TasksOK, RoleIdsOK, Up
<1>3. AdministratorOK
  BY DEF Init, AdministratorOK
<1>4. AssignmentOK
  BY DEF Init, AssignmentOK, Up
<1>5. WorkOK
  BY DEF Init, WorkOK, Idle
<1>6. LastRequestDecides
  BY DEF Init, LastRequestDecides
<1> QED
  BY <1>1, <1>2, <1>3, <1>4, <1>5, <1>6 DEF IInv

(* A task that runs is one of the phase's rank.                            *)
LEMMA TheTask ==
    ASSUME IInv, NEW x, NEW step, Running(x, step)
    PROVE  x \in Seeds /\ Rank[x] = Level(phase) /\ task[x] = step /\ phase \in Groups
           /\ Up /\ phase # "ready"
BY Phases, GroupNames DEF Running, Up

(* While a start is seeding no request is in flight.                       *)
LEMMA NothingPending ==
    ASSUME IInv, phase # "ready"
    PROVE  \A p \in Slots : \A x \in Permissions : work[p][x] = "none"
BY DEF IInv, WorkOK

LEMMA CheckIInv ==
    ASSUME IInv, NEW x \in Seeds, Check(x)
    PROVE  IInv'
<1> USE Ranks
<1>1. /\ Rank[x] = Level(phase) /\ task[x] = "check" /\ Up /\ phase # "ready"
      /\ phase \in Groups
  BY TheTask DEF Check
<1>2. task' = [task EXCEPT ![x] = IF copies[x] = 0 THEN "create" ELSE "done"]
  BY DEF Check, Advance, Missing
<1>3. UNCHANGED <<phase, copies, holder, assigned, fresh, roleRead, op, work, wish,
                  requests, torn, excused, crashes>>
  BY DEF Check, serving
<1>4. TypeOK'
  BY <1>2, <1>3 DEF IInv, TypeOK
<1>5. TasksOK'
  BY <1>1, <1>2, <1>3 DEF IInv, TypeOK, TasksOK, Up
<1>6. AdministratorOK'
  BY <1>1, <1>2, <1>3 DEF IInv, TypeOK, AdministratorOK, Up
<1>7. AssignmentOK'
  BY <1>1, <1>2, <1>3 DEF IInv, TypeOK, AssignmentOK, Up
<1>8. RoleIdsOK' /\ WorkOK' /\ LastRequestDecides'
  BY <1>3 DEF IInv, RoleIdsOK, WorkOK, LastRequestDecides, Up, Pending
<1> QED
  BY <1>4, <1>5, <1>6, <1>7, <1>8 DEF IInv

LEMMA CreateIInv ==
    ASSUME IInv, NEW x \in Seeds, Create(x)
    PROVE  IInv'
<1> USE Ranks
<1>1. /\ Rank[x] = Level(phase) /\ task[x] = "create" /\ Up /\ phase # "ready"
      /\ phase \in Groups /\ copies[x] = 0
  BY TheTask DEF Create, IInv, TasksOK
<1>2. /\ task' = [task EXCEPT ![x] = IF x \in Permissions THEN "follow" ELSE "done"]
      /\ copies' = [copies EXCEPT ![x] = 1]
      /\ fresh' = fresh \union ({x} \intersect Roles)
      /\ x # Administrator
  BY <1>1 DEF Create, Advance, IInv, TypeOK
<1>3. UNCHANGED <<phase, holder, assigned, roleRead, op, work, wish,
                  requests, torn, excused, crashes>>
  BY DEF Create, serving
<1>4. TypeOK'
  BY <1>2, <1>3 DEF IInv, TypeOK
<1>5. TasksOK'
  BY <1>1, <1>2, <1>3 DEF IInv, TypeOK, TasksOK, Up
<1>6. AdministratorOK'
  BY <1>1, <1>2, <1>3 DEF IInv, TypeOK, AdministratorOK, Up
<1>7. AssignmentOK'
  BY <1>1, <1>2, <1>3 DEF IInv, TypeOK, AssignmentOK, Up
<1>8. RoleIdsOK'
  BY <1>1, <1>2, <1>3 DEF IInv, TypeOK, RoleIdsOK, Up
<1>9. WorkOK' /\ LastRequestDecides'
  BY <1>3 DEF IInv, WorkOK, LastRequestDecides, Pending
<1> QED
  BY <1>4, <1>5, <1>6, <1>7, <1>8, <1>9 DEF IInv

LEMMA CreateUserIInv ==
    ASSUME IInv, CreateUser
    PROVE  IInv'
<1> USE Ranks
<1> DEFINE x == Administrator
<1>1. /\ Rank[x] = Level(phase) /\ task[x] = "create" /\ Up /\ phase # "ready"
      /\ phase \in Groups /\ copies[x] = 0
  BY TheTask DEF CreateUser, IInv, TasksOK
<1>2. /\ task' = [task EXCEPT ![x] = "follow"]
      /\ copies' = [copies EXCEPT ![x] = 1]
      /\ holder' = "inactive" /\ torn' = torn \ {x}
  BY <1>1 DEF CreateUser, Advance, IInv, TypeOK
<1>3. UNCHANGED <<phase, assigned, fresh, roleRead, op, work, wish,
                  requests, excused, crashes>>
  BY DEF CreateUser, serving
<1>4. TypeOK'
  BY <1>2, <1>3 DEF IInv, TypeOK
<1>5. TasksOK'
  BY <1>1, <1>2, <1>3 DEF IInv, TypeOK, TasksOK, Up
<1>6. AdministratorOK'
  BY <1>1, <1>2, <1>3 DEF IInv, TypeOK, AdministratorOK, Up
<1>7. AssignmentOK'
  BY <1>1, <1>2, <1>3 DEF IInv, TypeOK, AssignmentOK, Up
<1>8. RoleIdsOK'
  BY <1>1, <1>2, <1>3 DEF IInv, TypeOK, RoleIdsOK, Up
<1>9. WorkOK' /\ LastRequestDecides'
  BY <1>3 DEF IInv, WorkOK, LastRequestDecides, Pending
<1> QED
  BY <1>4, <1>5, <1>6, <1>7, <1>8, <1>9 DEF IInv

LEMMA ActiveAccountIInv ==
    ASSUME IInv, ActiveAccount
    PROVE  IInv'
<1> USE Ranks
<1> DEFINE x == Administrator
<1>1. /\ Rank[x] = Level(phase) /\ task[x] = "follow" /\ Up /\ phase # "ready"
      /\ phase \in Groups
  BY TheTask DEF ActiveAccount
<1>2. task' = [task EXCEPT ![x] = "done"] /\ holder' = "active"
  BY DEF ActiveAccount, Advance
<1>3. UNCHANGED <<phase, copies, assigned, fresh, roleRead, op, work, wish,
                  requests, torn, excused, crashes>>
  BY DEF ActiveAccount, serving
<1>4. TypeOK'
  BY <1>2, <1>3 DEF IInv, TypeOK
<1>5. TasksOK'
  BY <1>1, <1>2, <1>3 DEF IInv, TypeOK, TasksOK, Up
<1>6. AdministratorOK'
  BY <1>2 DEF AdministratorOK
<1>7. AssignmentOK'
  BY <1>1, <1>2, <1>3 DEF IInv, TypeOK, AssignmentOK, Up
<1>8. RoleIdsOK' /\ WorkOK' /\ LastRequestDecides'
  BY <1>3 DEF IInv, RoleIdsOK, WorkOK, LastRequestDecides, Up, Pending
<1> QED
  BY <1>4, <1>5, <1>6, <1>7, <1>8 DEF IInv

LEMMA AssignIInv ==
    ASSUME IInv, NEW x \in Seeds, AssignPermissionToRole(x)
    PROVE  IInv'
<1> USE Ranks
<1>1. /\ Rank[x] = Level(phase) /\ task[x] = "follow" /\ Up /\ phase # "ready"
      /\ phase \in Groups /\ x \in Permissions
  BY TheTask DEF AssignPermissionToRole
<1>2. task' = [task EXCEPT ![x] = "done"] /\ assigned' = assigned \union {x}
  BY DEF AssignPermissionToRole, Advance
<1>3. UNCHANGED <<phase, copies, holder, fresh, roleRead, op, work, wish,
                  requests, torn, excused, crashes>>
  BY DEF AssignPermissionToRole, serving
<1>4. TypeOK'
  BY <1>1, <1>2, <1>3 DEF IInv, TypeOK
<1>5. TasksOK'
  BY <1>1, <1>2, <1>3 DEF IInv, TypeOK, TasksOK, Up
<1>6. AdministratorOK'
  BY <1>1, <1>2, <1>3 DEF IInv, TypeOK, AdministratorOK, Up
<1>7. AssignmentOK'
  BY <1>1, <1>2, <1>3 DEF IInv, TypeOK, AssignmentOK, Up
<1>8. RoleIdsOK' /\ WorkOK'
  BY <1>3 DEF IInv, RoleIdsOK, WorkOK, Up
<1>9. LastRequestDecides'
  <2>1. wish[x] = "none"
    BY <1>1 DEF IInv, AssignmentOK
  <2> QED
    BY <1>2, <1>3, <2>1 DEF IInv, LastRequestDecides, Pending
<1> QED
  BY <1>4, <1>5, <1>6, <1>7, <1>8, <1>9 DEF IInv

LEMMA AwaitIInv ==
    ASSUME IInv, AwaitGroup
    PROVE  IInv'
<1> USE Ranks
<1>1. /\ phase \in Groups /\ phase' = NextGroup[phase]
      /\ \A x \in Group[phase] : task[x] = "done"
  BY DEF AwaitGroup
<1>2. /\ phase' \in {"ready"} \union Groups /\ Up /\ Up' /\ phase # "ready"
      /\ Level(phase') = Level(phase) + 1 /\ Level(phase) \in 0..3
      /\ \A x \in Seeds : Rank[x] = Level(phase) => task[x] = "done"
  BY <1>1, Phases, GroupNames DEF Up
<1>3. UNCHANGED <<task, copies, holder, assigned, fresh, roleRead, op, work, wish,
                  requests, torn, excused, crashes>>
  BY DEF AwaitGroup, serving
<1>4. TypeOK'
  BY <1>2, <1>3 DEF IInv, TypeOK
<1>5. TasksOK'
  <2>1. ASSUME NEW x \in Seeds
        PROVE  /\ Rank[x] < Level(phase') => task[x] = "done"
               /\ Rank[x] > Level(phase') => task[x] = "check"
    <3>1. PICK r \in 0..3, l \in 0..3 : r = Rank[x] /\ l = Level(phase)
      BY <1>2
    <3> QED
      BY <1>2, <3>1 DEF IInv, TasksOK
  <2> QED
    BY <1>2, <1>3, <2>1 DEF IInv, TasksOK
<1>6. AdministratorOK' /\ AssignmentOK' /\ RoleIdsOK'
  BY <1>2, <1>3 DEF IInv, AdministratorOK, AssignmentOK, RoleIdsOK
<1>7. WorkOK'
  BY <1>2, <1>3, NothingPending DEF WorkOK
<1>8. LastRequestDecides'
  BY <1>3 DEF IInv, LastRequestDecides, Pending
<1> QED
  BY <1>4, <1>5, <1>6, <1>7, <1>8 DEF IInv

LEMMA BootIInv ==
    ASSUME IInv, Boot
    PROVE  IInv'
<1> USE Ranks
<1>1. /\ phase = "down" /\ phase' = "settings" /\ task' = [x \in Seeds |-> "check"]
      /\ roleRead' = [r \in Rooms |-> "unread"] /\ fresh' = {}
  BY DEF Boot
<1>2. UNCHANGED <<copies, holder, assigned, op, work, wish, requests,
                  torn, excused, crashes>>
  BY DEF Boot, serving
<1>3. Level(phase') = 0 /\ phase' \in Groups /\ ~Up
  BY <1>1, GroupNames DEF Level, Up
<1>4. TypeOK'
  BY <1>1, <1>2, <1>3 DEF IInv, TypeOK
<1>5. TasksOK'
  BY <1>1, <1>2, <1>3 DEF IInv, TasksOK
<1>6. AdministratorOK' /\ AssignmentOK'
  BY <1>1, <1>2, <1>3 DEF IInv, AdministratorOK, AssignmentOK
<1>7. RoleIdsOK'
  BY <1>1 DEF RoleIdsOK
<1>8. WorkOK' /\ LastRequestDecides'
  BY <1>1, <1>2, NothingPending DEF IInv, WorkOK, LastRequestDecides, Pending
<1> QED
  BY <1>4, <1>5, <1>6, <1>7, <1>8 DEF IInv

LEMMA InitRoleIInv ==
    ASSUME IInv, NEW r \in Rooms, InitRole(r)
    PROVE  IInv'
<1>1. UNCHANGED <<phase, task, copies, holder, fresh, assigned, op, work, wish,
                  requests, torn, excused, crashes>>
  BY DEF InitRole, seeding, serving
<1>2. roleRead' = [roleRead EXCEPT ![r] = IF copies[r] = 0 THEN "null" ELSE "found"]
  BY DEF InitRole, Missing
<1>3. TypeOK' /\ RoleIdsOK'
  BY <1>1, <1>2 DEF IInv, TypeOK, RoleIdsOK, Up
<1>4. TasksOK' /\ AdministratorOK' /\ AssignmentOK'
  BY <1>1 DEF IInv, TasksOK, AdministratorOK, AssignmentOK, Up
<1>5. WorkOK' /\ LastRequestDecides'
  BY <1>1 DEF IInv, WorkOK, LastRequestDecides, Pending
<1> QED
  BY <1>3, <1>4, <1>5 DEF IInv

LEMMA ReleaseIInv ==
    ASSUME IInv, ReleaseAdministrator
    PROVE  IInv'
<1> USE Ranks
<1>1. /\ phase = "ready" /\ copies' = [copies EXCEPT ![Administrator] = 0]
      /\ requests' = requests + 1
  BY DEF ReleaseAdministrator
<1>2. UNCHANGED <<phase, task, holder, fresh, assigned, roleRead, op, work,
                  wish, torn, excused, crashes>>
  BY DEF ReleaseAdministrator
<1>3. TypeOK'
  BY <1>1, <1>2 DEF IInv, TypeOK
<1>4. TasksOK'
  <2>1. task[Administrator] = "done"
    BY <1>1 DEF IInv, TasksOK, Level, Up
  <2> QED
    BY <1>1, <1>2, <2>1 DEF IInv, TypeOK, TasksOK, Up
<1>5. AdministratorOK'
  BY <1>1 DEF IInv, TypeOK, AdministratorOK
<1>6. AssignmentOK' /\ RoleIdsOK'
  BY <1>1, <1>2 DEF IInv, TypeOK, AssignmentOK, RoleIdsOK, Up
<1>7. WorkOK' /\ LastRequestDecides'
  BY <1>2 DEF IInv, WorkOK, LastRequestDecides, Pending
<1> QED
  BY <1>3, <1>4, <1>5, <1>6, <1>7 DEF IInv

LEMMA TakeIInv ==
    ASSUME IInv, TakeAddress
    PROVE  IInv'
<1> USE Ranks
<1>1. /\ phase = "ready" /\ copies' = [copies EXCEPT ![Administrator] = 1]
      /\ holder' = "other" /\ requests' = requests + 1
  BY DEF TakeAddress, Missing, IInv, TypeOK
<1>2. UNCHANGED <<phase, task, fresh, assigned, roleRead, op, work,
                  wish, torn, excused, crashes>>
  BY DEF TakeAddress
<1>3. TypeOK'
  BY <1>1, <1>2 DEF IInv, TypeOK
<1>4. TasksOK'
  <2>1. task[Administrator] = "done"
    BY <1>1 DEF IInv, TasksOK, Level, Up
  <2> QED
    BY <1>1, <1>2, <2>1 DEF IInv, TypeOK, TasksOK, Up
<1>5. AdministratorOK'
  BY <1>1 DEF AdministratorOK
<1>6. AssignmentOK' /\ RoleIdsOK'
  BY <1>1, <1>2 DEF IInv, TypeOK, AssignmentOK, RoleIdsOK, Up
<1>7. WorkOK' /\ LastRequestDecides'
  BY <1>2 DEF IInv, WorkOK, LastRequestDecides, Pending
<1> QED
  BY <1>3, <1>4, <1>5, <1>6, <1>7 DEF IInv

LEMMA CrashIInv ==
    ASSUME IInv, Crash
    PROVE  IInv'
<1> USE Ranks
<1>1. /\ Up /\ phase' = "down"
      /\ torn' = torn \union {x \in Seeds : task[x] = "follow"}
      /\ excused' = excused \union {x \in Permissions : Pending(x)}
      /\ op' = [p \in Slots |-> "none"] /\ work' = [p \in Slots |-> Idle]
      /\ crashes' = crashes + 1
  BY DEF Crash, Up
<1>2. UNCHANGED <<task, copies, holder, fresh, assigned, roleRead, wish, requests>>
  BY DEF Crash
<1>3. TypeOK'
  BY <1>1, <1>2 DEF IInv, TypeOK, Idle
<1>4. TasksOK' /\ RoleIdsOK'
  BY <1>1, <1>2 DEF IInv, TasksOK, RoleIdsOK, Up
<1>5. AdministratorOK' /\ AssignmentOK'
  BY <1>1, <1>2 DEF IInv, AdministratorOK, AssignmentOK, Up
<1>6. WorkOK' /\ LastRequestDecides'
  BY <1>1, <1>2 DEF IInv, WorkOK, LastRequestDecides, Pending, Idle
<1> QED
  BY <1>3, <1>4, <1>5, <1>6 DEF IInv

(* The requests touch neither the rows nor the start: three conjuncts are  *)
(* about those alone.                                                      *)
LEMMA StartUntouched ==
    ASSUME IInv, UNCHANGED <<phase, task, copies, holder, fresh, roleRead, torn>>
    PROVE  TasksOK' /\ AdministratorOK' /\ RoleIdsOK'
BY DEF IInv, TasksOK, AdministratorOK, RoleIdsOK, Up

(* What the end of a task does to the requests: the permission's work is   *)
(* over, and the request with it when no other permission has work left.   *)
LEMMA Settled ==
    ASSUME IInv, NEW p \in Slots, NEW x \in Permissions, Settle(p, x)
    PROVE  /\ op' \in [Slots -> {"none", "assign", "remove"}]
           /\ work' \in [Slots -> [Permissions -> {"none", "check", "write"}]]
           /\ work'[p][x] = "none"
           /\ \A q \in Slots : \A y \in Permissions :
                 /\ work'[q][y] # "none" => work[q][y] # "none" /\ op'[q] = op[q]
                 /\ work[q][y] # "none" => work'[q][y] # "none" \/ (q = p /\ y = x)
<1>1. /\ op \in [Slots -> {"none", "assign", "remove"}]
      /\ work \in [Slots -> [Permissions -> {"none", "check", "write"}]]
  BY DEF IInv, TypeOK
<1>2. work' = [work EXCEPT ![p] = [work[p] EXCEPT ![x] = "none"]]
  BY <1>1 DEF Settle
<1>3. CASE \A y \in Permissions \ {x} : work[p][y] = "none"
  <2>1. op' = [op EXCEPT ![p] = "none"]
    BY <1>3 DEF Settle
  <2> QED
    BY <1>1, <1>2, <1>3, <2>1
<1>4. CASE ~\A y \in Permissions \ {x} : work[p][y] = "none"
  <2>1. op' = op
    BY <1>4 DEF Settle
  <2> QED
    BY <1>1, <1>2, <2>1
<1> QED
  BY <1>3, <1>4

(* While a permission is not excused only one request can be at work on    *)
(* it, so the end of that task decides whether the role has it.            *)
LEMMA SettleIInv ==
    ASSUME IInv, NEW p \in Slots, NEW x \in Permissions, Settle(p, x),
           work[p][x] # "none",
           assigned' \subseteq Permissions,
           \A y \in Permissions \ {x} : y \in assigned' <=> y \in assigned,
           excused' \subseteq Permissions,
           \A y \in Permissions \ {x} : y \in excused' <=> y \in excused,
           x \in excused => x \in excused',
           x \in excused' \/ (op[p] = "assign" => x \in assigned'),
           x \in excused' \/ (op[p] = "remove" => x \notin assigned'),
           UNCHANGED <<seeding, roleRead, wish, requests, torn, crashes>>
    PROVE  IInv'
<1> USE Ranks
<1>1. UNCHANGED <<phase, task, copies, holder, fresh, roleRead, wish, requests,
                  torn, crashes>>
  BY DEF seeding
<1>2. /\ op' \in [Slots -> {"none", "assign", "remove"}]
      /\ work' \in [Slots -> [Permissions -> {"none", "check", "write"}]]
      /\ work'[p][x] = "none"
      /\ \A q \in Slots : \A y \in Permissions :
            /\ work'[q][y] # "none" => work[q][y] # "none" /\ op'[q] = op[q]
            /\ work[q][y] # "none" => work'[q][y] # "none" \/ (q = p /\ y = x)
  BY Settled
<1>3. TypeOK'
  BY <1>1, <1>2 DEF IInv, TypeOK
<1>4. TasksOK' /\ AdministratorOK' /\ RoleIdsOK'
  BY <1>1, StartUntouched
<1>5. wish[x] # "none"
  BY DEF IInv, WorkOK
<1>6. AssignmentOK'
  BY <1>1, <1>5 DEF IInv, AssignmentOK, Up
<1>7. WorkOK'
  <2> SUFFICES ASSUME NEW q \in Slots, NEW y \in Permissions, work'[q][y] # "none"
               PROVE  /\ phase' = "ready" /\ wish'[y] # "none" /\ op'[q] # "none"
                      /\ y \notin excused' =>
                            /\ op'[q] = wish'[y]
                            /\ \A r \in Slots \ {q} : work'[r][y] = "none"
    BY DEF WorkOK
  <2>1. work[q][y] # "none" /\ op'[q] = op[q]
    BY <1>2
  <2>2. y \notin excused' => y \notin excused
    BY <1>1
  <2> QED
    BY <1>1, <1>2, <2>1, <2>2 DEF IInv, WorkOK
<1>8. LastRequestDecides'
  <2> SUFFICES ASSUME NEW y \in Permissions, ~Pending(y)', y \notin excused'
               PROVE  /\ wish'[y] = "assign" => y \in assigned'
                      /\ wish'[y] = "remove" => y \notin assigned'
    BY DEF LastRequestDecides
  <2>1. CASE y = x
    <3>1. x \notin excused
      BY <2>1
    <3>2. op[p] = wish[x]
      BY <3>1 DEF IInv, WorkOK
    <3> QED
      BY <1>1, <2>1, <3>2
  <2>2. CASE y # x
    <3>1. ~Pending(y)
      BY <1>2, <2>2 DEF Pending
    <3> QED
      BY <1>1, <2>2, <3>1 DEF IInv, LastRequestDecides
  <2> QED
    BY <2>1, <2>2
<1> QED
  BY <1>3, <1>4, <1>6, <1>7, <1>8 DEF IInv

(* A new request is the last one about each of its permissions, and the    *)
(* only one in flight where none was.                                      *)
LEMMA RequestIInv ==
    ASSUME IInv, NEW p \in Slots, NEW kind \in {"assign", "remove"},
           NEW xs \in SUBSET Permissions, Request(p, kind, xs)
    PROVE  IInv'
<1> USE Ranks
<1>1. /\ phase = "ready" /\ op[p] = "none"
      /\ op' = [op EXCEPT ![p] = kind]
      /\ work' = [work EXCEPT ![p] = [x \in Permissions |->
                      IF x \in xs THEN "check" ELSE "none"]]
      /\ wish' = [x \in Permissions |-> IF x \in xs THEN kind ELSE wish[x]]
      /\ excused' = (excused \ xs) \union {x \in xs : Pending(x)}
      /\ requests' = requests + 1
  BY DEF Request
<1>2. UNCHANGED <<phase, task, copies, holder, fresh, assigned, roleRead, torn, crashes>>
  BY DEF Request, seeding
<1>3. TypeOK'
  BY <1>1, <1>2 DEF IInv, TypeOK
<1>4. TasksOK' /\ AdministratorOK' /\ RoleIdsOK'
  BY <1>2, StartUntouched
<1>5. AssignmentOK'
  <2>1. \A x \in Permissions : task[x] = "done" /\ copies[x] = 1
    BY <1>1 DEF IInv, TasksOK, Level, Up
  <2> QED
    BY <1>1, <1>2, <2>1 DEF IInv, AssignmentOK
<1>6. \A x \in Permissions : work[p][x] = "none"
  BY <1>1 DEF IInv, WorkOK
<1>7. WorkOK'
  <2> SUFFICES ASSUME NEW q \in Slots, NEW y \in Permissions, work'[q][y] # "none"
               PROVE  /\ phase' = "ready" /\ wish'[y] # "none" /\ op'[q] # "none"
                      /\ y \notin excused' =>
                            /\ op'[q] = wish'[y]
                            /\ \A r \in Slots \ {q} : work'[r][y] = "none"
    BY DEF WorkOK
  <2>1. /\ \A r \in Slots \ {p} : work'[r] = work[r] /\ op'[r] = op[r]
        /\ op'[p] = kind
        /\ work'[p][y] # "none" => y \in xs
    BY <1>1 DEF IInv, TypeOK
  <2>2. CASE y \in xs /\ y \notin excused'
    <3>1. \A r \in Slots : work[r][y] = "none"
      BY <1>1, <2>2 DEF Pending
    <3>2. q = p
      BY <2>1, <3>1
    <3> QED
      BY <1>1, <1>2, <2>1, <2>2, <3>1, <3>2
  <2>3. CASE y \in xs /\ y \in excused'
    BY <1>1, <1>2, <2>1, <2>3 DEF IInv, WorkOK
  <2>4. CASE y \notin xs
    <3>1. q # p /\ work[q][y] # "none"
      BY <2>1, <2>4
    <3> QED
      BY <1>1, <1>2, <1>6, <2>1, <2>4, <3>1 DEF IInv, WorkOK
  <2> QED
    BY <2>2, <2>3, <2>4
<1>8. LastRequestDecides'
  <2> SUFFICES ASSUME NEW y \in Permissions, ~Pending(y)', y \notin excused'
               PROVE  /\ wish'[y] = "assign" => y \in assigned'
                      /\ wish'[y] = "remove" => y \notin assigned'
    BY DEF LastRequestDecides
  <2>1. work'[p][y] = "none"
    BY DEF Pending
  <2>2. y \notin xs
    BY <1>1, <2>1 DEF IInv, TypeOK
  <2>3. ~Pending(y)
    <3>1. \A r \in Slots : r # p => work'[r] = work[r]
      BY <1>1 DEF IInv, TypeOK
    <3> QED
      BY <1>6, <3>1 DEF Pending
  <2> QED
    BY <1>1, <1>2, <2>2, <2>3 DEF IInv, LastRequestDecides
<1> QED
  BY <1>3, <1>4, <1>5, <1>7, <1>8 DEF IInv

LEMMA GetRolePermissionIInv ==
    ASSUME IInv, NEW p \in Slots, NEW x \in Permissions, GetRolePermission(p, x)
    PROVE  IInv'
<1> USE Ranks
<1>1. /\ work[p][x] = "check"
      /\ UNCHANGED <<seeding, assigned, roleRead, wish, requests, torn, excused, crashes>>
  BY DEF GetRolePermission
<1>2. op[p] \in {"assign", "remove"}
  BY <1>1 DEF IInv, TypeOK, WorkOK
<1>3. assigned \subseteq Permissions /\ excused \subseteq Permissions
  BY DEF IInv, TypeOK
<1>4. CASE (x \in assigned) = (op[p] = "remove")
  <2>1. work' = [work EXCEPT ![p] = [work[p] EXCEPT ![x] = "write"]] /\ op' = op
    BY <1>4 DEF GetRolePermission, IInv, TypeOK
  <2>2. UNCHANGED <<phase, task, copies, holder, fresh, assigned, roleRead, wish,
                    requests, torn, excused, crashes>>
    BY <1>1 DEF seeding
  <2>3. \A q \in Slots : \A y \in Permissions :
            work'[q][y] # "none" <=> work[q][y] # "none"
    BY <1>1, <2>1 DEF IInv, TypeOK
  <2>4. TypeOK'
    BY <2>1, <2>2 DEF IInv, TypeOK
  <2>5. TasksOK' /\ AdministratorOK' /\ RoleIdsOK'
    BY <2>2, StartUntouched
  <2>6. AssignmentOK'
    BY <2>2 DEF IInv, AssignmentOK, Up
  <2>7. WorkOK'
    BY <2>1, <2>2, <2>3 DEF IInv, WorkOK
  <2>8. LastRequestDecides'
    BY <2>2, <2>3 DEF IInv, LastRequestDecides, Pending
  <2> QED
    BY <2>4, <2>5, <2>6, <2>7, <2>8 DEF IInv
<1>5. CASE ~((x \in assigned) = (op[p] = "remove"))
  <2>1. Settle(p, x)
    BY <1>5 DEF GetRolePermission
  <2>2. /\ op[p] = "assign" => x \in assigned'
        /\ op[p] = "remove" => x \notin assigned'
    BY <1>1, <1>2, <1>5
  <2> QED
    BY <1>1, <1>3, <2>1, <2>2, SettleIInv
<1> QED
  BY <1>4, <1>5

LEMMA CreateRolePermissionIInv ==
    ASSUME IInv, NEW p \in Slots, NEW x \in Permissions, CreateRolePermission(p, x)
    PROVE  IInv'
<1>1. /\ work[p][x] = "write" /\ op[p] = "assign" /\ assigned' = assigned \union {x}
      /\ Settle(p, x)
      /\ UNCHANGED <<seeding, roleRead, wish, requests, torn, excused, crashes>>
  BY DEF CreateRolePermission
<1>2. assigned \subseteq Permissions /\ excused \subseteq Permissions
  BY DEF IInv, TypeOK
<1> QED
  BY <1>1, <1>2, SettleIInv

LEMMA DeleteRolePermissionIInv ==
    ASSUME IInv, NEW p \in Slots, NEW x \in Permissions, DeleteRolePermission(p, x)
    PROVE  IInv'
<1>1. /\ work[p][x] = "write" /\ op[p] = "remove" /\ assigned' = assigned \ {x}
      /\ Settle(p, x)
      /\ UNCHANGED <<seeding, roleRead, wish, requests, torn, excused, crashes>>
  BY DEF DeleteRolePermission
<1>2. assigned \subseteq Permissions /\ excused \subseteq Permissions
  BY DEF IInv, TypeOK
<1> QED
  BY <1>1, <1>2, SettleIInv

LEMMA TaskFailsIInv ==
    ASSUME IInv, NEW p \in Slots, NEW x \in Permissions, TaskFails(p, x)
    PROVE  IInv'
<1>1. /\ work[p][x] # "none" /\ excused' = excused \union {x}
      /\ Settle(p, x)
      /\ UNCHANGED <<seeding, assigned, roleRead, wish, requests, torn, crashes>>
  BY DEF TaskFails
<1>2. assigned \subseteq Permissions /\ excused \subseteq Permissions
  BY DEF IInv, TypeOK
<1> QED
  BY <1>1, <1>2, SettleIInv

LEMMA StutterIInv ==
    ASSUME IInv, UNCHANGED vars
    PROVE  IInv'
<1>1. UNCHANGED <<copies, holder, assigned, phase, task, roleRead, op, work,
                  torn, fresh, wish, excused, crashes, requests>>
  BY DEF vars, seeding, serving
<1>2. TypeOK'
  BY <1>1 DEF IInv, TypeOK
<1>3. TasksOK' /\ AdministratorOK' /\ RoleIdsOK'
  BY <1>1, StartUntouched
<1>4. AssignmentOK' /\ WorkOK' /\ LastRequestDecides'
  BY <1>1 DEF IInv, AssignmentOK, WorkOK, LastRequestDecides, Up, Pending
<1> QED
  BY <1>2, <1>3, <1>4 DEF IInv

LEMMA NextIInv ==
    ASSUME IInv, [Next]_vars
    PROVE  IInv'
<1>1. CASE Boot
  BY <1>1, BootIInv
<1>2. CASE SeedStep
  BY <1>2, CheckIInv, CreateIInv, AssignIInv, CreateUserIInv, ActiveAccountIInv,
     AwaitIInv DEF SeedStep
<1>3. CASE Crash
  BY <1>3, CrashIInv
<1>4. CASE ReleaseAdministrator
  BY <1>4, ReleaseIInv
<1>5. CASE \E r \in Rooms : InitRole(r)
  BY <1>5, InitRoleIInv
<1>6. ASSUME NEW p \in Slots, AssignPermission(p) \/ RemovePermission(p)
                              \/ RemoveListRolePermission(p)
      PROVE  IInv'
  BY <1>6, RequestIInv DEF AssignPermission, RemovePermission, RemoveListRolePermission
<1>7. ASSUME NEW p \in Slots, NEW x \in Permissions,
             GetRolePermission(p, x) \/ TaskFails(p, x)
             \/ CreateRolePermission(p, x) \/ DeleteRolePermission(p, x)
      PROVE  IInv'
  BY <1>7, GetRolePermissionIInv, TaskFailsIInv, CreateRolePermissionIInv,
     DeleteRolePermissionIInv
<1>8. CASE UNCHANGED vars
  BY <1>8, StutterIInv
<1>9. CASE TakeAddress
  BY <1>9, TakeIInv
<1> QED
  BY <1>1, <1>2, <1>3, <1>4, <1>5, <1>6, <1>7, <1>8, <1>9 DEF Next, Rest

THEOREM Invariance == Spec => []IInv
<1>1. IInv /\ [Next]_vars => IInv'
  BY NextIInv
<1> QED
  BY InitIInv, <1>1, PTL DEF Spec
-----------------------------------------------------------------------------
(* Every reachable state is one of a database, a process and its requests. *)
THEOREM TypeCorrect == Spec => []TypeOK
<1>1. IInv => TypeOK
  BY DEF IInv
<1> QED
  BY Invariance, <1>1, PTL

(* onModuleInit leaves an inactive administrator only where a process      *)
(* ended between createUser and activeAccount; an address that another     *)
(* user has taken is not looked at further.                                *)
THEOREM ActiveUnlessTorn == Spec => []AdministratorActiveUnlessTorn
<1>1. IInv => AdministratorActiveUnlessTorn
  <2> SUFFICES ASSUME IInv, phase = "ready", copies[Administrator] = 1
               PROVE  holder # "inactive" \/ Administrator \in torn
    BY DEF AdministratorActiveUnlessTorn
  <2>1. task[Administrator] = "done"
    BY Ranks DEF IInv, TasksOK, Level, Up
  <2> QED
    BY <2>1 DEF IInv, AdministratorOK
<1> QED
  BY Invariance, <1>1, PTL

(* It leaves a permission unassigned only where a process ended between    *)
(* its creation and its assignment, or a request took it away.             *)
THEOREM AssignedUnlessTorn == Spec => []PermissionsAssignedUnlessTorn
<1>1. IInv => PermissionsAssignedUnlessTorn
  <2> SUFFICES ASSUME IInv, phase = "ready", NEW x \in Permissions
               PROVE  x \in assigned \/ x \in torn \/ wish[x] # "none"
    BY DEF PermissionsAssignedUnlessTorn
  <2>1. task[x] = "done" /\ copies[x] = 1
    BY Ranks DEF IInv, TasksOK, Level, Up
  <2> QED
    BY <2>1 DEF IInv, AssignmentOK
<1> QED
  BY Invariance, <1>1, PTL

(* Of the requests about one permission the last decides, restarts and     *)
(* all, unless two were at work on it at once or one of them failed.       *)
THEOREM LastDecides == Spec => []LastRequestDecides
<1>1. IInv => LastRequestDecides
  BY DEF IInv
<1> QED
  BY Invariance, <1>1, PTL

(* initRole misses a role only in the process that creates it.             *)
THEOREM RoleIdsKnown == Spec => []RoleIdsKnownAfterFirstStart
<1>1. IInv => RoleIdsKnownAfterFirstStart
  <2> SUFFICES ASSUME IInv, phase = "ready", NEW r \in Rooms, roleRead[r] = "null"
               PROVE  r \in fresh
    BY DEF RoleIdsKnownAfterFirstStart
  <2>1. copies[r] = 1
    BY Ranks DEF IInv, TasksOK, Level, Up
  <2> QED
    BY <2>1 DEF IInv, RoleIdsOK, Up
<1> QED
  BY Invariance, <1>1, PTL

(* onModuleInit implements Seeding: a create plants a seed that is missing *)
(* and whose predecessors are there, as does another user that takes the   *)
(* administrator's address, the loss of that address is the abstract one,  *)
(* and every other step is a stutter.                                      *)
THEOREM StartImplementsSeeding == Spec => SeedsOnceAndInOrder
<1> USE Ranks
<1>1. Init => Planted!Init
  BY DEF Init, Planted!Init
<1>2. ASSUME IInv, [Next]_vars
      PROVE  [Planted!Next]_copies
  <2>1. ASSUME NEW x \in Seeds, Running(x, "create"),
               copies' = [copies EXCEPT ![x] = @ + 1]
        PROVE  Planted!Plant(x)
    <3>1. /\ Rank[x] = Level(phase) /\ task[x] = "create" /\ Up
          /\ phase # "ready" /\ phase \in Groups
      BY <1>2, <2>1, TheTask
    <3>2. copies[x] = 0
      BY <1>2, <3>1 DEF IInv, TasksOK
    <3>3. ASSUME NEW y \in Seeds, Rank[y] < Rank[x]
          PROVE  copies[y] = 1
      <4>1. task[y] = "done"
        BY <1>2, <3>1, <3>3 DEF IInv, TasksOK
      <4> QED
        BY <1>2, <4>1, <3>1 DEF IInv, TasksOK
    <3> QED
      BY <1>2, <2>1, <3>2, <3>3 DEF Planted!Plant, IInv, TypeOK
  <2>2. ASSUME NEW x \in Seeds, Create(x)
        PROVE  Planted!Next
    BY <2>1, <2>2 DEF Create, Planted!Next
  <2>3. CASE CreateUser
    BY <2>1, <2>3 DEF CreateUser, Planted!Next
  <2>4. CASE ReleaseAdministrator
    BY <2>4 DEF ReleaseAdministrator, Planted!Next, Planted!Lose
  <2>5. ASSUME Boot \/ ActiveAccount \/ AwaitGroup \/ Crash \/ UNCHANGED vars
               \/ (\E x \in Seeds : Check(x) \/ AssignPermissionToRole(x))
        PROVE  copies' = copies
    BY <2>5 DEF Boot, ActiveAccount, AwaitGroup, Crash, Check, AssignPermissionToRole,
                vars, seeding
  <2>6. ASSUME (\E r \in Rooms : InitRole(r))
               \/ (\E p \in Slots : AssignPermission(p) \/ RemovePermission(p)
                                    \/ RemoveListRolePermission(p))
        PROVE  copies' = copies
    BY <2>6 DEF InitRole, AssignPermission, RemovePermission, RemoveListRolePermission,
                Request, seeding
  <2>7. ASSUME NEW p \in Slots, NEW x \in Permissions,
               GetRolePermission(p, x) \/ TaskFails(p, x)
               \/ CreateRolePermission(p, x) \/ DeleteRolePermission(p, x)
        PROVE  copies' = copies
    BY <2>7 DEF GetRolePermission, TaskFails, CreateRolePermission, DeleteRolePermission,
                seeding
  <2>8. CASE TakeAddress
    <3>1. copies[Administrator] = 0 /\ phase = "ready"
      BY <2>8 DEF TakeAddress, Missing
    <3>2. copies' = [copies EXCEPT ![Administrator] = 1]
      BY <2>8, <3>1 DEF TakeAddress
    <3>3. ASSUME NEW y \in Seeds, Rank[y] < Rank[Administrator]
          PROVE  copies[y] = 1
      <4>1. task[y] = "done" /\ y # Administrator
        BY <1>2, <3>1, <3>3 DEF IInv, TasksOK, Up, Level
      <4> QED
        BY <1>2, <4>1, <3>1 DEF IInv, TasksOK, Up
    <3>4. Planted!Plant(Administrator)
      BY <3>1, <3>2, <3>3 DEF Planted!Plant
    <3> QED
      BY <3>4 DEF Planted!Next
  <2> QED
    BY <1>2, <2>2, <2>3, <2>4, <2>5, <2>6, <2>7, <2>8 DEF Next, SeedStep, Rest
<1> QED
  BY Invariance, <1>1, <1>2, PTL DEF Spec, SeedsOnceAndInOrder, Planted!Spec

(* What a running system lacks was lost between two writes, or is unknown  *)
(* only to the process that created it.                                    *)
THEOREM NothingIsMissing == Spec => []NothingMissingUnlessTorn
BY ActiveUnlessTorn, AssignedUnlessTorn, RoleIdsKnown, PTL DEF NothingMissingUnlessTorn
=============================================================================
