--------------------------- MODULE AccountsProofs ---------------------------
(***************************************************************************)
(* Accounts: IInv holds in every reachable state, for any number of        *)
(* requests in flight, of users and of addresses.                          *)
(*                                                                         *)
(* The invariant says of a request what it knows at the step it stands     *)
(* before; one request moves at a time, so a step has to show what the one *)
(* that moves knows then, and that what it wrote leaves the others what    *)
(* they know.                                                              *)
(*                                                                         *)
(* The second part is about AccountLinks: mailed links die of their age,   *)
(* for any number of requests in flight, users, addresses and tokens and   *)
(* any lifetimes.  A step that reads moves one request and leaves the      *)
(* tables alone (LinkRequestAlone).  One that writes a table must leave    *)
(* the others what they know (LinkRequestKept), which it does by letting   *)
(* the tables grow only.                                                   *)
(***************************************************************************)
EXTENDS AccountsAndLinks, TLAPS
-----------------------------------------------------------------------------
(* What the steps rely on.                                                 *)

RowsOf(u) == {k \in MemberIds : members[k].user = u}

(* A user joins a group once, an owner his own and an administrator none;  *)
(* who is deleted has left it.                                             *)
RowsOK ==
    /\ \A i \in UserIds : users[i].since \in 1..writes
    /\ \A k, l \in MemberIds : members[k].user = members[l].user => k = l
    /\ \A k \in MemberIds :
          LET u == users[members[k].user]
          IN  /\ u.role # "ADMIN"
              /\ u.role = "OWNER" => members[k].group = members[k].user
              /\ u.deleted => ~members[k].live

(* Who has been removed or deactivated is not let in.                      *)
OutOK ==
    \A u \in out : users[u].deleted
                   \/ (users[u].role # "ADMIN" /\ \A k \in RowsOf(u) : ~members[k].active)

Joining == {"mail", "found", "join"}
StepsOf(op) ==
    CASE op = "none" -> {"idle"}
      [] op = "register" -> {"email", "create"} \union Joining
      [] op = "employee" -> {"email", "group", "create", "join"}
      [] op = "admin" -> {"email", "create"}
      [] op = "import" -> {"group", "row", "create", "join"}
      [] op = "edit" -> {"email", "rights", "update"}
      [] op = "account" -> {"update"}
      [] op = "remove" -> {"rights", "member", "leave", "delete"}
      [] op \in {"activate", "deactivate"} -> {"rights", "member", "toggle"}
      [] op = "login" -> {"email", "active"}

(* What a request at step s knows.                                         *)
RequestOK(s, j) ==
    /\ s \in StepsOf(j.op)
    /\ s \in {"email", "group", "row", "create"} /\ j.op # "edit" => j.id = 0
    /\ j.op = "import" => j.checkedAt = 0
    /\ j.op = "import" /\ s = "create" => j.email \in Emails
    /\ j.op \in {"register", "employee", "admin", "edit", "account"} => j.email \in Emails
    /\ j.op \in {"edit", "account", "remove", "activate", "deactivate"} => j.id \in UserIds
    /\ s \in Joining \union {"delete", "active"} => j.id \in UserIds
    /\ j.hasGroup => j.by \in groups
    /\ j.out \subseteq out

(* Whoever had the address at its check had it later than that.            *)
CheckOK(j) ==
    /\ j.checkedAt <= writes
    /\ \A i \in UserIds \ {j.id} :
          users[i].email = j.email /\ ~users[i].deleted => j.checkedAt < users[i].since

(* The account that a request is making belongs to no group yet.           *)
JoinOK(s, j) ==
    s \in Joining =>
        /\ users[j.id].role = IF j.op = "register" THEN "OWNER" ELSE "SUPPORTER"
        /\ RowsOf(j.id) = {} /\ ~users[j.id].deleted /\ j.id \notin out
        /\ s = "join" /\ j.op = "register" => j.id \in groups

(* The one that a request removes, activates or deactivates is no owner's. *)
MemberOK(s, j) ==
    /\ s \in {"member", "leave", "toggle"} => users[j.id].role # "OWNER"
    /\ s \in {"leave", "toggle"} => j.entry \in RowsOf(j.id)
    /\ s = "delete" => \/ j.entry = 0 /\ users[j.id].role = "ADMIN"
                       \/ /\ j.entry \in RowsOf(j.id) /\ ~members[j.entry].live
                          /\ users[j.id].role # "OWNER"
    /\ j.op = "activate" /\ j.id \in out => users[j.id].deleted

RequestsOK ==
    \A p \in Handlers : /\ RequestOK(pc[p], job[p]) /\ CheckOK(job[p])
                        /\ JoinOK(pc[p], job[p]) /\ MemberOK(pc[p], job[p])

JoinersDiffer ==
    \A p, q \in Handlers :
        pc[p] \in Joining /\ pc[q] \in Joining /\ job[p].id = job[q].id => p = q

(* A login that found an account after it was barred is not let in, and    *)
(* whoever may still want to activate the account comes too late.          *)
LoginsOK ==
    \A p \in Handlers :
        pc[p] = "active" /\ job[p].id \in job[p].out =>
            /\ ~Admitted(job[p].id)
            /\ \A q \in Handlers : job[q].op = "activate" /\ job[q].id = job[p].id =>
                  pc[q] = "rights" /\ users[job[q].id].deleted

(* The inductive invariant.                                                *)
IInv == TypeOK /\ RowsOK /\ OutOK /\ RequestsOK /\ JoinersDiffer /\ LoginsOK
        /\ SameAddressOnlyFromRaces /\ AccountsWholeUnlessTorn /\ OwnersStay
        /\ NobodyBarredLogsIn
-----------------------------------------------------------------------------
(* One request moves to step s with the local variables j.                 *)
Move(p, s, j) == pc' = [pc EXCEPT ![p] = s] /\ job' = [job EXCEPT ![p] = j]

Knows(s, j) == RequestOK(s, j) /\ CheckOK(j) /\ JoinOK(s, j) /\ MemberOK(s, j)

LEMMA Moved ==
    ASSUME TypeOK, NEW p \in Handlers, NEW s, NEW j, Move(p, s, j)
    PROVE  /\ pc'[p] = s /\ job'[p] = j
           /\ \A q \in Handlers \ {p} : pc'[q] = pc[q] /\ job'[q] = job[q]
BY DEF TypeOK, Move

LEMMA MovedType ==
    ASSUME TypeOK, NEW p \in Handlers, NEW s \in Steps, NEW j \in Jobs', Move(p, s, j),
           UserIds \subseteq UserIds', MemberIds \subseteq MemberIds'
    PROVE  pc' \in [Handlers -> Steps] /\ job' \in [Handlers -> Jobs']
<1>1. Jobs \subseteq Jobs'
  BY DEF Jobs
<1> QED
  BY <1>1 DEF TypeOK, Move

(* The requests know what they should if the one that moves does, and the  *)
(* others still do.                                                        *)
LEMMA RequestsMove ==
    ASSUME IInv, NEW p \in Handlers, NEW s, NEW j, Move(p, s, j), Knows(s, j)',
           \A q \in Handlers \ {p} : \A t, k :
              t = pc[q] /\ k = job[q] /\ Knows(t, k) => Knows(t, k)'
    PROVE  RequestsOK'
<1>0. TypeOK /\ RequestsOK
  BY DEF IInv
<1> SUFFICES ASSUME NEW q \in Handlers PROVE Knows(pc[q], job[q])'
  BY DEF RequestsOK, Knows
<1> PICK t, k : t = pc'[q] /\ k = job'[q]
  OBVIOUS
<1>1. CASE q = p
  BY <1>0, <1>1, Moved
<1>2. CASE q # p
  <2>1. t = pc[q] /\ k = job[q]
    BY <1>0, <1>2, Moved
  <2>2. Knows(t, k)
    BY <1>0, <2>1 DEF RequestsOK, Knows
  <2>3. Knows(t, k)'
    BY <1>2, <2>1, <2>2
  <2> QED
    BY <2>3
<1> QED
  BY <1>1, <1>2

(* Two requests never make one account ...                                 *)
LEMMA JoinersMove ==
    ASSUME IInv, NEW p \in Handlers, NEW s, NEW j, Move(p, s, j),
           s \in Joining => \A q \in Handlers \ {p} : pc[q] \in Joining => job[q].id # j.id
    PROVE  JoinersDiffer'
<1>1. TypeOK /\ JoinersDiffer
  BY DEF IInv
<1>2. /\ pc'[p] = s /\ job'[p] = j
      /\ \A q \in Handlers \ {p} : pc'[q] = pc[q] /\ job'[q] = job[q]
  BY <1>1, Moved
<1> QED
  BY <1>1, <1>2 DEF JoinersDiffer

(* ... and no login of a barred account succeeds.                          *)
LoginOK(s, j) == s = "active" /\ j.id \in j.out => ~Admitted(j.id)

LEMMA LoginsMove ==
    ASSUME IInv, NEW p \in Handlers, NEW s, NEW j, Move(p, s, j), LoginOK(s, j)',
           \A q \in Handlers \ {p} : \A t, k :
              t = pc[q] /\ k = job[q] /\ LoginOK(t, k) => LoginOK(t, k)',
           s = "active" /\ j.id \in j.out =>
              \A q \in Handlers \ {p} : job[q].op = "activate" => job[q].id # j.id,
           j.op = "activate" =>
              /\ s # "active"
              /\ \A q \in Handlers \ {p} :
                    pc[q] = "active" /\ job[q].id \in job[q].out /\ job[q].id = j.id
                       => s = "rights" /\ users'[j.id].deleted,
           \A i \in UserIds : users[i].deleted => users'[i].deleted
    PROVE  LoginsOK'
<1>1. TypeOK /\ LoginsOK /\ RequestsOK
  BY DEF IInv
<1>2. /\ pc'[p] = s /\ job'[p] = j
      /\ \A q \in Handlers \ {p} : pc'[q] = pc[q] /\ job'[q] = job[q]
  BY <1>1, Moved
<1>3. \A q \in Handlers \ {p} : pc[q] = "active" => job[q].id \in UserIds
  BY <1>1 DEF RequestsOK, RequestOK
<1> SUFFICES ASSUME NEW r \in Handlers, pc'[r] = "active", job'[r].id \in job'[r].out
             PROVE  /\ (~Admitted(job[r].id))'
                    /\ \A q \in Handlers : job'[q].op = "activate" /\ job'[q].id = job'[r].id =>
                          pc'[q] = "rights" /\ users'[job'[q].id].deleted
  BY DEF LoginsOK
<1> PICK t, k : t = pc'[r] /\ k = job'[r]
  OBVIOUS
<1>4. LoginOK(t, k)'
  <2>1. CASE r = p
    BY <1>2, <2>1
  <2>2. CASE r # p
    <3>1. t = pc[r] /\ k = job[r]
      BY <1>2, <2>2
    <3>2. LoginOK(t, k)
      BY <1>1, <3>1 DEF LoginsOK, LoginOK
    <3> QED
      BY <2>2, <3>1, <3>2
  <2> QED
    BY <2>1, <2>2
<1>5. (~Admitted(job[r].id))'
  BY <1>4 DEF LoginOK
<1>6. ASSUME NEW q \in Handlers, job'[q].op = "activate", job'[q].id = job'[r].id
      PROVE  pc'[q] = "rights" /\ users'[job'[q].id].deleted
  <2>1. CASE r = p /\ q = p
    BY <1>2, <1>6, <2>1
  <2>2. CASE r = p /\ q # p
    BY <1>2, <1>6, <2>2
  <2>3. CASE r # p /\ q = p
    BY <1>2, <1>6, <2>3
  <2>4. CASE r # p /\ q # p
    BY <1>1, <1>2, <1>3, <1>6, <2>4 DEF LoginsOK
  <2> QED
    BY <2>1, <2>2, <2>3, <2>4
<1> QED
  BY <1>5, <1>6
-----------------------------------------------------------------------------
(* The steps that write no table but perhaps torn.                         *)

Making == {"mail", "found", "join", "delete"}

Whole(i) == \E g \in groups : /\ Memberships(i, g) # {}
                              /\ users[i].role = "OWNER" => g = i

kept == <<rows, intruders, writes, out>>

(* A request that reads, and may leave an account torn.                    *)
LEMMA QuietMove ==
    ASSUME IInv, UNCHANGED kept, torn \subseteq torn', torn' \subseteq UserIds,
           NEW p \in Handlers, NEW s \in Steps, NEW j \in Jobs, Move(p, s, j), Knows(s, j),
           s \in Joining => \A q \in Handlers \ {p} : pc[q] \in Joining => job[q].id # j.id,
           LoginOK(s, j),
           s = "active" /\ j.id \in j.out =>
              \A q \in Handlers \ {p} : job[q].op = "activate" => job[q].id # j.id,
           j.op = "activate" =>
              \A q \in Handlers \ {p} :
                 pc[q] = "active" /\ job[q].id \in job[q].out /\ job[q].id = j.id
                    => s = "rights" /\ users[j.id].deleted,
           pc[p] \in Making /\ ~(s \in Making /\ j.id = job[p].id)
              => job[p].id \in torn' \/ users[job[p].id].role = "ADMIN"
    PROVE  IInv'
<1> USE DEF kept, rows
<1>0. /\ TypeOK /\ RowsOK /\ OutOK /\ RequestsOK /\ JoinersDiffer /\ LoginsOK
      /\ SameAddressOnlyFromRaces /\ AccountsWholeUnlessTorn /\ OwnersStay
      /\ NobodyBarredLogsIn
  BY DEF IInv
<1>1. TypeOK'
  <2>1. j \in Jobs' /\ UserIds \subseteq UserIds' /\ MemberIds \subseteq MemberIds'
    BY DEF Jobs, UserIds, MemberIds
  <2>2. pc' \in [Handlers -> Steps] /\ job' \in [Handlers -> Jobs']
    BY <1>0, <2>1, MovedType
  <2> QED
    BY <1>0, <2>2 DEF TypeOK, UserIds
<1>2. RowsOK' /\ OutOK' /\ OwnersStay' /\ SameAddressOnlyFromRaces' /\ NobodyBarredLogsIn'
  BY <1>0 DEF RowsOK, OutOK, OwnersStay, SameAddressOnlyFromRaces, NobodyBarredLogsIn,
             UserIds, MemberIds, RowsOf
<1>3. RequestsOK'
  <2>1. ASSUME NEW t, NEW k, Knows(t, k) PROVE Knows(t, k)'
    BY <2>1 DEF Knows, RequestOK, CheckOK, JoinOK, MemberOK, UserIds, RowsOf, MemberIds
  <2> QED
    BY <2>1, RequestsMove
<1>4. JoinersDiffer'
  BY JoinersMove
<1>5. LoginsOK'
  <2>1. ASSUME NEW t, NEW k, LoginOK(t, k) PROVE LoginOK(t, k)'
    BY <2>1 DEF LoginOK, Admitted, MemberIds
  <2>2. j.op = "activate" => s # "active"
    BY DEF Knows, RequestOK, StepsOf
  <2>3. LoginOK(s, j)' /\ users' = users
    BY <2>1
  <2> QED
    BY <2>1, <2>2, <2>3, LoginsMove
<1>6. AccountsWholeUnlessTorn'
  <2>1. SUFFICES ASSUME NEW i \in UserIds, ~users[i].deleted, users[i].role # "ADMIN",
                        i \notin torn', ~UnderWay(i)'
                 PROVE  Whole(i)
    BY DEF AccountsWholeUnlessTorn, Whole, Memberships, MemberIds, UserIds
  <2>2. /\ pc'[p] = s /\ job'[p] = j
        /\ \A q \in Handlers \ {p} : pc'[q] = pc[q] /\ job'[q] = job[q]
    BY <1>0, Moved
  <2>3. ~UnderWay(i)
    BY <2>1, <2>2 DEF UnderWay, Making
  <2> QED
    BY <1>0, <2>1, <2>3 DEF AccountsWholeUnlessTorn, Whole
<1> QED
  BY <1>1, <1>2, <1>3, <1>4, <1>5, <1>6 DEF IInv

LEMMA BeginStep ==
    ASSUME IInv, NEW p \in Handlers, NEW s \in {"email", "group", "update", "rights", "delete"},
           NEW op \in Ops \ {"none", "activate"}, NEW by \in {0} \union UserIds,
           NEW id \in {0} \union UserIds, NEW e \in Emails \union {NoEmail},
           Begin(p, s, Locals(op, by, id, e)), s \in StepsOf(op),
           op \in {"edit", "account", "remove", "deactivate"} => id \in UserIds,
           op \in {"register", "employee", "admin", "import", "login"} => id = 0,
           op \in {"register", "employee", "admin", "edit", "account"} => e \in Emails,
           s = "delete" => op = "remove" /\ users[id].role = "ADMIN"
    PROVE  IInv'
<1> DEFINE o == IF op = "login" THEN out ELSE {}
           l == Locals(op, by, id, e)
           j == [l EXCEPT !.out = o]
<1>0. TypeOK /\ RowsOK /\ RequestsOK
  BY DEF IInv
<1>1. o \in SUBSET UserIds /\ o \subseteq out
  BY <1>0 DEF TypeOK
<1>2. pc[p] = "idle" /\ UNCHANGED kept /\ UNCHANGED torn
  BY DEF Begin, kept, history
<1>3. Move(p, s, j)
  <2>1. l.op = op
    BY DEF Locals
  <2> QED
    BY <2>1 DEF Begin, Move
<1> HIDE DEF o
<1>a. /\ l \in Jobs /\ l.op = op /\ l.by = by /\ l.id = id /\ l.email = e
      /\ l.hasGroup = FALSE /\ l.entry = 0 /\ l.checkedAt = 0
  BY DEF Locals, Jobs, Ops
<1> HIDE DEF l
<1>4. /\ j \in Jobs /\ j.op = op /\ j.by = by /\ j.id = id /\ j.email = e
      /\ j.hasGroup = FALSE /\ j.entry = 0 /\ j.checkedAt = 0 /\ j.out = o
  BY <1>1, <1>a DEF Jobs
<1> HIDE DEF j
<1>5. Knows(s, j)
  <2>1. RequestOK(s, j)
    <3>1. s \in {"email", "group"} /\ op # "edit" => j.id = 0
      BY <1>4 DEF StepsOf, Ops
    <3> QED
      BY <1>1, <1>4, <3>1 DEF RequestOK, Joining, StepsOf
  <2>2. CheckOK(j)
    <3>1. \A i \in UserIds : 0 < users[i].since
      BY <1>0 DEF RowsOK, TypeOK
    <3>2. 0 <= writes
      BY <1>0 DEF TypeOK
    <3> QED
      BY <1>4, <3>1, <3>2 DEF CheckOK
  <2>3. JoinOK(s, j) /\ MemberOK(s, j)
    BY <1>4 DEF JoinOK, MemberOK, Joining
  <2> QED
    BY <2>1, <2>2, <2>3 DEF Knows
<1>6. s \in Steps /\ s \notin Joining /\ s # "active"
  BY DEF Steps, Joining
<1>7. LoginOK(s, j) /\ j.op # "activate"
  BY <1>4, <1>6 DEF LoginOK
<1>8. torn \subseteq torn' /\ torn' \subseteq UserIds
  BY <1>0, <1>2 DEF TypeOK
<1>9. pc[p] \notin Making
  BY <1>2 DEF Making
<1> QED
  BY <1>2, <1>3, <1>4, <1>5, <1>6, <1>7, <1>8, <1>9, QuietMove

LEMMA StartStep ==
    ASSUME IInv, NEW p \in Handlers, Start(p), ~ActivateAccount(p)
    PROVE  IInv'
<1> USE DEF StepsOf, Ops
<1>0. TypeOK
  BY DEF IInv
<1>1. CASE Register(p)
  <2>1. PICK e \in Emails : Begin(p, "email", Locals("register", 0, 0, Lower[e]))
    BY <1>1 DEF Register
  <2>2. Lower[e] \in Emails
    BY EmailAssumption
  <2> QED
    BY <2>1, <2>2, BeginStep
<1>2. CASE CreateEmployee(p)
  BY <1>2, BeginStep DEF CreateEmployee
<1>3. CASE CreateAdminAccount(p)
  BY <1>3, BeginStep DEF CreateAdminAccount
<1>4. CASE EditEmployee(p)
  BY <1>4, BeginStep DEF EditEmployee
<1>9. CASE ImportData(p)
  BY <1>9, BeginStep DEF ImportData
<1>5. CASE UpdateInformation(p)
  BY <1>5, BeginStep DEF UpdateInformation
<1>6. CASE RemoveEmployee(p)
  <2>1. PICK by \in UserIds, u \in UserIds :
            Begin(p, IF users[u].role = "ADMIN" THEN "delete" ELSE "rights",
                  Locals("remove", by, u, NoEmail))
    BY <1>6 DEF RemoveEmployee
  <2>2. CASE users[u].role = "ADMIN"
    BY <2>1, <2>2, BeginStep
  <2>3. CASE users[u].role # "ADMIN"
    BY <2>1, <2>3, BeginStep
  <2> QED
    BY <2>2, <2>3
<1>7. CASE DeactivateAccount(p)
  BY <1>7, BeginStep DEF DeactivateAccount
<1>8. CASE LogIn(p)
  BY <1>8, BeginStep DEF LogIn
<1> QED
  BY <1>1, <1>2, <1>3, <1>4, <1>5, <1>6, <1>7, <1>8, <1>9 DEF Start

(* What is known of the request that moves.                                *)
LEMMA Mover ==
    ASSUME IInv, NEW p \in Handlers
    PROVE  /\ TypeOK /\ job[p] \in Jobs /\ pc[p] \in Steps
           /\ RequestOK(pc[p], job[p]) /\ CheckOK(job[p])
           /\ JoinOK(pc[p], job[p]) /\ MemberOK(pc[p], job[p])
BY DEF IInv, RequestsOK, TypeOK

(* It goes on with other local variables that say as much.                 *)
LEMMA LeaveStep ==
    ASSUME IInv, UNCHANGED kept, torn \subseteq torn', torn' \subseteq UserIds,
           NEW p \in Handlers, Leave(p),
           pc[p] \in Making => job[p].id \in torn' \/ users[job[p].id].role = "ADMIN"
    PROVE  IInv'
<1>0. TypeOK /\ RowsOK
  BY DEF IInv
<1>1. /\ NoJob \in Jobs /\ NoJob.op = "none" /\ NoJob.hasGroup = FALSE /\ NoJob.out = {}
      /\ NoJob.checkedAt = 0 /\ NoJob.id = 0
  BY DEF NoJob, Locals, Jobs, Ops
<1>2. Move(p, "idle", NoJob)
  BY DEF Leave, Move
<1>3. Knows("idle", NoJob)
  <2>1. RequestOK("idle", NoJob)
    BY <1>1 DEF RequestOK, StepsOf, Joining
  <2>2. CheckOK(NoJob)
    BY <1>0, <1>1 DEF CheckOK, RowsOK, TypeOK
  <2>3. JoinOK("idle", NoJob) /\ MemberOK("idle", NoJob)
    BY <1>1 DEF JoinOK, MemberOK, Joining
  <2> QED
    BY <2>1, <2>2, <2>3 DEF Knows
<1>4. "idle" \in Steps /\ LoginOK("idle", NoJob) /\ "idle" \notin Joining \union Making
  BY DEF Steps, LoginOK, Joining, Making
<1> QED
  BY <1>1, <1>2, <1>3, <1>4, QuietMove

LEMMA FailStep ==
    ASSUME IInv, NEW p \in Handlers, Fail(p)
    PROVE  IInv'
<1>1. /\ UNCHANGED kept /\ Leave(p)
      /\ torn' = IF HalfDone(p) THEN torn \union {job[p].id} ELSE torn
  BY DEF Fail, kept
<1>2. HalfDone(p) => job[p].id \in UserIds
  BY Mover DEF HalfDone, RequestOK, Joining
<1>3. torn \subseteq torn' /\ torn' \subseteq UserIds
  BY <1>1, <1>2, Mover DEF TypeOK
<1>4. pc[p] \in Making => HalfDone(p) \/ users[job[p].id].role = "ADMIN"
  BY Mover DEF Making, HalfDone, MemberOK, RowsOf, MemberIds, TypeOK
<1> QED
  BY <1>1, <1>3, <1>4, LeaveStep

LEMMA CheckActivateStep ==
    ASSUME IInv, NEW p \in Handlers, CheckActivate(p)
    PROVE  IInv'
<1>1. /\ pc[p] = "active" /\ Admitted(job[p].id) /\ Leave(p)
      /\ intruders' = intruders \union ({job[p].id} \intersect job[p].out \intersect out)
      /\ UNCHANGED <<rows, writes, torn, out>>
  BY DEF CheckActivate
<1>2. job[p].id \notin job[p].out
  BY <1>1 DEF IInv, LoginsOK
<1>3. UNCHANGED kept
  BY <1>1, <1>2 DEF kept
<1>4. torn \subseteq torn' /\ torn' \subseteq UserIds /\ pc[p] \notin Making
  BY <1>1, Mover DEF TypeOK, Making
<1> QED
  BY <1>1, <1>3, <1>4, LeaveStep

LEMMA GetUserByEmailStep ==
    ASSUME IInv, NEW p \in Handlers, GetUserByEmail(p)
    PROVE  IInv'
<1> DEFINE o == job[p]
           c == IF Addressees(o.email) \ {o.id} = {} THEN writes ELSE 0
           j == [o EXCEPT !.checkedAt = c]
           s == NextAfterEmail(o.op)
<1>0. /\ TypeOK /\ o \in Jobs /\ RequestOK(pc[p], o) /\ JoinOK(pc[p], o) /\ MemberOK(pc[p], o)
      /\ RowsOK
  BY Mover DEF IInv
<1>1. pc[p] = "email" /\ o.op # "login" /\ Move(p, s, j) /\ UNCHANGED kept /\ UNCHANGED torn
  BY DEF GetUserByEmail, Move, Goto, kept, history
<1>2. c \in Nat /\ c <= writes
      /\ \A i \in UserIds \ {o.id} :
            users[i].email = o.email /\ ~users[i].deleted => c < users[i].since
  <2>1. CASE Addressees(o.email) \ {o.id} = {}
    BY <1>0, <2>1 DEF Addressees, TypeOK
  <2>2. CASE Addressees(o.email) \ {o.id} # {}
    <3>1. \A i \in UserIds : 0 < users[i].since
      BY <1>0 DEF RowsOK, TypeOK
    <3> QED
      BY <1>0, <2>2, <3>1 DEF TypeOK
  <2> QED
    BY <2>1, <2>2
<1> HIDE DEF c
<1>3. /\ j \in Jobs /\ j.op = o.op /\ j.id = o.id /\ j.email = o.email /\ j.by = o.by
      /\ j.hasGroup = o.hasGroup /\ j.entry = o.entry /\ j.checkedAt = c /\ j.out = o.out
  BY <1>0, <1>2 DEF Jobs
<1> HIDE DEF j
<1>4. o.op \in {"register", "employee", "admin", "edit"}
  BY <1>0, <1>1 DEF RequestOK, StepsOf, Joining, Jobs, Ops
<1>5. s \in {"group", "rights", "create"} /\ s \in StepsOf(o.op)
  BY <1>4 DEF NextAfterEmail, StepsOf
<1> HIDE DEF s
<1>6. Knows(s, j)
  <2>1. RequestOK(s, j)
    BY <1>0, <1>1, <1>3, <1>4, <1>5 DEF RequestOK, Joining
  <2>2. CheckOK(j)
    BY <1>2, <1>3 DEF CheckOK
  <2>3. JoinOK(s, j) /\ MemberOK(s, j)
    BY <1>3, <1>4, <1>5 DEF JoinOK, MemberOK, Joining
  <2> QED
    BY <2>1, <2>2, <2>3 DEF Knows
<1>7. s \in Steps /\ s \notin Joining /\ s # "active" /\ j.op # "activate" /\ LoginOK(s, j)
  BY <1>3, <1>4, <1>5 DEF Steps, Joining, LoginOK
<1>8. torn \subseteq torn' /\ torn' \subseteq UserIds /\ pc[p] \notin Making
  BY <1>0, <1>1 DEF TypeOK, Making
<1> QED
  BY <1>1, <1>3, <1>6, <1>7, <1>8, QuietMove

LEMMA GetSocialGroupByManagerIdStep ==
    ASSUME IInv, NEW p \in Handlers, GetSocialGroupByManagerId(p)
    PROVE  IInv'
<1> DEFINE o == job[p]
           b == o.by \in groups
           j == [o EXCEPT !.hasGroup = b]
           s == IF o.op = "import" THEN "row" ELSE "create"
<1>0. /\ TypeOK /\ o \in Jobs /\ RequestOK(pc[p], o) /\ CheckOK(o)
  BY Mover
<1>1. pc[p] = "group" /\ Move(p, s, j) /\ UNCHANGED kept /\ UNCHANGED torn
  BY DEF GetSocialGroupByManagerId, Move, Goto, kept, history
<1>2. b \in BOOLEAN /\ (b => o.by \in groups)
  OBVIOUS
<1> HIDE DEF b
<1>3. /\ j \in Jobs /\ j.op = o.op /\ j.id = o.id /\ j.email = o.email /\ j.by = o.by
      /\ j.hasGroup = b /\ j.entry = o.entry /\ j.checkedAt = o.checkedAt /\ j.out = o.out
  BY <1>0, <1>2 DEF Jobs
<1> HIDE DEF j
<1>4. o.op \in {"employee", "import"}
  BY <1>0, <1>1 DEF RequestOK, StepsOf, Joining, Jobs, Ops
<1>5. /\ o.id = 0 /\ s \in {"row", "create"} /\ s \in StepsOf(o.op)
      /\ o.op = "import" => s = "row"
  BY <1>0, <1>1, <1>4 DEF RequestOK, StepsOf
<1> HIDE DEF s
<1>6. Knows(s, j)
  <2>1. RequestOK(s, j)
    BY <1>0, <1>2, <1>3, <1>4, <1>5 DEF RequestOK, Joining
  <2>2. CheckOK(j)
    BY <1>0, <1>3 DEF CheckOK
  <2>3. JoinOK(s, j) /\ MemberOK(s, j)
    BY <1>3, <1>4, <1>5 DEF JoinOK, MemberOK, Joining
  <2> QED
    BY <2>1, <2>2, <2>3 DEF Knows
<1>7. s \in Steps /\ s \notin Joining /\ s # "active" /\ j.op # "activate"
      /\ LoginOK(s, j)
  BY <1>3, <1>4, <1>5 DEF Steps, Joining, LoginOK
<1>8. torn \subseteq torn' /\ torn' \subseteq UserIds /\ pc[p] \notin Making
  BY <1>0, <1>1 DEF TypeOK, Making
<1> QED
  BY <1>1, <1>3, <1>6, <1>7, <1>8, QuietMove

(* Whoever has the address of a row had it after nothing was checked.      *)
LEMMA Unchecked ==
    ASSUME RowsOK, TypeOK, NEW j, j.checkedAt = 0
    PROVE  CheckOK(j)
BY DEF CheckOK, RowsOK, TypeOK

LEMMA NextRowStep ==
    ASSUME IInv, NEW p \in Handlers, NextRow(p)
    PROVE  IInv'
<1> DEFINE o == job[p]
<1>0. /\ TypeOK /\ o \in Jobs /\ RequestOK(pc[p], o) /\ RowsOK
  BY Mover DEF IInv
<1>1. PICK e \in Emails : job' = [job EXCEPT ![p].email = e]
  BY DEF NextRow
<1> DEFINE j == [o EXCEPT !.email = e]
<1>2. pc[p] = "row" /\ Move(p, "create", j) /\ UNCHANGED kept /\ UNCHANGED torn
  BY <1>1 DEF NextRow, Move, Goto, kept, history
<1>3. /\ j \in Jobs /\ j.op = o.op /\ j.id = o.id /\ j.email = e /\ j.by = o.by
      /\ j.hasGroup = o.hasGroup /\ j.entry = o.entry /\ j.checkedAt = o.checkedAt
      /\ j.out = o.out
  BY <1>0 DEF Jobs
<1> HIDE DEF j
<1>4. o.op = "import"
  BY <1>0, <1>2 DEF RequestOK, StepsOf, Joining, Jobs, Ops
<1>5. o.checkedAt = 0 /\ o.id = 0
  BY <1>0, <1>2, <1>4 DEF RequestOK
<1>6. Knows("create", j)
  <2>1. RequestOK("create", j)
    BY <1>0, <1>3, <1>4, <1>5 DEF RequestOK, Joining, StepsOf
  <2>2. CheckOK(j)
    BY <1>0, <1>3, <1>5, Unchecked
  <2>3. JoinOK("create", j) /\ MemberOK("create", j)
    BY <1>3, <1>4 DEF JoinOK, MemberOK, Joining
  <2> QED
    BY <2>1, <2>2, <2>3 DEF Knows
<1>7. "create" \in Steps /\ "create" \notin Joining /\ LoginOK("create", j)
      /\ j.op # "activate"
  BY <1>3, <1>4 DEF Steps, Joining, LoginOK
<1>8. torn \subseteq torn' /\ torn' \subseteq UserIds /\ pc[p] \notin Making
  BY <1>0, <1>2 DEF TypeOK, Making
<1> QED
  BY <1>2, <1>3, <1>6, <1>7, <1>8, QuietMove

(* What an import knows when it turns to its next row.                     *)
Onward(o) == [o EXCEPT !.email = NoEmail, !.id = 0]

LEMMA OnwardJob ==
    ASSUME NEW o \in Jobs, o.op = "import"
    PROVE  /\ Onward(o) \in Jobs /\ Onward(o).op = "import" /\ Onward(o).id = 0
           /\ Onward(o).email = NoEmail /\ Onward(o).by = o.by
           /\ Onward(o).hasGroup = o.hasGroup /\ Onward(o).entry = o.entry
           /\ Onward(o).checkedAt = o.checkedAt /\ Onward(o).out = o.out
BY DEF Onward, Jobs

LEMMA OnwardKnows ==
    ASSUME TypeOK, RowsOK, NEW s, NEW o \in Jobs, o.op = "import", RequestOK(s, o)
    PROVE  Knows("row", Onward(o))
<1> PICK j : j = Onward(o)
  OBVIOUS
<1>1. RequestOK("row", j)
  BY OnwardJob DEF RequestOK, StepsOf, Joining
<1>2. CheckOK(j)
  BY OnwardJob, Unchecked DEF RequestOK
<1>3. JoinOK("row", j) /\ MemberOK("row", j)
  BY OnwardJob DEF JoinOK, MemberOK, Joining
<1> QED
  BY <1>1, <1>2, <1>3 DEF Knows

LEMMA RowFailsStep ==
    ASSUME IInv, NEW p \in Handlers, RowFails(p)
    PROVE  IInv'
<1> PICK o : o = job[p]
  OBVIOUS
<1> PICK j : j = Onward(o)
  OBVIOUS
<1>0. /\ TypeOK /\ o \in Jobs /\ RequestOK(pc[p], o) /\ RowsOK
  BY Mover DEF IInv
<1>1. /\ o.op = "import" /\ pc[p] \in {"create", "join"} /\ UNCHANGED kept
      /\ torn' = IF HalfDone(p) THEN torn \union {o.id} ELSE torn
  BY DEF RowFails, kept
<1>2. Move(p, "row", j)
  BY <1>0 DEF RowFails, ToNextRow, Onward, Move, Goto, TypeOK
<1>3. /\ j \in Jobs /\ j.op = "import" /\ Knows("row", j)
  BY <1>0, <1>1, OnwardJob, OnwardKnows
<1>4. HalfDone(p) => o.id \in UserIds
  BY Mover DEF HalfDone, RequestOK, Joining
<1>5. torn \subseteq torn' /\ torn' \subseteq UserIds
  BY <1>0, <1>1, <1>4 DEF TypeOK
<1>6. pc[p] \in Making => o.id \in torn'
  BY <1>1 DEF Making, HalfDone
<1>7. "row" \in Steps /\ "row" \notin Joining \union Making /\ LoginOK("row", j)
  BY DEF Steps, Joining, Making, LoginOK
<1> QED
  BY <1>1, <1>2, <1>3, <1>5, <1>6, <1>7, QuietMove

(* A member of somebody else's group is no owner.                          *)
LEMMA MemberIsNoOwner ==
    ASSUME IInv, NEW u \in UserIds, NEW g, g # u, Memberships(u, g) # {}
    PROVE  users[u].role \notin {"OWNER", "ADMIN"} /\ ~users[u].deleted
<1>1. PICK k \in MemberIds : members[k].user = u /\ members[k].group = g /\ members[k].live
  BY DEF Memberships
<1> QED
  BY <1>1 DEF IInv, RowsOK

LEMMA GetUserWithGroupStep ==
    ASSUME IInv, NEW p \in Handlers, GetUserWithGroup(p)
    PROVE  IInv'
<1> DEFINE o == job[p]
<1>0. /\ TypeOK /\ o \in Jobs /\ RequestOK(pc[p], o) /\ CheckOK(o) /\ MemberOK(pc[p], o)
      /\ LoginsOK
  BY Mover DEF IInv
<1>1. pc[p] = "rights" /\ UNCHANGED job /\ UNCHANGED kept /\ UNCHANGED torn
  BY DEF GetUserWithGroup, kept, history
<1>2. o.op \in {"edit", "remove", "activate", "deactivate"} /\ o.id \in UserIds
  BY <1>0, <1>1 DEF RequestOK, StepsOf, Joining, Jobs, Ops
<1>3. job' = [job EXCEPT ![p] = o]
  BY <1>0, <1>1 DEF TypeOK
<1>4. torn \subseteq torn' /\ torn' \subseteq UserIds /\ pc[p] \notin Making
  BY <1>0, <1>1 DEF TypeOK, Making
<1>5. CASE o.op = "edit" /\ pc' = [pc EXCEPT ![p] = "update"]
  <2>1. Knows("update", o)
    <3>1. RequestOK("update", o)
      BY <1>0, <1>2, <1>5 DEF RequestOK, Joining, StepsOf
    <3>2. JoinOK("update", o) /\ MemberOK("update", o)
      BY <1>5 DEF JoinOK, MemberOK, Joining
    <3> QED
      BY <1>0, <3>1, <3>2 DEF Knows
  <2>2. "update" \in Steps \ Joining /\ LoginOK("update", o) /\ Move(p, "update", o)
    BY <1>3, <1>5 DEF Steps, Joining, LoginOK, Move
  <2> QED
    BY <1>0, <1>1, <1>4, <1>5, <2>1, <2>2, QuietMove
<1>6. CASE /\ o.op # "edit" /\ pc' = [pc EXCEPT ![p] = "member"]
           /\ o.id # o.by /\ Memberships(o.id, o.by) # {}
  <2>0. users[o.id].role # "OWNER" /\ ~users[o.id].deleted
    BY <1>2, <1>6, MemberIsNoOwner
  <2>1. Knows("member", o)
    <3>1. RequestOK("member", o)
      BY <1>0, <1>2, <1>6 DEF RequestOK, Joining, StepsOf
    <3>2. JoinOK("member", o) /\ MemberOK("member", o)
      BY <1>0, <2>0 DEF JoinOK, MemberOK, Joining
    <3> QED
      BY <1>0, <3>1, <3>2 DEF Knows
  <2>2. "member" \in Steps \ Joining /\ LoginOK("member", o) /\ Move(p, "member", o)
    BY <1>3, <1>6 DEF Steps, Joining, LoginOK, Move
  <2>3. ASSUME o.op = "activate", NEW q \in Handlers \ {p}, pc[q] = "active",
               job[q].id \in job[q].out, job[q].id = o.id
        PROVE  FALSE
    BY <1>0, <2>0, <2>3 DEF LoginsOK
  <2> QED
    BY <1>0, <1>1, <1>4, <2>1, <2>2, <2>3, QuietMove
<1> QED
  BY <1>5, <1>6, <1>2 DEF GetUserWithGroup, Goto

LEMMA FindMembershipStep ==
    ASSUME IInv, NEW p \in Handlers, FindMembership(p)
    PROVE  IInv'
<1> DEFINE o == job[p]
<1>0. /\ TypeOK /\ o \in Jobs /\ RequestOK(pc[p], o) /\ CheckOK(o) /\ MemberOK(pc[p], o)
      /\ LoginsOK
  BY Mover DEF IInv
<1>1. PICK e \in Memberships(o.id, o.by) : job' = [job EXCEPT ![p].entry = e]
  BY DEF FindMembership
<1> DEFINE j == [o EXCEPT !.entry = e]
           s == IF o.op = "remove" THEN "leave" ELSE "toggle"
<1>2. pc[p] = "member" /\ Move(p, s, j) /\ UNCHANGED kept /\ UNCHANGED torn
  BY <1>1 DEF FindMembership, Move, Goto, kept, history
<1>3. e \in RowsOf(o.id) /\ e \in MemberIds
  BY DEF Memberships, RowsOf
<1>4. /\ j \in Jobs /\ j.op = o.op /\ j.id = o.id /\ j.email = o.email /\ j.by = o.by
      /\ j.hasGroup = o.hasGroup /\ j.entry = e /\ j.checkedAt = o.checkedAt /\ j.out = o.out
  BY <1>0, <1>3 DEF Jobs
<1> HIDE DEF j
<1>5. o.op \in {"remove", "activate", "deactivate"}
  BY <1>0, <1>2 DEF RequestOK, StepsOf, Joining, Jobs, Ops
<1>6. s \in {"leave", "toggle"} /\ s \in StepsOf(o.op)
  BY <1>5 DEF StepsOf
<1> HIDE DEF s
<1>7. Knows(s, j)
  <2>1. RequestOK(s, j)
    BY <1>0, <1>4, <1>5, <1>6 DEF RequestOK, Joining
  <2>2. CheckOK(j)
    BY <1>0, <1>4 DEF CheckOK
  <2>3. JoinOK(s, j) /\ MemberOK(s, j)
    BY <1>0, <1>2, <1>3, <1>4, <1>6 DEF JoinOK, MemberOK, Joining
  <2> QED
    BY <2>1, <2>2, <2>3 DEF Knows
<1>8. s \in Steps \ Joining /\ s # "active" /\ LoginOK(s, j)
  BY <1>6 DEF Steps, Joining, LoginOK
<1>9. torn \subseteq torn' /\ torn' \subseteq UserIds /\ pc[p] \notin Making
  BY <1>0, <1>2 DEF TypeOK, Making
<1>10. ASSUME j.op = "activate", NEW q \in Handlers \ {p}, pc[q] = "active",
              job[q].id \in job[q].out, job[q].id = j.id
       PROVE  FALSE
  BY <1>0, <1>2, <1>4, <1>10 DEF LoginsOK
<1> QED
  BY <1>2, <1>4, <1>7, <1>8, <1>9, <1>10, QuietMove

LEMMA SendVerificationLinkStep ==
    ASSUME IInv, NEW p \in Handlers, SendVerificationLink(p)
    PROVE  IInv'
<1> DEFINE o == job[p]
<1>0. /\ TypeOK /\ o \in Jobs /\ RequestOK(pc[p], o) /\ CheckOK(o) /\ JoinOK(pc[p], o)
      /\ JoinersDiffer
  BY Mover DEF IInv
<1>1. pc[p] = "mail" /\ UNCHANGED kept /\ UNCHANGED torn /\ Move(p, "found", o)
  BY <1>0 DEF SendVerificationLink, kept, history, Move, Goto, TypeOK
<1>2. o.op = "register"
  BY <1>0, <1>1 DEF RequestOK, StepsOf, Joining, Jobs, Ops
<1>3. Knows("found", o)
  <2>1. RequestOK("found", o)
    BY <1>0, <1>1, <1>2 DEF RequestOK, Joining, StepsOf
  <2>2. JoinOK("found", o) /\ MemberOK("found", o)
    BY <1>0, <1>1, <1>2 DEF JoinOK, MemberOK, Joining
  <2> QED
    BY <1>0, <2>1, <2>2 DEF Knows
<1>4. "found" \in Steps /\ LoginOK("found", o) /\ "found" \in Making
  BY DEF Steps, LoginOK, Making
<1>5. \A q \in Handlers \ {p} : pc[q] \in Joining => job[q].id # o.id
  BY <1>0, <1>1 DEF JoinersDiffer, Joining
<1>6. torn \subseteq torn' /\ torn' \subseteq UserIds
  BY <1>0, <1>1 DEF TypeOK
<1> QED
  BY <1>0, <1>1, <1>2, <1>3, <1>4, <1>5, <1>6, QuietMove

LEMMA FindAddresseeStep ==
    ASSUME IInv, NEW p \in Handlers, FindAddressee(p)
    PROVE  IInv'
<1> DEFINE o == job[p]
<1>0. /\ TypeOK /\ o \in Jobs /\ RequestOK(pc[p], o) /\ CheckOK(o) /\ RowsOK /\ OutOK
      /\ RequestsOK
  BY Mover DEF IInv
<1>1. PICK i \in Addressees(o.email) : job' = [job EXCEPT ![p].id = i]
  BY DEF FindAddressee
<1> DEFINE j == [o EXCEPT !.id = i]
<1>2. pc[p] = "email" /\ o.op = "login" /\ Move(p, "active", j) /\ UNCHANGED kept
      /\ UNCHANGED torn
  BY <1>1 DEF FindAddressee, Move, Goto, kept, history
<1>3. i \in UserIds /\ ~users[i].deleted
  BY DEF Addressees
<1>4. /\ j \in Jobs /\ j.op = o.op /\ j.id = i /\ j.email = o.email /\ j.by = o.by
      /\ j.hasGroup = o.hasGroup /\ j.entry = o.entry /\ j.checkedAt = o.checkedAt
      /\ j.out = o.out
  BY <1>0, <1>3 DEF Jobs
<1> HIDE DEF j
<1>5. Knows("active", j)
  <2>1. RequestOK("active", j)
    BY <1>0, <1>2, <1>3, <1>4 DEF RequestOK, Joining, StepsOf
  <2>2. CheckOK(j)
    <3>1. o.id = 0
      BY <1>0, <1>2 DEF RequestOK
    <3>2. 0 \notin UserIds
      BY DEF UserIds
    <3> QED
      BY <1>0, <1>4, <3>1, <3>2 DEF CheckOK
  <2>3. JoinOK("active", j) /\ MemberOK("active", j)
    BY <1>2, <1>4 DEF JoinOK, MemberOK, Joining
  <2> QED
    BY <2>1, <2>2, <2>3 DEF Knows
<1>6. ASSUME i \in o.out
      PROVE  ~Admitted(i) /\ \A q \in Handlers : job[q].op = "activate" => job[q].id # i
  <2>1. i \in out
    BY <1>0, <1>6 DEF RequestOK
  <2>2. ~Admitted(i)
    BY <1>0, <1>3, <2>1 DEF OutOK, Admitted, RowsOf
  <2> QED
    BY <1>0, <1>3, <2>1, <2>2 DEF RequestsOK, MemberOK
<1>7. LoginOK("active", j)
  BY <1>4, <1>6 DEF LoginOK
<1>8. torn \subseteq torn' /\ torn' \subseteq UserIds /\ pc[p] \notin Making
      /\ "active" \in Steps \ Joining
  BY <1>0, <1>2 DEF TypeOK, Making, Steps, Joining
<1> QED
  BY <1>2, <1>4, <1>5, <1>6, <1>7, <1>8, QuietMove
-----------------------------------------------------------------------------
(* Activating somebody starts by admitting him again, to the history that  *)
(* NobodyBarredLogsIn looks at: from now on he may get in.                 *)
LEMMA ActivateAccountStep ==
    ASSUME IInv, NEW p \in Handlers, ActivateAccount(p)
    PROVE  IInv'
<1>0. /\ TypeOK /\ RowsOK /\ OutOK /\ RequestsOK /\ JoinersDiffer /\ LoginsOK
      /\ SameAddressOnlyFromRaces /\ AccountsWholeUnlessTorn /\ OwnersStay
      /\ NobodyBarredLogsIn
  BY DEF IInv
<1>1. PICK by \in UserIds, u \in UserIds :
         /\ pc[p] = "idle" /\ Goto(p, "rights")
         /\ LET readmitted == IF users[u].deleted THEN {} ELSE {u}
            IN  /\ out' = out \ readmitted
                /\ job' = [q \in Handlers |->
                       IF q = p THEN Locals("activate", by, u, NoEmail)
                       ELSE [job[q] EXCEPT !.out = @ \ readmitted]]
  BY DEF ActivateAccount
<1>2. UNCHANGED <<rows, intruders, writes, torn>>
  BY DEF ActivateAccount
<1> DEFINE j == Locals("activate", by, u, NoEmail)
           R == IF users[u].deleted THEN {} ELSE {u}
<1>3. /\ j \in Jobs /\ j.op = "activate" /\ j.id = u /\ j.hasGroup = FALSE
      /\ j.out = {} /\ j.checkedAt = 0
  BY DEF Locals, Jobs, Ops
<1>4. /\ out' = out \ R
      /\ job' = [q \in Handlers |-> IF q = p THEN j ELSE [job[q] EXCEPT !.out = job[q].out \ R]]
      /\ pc' = [pc EXCEPT ![p] = "rights"]
  BY <1>1 DEF Goto
<1>5. (u \in R <=> ~users[u].deleted) /\ \A i \in R : i = u
  OBVIOUS
<1> HIDE DEF j, R
<1>6. /\ pc'[p] = "rights" /\ job'[p] = j
      /\ \A q \in Handlers \ {p} :
            /\ pc'[q] = pc[q]
            /\ job'[q] = [job[q] EXCEPT !.out = job[q].out \ R]
  BY <1>0, <1>4 DEF TypeOK
<1>7. ASSUME NEW q \in Handlers \ {p}
      PROVE  /\ job'[q] \in Jobs /\ job'[q].op = job[q].op /\ job'[q].id = job[q].id
             /\ job'[q].email = job[q].email /\ job'[q].by = job[q].by
             /\ job'[q].hasGroup = job[q].hasGroup /\ job'[q].entry = job[q].entry
             /\ job'[q].checkedAt = job[q].checkedAt /\ job'[q].out = job[q].out \ R
  <2>1. job[q] \in Jobs
    BY <1>0 DEF TypeOK
  <2> QED
    BY <1>6, <2>1 DEF Jobs
<1>8. TypeOK'
  <2>1. job' \in [Handlers -> Jobs]
    <3>1. \A q \in Handlers : job'[q] \in Jobs
      BY <1>3, <1>6, <1>7
    <3> QED
      BY <1>4, <3>1
  <2>2. Jobs' = Jobs /\ UserIds' = UserIds
    BY <1>2 DEF rows, Jobs, UserIds, MemberIds
  <2>3. pc' \in [Handlers -> Steps]
    BY <1>0, <1>4 DEF TypeOK, Steps
  <2>4. out' \subseteq UserIds
    BY <1>0, <1>4 DEF TypeOK
  <2> QED
    BY <1>0, <1>2, <2>1, <2>2, <2>3, <2>4 DEF TypeOK, rows
<1>9. RowsOK' /\ OwnersStay' /\ SameAddressOnlyFromRaces' /\ NobodyBarredLogsIn'
  BY <1>0, <1>2 DEF rows, RowsOK, OwnersStay, SameAddressOnlyFromRaces, NobodyBarredLogsIn,
                    UserIds, MemberIds
<1>10. OutOK'
  BY <1>0, <1>2, <1>4 DEF rows, OutOK, RowsOf, MemberIds
<1>11. RequestsOK'
  <2>1. RequestOK("rights", j)' /\ CheckOK(j)' /\ JoinOK("rights", j)' /\ MemberOK("rights", j)'
    <3>1. RequestOK("rights", j)'
      BY <1>2, <1>3 DEF rows, RequestOK, StepsOf, Joining, UserIds
    <3>2. CheckOK(j)'
      BY <1>0, <1>2, <1>3 DEF rows, CheckOK, UserIds, RowsOK, TypeOK
    <3>3. JoinOK("rights", j)' /\ MemberOK("rights", j)'
      BY <1>2, <1>3, <1>4, <1>5 DEF rows, JoinOK, MemberOK, Joining
    <3> QED
      BY <3>1, <3>2, <3>3
  <2>2. ASSUME NEW q \in Handlers \ {p}
        PROVE  /\ RequestOK(pc[q], job[q])' /\ CheckOK(job[q])'
               /\ JoinOK(pc[q], job[q])' /\ MemberOK(pc[q], job[q])'
    <3>0. RequestOK(pc[q], job[q]) /\ CheckOK(job[q]) /\ JoinOK(pc[q], job[q])
          /\ MemberOK(pc[q], job[q])
      BY <1>0 DEF RequestsOK
    <3>1. pc'[q] = pc[q]
      BY <1>6
    <3>2. RequestOK(pc[q], job[q])'
      <4>1. /\ groups' = groups /\ UserIds' = UserIds /\ out' = out \ R
        BY <1>2, <1>4 DEF rows, UserIds
      <4>2. job'[q].out \subseteq out'
        BY <1>7, <3>0, <4>1 DEF RequestOK
      <4> QED
        BY <1>7, <3>0, <3>1, <4>1, <4>2 DEF RequestOK
    <3>3. CheckOK(job[q])'
      BY <1>2, <1>7, <3>0 DEF rows, CheckOK, UserIds
    <3>a. /\ users' = users /\ members' = members /\ groups' = groups
          /\ out' \subseteq out /\ job'[q].id = job[q].id /\ job'[q].op = job[q].op
          /\ job'[q].entry = job[q].entry
      BY <1>2, <1>4, <1>7 DEF rows
    <3>b. RowsOf(job[q].id)' = RowsOf(job[q].id)
      BY <3>a DEF RowsOf, MemberIds
    <3>4. JoinOK(pc[q], job[q])'
      BY <3>a, <3>b, <3>0, <3>1 DEF JoinOK
    <3>5. MemberOK(pc[q], job[q])'
      BY <3>a, <3>b, <3>0, <3>1 DEF MemberOK
    <3> QED
      BY <3>2, <3>3, <3>4, <3>5
  <2> QED
    BY <1>6, <2>1, <2>2 DEF RequestsOK
<1>12. JoinersDiffer'
  BY <1>0, <1>6, <1>7 DEF JoinersDiffer, Joining
<1>13. LoginsOK'
  <2>1. users' = users
    BY <1>2 DEF rows
  <2>2. SUFFICES ASSUME NEW r \in Handlers, pc'[r] = "active", job'[r].id \in job'[r].out
                 PROVE  /\ (~Admitted(job[r].id))'
                        /\ \A q \in Handlers :
                              job'[q].op = "activate" /\ job'[q].id = job'[r].id =>
                                 pc'[q] = "rights" /\ users'[job'[q].id].deleted
    BY DEF LoginsOK
  <2>3. r # p
    BY <1>6, <2>2
  <2>4. pc[r] = "active" /\ job[r].id \in job[r].out /\ job'[r].id = job[r].id
        /\ job[r].id \notin R
    BY <1>6, <1>7, <2>2, <2>3
  <2>5. ~Admitted(job[r].id)
    BY <1>0, <2>4 DEF LoginsOK
  <2>6. (~Admitted(job[r].id))'
    BY <1>2, <2>4, <2>5 DEF rows, Admitted, MemberIds
  <2>7. ASSUME NEW q \in Handlers, job'[q].op = "activate", job'[q].id = job'[r].id
        PROVE  pc'[q] = "rights" /\ users[job'[q].id].deleted
    <3>1. CASE q = p
      BY <1>3, <1>5, <1>6, <2>4, <2>7, <3>1
    <3>2. CASE q # p
      <4>1. pc'[q] = pc[q] /\ job'[q].op = job[q].op /\ job'[q].id = job[q].id
        BY <1>6, <1>7, <3>2
      <4>2. job[q].op = "activate" /\ job[q].id = job[r].id
        BY <2>4, <2>7, <4>1
      <4>3. pc[q] = "rights" /\ users[job[q].id].deleted
        BY <1>0, <2>4, <4>2 DEF LoginsOK
      <4> QED
        BY <4>1, <4>3
    <3> QED
      BY <3>1, <3>2
  <2> QED
    BY <2>1, <2>6, <2>7
<1>14. AccountsWholeUnlessTorn'
  <2>1. SUFFICES ASSUME NEW i \in UserIds, ~users[i].deleted, users[i].role # "ADMIN",
                        i \notin torn, ~UnderWay(i)'
                 PROVE  Whole(i)
    BY <1>2 DEF rows, AccountsWholeUnlessTorn, Whole, Memberships, MemberIds, UserIds
  <2>2. ~UnderWay(i)
    BY <1>1, <1>6, <1>7, <2>1 DEF UnderWay
  <2> QED
    BY <1>0, <2>1, <2>2 DEF AccountsWholeUnlessTorn, Whole
<1> QED
  BY <1>8, <1>9, <1>10, <1>11, <1>12, <1>13, <1>14 DEF IInv
-----------------------------------------------------------------------------
(* The steps that write a table.                                           *)

MemberRows(G) == [user : UserIds, group : G, live : BOOLEAN, active : BOOLEAN]

LEMMA MemberRow ==
    ASSUME TypeOK, NEW k \in MemberIds
    PROVE  members[k] \in MemberRows(groups)
<1>1. members \in Seq(MemberRows(groups))
  BY DEF TypeOK, MemberRows
<1> QED
  BY <1>1 DEF MemberIds

LEMMA SeqOf ==
    ASSUME NEW S, NEW T, NEW q \in Seq(S), \A k \in 1..Len(q) : q[k] \in T
    PROVE  q \in Seq(T)
OBVIOUS

(* An account stays whole, or becomes it, or is being worked on.           *)
LEMMA WholeMove ==
    ASSUME IInv, NEW p \in Handlers, NEW s, NEW j, Move(p, s, j), torn' = torn,
           \A i \in UserIds' : ~users'[i].deleted /\ users'[i].role # "ADMIN" =>
              \/ /\ i \in UserIds /\ ~users[i].deleted /\ users[i].role # "ADMIN"
                 /\ Whole(i) => Whole(i)'
                 /\ pc[p] \in Making => job[p].id # i
              \/ s \in Making /\ j.id = i
              \/ Whole(i)'
    PROVE  AccountsWholeUnlessTorn'
<1>1. TypeOK /\ AccountsWholeUnlessTorn
  BY DEF IInv
<1>2. /\ pc'[p] = s /\ job'[p] = j
      /\ \A q \in Handlers \ {p} : pc'[q] = pc[q] /\ job'[q] = job[q]
  BY <1>1, Moved
<1> SUFFICES ASSUME NEW i \in UserIds', ~users'[i].deleted, users'[i].role # "ADMIN",
                    i \notin torn, ~UnderWay(i)'
             PROVE  Whole(i)'
  BY DEF AccountsWholeUnlessTorn, Whole
<1>3. ~(s \in Making /\ j.id = i)
  BY <1>2 DEF UnderWay, Making
<1>4. CASE /\ i \in UserIds /\ ~users[i].deleted /\ users[i].role # "ADMIN"
           /\ Whole(i) => Whole(i)'
           /\ pc[p] \in Making => job[p].id # i
  <2>1. ~UnderWay(i)
    BY <1>2, <1>4 DEF UnderWay, Making
  <2>2. Whole(i)
    BY <1>1, <1>4, <2>1 DEF AccountsWholeUnlessTorn, Whole
  <2> QED
    BY <1>4, <2>2
<1> QED
  BY <1>3, <1>4

LEMMA CreateSocialGroupStep ==
    ASSUME IInv, NEW p \in Handlers, CreateSocialGroup(p)
    PROVE  IInv'
<1> PICK o : o = job[p]
  OBVIOUS
<1>0. /\ TypeOK /\ RowsOK /\ OutOK /\ RequestsOK /\ JoinersDiffer /\ LoginsOK
      /\ SameAddressOnlyFromRaces /\ AccountsWholeUnlessTorn /\ OwnersStay
      /\ NobodyBarredLogsIn
  BY DEF IInv
<1>1. /\ pc[p] = "found" /\ groups' = groups \union {o.id} /\ Move(p, "join", o)
      /\ users' = users /\ members' = members /\ intruders' = intruders
      /\ writes' = writes /\ torn' = torn /\ out' = out
  BY <1>0 DEF CreateSocialGroup, Move, Goto, TypeOK, history
<1>2. o \in Jobs /\ RequestOK(pc[p], o) /\ CheckOK(o) /\ JoinOK(pc[p], o)
  BY Mover
<1>3. o.id \in UserIds /\ o.op = "register"
  BY <1>1, <1>2 DEF RequestOK, StepsOf, Joining, Jobs, Ops
<1>4. /\ UserIds' = UserIds /\ MemberIds' = MemberIds /\ Jobs' = Jobs
      /\ \A u : RowsOf(u)' = RowsOf(u)
  BY <1>1 DEF UserIds, MemberIds, Jobs, RowsOf
<1>5. TypeOK'
  <2>1. pc' \in [Handlers -> Steps] /\ job' \in [Handlers -> Jobs']
    <3>1. "join" \in Steps
      BY DEF Steps
    <3> QED
      BY <1>0, <1>1, <1>2, <1>4, <3>1, MovedType
  <2>2. groups' \subseteq UserIds
    BY <1>0, <1>1, <1>3 DEF TypeOK
  <2>3. groups \subseteq groups'
    BY <1>1
  <2>4. members' \in Seq([user : UserIds, group : groups', live : BOOLEAN, active : BOOLEAN])
    <3>1. members \in Seq(MemberRows(groups))
      BY <1>0 DEF TypeOK, MemberRows
    <3>2. \A k \in 1..Len(members) : members[k] \in MemberRows(groups')
      BY <1>0, <2>3, MemberRow DEF MemberRows, MemberIds
    <3>3. members \in Seq(MemberRows(groups'))
      BY <3>1, <3>2, SeqOf
    <3> QED
      BY <1>1, <3>3 DEF MemberRows
  <2> QED
    BY <1>0, <1>1, <1>4, <2>1, <2>2, <2>4 DEF TypeOK
<1>6. RowsOK' /\ OutOK' /\ OwnersStay' /\ SameAddressOnlyFromRaces' /\ NobodyBarredLogsIn'
  BY <1>0, <1>1, <1>4 DEF RowsOK, OutOK, OwnersStay, SameAddressOnlyFromRaces,
                         NobodyBarredLogsIn
<1>7. RequestsOK'
  <2>1. ASSUME NEW t, NEW k, Knows(t, k) PROVE Knows(t, k)'
    BY <1>1, <1>4, <2>1 DEF Knows, RequestOK, CheckOK, JoinOK, MemberOK
  <2>2. Knows("join", o)'
    <3>1. RequestOK("join", o)'
      BY <1>1, <1>2, <1>3, <1>4 DEF RequestOK, Joining, StepsOf
    <3>2. CheckOK(o)'
      BY <1>1, <1>2, <1>4 DEF CheckOK
    <3>3. JoinOK("join", o)' /\ MemberOK("join", o)'
      BY <1>1, <1>2, <1>3, <1>4 DEF JoinOK, MemberOK, Joining
    <3> QED
      BY <3>1, <3>2, <3>3 DEF Knows
  <2> QED
    BY <1>1, <2>1, <2>2, RequestsMove
<1>8. JoinersDiffer'
  <2>1. \A q \in Handlers \ {p} : pc[q] \in Joining => job[q].id # o.id
    BY <1>0, <1>1 DEF JoinersDiffer, Joining
  <2> QED
    BY <1>1, <2>1, JoinersMove
<1>9. LoginsOK'
  <2>1. ASSUME NEW t, NEW k, LoginOK(t, k) PROVE LoginOK(t, k)'
    BY <1>1, <1>4, <2>1 DEF LoginOK, Admitted
  <2>2. LoginOK("join", o)'
    BY DEF LoginOK
  <2> QED
    BY <1>1, <1>3, <2>1, <2>2, LoginsMove
<1>10. AccountsWholeUnlessTorn'
  <2>1. ASSUME NEW i \in UserIds, Whole(i) PROVE Whole(i)'
    <3>1. PICK g \in groups : Memberships(i, g) # {} /\ (users[i].role = "OWNER" => g = i)
      BY <2>1 DEF Whole
    <3>2. g \in groups' /\ Memberships(i, g)' = Memberships(i, g)
      BY <1>1, <1>4 DEF Memberships
    <3> QED
      BY <1>1, <3>1, <3>2 DEF Whole
  <2>2. "join" \in Making
    BY DEF Making
  <2> QED
    BY <1>1, <1>4, <2>1, <2>2, WholeMove
<1> QED
  BY <1>5, <1>6, <1>7, <1>8, <1>9, <1>10 DEF IInv

LEMMA RemoveUserFromGroupStep ==
    ASSUME IInv, NEW p \in Handlers, RemoveUserFromGroup(p)
    PROVE  IInv'
<1> PICK o : o = job[p]
  OBVIOUS
<1> DEFINE x == o.entry
           row == [members[x] EXCEPT !.live = FALSE]
<1>0. /\ TypeOK /\ RowsOK /\ OutOK /\ RequestsOK /\ JoinersDiffer /\ LoginsOK
      /\ SameAddressOnlyFromRaces /\ AccountsWholeUnlessTorn /\ OwnersStay
      /\ NobodyBarredLogsIn
  BY DEF IInv
<1>1. /\ pc[p] = "leave" /\ members' = [members EXCEPT ![x].live = FALSE]
      /\ Move(p, "delete", o)
      /\ users' = users /\ groups' = groups /\ intruders' = intruders
      /\ writes' = writes /\ torn' = torn /\ out' = out
  BY <1>0 DEF RemoveUserFromGroup, Move, Goto, TypeOK, history
<1>2. o \in Jobs /\ RequestOK(pc[p], o) /\ CheckOK(o) /\ MemberOK(pc[p], o)
  BY Mover
<1>3. /\ o.id \in UserIds /\ o.op = "remove" /\ x \in MemberIds /\ members[x].user = o.id
      /\ users[o.id].role # "OWNER"
  BY <1>1, <1>2 DEF RequestOK, StepsOf, Joining, Jobs, Ops, MemberOK, RowsOf
<1>4. members[x] \in [user : UserIds, group : groups, live : BOOLEAN, active : BOOLEAN]
  BY <1>0, <1>3, MemberRow DEF MemberRows
<1>5. /\ row \in [user : UserIds, group : groups, live : BOOLEAN, active : BOOLEAN]
      /\ row.user = o.id /\ row.group = members[x].group /\ row.live = FALSE
      /\ row.active = members[x].active
  BY <1>3, <1>4
<1>6. members' = [members EXCEPT ![x] = row]
  BY <1>1
<1> HIDE DEF row
<1>7. /\ members' \in Seq([user : UserIds, group : groups, live : BOOLEAN, active : BOOLEAN])
      /\ MemberIds' = MemberIds /\ members'[x] = row
      /\ \A k \in MemberIds \ {x} : members'[k] = members[k]
  BY <1>0, <1>3, <1>5, <1>6 DEF TypeOK, MemberIds
<1>8. /\ UserIds' = UserIds /\ Jobs' = Jobs
      /\ \A k \in MemberIds : /\ members'[k].user = members[k].user
                              /\ members'[k].group = members[k].group
                              /\ members'[k].active = members[k].active
                              /\ members'[k].live => members[k].live
                              /\ k # x => members'[k].live = members[k].live
  BY <1>1, <1>3, <1>5, <1>7 DEF UserIds, Jobs, MemberIds
<1>9. \A u : RowsOf(u)' = RowsOf(u)
  BY <1>7, <1>8 DEF RowsOf
<1>10. TypeOK'
  <2>1. "delete" \in Steps
    BY DEF Steps
  <2>2. pc' \in [Handlers -> Steps] /\ job' \in [Handlers -> Jobs']
    BY <1>0, <1>1, <1>2, <1>7, <1>8, <2>1, MovedType
  <2> QED
    BY <1>0, <1>1, <1>7, <1>8, <2>2 DEF TypeOK
<1>11. RowsOK' /\ OutOK' /\ SameAddressOnlyFromRaces' /\ NobodyBarredLogsIn'
  <2>1. RowsOK'
    BY <1>0, <1>1, <1>7, <1>8 DEF RowsOK
  <2>2. OutOK'
    BY <1>0, <1>1, <1>8, <1>9 DEF OutOK, RowsOf
  <2> QED
    BY <1>0, <1>1, <1>8, <2>1, <2>2 DEF SameAddressOnlyFromRaces, NobodyBarredLogsIn
<1>12. OwnersStay'
  BY <1>0, <1>1, <1>3, <1>7, <1>8 DEF OwnersStay
<1>13. RequestsOK'
  <2>1. ASSUME NEW t, NEW k, Knows(t, k) PROVE Knows(t, k)'
    <3>1. RequestOK(t, k)' /\ CheckOK(k)'
      BY <1>1, <1>8, <2>1 DEF Knows, RequestOK, CheckOK
    <3>2. JoinOK(t, k)'
      BY <1>1, <1>9, <2>1 DEF Knows, JoinOK
    <3>3. \A u : \A e \in RowsOf(u) : ~members[e].live => ~members'[e].live
      BY <1>8 DEF RowsOf
    <3>4. MemberOK(t, k)'
      BY <1>1, <1>9, <2>1, <3>3 DEF Knows, MemberOK
    <3> QED
      BY <3>1, <3>2, <3>4 DEF Knows
  <2>2. Knows("delete", o)'
    <3>1. RequestOK("delete", o)'
      BY <1>1, <1>2, <1>3, <1>8 DEF RequestOK, Joining, StepsOf
    <3>2. CheckOK(o)'
      BY <1>1, <1>2, <1>8 DEF CheckOK
    <3>3. JoinOK("delete", o)'
      BY DEF JoinOK, Joining
    <3>4. o.entry \in RowsOf(o.id)' /\ ~members'[x].live
      BY <1>3, <1>5, <1>7, <1>9 DEF RowsOf
    <3>5. MemberOK("delete", o)'
      BY <1>1, <1>3, <3>4 DEF MemberOK
    <3> QED
      BY <3>1, <3>2, <3>3, <3>5 DEF Knows
  <2> QED
    BY <1>1, <2>1, <2>2, RequestsMove
<1>14. JoinersDiffer'
  BY <1>1, JoinersMove DEF Joining
<1>15. LoginsOK'
  <2>1. ASSUME NEW t, NEW k, LoginOK(t, k) PROVE LoginOK(t, k)'
    BY <1>1, <1>7, <1>8, <2>1 DEF LoginOK, Admitted
  <2>2. LoginOK("delete", o)'
    BY DEF LoginOK
  <2> QED
    BY <1>1, <1>3, <2>1, <2>2, LoginsMove
<1>16. AccountsWholeUnlessTorn'
  <2>1. ASSUME NEW i \in UserIds \ {o.id}, Whole(i) PROVE Whole(i)'
    <3>1. PICK g \in groups : Memberships(i, g) # {} /\ (users[i].role = "OWNER" => g = i)
      BY <2>1 DEF Whole
    <3>2. Memberships(i, g)' = Memberships(i, g)
      BY <1>3, <1>7, <1>8 DEF Memberships
    <3> QED
      BY <1>1, <3>1, <3>2 DEF Whole
  <2>2. "delete" \in Making /\ "leave" \notin Making
    BY DEF Making
  <2> QED
    BY <1>1, <1>8, <2>1, <2>2, WholeMove
<1> QED
  BY <1>10, <1>11, <1>12, <1>13, <1>14, <1>15, <1>16 DEF IInv

LEMMA Idle ==
    /\ NoJob.op = "none" /\ NoJob.id = 0 /\ NoJob.hasGroup = FALSE /\ NoJob.out = {}
    /\ NoJob.checkedAt = 0 /\ NoJob.entry = 0
    /\ "idle" \in Steps /\ "idle" \notin Joining /\ "idle" \notin Making
BY DEF NoJob, Locals, Steps, Joining, Making

LEMMA IdleType == NoJob \in Jobs
BY DEF NoJob, Locals, Jobs, Ops

LEMMA IdleKnows == TypeOK /\ RowsOK => Knows("idle", NoJob)
<1> SUFFICES ASSUME TypeOK, RowsOK PROVE Knows("idle", NoJob)
  OBVIOUS
<1>1. RequestOK("idle", NoJob)
  BY Idle DEF RequestOK, StepsOf
<1>2. CheckOK(NoJob)
  BY Idle DEF CheckOK, RowsOK, TypeOK
<1>3. JoinOK("idle", NoJob) /\ MemberOK("idle", NoJob)
  BY Idle DEF JoinOK, MemberOK
<1> QED
  BY <1>1, <1>2, <1>3 DEF Knows

(* A request that, with a write, ends or is done with a row.               *)
LEMMA Done ==
    ASSUME IInv, NEW p \in Handlers, torn' = torn,
           NEW s \in {"idle", "row"}, NEW j \in Jobs, j.op # "activate", Move(p, s, j),
           (TypeOK /\ RowsOK)' => Knows(s, j)',
           UserIds \subseteq UserIds', MemberIds \subseteq MemberIds', RowsOK',
           (pc' \in [Handlers -> Steps] /\ job' \in [Handlers -> Jobs']) => TypeOK',
           \A q \in Handlers \ {p} : \A t, k :
              t = pc[q] /\ k = job[q] /\ Knows(t, k) => Knows(t, k)',
           \A q \in Handlers \ {p} : \A t, k :
              t = pc[q] /\ k = job[q] /\ LoginOK(t, k) => LoginOK(t, k)',
           \A i \in UserIds : users[i].deleted => users'[i].deleted,
           \A i \in UserIds' : ~users'[i].deleted /\ users'[i].role # "ADMIN" =>
              \/ /\ i \in UserIds /\ ~users[i].deleted /\ users[i].role # "ADMIN"
                 /\ Whole(i) => Whole(i)'
                 /\ pc[p] \in Making => job[p].id # i
              \/ Whole(i)'
    PROVE  TypeOK' /\ RequestsOK' /\ JoinersDiffer' /\ LoginsOK' /\ AccountsWholeUnlessTorn'
<1>0. TypeOK
  BY DEF IInv
<1>1. j \in Jobs'
  BY DEF Jobs
<1>2. s \in Steps /\ s \notin Joining /\ s # "active"
  BY DEF Steps, Joining
<1>3. TypeOK'
  BY <1>0, <1>1, <1>2, MovedType
<1>4. RequestsOK'
  BY <1>3, RequestsMove
<1>5. JoinersDiffer'
  BY <1>2, JoinersMove
<1>6. LoginsOK'
  <2>1. LoginOK(s, j)'
    BY <1>2 DEF LoginOK
  <2> QED
    BY <1>2, <2>1, LoginsMove
<1>7. AccountsWholeUnlessTorn'
  BY WholeMove
<1> QED
  BY <1>3, <1>4, <1>5, <1>6, <1>7

LEMMA Left ==
    ASSUME IInv, NEW p \in Handlers, Leave(p), torn' = torn,
           UserIds \subseteq UserIds', MemberIds \subseteq MemberIds', RowsOK',
           (pc' \in [Handlers -> Steps] /\ job' \in [Handlers -> Jobs']) => TypeOK',
           \A q \in Handlers \ {p} : \A t, k :
              t = pc[q] /\ k = job[q] /\ Knows(t, k) => Knows(t, k)',
           \A q \in Handlers \ {p} : \A t, k :
              t = pc[q] /\ k = job[q] /\ LoginOK(t, k) => LoginOK(t, k)',
           \A i \in UserIds : users[i].deleted => users'[i].deleted,
           \A i \in UserIds' : ~users'[i].deleted /\ users'[i].role # "ADMIN" =>
              \/ /\ i \in UserIds /\ ~users[i].deleted /\ users[i].role # "ADMIN"
                 /\ Whole(i) => Whole(i)'
                 /\ pc[p] \in Making => job[p].id # i
              \/ Whole(i)'
    PROVE  TypeOK' /\ RequestsOK' /\ JoinersDiffer' /\ LoginsOK' /\ AccountsWholeUnlessTorn'
<1> PICK j : j = NoJob
  OBVIOUS
<1>1. Move(p, "idle", j) /\ j \in Jobs /\ j.op = "none"
  BY Idle, IdleType DEF Leave, Move
<1>2. (TypeOK /\ RowsOK)' => Knows("idle", j)'
  <2>1. (TypeOK /\ RowsOK)' => Knows("idle", NoJob)'
    BY IdleKnows, PTL
  <2>2. NoJob' = NoJob
    BY DEF NoJob, Locals
  <2> QED
    BY <2>1, <2>2
<1> QED
  BY <1>1, <1>2, Done

LEMMA RemoveAccountStep ==
    ASSUME IInv, NEW p \in Handlers, RemoveAccount(p)
    PROVE  IInv'
<1> PICK o : o = job[p]
  OBVIOUS
<1> DEFINE i == o.id
           row == [users[i] EXCEPT !.deleted = TRUE]
<1>0. /\ TypeOK /\ RowsOK /\ OutOK /\ RequestsOK /\ JoinersDiffer /\ LoginsOK
      /\ SameAddressOnlyFromRaces /\ AccountsWholeUnlessTorn /\ OwnersStay
      /\ NobodyBarredLogsIn
  BY DEF IInv
<1>1. /\ pc[p] = "delete" /\ users' = [users EXCEPT ![i].deleted = TRUE] /\ Leave(p)
      /\ out' = out \union {i} /\ groups' = groups /\ members' = members
      /\ intruders' = intruders /\ writes' = writes /\ torn' = torn
  BY DEF RemoveAccount
<1>2. o \in Jobs /\ RequestOK(pc[p], o) /\ MemberOK(pc[p], o)
  BY Mover
<1>3. i \in UserIds /\ users[i].role # "OWNER"
  BY <1>1, <1>2 DEF RequestOK, MemberOK
<1>4. users[i] \in User
  BY <1>0, <1>3 DEF TypeOK, UserIds
<1>5. /\ row \in User /\ row.deleted = TRUE /\ row.role = users[i].role
      /\ row.email = users[i].email /\ row.since = users[i].since
      /\ row.checkedAt = users[i].checkedAt
  BY <1>4 DEF User
<1>6. users' = [users EXCEPT ![i] = row]
  BY <1>1
<1> HIDE DEF row
<1>7. /\ users' \in Seq(User) /\ UserIds' = UserIds /\ users'[i] = row
      /\ \A k \in UserIds \ {i} : users'[k] = users[k]
  BY <1>0, <1>3, <1>5, <1>6 DEF TypeOK, UserIds
<1>8. /\ MemberIds' = MemberIds /\ Jobs' = Jobs /\ users'[i].deleted
      /\ \A u : RowsOf(u)' = RowsOf(u)
      /\ \A k \in UserIds : /\ users'[k].role = users[k].role
                            /\ users'[k].email = users[k].email
                            /\ users'[k].since = users[k].since
                            /\ users'[k].checkedAt = users[k].checkedAt
                            /\ users[k].deleted => users'[k].deleted
                            /\ k # i => users'[k].deleted = users[k].deleted
  BY <1>1, <1>3, <1>5, <1>7 DEF MemberIds, Jobs, RowsOf
<1>9. \A k \in RowsOf(i) : ~members[k].live
  BY <1>0, <1>1, <1>2, <1>3 DEF MemberOK, RowsOK, RowsOf
<1>10. users[i].role = "ADMIN" \/ RowsOf(i) # {}
  BY <1>1, <1>2 DEF MemberOK
<1>11. RowsOK'
  <2>1. \A k \in MemberIds : members[k].user \in UserIds
    BY <1>0, MemberRow DEF MemberRows
  <2>2. \A k \in MemberIds : users'[members[k].user].deleted => ~members[k].live
    <3>1. \A k \in MemberIds : users[members[k].user].deleted => ~members[k].live
      BY <1>0 DEF RowsOK
    <3> QED
      BY <1>8, <1>9, <2>1, <3>1 DEF RowsOf
  <2> QED
    BY <1>0, <1>1, <1>8, <2>1, <2>2, <1>7 DEF RowsOK
<1>12. OutOK'
  BY <1>0, <1>1, <1>8 DEF OutOK, TypeOK
<1>13. OwnersStay' /\ NobodyBarredLogsIn'
  BY <1>0, <1>1, <1>3, <1>7, <1>8 DEF OwnersStay, NobodyBarredLogsIn
<1>14. SameAddressOnlyFromRaces'
  BY <1>0, <1>7, <1>8 DEF SameAddressOnlyFromRaces
<1>15. ASSUME NEW t, NEW k \in Jobs, Knows(t, k) PROVE Knows(t, k)'
  <2>1. RequestOK(t, k)' /\ CheckOK(k)'
    BY <1>1, <1>7, <1>8, <1>15 DEF Knows, RequestOK, CheckOK
  <2>2. JoinOK(t, k)'
    <3>1. SUFFICES ASSUME t \in Joining PROVE JoinOK(t, k)'
      BY DEF JoinOK
    <3>2. RequestOK(t, k) /\ JoinOK(t, k)
      BY <1>15 DEF Knows
    <3>3. k.id \in UserIds
      BY <3>1, <3>2 DEF RequestOK
    <3>4. k.id # i
      BY <1>10, <3>1, <3>2 DEF JoinOK
    <3> QED
      BY <1>1, <1>8, <3>2, <3>3, <3>4 DEF JoinOK
  <2>3. MemberOK(t, k)'
    <3>1. RequestOK(t, k) /\ MemberOK(t, k)
      BY <1>15 DEF Knows
    <3>2. t \in {"member", "leave", "toggle", "delete"} \/ k.op = "activate" => k.id \in UserIds
      BY <3>1 DEF RequestOK, StepsOf, Joining, Jobs, Ops
    <3> QED
      BY <1>1, <1>8, <3>1, <3>2 DEF MemberOK
  <2> QED
    BY <2>1, <2>2, <2>3 DEF Knows
<1>16. ASSUME NEW q \in Handlers, NEW t, NEW k, t = pc[q], k = job[q], LoginOK(t, k)
       PROVE  LoginOK(t, k)'
  <2>1. t = "active" => k.id \in UserIds
    BY <1>0, <1>16 DEF RequestsOK, RequestOK
  <2> QED
    BY <1>1, <1>8, <1>16, <2>1 DEF LoginOK, Admitted
<1>17. ASSUME NEW k \in UserIds, k # i, Whole(k) PROVE Whole(k)'
  BY <1>1, <1>8, <1>17 DEF Whole, Memberships
<1>18. TypeOK' /\ RequestsOK' /\ JoinersDiffer' /\ LoginsOK' /\ AccountsWholeUnlessTorn'
  <2>1. (pc' \in [Handlers -> Steps] /\ job' \in [Handlers -> Jobs']) => TypeOK'
    BY <1>0, <1>1, <1>3, <1>7 DEF TypeOK
  <2>2. \A q \in Handlers : job[q] \in Jobs
    BY <1>0 DEF TypeOK
  <2> QED
    BY <2>2, <1>1, <1>7, <1>8, <1>11, <1>15, <1>16, <1>17, <2>1, Left
<1> QED
  BY <1>11, <1>12, <1>13, <1>14, <1>18 DEF IInv

LEMMA ToggleActiveStep ==
    ASSUME IInv, NEW p \in Handlers, ToggleActive(p)
    PROVE  IInv'
<1> PICK o : o = job[p]
  OBVIOUS
<1> DEFINE i == o.id
           x == o.entry
           b == o.op = "activate"
           row == [members[x] EXCEPT !.active = b]
<1>0. /\ TypeOK /\ RowsOK /\ OutOK /\ RequestsOK /\ JoinersDiffer /\ LoginsOK
      /\ SameAddressOnlyFromRaces /\ AccountsWholeUnlessTorn /\ OwnersStay
      /\ NobodyBarredLogsIn
  BY DEF IInv
<1>1. /\ pc[p] = "toggle" /\ members' = [members EXCEPT ![x].active = b] /\ Leave(p)
      /\ out' = IF o.op = "deactivate" /\ ~Activating(i) THEN out \union {i} ELSE out
      /\ users' = users /\ groups' = groups
      /\ intruders' = intruders /\ writes' = writes /\ torn' = torn
  BY DEF ToggleActive
<1>2. o \in Jobs /\ RequestOK(pc[p], o) /\ MemberOK(pc[p], o)
  BY Mover
<1>3. /\ o.op \in {"activate", "deactivate"} /\ i \in UserIds /\ x \in MemberIds
      /\ members[x].user = i /\ users[i].role # "OWNER"
  BY <1>1, <1>2 DEF RequestOK, StepsOf, Joining, Jobs, Ops, MemberOK, RowsOf
<1>4. /\ members[x] \in [user : UserIds, group : groups, live : BOOLEAN, active : BOOLEAN]
      /\ b \in BOOLEAN
  BY <1>0, <1>3, MemberRow DEF MemberRows
<1>a. b <=> o.op = "activate"
  OBVIOUS
<1> HIDE DEF b
<1>5. /\ row \in [user : UserIds, group : groups, live : BOOLEAN, active : BOOLEAN]
      /\ row.user = i /\ row.group = members[x].group /\ row.live = members[x].live
      /\ row.active = b
  BY <1>3, <1>4
<1>6. members' = [members EXCEPT ![x] = row]
  BY <1>1
<1> HIDE DEF row
<1>7. /\ members' \in Seq([user : UserIds, group : groups, live : BOOLEAN, active : BOOLEAN])
      /\ MemberIds' = MemberIds /\ members'[x] = row
      /\ \A k \in MemberIds \ {x} : members'[k] = members[k]
  BY <1>0, <1>3, <1>5, <1>6 DEF TypeOK, MemberIds
<1>8. /\ UserIds' = UserIds /\ Jobs' = Jobs
      /\ \A k \in MemberIds : /\ members'[k].user = members[k].user
                              /\ members'[k].group = members[k].group
                              /\ members'[k].live = members[k].live
                              /\ k # x => members'[k].active = members[k].active
  BY <1>1, <1>3, <1>5, <1>7 DEF UserIds, Jobs, MemberIds
<1>9. /\ \A u : RowsOf(u)' = RowsOf(u)
      /\ x \in RowsOf(i) /\ \A k \in RowsOf(i) : k = x
      /\ users[i].role # "ADMIN"
  BY <1>0, <1>3, <1>7, <1>8 DEF RowsOf, RowsOK
<1>10. /\ out \subseteq out' /\ out' \subseteq UserIds
       /\ \A u \in out' \ out : u = i /\ o.op = "deactivate" /\ ~Activating(i)
  BY <1>0, <1>1, <1>3 DEF TypeOK
<1>11. RowsOK'
  BY <1>0, <1>1, <1>7, <1>8 DEF RowsOK
<1>12. OutOK'
  <2>1. SUFFICES ASSUME NEW u \in out', ~users[u].deleted
                 PROVE  users[u].role # "ADMIN" /\ \A k \in RowsOf(u) : ~members'[k].active
    BY <1>1, <1>9 DEF OutOK
  <2>2. CASE u = i
    <3>1. ~b
      BY <1>2, <1>10, <1>a, <2>1, <2>2 DEF MemberOK
    <3> QED
      BY <1>5, <1>7, <1>9, <2>2, <3>1
  <2>3. CASE u # i
    <3>1. u \in out
      BY <1>10, <2>3
    <3>2. \A k \in RowsOf(u) : k \in MemberIds /\ k # x
      BY <1>3, <2>3 DEF RowsOf
    <3> QED
      BY <1>0, <1>8, <2>1, <3>1, <3>2 DEF OutOK
  <2> QED
    BY <2>2, <2>3
<1>13. OwnersStay' /\ SameAddressOnlyFromRaces' /\ NobodyBarredLogsIn'
  <2>1. OwnersStay'
    BY <1>0, <1>1, <1>3, <1>7, <1>8 DEF OwnersStay
  <2> QED
    BY <1>0, <1>1, <1>8, <2>1 DEF SameAddressOnlyFromRaces, NobodyBarredLogsIn
<1>14. ASSUME NEW q \in Handlers, NEW t, NEW k, t = pc[q], k = job[q], Knows(t, k)
       PROVE  Knows(t, k)'
  <2>0. RequestOK(t, k) /\ JoinOK(t, k) /\ MemberOK(t, k) /\ CheckOK(k)
    BY <1>14 DEF Knows
  <2>1. RequestOK(t, k)'
    BY <1>1, <1>8, <1>10, <2>0 DEF RequestOK
  <2>2. CheckOK(k)'
    BY <1>1, <1>8, <2>0 DEF CheckOK
  <2>3. JoinOK(t, k)'
    <3>1. t \in Joining => k.id # i
      BY <1>9, <2>0 DEF JoinOK
    <3>2. t \in Joining => k.id \notin out'
      BY <1>10, <2>0, <3>1 DEF JoinOK
    <3> QED
      BY <1>1, <1>9, <2>0, <3>2 DEF JoinOK
  <2>4. MemberOK(t, k)'
    <3>1. k.op = "activate" /\ k.id \in out' => users[k.id].deleted
      BY <1>10, <1>14, <2>0 DEF MemberOK, Activating
    <3>2. \A u : \A e \in RowsOf(u) : members'[e].live = members[e].live
      BY <1>8 DEF RowsOf
    <3> QED
      BY <1>1, <1>9, <2>0, <3>1, <3>2 DEF MemberOK
  <2> QED
    BY <2>1, <2>2, <2>3, <2>4 DEF Knows
<1>15. ASSUME NEW q \in Handlers, NEW t, NEW k, t = pc[q], k = job[q], LoginOK(t, k)
       PROVE  LoginOK(t, k)'
  <2>1. SUFFICES ASSUME t = "active", k.id \in k.out PROVE (~Admitted(k.id))'
    BY DEF LoginOK
  <2>2. ~Admitted(k.id)
    BY <1>15, <2>1 DEF LoginOK
  <2>3. b => k.id # i
    BY <1>0, <1>1, <1>15, <1>a, <2>1 DEF LoginsOK
  <2> QED
    BY <1>1, <1>3, <1>5, <1>7, <1>8, <2>2, <2>3 DEF Admitted
<1>16. ASSUME NEW k \in UserIds, Whole(k) PROVE Whole(k)'
  <2>1. PICK g \in groups : Memberships(k, g) # {} /\ (users[k].role = "OWNER" => g = k)
    BY <1>16 DEF Whole
  <2>2. Memberships(k, g)' = Memberships(k, g)
    BY <1>7, <1>8 DEF Memberships
  <2> QED
    BY <1>1, <2>1, <2>2 DEF Whole
<1>17. TypeOK' /\ RequestsOK' /\ JoinersDiffer' /\ LoginsOK' /\ AccountsWholeUnlessTorn'
  <2>1. (pc' \in [Handlers -> Steps] /\ job' \in [Handlers -> Jobs']) => TypeOK'
    BY <1>0, <1>1, <1>7, <1>8, <1>10 DEF TypeOK
  <2>2. "toggle" \notin Making
    BY DEF Making
  <2> QED
    BY <1>1, <1>7, <1>8, <1>11, <1>14, <1>15, <1>16, <2>1, <2>2, Left
<1> QED
  BY <1>11, <1>12, <1>13, <1>17 DEF IInv

LEMMA AddUserToGroupStep ==
    ASSUME IInv, NEW p \in Handlers, AddUserToGroup(p)
    PROVE  IInv'
<1> PICK o : o = job[p]
  OBVIOUS
<1> DEFINE i == o.id
           g == IF o.op = "register" THEN i ELSE o.by
           row == [user |-> i, live |-> TRUE, active |-> TRUE, group |-> g]
           x == Len(members) + 1
<1>0. /\ TypeOK /\ RowsOK /\ OutOK /\ RequestsOK /\ JoinersDiffer /\ LoginsOK
      /\ SameAddressOnlyFromRaces /\ AccountsWholeUnlessTorn /\ OwnersStay
      /\ NobodyBarredLogsIn
  BY DEF IInv
<1>1. /\ pc[p] = "join" /\ (o.op = "register" \/ o.hasGroup)
      /\ members' = Append(members, row)
      /\ users' = users /\ groups' = groups
      /\ intruders' = intruders /\ writes' = writes /\ torn' = torn /\ out' = out
  BY DEF AddUserToGroup, history
<1>2. o \in Jobs /\ RequestOK(pc[p], o) /\ JoinOK(pc[p], o)
  BY Mover
<1>3. /\ i \in UserIds /\ RowsOf(i) = {} /\ ~users[i].deleted /\ i \notin out
      /\ g \in groups /\ (users[i].role = "OWNER" => g = i) /\ users[i].role # "ADMIN"
  BY <1>1, <1>2 DEF RequestOK, JoinOK, Joining
<1> HIDE DEF g
<1>5. /\ row \in [user : UserIds, group : groups, live : BOOLEAN, active : BOOLEAN]
      /\ row.user = i /\ row.group = g /\ row.live = TRUE /\ row.active = TRUE
  BY <1>3
<1> HIDE DEF row
<1>7. /\ members' \in Seq([user : UserIds, group : groups, live : BOOLEAN, active : BOOLEAN])
      /\ MemberIds' = MemberIds \union {x} /\ x \notin MemberIds /\ members'[x] = row
      /\ \A k \in MemberIds : members'[k] = members[k]
  BY <1>0, <1>1, <1>5 DEF TypeOK, MemberIds
<1> HIDE DEF x
<1>8. /\ UserIds' = UserIds /\ Jobs \subseteq Jobs' /\ MemberIds \subseteq MemberIds'
  BY <1>1, <1>7 DEF UserIds, Jobs
<1>b. /\ users' = users /\ groups' = groups /\ MemberIds' = MemberIds \union {x}
      /\ members'[x].user = i /\ members'[x].live /\ members'[x].active
      /\ \A k \in MemberIds : members'[k] = members[k]
  BY <1>1, <1>5, <1>7
<1>9. /\ \A u : u # i => RowsOf(u)' = RowsOf(u)
      /\ \A u : RowsOf(u) \subseteq MemberIds /\ RowsOf(u) \subseteq RowsOf(u)'
  BY <1>5, <1>7 DEF RowsOf
<1>11. RowsOK'
  <2>1. \A k \in MemberIds : members[k].user # i
    BY <1>3 DEF RowsOf
  <2>2. \A k, l \in MemberIds' : members'[k].user = members'[l].user => k = l
    BY <1>0, <1>5, <1>7, <2>1 DEF RowsOK
  <2>3. \A k \in MemberIds' :
          LET u == users[members'[k].user]
          IN  /\ u.role # "ADMIN"
              /\ u.role = "OWNER" => members'[k].group = members'[k].user
              /\ u.deleted => ~members'[k].live
    BY <1>0, <1>3, <1>5, <1>7 DEF RowsOK
  <2> QED
    BY <1>0, <1>1, <1>8, <2>2, <2>3 DEF RowsOK
<1>12. OutOK'
  <2>1. ASSUME NEW u \in out PROVE RowsOf(u)' = RowsOf(u)
    BY <1>3, <1>9
  <2> QED
    BY <1>0, <1>1, <1>7, <1>9, <2>1 DEF OutOK
<1>13. OwnersStay' /\ SameAddressOnlyFromRaces' /\ NobodyBarredLogsIn'
  <2>1. OwnersStay'
    BY <1>0, <1>3, <1>8, <1>b DEF OwnersStay
  <2> QED
    BY <1>0, <1>1, <1>8, <2>1 DEF SameAddressOnlyFromRaces, NobodyBarredLogsIn
<1>14. ASSUME NEW q \in Handlers \ {p}, NEW t, NEW k, t = pc[q], k = job[q], Knows(t, k)
       PROVE  Knows(t, k)'
  <2>0. RequestOK(t, k) /\ JoinOK(t, k) /\ MemberOK(t, k) /\ CheckOK(k)
    BY <1>14 DEF Knows
  <2>1. RequestOK(t, k)'
    BY <1>1, <1>8, <2>0 DEF RequestOK
  <2>2. CheckOK(k)'
    BY <1>1, <1>8, <2>0 DEF CheckOK
  <2>3. JoinOK(t, k)'
    <3>1. t \in Joining => k.id # i
      BY <1>0, <1>1, <1>14 DEF JoinersDiffer, Joining
    <3> QED
      BY <1>1, <1>9, <2>0, <3>1 DEF JoinOK
  <2>4. MemberOK(t, k)'
    <3>1. \A e \in RowsOf(k.id) : members'[e] = members[e] /\ e \in RowsOf(k.id)'
      BY <1>7, <1>9
    <3> QED
      BY <1>1, <2>0, <3>1 DEF MemberOK
  <2> QED
    BY <2>1, <2>2, <2>3, <2>4 DEF Knows
<1>15. ASSUME NEW q \in Handlers, NEW t, NEW k, t = pc[q], k = job[q], LoginOK(t, k)
       PROVE  LoginOK(t, k)'
  <2>1. SUFFICES ASSUME t = "active", k.id \in k.out PROVE (~Admitted(k.id))'
    BY DEF LoginOK
  <2>2. ~Admitted(k.id)
    BY <1>15, <2>1 DEF LoginOK
  <2>3. k.id # i
    BY <1>0, <1>3, <1>15, <2>1 DEF RequestsOK, RequestOK
  <2> QED
    BY <1>b, <2>2, <2>3 DEF Admitted
<1>16. ASSUME NEW k \in UserIds, Whole(k) PROVE Whole(k)'
  <2>1. PICK h \in groups : Memberships(k, h) # {} /\ (users[k].role = "OWNER" => h = k)
    BY <1>16 DEF Whole
  <2>2. Memberships(k, h) \subseteq Memberships(k, h)'
    BY <1>7 DEF Memberships
  <2> QED
    BY <1>1, <2>1, <2>2 DEF Whole
<1>17. Whole(i)'
  <2>1. x \in Memberships(i, g)'
    BY <1>5, <1>7 DEF Memberships
  <2> QED
    BY <1>1, <1>3, <2>1 DEF Whole
<1>18. (pc' \in [Handlers -> Steps] /\ job' \in [Handlers -> Jobs']) => TypeOK'
  BY <1>0, <1>1, <1>7, <1>8 DEF TypeOK
<1>19. CASE o.op # "import"
  <2>1. Leave(p)
    BY <1>19 DEF AddUserToGroup
  <2>2. TypeOK' /\ RequestsOK' /\ JoinersDiffer' /\ LoginsOK' /\ AccountsWholeUnlessTorn'
    BY <1>1, <1>7, <1>8, <1>11, <1>14, <1>15, <1>16, <1>17, <1>18, <2>1, Left
  <2> QED
    BY <1>11, <1>12, <1>13, <2>2 DEF IInv
<1>20. CASE o.op = "import"
  <2> PICK j : j = Onward(o)
    OBVIOUS
  <2>1. Move(p, "row", j)
    BY <1>0, <1>20 DEF AddUserToGroup, ToNextRow, Onward, Move, Goto, TypeOK
  <2>2. j \in Jobs /\ j.op = "import" /\ Knows("row", j)
    BY <1>0, <1>2, <1>20, OnwardJob, OnwardKnows
  <2>3. (TypeOK /\ RowsOK)' => Knows("row", j)'
    <3>1. RequestOK("row", j)' /\ CheckOK(j)'
      BY <1>1, <1>8, <2>2 DEF Knows, RequestOK, CheckOK
    <3>2. JoinOK("row", j)' /\ MemberOK("row", j)'
      BY <2>2 DEF JoinOK, MemberOK, Joining
    <3> QED
      BY <3>1, <3>2 DEF Knows
  <2>4. TypeOK' /\ RequestsOK' /\ JoinersDiffer' /\ LoginsOK' /\ AccountsWholeUnlessTorn'
    BY <1>1, <1>7, <1>8, <1>11, <1>14, <1>15, <1>16, <1>17, <1>18, <2>1, <2>2, <2>3, Done
  <2> QED
    BY <1>11, <1>12, <1>13, <2>4 DEF IInv
<1> QED
  BY <1>19, <1>20

LEMMA UpdateUserStep ==
    ASSUME IInv, NEW p \in Handlers, UpdateUser(p)
    PROVE  IInv'
<1> PICK o : o = job[p]
  OBVIOUS
<1> DEFINE i == o.id
           w == writes + 1
           row == [users[i] EXCEPT !.email = o.email, !.since = w, !.checkedAt = o.checkedAt]
<1>0. /\ TypeOK /\ RowsOK /\ OutOK /\ RequestsOK /\ JoinersDiffer /\ LoginsOK
      /\ SameAddressOnlyFromRaces /\ AccountsWholeUnlessTorn /\ OwnersStay
      /\ NobodyBarredLogsIn
  BY DEF IInv
<1>1. /\ pc[p] = "update" /\ Leave(p) /\ groups' = groups /\ members' = members
      /\ intruders' = intruders /\ torn' = torn /\ out' = out
  BY DEF UpdateUser
<1>2. o \in Jobs /\ RequestOK(pc[p], o) /\ CheckOK(o)
  BY Mover
<1>3. i \in UserIds /\ o.op \in {"edit", "account"} /\ pc[p] \notin Making
  BY <1>1, <1>2 DEF RequestOK, StepsOf, Joining, Jobs, Ops, Making
<1>4. CASE users[i].email = o.email
  <2>1. UNCHANGED kept /\ torn \subseteq torn' /\ torn' \subseteq UserIds
    BY <1>0, <1>1, <1>4 DEF UpdateUser, kept, rows, TypeOK
  <2> QED
    BY <1>1, <1>3, <2>1, LeaveStep
<1>5. CASE users[i].email # o.email
  <2>1. users' = [users EXCEPT ![i] = row] /\ writes' = w
    BY <1>5 DEF UpdateUser
  <2>2. /\ users[i] \in User /\ w \in Nat /\ w > writes /\ o.checkedAt <= writes
        /\ writes \in Nat /\ o.checkedAt \in Nat /\ o.email \in Emails
    BY <1>0, <1>2, <1>3 DEF TypeOK, UserIds, CheckOK, RequestOK, Jobs
  <2>a. \A v \in 1..writes : v < w /\ v \in 1..w
    BY <2>2
  <2> HIDE DEF w
  <2>3. /\ row \in User /\ row.email = o.email /\ row.since = w
        /\ row.checkedAt = o.checkedAt /\ row.role = users[i].role
        /\ row.deleted = users[i].deleted
    BY <2>2 DEF User
  <2> HIDE DEF row
  <2>4. /\ users' \in Seq(User) /\ UserIds' = UserIds /\ users'[i] = row
        /\ \A k \in UserIds \ {i} : users'[k] = users[k]
    BY <1>0, <1>3, <2>1, <2>3 DEF TypeOK, UserIds
  <2>5. /\ MemberIds' = MemberIds /\ Jobs' = Jobs /\ \A u : RowsOf(u)' = RowsOf(u)
        /\ \A k \in UserIds : /\ users'[k].role = users[k].role
                              /\ users'[k].deleted = users[k].deleted
                              /\ users[k].since \in 1..writes
        /\ \A k \in MemberIds : members[k].user \in UserIds
    BY <1>0, <1>1, <2>3, <2>4, MemberRow DEF MemberIds, Jobs, RowsOf, RowsOK, MemberRows
  <2>6. RowsOK'
    <3>1. \A k \in UserIds : users'[k].since \in 1..w
      BY <2>2, <2>3, <2>4, <2>5, <2>a
    <3> QED
      BY <1>0, <1>1, <2>1, <2>4, <2>5, <3>1 DEF RowsOK
  <2>7. OutOK'
    BY <1>0, <1>1, <2>5 DEF OutOK, TypeOK
  <2>8. OwnersStay' /\ NobodyBarredLogsIn'
    BY <1>0, <1>1, <2>4, <2>5 DEF OwnersStay, NobodyBarredLogsIn
  <2>9. SameAddressOnlyFromRaces'
    <3>1. SUFFICES ASSUME NEW m \in UserIds, NEW k \in UserIds,
                          users'[m].email = users'[k].email,
                          ~users[m].deleted, ~users[k].deleted,
                          users'[m].since < users'[k].since
                   PROVE  users'[k].checkedAt < users'[m].since
      BY <2>4, <2>5 DEF SameAddressOnlyFromRaces
    <3>2. m # i
      BY <2>2, <2>3, <2>4, <2>5, <2>a, <3>1
    <3>3. CASE k = i
      BY <1>2, <2>3, <2>4, <3>1, <3>2, <3>3 DEF CheckOK
    <3>4. CASE k # i
      BY <1>0, <2>4, <3>1, <3>2, <3>4 DEF SameAddressOnlyFromRaces
    <3> QED
      BY <3>3, <3>4
  <2>10. ASSUME NEW t, NEW k \in Jobs, Knows(t, k) PROVE Knows(t, k)'
    <3>0. RequestOK(t, k) /\ JoinOK(t, k) /\ MemberOK(t, k) /\ CheckOK(k)
      BY <2>10 DEF Knows
    <3>1. RequestOK(t, k)'
      BY <1>1, <2>4, <3>0 DEF RequestOK
    <3>2. CheckOK(k)'
      <4>1. k.checkedAt <= writes /\ k.checkedAt \in Nat
        BY <3>0 DEF CheckOK, Jobs
      <4>2. k.checkedAt <= writes' /\ k.checkedAt < w
        BY <2>1, <2>2, <4>1
      <4> QED
        BY <2>3, <2>4, <3>0, <4>2 DEF CheckOK
    <3>3. t \in Joining \union {"member", "leave", "toggle", "delete"} \/ k.op = "activate"
             => k.id \in UserIds
      BY <3>0 DEF RequestOK, StepsOf, Joining, Jobs, Ops
    <3>4. JoinOK(t, k)' /\ MemberOK(t, k)'
      BY <1>1, <2>5, <3>0, <3>3 DEF JoinOK, MemberOK
    <3> QED
      BY <3>1, <3>2, <3>4 DEF Knows
  <2>11. ASSUME NEW q \in Handlers, NEW t, NEW k, t = pc[q], k = job[q], LoginOK(t, k)
         PROVE  LoginOK(t, k)'
    <3>1. t = "active" => k.id \in UserIds
      BY <1>0, <2>11 DEF RequestsOK, RequestOK
    <3> QED
      BY <1>1, <2>5, <2>11, <3>1 DEF LoginOK, Admitted
  <2>12. ASSUME NEW k \in UserIds, Whole(k) PROVE Whole(k)'
    BY <1>1, <2>5, <2>12 DEF Whole, Memberships
  <2>13. TypeOK' /\ RequestsOK' /\ JoinersDiffer' /\ LoginsOK' /\ AccountsWholeUnlessTorn'
    <3>1. (pc' \in [Handlers -> Steps] /\ job' \in [Handlers -> Jobs']) => TypeOK'
      BY <1>0, <1>1, <2>1, <2>2, <2>4 DEF TypeOK
    <3>2. \A q \in Handlers : job[q] \in Jobs
      BY <1>0 DEF TypeOK
    <3> QED
      BY <1>1, <1>3, <2>4, <2>5, <2>6, <2>10, <2>11, <2>12, <3>1, <3>2, Left
  <2> QED
    BY <2>6, <2>7, <2>8, <2>9, <2>13 DEF IInv
<1> QED
  BY <1>4, <1>5

(* A new account, for whoever asked for it.                                *)
LEMMA InsertUserStep ==
    ASSUME IInv, NEW p \in Handlers, InsertUser(p)
    PROVE  IInv'
<1> PICK o : o = job[p]
  OBVIOUS
<1> DEFINE n == Len(users) + 1
           w == writes + 1
           row == NewUser(o)
           role == CASE o.op = "register" -> "OWNER" [] o.op = "admin" -> "ADMIN"
                     [] OTHER -> "SUPPORTER"
           s == CASE o.op = "admin" -> "idle" [] o.op = "register" -> "mail"
                  [] OTHER -> "join"
           l == [o EXCEPT !.id = n]
           j == IF o.op = "admin" THEN NoJob ELSE l
<1>0. /\ TypeOK /\ RowsOK /\ OutOK /\ RequestsOK /\ JoinersDiffer /\ LoginsOK
      /\ SameAddressOnlyFromRaces /\ AccountsWholeUnlessTorn /\ OwnersStay
      /\ NobodyBarredLogsIn
  BY DEF IInv
<1>1. /\ pc[p] = "create" /\ users' = Append(users, row) /\ writes' = w
      /\ groups' = groups /\ members' = members
      /\ intruders' = intruders /\ torn' = torn /\ out' = out
  BY DEF InsertUser
<1>2. o \in Jobs /\ RequestOK(pc[p], o) /\ CheckOK(o)
  BY Mover
<1>3. /\ o.op \in {"register", "employee", "admin", "import"} /\ o.id = 0 /\ o.email \in Emails
      /\ pc[p] \notin Making
  BY <1>1, <1>2 DEF RequestOK, StepsOf, Joining, Jobs, Ops, Making
<1>4. Move(p, s, j)
  BY <1>3 DEF InsertUser, Leave, Move, Goto
<1>5. /\ w \in Nat /\ w > writes /\ writes \in Nat /\ o.checkedAt \in Nat
      /\ o.checkedAt <= writes /\ n \in Nat /\ n # 0
      /\ \A v \in 1..writes : v < w /\ v \in 1..w
      /\ w \in 1..w
  BY <1>0, <1>2 DEF TypeOK, CheckOK, Jobs
<1>6. role \in Roles
  BY DEF Roles
<1>7. row = [email |-> o.email, deleted |-> FALSE, since |-> w, checkedAt |-> o.checkedAt,
             role |-> role]
  BY DEF NewUser
<1>a. /\ o.op = "register" => role = "OWNER" /\ s = "mail"
      /\ o.op \in {"employee", "import"} => role = "SUPPORTER" /\ s = "join"
      /\ o.op = "admin" => role = "ADMIN" /\ s = "idle"
      /\ s \in Steps
  BY <1>3 DEF Steps
<1> HIDE DEF role, s, w
<1>8. /\ row \in User /\ row.email = o.email /\ row.since = w /\ row.role = role
      /\ row.checkedAt = o.checkedAt /\ row.deleted = FALSE
  BY <1>3, <1>5, <1>6, <1>7 DEF User
<1> HIDE DEF row
<1>9. /\ users' \in Seq(User) /\ UserIds' = UserIds \union {n} /\ n \notin UserIds
      /\ users'[n] = row /\ \A k \in UserIds : users'[k] = users[k]
  BY <1>0, <1>1, <1>8 DEF TypeOK, UserIds
<1>10. /\ MemberIds' = MemberIds /\ \A u : RowsOf(u)' = RowsOf(u)
       /\ \A k \in MemberIds : members[k].user \in UserIds
       /\ \A k \in UserIds : users[k].since \in 1..writes
       /\ groups \subseteq UserIds /\ out \subseteq UserIds
  BY <1>0, <1>1, MemberRow DEF MemberIds, RowsOf, MemberRows, RowsOK, TypeOK
<1>b. /\ l \in Jobs' /\ l.op = o.op /\ l.by = o.by /\ l.id = n /\ l.email = o.email
      /\ l.hasGroup = o.hasGroup /\ l.entry = o.entry /\ l.checkedAt = o.checkedAt
      /\ l.out = o.out
  <2>1. n \in UserIds'
    BY <1>9
  <2> HIDE DEF n
  <2>2. /\ Ops' = Ops /\ {0} \union UserIds \subseteq {0} \union UserIds'
        /\ UserIds \subseteq UserIds' /\ MemberIds' = MemberIds
    BY <1>9, <1>10
  <2> QED
    BY <1>2, <2>1, <2>2 DEF Jobs
<1> HIDE DEF l
<1>11. /\ j \in Jobs'
       /\ \/ j.op = "none" /\ j.id = 0 /\ s = "idle" /\ j = NoJob
          \/ j.op # "none" /\ j.id = n /\ s \in {"mail", "join"} /\ j = l /\ o.op # "admin"
  <2>1. CASE o.op = "admin"
    <3>1. NoJob \in Jobs'
      BY IdleType, <1>9, <1>10 DEF Jobs
    <3> QED
      BY <1>a, <2>1, <3>1, Idle
  <2>2. CASE o.op # "admin"
    BY <1>3, <1>a, <1>b, <2>2
  <2> QED
    BY <2>1, <2>2
<1> HIDE DEF j, n
<1> PICK jj, ss : jj = j /\ ss = s
  OBVIOUS
<1>c. Move(p, ss, jj)
  BY <1>4
<1>12. TypeOK'
  <2>1. pc' \in [Handlers -> Steps] /\ job' \in [Handlers -> Jobs']
    BY <1>0, <1>a, <1>c, <1>9, <1>10, <1>11, MovedType
  <2>2. UserIds \subseteq UserIds'
    BY <1>9
  <2>3. members \in Seq([user : UserIds', group : groups, live : BOOLEAN, active : BOOLEAN])
    <3>1. \A k \in MemberIds :
             members[k] \in [user : UserIds', group : groups, live : BOOLEAN, active : BOOLEAN]
      BY <1>0, <2>2, MemberRow DEF MemberRows
    <3>2. members \in Seq([user : UserIds, group : groups, live : BOOLEAN, active : BOOLEAN])
      BY <1>0 DEF TypeOK
    <3> QED
      BY <3>1, <3>2, SeqOf DEF MemberIds
  <2> QED
    BY <1>0, <1>1, <1>5, <1>9, <2>1, <2>2, <2>3 DEF TypeOK
<1>13. RowsOK'
  <2>1. \A k \in UserIds' : users'[k].since \in 1..w
    BY <1>5, <1>8, <1>9, <1>10
  <2> QED
    BY <1>0, <1>1, <1>9, <1>10, <2>1 DEF RowsOK
<1>14. OutOK' /\ NobodyBarredLogsIn'
  <2>1. OutOK'
    BY <1>0, <1>1, <1>9, <1>10 DEF OutOK
  <2> QED
    BY <1>0, <1>1, <2>1 DEF NobodyBarredLogsIn
<1>15. OwnersStay'
  <2>1. ASSUME NEW i \in UserIds', users'[i].role = "OWNER"
        PROVE  /\ ~users'[i].deleted
               /\ \A k \in MemberIds :
                     members[k].user = i => members[k].live /\ members[k].active
    <3>1. CASE i = n
      BY <1>8, <1>9, <1>10, <3>1
    <3>2. CASE i # n
      BY <1>0, <1>9, <2>1, <3>2 DEF OwnersStay
    <3> QED
      BY <3>1, <3>2
  <2> QED
    BY <1>1, <1>10, <2>1 DEF OwnersStay
<1>16. SameAddressOnlyFromRaces'
  <2>1. SUFFICES ASSUME NEW m \in UserIds', NEW k \in UserIds',
                        users'[m].email = users'[k].email,
                        ~users'[m].deleted, ~users'[k].deleted,
                        users'[m].since < users'[k].since
                 PROVE  users'[k].checkedAt < users'[m].since
    BY DEF SameAddressOnlyFromRaces
  <2>2. m # n
    BY <1>5, <1>8, <1>9, <1>10, <2>1
  <2>3. CASE k = n
    BY <1>2, <1>3, <1>5, <1>8, <1>9, <2>1, <2>2, <2>3 DEF CheckOK, UserIds
  <2>4. CASE k # n
    BY <1>0, <1>9, <2>1, <2>2, <2>4 DEF SameAddressOnlyFromRaces
  <2> QED
    BY <2>3, <2>4
<1>17. ASSUME NEW t, NEW k \in Jobs, Knows(t, k) PROVE Knows(t, k)'
  <2>0. RequestOK(t, k) /\ JoinOK(t, k) /\ MemberOK(t, k) /\ CheckOK(k)
    BY <1>17 DEF Knows
  <2>1. RequestOK(t, k)'
    BY <1>1, <1>9, <2>0 DEF RequestOK
  <2>2. CheckOK(k)'
    <3>1. k.checkedAt <= writes /\ k.checkedAt \in Nat
      BY <2>0 DEF CheckOK, Jobs
    <3>2. k.checkedAt <= writes' /\ k.checkedAt < w
      BY <1>1, <1>5, <3>1
    <3> QED
      BY <1>8, <1>9, <2>0, <3>2 DEF CheckOK
  <2>3. t \in Joining \union {"member", "leave", "toggle", "delete"} \/ k.op = "activate"
           => k.id \in UserIds
    BY <2>0 DEF RequestOK, StepsOf, Joining, Jobs, Ops
  <2>4. JoinOK(t, k)' /\ MemberOK(t, k)'
    BY <1>1, <1>9, <1>10, <2>0, <2>3 DEF JoinOK, MemberOK
  <2> QED
    BY <2>1, <2>2, <2>4 DEF Knows
<1>18. Knows(ss, jj)'
  <2>1. CASE j = NoJob /\ s = "idle"
    <3>1. Knows("idle", NoJob)'
      BY <1>12, <1>13, IdleKnows, PTL
    <3>2. NoJob' = NoJob
      BY DEF NoJob, Locals
    <3> QED
      BY <2>1, <3>1, <3>2
  <2>2. CASE j = l /\ j.id = n /\ s \in {"mail", "join"} /\ o.op # "admin"
    <3>1. RequestOK(ss, jj)'
      <4>1. s \in StepsOf(o.op)
        BY <1>3, <1>a, <2>2 DEF StepsOf, Joining
      <4>2. n \in UserIds'
        BY <1>9
      <4> QED
        BY <1>1, <1>2, <1>3, <1>b, <2>2, <4>1, <4>2 DEF RequestOK
    <3>2. CheckOK(jj)'
      <4>1. \A m \in UserIds : users[m].email = o.email /\ ~users[m].deleted
                                  => o.checkedAt < users[m].since
        BY <1>2, <1>3 DEF CheckOK, UserIds
      <4>2. o.checkedAt <= w
        BY <1>5
      <4> QED
        BY <1>1, <1>9, <1>b, <2>2, <4>1, <4>2 DEF CheckOK
    <3>3. JoinOK(ss, jj)'
      <4>1. RowsOf(n) = {} /\ n \notin out
        BY <1>9, <1>10 DEF RowsOf
      <4>2. o.op = "register" => s # "join"
        BY <1>a
      <4> QED
        BY <1>1, <1>3, <1>8, <1>9, <1>10, <1>a, <1>b, <2>2, <4>1, <4>2 DEF JoinOK
    <3>4. MemberOK(ss, jj)'
      BY <1>3, <1>b, <2>2 DEF MemberOK
    <3> QED
      BY <3>1, <3>2, <3>3, <3>4 DEF Knows
  <2> QED
    BY <1>11, <2>1, <2>2
<1>19. RequestsOK'
  <2>1. \A q \in Handlers : job[q] \in Jobs
    BY <1>0 DEF TypeOK
  <2> QED
    BY <1>c, <1>17, <1>18, <2>1, RequestsMove
<1>20. JoinersDiffer'
  <2>1. \A q \in Handlers \ {p} : pc[q] \in Joining => job[q].id # n
    BY <1>0, <1>9 DEF RequestsOK, RequestOK
  <2> QED
    BY <1>c, <1>11, <2>1, Idle, JoinersMove
<1>21. LoginsOK'
  <2>1. ASSUME NEW q \in Handlers, NEW t, NEW k, t = pc[q], k = job[q], LoginOK(t, k)
        PROVE  LoginOK(t, k)'
    <3>1. t = "active" => k.id \in UserIds
      BY <1>0, <2>1 DEF RequestsOK, RequestOK
    <3> QED
      BY <1>1, <1>9, <1>10, <2>1, <3>1 DEF LoginOK, Admitted
  <2>2. ss # "active" /\ LoginOK(ss, jj)'
    BY <1>11 DEF LoginOK
  <2>3. jj.op # "activate"
    BY <1>3, <1>11, <1>b
  <2>4. \A i \in UserIds : users[i].deleted => users'[i].deleted
    BY <1>9
  <2> QED
    BY <1>c, <2>1, <2>2, <2>3, <2>4, LoginsMove
<1>22. AccountsWholeUnlessTorn'
  <2>1. ASSUME NEW k \in UserIds, Whole(k) PROVE Whole(k)'
    BY <1>1, <1>9, <1>10, <2>1 DEF Whole, Memberships
  <2>2. row.role # "ADMIN" => s \in Making /\ j.id = n
    BY <1>3, <1>8, <1>a, <1>11 DEF Making
  <2>3. ASSUME NEW i \in UserIds', ~users'[i].deleted, users'[i].role # "ADMIN"
        PROVE  \/ /\ i \in UserIds /\ ~users[i].deleted /\ users[i].role # "ADMIN"
                  /\ Whole(i) => Whole(i)'
                  /\ pc[p] \in Making => job[p].id # i
               \/ ss \in Making /\ jj.id = i
    <3>1. CASE i = n
      BY <1>9, <2>2, <2>3, <3>1
    <3>2. CASE i # n
      BY <1>3, <1>9, <2>1, <2>3, <3>2
    <3> QED
      BY <3>1, <3>2
  <2>4. torn' = torn
    BY <1>1
  <2> QED
    BY <1>c, <2>3, <2>4, WholeMove
<1> QED
  BY <1>12, <1>13, <1>14, <1>15, <1>16, <1>19, <1>20, <1>21, <1>22 DEF IInv
-----------------------------------------------------------------------------
LEMMA InitIInv == Init => IInv
<1> SUFFICES ASSUME Init PROVE IInv
  OBVIOUS
<1>1. PICK e \in Emails : \E f \in Emails \ {e} :
         /\ Lower[f] = f
         /\ users = << [email |-> e, role |-> "ADMIN", deleted |-> FALSE,
                        since |-> 1, checkedAt |-> 0],
                       [email |-> f, role |-> "OWNER", deleted |-> FALSE,
                        since |-> 2, checkedAt |-> 1] >>
  BY DEF Init
<1>2. PICK f \in Emails \ {e} :
         users = << [email |-> e, role |-> "ADMIN", deleted |-> FALSE,
                     since |-> 1, checkedAt |-> 0],
                    [email |-> f, role |-> "OWNER", deleted |-> FALSE,
                     since |-> 2, checkedAt |-> 1] >>
  BY <1>1
<1>3. /\ users \in Seq(User) /\ UserIds = {1, 2}
      /\ users[1].email = e /\ users[1].role = "ADMIN" /\ users[1].deleted = FALSE
      /\ users[1].since = 1 /\ users[1].checkedAt = 0
      /\ users[2].email = f /\ users[2].role = "OWNER" /\ users[2].deleted = FALSE
      /\ users[2].since = 2 /\ users[2].checkedAt = 1
  BY <1>2 DEF User, Roles, UserIds
<1>4. /\ groups = {2}
      /\ members = << [user |-> 2, group |-> 2, live |-> TRUE, active |-> TRUE] >>
      /\ pc = [p \in Handlers |-> "idle"] /\ job = [p \in Handlers |-> NoJob]
      /\ intruders = {} /\ writes = 2 /\ torn = {} /\ out = {}
  BY DEF Init
<1>5. /\ members \in Seq([user : UserIds, group : groups, live : BOOLEAN, active : BOOLEAN])
      /\ MemberIds = {1} /\ members[1].user = 2 /\ members[1].group = 2
      /\ members[1].live = TRUE /\ members[1].active = TRUE
  BY <1>3, <1>4 DEF MemberIds
<1>6. TypeOK
  <2>1. job \in [Handlers -> Jobs] /\ pc \in [Handlers -> Steps]
    BY <1>4, Idle, IdleType
  <2> QED
    BY <1>3, <1>4, <1>5, <2>1 DEF TypeOK
<1>7. RowsOK
  BY <1>3, <1>4, <1>5 DEF RowsOK
<1>8. OutOK /\ JoinersDiffer /\ LoginsOK /\ NobodyBarredLogsIn
  BY <1>4, Idle DEF OutOK, JoinersDiffer, LoginsOK, NobodyBarredLogsIn
<1>9. RequestsOK
  BY <1>4, <1>6, <1>7, IdleKnows DEF RequestsOK, Knows
<1>10. SameAddressOnlyFromRaces
  BY <1>2, <1>3 DEF SameAddressOnlyFromRaces
<1>11. AccountsWholeUnlessTorn
  <2>1. 1 \in Memberships(2, 2)
    BY <1>5 DEF Memberships
  <2> QED
    BY <1>3, <1>4, <2>1 DEF AccountsWholeUnlessTorn
<1>12. OwnersStay
  BY <1>3, <1>5 DEF OwnersStay
<1> QED
  BY <1>6, <1>7, <1>8, <1>9, <1>10, <1>11, <1>12 DEF IInv

LEMMA StutterStep == IInv /\ UNCHANGED vars => IInv'
<1> SUFFICES ASSUME IInv, UNCHANGED vars PROVE IInv'
  OBVIOUS
<1> USE DEF vars, rows, history
<1>1. TypeOK'
  BY DEF IInv, TypeOK, Jobs, UserIds, MemberIds
<1>2. RowsOK' /\ OutOK'
  BY DEF IInv, RowsOK, OutOK, RowsOf, UserIds, MemberIds
<1>3. RequestsOK'
  BY DEF IInv, RequestsOK, RequestOK, CheckOK, JoinOK, MemberOK, RowsOf, UserIds, MemberIds
<1>4. JoinersDiffer' /\ LoginsOK'
  BY DEF IInv, JoinersDiffer, LoginsOK, Admitted, MemberIds
<1>5. SameAddressOnlyFromRaces' /\ OwnersStay' /\ NobodyBarredLogsIn'
  BY DEF IInv, SameAddressOnlyFromRaces, OwnersStay, NobodyBarredLogsIn, UserIds, MemberIds
<1>6. AccountsWholeUnlessTorn'
  BY DEF IInv, AccountsWholeUnlessTorn, UnderWay, Memberships, UserIds, MemberIds
<1> QED
  BY <1>1, <1>2, <1>3, <1>4, <1>5, <1>6 DEF IInv

LEMMA NextIInv == IInv /\ [Next]_vars => IInv'
<1> SUFFICES ASSUME IInv, [Next]_vars PROVE IInv'
  OBVIOUS
<1>1. CASE UNCHANGED vars
  BY <1>1, StutterStep
<1>2. ASSUME NEW p \in Handlers, Start(p) PROVE IInv'
  BY <1>2, StartStep, ActivateAccountStep
<1>3. ASSUME NEW p \in Handlers, Step(p) PROVE IInv'
  BY <1>3, GetUserByEmailStep, GetSocialGroupByManagerIdStep, NextRowStep, RowFailsStep,
     GetUserWithGroupStep, FindMembershipStep, InsertUserStep, SendVerificationLinkStep,
     CreateSocialGroupStep, AddUserToGroupStep, UpdateUserStep, RemoveUserFromGroupStep, RemoveAccountStep,
     ToggleActiveStep, FindAddresseeStep, CheckActivateStep DEF Step
<1> QED
  BY <1>1, <1>2, <1>3, FailStep DEF Next

(* The inductive invariant holds in every reachable state.                 *)
THEOREM Invariance == Spec => []IInv
BY InitIInv, NextIInv, PTL DEF Spec

(* Two living users share an address only if the later one was checked     *)
(* before the earlier one had it (GetUserByEmail and the insert or update  *)
(* are two queries), or if nothing was checked (updateAccount, the rows of *)
(* an import, an edit answered with the user's own row).                   *)
THEOREM AddressesAreShared == Spec => []SameAddressOnlyFromRaces
<1>1. IInv => SameAddressOnlyFromRaces
  BY DEF IInv
<1> QED
  BY <1>1, Invariance, PTL

(* Every account is whole unless the request that makes or removes it is   *)
(* under way or died between its writes, and no owner loses his.           *)
THEOREM AccountsAreKept == Spec => []AccountsKept
<1>1. IInv => AccountsKept
  BY DEF IInv, AccountsKept
<1> QED
  BY <1>1, Invariance, PTL

(* Nobody gets in with a login that began after his removal or             *)
(* deactivation was answered, unless somebody has asked to activate him.   *)
THEOREM BarredStayOut == Spec => []NobodyBarredLogsIn
<1>1. IInv => NobodyBarredLogsIn
  BY DEF IInv
<1> QED
  BY <1>1, Invariance, PTL
-----------------------------------------------------------------------------
(* The links.                                                              *)
LEMMA LinkLives == Hour \in Nat /\ SignatureLife \in Nat
BY LinkAssumption DEF Links!LifeAssumption

(* What the steps of a request leave to the others: tokens keep what they  *)
(* say, time goes on, and an address changes only with a mark in moved.    *)
LinkGrows ==
    /\ \A t \in Links!TokenIds :
          /\ t \in 1..Len(tokens') /\ tokens'[t].kind = tokens[t].kind
          /\ tokens'[t].born = tokens[t].born /\ tokens'[t].subject = tokens[t].subject
    /\ clock' \in Nat /\ clock <= clock'
    /\ moved \subseteq moved'
    /\ \A u \in Users : email'[u] = email[u] \/ u \in moved'

LEMMA LinkRequestKept ==
    ASSUME LinkGrows, NEW s, NEW j, Links!RequestOK(s, j)
    PROVE  Links!RequestOK(s, j)'
<1>1. /\ s = "account" => j.kind = "confirm" /\ j.user \in Users
      /\ s = "address" => j.kind = "recover" /\ j.mail \in Emails
      /\ s = "token" => \/ j.kind = "confirm" /\ j.mail \in Emails
                        \/ j.kind = "recover" /\ j.user \in Users
      /\ s \in {"activate", "reset"} => j.user \in Users
  BY DEF Links!RequestOK
<1>2. /\ s \in {"queue"} \union Links!Followed => j.link \in Links!TokenIds'
      /\ s \in Links!Followed \ {"validate"} => j.started <= tokens'[j.link].born + Hour
      /\ s \in {"lookup", "activate", "reset"}
            => j.started < tokens'[j.link].born + SignatureLife
      /\ s \in {"lookup", "activate"}
            => tokens'[j.link].kind = "confirm" /\ j.mail = tokens'[j.link].subject
  BY DEF LinkGrows, Links!RequestOK, Links!Followed, Links!TokenIds
<1>3. s = "activate" => j.user \in moved' \/ email'[j.user] = j.mail
  BY DEF LinkGrows, Links!RequestOK
<1> QED
  BY <1>1, <1>2, <1>3 DEF Links!RequestOK

LEMMA LinkJobKept ==
    ASSUME Links!TypeOK, LinkGrows
    PROVE  Links!JobRow \subseteq Links!JobRow'
<1>1. Links!TokenIds \subseteq Links!TokenIds' /\ 0..clock \subseteq 0..clock'
  BY DEF LinkGrows, Links!TokenIds, Links!TypeOK
<1> QED
  BY <1>1 DEF Links!JobRow

LinkTableTypes ==
    /\ email \in [Users -> Emails]
    /\ active \in [Users -> BOOLEAN] /\ deleted \in [Users -> BOOLEAN]
    /\ tokens \in Seq(Links!Token) /\ clock \in Nat
    /\ moved \subseteq Users /\ changes \in Nat

LinkTablesOK ==
    /\ LinkTableTypes /\ Links!TokensOK /\ Links!UsedOK
    /\ Links!ExpiredLinksAreDead /\ Links!ActiveMeansConfirmed

LEMMA LinkParts ==
    /\ Links!IInv => Links!TypeOK /\ LinkTablesOK /\ Links!RequestsOK
    /\ LinkTablesOK /\ Links!RequestsOK
       /\ linkPc \in [Handlers -> Links!Steps] /\ linkJob \in [Handlers -> Links!JobRow]
       => Links!IInv
BY DEF Links!IInv, Links!TypeOK, LinkTablesOK, LinkTableTypes

LEMMA LinkNextParts ==
    ASSUME LinkTablesOK', Links!RequestsOK', linkPc' \in [Handlers -> Links!Steps],
           linkJob' \in [Handlers -> Links!JobRow']
    PROVE  Links!IInv'
BY DEF Links!IInv, Links!TypeOK, LinkTablesOK, LinkTableTypes

(* One request moves to step s with the local variables j.                 *)
LEMMA LinkRequestMoves ==
    ASSUME Links!IInv, LinkGrows, LinkTablesOK', NEW p \in Handlers, NEW s \in Links!Steps,
           NEW j \in Links!JobRow',
           linkPc' = [linkPc EXCEPT ![p] = s], linkJob' = [linkJob EXCEPT ![p] = j],
              Links!RequestOK(s, j)'
    PROVE  Links!IInv'
<1>1. Links!TypeOK /\ Links!RequestsOK
  BY LinkParts
<1>2. linkPc' \in [Handlers -> Links!Steps] /\ linkJob' \in [Handlers -> Links!JobRow']
  BY <1>1, LinkJobKept DEF Links!TypeOK
<1>3. ASSUME NEW q \in Handlers PROVE Links!RequestOK(linkPc[q], linkJob[q])'
  <2> PICK t, k : t = linkPc'[q] /\ k = linkJob'[q]
    OBVIOUS
  <2>1. CASE q = p
    BY <1>1, <2>1 DEF Links!TypeOK
  <2>2. CASE q # p
    <3>1. t = linkPc[q] /\ k = linkJob[q]
      BY <1>1, <2>2 DEF Links!TypeOK
    <3>2. Links!RequestOK(t, k)
      BY <1>1, <3>1 DEF Links!RequestsOK
    <3>3. Links!RequestOK(t, k)'
      BY <3>2, LinkRequestKept
    <3> QED
      BY <3>3
  <2> QED
    BY <2>1, <2>2
<1> QED
  BY <1>2, <1>3, LinkNextParts DEF Links!RequestsOK

LinkTables == <<Links!account, tokens, clock, Links!history>>

LEMMA LinkTablesStay ==
    ASSUME Links!IInv, UNCHANGED LinkTables
    PROVE  LinkTablesOK' /\ LinkGrows
<1>1. LinkTablesOK /\ Links!TypeOK
  BY LinkParts
<1>2. LinkTablesOK'
  BY <1>1 DEF LinkTablesOK, LinkTableTypes, Links!TokensOK, Links!UsedOK,
              Links!ExpiredLinksAreDead,
             Links!ActiveMeansConfirmed, LinkTables, Links!account, Links!history,
             Links!TokenIds, Links!Token
<1>3. LinkGrows
  BY <1>1 DEF LinkGrows, Links!TypeOK, LinkTables, Links!account, Links!history,
              Links!TokenIds
<1> QED
  BY <1>2, <1>3

(* ... and nothing else happens.                                           *)
LEMMA LinkRequestAlone ==
    ASSUME Links!IInv, UNCHANGED LinkTables, NEW p \in Handlers, NEW s \in Links!Steps,
           NEW j \in Links!JobRow,
           linkPc' = [linkPc EXCEPT ![p] = s], linkJob' = [linkJob EXCEPT ![p] = j],
              Links!RequestOK(s, j)
    PROVE  Links!IInv'
<1>1. Links!TypeOK
  BY LinkParts
<1>2. LinkTablesOK' /\ LinkGrows
  BY LinkTablesStay
<1>3. j \in Links!JobRow' /\ Links!RequestOK(s, j)'
  BY <1>1, <1>2, LinkJobKept, LinkRequestKept
<1> QED
  BY <1>2, <1>3, LinkRequestMoves

LEMMA LinkNoJobType ==
    ASSUME Links!TypeOK PROVE Links!NoJob \in Links!JobRow /\ Links!RequestOK("idle",
           Links!NoJob)
BY DEF Links!NoJob, Links!JobRow, Links!TypeOK, Links!RequestOK, Links!Followed

LEMMA LinkLocalsType ==
    ASSUME Links!TypeOK, NEW k \in {"confirm", "recover"}, NEW u \in Users \union {None},
           NEW m \in Emails \union {None}, NEW t \in {0} \union Links!TokenIds
    PROVE  /\ Links!Locals(k, u, m, t) \in Links!JobRow
           /\ Links!Locals(k, u, m, t).kind = k /\ Links!Locals(k, u, m, t).user = u
           /\ Links!Locals(k, u, m, t).mail = m /\ Links!Locals(k, u, m, t).link = t
           /\ Links!Locals(k, u, m, t).started = IF t = 0 THEN 0 ELSE clock
<1>1. (IF t = 0 THEN 0 ELSE clock) \in 0..clock
  BY DEF Links!TypeOK
<1> QED
  BY <1>1 DEF Links!Locals, Links!JobRow

-----------------------------------------------------------------------------
(* The steps of a request that only read.                                  *)

LEMMA LinkBeginStep ==
    ASSUME Links!IInv, NEW p \in Handlers, NEW s \in Links!Steps, NEW j \in Links!JobRow,
           Links!Begin(p, s, j),
           Links!RequestOK(s, j)
    PROVE  Links!IInv'
BY LinkRequestAlone DEF Links!Begin, LinkTables

LEMMA LinkStartStep ==
    ASSUME Links!IInv, NEW p \in Handlers,
           \/ Links!ResendConfirmationLink(p) \/ Links!ForgotPassword(p)
           \/ Links!ConfirmEmail(p) \/ Links!ResetPassword(p)
    PROVE  Links!IInv'
<1>0. Links!TypeOK
  BY LinkParts
<1>1. ASSUME NEW u \in Users, Links!Begin(p, "account", Links!Locals("confirm", u, None,
             0)) PROVE Links!IInv'
  <2> DEFINE j == Links!Locals("confirm", u, None, 0)
  <2>1. j \in Links!JobRow /\ j.kind = "confirm" /\ j.user = u
    BY <1>0, LinkLocalsType
  <2> HIDE DEF j
  <2>2. Links!RequestOK("account", j)
    BY <2>1 DEF Links!RequestOK, Links!Followed
  <2> QED
    BY <1>1, <2>1, <2>2, LinkBeginStep DEF Links!Steps, j
<1>2. ASSUME NEW e \in Emails, Links!Begin(p, "address", Links!Locals("recover", None, e,
             0)) PROVE Links!IInv'
  <2> DEFINE j == Links!Locals("recover", None, e, 0)
  <2>1. j \in Links!JobRow /\ j.kind = "recover" /\ j.mail = e
    BY <1>0, LinkLocalsType
  <2> HIDE DEF j
  <2>2. Links!RequestOK("address", j)
    BY <2>1 DEF Links!RequestOK, Links!Followed
  <2> QED
    BY <1>2, <2>1, <2>2, LinkBeginStep DEF Links!Steps, j
<1>3. ASSUME NEW t \in Links!Known, NEW k \in {"confirm", "recover"},
             Links!Begin(p, "validate", Links!Locals(k, None, None, t))
      PROVE  Links!IInv'
  <2> DEFINE j == Links!Locals(k, None, None, t)
  <2>0. t \in Links!TokenIds
    BY DEF Links!Known
  <2>1. j \in Links!JobRow /\ j.link = t
    BY <1>0, <2>0 DEF Links!Locals, Links!JobRow, Links!TypeOK
  <2> HIDE DEF j
  <2>2. Links!RequestOK("validate", j)
    BY <2>0, <2>1 DEF Links!RequestOK, Links!Followed
  <2> QED
    BY <1>3, <2>1, <2>2, LinkBeginStep DEF Links!Steps, j
<1> QED
  BY <1>1, <1>2, <1>3 DEF Links!ResendConfirmationLink, Links!ForgotPassword,
                          Links!ConfirmEmail, Links!ResetPassword

LEMMA LinkReadingStep ==
    ASSUME Links!IInv, NEW p \in Handlers,
           \/ Links!GetUserById(p) \/ Links!FindAddressee(p) \/ Links!ValidateToken(p)
           \/ Links!DecodeToken(p) \/ Links!DecodeResetToken(p)
           \/ Links!FindConfirmed(p) \/ Links!Fail(p)
    PROVE  Links!IInv'
<1> DEFINE o == linkJob[p]
<1>0. Links!TypeOK /\ Links!RequestOK(linkPc[p], o) /\ Links!TokensOK /\ o \in Links!JobRow
  BY LinkParts DEF Links!RequestsOK, Links!TypeOK, LinkTablesOK
<1>1. CASE Links!GetUserById(p)
  <2> DEFINE m == email[o.user]
             j == [o EXCEPT !.mail = m]
  <2>1. linkPc[p] = "account" /\ UNCHANGED LinkTables
        /\ linkPc' = [linkPc EXCEPT ![p] = "token"]
        /\ linkJob' = [linkJob EXCEPT ![p] = j]
    BY <1>1 DEF Links!GetUserById, Links!Goto, LinkTables
  <2>2. o.kind = "confirm" /\ m \in Emails
    BY <1>0, <2>1 DEF Links!RequestOK, Links!TypeOK
  <2> HIDE DEF m
  <2>3. j \in Links!JobRow /\ j.kind = "confirm" /\ j.mail \in Emails
    BY <1>0, <2>2 DEF Links!JobRow
  <2> HIDE DEF j
  <2>4. Links!RequestOK("token", j)
    BY <2>3 DEF Links!RequestOK, Links!Followed
  <2> QED
    BY <2>1, <2>3, <2>4, LinkRequestAlone DEF Links!Steps
<1>2. CASE Links!FindAddressee(p)
  <2>1. PICK u \in Users : linkJob' = [linkJob EXCEPT ![p].user = u]
    BY <1>2 DEF Links!FindAddressee, Links!Addressees
  <2> DEFINE j == [o EXCEPT !.user = u]
  <2>2. linkPc[p] = "address" /\ UNCHANGED LinkTables
        /\ linkPc' = [linkPc EXCEPT ![p] = "token"]
        /\ linkJob' = [linkJob EXCEPT ![p] = j]
    BY <1>2, <2>1 DEF Links!FindAddressee, Links!Goto, LinkTables
  <2>3. o.kind = "recover"
    BY <1>0, <2>2 DEF Links!RequestOK
  <2>4. j \in Links!JobRow /\ j.kind = "recover" /\ j.user \in Users
    BY <1>0, <2>3 DEF Links!JobRow
  <2> HIDE DEF j
  <2>5. Links!RequestOK("token", j)
    BY <2>4 DEF Links!RequestOK, Links!Followed
  <2> QED
    BY <2>2, <2>4, <2>5, LinkRequestAlone DEF Links!Steps
<1>3. CASE Links!ValidateToken(p)
  <2>1. linkPc[p] = "validate" /\ UNCHANGED LinkTables
        /\ linkPc' = [linkPc EXCEPT ![p] = "decode"]
        /\ linkJob' = [linkJob EXCEPT ![p] = o] /\ tokens[o.link].born + Hour >= clock
    BY <1>0, <1>3 DEF Links!ValidateToken, Links!Goto, LinkTables, Links!TypeOK
  <2>2. o.link \in Links!TokenIds /\ o.started \in Nat /\ o.started <= clock
    BY <1>0, <2>1 DEF Links!RequestOK, Links!Followed, Links!JobRow, Links!TypeOK
  <2>3. tokens[o.link].born \in Nat
    <3>1. tokens[o.link] \in Links!Token
      BY <1>0, <2>2 DEF Links!TypeOK, Links!TokenIds
    <3> QED
      BY <1>0, <3>1 DEF Links!Token, Links!TypeOK
  <2>4. o.started <= tokens[o.link].born + Hour
    BY <1>0, <2>1, <2>2, <2>3, LinkLives DEF Links!TypeOK
  <2>5. Links!RequestOK("decode", o)
    BY <2>2, <2>4 DEF Links!RequestOK, Links!Followed
  <2> QED
    BY <1>0, <2>1, <2>5, LinkRequestAlone DEF Links!Steps
<1>4. ASSUME linkPc[p] = "decode", Links!Signed(o.link, o.kind)
      PROVE  /\ o.link \in Links!TokenIds /\ tokens[o.link].kind = o.kind
             /\ o.started <= tokens[o.link].born + Hour
             /\ o.started < tokens[o.link].born + SignatureLife
  <2>1. o.link \in Links!TokenIds /\ o.started <= tokens[o.link].born + Hour
        /\ o.started \in Nat /\ o.started <= clock
    BY <1>0, <1>4 DEF Links!RequestOK, Links!Followed, Links!JobRow, Links!TypeOK
  <2>2. tokens[o.link].born \in Nat
    <3>1. tokens[o.link] \in Links!Token
      BY <1>0, <2>1 DEF Links!TypeOK, Links!TokenIds
    <3> QED
      BY <1>0, <3>1 DEF Links!Token, Links!TypeOK
  <2> QED
    BY <1>0, <1>4, <2>1, <2>2, LinkLives DEF Links!Signed, Links!TypeOK
<1>5. CASE Links!DecodeToken(p)
  <2> DEFINE m == tokens[o.link].subject
             j == [o EXCEPT !.mail = m]
  <2>1. linkPc[p] = "decode" /\ o.kind = "confirm" /\ Links!Signed(o.link, o.kind)
        /\ UNCHANGED LinkTables /\ linkPc' = [linkPc EXCEPT ![p] = "lookup"]
        /\ linkJob' = [linkJob EXCEPT ![p] = j]
    BY <1>5 DEF Links!DecodeToken, Links!Goto, LinkTables
  <2>2. m \in Emails
    BY <1>0, <1>4, <2>1 DEF Links!TokensOK
  <2>3. j \in Links!JobRow /\ j.link = o.link /\ j.started = o.started /\ j.mail = m
    BY <1>0, <2>2 DEF Links!JobRow
  <2>4. m = tokens[j.link].subject
    BY <2>3
  <2> HIDE DEF j, m
  <2>5. Links!RequestOK("lookup", j)
    BY <1>4, <2>1, <2>3, <2>4 DEF Links!RequestOK, Links!Followed
  <2> QED
    BY <2>1, <2>3, <2>5, LinkRequestAlone DEF Links!Steps
<1>6. CASE Links!DecodeResetToken(p)
  <2> DEFINE u == tokens[o.link].subject
             j == [o EXCEPT !.user = u]
  <2>1. linkPc[p] = "decode" /\ o.kind = "recover" /\ Links!Signed(o.link, o.kind)
        /\ UNCHANGED LinkTables /\ linkPc' = [linkPc EXCEPT ![p] = "reset"]
        /\ linkJob' = [linkJob EXCEPT ![p] = j]
    BY <1>6 DEF Links!DecodeResetToken, Links!Goto, LinkTables
  <2>2. u \in Users
    BY <1>0, <1>4, <2>1 DEF Links!TokensOK
  <2> HIDE DEF u
  <2>3. j \in Links!JobRow /\ j.link = o.link /\ j.started = o.started /\ j.user \in Users
    BY <1>0, <2>2 DEF Links!JobRow
  <2> HIDE DEF j
  <2>5. Links!RequestOK("reset", j)
    BY <1>4, <2>1, <2>3 DEF Links!RequestOK, Links!Followed
  <2> QED
    BY <2>1, <2>3, <2>5, LinkRequestAlone DEF Links!Steps
<1>7. CASE Links!FindConfirmed(p)
  <2>1. PICK u \in Links!Addressees(o.mail) : linkJob' = [linkJob EXCEPT ![p].user = u]
    BY <1>7 DEF Links!FindConfirmed
  <2> DEFINE j == [o EXCEPT !.user = u]
  <2>2. linkPc[p] = "lookup" /\ UNCHANGED LinkTables
        /\ linkPc' = [linkPc EXCEPT ![p] = "activate"]
        /\ linkJob' = [linkJob EXCEPT ![p] = j] /\ u \in Users /\ email[u] = o.mail
    BY <1>7, <2>1 DEF Links!FindConfirmed, Links!Goto, LinkTables, Links!Addressees
  <2>3. j \in Links!JobRow /\ j.link = o.link /\ j.started = o.started /\ j.mail = o.mail
        /\ j.user = u
    BY <1>0, <2>2 DEF Links!JobRow
  <2> HIDE DEF j
  <2>5. Links!RequestOK("activate", j)
    BY <1>0, <2>2, <2>3 DEF Links!RequestOK, Links!Followed
  <2> QED
    BY <2>2, <2>3, <2>5, LinkRequestAlone DEF Links!Steps
<1>8. CASE Links!Fail(p)
  BY <1>0, <1>8, LinkNoJobType, LinkRequestAlone DEF Links!Fail, Links!Leave, LinkTables,
        Links!Steps
<1> QED
  BY <1>1, <1>2, <1>3, <1>5, <1>6, <1>7, <1>8

-----------------------------------------------------------------------------
(* The steps that write a table.                                           *)

(* What the links took effect on stays explained when tokens only grow and *)
(* no account becomes active.                                              *)
LEMMA LinkExplainedStays ==
    ASSUME Links!IInv, LinkGrows, used' = used, UNCHANGED active
    PROVE  Links!UsedOK' /\ Links!ExpiredLinksAreDead' /\ Links!ActiveMeansConfirmed'
<1>1. Links!TypeOK /\ Links!UsedOK /\ Links!ExpiredLinksAreDead /\ Links!ActiveMeansConfirmed
  BY DEF Links!IInv
<1>2. Links!UsedOK' /\ Links!ExpiredLinksAreDead'
  BY <1>1 DEF Links!UsedOK, Links!ExpiredLinksAreDead, LinkGrows, Links!TokenIds
<1>3. Links!ActiveMeansConfirmed'
  <2>1. SUFFICES ASSUME NEW u \in Users, active[u], u \notin moved'
                 PROVE  \E r \in used : r.user = u /\ tokens'[r.link].subject = email'[u]
    BY DEF Links!ActiveMeansConfirmed
  <2>2. email'[u] = email[u] /\ u \notin moved
    BY <2>1 DEF LinkGrows
  <2>3. PICK r \in used : r.user = u /\ tokens[r.link].subject = email[u]
    BY <1>1, <2>1, <2>2 DEF Links!ActiveMeansConfirmed
  <2>4. tokens'[r.link].subject = tokens[r.link].subject
    BY <1>1 DEF Links!UsedOK, LinkGrows
  <2> QED
    BY <2>2, <2>3, <2>4
<1> QED
  BY <1>2, <1>3

LEMMA LinkCreateTokenStep ==
    ASSUME Links!IInv, NEW p \in Handlers, Links!CreateToken(p)
    PROVE  Links!IInv'
<1> DEFINE o == linkJob[p]
           n == Len(tokens) + 1
           x == IF o.kind = "confirm" THEN o.mail ELSE o.user
           t == [kind |-> o.kind, mailed |-> FALSE, born |-> clock, subject |-> x]
           j == [o EXCEPT !.link = n]
<1>0. Links!TypeOK /\ Links!RequestOK(linkPc[p], o) /\ Links!TokensOK /\ o \in Links!JobRow
  BY LinkParts DEF Links!RequestsOK, Links!TypeOK, LinkTablesOK
<1>1. /\ linkPc[p] = "token" /\ tokens' = Append(tokens, t)
      /\ linkJob' = [linkJob EXCEPT ![p] = j] /\ linkPc' = [linkPc EXCEPT ![p] = "queue"]
      /\ UNCHANGED <<Links!account, clock, Links!history>>
  BY DEF Links!CreateToken, Links!Goto
<1>2. /\ o.kind \in {"confirm", "recover"} /\ (o.kind = "confirm" => x \in Emails)
      /\ (o.kind = "recover" => x \in Users)
  BY <1>0, <1>1 DEF Links!RequestOK
<1> HIDE DEF x
<1>3. t \in Links!Token /\ t.kind = o.kind /\ t.subject = x
  BY <1>0, <1>2 DEF Links!Token, Links!TypeOK
<1> HIDE DEF t
<1>4. /\ tokens' \in Seq(Links!Token) /\ n \in Nat
      /\ 1..Len(tokens') = Links!TokenIds \union {n}
      /\ \A i \in Links!TokenIds : tokens'[i] = tokens[i]
      /\ tokens'[n] = t
  BY <1>0, <1>1, <1>3 DEF Links!TypeOK, Links!TokenIds
<1>5. LinkGrows
  BY <1>0, <1>1, <1>4 DEF LinkGrows, Links!account, Links!history, Links!TypeOK
<1>6. LinkTablesOK'
  <2>1. LinkTableTypes'
    BY <1>0, <1>1, <1>4 DEF LinkTableTypes, Links!TypeOK, Links!account, Links!history,
                            Links!Token
  <2>2. Links!TokensOK'
    BY <1>0, <1>2, <1>3, <1>4 DEF Links!TokensOK, Links!TokenIds
  <2> QED
    BY <1>1, <1>5, <2>1, <2>2, LinkExplainedStays DEF LinkTablesOK, Links!account,
          Links!history
<1>7. n \in Links!TokenIds'
  BY <1>4 DEF Links!TokenIds
<1> HIDE DEF n
<1>8. o \in Links!JobRow'
  BY <1>0, <1>5, LinkJobKept
<1>9. j \in Links!JobRow' /\ j.link = n
  BY <1>7, <1>8 DEF Links!JobRow
<1>10. PICK k : k = j
  OBVIOUS
<1>11. linkJob' = [linkJob EXCEPT ![p] = k] /\ k \in Links!JobRow' /\ k.link = n
  BY <1>1, <1>9, <1>10
<1> HIDE DEF j
<1>12. Links!RequestOK("queue", k)'
  BY <1>7, <1>11 DEF Links!RequestOK, Links!Followed
<1> QED
  BY <1>1, <1>5, <1>6, <1>11, <1>12, LinkRequestMoves DEF Links!Steps

LEMMA LinkAddEmailToQueueStep ==
    ASSUME Links!IInv, NEW p \in Handlers, Links!AddEmailToQueue(p)
    PROVE  Links!IInv'
<1> DEFINE i == linkJob[p].link
           t == [tokens[i] EXCEPT !.mailed = TRUE]
<1>0. Links!TypeOK /\ Links!RequestOK(linkPc[p], linkJob[p]) /\ Links!TokensOK
  BY LinkParts DEF Links!RequestsOK, LinkTablesOK
<1>1. /\ linkPc[p] = "queue" /\ tokens' = [tokens EXCEPT ![i] = t]
      /\ linkJob' = [linkJob EXCEPT ![p] = Links!NoJob]
      /\ linkPc' = [linkPc EXCEPT ![p] = "idle"]
      /\ UNCHANGED <<Links!account, clock, Links!history>>
  BY DEF Links!AddEmailToQueue, Links!Leave
<1>2. i \in Links!TokenIds
  BY <1>0, <1>1 DEF Links!RequestOK
<1>3. tokens[i] \in Links!Token
  BY <1>0, <1>2 DEF Links!TypeOK, Links!TokenIds
<1>4. t \in Links!Token /\ t.kind = tokens[i].kind /\ t.born = tokens[i].born
      /\ t.subject = tokens[i].subject
  BY <1>3 DEF Links!Token
<1> HIDE DEF t
<1>5. /\ tokens' \in Seq(Links!Token) /\ 1..Len(tokens') = Links!TokenIds /\ tokens'[i] = t
      /\ \A k \in Links!TokenIds \ {i} : tokens'[k] = tokens[k]
  BY <1>0, <1>1, <1>2, <1>4 DEF Links!TypeOK, Links!TokenIds
<1>6. \A k \in Links!TokenIds : /\ tokens'[k].kind = tokens[k].kind
                          /\ tokens'[k].born = tokens[k].born
                          /\ tokens'[k].subject = tokens[k].subject
  BY <1>4, <1>5
<1>7. LinkGrows
  BY <1>0, <1>1, <1>5, <1>6 DEF LinkGrows, Links!account, Links!history, Links!TypeOK
<1>8. LinkTablesOK'
  <2>1. LinkTableTypes'
    BY <1>0, <1>1, <1>5 DEF LinkTableTypes, Links!TypeOK, Links!account, Links!history,
                            Links!Token
  <2>2. Links!TokensOK'
    BY <1>0, <1>5, <1>6 DEF Links!TokensOK, Links!TokenIds
  <2> QED
    BY <1>1, <1>7, <2>1, <2>2, LinkExplainedStays DEF LinkTablesOK, Links!account,
          Links!history
<1>9. Links!NoJob \in Links!JobRow' /\ Links!RequestOK("idle", Links!NoJob)'
  BY <1>0, <1>7, LinkNoJobType, LinkJobKept, LinkRequestKept
<1> QED
  BY <1>1, <1>7, <1>8, <1>9, LinkRequestMoves DEF Links!Steps

(* A request that came in time did so for the link it follows.             *)
LEMMA LinkTookInTime ==
    ASSUME Links!IInv, NEW p \in Handlers, linkPc[p] \in {"activate",
           "reset"}
    PROVE  /\ Links!Took(p).link \in Links!TokenIds /\ Links!Took(p).user \in Users
           /\ ~Links!Took(p).late
           /\ Links!Took(p).link = linkJob[p].link /\ Links!Took(p).user = linkJob[p].user
<1> DEFINE o == linkJob[p]
           d == Links!Dead(o.link, o.started)
<1>0. Links!TypeOK /\ Links!RequestOK(linkPc[p], o) /\ o \in Links!JobRow
  BY LinkParts DEF Links!RequestsOK, Links!TypeOK
<1>1. /\ o.link \in Links!TokenIds /\ o.user \in Users /\ o.started \in Nat
      /\ o.started <= tokens[o.link].born + Hour
      /\ o.started < tokens[o.link].born + SignatureLife
  BY <1>0 DEF Links!RequestOK, Links!Followed, Links!JobRow, Links!TypeOK
<1>2. tokens[o.link] \in Links!Token
  BY <1>0, <1>1 DEF Links!TypeOK, Links!TokenIds
<1>3. tokens[o.link].born \in Nat
  BY <1>0, <1>2 DEF Links!Token, Links!TypeOK
<1>4. d = FALSE
  BY <1>1, <1>3, LinkLives DEF Links!Dead
<1>5. Links!Took(p) = [link |-> o.link, user |-> o.user, late |-> d]
  BY DEF Links!Took
<1> HIDE DEF d, o
<1> QED
  BY <1>1, <1>4, <1>5 DEF o

(* A link takes effect.                                                    *)
LEMMA LinkEffectStep ==
    ASSUME Links!IInv, NEW p \in Handlers,
           Links!ActiveAccount(p) \/ Links!WriteReset(p)
    PROVE  Links!IInv'
<1>0. Links!TypeOK /\ Links!RequestOK(linkPc[p], linkJob[p]) /\ LinkTablesOK
  BY LinkParts DEF Links!RequestsOK
<1> DEFINE r == Links!Took(p)
           u == linkJob[p].user
<1>1. /\ linkPc[p] \in {"activate", "reset"} /\ used' = used \union {r}
      /\ linkJob' = [linkJob EXCEPT ![p] = Links!NoJob]
      /\ linkPc' = [linkPc EXCEPT ![p] = "idle"]
      /\ UNCHANGED <<email, deleted, tokens, clock, moved, changes>>
  BY DEF Links!ActiveAccount, Links!WriteReset, Links!Leave, Links!account
<1>2. r.link \in Links!TokenIds /\ r.user \in Users /\ ~r.late
      /\ r.link = linkJob[p].link /\ r.user = u
  BY <1>1, LinkTookInTime
<1> HIDE DEF r
<1>3. LinkGrows
  BY <1>0, <1>1 DEF LinkGrows, Links!TypeOK, Links!TokenIds
<1>4. Links!UsedOK' /\ Links!ExpiredLinksAreDead' /\ Links!TokensOK'
  BY <1>0, <1>1, <1>2 DEF Links!UsedOK, Links!ExpiredLinksAreDead, LinkTablesOK,
                          Links!TokensOK, Links!TokenIds
<1>5. active' \in [Users -> BOOLEAN]
      /\ \A v \in Users : active'[v] => active[v] \/ (v = u /\ linkPc[p] = "activate")
  BY <1>0, <1>2 DEF Links!ActiveAccount, Links!WriteReset, Links!account, Links!TypeOK
<1>6. LinkTableTypes'
  BY <1>0, <1>1, <1>5 DEF LinkTableTypes, Links!TypeOK, Links!Token
<1>7. Links!ActiveMeansConfirmed'
  <2>1. SUFFICES ASSUME NEW v \in Users, active'[v], v \notin moved
                 PROVE  \E q \in used' : q.user = v /\ tokens[q.link].subject = email[v]
    BY <1>1 DEF Links!ActiveMeansConfirmed
  <2>2. CASE active[v]
    BY <1>0, <1>1, <2>1, <2>2 DEF LinkTablesOK, Links!ActiveMeansConfirmed
  <2>3. CASE v = u /\ linkPc[p] = "activate"
    <3>1. tokens[r.link].subject = email[v]
      BY <1>0, <1>2, <2>1, <2>3 DEF Links!RequestOK
    <3> QED
      BY <1>1, <1>2, <2>3, <3>1
  <2> QED
    BY <1>5, <2>1, <2>2, <2>3
<1>8. Links!NoJob \in Links!JobRow' /\ Links!RequestOK("idle", Links!NoJob)'
  BY <1>0, <1>3, LinkNoJobType, LinkJobKept, LinkRequestKept
<1> QED
  BY <1>1, <1>3, <1>4, <1>6, <1>7, <1>8, LinkRequestMoves DEF Links!Steps, LinkTablesOK

(* What is not a request's step.                                           *)
LinkElsewhere ==
    /\ UNCHANGED <<active, tokens, linkPc, linkJob, used>>
    /\ clock' \in Nat /\ clock <= clock' /\ changes' \in Nat
    /\ deleted' \in [Users -> BOOLEAN] /\ email' \in [Users -> Emails]
    /\ moved \subseteq moved' /\ moved' \subseteq Users
    /\ \A u \in Users : email'[u] = email[u] \/ u \in moved'

LEMMA LinkElsewhereStep ==
    ASSUME Links!IInv,
           \/ Links!Tick
           \/ \E u \in Users :
                 Links!RemoveAccount(u) \/ \E e \in Emails : Links!UpdateAccount(u, e)
           \/ UNCHANGED Links!vars
    PROVE  Links!IInv'
<1>0. Links!TypeOK /\ Links!RequestsOK /\ LinkTablesOK
  BY LinkParts
<1>1. LinkElsewhere
  <2>1. CASE Links!Tick
    BY <1>0, <2>1 DEF Links!Tick, Links!account, Links!history, Links!TypeOK, LinkElsewhere
  <2>2. ASSUME NEW u \in Users, Links!RemoveAccount(u) PROVE LinkElsewhere
    BY <1>0, <2>2 DEF Links!RemoveAccount, Links!history, Links!TypeOK, LinkElsewhere
  <2>3. ASSUME NEW u \in Users, NEW e \in Emails, Links!UpdateAccount(u,
               e) PROVE LinkElsewhere
    BY <1>0, <2>3 DEF Links!UpdateAccount, Links!TypeOK, LinkElsewhere
  <2>4. CASE UNCHANGED Links!vars
    BY <1>0, <2>4 DEF Links!vars, Links!account, Links!history, Links!TypeOK, LinkElsewhere
  <2> QED
    BY <2>1, <2>2, <2>3, <2>4
<1> USE DEF LinkElsewhere
<1>2. LinkGrows
  BY <1>0, <1>1 DEF LinkGrows, Links!TypeOK, Links!TokenIds
<1>3. tokens' \in Seq(Links!Token')
  <2>1. Links!Token \subseteq Links!Token'
    BY <1>0, <1>1 DEF Links!Token, Links!TypeOK
  <2> QED
    BY <1>0, <1>1, <2>1 DEF Links!TypeOK
<1>4. LinkTablesOK'
  <2>1. LinkTableTypes'
    BY <1>0, <1>1, <1>3 DEF LinkTableTypes, Links!TypeOK
  <2>2. Links!TokensOK'
    BY <1>0, <1>1 DEF LinkTablesOK, Links!TokensOK, Links!TokenIds
  <2> QED
    BY <1>1, <1>2, <2>1, <2>2, LinkExplainedStays DEF LinkTablesOK
<1>5. linkPc' \in [Handlers -> Links!Steps] /\ linkJob' \in [Handlers -> Links!JobRow']
  BY <1>0, <1>1, <1>2, LinkJobKept DEF Links!TypeOK
<1>6. ASSUME NEW p \in Handlers PROVE Links!RequestOK(linkPc[p], linkJob[p])'
  <2> PICK s, j : s = linkPc[p] /\ j = linkJob[p]
    OBVIOUS
  <2>1. Links!RequestOK(s, j)
    BY <1>0 DEF Links!RequestsOK
  <2>2. Links!RequestOK(s, j)'
    BY <1>2, <2>1, LinkRequestKept
  <2> QED
    BY <1>1, <2>2
<1> QED
  BY <1>4, <1>5, <1>6, LinkNextParts DEF Links!RequestsOK

-----------------------------------------------------------------------------
LEMMA LinkInitIInv == Links!Init => Links!IInv
<1> SUFFICES ASSUME Links!Init PROVE Links!IInv
  OBVIOUS
<1>1. Links!NoJob \in Links!JobRow
  BY DEF Links!Init, Links!NoJob, Links!JobRow
<1>2. Links!TypeOK
  BY <1>1 DEF Links!Init, Links!TypeOK, Links!Steps
<1>3. Links!TokensOK /\ Links!UsedOK /\ Links!ExpiredLinksAreDead /\ Links!ActiveMeansConfirmed
  BY DEF Links!Init, Links!TokensOK, Links!UsedOK, Links!ExpiredLinksAreDead,
         Links!ActiveMeansConfirmed, Links!TokenIds
<1>4. Links!RequestsOK
  BY DEF Links!Init, Links!RequestsOK, Links!RequestOK, Links!Followed
<1> QED
  BY <1>2, <1>3, <1>4 DEF Links!IInv

LEMMA LinkNextIInv == Links!IInv /\ [Links!Next]_(Links!vars) => Links!IInv'
BY LinkStartStep, LinkReadingStep, LinkCreateTokenStep, LinkAddEmailToQueueStep,
   LinkEffectStep, LinkElsewhereStep
   DEF Links!Next

(* IInv is inductive (TLC checks it on a small instance).                  *)
LEMMA LinkInvariance == Links!Spec => []Links!IInv
BY LinkInitIInv, LinkNextIInv, PTL DEF Links!Spec

(* However many requests follow a link, however slow they are and whatever *)
(* happens to the accounts, a link has no effect through a request that    *)
(* came more than an hour after it was made or after its signature's end   *)
(* (validateToken, decodeToken).                                           *)
THEOREM LinksAreMortal == Links!Spec => []LinksDie
<1>1. Links!IInv => LinksDie
  BY DEF Links!IInv, LinksDie, Links!LinksDie
<1> QED
  BY <1>1, LinkInvariance, PTL

(* An account that its owner registered and that kept its address is       *)
(* active only after a link that names the address (confirmEmail).         *)
THEOREM ActiveIsConfirmed == Links!Spec => []ActiveMeansConfirmed
<1>1. Links!IInv => ActiveMeansConfirmed
  BY DEF Links!IInv, ActiveMeansConfirmed
<1> QED
  BY <1>1, LinkInvariance, PTL
=============================================================================
