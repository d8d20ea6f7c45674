----------------------------- MODULE InboxProofs -----------------------------
(***************************************************************************)
(* What reaches the browser: the socket registry, the deliveries that read *)
(* it and the conversations of a tab, for any users, sockets,              *)
(* notifications, attempts and crashes, and for any people, rows of the    *)
(* page, times, page sizes and messages.                                   *)
(*                                                                         *)
(* First the registry alone.  A handler's step moves one socket s; a       *)
(* delete also takes a row, of s or of another socket.  Each lemma shows   *)
(* that one kind of step preserves the registry's IInv.                    *)
(*                                                                         *)
(* Then the deliveries.  The budget is counted in attempts: every copy of  *)
(* a job, on its way or queued, holds the attempts it has left, and so     *)
(* does the worker's job.  A step moves attempts from one holder to the    *)
(* next or spends one on a push; a crash may give one job's worth back.    *)
(* The lemmas on bags and on Attempts carry that count, and one lemma per  *)
(* action shows that IInv is preserved.                                    *)
(*                                                                         *)
(* Then the conversations.  A row's place in a newest-first order is one   *)
(* more than the number of rows that are newer, so an order is what those  *)
(* numbers say it is.  The next page shifts by the messages the reader     *)
(* heard of: when those are the ones that arrived, its slice begins where  *)
(* the last page ended in the rows the first page was taken from.  TabIInv *)
(* ties the reader's offset to the arrivals, those still unsent and its    *)
(* own among them, and what is shown to those rows.                        *)
(***************************************************************************)
EXTENDS Inbox, FiniteSetTheorems, SequenceTheorems, WellFoundedInduction, TLAPS
-----------------------------------------------------------------------------
(* The inductive invariant behind PushesBounded and ChainUnbroken.         *)

CopiesOf(j, bag) == IF j \in BagToSet(bag) THEN bag[j] ELSE 0
Copies == [j \in Jobs |-> CopiesOf(j, adding) + CopiesOf(j, queue)]

(* The attempts that c, the copies of each job, still hold for n: one for  *)
(* each copy of a job of n and each attempt the job has left.              *)
Attempts(c, n) ==
    UNION {{j} \X (1..c[j]) \X (1..j.left) : j \in {i \in Jobs : i.id = n}}

(* And those of n that a worker w, the queue's handler, still has.         *)
AtWork(w, n) == w # Idle /\ w.job.id = n
AttemptsAtWork(w, n) ==
    CASE AtWork(w, n) /\ w.pc \in {"lookup", "check", "push"} -> w.job.left
      [] AtWork(w, n) /\ w.pc = "requeue" -> w.job.left - 1
      [] OTHER -> 0

(* What was pushed and what may still be is within the budget.             *)
BudgetOK ==
    \A n \in Created :
        /\ IsFiniteSet(Attempts(Copies, n))
        /\ pushes[n] + Cardinality(Attempts(Copies, n)) + AttemptsAtWork(worker, n)
              <= MaxAttempt * (1 + crashes)

(* A job is of a row that exists, and has the attempts left that were not  *)
(* made.                                                                   *)
JobOK(j) == j.id \in Created /\ MaxAttempt <= tries[j.id] + j.left
JobsOK == \A j \in BagToSet(adding) \union BagToSet(queue) : JobOK(j)
WorkerOK ==
    worker # Idle =>
        /\ JobOK(worker.job)
        /\ worker.pc = "requeue" => MaxAttempt < tries[worker.job.id] + worker.job.left
        /\ worker.pc \in {"push", "requeue"} /\ ~worker.sent =>
              notification[worker.job.id].status = "Received"

(* After the late push no attempt that read the status before is under way. *)
LateOK ==
    \A n \in Created :
        late[n] = 1 => /\ notification[n].status = "Received"
                       /\ AtWork(worker, n) /\ worker.pc = "push" => ~worker.sent

FreshOK == \A n \in Ids \ Created : tries[n] = 0 /\ pushes[n] = 0 /\ late[n] = 0

IInv ==
    /\ TypeOK
    /\ JobsOK /\ WorkerOK
    /\ BudgetOK
    /\ OneLatePush /\ LateOK /\ FreshOK
    /\ ChainUnbroken
-----------------------------------------------------------------------------
(* Sockets have an owner, and no socket stands for the lack of one.        *)
LEMMA SocketFacts == Owner \in [Sockets -> Users] /\ NoSocket \notin Sockets
BY SocketAssumption DEF Registry!OwnerAssumption, Registry!NoSocketAssumption

LEMMA SocketInitIInv == Registry!Init => Registry!IInv
BY SocketFacts DEF Registry!Init, Registry!IInv, Registry!TypeOK, Registry!RowsNamed,
       Registry!SessionOK, Registry!RowOK, Registry!Leaving, Registry!Evicted,
       Registry!DeadRegistrationExplained, Registry!EvictionExplained, Registry!Links,
       Registry!Joins, Registry!Leaves, Registry!Endings

LEMMA SocketOpenIInv ==
    ASSUME Registry!IInv, NEW s \in Sockets, Registry!Open(s)
    PROVE  Registry!IInv'
<1> USE SocketFacts
<1>1. Registry!TypeOK'
  BY DEF Registry!Open, Registry!IInv, Registry!TypeOK, Registry!Links, Registry!Joins,
         Registry!Leaves, Registry!Endings
<1>2. Registry!RowsNamed'
  BY DEF Registry!Open, Registry!IInv, Registry!TypeOK, Registry!RowsNamed
<1>3. ASSUME NEW t \in Sockets PROVE Registry!SessionOK(t)'
  BY DEF Registry!Open, Registry!IInv, Registry!TypeOK, Registry!SessionOK,
         Registry!Leaving
<1>4. ASSUME NEW t \in Sockets PROVE Registry!RowOK(t)'
  BY DEF Registry!Open, Registry!IInv, Registry!TypeOK, Registry!RowsNamed,
         Registry!RowOK, Registry!SessionOK, Registry!Leaving
<1>5. Registry!DeadRegistrationExplained'
  BY DEF Registry!Open, Registry!IInv, Registry!TypeOK, Registry!RowsNamed,
         Registry!SessionOK, Registry!RowOK, Registry!DeadRegistrationExplained,
         Registry!Leaving, Registry!Endings
<1>6. Registry!EvictionExplained'
  BY DEF Registry!Open, Registry!IInv, Registry!TypeOK, Registry!RowsNamed,
         Registry!RowOK, Registry!SessionOK, Registry!EvictionExplained,
         Registry!Evicted, Registry!Leaving
<1> QED
  BY <1>1, <1>2, <1>3, <1>4, <1>5, <1>6 DEF Registry!IInv

LEMMA SocketRejectIInv ==
    ASSUME Registry!IInv, NEW s \in Sockets, Registry!Reject(s)
    PROVE  Registry!IInv'
<1> USE SocketFacts
<1>1. Registry!TypeOK'
  BY DEF Registry!Reject, Registry!IInv, Registry!TypeOK, Registry!Links, Registry!Joins,
         Registry!Leaves, Registry!Endings
<1>2. Registry!RowsNamed'
  BY DEF Registry!Reject, Registry!IInv, Registry!TypeOK, Registry!RowsNamed
<1>3. ASSUME NEW t \in Sockets PROVE Registry!SessionOK(t)'
  BY DEF Registry!Reject, Registry!IInv, Registry!TypeOK, Registry!SessionOK,
         Registry!Leaving
<1>4. ASSUME NEW t \in Sockets PROVE Registry!RowOK(t)'
  BY DEF Registry!Reject, Registry!IInv, Registry!TypeOK, Registry!RowsNamed,
         Registry!RowOK, Registry!SessionOK, Registry!Leaving
<1>5. Registry!DeadRegistrationExplained'
  BY DEF Registry!Reject, Registry!IInv, Registry!TypeOK, Registry!RowsNamed,
         Registry!SessionOK, Registry!RowOK, Registry!DeadRegistrationExplained,
         Registry!Leaving, Registry!Endings
<1>6. Registry!EvictionExplained'
  BY DEF Registry!Reject, Registry!IInv, Registry!TypeOK, Registry!RowsNamed,
         Registry!RowOK, Registry!SessionOK, Registry!EvictionExplained,
         Registry!Evicted, Registry!Leaving
<1> QED
  BY <1>1, <1>2, <1>3, <1>4, <1>5, <1>6 DEF Registry!IInv

LEMMA SocketRegisterIInv ==
    ASSUME Registry!IInv, NEW s \in Sockets, Registry!Register(s)
    PROVE  Registry!IInv'
<1> USE SocketFacts
<1>1. Registry!TypeOK'
  BY DEF Registry!Register, Registry!IInv, Registry!TypeOK, Registry!Links,
         Registry!Joins, Registry!Leaves, Registry!Endings
<1>2. Registry!RowsNamed'
  BY DEF Registry!Register, Registry!IInv, Registry!TypeOK, Registry!RowsNamed
<1>3. ASSUME NEW t \in Sockets PROVE Registry!SessionOK(t)'
  BY DEF Registry!Register, Registry!IInv, Registry!TypeOK, Registry!SessionOK,
         Registry!Leaving
<1>4. ASSUME NEW t \in Sockets PROVE Registry!RowOK(t)'
  BY DEF Registry!Register, Registry!IInv, Registry!TypeOK, Registry!RowsNamed,
         Registry!RowOK, Registry!SessionOK, Registry!Leaving
<1>5. Registry!DeadRegistrationExplained'
  BY DEF Registry!Register, Registry!IInv, Registry!TypeOK, Registry!RowsNamed,
         Registry!SessionOK, Registry!RowOK, Registry!DeadRegistrationExplained,
         Registry!Leaving, Registry!Endings
<1>6. Registry!EvictionExplained'
  BY DEF Registry!Register, Registry!IInv, Registry!TypeOK, Registry!RowsNamed,
         Registry!RowOK, Registry!SessionOK, Registry!EvictionExplained,
         Registry!Evicted, Registry!Leaving
<1> QED
  BY <1>1, <1>2, <1>3, <1>4, <1>5, <1>6 DEF Registry!IInv

LEMMA SocketRefuseIInv ==
    ASSUME Registry!IInv, NEW s \in Sockets, Registry!Refuse(s)
    PROVE  Registry!IInv'
<1> USE SocketFacts
<1>1. Registry!TypeOK'
  BY DEF Registry!Refuse, Registry!IInv, Registry!TypeOK, Registry!Links, Registry!Joins,
         Registry!Leaves, Registry!Endings
<1>2. Registry!RowsNamed'
  BY DEF Registry!Refuse, Registry!IInv, Registry!TypeOK, Registry!RowsNamed
<1>3. ASSUME NEW t \in Sockets PROVE Registry!SessionOK(t)'
  BY DEF Registry!Refuse, Registry!IInv, Registry!TypeOK, Registry!SessionOK,
         Registry!Leaving
<1>4. ASSUME NEW t \in Sockets PROVE Registry!RowOK(t)'
  BY DEF Registry!Refuse, Registry!IInv, Registry!TypeOK, Registry!RowsNamed,
         Registry!RowOK, Registry!SessionOK, Registry!Leaving
<1>5. Registry!DeadRegistrationExplained'
  BY DEF Registry!Refuse, Registry!IInv, Registry!TypeOK, Registry!RowsNamed,
         Registry!SessionOK, Registry!RowOK, Registry!DeadRegistrationExplained,
         Registry!Leaving, Registry!Endings
<1>6. Registry!EvictionExplained'
  BY DEF Registry!Refuse, Registry!IInv, Registry!TypeOK, Registry!RowsNamed,
         Registry!RowOK, Registry!SessionOK, Registry!EvictionExplained,
         Registry!Evicted, Registry!Leaving
<1> QED
  BY <1>1, <1>2, <1>3, <1>4, <1>5, <1>6 DEF Registry!IInv

LEMMA SocketCloseIInv ==
    ASSUME Registry!IInv, NEW s \in Sockets, Registry!Close(s)
    PROVE  Registry!IInv'
<1> USE SocketFacts
<1>1. Registry!TypeOK'
  BY DEF Registry!Close, Registry!IInv, Registry!TypeOK, Registry!Links, Registry!Joins,
         Registry!Leaves, Registry!Endings
<1>2. Registry!RowsNamed'
  BY DEF Registry!Close, Registry!IInv, Registry!TypeOK, Registry!RowsNamed
<1>3. ASSUME NEW t \in Sockets PROVE Registry!SessionOK(t)'
  BY DEF Registry!Close, Registry!IInv, Registry!TypeOK, Registry!SessionOK,
         Registry!Leaving
<1>4. ASSUME NEW t \in Sockets PROVE Registry!RowOK(t)'
  BY DEF Registry!Close, Registry!IInv, Registry!TypeOK, Registry!RowsNamed,
         Registry!RowOK, Registry!SessionOK, Registry!Leaving
<1>5. Registry!DeadRegistrationExplained'
  BY DEF Registry!Close, Registry!IInv, Registry!TypeOK, Registry!RowsNamed,
         Registry!SessionOK, Registry!RowOK, Registry!DeadRegistrationExplained,
         Registry!Leaving, Registry!Endings
<1>6. Registry!EvictionExplained'
  BY DEF Registry!Close, Registry!IInv, Registry!TypeOK, Registry!RowsNamed,
         Registry!RowOK, Registry!SessionOK, Registry!EvictionExplained,
         Registry!Evicted, Registry!Leaving
<1> QED
  BY <1>1, <1>2, <1>3, <1>4, <1>5, <1>6 DEF Registry!IInv

LEMMA SocketFindConnectionIInv ==
    ASSUME Registry!IInv, NEW s \in Sockets, Registry!FindConnection(s)
    PROVE  Registry!IInv'
<1> USE SocketFacts
<1>1. Registry!TypeOK'
  BY DEF Registry!FindConnection, Registry!IInv, Registry!TypeOK, Registry!Links,
         Registry!Joins, Registry!Leaves, Registry!Endings
<1>2. Registry!RowsNamed'
  BY DEF Registry!FindConnection, Registry!IInv, Registry!TypeOK, Registry!RowsNamed
<1>3. ASSUME NEW t \in Sockets PROVE Registry!SessionOK(t)'
  BY DEF Registry!FindConnection, Registry!IInv, Registry!TypeOK, Registry!SessionOK,
         Registry!Leaving
<1>4. ASSUME NEW t \in Sockets PROVE Registry!RowOK(t)'
  BY DEF Registry!FindConnection, Registry!IInv, Registry!TypeOK, Registry!RowsNamed,
         Registry!RowOK, Registry!SessionOK, Registry!Leaving
<1>5. Registry!DeadRegistrationExplained'
  BY DEF Registry!FindConnection, Registry!IInv, Registry!TypeOK, Registry!RowsNamed,
         Registry!SessionOK, Registry!RowOK, Registry!DeadRegistrationExplained,
         Registry!Leaving, Registry!Endings
<1>6. Registry!EvictionExplained'
  BY DEF Registry!FindConnection, Registry!IInv, Registry!TypeOK, Registry!RowsNamed,
         Registry!RowOK, Registry!SessionOK, Registry!EvictionExplained,
         Registry!Evicted, Registry!Leaving
<1> QED
  BY <1>1, <1>2, <1>3, <1>4, <1>5, <1>6 DEF Registry!IInv

(* The one step that takes a row; <1>2 and <1>3 say whose.                 *)
LEMMA SocketDeleteConnectionIInv ==
    ASSUME Registry!IInv, NEW s \in Sockets, Registry!DeleteConnection(s)
    PROVE  Registry!IInv'
<1> USE SocketFacts
<1>1. Registry!TypeOK'
  BY DEF Registry!DeleteConnection, Registry!IInv, Registry!TypeOK, Registry!Leaves
<1>2. ASSUME NEW t \in Sockets, connection[Owner[s]] = t
      PROVE  /\ Owner[t] = Owner[s]
             /\ connection'[Owner[t]] = NoSocket
             /\ evictor'[t] = s
             /\ joining[t] = "accepted"
  <2>1. Owner[s] \in Users /\ t # NoSocket
    OBVIOUS
  <2>2. Owner[t] = Owner[s]
    BY <1>2, <2>1 DEF Registry!IInv, Registry!RowsNamed
  <2>3. joining[t] = "accepted"
    BY <1>2, <2>2 DEF Registry!IInv, Registry!RowOK
  <2>4. connection'[Owner[s]] = NoSocket /\ evictor'[t] = s
    BY <1>2, <2>1 DEF Registry!DeleteConnection, Registry!IInv, Registry!TypeOK
  <2> QED
    BY <2>2, <2>3, <2>4
<1>3. ASSUME NEW t \in Sockets, connection[Owner[s]] # t
      PROVE  /\ connection'[Owner[t]] = t <=> connection[Owner[t]] = t
             /\ evictor'[t] = evictor[t]
  BY <1>3 DEF Registry!DeleteConnection, Registry!IInv, Registry!TypeOK
<1>4. /\ leaving[s] = "delete" /\ leaving'[s] = "done"
      /\ \A t \in Sockets : t # s => leaving'[t] = leaving[t]
      /\ link' = link /\ joining' = joining /\ ending' = ending
  BY DEF Registry!DeleteConnection, Registry!IInv, Registry!TypeOK
<1>5. link[s] = "closed" /\ joining[s] # "none" /\ ending[s] # "none"
  BY <1>4 DEF Registry!IInv, Registry!SessionOK, Registry!Leaving
<1>6. Registry!RowsNamed'
  BY DEF Registry!DeleteConnection, Registry!IInv, Registry!TypeOK, Registry!RowsNamed
<1>7. ASSUME NEW t \in Sockets PROVE Registry!SessionOK(t)'
  BY <1>4, <1>5 DEF Registry!IInv, Registry!SessionOK, Registry!Leaving
<1>8. ASSUME NEW t \in Sockets PROVE Registry!RowOK(t)'
  <2>1. CASE connection[Owner[s]] = t
    BY <1>2, <1>4, <2>1 DEF Registry!RowOK
  <2>2. CASE connection[Owner[s]] # t
    <3>1. evictor[t] \in Sockets \union {NoSocket}
      BY DEF Registry!IInv, Registry!TypeOK
    <3>2. Registry!RowOK(t)
      BY DEF Registry!IInv
    <3> QED
      BY <1>3, <1>4, <2>2, <3>1, <3>2 DEF Registry!RowOK
  <2> QED
    BY <2>1, <2>2
<1>9. Registry!DeadRegistrationExplained'
  <2>1. ASSUME NEW t \in Sockets, connection'[Owner[t]] = t
        PROVE  connection[Owner[t]] = t /\ t # s
    <3>1. connection[Owner[s]] # t
      BY <1>2, <2>1
    <3>2. connection[Owner[t]] = t
      BY <1>3, <2>1, <3>1
    <3> QED
      BY <3>1, <3>2
  <2> QED
    BY <1>4, <2>1 DEF Registry!IInv, Registry!DeadRegistrationExplained, Registry!Leaving
<1>10. ASSUME NEW t \in Sockets, NEW e \in Sockets, evictor'[t] = e, e # t
       PROVE  joining[e] = "refused" \/ ending[e] = "early" \/ Registry!Evicted(e)'
  <2>1. CASE connection[Owner[s]] = t
    <3>1. e = s /\ s # t
      BY <1>2, <1>10, <2>1
    <3>2. CASE joining[s] = "accepted"
      <4>1. connection[Owner[s]] # s
        BY <2>1, <3>1
      <4>2. evictor[s] # NoSocket
        BY <3>2, <4>1 DEF Registry!IInv, Registry!RowOK
      <4>3. evictor[s] # s
        BY <1>4, <4>2 DEF Registry!IInv, Registry!RowOK
      <4>4. evictor'[s] = evictor[s]
        BY <1>3, <4>1
      <4> QED
        BY <3>1, <4>2, <4>3, <4>4 DEF Registry!Evicted
    <3>3. CASE joining[s] = "create"
      BY <1>4, <3>1, <3>3 DEF Registry!IInv, Registry!SessionOK, Registry!Leaving
    <3> QED
      BY <1>5, <3>1, <3>2, <3>3 DEF Registry!IInv, Registry!TypeOK, Registry!Joins
  <2>2. CASE connection[Owner[s]] # t
    <3>1. evictor[t] = e
      BY <1>3, <1>10, <2>2
    <3>2. joining[e] = "refused" \/ ending[e] = "early" \/ Registry!Evicted(e)
      BY <1>10, <3>1 DEF Registry!IInv, Registry!EvictionExplained
    <3>3. ASSUME Registry!Evicted(e) PROVE Registry!Evicted(e)'
      <4>1. connection[Owner[e]] # e
        BY <3>3 DEF Registry!IInv, Registry!RowOK, Registry!Evicted
      <4>2. connection[Owner[s]] # e
        BY <1>2, <4>1
      <4> QED
        BY <1>3, <3>3, <4>2 DEF Registry!Evicted
    <3> QED
      BY <3>2, <3>3
  <2> QED
    BY <2>1, <2>2
<1>11. Registry!EvictionExplained'
  BY <1>4, <1>10 DEF Registry!EvictionExplained
<1> QED
  BY <1>1, <1>6, <1>7, <1>8, <1>9, <1>11 DEF Registry!IInv

LEMMA SocketLeaveFailsIInv ==
    ASSUME Registry!IInv, NEW s \in Sockets, Registry!LeaveFails(s)
    PROVE  Registry!IInv'
<1> USE SocketFacts
<1>1. Registry!TypeOK'
  BY DEF Registry!LeaveFails, Registry!IInv, Registry!TypeOK, Registry!Links,
         Registry!Joins, Registry!Leaves, Registry!Endings
<1>2. Registry!RowsNamed'
  BY DEF Registry!LeaveFails, Registry!IInv, Registry!TypeOK, Registry!RowsNamed
<1>3. ASSUME NEW t \in Sockets PROVE Registry!SessionOK(t)'
  BY DEF Registry!LeaveFails, Registry!IInv, Registry!TypeOK, Registry!SessionOK,
         Registry!Leaving
<1>4. ASSUME NEW t \in Sockets PROVE Registry!RowOK(t)'
  BY DEF Registry!LeaveFails, Registry!IInv, Registry!TypeOK, Registry!RowsNamed,
         Registry!RowOK, Registry!SessionOK, Registry!Leaving
<1>5. Registry!DeadRegistrationExplained'
  BY DEF Registry!LeaveFails, Registry!IInv, Registry!TypeOK, Registry!RowsNamed,
         Registry!SessionOK, Registry!RowOK, Registry!DeadRegistrationExplained,
         Registry!Leaving, Registry!Endings
<1>6. Registry!EvictionExplained'
  BY DEF Registry!LeaveFails, Registry!IInv, Registry!TypeOK, Registry!RowsNamed,
         Registry!RowOK, Registry!SessionOK, Registry!EvictionExplained,
         Registry!Evicted, Registry!Leaving
<1> QED
  BY <1>1, <1>2, <1>3, <1>4, <1>5, <1>6 DEF Registry!IInv

LEMMA SocketCrashIInv ==
    ASSUME Registry!IInv, Registry!Crash
    PROVE  Registry!IInv'
<1> USE SocketFacts
<1>1. Registry!TypeOK'
  BY DEF Registry!Crash, Registry!IInv, Registry!TypeOK, Registry!Links, Registry!Joins,
         Registry!Leaves, Registry!Endings
<1>2. Registry!RowsNamed'
  BY DEF Registry!Crash, Registry!IInv, Registry!TypeOK, Registry!RowsNamed
<1>3. ASSUME NEW t \in Sockets PROVE Registry!SessionOK(t)'
  BY DEF Registry!Crash, Registry!IInv, Registry!TypeOK, Registry!SessionOK,
         Registry!Leaving
<1>4. ASSUME NEW t \in Sockets PROVE Registry!RowOK(t)'
  BY DEF Registry!Crash, Registry!IInv, Registry!TypeOK, Registry!RowsNamed,
         Registry!RowOK, Registry!SessionOK, Registry!Leaving
<1>5. Registry!DeadRegistrationExplained'
  BY DEF Registry!Crash, Registry!IInv, Registry!TypeOK, Registry!RowsNamed,
         Registry!SessionOK, Registry!RowOK, Registry!DeadRegistrationExplained,
         Registry!Leaving, Registry!Endings
<1>6. Registry!EvictionExplained'
  BY DEF Registry!Crash, Registry!IInv, Registry!TypeOK, Registry!RowsNamed,
         Registry!RowOK, Registry!SessionOK, Registry!EvictionExplained,
         Registry!Evicted, Registry!Leaving
<1> QED
  BY <1>1, <1>2, <1>3, <1>4, <1>5, <1>6 DEF Registry!IInv

LEMMA SocketNextIInv == Registry!IInv /\ [Registry!Next]_(Registry!vars) => Registry!IInv'
<1> SUFFICES ASSUME Registry!IInv, [Registry!Next]_(Registry!vars) PROVE Registry!IInv'
  OBVIOUS
<1>1. ASSUME NEW s \in Sockets,
       Registry!Open(s) \/ Registry!Reject(s) \/ Registry!Close(s) \/ Registry!Handle(s)
      PROVE  Registry!IInv'
  BY <1>1, SocketOpenIInv, SocketRejectIInv, SocketCloseIInv, SocketRegisterIInv,
     SocketRefuseIInv, SocketFindConnectionIInv, SocketDeleteConnectionIInv,
     SocketLeaveFailsIInv DEF Registry!Handle
<1>2. CASE Registry!Crash
  BY <1>2, SocketCrashIInv
<1>3. CASE UNCHANGED Registry!vars
  BY <1>3 DEF Registry!vars, Registry!IInv, Registry!TypeOK, Registry!RowsNamed,
         Registry!SessionOK, Registry!RowOK, Registry!Leaving, Registry!Evicted,
         Registry!DeadRegistrationExplained, Registry!EvictionExplained
<1> QED
  BY <1>1, <1>2, <1>3 DEF Registry!Next, Registry!Serve

LEMMA SocketInductiveInvariant == Registry!Spec => []Registry!IInv
<1>1. Registry!Init => Registry!IInv
  BY SocketInitIInv
<1>2. Registry!IInv /\ [Registry!Next]_(Registry!vars) => Registry!IInv'
  BY SocketNextIInv
<1> QED
  BY <1>1, <1>2, PTL DEF Registry!Spec
-----------------------------------------------------------------------------
(* The rows and the progress of every handler keep their types.            *)
THEOREM SocketTypeCorrect == Registry!Spec => []Registry!TypeOK
<1>1. Registry!IInv => Registry!TypeOK
  BY DEF Registry!IInv
<1> QED
  BY <1>1, SocketInductiveInvariant, PTL

(* A row that names a session which is over comes from an early close, an  *)
(* expired token, a rejected query or a crash.                             *)
THEOREM DeadRegistrationsHaveACause == Registry!Spec => []DeadRegistrationExplained
<1>1. Registry!IInv => DeadRegistrationExplained
  BY DEF Registry!IInv, DeadRegistrationExplained
<1> QED
  BY <1>1, SocketInductiveInvariant, PTL

(* Who is registered stays registered until a sibling's disconnect takes   *)
(* the row, and only one that went wrong itself does.                      *)
THEOREM RegistrationsAreKept == Registry!Spec => []RegistrationsKept
<1>1. Registry!IInv => RegistrationsKept
  BY DEF Registry!IInv, RegistrationsKept, Registry!RegistrationsKept,
         Registry!ReachableUnlessEvicted, Registry!SessionOK, Registry!RowOK,
         Registry!Evicted
<1> QED
  BY <1>1, SocketInductiveInvariant, PTL
-----------------------------------------------------------------------------
(* Bags, by how many copies of a job they hold.                            *)
LEMMA EmptyBagIs ==
    IsABag(EmptyBag) /\ BagToSet(EmptyBag) = {} /\ \A j : CopiesOf(j, EmptyBag) = 0
BY DEF IsABag, BagToSet, EmptyBag, SetToBag, CopiesOf, BagIn

LEMMA CopiesAre ==
    ASSUME NEW b, IsABag(b), NEW j
    PROVE  CopiesOf(j, b) \in Nat /\ (j \in BagToSet(b) <=> CopiesOf(j, b) > 0)
BY DEF IsABag, BagToSet, CopiesOf, BagIn

LEMMA OneMore ==
    ASSUME NEW b, IsABag(b), NEW j
    PROVE  /\ IsABag(b (+) SetToBag({j}))
           /\ BagToSet(b (+) SetToBag({j})) = BagToSet(b) \union {j}
           /\ CopiesOf(j, b (+) SetToBag({j})) = CopiesOf(j, b) + 1
           /\ \A i : i # j => CopiesOf(i, b (+) SetToBag({j})) = CopiesOf(i, b)
BY DEF IsABag, BagToSet, CopiesOf, BagIn, SetToBag, (+)

LEMMA OneLess ==
    ASSUME NEW b, IsABag(b), NEW j \in BagToSet(b)
    PROVE  /\ IsABag(b (-) SetToBag({j}))
           /\ BagToSet(b (-) SetToBag({j})) \subseteq BagToSet(b)
           /\ CopiesOf(j, b (-) SetToBag({j})) = CopiesOf(j, b) - 1
           /\ \A i : i # j => CopiesOf(i, b (-) SetToBag({j})) = CopiesOf(i, b)
           /\ \A i : i # j /\ i \in BagToSet(b) => i \in BagToSet(b (-) SetToBag({j}))
BY DEF IsABag, BagToSet, CopiesOf, BagIn, SetToBag, (-)
-----------------------------------------------------------------------------
(* Attempts held for n.                                                    *)
LEMMA InAttempts ==
    ASSUME NEW c, NEW n, NEW x
    PROVE  x \in Attempts(c, n) <=>
             \E j \in Jobs : \E a \in 1..c[j] : \E k \in 1..j.left :
                 j.id = n /\ x = <<j, a, k>>
BY DEF Attempts

LEMMA FewerAttempts ==
    ASSUME NEW c \in [Jobs -> Nat], NEW d \in [Jobs -> Nat], NEW n,
           \A j \in Jobs : d[j] <= c[j], IsFiniteSet(Attempts(c, n))
    PROVE  /\ IsFiniteSet(Attempts(d, n))
           /\ Cardinality(Attempts(d, n)) <= Cardinality(Attempts(c, n))
<1>1. \A j \in Jobs : 1..d[j] \subseteq 1..c[j]
  OBVIOUS
<1>2. Attempts(d, n) \subseteq Attempts(c, n)
  BY <1>1, InAttempts
<1> QED
  BY <1>2, FS_Subset

(* A copy's attempts are as many as the job has left.                      *)
AttemptsOf(j, a) == {<<j, a, k>> : k \in 1..j.left}

LEMMA OneCopy ==
    ASSUME NEW j, NEW a, j.left \in Nat
    PROVE  IsFiniteSet(AttemptsOf(j, a)) /\ Cardinality(AttemptsOf(j, a)) = j.left
<1> DEFINE l == j.left
           S == AttemptsOf(j, a)
           f == [k \in 1..l |-> <<j, a, k>>]
<1>1. f \in Bijection(1..l, S)
  <2>1. f \in [1..l -> S]
    BY DEF AttemptsOf
  <2>2. \A k, m \in 1..l : f[k] = f[m] => k = m
    OBVIOUS
  <2>3. \A s \in S : \E k \in 1..l : f[k] = s
    BY DEF AttemptsOf
  <2> HIDE DEF f, S
  <2> QED
    BY <2>1, <2>2, <2>3 DEF Bijection, Injection, IsInjective, Surjection
<1>2. ExistsBijection(1..l, S)
  BY <1>1 DEF ExistsBijection
<1>3. IsFiniteSet(1..l) /\ Cardinality(1..l) = l
  BY FS_Interval
<1> QED
  BY <1>2, <1>3, FS_Bijection

LEMMA MoreAttempts ==
    ASSUME NEW c \in [Jobs -> Nat], NEW d \in [Jobs -> Nat], NEW n, NEW j \in Jobs,
           d[j] = c[j] + 1, \A i \in Jobs : i # j => d[i] = c[i],
           IsFiniteSet(Attempts(c, n))
    PROVE  /\ IsFiniteSet(Attempts(d, n))
           /\ Cardinality(Attempts(d, n))
                = Cardinality(Attempts(c, n)) + IF j.id = n THEN j.left ELSE 0
<1> DEFINE S == AttemptsOf(j, d[j])
<1>1. j.left \in Nat
  BY AttemptAssumption DEF Jobs
<1>2. 1..d[j] = (1..c[j]) \union {d[j]} /\ d[j] \notin 1..c[j]
  OBVIOUS
<1>3. CASE j.id # n
  <2>1. \A x : x \in Attempts(d, n) <=> x \in Attempts(c, n)
    <3>1. \A i \in Jobs : i.id = n => d[i] = c[i]
      BY <1>3
    <3> QED
      BY <3>1 DEF Attempts
  <2>2. Attempts(d, n) = Attempts(c, n)
    BY <2>1
  <2> QED
    BY <1>3, <2>2, FS_CardinalityType
<1>4. CASE j.id = n
  <2>1. \A x : x \in S <=> \E k \in 1..j.left : x = <<j, d[j], k>>
    BY DEF AttemptsOf
  <2>2. Attempts(d, n) = Attempts(c, n) \union S
    <3>1. ASSUME NEW x \in Attempts(d, n) PROVE x \in Attempts(c, n) \union S
      <4> PICK i \in Jobs : \E a \in 1..d[i] : \E k \in 1..i.left : i.id = n /\ x = <<i, a, k>>
        BY <3>1, InAttempts
      <4> PICK a \in 1..d[i] : \E k \in 1..i.left : i.id = n /\ x = <<i, a, k>>
        OBVIOUS
      <4>1. CASE a \in 1..c[i]
        BY <4>1, InAttempts
      <4>2. CASE a \notin 1..c[i]
        BY <1>2, <2>1, <4>2
      <4> QED
        BY <4>1, <4>2
    <3>2. ASSUME NEW x \in Attempts(c, n) PROVE x \in Attempts(d, n)
      <4> PICK i \in Jobs : \E a \in 1..c[i] : \E k \in 1..i.left : i.id = n /\ x = <<i, a, k>>
        BY <3>2, InAttempts
      <4>1. \A a \in 1..c[i] : a \in 1..d[i]
        BY <1>2
      <4> QED
        BY <4>1, InAttempts
    <3>3. ASSUME NEW x \in S PROVE x \in Attempts(d, n)
      BY <1>2, <1>4, <2>1, <3>3, InAttempts
    <3> QED
      BY <3>1, <3>2, <3>3
  <2>3. Attempts(c, n) \intersect S = {}
    <3>1. SUFFICES ASSUME NEW x \in Attempts(c, n), x \in S PROVE FALSE
      OBVIOUS
    <3>2. PICK i \in Jobs : \E a \in 1..c[i] : x[1] = i /\ x[2] = a
      BY <3>1, InAttempts
    <3>3. x[1] = j /\ x[2] = d[j]
      BY <2>1, <3>1
    <3> QED
      BY <1>2, <3>2, <3>3
  <2>4. IsFiniteSet(S) /\ Cardinality(S) = j.left
    BY <1>1, OneCopy
  <2> HIDE DEF S
  <2>5. Cardinality(Attempts(c, n)) \in Nat /\ Cardinality({}) = 0
    BY FS_CardinalityType, FS_EmptySet
  <2>6. /\ IsFiniteSet(Attempts(c, n) \union S)
        /\ Cardinality(Attempts(c, n) \union S)
             = Cardinality(Attempts(c, n)) + Cardinality(S)
                  - Cardinality(Attempts(c, n) \intersect S)
    BY <1>1, <2>4, FS_Union
  <2>7. Cardinality(Attempts(c, n) \intersect S) = 0
    BY <2>3, <2>5
  <2>8. Cardinality(Attempts(c, n) \union S) = Cardinality(Attempts(c, n)) + j.left
    BY <1>1, <2>4, <2>5, <2>6, <2>7
  <2> QED
    BY <1>4, <2>2, <2>6, <2>8
<1> QED
  BY <1>3, <1>4
-----------------------------------------------------------------------------
(* The worker is idle or has a job.                                        *)
LEMMA WorkerIs ==
    ASSUME NEW w \in Busy \union {Idle}
    PROVE  /\ w = Idle <=> w.pc = "idle"
           /\ w # Idle => w \in Busy /\ w.job \in Jobs /\ w.pc \in Steps
BY DEF Idle, Busy, Steps

LEMMA AtWorkIs ==
    ASSUME NEW w \in Busy \union {Idle}, NEW n
    PROVE  /\ AttemptsAtWork(w, n) \in Nat
           /\ ~AtWork(w, n) => AttemptsAtWork(w, n) = 0
           /\ AtWork(w, n) =>
                 /\ w.pc \in {"lookup", "check", "push"} => AttemptsAtWork(w, n) = w.job.left
                 /\ w.pc = "requeue" => AttemptsAtWork(w, n) = w.job.left - 1
                 /\ w.pc = "complete" => AttemptsAtWork(w, n) = 0
<1>1. AtWork(w, n) => w.job.left \in Nat \ {0}
  BY WorkerIs, AttemptAssumption DEF AtWork, Jobs
<1> QED
  BY <1>1 DEF AttemptsAtWork

LEMMA Counters ==
    ASSUME TypeOK
    PROVE  /\ tries \in [Ids -> Nat] /\ pushes \in [Ids -> Nat] /\ late \in [Ids -> Nat]
           /\ Len(notification) \in Nat /\ Created \subseteq Ids /\ Created \subseteq Nat
           /\ crashes \in Nat /\ MaxAttempt \in Nat \ {0}
           /\ MaxAttempt * (1 + crashes) \in Nat
<1>1. /\ tries \in [Ids -> Nat] /\ pushes \in [Ids -> Nat] /\ late \in [Ids -> Nat]
  BY DEF TypeOK
<1>2. Len(notification) \in Nat /\ Len(notification) <= MaxNotifications
  BY DEF TypeOK
<1>3. crashes \in Nat /\ MaxAttempt \in Nat \ {0}
  BY AttemptAssumption, BoundAssumption DEF TypeOK
<1>4. Created \subseteq Ids /\ Created \subseteq Nat
  BY <1>2, BoundAssumption DEF Created, Ids
<1>5. MaxAttempt * (1 + crashes) \in Nat
  BY <1>3
<1> QED
  BY <1>1, <1>2, <1>3, <1>4, <1>5

LEMMA JobsAre ==
    ASSUME IInv, NEW j \in BagToSet(adding) \union BagToSet(queue)
    PROVE  /\ j \in Jobs /\ JobOK(j) /\ j.id \in Created /\ j.id \in Ids
           /\ j.left \in Nat \ {0} /\ j.left <= MaxAttempt
<1>1. j \in Jobs
  BY DEF IInv, TypeOK
<1>2. JobOK(j)
  BY DEF IInv, JobsOK
<1> QED
  BY <1>1, <1>2, Counters DEF JobOK, Jobs, IInv

(* The copies of a job, in a state and in the next.                        *)
LEMMA CopiesType ==
    ASSUME NEW a, NEW q, IsABag(a), IsABag(q)
    PROVE  [j \in Jobs |-> CopiesOf(j, a) + CopiesOf(j, q)] \in [Jobs -> Nat]
BY CopiesAre

(* What the steps leave alone that only move the worker.                   *)
Tables == <<notification, adding, queue, delivered, crashes, history>>

LEMMA WorkerMoves ==
    ASSUME IInv, UNCHANGED Tables, Registry!TypeOK', worker' \in Busy \union {Idle},
           WorkerOK', LateOK',
           \A n \in Created : AttemptsAtWork(worker', n) <= AttemptsAtWork(worker, n),
           \A n \in Created : AtWork(worker, n) /\ worker.pc # "complete"
               => AtWork(worker', n) /\ worker'.pc # "complete"
    PROVE  IInv'
<1>1. TypeOK'
  BY DEF IInv, TypeOK, Tables, history, Created
<1>2. JobsOK' /\ OneLatePush' /\ FreshOK'
  BY DEF IInv, Tables, history, JobsOK, JobOK, OneLatePush, FreshOK, Created
<1>3. BudgetOK'
  <2>1. Copies' = Copies /\ pushes' = pushes /\ crashes' = crashes /\ Created' = Created
    BY DEF Tables, history, Copies, Created
  <2>2. SUFFICES ASSUME NEW n \in Created
                 PROVE  /\ IsFiniteSet(Attempts(Copies, n))
                        /\ pushes[n] + Cardinality(Attempts(Copies, n))
                             + AttemptsAtWork(worker', n) <= MaxAttempt * (1 + crashes)
    BY <2>1 DEF BudgetOK
  <2>3. /\ AttemptsAtWork(worker', n) \in Nat /\ AttemptsAtWork(worker, n) \in Nat
    BY AtWorkIs DEF IInv, TypeOK
  <2>4. pushes[n] \in Nat
    BY Counters DEF IInv
  <2>5. IsFiniteSet(Attempts(Copies, n)) /\ Cardinality(Attempts(Copies, n)) \in Nat
    BY FS_CardinalityType DEF IInv, BudgetOK
  <2>6. MaxAttempt * (1 + crashes) \in Nat
    BY Counters DEF IInv
  <2> QED
    BY <2>3, <2>4, <2>5, <2>6 DEF IInv, BudgetOK
<1>4. ChainUnbroken'
  BY DEF IInv, ChainUnbroken, Outstanding, AtWork, Tables, history, Created
<1> QED
  BY <1>1, <1>2, <1>3, <1>4 DEF IInv

(* The sockets come and go.                                                *)
LEMMA ServeIInv ==
    ASSUME IInv, UNCHANGED <<Tables, worker>>, Registry!TypeOK'
    PROVE  IInv'
<1>1. worker' \in Busy \union {Idle} /\ WorkerOK' /\ LateOK'
  BY DEF IInv, TypeOK, Tables, history, WorkerOK, LateOK, JobOK, Created
<1>2. \A n \in Created : AttemptsAtWork(worker', n) <= AttemptsAtWork(worker, n)
  BY AtWorkIs DEF IInv, TypeOK
<1> QED
  BY <1>1, <1>2, WorkerMoves

(* GetConnection and IsReceived move the worker within its job.            *)
LEMMA LookupIInv == ASSUME IInv, GetConnection PROVE IInv'
<1> DEFINE u == notification[worker.job.id].userId
           w == [worker EXCEPT !.pc = "check", !.token = connection[u]]
<1>1. /\ worker \in Busy /\ worker # Idle /\ worker.pc = "lookup" /\ JobOK(worker.job)
      /\ UNCHANGED Tables /\ Registry!TypeOK' /\ UNCHANGED connection
  <2>1. worker \in Busy /\ worker # Idle
    BY WorkerIs DEF GetConnection, IInv, TypeOK, Idle, Busy
  <2> QED
    BY <2>1 DEF GetConnection, Tables, IInv, TypeOK, WorkerOK, sockets, Registry!TypeOK
<1>2. connection[u] \in Sockets \union {NoSocket}
  <2>1. notification[worker.job.id] \in Rows
    BY <1>1 DEF JobOK, Created, IInv, TypeOK
  <2> QED
    BY <2>1 DEF Rows, IInv, TypeOK, Registry!TypeOK
<1>3. worker' = w
  BY DEF GetConnection
<1>4. w \in Busy /\ w.pc = "check" /\ w.job = worker.job
  BY <1>1, <1>2 DEF Busy, Steps
<1> HIDE DEF w
<1>5. w # Idle
  BY <1>4, WorkerIs
<1>6. WorkerOK' /\ LateOK'
  BY <1>1, <1>3, <1>4 DEF WorkerOK, LateOK, JobOK, Created, Tables, history, IInv
<1>7. ASSUME NEW n \in Created
      PROVE  /\ AttemptsAtWork(w, n) <= AttemptsAtWork(worker, n)
             /\ AtWork(worker, n) => AtWork(w, n) /\ w.pc # "complete"
  <2>1. AtWork(worker, n) <=> AtWork(w, n)
    BY <1>1, <1>4, <1>5 DEF AtWork
  <2> QED
    BY <1>1, <1>4, <2>1, AtWorkIs
<1> QED
  BY <1>1, <1>3, <1>4, <1>6, <1>7, WorkerMoves

LEMMA CheckIInv == ASSUME IInv, IsReceived PROVE IInv'
<1> DEFINE b == notification[worker.job.id].status = "Sent"
           w == [worker EXCEPT !.pc = "push", !.sent = b]
<1>1. /\ worker \in Busy /\ worker # Idle /\ worker.pc = "check" /\ JobOK(worker.job)
      /\ UNCHANGED Tables /\ Registry!TypeOK'
  <2>1. worker \in Busy /\ worker # Idle
    BY WorkerIs DEF IsReceived, IInv, TypeOK, Idle, Busy
  <2> QED
    BY <2>1 DEF IsReceived, Tables, IInv, TypeOK, WorkerOK, sockets, Registry!TypeOK
<1>2. notification[worker.job.id].status \in {"Sent", "Received"}
  <2>1. notification[worker.job.id] \in Rows
    BY <1>1 DEF JobOK, Created, IInv, TypeOK
  <2> QED
    BY <2>1 DEF Rows
<1>3. worker' = w
  BY DEF IsReceived
<1>4. w \in Busy /\ w.pc = "push" /\ w.job = worker.job /\ w.sent = b
  BY <1>1 DEF Busy, Steps
<1> HIDE DEF w
<1>5. w # Idle
  BY <1>4, WorkerIs
<1>6. WorkerOK'
  BY <1>1, <1>2, <1>3, <1>4 DEF WorkerOK, JobOK, Created, Tables, history
<1>7. LateOK'
  <2>1. \A n \in Created : late[n] = 1 => notification[n].status = "Received"
    BY DEF IInv, LateOK
  <2>2. \A n \in Created : AtWork(w, n) => n = worker.job.id
    BY <1>4 DEF AtWork
  <2>3. \A n \in Created : late[n] = 1 /\ AtWork(w, n) => ~w.sent
    BY <1>4, <2>1, <2>2
  <2> QED
    BY <1>1, <1>3, <2>1, <2>3 DEF LateOK, Created, Tables, history
<1>8. ASSUME NEW n \in Created
      PROVE  /\ AttemptsAtWork(w, n) <= AttemptsAtWork(worker, n)
             /\ AtWork(worker, n) => AtWork(w, n) /\ w.pc # "complete"
  <2>1. AtWork(worker, n) <=> AtWork(w, n)
    BY <1>1, <1>4, <1>5 DEF AtWork
  <2> QED
    BY <1>1, <1>4, <2>1, AtWorkIs
<1> QED
  BY <1>1, <1>3, <1>4, <1>6, <1>7, <1>8, WorkerMoves

LEMMA CompleteIInv == ASSUME IInv, Complete PROVE IInv'
<1>1. /\ worker \in Busy /\ worker # Idle /\ worker.pc = "complete" /\ worker' = Idle
      /\ UNCHANGED Tables /\ Registry!TypeOK'
  <2>1. worker \in Busy /\ worker # Idle
    BY WorkerIs DEF Complete, IInv, TypeOK, Idle, Busy
  <2> QED
    BY <2>1 DEF Complete, Tables, IInv, TypeOK, sockets, Registry!TypeOK
<1>2. WorkerOK'
  BY <1>1 DEF WorkerOK
<1>3. LateOK'
  BY <1>1 DEF IInv, LateOK, AtWork, Created, Tables, history
<1>4. \A n \in Created : AttemptsAtWork(Idle, n) <= AttemptsAtWork(worker, n)
  BY <1>1, AtWorkIs DEF AtWork
<1> QED
  BY <1>1, <1>2, <1>3, <1>4, WorkerMoves

(* A step of the worker's counts against the budget by at most what it     *)
(* takes from the attempts.                                                *)
LEMMA BudgetKept ==
    ASSUME IInv, TypeOK', Created' = Created, crashes' = crashes,
           \A j \in Jobs : Copies'[j] <= Copies[j],
           \A n \in Created : pushes'[n] + AttemptsAtWork(worker', n)
                                <= pushes[n] + AttemptsAtWork(worker, n)
    PROVE  BudgetOK'
<1>1. Copies \in [Jobs -> Nat] /\ Copies' \in [Jobs -> Nat]
  BY CopiesType DEF Copies, IInv, TypeOK
<1>2. SUFFICES ASSUME NEW n \in Created
               PROVE  /\ IsFiniteSet(Attempts(Copies', n))
                      /\ pushes'[n] + Cardinality(Attempts(Copies', n))
                           + AttemptsAtWork(worker', n) <= MaxAttempt * (1 + crashes)
  BY DEF BudgetOK, Attempts
<1>3. /\ IsFiniteSet(Attempts(Copies, n))
      /\ pushes[n] + Cardinality(Attempts(Copies, n)) + AttemptsAtWork(worker, n)
           <= MaxAttempt * (1 + crashes)
  BY DEF IInv, BudgetOK
<1>4. /\ IsFiniteSet(Attempts(Copies', n))
      /\ Cardinality(Attempts(Copies', n)) <= Cardinality(Attempts(Copies, n))
  BY <1>1, <1>3, FewerAttempts
<1>5. Cardinality(Attempts(Copies', n)) \in Nat /\ Cardinality(Attempts(Copies, n)) \in Nat
  BY <1>3, <1>4, FS_CardinalityType
<1>6. AttemptsAtWork(worker', n) \in Nat /\ AttemptsAtWork(worker, n) \in Nat
  BY AtWorkIs DEF IInv, TypeOK
<1>7. pushes[n] \in Nat /\ pushes'[n] \in Nat /\ MaxAttempt * (1 + crashes) \in Nat
  <2>1. n \in Ids
    BY Counters DEF IInv
  <2> QED
    BY <2>1, Counters DEF IInv, TypeOK
<1> QED
  BY <1>3, <1>4, <1>5, <1>6, <1>7

LEMMA Counted ==
    ASSUME NEW f \in [Ids -> Nat], NEW n \in Ids
    PROVE  /\ Count(f, n) \in [Ids -> Nat] /\ Count(f, n)[n] = f[n] + 1
           /\ \A m \in Ids : m # n => Count(f, n)[m] = f[m]
BY DEF Count

LEMMA PushIInv == ASSUME IInv, PushNotification PROVE IInv'
<1> PICK n, w : n = worker.job.id /\ w = [worker EXCEPT !.pc = "requeue"]
  OBVIOUS
<1> DEFINE push == worker.sent /\ worker.token # NoSocket
<1>0. /\ tries \in [Ids -> Nat] /\ pushes \in [Ids -> Nat] /\ late \in [Ids -> Nat]
      /\ Created \subseteq Ids /\ MaxAttempt \in Nat \ {0}
  BY Counters DEF IInv
<1>1. /\ worker \in Busy /\ worker # Idle /\ worker.pc = "push" /\ JobOK(worker.job)
      /\ ~worker.sent => notification[n].status = "Received"
      /\ UNCHANGED <<notification, adding, queue, crashes, dropped>> /\ Registry!TypeOK'
  <2>1. worker \in Busy /\ worker # Idle
    BY WorkerIs DEF PushNotification, IInv, TypeOK, Idle, Busy
  <2> QED
    BY <2>1 DEF PushNotification, IInv, TypeOK, WorkerOK, sockets, Registry!TypeOK
<1>2. worker' = w
  BY DEF PushNotification
<1>3. w \in Busy /\ w.pc = "requeue" /\ w.job = worker.job /\ w.sent = worker.sent
  BY <1>1 DEF Busy, Steps
<1>4. w # Idle /\ n \in Created /\ n \in Ids /\ worker.job.left \in Nat \ {0}
  BY <1>1, <1>3, WorkerIs, Counters DEF JobOK, IInv, Jobs, Busy
<1>5. /\ tries' \in [Ids -> Nat] /\ tries'[n] = tries[n] + 1
      /\ \A m \in Ids : m # n => tries'[m] = tries[m]
  BY <1>0, <1>4, Counted DEF PushNotification
<1>6. /\ pushes' \in [Ids -> Nat] /\ pushes'[n] <= pushes[n] + 1
      /\ \A m \in Ids : m # n => pushes'[m] = pushes[m]
  BY <1>0, <1>4, Counted DEF PushNotification
<1>7. /\ late' \in [Ids -> Nat]
      /\ late' = late \/ /\ late'[n] = late[n] + 1
                         /\ worker.sent /\ notification[n].status = "Received"
      /\ \A m \in Ids : m # n => late'[m] = late[m]
  BY <1>0, <1>4, Counted DEF PushNotification
<1>8. TypeOK'
  <2>1. delivered' \subseteq Created
    BY <1>4 DEF PushNotification, IInv, TypeOK
  <2> QED
    BY <1>1, <1>2, <1>3, <1>5, <1>6, <1>7, <2>1 DEF IInv, TypeOK, Created
<1>9. JobsOK' /\ WorkerOK'
  <2>1. ASSUME NEW j \in BagToSet(adding) \union BagToSet(queue) PROVE JobOK(j)'
    <3>1. JobOK(j) /\ j.id \in Ids /\ j.left \in Nat
      BY JobsAre
    <3>2. tries'[j.id] >= tries[j.id] /\ tries'[j.id] \in Nat /\ tries[j.id] \in Nat
      BY <1>0, <1>5, <3>1
    <3>3. j.id \in Created' /\ MaxAttempt <= tries[j.id] + j.left
      BY <1>1, <3>1 DEF JobOK, Created
    <3> QED
      BY <1>0, <3>1, <3>2, <3>3 DEF JobOK
  <2>2. JobOK(w.job)' /\ MaxAttempt < tries'[n] + worker.job.left
    BY <1>0, <1>1, <1>3, <1>4, <1>5 DEF JobOK, Created
  <2> QED
    BY <1>1, <1>2, <1>3, <2>1, <2>2 DEF JobsOK, WorkerOK
<1>10. BudgetOK'
  <2>1. \A m \in Created : m \in Ids
    BY Counters DEF IInv
  <2>2. ASSUME NEW m \in Created
        PROVE  pushes'[m] + AttemptsAtWork(w, m) <= pushes[m] + AttemptsAtWork(worker, m)
    <3>1. pushes[m] \in Nat /\ pushes'[m] \in Nat
      BY <1>6, <2>1, Counters DEF IInv
    <3>2. CASE m = n
      <4>1. AtWork(w, m) /\ AtWork(worker, m)
        BY <1>1, <1>3, <1>4, <3>2 DEF AtWork
      <4>2. /\ AttemptsAtWork(w, m) = w.job.left - 1
            /\ AttemptsAtWork(worker, m) = worker.job.left
        BY <1>1, <1>3, <4>1, AtWorkIs
      <4> QED
        BY <1>3, <1>4, <1>6, <3>1, <3>2, <4>2
    <3>3. CASE m # n
      <4>1. ~AtWork(w, m) /\ ~AtWork(worker, m)
        BY <1>1, <1>3, <1>4, <3>3 DEF AtWork
      <4> QED
        BY <1>1, <1>3, <1>6, <2>1, <3>1, <3>3, <4>1, AtWorkIs
    <3> QED
      BY <3>2, <3>3
  <2>3. Copies' = Copies /\ Created' = Created /\ Copies \in [Jobs -> Nat]
    BY <1>1, CopiesType DEF Copies, Created, IInv, TypeOK
  <2> QED
    BY <1>1, <1>2, <1>8, <2>2, <2>3, BudgetKept
<1>11. (OneLatePush /\ LateOK)'
  <2>1. ASSUME NEW m \in Created
        PROVE  /\ late'[m] <= 1
               /\ late'[m] = 1 => notification[m].status = "Received"
    <3>1. late[m] \in Nat /\ late[m] <= 1 /\ m \in Ids
      BY Counters DEF IInv, OneLatePush
    <3>2. CASE m = n
      <4>1. late[n] = 1 => ~worker.sent /\ notification[n].status = "Received"
        BY <1>1, <1>4 DEF IInv, LateOK, AtWork
      <4> QED
        BY <1>7, <3>1, <3>2, <4>1
    <3> QED
      BY <1>7, <3>1, <3>2 DEF IInv, LateOK
  <2> QED
    BY <1>1, <1>2, <1>3, <2>1 DEF OneLatePush, LateOK, Created
<1>12. FreshOK'
  BY <1>1, <1>4, <1>5, <1>6, <1>7 DEF IInv, FreshOK, Created
<1>13. ChainUnbroken'
  <2>1. SUFFICES ASSUME NEW m \in Created, notification[m].status = "Sent",
                        ~Outstanding(m)'
                 PROVE  tries'[m] >= MaxAttempt \/ m \in dropped
    BY <1>1 DEF ChainUnbroken, Created
  <2>2. m # n /\ ~Outstanding(m)
    BY <1>1, <1>2, <1>3, <1>4, <2>1 DEF Outstanding
  <2> QED
    BY <1>5, <2>1, <2>2, Counters DEF IInv, ChainUnbroken
<1> QED
  BY <1>8, <1>9, <1>10, <1>11, <1>12, <1>13 DEF IInv

(* Requeue: the attempts the job has left become a job of their own.       *)
LEMMA RequeueIInv == ASSUME IInv, Requeue PROVE IInv'
<1> PICK n, w, i : /\ n = worker.job.id /\ w = [worker EXCEPT !.pc = "complete"]
                   /\ i = Job(n, worker.job.left - 1)
  OBVIOUS
<1>0. /\ tries \in [Ids -> Nat] /\ pushes \in [Ids -> Nat] /\ late \in [Ids -> Nat]
      /\ Created \subseteq Ids /\ MaxAttempt \in Nat \ {0} /\ MaxAttempt * (1 + crashes) \in Nat
  BY Counters DEF IInv
<1>1. /\ worker \in Busy /\ worker # Idle /\ worker.pc = "requeue" /\ JobOK(worker.job)
      /\ worker.job \in Jobs /\ MaxAttempt < tries[n] + worker.job.left
      /\ ~worker.sent => notification[n].status = "Received"
      /\ UNCHANGED <<notification, queue, delivered, crashes, history>> /\ Registry!TypeOK'
  <2>1. worker \in Busy /\ worker # Idle /\ worker.job \in Jobs
    BY WorkerIs DEF Requeue, IInv, TypeOK, Idle, Busy
  <2> QED
    BY <2>1 DEF Requeue, IInv, TypeOK, WorkerOK, sockets, Registry!TypeOK
<1>2. worker' = w
  BY DEF Requeue
<1>3. w \in Busy /\ w.pc = "complete" /\ w.job = worker.job
  BY <1>1 DEF Busy, Steps
<1>4. w # Idle /\ n \in Created /\ n \in Ids /\ worker.job.left \in 1..MaxAttempt
  BY <1>0, <1>1, <1>3, WorkerIs DEF JobOK, Jobs
<1>5. worker.job.left > 1 => i \in Jobs /\ i.id = n /\ i.left = worker.job.left - 1
  BY <1>0, <1>4 DEF Job, Jobs
<1>6. IsABag(adding) /\ IsABag(queue) /\ BagToSet(adding) \subseteq Jobs
  BY DEF IInv, TypeOK
<1>7. \/ adding' = adding /\ (~worker.sent \/ worker.job.left = 1)
      \/ worker.sent /\ worker.job.left > 1 /\ adding' = adding (+) SetToBag({i})
  BY <1>0, <1>4 DEF Requeue
<1>8. /\ IsABag(adding') /\ BagToSet(adding') \subseteq BagToSet(adding) \union {i}
      /\ BagToSet(adding) \subseteq BagToSet(adding')
      /\ worker.sent /\ worker.job.left > 1 => i \in BagToSet(adding')
  <2>1. /\ IsABag(adding (+) SetToBag({i}))
        /\ BagToSet(adding (+) SetToBag({i})) = BagToSet(adding) \union {i}
    BY <1>6, OneMore
  <2>2. CASE adding' = adding /\ (~worker.sent \/ worker.job.left = 1)
    BY <1>6, <2>2
  <2>3. CASE adding' = adding (+) SetToBag({i})
    BY <2>1, <2>3
  <2> QED
    BY <1>7, <2>2, <2>3
<1>9. TypeOK'
  BY <1>1, <1>2, <1>3, <1>5, <1>7, <1>8 DEF IInv, TypeOK, Created, history
<1>10. JobsOK' /\ WorkerOK'
  <2>1. Created' = Created /\ tries' = tries
    BY <1>1 DEF Created, history
  <2>2. \A j : JobOK(j) => JobOK(j)'
    BY <2>1 DEF JobOK
  <2>3. worker.job.left > 1 => JobOK(i)
    BY <1>0, <1>1, <1>4, <1>5 DEF JobOK
  <2>4. \A j \in BagToSet(adding') \union BagToSet(queue) : JobOK(j)
    BY <1>7, <1>8, <2>3, JobsAre
  <2> QED
    BY <1>1, <1>2, <1>3, <2>2, <2>4 DEF JobsOK, WorkerOK
<1>11. BudgetOK'
  <2>1. CASE adding' = adding
    <3>1. Copies' = Copies /\ Copies \in [Jobs -> Nat]
      BY <1>1, <1>6, <2>1, CopiesType DEF Copies
    <3>2. ASSUME NEW m \in Created
          PROVE  pushes'[m] + AttemptsAtWork(w, m) <= pushes[m] + AttemptsAtWork(worker, m)
      <4>1. AttemptsAtWork(w, m) = 0 /\ AttemptsAtWork(worker, m) \in Nat
        BY <1>1, <1>3, AtWorkIs
      <4> QED
        BY <1>0, <1>1, <4>1 DEF history
    <3> QED
      BY <1>1, <1>2, <1>9, <3>1, <3>2, BudgetKept DEF Created
  <2>2. CASE worker.job.left > 1 /\ adding' = adding (+) SetToBag({i})
    <3>1. Copies \in [Jobs -> Nat] /\ Copies' \in [Jobs -> Nat]
      BY <1>1, <1>6, <1>8, CopiesType DEF Copies
    <3>2. Copies'[i] = Copies[i] + 1 /\ \A j \in Jobs : j # i => Copies'[j] = Copies[j]
      <4>1. \A j \in Jobs : CopiesOf(j, adding) \in Nat /\ CopiesOf(j, queue) \in Nat
        BY <1>6, CopiesAre
      <4> QED
        BY <1>1, <1>5, <1>6, <2>2, <4>1, OneMore DEF Copies
    <3>3. SUFFICES ASSUME NEW m \in Created
                   PROVE  /\ IsFiniteSet(Attempts(Copies', m))
                          /\ pushes[m] + Cardinality(Attempts(Copies', m))
                               + AttemptsAtWork(w, m) <= MaxAttempt * (1 + crashes)
      BY <1>1, <1>2 DEF BudgetOK, Attempts, Created, history
    <3>4. /\ IsFiniteSet(Attempts(Copies, m)) /\ Cardinality(Attempts(Copies, m)) \in Nat
          /\ pushes[m] + Cardinality(Attempts(Copies, m)) + AttemptsAtWork(worker, m)
               <= MaxAttempt * (1 + crashes)
      BY FS_CardinalityType DEF IInv, BudgetOK
    <3>5. /\ IsFiniteSet(Attempts(Copies', m))
          /\ Cardinality(Attempts(Copies', m))
               = Cardinality(Attempts(Copies, m)) + IF i.id = m THEN i.left ELSE 0
      BY <1>5, <2>2, <3>1, <3>2, <3>4, MoreAttempts
    <3>6. /\ AttemptsAtWork(w, m) = 0 /\ AttemptsAtWork(worker, m) \in Nat
          /\ m = n => AttemptsAtWork(worker, m) = worker.job.left - 1
      BY <1>1, <1>3, AtWorkIs DEF AtWork
    <3>7. pushes[m] \in Nat
      BY <1>0
    <3> QED
      BY <1>0, <1>4, <1>5, <2>2, <3>4, <3>5, <3>6, <3>7
  <2> QED
    BY <1>7, <2>1, <2>2
<1>12. (OneLatePush /\ LateOK /\ FreshOK)'
  BY <1>1, <1>2, <1>3 DEF IInv, OneLatePush, LateOK, FreshOK, Created, history
<1>13. ChainUnbroken'
  <2>1. SUFFICES ASSUME NEW m \in Created, notification[m].status = "Sent",
                        ~Outstanding(m)'
                 PROVE  tries[m] >= MaxAttempt \/ m \in dropped
    BY <1>1 DEF ChainUnbroken, Created, history
  <2>2. CASE m # n
    <3>1. ~Outstanding(m)
      BY <1>1, <1>2, <1>3, <1>8, <2>1, <2>2 DEF Outstanding
    <3> QED
      BY <2>1, <3>1 DEF IInv, ChainUnbroken
  <2>3. CASE m = n
    <3>1. worker.job.left = 1
      <4>1. worker.sent
        BY <1>1, <2>1, <2>3
      <4>2. i \notin BagToSet(adding') \/ worker.job.left = 1
        BY <1>0, <1>4, <1>5, <2>1, <2>3 DEF Outstanding
      <4> QED
        BY <1>4, <1>8, <4>1, <4>2
    <3> QED
      BY <1>0, <1>1, <1>4, <2>3, <3>1
  <2> QED
    BY <2>2, <2>3
<1> QED
  BY <1>9, <1>10, <1>11, <1>12, <1>13 DEF IInv
-----------------------------------------------------------------------------
(* The calls to Redis: the job moves on, or it is lost.                    *)
LEMMA AddIInv ==
    ASSUME IInv, NEW j \in Jobs, AddNotificationToQueue(j)
    PROVE  IInv'
<1> PICK a, q : a = adding (-) SetToBag({j}) /\ q = queue (+) SetToBag({j})
  OBVIOUS
<1>1. /\ j \in BagToSet(adding) /\ adding' = a /\ queue' = q /\ IsABag(adding)
      /\ IsABag(queue) /\ BagToSet(adding) \subseteq Jobs /\ BagToSet(queue) \subseteq Jobs
      /\ UNCHANGED <<notification, worker, delivered, crashes, history>> /\ Registry!TypeOK'
  BY DEF AddNotificationToQueue, BagIn, IInv, TypeOK, sockets, Registry!TypeOK
<1>2. /\ IsABag(a) /\ BagToSet(a) \subseteq BagToSet(adding)
      /\ CopiesOf(j, a) = CopiesOf(j, adding) - 1
      /\ \A i : i # j => CopiesOf(i, a) = CopiesOf(i, adding)
      /\ \A i : i # j /\ i \in BagToSet(adding) => i \in BagToSet(a)
  BY <1>1, OneLess
<1>3. /\ IsABag(q) /\ BagToSet(q) = BagToSet(queue) \union {j}
      /\ CopiesOf(j, q) = CopiesOf(j, queue) + 1
      /\ \A i : i # j => CopiesOf(i, q) = CopiesOf(i, queue)
  BY <1>1, OneMore
<1>4. BagToSet(a) \union BagToSet(q) = BagToSet(adding) \union BagToSet(queue)
  BY <1>1, <1>2, <1>3
<1>5. TypeOK'
  BY <1>1, <1>2, <1>3 DEF IInv, TypeOK, Created, history
<1>6. (JobsOK /\ WorkerOK /\ OneLatePush /\ LateOK /\ FreshOK)'
  BY <1>1, <1>4 DEF IInv, JobsOK, WorkerOK, JobOK, OneLatePush, LateOK, FreshOK, Created,
                    history
<1>7. BudgetOK'
  <2>1. \A i \in Jobs : /\ CopiesOf(i, adding) \in Nat /\ CopiesOf(i, queue) \in Nat
                        /\ CopiesOf(i, a) + CopiesOf(i, q)
                             = CopiesOf(i, adding) + CopiesOf(i, queue)
    <3>1. \A i : CopiesOf(i, adding) \in Nat /\ CopiesOf(i, queue) \in Nat
      BY <1>1, CopiesAre
    <3> TAKE i \in Jobs
    <3>2. /\ CopiesOf(i, adding) \in Nat /\ CopiesOf(i, queue) \in Nat
          /\ i # j => CopiesOf(i, a) = CopiesOf(i, adding)
                     /\ CopiesOf(i, q) = CopiesOf(i, queue)
      BY <1>2, <1>3, <3>1
    <3>3. CASE i = j
      BY <1>2, <1>3, <3>2, <3>3
    <3>4. CASE i # j
      BY <3>2, <3>4
    <3> QED
      BY <3>3, <3>4
  <2>2. Copies' = Copies
    BY <1>1, <2>1 DEF Copies
  <2> QED
    BY <1>1, <2>2 DEF IInv, BudgetOK, Attempts, Created, history
<1>8. ChainUnbroken'
  BY <1>1, <1>4 DEF IInv, ChainUnbroken, Outstanding, Created, history
<1> QED
  BY <1>5, <1>6, <1>7, <1>8 DEF IInv

LEMMA AddFailsIInv ==
    ASSUME IInv, NEW j \in Jobs, AddFails(j)
    PROVE  IInv'
<1> PICK a : a = adding (-) SetToBag({j})
  OBVIOUS
<1>1. /\ j \in BagToSet(adding) /\ adding' = a /\ IsABag(adding) /\ IsABag(queue)
      /\ BagToSet(adding) \subseteq Jobs /\ BagToSet(queue) \subseteq Jobs
      /\ dropped' = dropped \union {j.id}
      /\ UNCHANGED <<notification, queue, worker, delivered, crashes, tries, pushes, late>>
      /\ Registry!TypeOK'
  BY DEF AddFails, BagIn, IInv, TypeOK, sockets, Registry!TypeOK
<1>2. /\ IsABag(a) /\ BagToSet(a) \subseteq BagToSet(adding)
      /\ CopiesOf(j, a) = CopiesOf(j, adding) - 1
      /\ \A i : i # j => CopiesOf(i, a) = CopiesOf(i, adding)
      /\ \A i : i # j /\ i \in BagToSet(adding) => i \in BagToSet(a)
  BY <1>1, OneLess
<1>3. j.id \in Created
  BY <1>1, JobsAre
<1>4. TypeOK'
  BY <1>1, <1>2, <1>3 DEF IInv, TypeOK, Created
<1>5. (JobsOK /\ WorkerOK /\ OneLatePush /\ LateOK /\ FreshOK)'
  BY <1>1, <1>2 DEF IInv, JobsOK, WorkerOK, JobOK, OneLatePush, LateOK, FreshOK, Created
<1>6. BudgetOK'
  <2>1. \A i : CopiesOf(i, adding) \in Nat /\ CopiesOf(i, queue) \in Nat
    BY <1>1, CopiesAre
  <2>2. \A i : CopiesOf(i, a) \in Nat /\ CopiesOf(i, a) <= CopiesOf(i, adding)
    BY <1>2, <2>1, CopiesAre
  <2>3. \A i \in Jobs : Copies'[i] <= Copies[i]
    BY <1>1, <2>1, <2>2 DEF Copies
  <2>4. \A n \in Created : pushes'[n] + AttemptsAtWork(worker', n)
                             <= pushes[n] + AttemptsAtWork(worker, n)
    <3>1. ASSUME NEW n \in Created
          PROVE  pushes[n] \in Nat /\ AttemptsAtWork(worker, n) \in Nat
      <4>1. n \in Ids /\ pushes \in [Ids -> Nat]
        BY Counters DEF IInv
      <4> QED
        BY <4>1, AtWorkIs DEF IInv, TypeOK
    <3> QED
      BY <1>1, <3>1
  <2> QED
    BY <1>1, <1>4, <2>3, <2>4, BudgetKept DEF Created
<1>7. ChainUnbroken'
  <2>1. ASSUME NEW n \in Created, n # j.id, Outstanding(n) PROVE Outstanding(n)'
    BY <1>1, <1>2, <2>1 DEF Outstanding
  <2> QED
    BY <1>1, <2>1 DEF IInv, ChainUnbroken, Created
<1> QED
  BY <1>4, <1>5, <1>6, <1>7 DEF IInv
-----------------------------------------------------------------------------
(* The worker takes a job, or its job fails.                               *)
LEMMA TakeIInv ==
    ASSUME IInv, NEW j \in Jobs, Take(j)
    PROVE  IInv'
<1> PICK q, w : /\ q = queue (-) SetToBag({j})
                /\ w = [pc |-> "lookup", job |-> j, token |-> NoSocket, sent |-> FALSE]
  OBVIOUS
<1>1. /\ worker = Idle /\ j \in BagToSet(queue) /\ queue' = q /\ worker' = w
      /\ IsABag(adding) /\ IsABag(queue)
      /\ BagToSet(adding) \subseteq Jobs /\ BagToSet(queue) \subseteq Jobs
      /\ UNCHANGED <<notification, adding, delivered, crashes, history>> /\ Registry!TypeOK'
  BY DEF Take, BagIn, IInv, TypeOK, sockets, Registry!TypeOK
<1>2. /\ IsABag(q) /\ BagToSet(q) \subseteq BagToSet(queue)
      /\ CopiesOf(j, q) = CopiesOf(j, queue) - 1
      /\ \A i : i # j => CopiesOf(i, q) = CopiesOf(i, queue)
      /\ \A i : i # j /\ i \in BagToSet(queue) => i \in BagToSet(q)
  BY <1>1, OneLess
<1>3. w \in Busy /\ w.pc = "lookup" /\ w.job = j /\ w # Idle
  <2>1. w \in Busy /\ w.pc = "lookup" /\ w.job = j
    BY DEF Busy, Steps
  <2> QED
    BY <2>1, WorkerIs
<1>4. JobOK(j) /\ j.left \in Nat \ {0} /\ j.id \in Created
  BY <1>1, JobsAre
<1>5. TypeOK'
  BY <1>1, <1>2, <1>3 DEF IInv, TypeOK, Created, history
<1>6. (JobsOK /\ WorkerOK /\ OneLatePush /\ LateOK /\ FreshOK)'
  BY <1>1, <1>2, <1>3, <1>4 DEF IInv, JobsOK, WorkerOK, JobOK, OneLatePush, LateOK, FreshOK,
                                Created, history
<1>7. BudgetOK'
  <2>1. Copies \in [Jobs -> Nat] /\ Copies' \in [Jobs -> Nat]
    BY <1>1, <1>2, CopiesType DEF Copies
  <2>2. Copies[j] = Copies'[j] + 1 /\ \A i \in Jobs : i # j => Copies[i] = Copies'[i]
    <3>1. \A i \in Jobs : CopiesOf(i, adding) \in Nat /\ CopiesOf(i, queue) \in Nat
      BY <1>1, CopiesAre
    <3>2. \A i \in Jobs : /\ Copies[i] = CopiesOf(i, adding) + CopiesOf(i, queue)
                          /\ Copies'[i] = CopiesOf(i, adding) + CopiesOf(i, q)
      BY <1>1 DEF Copies
    <3>3. Copies[j] = Copies'[j] + 1
      BY <1>2, <3>1, <3>2
    <3>4. ASSUME NEW i \in Jobs, i # j PROVE Copies[i] = Copies'[i]
      BY <1>2, <3>1, <3>2, <3>4
    <3> QED
      BY <3>3, <3>4
  <2>3. SUFFICES ASSUME NEW n \in Created
                 PROVE  /\ IsFiniteSet(Attempts(Copies', n))
                        /\ pushes[n] + Cardinality(Attempts(Copies', n))
                             + AttemptsAtWork(w, n) <= MaxAttempt * (1 + crashes)
    BY <1>1 DEF BudgetOK, Attempts, Created, history
  <2>4. /\ IsFiniteSet(Attempts(Copies, n)) /\ Cardinality(Attempts(Copies, n)) \in Nat
        /\ pushes[n] + Cardinality(Attempts(Copies, n)) + AttemptsAtWork(worker, n)
             <= MaxAttempt * (1 + crashes)
    BY FS_CardinalityType DEF IInv, BudgetOK
  <2>5. IsFiniteSet(Attempts(Copies', n))
    <3>1. \A i \in Jobs : Copies'[i] <= Copies[i]
      BY <2>1, <2>2
    <3> QED
      BY <2>1, <2>4, <3>1, FewerAttempts
  <2>6. /\ Cardinality(Attempts(Copies', n)) \in Nat
        /\ Cardinality(Attempts(Copies, n))
             = Cardinality(Attempts(Copies', n)) + IF j.id = n THEN j.left ELSE 0
    BY <2>1, <2>2, <2>5, MoreAttempts, FS_CardinalityType
  <2>7. AttemptsAtWork(worker, n) = 0 /\ AttemptsAtWork(w, n) = IF j.id = n THEN j.left ELSE 0
    BY <1>1, <1>3, AtWorkIs DEF AtWork
  <2>8. pushes[n] \in Nat
    <3>1. n \in Ids /\ pushes \in [Ids -> Nat]
      BY Counters DEF IInv
    <3> QED
      BY <3>1
  <2> QED
    BY <1>4, <2>4, <2>5, <2>6, <2>7, <2>8
<1>8. ChainUnbroken'
  <2>1. ASSUME NEW n \in Created, Outstanding(n) PROVE Outstanding(n)'
    BY <1>1, <1>2, <1>3, <2>1 DEF Outstanding
  <2> QED
    BY <1>1, <2>1 DEF IInv, ChainUnbroken, Created, history
<1> QED
  BY <1>5, <1>6, <1>7, <1>8 DEF IInv

LEMMA JobFailsIInv == ASSUME IInv, JobFails PROVE IInv'
<1> PICK n : n = worker.job.id
  OBVIOUS
<1>1. /\ worker \in Busy /\ worker # Idle /\ worker' = Idle /\ n \in Created
      /\ dropped' = dropped \union {n}
      /\ UNCHANGED <<notification, adding, queue, delivered, crashes, tries, pushes, late>>
      /\ Registry!TypeOK'
  <2>1. worker \in Busy /\ worker # Idle
    BY WorkerIs DEF JobFails, IInv, TypeOK, Idle, Busy
  <2> QED
    BY <2>1 DEF JobFails, IInv, TypeOK, WorkerOK, JobOK, sockets, Registry!TypeOK
<1>2. TypeOK'
  BY <1>1 DEF IInv, TypeOK, Created
<1>3. (JobsOK /\ WorkerOK /\ OneLatePush /\ LateOK /\ FreshOK)'
  BY <1>1 DEF IInv, JobsOK, WorkerOK, JobOK, OneLatePush, LateOK, FreshOK, Created, AtWork
<1>4. BudgetOK'
  <2>1. Copies' = Copies /\ Copies \in [Jobs -> Nat] /\ Created' = Created
    BY <1>1, CopiesType DEF Copies, Created, IInv, TypeOK
  <2>2. ASSUME NEW m \in Created
        PROVE  pushes'[m] + AttemptsAtWork(worker', m) <= pushes[m] + AttemptsAtWork(worker, m)
    <3>1. m \in Ids /\ pushes \in [Ids -> Nat]
      BY Counters DEF IInv
    <3>2. AttemptsAtWork(worker', m) = 0 /\ AttemptsAtWork(worker, m) \in Nat
      BY <1>1, AtWorkIs DEF AtWork
    <3> QED
      BY <1>1, <3>1, <3>2
  <2> QED
    BY <1>1, <1>2, <2>1, <2>2, BudgetKept
<1>5. ChainUnbroken'
  <2>1. ASSUME NEW m \in Created, m # n, Outstanding(m) PROVE Outstanding(m)'
    BY <1>1, <2>1 DEF Outstanding
  <2> QED
    BY <1>1, <2>1 DEF IInv, ChainUnbroken, Created
<1> QED
  BY <1>2, <1>3, <1>4, <1>5 DEF IInv
-----------------------------------------------------------------------------
(* A new notification, and an acknowledgement.                             *)
LEMMA CreateIInv ==
    ASSUME IInv, NEW u \in Users, CreateNotification(u)
    PROVE  IInv'
<1>a. PICK n, r, i, a : /\ n = Len(notification) + 1
                        /\ r = [userId |-> u, status |-> "Sent"]
                        /\ i = Job(n, MaxAttempt) /\ a = adding (+) SetToBag({i})
  OBVIOUS
<1>0. /\ tries \in [Ids -> Nat] /\ pushes \in [Ids -> Nat] /\ late \in [Ids -> Nat]
      /\ Created \subseteq Ids /\ MaxAttempt \in Nat \ {0} /\ crashes \in Nat
      /\ MaxAttempt * (1 + crashes) \in Nat
  BY Counters DEF IInv
<1>1. /\ Len(notification) \in Nat /\ Len(notification) < MaxNotifications
      /\ notification' = Append(notification, r) /\ adding' = a
      /\ IsABag(adding) /\ IsABag(queue) /\ notification \in Seq(Rows)
      /\ BagToSet(adding) \subseteq Jobs /\ BagToSet(queue) \subseteq Jobs
      /\ UNCHANGED <<queue, worker, delivered, crashes, history>> /\ Registry!TypeOK'
  BY <1>a DEF CreateNotification, IInv, TypeOK, sockets, Registry!TypeOK
<1>2. r \in Rows /\ r.status = "Sent"
  BY <1>a DEF Rows
<1>3. /\ notification' \in Seq(Rows) /\ Len(notification') = n
      /\ \A m \in Created : notification'[m] = notification[m]
      /\ notification'[n] = r
  BY <1>a, <1>1, <1>2 DEF Created
<1>4. /\ n \in Ids /\ n \notin Created /\ Created' = Created \union {n}
  BY <1>a, <1>1, <1>3, BoundAssumption DEF Ids, Created
<1>5. i \in Jobs /\ i.id = n /\ i.left = MaxAttempt
  BY <1>a, <1>0, <1>4 DEF Job, Jobs
<1>6. /\ IsABag(a) /\ BagToSet(a) = BagToSet(adding) \union {i}
      /\ CopiesOf(i, a) = CopiesOf(i, adding) + 1
      /\ \A j : j # i => CopiesOf(j, a) = CopiesOf(j, adding)
  <2>1. LET b == adding (+) SetToBag({i})
        IN  /\ IsABag(b) /\ BagToSet(b) = BagToSet(adding) \union {i}
            /\ CopiesOf(i, b) = CopiesOf(i, adding) + 1
            /\ \A j : j # i => CopiesOf(j, b) = CopiesOf(j, adding)
    BY <1>1, OneMore
  <2>2. a = adding (+) SetToBag({i})
    BY <1>a
  <2> QED
    BY <2>1, <2>2
<1>7. tries[n] = 0 /\ pushes[n] = 0 /\ late[n] = 0
  BY <1>4 DEF IInv, FreshOK
<1>8. TypeOK'
  <2>1. n <= MaxNotifications
    BY <1>a, <1>1, BoundAssumption
  <2>2. delivered' \subseteq Created' /\ dropped' \subseteq Created'
    BY <1>1, <1>4 DEF IInv, TypeOK, history
  <2> QED
    BY <1>1, <1>3, <1>5, <1>6, <2>1, <2>2 DEF IInv, TypeOK, history
<1>9. JobsOK' /\ WorkerOK'
  <2>1. \A j : JobOK(j) => JobOK(j)' /\ j.id \in Created
    BY <1>1, <1>4 DEF JobOK, history
  <2>2. JobOK(i)'
    BY <1>0, <1>1, <1>4, <1>5, <1>7 DEF JobOK, history
  <2>3. JobsOK'
    BY <1>1, <1>6, <2>1, <2>2 DEF IInv, JobsOK
  <2>4. WorkerOK'
    BY <1>1, <1>3, <2>1 DEF IInv, WorkerOK, history
  <2> QED
    BY <2>3, <2>4
<1>10. BudgetOK'
  <2>1. Copies \in [Jobs -> Nat] /\ Copies' \in [Jobs -> Nat]
    BY <1>1, <1>6, CopiesType DEF Copies
  <2>2. Copies'[i] = Copies[i] + 1 /\ \A j \in Jobs : j # i => Copies'[j] = Copies[j]
    <3>1. \A j \in Jobs : CopiesOf(j, adding) \in Nat /\ CopiesOf(j, queue) \in Nat
      BY <1>1, CopiesAre
    <3>2. \A j \in Jobs : /\ Copies[j] = CopiesOf(j, adding) + CopiesOf(j, queue)
                          /\ Copies'[j] = CopiesOf(j, a) + CopiesOf(j, queue)
      <4>1. adding' = a /\ queue' = queue
        BY <1>1
      <4>2. Copies' = [j \in Jobs |-> CopiesOf(j, a) + CopiesOf(j, queue)]
        BY <4>1 DEF Copies
      <4> QED
        BY <4>2 DEF Copies
    <3>3. Copies'[i] = Copies[i] + 1
      BY <1>5, <1>6, <3>1, <3>2
    <3>4. ASSUME NEW j \in Jobs, j # i PROVE Copies'[j] = Copies[j]
      BY <1>6, <3>1, <3>2, <3>4
    <3> QED
      BY <3>3, <3>4
  <2>3. SUFFICES ASSUME NEW m \in Created \union {n}
                 PROVE  /\ IsFiniteSet(Attempts(Copies', m))
                        /\ pushes[m] + Cardinality(Attempts(Copies', m))
                             + AttemptsAtWork(worker, m) <= MaxAttempt * (1 + crashes)
    BY <1>1, <1>4 DEF BudgetOK, Attempts, history
  <2>4. CASE m \in Created
    <3>1. /\ IsFiniteSet(Attempts(Copies, m)) /\ Cardinality(Attempts(Copies, m)) \in Nat
          /\ pushes[m] + Cardinality(Attempts(Copies, m)) + AttemptsAtWork(worker, m)
               <= MaxAttempt * (1 + crashes)
      BY <2>4, FS_CardinalityType DEF IInv, BudgetOK
    <3>2. i.id # m
      BY <1>4, <1>5, <2>4
    <3>3. /\ IsFiniteSet(Attempts(Copies', m))
          /\ Cardinality(Attempts(Copies', m)) = Cardinality(Attempts(Copies, m))
      BY <1>5, <2>1, <2>2, <3>1, <3>2, MoreAttempts
    <3> QED
      BY <3>1, <3>3
  <2>5. CASE m = n
    <3>1. \A j \in Jobs : j.id = n => Copies[j] = 0
      <4>1. ASSUME NEW j \in Jobs, j.id = n PROVE Copies[j] = 0
        <5>1. j \notin BagToSet(adding) /\ j \notin BagToSet(queue)
          BY <1>4, <4>1, JobsAre
        <5> QED
          BY <5>1 DEF Copies, CopiesOf
      <4> QED
        BY <4>1
    <3>2. Attempts(Copies, n) = {}
      <4>1. \A j \in Jobs : j.id = n => 1..Copies[j] = {}
        BY <3>1
      <4> QED
        BY <4>1, InAttempts
    <3>3. /\ IsFiniteSet(Attempts(Copies, n)) /\ Cardinality(Attempts(Copies, n)) = 0
      BY <3>2, FS_EmptySet
    <3>4. /\ IsFiniteSet(Attempts(Copies', n))
          /\ Cardinality(Attempts(Copies', n)) = MaxAttempt
      <4>1. /\ IsFiniteSet(Attempts(Copies', n))
            /\ Cardinality(Attempts(Copies', n))
                 = Cardinality(Attempts(Copies, n)) + IF i.id = n THEN i.left ELSE 0
        BY <1>5, <2>1, <2>2, <3>3, MoreAttempts
      <4>2. MaxAttempt \in Nat
        BY <1>0
      <4> QED
        BY <1>5, <3>3, <4>1, <4>2
    <3>5. ~AtWork(worker, n)
      BY <1>4 DEF AtWork, IInv, WorkerOK, JobOK
    <3>6. AttemptsAtWork(worker, n) = 0
      BY <3>5, AtWorkIs DEF IInv, TypeOK
    <3>7. MaxAttempt <= MaxAttempt * (1 + crashes)
      <4>1. MaxAttempt * (1 + crashes) = MaxAttempt + MaxAttempt * crashes
            /\ MaxAttempt * crashes \in Nat
        BY <1>0
      <4> QED
        BY <1>0, <4>1
    <3> QED
      BY <1>0, <1>7, <2>5, <3>4, <3>6, <3>7
  <2> QED
    BY <2>4, <2>5
<1>11. (OneLatePush /\ LateOK /\ FreshOK)'
  <2>1. late' = late /\ tries' = tries /\ pushes' = pushes /\ worker' = worker
    BY <1>1 DEF history
  <2>2. OneLatePush' /\ FreshOK'
    BY <1>4, <1>7, <2>1 DEF IInv, OneLatePush, FreshOK
  <2>3. \A m \in Created : late[m] = 1 =>
            /\ notification'[m].status = "Received"
            /\ AtWork(worker, m) /\ worker.pc = "push" => ~worker.sent
    BY <1>3 DEF IInv, LateOK
  <2>4. LateOK'
    BY <1>4, <1>7, <2>1, <2>3 DEF LateOK
  <2> QED
    BY <2>2, <2>4
<1>12. ChainUnbroken'
  <2>1. Outstanding(n)'
    BY <1>1, <1>5, <1>6 DEF Outstanding
  <2>2. ASSUME NEW m \in Created, Outstanding(m) PROVE Outstanding(m)'
    BY <1>1, <1>6, <2>2 DEF Outstanding
  <2> QED
    BY <1>1, <1>3, <1>4, <2>1, <2>2 DEF IInv, ChainUnbroken, history
<1> QED
  BY <1>8, <1>9, <1>10, <1>11, <1>12 DEF IInv

LEMMA ReceiveIInv ==
    ASSUME IInv, NEW n \in Created, ReceiveNotification(n)
    PROVE  IInv'
<1> PICK r : r = [notification[n] EXCEPT !.status = "Received"]
  OBVIOUS
<1>1. /\ notification \in Seq(Rows) /\ n \in 1..Len(notification)
      /\ notification' = [notification EXCEPT ![n] = r]
      /\ UNCHANGED <<adding, queue, worker, delivered, crashes, history>> /\ Registry!TypeOK'
  BY DEF ReceiveNotification, IInv, TypeOK, sockets, Registry!TypeOK, Created
<1>2. notification[n] \in Rows
  BY <1>1
<1>3. r \in Rows /\ r.status = "Received"
  BY <1>2 DEF Rows
<1>4. /\ notification' \in Seq(Rows) /\ Len(notification') = Len(notification)
      /\ notification'[n] = r /\ Created' = Created
      /\ \A m \in Created : m # n => notification'[m] = notification[m]
  BY <1>1, <1>3 DEF Created
<1>5. TypeOK'
  BY <1>1, <1>4 DEF IInv, TypeOK, history
<1>6. /\ \A m \in Created : notification[m].status = "Received"
                               => notification'[m].status = "Received"
      /\ \A m \in Created : notification'[m].status = "Sent" => notification[m].status = "Sent"
  BY <1>3, <1>4
<1>7. JobsOK' /\ WorkerOK'
  <2>1. \A j : JobOK(j) => JobOK(j)' /\ j.id \in Created
    BY <1>1, <1>4 DEF JobOK, history
  <2> QED
    BY <1>1, <1>6, <2>1 DEF IInv, JobsOK, WorkerOK, history
<1>8. BudgetOK'
  BY <1>1, <1>4 DEF IInv, BudgetOK, Copies, Attempts, history
<1>9. (OneLatePush /\ LateOK /\ FreshOK)'
  BY <1>1, <1>4, <1>6 DEF IInv, OneLatePush, LateOK, FreshOK, history
<1>10. ChainUnbroken'
  <2>1. \A m : Outstanding(m) => Outstanding(m)'
    BY <1>1 DEF Outstanding
  <2> QED
    BY <1>1, <1>4, <1>6, <2>1 DEF IInv, ChainUnbroken, history
<1> QED
  BY <1>5, <1>7, <1>8, <1>9, <1>10 DEF IInv
-----------------------------------------------------------------------------
(* The process ends: at most one job more is queued, with the attempts it  *)
(* had left, and the budget grows by maxAttempt.                           *)
LEMMA CrashIInv ==
    ASSUME IInv, Crash, Registry!TypeOK'
    PROVE  IInv'
<1>a. PICK i, k : /\ i = [worker.job EXCEPT !.stalled = TRUE]
                  /\ k = IF worker # Idle /\ ~worker.job.stalled THEN 1 ELSE 0
  OBVIOUS
<1>0. /\ tries \in [Ids -> Nat] /\ pushes \in [Ids -> Nat] /\ late \in [Ids -> Nat]
      /\ Created \subseteq Ids /\ MaxAttempt \in Nat \ {0} /\ crashes \in Nat
  BY Counters DEF IInv
<1>1. /\ worker' = Idle /\ adding' = EmptyBag /\ IsABag(adding) /\ IsABag(queue)
      /\ BagToSet(adding) \subseteq Jobs /\ BagToSet(queue) \subseteq Jobs
      /\ crashes < MaxCrashes /\ crashes' = crashes + 1
      /\ notification' = notification /\ delivered' = delivered
      /\ tries' = tries /\ pushes' = pushes /\ late' = late /\ Created' = Created
  BY DEF Crash, IInv, TypeOK, Created
<1>2. worker # Idle => /\ worker \in Busy /\ worker.job \in Jobs /\ JobOK(worker.job)
  BY WorkerIs DEF IInv, TypeOK, WorkerOK
<1>3. worker # Idle => /\ i \in Jobs /\ i.id = worker.job.id /\ i.left = worker.job.left
                       /\ worker.job.id \in Created /\ JobOK(i)
  <2>1. worker # Idle => i \in Jobs /\ i.id = worker.job.id /\ i.left = worker.job.left
    BY <1>a, <1>2 DEF Jobs
  <2> QED
    BY <1>2, <2>1 DEF JobOK
<1>4. /\ IsABag(EmptyBag) /\ BagToSet(EmptyBag) = {} /\ \A j : CopiesOf(j, EmptyBag) = 0
  BY EmptyBagIs
<1>5. \/ k = 1 /\ worker # Idle /\ queue' = queue (+) SetToBag({i})
      \/ k = 0 /\ queue' = queue
  BY <1>a DEF Crash
<1>6. /\ IsABag(queue') /\ BagToSet(queue) \subseteq BagToSet(queue')
      /\ BagToSet(queue') \subseteq Jobs
      /\ \A j \in BagToSet(queue') : j \in BagToSet(queue) \/ (j = i /\ k = 1)
      /\ k = 1 => i \in BagToSet(queue')
  <2>1. /\ IsABag(queue (+) SetToBag({i}))
        /\ BagToSet(queue (+) SetToBag({i})) = BagToSet(queue) \union {i}
    BY <1>1, OneMore
  <2>2. CASE k = 1 /\ worker # Idle /\ queue' = queue (+) SetToBag({i})
    <3>1. IsABag(queue') /\ BagToSet(queue') = BagToSet(queue) \union {i} /\ i \in Jobs
      BY <1>3, <2>1, <2>2
    <3> QED
      BY <1>1, <2>2, <3>1
  <2>3. CASE k = 0 /\ queue' = queue
    BY <1>1, <2>3
  <2> QED
    BY <1>5, <2>2, <2>3
<1>7. /\ dropped' \subseteq Created /\ dropped \subseteq dropped'
      /\ \A j \in BagToSet(adding) : j.id \in dropped'
      /\ worker # Idle /\ k = 0 => worker.job.id \in dropped'
  <2>1. dropped' = dropped \union {j.id : j \in BagToSet(adding)}
                   \union (IF worker # Idle /\ worker.job.stalled
                           THEN {worker.job.id} ELSE {})
    BY DEF Crash
  <2>2. \A j \in BagToSet(adding) : j.id \in Created
    BY JobsAre
  <2>3. dropped \subseteq Created
    BY DEF IInv, TypeOK
  <2>4. worker # Idle => (k = 0 <=> worker.job.stalled)
    <3>1. worker # Idle => worker.job.stalled \in BOOLEAN
      BY <1>2 DEF Jobs
    <3> QED
      BY <1>a, <3>1
  <2> QED
    BY <1>3, <2>1, <2>2, <2>3, <2>4
<1>8. TypeOK'
  <2>1. crashes' \in 0..MaxCrashes
    BY <1>0, <1>1, BoundAssumption
  <2> QED
    BY <1>1, <1>4, <1>6, <1>7, <2>1 DEF IInv, TypeOK
<1>9. (JobsOK /\ WorkerOK /\ OneLatePush /\ LateOK /\ FreshOK)'
  <2>1. \A j \in BagToSet(queue') : JobOK(j)
    <3>1. k = 1 => worker # Idle
      BY <1>5
    <3> QED
      BY <1>3, <1>6, <3>1, JobsAre
  <2>2. \A j : JobOK(j) => JobOK(j)'
    BY <1>1 DEF JobOK
  <2>3. JobsOK'
    BY <1>1, <1>4, <2>1, <2>2 DEF JobsOK
  <2> QED
    BY <1>1, <2>3 DEF IInv, WorkerOK, OneLatePush, LateOK, FreshOK, AtWork
<1>10. BudgetOK'
  <2> DEFINE q == [j \in Jobs |-> CopiesOf(j, EmptyBag) + CopiesOf(j, queue)]
  <2>1. \A j : CopiesOf(j, adding) \in Nat /\ CopiesOf(j, queue) \in Nat
    BY <1>1, CopiesAre
  <2>2. q \in [Jobs -> Nat] /\ \A j \in Jobs : q[j] <= Copies[j]
    BY <1>4, <2>1 DEF Copies
  <2>3. Copies \in [Jobs -> Nat] /\ Copies' \in [Jobs -> Nat]
    BY <1>1, <1>4, <1>6, CopiesType DEF Copies
  <2>4. \/ Copies' = q /\ k = 0
        \/ /\ k = 1 /\ worker # Idle /\ i \in Jobs
           /\ Copies'[i] = q[i] + 1 /\ \A j \in Jobs : j # i => Copies'[j] = q[j]
    <3>1. Copies' = [j \in Jobs |-> CopiesOf(j, EmptyBag) + CopiesOf(j, queue')]
      BY <1>1 DEF Copies
    <3>2. CASE k = 0 /\ queue' = queue
      BY <3>1, <3>2
    <3>3. CASE k = 1 /\ worker # Idle /\ queue' = queue (+) SetToBag({i})
      <4>1. /\ CopiesOf(i, queue (+) SetToBag({i})) = CopiesOf(i, queue) + 1
            /\ \A j : j # i => CopiesOf(j, queue (+) SetToBag({i})) = CopiesOf(j, queue)
        BY <1>1, OneMore
      <4>2. /\ CopiesOf(i, queue') = CopiesOf(i, queue) + 1
            /\ \A j : j # i => CopiesOf(j, queue') = CopiesOf(j, queue)
        BY <3>3, <4>1
      <4>3. i \in Jobs
        BY <1>3, <3>3
      <4>4. Copies'[i] = q[i] + 1
        BY <1>4, <2>1, <3>1, <4>2, <4>3
      <4>5. ASSUME NEW j \in Jobs, j # i PROVE Copies'[j] = q[j]
        BY <1>4, <2>1, <3>1, <4>2, <4>5
      <4> QED
        BY <3>3, <4>3, <4>4, <4>5
    <3> QED
      BY <1>5, <3>2, <3>3
  <2> HIDE DEF q
  <2>5. SUFFICES ASSUME NEW n \in Created
                 PROVE  /\ IsFiniteSet(Attempts(Copies', n))
                        /\ pushes[n] + Cardinality(Attempts(Copies', n))
                             + AttemptsAtWork(Idle, n) <= MaxAttempt * (1 + (crashes + 1))
    BY <1>1 DEF BudgetOK, Attempts
  <2>6. /\ IsFiniteSet(Attempts(Copies, n)) /\ Cardinality(Attempts(Copies, n)) \in Nat
        /\ pushes[n] + Cardinality(Attempts(Copies, n)) + AttemptsAtWork(worker, n)
             <= MaxAttempt * (1 + crashes)
    BY FS_CardinalityType DEF IInv, BudgetOK
  <2>7. /\ IsFiniteSet(Attempts(q, n)) /\ Cardinality(Attempts(q, n)) \in Nat
        /\ Cardinality(Attempts(q, n)) <= Cardinality(Attempts(Copies, n))
    BY <2>2, <2>3, <2>6, FewerAttempts, FS_CardinalityType
  <2>8. /\ IsFiniteSet(Attempts(Copies', n)) /\ Cardinality(Attempts(Copies', n)) \in Nat
        /\ Cardinality(Attempts(Copies', n)) <= Cardinality(Attempts(q, n)) + MaxAttempt
    <3>1. CASE Copies' = q /\ k = 0
      BY <1>0, <2>7, <3>1
    <3>2. CASE /\ k = 1 /\ worker # Idle /\ i \in Jobs
               /\ Copies'[i] = q[i] + 1 /\ \A j \in Jobs : j # i => Copies'[j] = q[j]
      <4>1. /\ IsFiniteSet(Attempts(Copies', n))
            /\ Cardinality(Attempts(Copies', n))
                 = Cardinality(Attempts(q, n)) + IF i.id = n THEN i.left ELSE 0
        <5>1. i \in Jobs /\ q \in [Jobs -> Nat] /\ Copies' \in [Jobs -> Nat]
              /\ IsFiniteSet(Attempts(q, n))
          BY <2>2, <2>3, <2>7, <3>2
        <5> QED
          BY <3>2, <5>1, MoreAttempts
      <4>2. i.left \in Nat /\ i.left <= MaxAttempt
        BY <1>0, <3>2 DEF Jobs
      <4> QED
        BY <1>0, <2>7, <4>1, <4>2
    <3> QED
      BY <2>4, <3>1, <3>2
  <2>9. /\ AttemptsAtWork(Idle, n) = 0 /\ AttemptsAtWork(worker, n) \in Nat
    BY AtWorkIs DEF AtWork, IInv, TypeOK
  <2>10. pushes[n] \in Nat
    BY <1>0
  <2>11. MaxAttempt * (1 + (crashes + 1)) = MaxAttempt * (1 + crashes) + MaxAttempt
         /\ MaxAttempt * (1 + crashes) \in Nat
    BY <1>0
  <2> QED
    BY <1>0, <2>6, <2>7, <2>8, <2>9, <2>10, <2>11
<1>11. ChainUnbroken'
  <2>1. SUFFICES ASSUME NEW n \in Created, n \notin dropped', Outstanding(n)
                 PROVE  Outstanding(n)'
    BY <1>1, <1>7 DEF IInv, ChainUnbroken
  <2>2. CASE \E j \in BagToSet(adding) \union BagToSet(queue) : j.id = n
    BY <1>6, <1>7, <2>1, <2>2 DEF Outstanding
  <2>3. CASE worker # Idle /\ worker.job.id = n
    <3>1. k = 1
      BY <1>5, <1>7, <2>1, <2>3
    <3> QED
      BY <1>3, <1>6, <2>3, <3>1 DEF Outstanding
  <2> QED
    BY <2>1, <2>2, <2>3 DEF Outstanding
<1> QED
  BY <1>8, <1>9, <1>10, <1>11 DEF IInv
-----------------------------------------------------------------------------
(* Nothing is pushed, queued or created at first.                          *)
LEMMA InitIInv == Init => IInv
<1> SUFFICES ASSUME Init PROVE IInv
  OBVIOUS
<1>1. /\ notification = <<>> /\ adding = EmptyBag /\ queue = EmptyBag /\ worker = Idle
      /\ delivered = {} /\ crashes = 0 /\ dropped = {}
      /\ tries = [n \in Ids |-> 0] /\ pushes = [n \in Ids |-> 0] /\ late = [n \in Ids |-> 0]
  BY DEF Init
<1>2. Registry!TypeOK
  BY SocketInitIInv DEF Init, Registry!IInv
<1>3. Created = {}
  BY <1>1 DEF Created
<1>4. IsABag(EmptyBag) /\ BagToSet(EmptyBag) = {}
  BY EmptyBagIs
<1>5. TypeOK
  BY <1>1, <1>2, <1>3, <1>4, BoundAssumption DEF TypeOK
<1>6. JobsOK /\ WorkerOK /\ BudgetOK /\ OneLatePush /\ LateOK /\ FreshOK /\ ChainUnbroken
  BY <1>1, <1>3, <1>4 DEF JobsOK, WorkerOK, BudgetOK, OneLatePush, LateOK, FreshOK,
                          ChainUnbroken
<1> QED
  BY <1>5, <1>6 DEF IInv

(* The sockets move only as the registry lets them.                        *)
LEMMA SocketsMove == [Next]_vars => [Registry!Next]_(Registry!vars)
<1> SUFFICES ASSUME [Next]_vars PROVE [Registry!Next]_(Registry!vars)
  OBVIOUS
<1>1. CASE Registry!Serve
  BY <1>1 DEF Registry!Next
<1>2. CASE Crash
  BY <1>2 DEF Crash, Registry!Next
<1>3. CASE UNCHANGED sockets
  BY <1>3 DEF sockets, Registry!vars
<1>4. ASSUME NEW u \in Users, CreateNotification(u) PROVE UNCHANGED sockets
  BY <1>4 DEF CreateNotification
<1>5. ASSUME NEW j \in Jobs, AddNotificationToQueue(j) \/ AddFails(j) PROVE UNCHANGED sockets
  BY <1>5 DEF AddNotificationToQueue, AddFails
<1>6. CASE WorkerStep
  <2>1. UNCHANGED sockets
    BY <1>6 DEF WorkerStep, Take, GetConnection, IsReceived, PushNotification, Requeue,
                Complete
  <2> QED
    BY <1>3, <2>1
<1>7. CASE JobFails
  BY <1>3, <1>7 DEF JobFails
<1>8. ASSUME NEW n \in Created, ReceiveNotification(n) PROVE UNCHANGED sockets
  BY <1>8 DEF ReceiveNotification
<1>9. CASE Rest \/ UNCHANGED vars
  BY <1>3, <1>9 DEF Rest, vars
<1> QED
  BY <1>1, <1>2, <1>3, <1>4, <1>5, <1>6, <1>7, <1>8, <1>9 DEF Next

LEMMA NextIInv == IInv /\ Registry!IInv /\ [Next]_vars => IInv' /\ Registry!IInv'
<1> SUFFICES ASSUME IInv, Registry!IInv, [Next]_vars PROVE IInv' /\ Registry!IInv'
  OBVIOUS
<1>1. Registry!IInv' /\ Registry!TypeOK'
  <2>1. Registry!IInv'
    BY SocketsMove, SocketNextIInv
  <2> QED
    BY <2>1 DEF Registry!IInv
<1>2. CASE UNCHANGED <<notification, adding, queue, worker, delivered, crashes, history>>
  BY <1>1, <1>2, ServeIInv DEF Tables
<1>3. ASSUME NEW u \in Users, CreateNotification(u) PROVE IInv'
  BY <1>3, CreateIInv
<1>4. ASSUME NEW j \in Jobs, AddNotificationToQueue(j) \/ AddFails(j) PROVE IInv'
  BY <1>4, AddIInv, AddFailsIInv
<1>5. CASE WorkerStep
  BY <1>1, <1>5, TakeIInv, LookupIInv, CheckIInv, PushIInv, RequeueIInv, CompleteIInv
     DEF WorkerStep
<1>6. CASE JobFails
  BY <1>1, <1>6, JobFailsIInv
<1>7. ASSUME NEW n \in Created, ReceiveNotification(n) PROVE IInv'
  BY <1>7, ReceiveIInv
<1>8. CASE Crash
  BY <1>1, <1>8, CrashIInv
<1>9. CASE Rest \/ UNCHANGED vars
  BY <1>2, <1>9 DEF Rest, vars
<1> QED
  BY <1>1, <1>2, <1>3, <1>4, <1>5, <1>6, <1>7, <1>8, <1>9 DEF Next

LEMMA Invariance == Spec => [](IInv /\ Registry!IInv)
<1>1. Init => IInv /\ Registry!IInv
  BY InitIInv, SocketInitIInv DEF Init
<1>2. (IInv /\ Registry!IInv) /\ [Next]_vars => (IInv /\ Registry!IInv)'
  BY NextIInv
<1> QED
  BY <1>1, <1>2, PTL DEF Spec
-----------------------------------------------------------------------------
(* Rows, jobs, worker and history keep their types.                        *)
THEOREM TypeCorrect == Spec => []TypeOK
<1>1. IInv => TypeOK
  BY DEF IInv
<1> QED
  BY <1>1, Invariance, PTL

(* A client is pushed a notification at most maxAttempt times per life of  *)
(* the process, and at most once after it was acknowledged                 *)
(* (pushNotification), whatever crashes and failing calls come between.    *)
THEOREM PushesAreBounded == Spec => []PushesBounded
<1>1. ASSUME IInv PROVE PushesBounded
  <2>1. ASSUME NEW n \in Created PROVE pushes[n] <= MaxAttempt * (1 + crashes)
    <3>1. /\ Cardinality(Attempts(Copies, n)) \in Nat
          /\ pushes[n] + Cardinality(Attempts(Copies, n)) + AttemptsAtWork(worker, n)
               <= MaxAttempt * (1 + crashes)
      BY <1>1, FS_CardinalityType DEF IInv, BudgetOK
    <3>2. /\ pushes[n] \in Nat /\ MaxAttempt * (1 + crashes) \in Nat
          /\ AttemptsAtWork(worker, n) \in Nat
      BY <1>1, Counters, AtWorkIs DEF IInv, TypeOK
    <3> QED
      BY <3>1, <3>2
  <2> QED
    BY <1>1, <2>1 DEF IInv, PushesBounded, PushBudget
<1> QED
  BY <1>1, Invariance, PTL

(* A notification that is neither acknowledged nor being worked on was     *)
(* tried maxAttempt times, unless a rejected call or a crash cut its chain *)
(* (pushNotification and the requeue nobody awaits).                       *)
THEOREM ChainsAreUnbroken == Spec => []ChainUnbroken
<1>1. IInv => ChainUnbroken
  BY DEF IInv
<1> QED
  BY <1>1, Invariance, PTL

(* The deliveries never disturb the registry they read: what is proved of  *)
(* the sockets alone holds beside them.                                    *)
THEOREM DeliveryKeepsRegistry == Spec => Registry!Spec
<1>1. Init => Registry!Init
  BY DEF Init
<1> QED
  BY <1>1, SocketsMove, PTL DEF Spec, Registry!Spec
-----------------------------------------------------------------------------
(* The conversations.                                                      *)

(* The page's side of a row is one of its rows.                            *)
RowsOK ==
    \A i \in DOMAIN message : {message[i].from, message[i].to} \subseteq People \union pageRow

ReaderType ==
    reader # Tab!Closed =>
        reader \in [pc : {"resting", "slice"}, with : People, page : Nat \ {0}, offset : Nat,
                    own : People \union PageRows, asked : Nat, shown : Seq(Nat), base : Nat,
                    missed : BOOLEAN, over : BOOLEAN]

(* Every page before the last is full.                                     *)
PagesOK ==
    reader # Tab!Closed =>
        /\ reader.base <= Len(message)
        /\ reader.page = 1 => reader.offset = 0 /\ reader.base = 0 /\ reader.shown = <<>>
        /\ reader.pc = "slice" => ~reader.over
        /\ ~reader.over => Len(reader.shown) = (reader.page - 1) * Size

(* The rows of the conversation at its first page, and since.              *)
Base == {i \in DOMAIN message : i <= reader.base /\ Tab!Partner(message[i]) = reader.with}
After == {i \in DOMAIN message : i > reader.base /\ Tab!Partner(message[i]) = reader.with}

(* The offset counts no row that is not there or not sent.                 *)
HeardOK ==
    reader # Tab!Closed /\ reader.page > 1 =>
        reader.offset + Cardinality(After \intersect unsent) <= Cardinality(After)

(* What is shown is the rows of the first page in their order, to the last *)
(* of them at the end.                                                     *)
NewerIn(S, i) == {j \in S : message[j].sent > message[i].sent}
Ahead(i) == NewerIn(Base, i)

InOrder ==
    \A n \in DOMAIN reader.shown :
        reader.shown[n] \in Base /\ Cardinality(Ahead(reader.shown[n])) = n - 1

ShownOK ==
    reader # Tab!Closed /\ ~Tab!Late /\ ~Tab!Tied /\ ~reader.missed
      /\ (\E p \in PageRows : pageRow = {p}) =>
        /\ InOrder
        /\ reader.over => Base \subseteq Tab!ToSet(reader.shown)

TabIInv == Tab!TypeOK /\ RowsOK /\ ReaderType /\ PagesOK /\ HeardOK /\ ShownOK

-----------------------------------------------------------------------------
LEMMA Constants ==
    /\ Size \in Nat \ {0} /\ MaxMessages \in Nat /\ Times \subseteq Nat
    /\ People \intersect PageRows = {}
BY ConversationsAssumption DEF Tab!ConversationAssumption

LEMMA TabCounts ==
    /\ \A S : Tab!Cardinality(S) = Cardinality(S)
    /\ \A S : Tab!IsFiniteSet(S) <=> IsFiniteSet(S)
BY DEF Cardinality, Tab!Cardinality, IsFiniteSet, Tab!IsFiniteSet

LEMMA Least ==
    ASSUME NEW S, S \subseteq Nat, S # {}
    PROVE  \E x \in S : \A y \in S : x <= y
<1> DEFINE R == OpToRel(<, Nat)
<1>1. PICK x \in S : \A y \in S : ~(<<y, x>> \in R)
  <2>1. IsWellFoundedOn(R, Nat)
    BY NatLessThanWellFounded
  <2> QED
    BY <2>1, WFMin
<1>2. ASSUME NEW y \in S PROVE x <= y
  <2>1. x \in Nat /\ y \in Nat /\ ~(y < x)
    BY <1>1 DEF OpToRel
  <2> QED
    BY <2>1
<1> QED
  BY <1>2

LEMMA Subset ==
    ASSUME NEW S, IsFiniteSet(S), NEW T, T \subseteq S
    PROVE  IsFiniteSet(T) /\ Cardinality(T) <= Cardinality(S)
           /\ Cardinality(T) \in Nat /\ Cardinality(S) \in Nat
BY FS_Subset, FS_CardinalityType

LEMMA Smaller ==
    ASSUME NEW S, IsFiniteSet(S), NEW T, T \subseteq S, NEW x \in S, x \notin T
    PROVE  Cardinality(T) < Cardinality(S)
<1>1. T # S
  OBVIOUS
<1> QED
  BY <1>1, FS_Subset, FS_CardinalityType

(* The sequences of a set have each of its elements once.                  *)
LEMMA SeqsAre ==
    ASSUME NEW S, IsFiniteSet(S), NEW s, s \in Tab!SetToSeqs(S)
    PROVE  /\ s \in Seq(S) /\ Len(s) = Cardinality(S) /\ DOMAIN s = 1..Len(s)
           /\ \A i, j \in DOMAIN s : s[i] = s[j] => i = j
           /\ \A i \in DOMAIN s : s[i] \in S
           /\ \A x \in S : \E i \in DOMAIN s : s[i] = x
<1> DEFINE n == Cardinality(S)
<1>1. n \in Nat
  BY FS_CardinalityType
<1>2. s \in [1..n -> S] /\ \A i, j \in 1..n : i # j => s[i] # s[j]
  BY TabCounts DEF Tab!SetToSeqs
<1>3. IsFiniteSet(1..n) /\ Cardinality(1..n) = n
  BY <1>1, FS_Interval
<1>4. s \in Injection(1..n, S)
  BY <1>2 DEF Injection, IsInjective
<1>5. s \in Surjection(1..n, S)
  BY <1>3, <1>4, FS_Injection
<1>6. \A x \in S : \E i \in 1..n : s[i] = x
  BY <1>5 DEF Surjection
<1>7. s \in Seq(S) /\ Len(s) = n /\ DOMAIN s = 1..n
  BY <1>1, <1>2
<1> QED
  BY <1>2, <1>6, <1>7

(* The first n places of a sequence without repetition.                    *)
FirstOf(s, n) == {s[i] : i \in 1..n}

LEMMA FirstPlaces ==
    ASSUME NEW s, NEW n \in Nat, 1..n \subseteq DOMAIN s,
           \A i, j \in DOMAIN s : s[i] = s[j] => i = j
    PROVE  IsFiniteSet(FirstOf(s, n)) /\ Cardinality(FirstOf(s, n)) = n
<1> DEFINE T == {s[i] : i \in 1..n}
           f == [i \in 1..n |-> s[i]]
<1>1. \A i \in 1..n : f[i] = s[i]
  OBVIOUS
<1>2. f \in [1..n -> T]
  OBVIOUS
<1> HIDE DEF f
<1>3. \A i, j \in 1..n : f[i] = f[j] => i = j
  BY <1>1
<1>4. \A t \in T : \E i \in 1..n : f[i] = t
  BY <1>1
<1> HIDE DEF T
<1>5. f \in Bijection(1..n, T)
  BY <1>2, <1>3, <1>4 DEF Bijection, Injection, Surjection, IsInjective
<1>6. IsFiniteSet(1..n) /\ Cardinality(1..n) = n
  BY FS_Interval
<1> QED
  BY <1>5, <1>6, FS_Bijection DEF ExistsBijection, T, FirstOf
-----------------------------------------------------------------------------
(* The rows and their order.                                               *)

LEMMA RowsAre ==
    ASSUME Tab!TypeOK
    PROVE  /\ Len(message) \in Nat /\ DOMAIN message = 1..Len(message)
           /\ IsFiniteSet(DOMAIN message)
           /\ \A i \in DOMAIN message : message[i] \in Tab!Rows /\ message[i].sent \in Nat
<1>1. message \in Seq(Tab!Rows) /\ Len(message) \in Nat /\ DOMAIN message = 1..Len(message)
  BY DEF Tab!TypeOK
<1>2. IsFiniteSet(DOMAIN message)
  BY <1>1, FS_Interval
<1>3. \A i \in DOMAIN message : message[i] \in Tab!Rows
  BY <1>1
<1>4. \A r \in Tab!Rows : r.sent \in Nat
  BY Constants DEF Tab!Rows
<1> QED
  BY <1>1, <1>2, <1>3, <1>4

(* Without ties a row's place is how many are newer.                       *)
LEMMA Place ==
    ASSUME Tab!TypeOK, ~Tab!Tied, NEW C, C \subseteq DOMAIN message, NEW s,
             s \in Tab!Ordered(C),
           NEW n, n \in DOMAIN s
    PROVE  Cardinality(NewerIn(C, s[n])) = n - 1
<1> DEFINE T == {j \in C : message[j].sent > message[s[n]].sent}
           U == {s[i] : i \in 1..(n - 1)}
<1>1. IsFiniteSet(C)
  BY RowsAre, Subset
<1>2. /\ DOMAIN s = 1..Len(s) /\ Len(s) \in Nat
      /\ \A i, j \in DOMAIN s : s[i] = s[j] => i = j
      /\ \A i \in DOMAIN s : s[i] \in C
      /\ \A x \in C : \E i \in DOMAIN s : s[i] = x
  BY <1>1, SeqsAre DEF Tab!Ordered
<1>3. \A i, j \in DOMAIN s : i < j => message[s[i]].sent >= message[s[j]].sent
  BY DEF Tab!Ordered
<1>4. \A i \in C : i \in DOMAIN message /\ message[i].sent \in Nat
  BY RowsAre
<1>5. n \in Nat /\ n - 1 \in Nat /\ 1..(n - 1) \subseteq DOMAIN s
  BY <1>2
<1>6. ASSUME NEW i \in 1..(n - 1) PROVE s[i] \in T
  <2>1. i \in DOMAIN s /\ i < n /\ s[i] \in C /\ s[n] \in C /\ s[i] # s[n]
    BY <1>2, <1>5
  <2>2. message[s[i]].sent >= message[s[n]].sent
    BY <1>3, <2>1
  <2>3. message[s[i]].sent # message[s[n]].sent
    BY <1>4, <2>1 DEF Tab!Tied
  <2>4. message[s[i]].sent \in Nat /\ message[s[n]].sent \in Nat
    BY <1>4, <2>1
  <2> QED
    BY <2>1, <2>2, <2>3, <2>4
<1>7. ASSUME NEW j \in T PROVE j \in U
  <2>1. PICK i \in DOMAIN s : s[i] = j
    BY <1>2
  <2>2. message[s[i]].sent > message[s[n]].sent
    BY <2>1
  <2>3. message[s[i]].sent \in Nat /\ message[s[n]].sent \in Nat
    BY <1>2, <1>4
  <2>4. ~(n < i) /\ i # n
    BY <1>3, <2>2, <2>3
  <2>5. i \in 1..(n - 1)
    BY <1>2, <2>4
  <2> QED
    BY <2>1, <2>5
<1>8. T = U
  BY <1>6, <1>7
<1>9. Cardinality(U) = n - 1
  <2> DEFINE m == n - 1
  <2>1. m \in Nat /\ 1..m \subseteq DOMAIN s
    BY <1>5
  <2> HIDE DEF m
  <2>2. Cardinality(FirstOf(s, m)) = m
    BY <1>2, <2>1, FirstPlaces
  <2> QED
    BY <2>2 DEF m, FirstOf
<1> QED
  BY <1>8, <1>9 DEF NewerIn
-----------------------------------------------------------------------------
(* The steps that show nothing.                                            *)

(* Rows are only added.                                                    *)
Longer ==
    /\ Len(message) \in Nat /\ Len(message') \in Nat /\ Len(message) <= Len(message')
    /\ DOMAIN message = 1..Len(message) /\ DOMAIN message' = 1..Len(message')
    /\ \A i \in DOMAIN message : message'[i] = message[i]

LEMMA SameLonger == Tab!TypeOK /\ UNCHANGED message => Longer
BY RowsAre DEF Longer

LEMMA ReaderIs ==
    ASSUME TabIInv, reader # Tab!Closed
    PROVE  /\ reader.pc \in {"resting", "slice"} /\ reader.with \in People
           /\ reader.page \in Nat \ {0} /\ reader.offset \in Nat /\ reader.asked \in Nat
           /\ reader.base \in Nat /\ reader.base <= Len(message)
           /\ reader.shown \in Seq(Nat)
           /\ reader.asked <= reader.offset /\ reader.offset <= MaxMessages
           /\ reader.page = 1 => reader.offset = 0 /\ reader.base = 0 /\ reader.shown = <<>>
BY DEF TabIInv, ReaderType, PagesOK, Tab!TypeOK

LEMMA BaseStays ==
    ASSUME Longer, NEW i \in DOMAIN message, reader.base \in Nat, reader.base <= Len(message),
           reader'.base = reader.base, reader'.with = reader.with
    PROVE  Base' = Base /\ Ahead(i)' = Ahead(i)
<1>1. \A j \in DOMAIN message' : j <= reader.base => j \in DOMAIN message
  BY DEF Longer
<1>2. \A j \in DOMAIN message : j \in DOMAIN message' /\ message'[j] = message[j]
  BY DEF Longer
<1>3. Base' = Base
  BY <1>1, <1>2 DEF Base, Tab!Partner
<1>4. \A j \in Base : j \in DOMAIN message
  BY DEF Base
<1>5. Ahead(i)' = Ahead(i)
  BY <1>2, <1>3, <1>4 DEF Ahead, NewerIn
<1> QED
  BY <1>3, <1>5

LEMMA BaseIsBase ==
    ASSUME Longer, reader.base \in Nat, reader.base <= Len(message),
           reader'.base = reader.base, reader'.with = reader.with
    PROVE  Base' = Base
<1>1. \A j \in DOMAIN message' : j <= reader.base => j \in DOMAIN message
  BY DEF Longer
<1>2. \A j \in DOMAIN message : j \in DOMAIN message' /\ message'[j] = message[j]
  BY DEF Longer
<1> QED
  BY <1>1, <1>2 DEF Base, Tab!Partner

LEMMA TiedStays == ASSUME Longer, Tab!Tied PROVE Tab!Tied'
<1>a. PICK i \in DOMAIN message, j \in DOMAIN message :
          i # j /\ message[i].sent = message[j].sent
  BY DEF Tab!Tied
<1>1. i \in DOMAIN message' /\ j \in DOMAIN message'
      /\ message'[i] = message[i] /\ message'[j] = message[j]
  BY DEF Longer
<1> QED
  BY <1>a, <1>1 DEF Tab!Tied

LEMMA LateStays == ASSUME Longer, Tab!Late, reader'.base = reader.base PROVE Tab!Late'
<1>a. PICK i \in DOMAIN message, j \in DOMAIN message :
          i <= reader.base /\ reader.base < j /\ message[j].sent <= message[i].sent
  BY DEF Tab!Late
<1>1. i \in DOMAIN message' /\ j \in DOMAIN message'
      /\ message'[i] = message[i] /\ message'[j] = message[j]
  BY DEF Longer
<1> QED
  BY <1>a, <1>1 DEF Tab!Late

(* What was shown keeps its place.                                         *)
LEMMA ShownStays ==
    ASSUME TabIInv, Longer, UNCHANGED pageRow,
           reader # Tab!Closed => /\ reader'.base = reader.base /\ reader'.with = reader.with
                                  /\ reader'.shown = reader.shown /\ reader'.over = reader.over
                                  /\ reader'.missed = reader.missed,
           reader = Tab!Closed => reader' = Tab!Closed
    PROVE  ShownOK'
<1> SUFFICES ASSUME reader' # Tab!Closed, ~Tab!Late', ~Tab!Tied', ~reader'.missed,
                    \E p \in PageRows : pageRow' = {p}
             PROVE  InOrder' /\ (reader'.over => Base' \subseteq Tab!ToSet(reader'.shown))
  BY DEF ShownOK
<1>1. reader # Tab!Closed
  OBVIOUS
<1>2. ~Tab!Late /\ ~Tab!Tied
  BY <1>1, LateStays, TiedStays
<1>3. InOrder /\ (reader.over => Base \subseteq Tab!ToSet(reader.shown))
  BY <1>1, <1>2 DEF TabIInv, ShownOK
<1>4. Base' = Base
  BY <1>1, ReaderIs, BaseIsBase
<1>5. InOrder'
  <2>1. ASSUME NEW n \in DOMAIN reader.shown, NEW i, i = reader.shown[n]
        PROVE  i \in Base' /\ Cardinality(Ahead(i)') = n - 1
    <3>1. i \in Base /\ i \in DOMAIN message /\ Cardinality(Ahead(i)) = n - 1
      BY <1>3, <2>1 DEF InOrder, Base
    <3>2. Ahead(i)' = Ahead(i)
      BY <1>1, <3>1, ReaderIs, BaseStays
    <3> QED
      BY <1>4, <3>1, <3>2
  <2>2. reader'.shown = reader.shown
    BY <1>1
  <2> QED
    BY <2>1, <2>2 DEF InOrder
<1>6. reader'.over => Base' \subseteq Tab!ToSet(reader'.shown)
  BY <1>1, <1>3, <1>4
<1> QED
  BY <1>5, <1>6

LEMMA AfterFinite ==
    ASSUME Tab!TypeOK
    PROVE  /\ IsFiniteSet(After) /\ IsFiniteSet(After \intersect unsent)
           /\ Cardinality(After) \in Nat /\ Cardinality(After \intersect unsent) \in Nat
           /\ Cardinality(After) <= Len(message)
<1>1. After \subseteq DOMAIN message
  BY DEF After
<1>2. IsFiniteSet(After) /\ Cardinality(After) <= Cardinality(DOMAIN message)
      /\ Cardinality(After) \in Nat
  BY <1>1, RowsAre, Subset
<1>3. Cardinality(DOMAIN message) = Len(message)
  BY RowsAre, FS_Interval
<1>4. IsFiniteSet(After \intersect unsent) /\ Cardinality(After \intersect unsent) \in Nat
  BY <1>2, Subset
<1> QED
  BY <1>2, <1>3, <1>4

LEMMA TabInitIInv == Tab!Init => TabIInv
<1> SUFFICES ASSUME Tab!Init PROVE TabIInv
  OBVIOUS
<1>1. message = <<>> /\ Len(message) = 0 /\ DOMAIN message = {} /\ message \in Seq(Tab!Rows)
  BY DEF Tab!Init
<1>0. unsent = {} /\ reader = Tab!Closed
  BY DEF Tab!Init
<1>2. Tab!TypeOK
  <2>1. Len(message) <= MaxMessages
    BY <1>1, Constants
  <2>2. pageRow \subseteq PageRows /\ pageRow # {}
    <3>1. pageRow \in (SUBSET PageRows) \ {{}}
      BY DEF Tab!Init
    <3> QED
      BY <3>1
  <2> QED
    BY <1>0, <1>1, <2>1, <2>2 DEF Tab!TypeOK
<1>3. RowsOK /\ ReaderType /\ PagesOK /\ HeardOK /\ ShownOK
  BY <1>0, <1>1 DEF RowsOK, ReaderType, PagesOK, HeardOK, ShownOK
<1> QED
  BY <1>2, <1>3 DEF TabIInv

LEMMA TabCreateIInv ==
    ASSUME TabIInv, NEW r \in Tab!Rows, Tab!Create(r)
    PROVE  TabIInv'
<1> DEFINE n == Len(message) + 1
<1>1. /\ Len(message) < MaxMessages
      /\ {r.from, r.to} \subseteq People \union pageRow
      /\ UNCHANGED <<pageRow, reader>>
  BY DEF Tab!Create
<1>2. message' = Append(message, r)
  BY DEF Tab!Create
<1>3. message \in Seq(Tab!Rows) /\ Len(message) \in Nat /\ DOMAIN message = 1..Len(message)
  BY RowsAre DEF TabIInv, Tab!TypeOK
<1>4. message' \in Seq(Tab!Rows)
  BY <1>2, <1>3
<1>5. Len(message') = n
  BY <1>2, <1>3
<1>6. \A i \in 1..Len(message) : message'[i] = message[i]
  BY <1>2, <1>3
<1>7. message'[n] = r
  BY <1>2, <1>3
<1>8. DOMAIN message' = 1..n
  BY <1>4, <1>5
<1>9. unsent' = unsent \union {n}
  BY <1>5 DEF Tab!Create
<1>10. Longer
  BY <1>3, <1>5, <1>6, <1>8 DEF Longer
<1>11. Tab!TypeOK'
  <2>1. Len(message') <= MaxMessages
    BY <1>1, <1>3, <1>5, Constants
  <2>2. unsent' \subseteq DOMAIN message' /\ DOMAIN message \subseteq DOMAIN message'
    BY <1>3, <1>8, <1>9 DEF TabIInv, Tab!TypeOK
  <2> QED
    BY <1>1, <1>4, <2>1, <2>2 DEF TabIInv, Tab!TypeOK
<1>12. RowsOK'
  <2>1. ASSUME NEW i \in DOMAIN message'
        PROVE  {message'[i].from, message'[i].to} \subseteq People \union pageRow
    <3>1. CASE i = n
      BY <1>1, <1>7, <3>1
    <3>2. CASE i # n
      BY <1>3, <1>6, <1>8, <3>2 DEF TabIInv, RowsOK
    <3> QED
      BY <3>1, <3>2
  <2> QED
    BY <1>1, <2>1 DEF RowsOK
<1>13. ReaderType' /\ PagesOK'
  BY <1>1, <1>3, <1>5, ReaderIs DEF TabIInv, ReaderType, PagesOK
<1>14. HeardOK'
  <2> SUFFICES ASSUME reader # Tab!Closed, reader.page > 1
               PROVE  reader.offset + Cardinality((After \intersect unsent)')
                          <= Cardinality(After')
    BY <1>1 DEF HeardOK
  <2>1. /\ reader.offset + Cardinality(After \intersect unsent) <= Cardinality(After)
        /\ reader.offset \in Nat /\ reader.base \in Nat /\ reader.base <= Len(message)
    BY ReaderIs DEF TabIInv, HeardOK
  <2>2. n \notin After /\ n \notin unsent
    BY <1>3 DEF After, TabIInv, Tab!TypeOK
  <2>3. /\ IsFiniteSet(After) /\ IsFiniteSet(After \intersect unsent)
        /\ Cardinality(After) \in Nat /\ Cardinality(After \intersect unsent) \in Nat
    BY AfterFinite DEF TabIInv
  <2>4. CASE Tab!Partner(r) = reader.with
    <3>1. After' = After \union {n}
      BY <1>1, <1>3, <1>6, <1>7, <1>8, <2>1, <2>4 DEF After, Tab!Partner
    <3>2. (After \intersect unsent)' = (After \intersect unsent) \union {n}
      BY <1>9, <2>2, <3>1
    <3>3. Cardinality(After \union {n}) = Cardinality(After) + 1
      BY <2>2, <2>3, FS_AddElement
    <3>4. Cardinality((After \intersect unsent) \union {n})
              = Cardinality(After \intersect unsent) + 1
      BY <2>2, <2>3, FS_AddElement
    <3>5. Cardinality(After') = Cardinality(After) + 1
      BY <3>1, <3>3
    <3>6. Cardinality((After \intersect unsent)') = Cardinality(After \intersect unsent) + 1
      BY <3>2, <3>4
    <3> QED
      BY <2>1, <2>3, <3>5, <3>6
  <2>5. CASE Tab!Partner(r) # reader.with
    <3>1. After' = After
      BY <1>1, <1>3, <1>6, <1>7, <1>8, <2>1, <2>5 DEF After, Tab!Partner
    <3>2. (After \intersect unsent)' = After \intersect unsent
      BY <1>9, <2>2, <3>1
    <3> QED
      BY <2>1, <3>1, <3>2
  <2> QED
    BY <2>4, <2>5
<1>15. ShownOK'
  BY <1>1, <1>10, ShownStays
<1> QED
  BY <1>11, <1>12, <1>13, <1>14, <1>15 DEF TabIInv

LEMMA TabSendMessageIInv ==
    ASSUME TabIInv, NEW i \in unsent, Tab!SendMessage(i)
    PROVE  TabIInv'
<1>1. /\ unsent' = unsent \ {i} /\ UNCHANGED <<message, pageRow>>
      /\ reader' = IF Tab!Counts(i) THEN [reader EXCEPT !.offset = @ + 1] ELSE reader
  BY DEF Tab!SendMessage
<1>2. /\ IsFiniteSet(After) /\ IsFiniteSet(After \intersect unsent)
      /\ Cardinality(After) \in Nat /\ Cardinality(After \intersect unsent) \in Nat
      /\ Cardinality(After) <= Len(message)
  BY AfterFinite DEF TabIInv
<1>3. Longer
  BY <1>1, SameLonger DEF TabIInv
<1>4. RowsOK'
  BY <1>1 DEF TabIInv, RowsOK
<1>5. CASE ~Tab!Counts(i)
  <2>1. reader' = reader
    BY <1>1, <1>5
  <2>2. Tab!TypeOK'
    BY <1>1, <2>1 DEF TabIInv, Tab!TypeOK
  <2>3. ReaderType' /\ PagesOK'
    BY <1>1, <2>1 DEF TabIInv, ReaderType, PagesOK
  <2>4. HeardOK'
    <3>1. After' = After
      BY <1>1, <2>1 DEF After, Tab!Partner
    <3>2. (After \intersect unsent)' \subseteq After \intersect unsent
      BY <1>1, <3>1
    <3>3. Cardinality((After \intersect unsent)') <= Cardinality(After \intersect unsent)
          /\ Cardinality((After \intersect unsent)') \in Nat
      BY <1>2, <3>2, Subset
    <3>4. reader # Tab!Closed => reader.offset \in Nat
      BY ReaderIs
    <3> QED
      BY <1>2, <2>1, <3>1, <3>3, <3>4 DEF TabIInv, HeardOK
  <2>5. ShownOK'
    BY <1>1, <1>3, <2>1, ShownStays
  <2> QED
    BY <1>4, <2>2, <2>3, <2>4, <2>5 DEF TabIInv
<1>6. CASE Tab!Counts(i)
  <2>1. /\ reader # Tab!Closed /\ reader.page > 1 /\ i \in After \intersect unsent
    BY <1>6 DEF Tab!Counts, After, TabIInv, Tab!TypeOK
  <2>2. reader \in [pc : {"resting", "slice"}, with : People, page : Nat \ {0}, offset : Nat,
                    own : People \union PageRows, asked : Nat, shown : Seq(Nat), base : Nat,
                    missed : BOOLEAN, over : BOOLEAN]
    BY <2>1 DEF TabIInv, ReaderType
  <2>3. reader' = [reader EXCEPT !.offset = @ + 1]
    BY <1>1, <1>6
  <2>4. reader' \in [pc : {"resting", "slice"}, with : People, page : Nat \ {0}, offset : Nat,
                     own : People \union PageRows, asked : Nat, shown : Seq(Nat), base : Nat,
                     missed : BOOLEAN, over : BOOLEAN]
    <3> DEFINE k == reader.offset + 1
    <3>1. k \in Nat /\ reader' = [reader EXCEPT !.offset = k]
      BY <2>2, <2>3
    <3> HIDE DEF k
    <3> QED
      BY <2>2, <3>1
  <2>5. /\ reader'.pc = reader.pc /\ reader'.with = reader.with /\ reader'.page = reader.page
        /\ reader'.own = reader.own /\ reader'.asked = reader.asked
        /\ reader'.shown = reader.shown /\ reader'.base = reader.base
        /\ reader'.missed = reader.missed /\ reader'.over = reader.over
    BY <2>2, <2>3
  <2>6. reader'.offset = reader.offset + 1
    BY <2>2, <2>3
  <2>7. After' = After
    BY <1>1, <2>5 DEF After, Tab!Partner
  <2>8. (After \intersect unsent)' = (After \intersect unsent) \ {i}
    BY <1>1, <2>7
  <2>9. Cardinality((After \intersect unsent)') = Cardinality(After \intersect unsent) - 1
    <3>1. Cardinality((After \intersect unsent) \ {i})
              = Cardinality(After \intersect unsent) - 1
      BY <1>2, <2>1, FS_RemoveElement
    <3> QED
      BY <2>8, <3>1
  <2>10. reader.offset + Cardinality(After \intersect unsent) <= Cardinality(After)
    BY <2>1 DEF TabIInv, HeardOK
  <2>11. Cardinality(After \intersect unsent) # 0
    BY <1>2, <2>1, FS_EmptySet
  <2>12. reader.offset \in Nat /\ reader.asked \in Nat /\ reader.asked <= reader.offset
         /\ reader.page \in Nat
    BY <2>1, ReaderIs
  <2>13. reader'.offset <= MaxMessages
    <3>1. Len(message) \in Nat /\ Len(message) <= MaxMessages /\ MaxMessages \in Nat
      BY RowsAre, Constants DEF TabIInv, Tab!TypeOK
    <3> QED
      BY <1>2, <2>6, <2>10, <2>11, <2>12, <3>1
  <2>14. reader'.asked <= reader'.offset
    BY <2>5, <2>6, <2>12
  <2>15. Tab!TypeOK'
    BY <1>1, <2>1, <2>5, <2>13, <2>14 DEF TabIInv, Tab!TypeOK
  <2>16. ReaderType'
    BY <2>4 DEF ReaderType
  <2>17. PagesOK'
    <3>1. reader'.page # 1
      BY <2>1, <2>5, <2>12
    <3> QED
      BY <1>1, <2>1, <2>5, <3>1 DEF TabIInv, PagesOK
  <2>18. HeardOK'
    <3>1. reader'.offset + Cardinality((After \intersect unsent)') <= Cardinality(After')
      BY <1>2, <2>6, <2>7, <2>9, <2>10, <2>12
    <3> QED
      BY <3>1 DEF HeardOK
  <2>19. ShownOK'
    BY <1>1, <1>3, <2>1, <2>5, ShownStays
  <2> QED
    BY <1>4, <2>15, <2>16, <2>17, <2>18, <2>19 DEF TabIInv
<1> QED
  BY <1>5, <1>6

LEMMA TabReplyFailsIInv ==
    ASSUME TabIInv, NEW i \in unsent, Tab!ReplyFails(i)
    PROVE  TabIInv'
<1>1. unsent' = unsent \ {i} /\ UNCHANGED <<message, pageRow, reader>>
  BY DEF Tab!ReplyFails
<1>2. /\ IsFiniteSet(After) /\ IsFiniteSet(After \intersect unsent)
      /\ Cardinality(After) \in Nat /\ Cardinality(After \intersect unsent) \in Nat
  BY AfterFinite DEF TabIInv
<1>3. Tab!TypeOK' /\ RowsOK'
  BY <1>1 DEF TabIInv, Tab!TypeOK, RowsOK
<1>4. ReaderType' /\ PagesOK'
  BY <1>1 DEF TabIInv, ReaderType, PagesOK
<1>5. HeardOK'
  <2>1. After' = After
    BY <1>1 DEF After, Tab!Partner
  <2>2. (After \intersect unsent)' \subseteq After \intersect unsent
    BY <1>1, <2>1
  <2>3. Cardinality((After \intersect unsent)') <= Cardinality(After \intersect unsent)
        /\ Cardinality((After \intersect unsent)') \in Nat
    BY <1>2, <2>2, Subset
  <2>4. reader # Tab!Closed => reader.offset \in Nat
    BY ReaderIs
  <2> QED
    BY <1>1, <1>2, <2>1, <2>3, <2>4 DEF TabIInv, HeardOK
<1>6. ShownOK'
  BY <1>1, SameLonger, ShownStays DEF TabIInv
<1> QED
  BY <1>3, <1>4, <1>5, <1>6 DEF TabIInv

LEMMA TabOpenIInv ==
    ASSUME TabIInv, NEW u \in People, Tab!Open(u)
    PROVE  TabIInv'
<1>1. /\ UNCHANGED <<message, pageRow, unsent>>
      /\ reader' = [pc |-> "resting", with |-> u, page |-> 1, offset |-> 0, own |-> u,
                    asked |-> 0, shown |-> <<>>, base |-> 0, missed |-> FALSE, over |-> FALSE]
  BY DEF Tab!Open
<1>2. /\ reader'.pc = "resting" /\ reader'.with = u /\ reader'.page = 1
      /\ reader'.offset = 0 /\ reader'.asked = 0 /\ reader'.shown = <<>>
      /\ reader'.base = 0 /\ reader'.over = FALSE
  BY <1>1
<1>3. Len(<<>>) = 0 /\ DOMAIN <<>> = {} /\ <<>> \in Seq(Nat)
  OBVIOUS
<1>4. Len(message) \in Nat /\ MaxMessages \in Nat /\ Size \in Nat
  BY RowsAre, Constants DEF TabIInv
<1>5. Tab!ToSet(reader'.shown) = {}
  BY <1>2, <1>3 DEF Tab!ToSet
<1>6. Tab!TypeOK'
  BY <1>1, <1>2, <1>4, <1>5 DEF TabIInv, Tab!TypeOK
<1>7. RowsOK'
  BY <1>1 DEF TabIInv, RowsOK
<1>8. ReaderType'
  <2>1. reader' \in [pc : {"resting", "slice"}, with : People, page : Nat \ {0}, offset : Nat,
                     own : People \union PageRows, asked : Nat, shown : Seq(Nat), base : Nat,
                     missed : BOOLEAN, over : BOOLEAN]
    BY <1>1, <1>3
  <2> QED
    BY <2>1 DEF ReaderType
<1>9. PagesOK'
  <2>1. Len(reader'.shown) = (reader'.page - 1) * Size
    BY <1>2, <1>3, <1>4
  <2> QED
    BY <1>1, <1>2, <1>4, <2>1 DEF PagesOK
<1>10. HeardOK'
  BY <1>2 DEF HeardOK
<1>11. ShownOK'
  BY <1>2, <1>3 DEF ShownOK, InOrder
<1> QED
  BY <1>6, <1>7, <1>8, <1>9, <1>10, <1>11 DEF TabIInv

LEMMA TabAskIInv ==
    ASSUME TabIInv, Tab!Ask
    PROVE  TabIInv'
<1>a. PICK own \in Tab!FindSender :
          reader' = [reader EXCEPT !.pc = "slice", !.asked = reader.offset, !.own = own]
  BY DEF Tab!Ask
<1>1. /\ UNCHANGED <<message, pageRow, unsent>> /\ reader # Tab!Closed /\ ~reader.over
      /\ own \in pageRow
  BY <1>a DEF Tab!Ask, Tab!FindSender
<1>2. reader \in [pc : {"resting", "slice"}, with : People, page : Nat \ {0}, offset : Nat,
                  own : People \union PageRows, asked : Nat, shown : Seq(Nat), base : Nat,
                  missed : BOOLEAN, over : BOOLEAN]
  BY <1>1 DEF TabIInv, ReaderType
<1>3. own \in PageRows
  BY <1>1 DEF TabIInv, Tab!TypeOK
<1>4. reader' \in [pc : {"resting", "slice"}, with : People, page : Nat \ {0}, offset : Nat,
                   own : People \union PageRows, asked : Nat, shown : Seq(Nat), base : Nat,
                   missed : BOOLEAN, over : BOOLEAN]
  BY <1>a, <1>2, <1>3
<1>5. /\ reader'.pc = "slice" /\ reader'.with = reader.with /\ reader'.page = reader.page
      /\ reader'.offset = reader.offset /\ reader'.asked = reader.offset
      /\ reader'.own = own /\ reader'.shown = reader.shown /\ reader'.base = reader.base
      /\ reader'.missed = reader.missed /\ reader'.over = reader.over
  BY <1>a, <1>2
<1>6. reader.offset \in Nat
  BY <1>2
<1>7. Tab!TypeOK'
  BY <1>1, <1>5, <1>6 DEF TabIInv, Tab!TypeOK
<1>8. RowsOK'
  BY <1>1 DEF TabIInv, RowsOK
<1>9. ReaderType'
  BY <1>4 DEF ReaderType
<1>10. PagesOK'
  BY <1>1, <1>5 DEF TabIInv, PagesOK
<1>11. HeardOK'
  <2>1. After' = After
    BY <1>1, <1>5 DEF After, Tab!Partner
  <2>2. (After \intersect unsent)' = After \intersect unsent
    BY <1>1, <2>1
  <2> QED
    BY <1>1, <1>5, <2>1, <2>2 DEF TabIInv, HeardOK
<1>12. ShownOK'
  BY <1>1, <1>5, SameLonger, ShownStays DEF TabIInv
<1> QED
  BY <1>7, <1>8, <1>9, <1>10, <1>11, <1>12 DEF TabIInv

LEMMA TabCloseIInv ==
    ASSUME TabIInv, Tab!Close
    PROVE  TabIInv'
<1>1. UNCHANGED <<message, pageRow, unsent>> /\ reader' = Tab!Closed
  BY DEF Tab!Close
<1>2. Tab!TypeOK' /\ RowsOK'
  BY <1>1 DEF TabIInv, Tab!TypeOK, RowsOK
<1>3. ReaderType' /\ PagesOK' /\ HeardOK' /\ ShownOK'
  BY <1>1 DEF ReaderType, PagesOK, HeardOK, ShownOK
<1> QED
  BY <1>2, <1>3 DEF TabIInv
-----------------------------------------------------------------------------
(* The slice of a page.                                                    *)

LEMMA OwnConversation ==
    ASSUME TabIInv, NEW p \in PageRows, pageRow = {p}, NEW u \in People
    PROVE  Tab!InConversation(p, u) = {i \in DOMAIN message : Tab!Partner(message[i]) = u}
<1>1. ASSUME NEW i \in DOMAIN message
      PROVE  (\/ message[i].from = p /\ message[i].to = u
              \/ message[i].from = u /\ message[i].to = p) <=> Tab!Partner(message[i]) = u
  <2>1. \/ message[i].from \in People /\ message[i].to \in PageRows
        \/ message[i].from \in PageRows /\ message[i].to \in People
    BY RowsAre DEF Tab!Rows, TabIInv
  <2>2. {message[i].from, message[i].to} \subseteq People \union {p}
    BY DEF TabIInv, RowsOK
  <2>3. People \intersect PageRows = {}
    BY Constants
  <2> QED
    BY <2>1, <2>2, <2>3 DEF Tab!Partner
<1> QED
  BY <1>1 DEF Tab!InConversation

LEMMA NewerFinite ==
    ASSUME Tab!TypeOK, NEW S, S \subseteq DOMAIN message, NEW i
    PROVE  IsFiniteSet(S) /\ Cardinality(S) \in Nat
           /\ IsFiniteSet(NewerIn(S, i)) /\ Cardinality(NewerIn(S, i)) \in Nat
BY RowsAre, Subset DEF NewerIn

(* What is newer than all of B takes the first places.                     *)
LEMMA PlaceBelow ==
    ASSUME Tab!TypeOK, ~Tab!Tied, NEW C, C \subseteq DOMAIN message, NEW s,
             s \in Tab!Ordered(C),
           NEW B, B \subseteq C,
           \A i \in B, j \in C \ B : message[j].sent > message[i].sent,
           NEW n, n \in DOMAIN s
    PROVE  /\ s[n] \in B =>
                  n - 1 = Cardinality(C \ B) + Cardinality(NewerIn(B, s[n]))
           /\ s[n] \notin B => n <= Cardinality(C \ B)
<1> DEFINE N == C \ B
           i == s[n]
<1>1. IsFiniteSet(C) /\ IsFiniteSet(N) /\ Cardinality(N) \in Nat
  BY NewerFinite
<1>2. /\ i \in C /\ n \in Nat /\ i \in DOMAIN message
  BY <1>1, SeqsAre DEF Tab!Ordered
<1>3. Cardinality(NewerIn(C, i)) = n - 1
  BY Place
<1>4. \A j \in C : j \in DOMAIN message /\ message[j].sent \in Nat
  BY RowsAre
<1> HIDE DEF i
<1>5. ASSUME i \in B PROVE n - 1 = Cardinality(N) + Cardinality(NewerIn(B, i))
  <2>1. NewerIn(C, i) = N \union NewerIn(B, i)
    BY <1>5 DEF NewerIn
  <2>2. N \intersect NewerIn(B, i) = {}
    BY DEF NewerIn
  <2>3. IsFiniteSet(NewerIn(B, i)) /\ Cardinality(NewerIn(B, i)) \in Nat
    BY NewerFinite
  <2> HIDE DEF N
  <2>4. Cardinality(N \union NewerIn(B, i))
            = Cardinality(N) + Cardinality(NewerIn(B, i)) - Cardinality({})
    BY <1>1, <2>2, <2>3, FS_Union
  <2> QED
    BY <1>1, <1>3, <2>1, <2>3, <2>4, FS_EmptySet
<1>6. ASSUME i \notin B PROVE n <= Cardinality(N)
  <2>1. i \in N
    BY <1>2, <1>6
  <2>2. ASSUME NEW j \in NewerIn(C, i) PROVE j \in N
    <3>1. j \in C /\ message[j].sent > message[i].sent
      BY DEF NewerIn
    <3>2. CASE j \in B
      <4>1. message[i].sent > message[j].sent
        BY <2>1, <3>2
      <4> QED
        BY <1>2, <1>4, <3>1, <4>1
    <3> QED
      BY <3>1, <3>2
  <2>3. i \notin NewerIn(C, i)
    BY <1>2, <1>4 DEF NewerIn
  <2> HIDE DEF N
  <2>4. NewerIn(C, i) \subseteq N
    BY <2>2
  <2>5. Cardinality(NewerIn(C, i)) < Cardinality(N)
    BY <1>1, <2>1, <2>3, <2>4, Smaller
  <2> QED
    BY <1>1, <1>2, <1>3, <2>5
<1> QED
  BY <1>5, <1>6 DEF i

LEMMA PlaceIsItsOwn ==
    ASSUME Tab!TypeOK, ~Tab!Tied, NEW B, B \subseteq DOMAIN message, NEW i \in B, NEW j \in B,
           Cardinality(NewerIn(B, i)) = Cardinality(NewerIn(B, j))
    PROVE  i = j
<1>1. \A k \in B : k \in DOMAIN message /\ message[k].sent \in Nat
  BY RowsAre
<1>2. ASSUME NEW x \in B, NEW y \in B, message[x].sent > message[y].sent
      PROVE  Cardinality(NewerIn(B, x)) < Cardinality(NewerIn(B, y))
  <2>1. NewerIn(B, x) \subseteq NewerIn(B, y)
    BY <1>1, <1>2 DEF NewerIn
  <2>2. x \in NewerIn(B, y) /\ x \notin NewerIn(B, x)
    BY <1>1, <1>2 DEF NewerIn
  <2> QED
    BY <2>1, <2>2, NewerFinite, Smaller
<1>3. /\ Cardinality(NewerIn(B, i)) \in Nat /\ Cardinality(NewerIn(B, j)) \in Nat
  BY NewerFinite
<1>4. i # j => message[i].sent # message[j].sent
  BY <1>1 DEF Tab!Tied
<1> QED
  BY <1>1, <1>2, <1>3, <1>4

(* The end of the slice that starts after skip.                            *)
EndOf(skip, L) == IF skip + Size < L THEN skip + Size ELSE L

Slice(s, skip) == SubSeq(s, skip + 1, EndOf(skip, Len(s)))

LEMMA SliceIs ==
    ASSUME NEW s \in Seq(Nat), NEW skip \in Nat
    PROVE  /\ Slice(s, skip) \in Seq(Nat) /\ Len(Slice(s, skip)) \in Nat
           /\ Len(Slice(s, skip)) <= Size
           /\ Len(Slice(s, skip)) < Size /\ skip < Len(s) =>
                  Len(Slice(s, skip)) = Len(s) - skip
           /\ \A m \in 1..Len(Slice(s, skip)) :
                  skip + m \in 1..Len(s) /\ Slice(s, skip)[m] = s[skip + m]
<1> DEFINE L == Len(s)
           a == skip + 1
           b == EndOf(skip, L)
           slice == SubSeq(s, a, b)
<1>1. L \in Nat /\ Size \in Nat /\ DOMAIN s = 1..L
  BY Constants
<1>4. a = skip + 1 /\ (skip + Size < L => b = skip + Size) /\ (~(skip + Size < L) => b = L)
  BY DEF EndOf
<1>s. Slice(s, skip) = slice
  BY DEF Slice
<1> HIDE DEF L, a, b
<1>2. a \in Int /\ b \in Int /\ \A i \in a..b : i \in 1..L
  BY <1>1, <1>4
<1>3. \A i \in a..b : s[i] \in Nat
  BY <1>1, <1>2
<1>5. /\ slice \in Seq(Nat) /\ Len(slice) = IF a <= b THEN b - a + 1 ELSE 0
      /\ \A i \in 1..(b - a + 1) : slice[i] = s[a + i - 1]
  BY <1>2, <1>3, SubSeqProperties
<1> HIDE DEF slice
<1>6. Len(slice) \in Nat /\ Len(slice) <= Size
  BY <1>1, <1>2, <1>4, <1>5
<1>7. Len(slice) < Size /\ skip < L => Len(slice) = L - skip
  BY <1>1, <1>2, <1>4, <1>5
<1>8. ASSUME NEW m \in 1..Len(slice) PROVE skip + m \in 1..L /\ slice[m] = s[skip + m]
  <2>1. m \in 1..(b - a + 1) /\ a + m - 1 = skip + m /\ a + m - 1 \in a..b
    BY <1>1, <1>2, <1>4, <1>5
  <2> QED
    BY <1>1, <1>2, <1>5, <2>1
<1> QED
  BY <1>s, <1>5, <1>6, <1>7, <1>8 DEF L

(* Counting places: f is the place in B, s the order of all, of which k are *)
(* before B; t is what was shown and the slice after it.                   *)
Counting(B, f, s, L, k, q, t, skip, z) ==
    /\ L \in Nat /\ k \in Nat /\ q \in Nat /\ z \in Nat /\ skip = q + k
    /\ \A i \in B : f[i] \in Nat
    /\ \A i, j \in B : f[i] = f[j] => i = j
    /\ \A i \in B : \E n \in 1..L : s[n] = i
    /\ \A n \in 1..L : s[n] \in B => n - 1 = k + f[s[n]]
    /\ \A n \in 1..L : s[n] \notin B => n <= k
    /\ \A n \in 1..q : t[n] \in B /\ f[t[n]] = n - 1
    /\ \A m \in 1..z : skip + m \in 1..L /\ t[q + m] = s[skip + m]

LEMMA TabCounted ==
    ASSUME NEW B, NEW f, NEW s, NEW L, NEW k, NEW q, NEW t, NEW skip, NEW z,
           Counting(B, f, s, L, k, q, t, skip, z)
    PROVE  /\ \A n \in 1..(q + z) : t[n] \in B /\ f[t[n]] = n - 1
           /\ (skip < L => z = L - skip) => \A i \in B : \E n \in 1..(q + z) : t[n] = i
<1> USE DEF Counting
<1>1. ASSUME NEW n \in 1..(q + z) PROVE t[n] \in B /\ f[t[n]] = n - 1
  <2>1. CASE n \in 1..q
    BY <2>1
  <2>2. CASE n \notin 1..q
    <3>a. PICK m \in 1..z : n = q + m
      <4>1. n - q \in 1..z /\ n = q + (n - q)
        BY <2>2
      <4> QED
        BY <4>1
    <3>1. t[n] = s[skip + m] /\ skip + m \in 1..L
      BY <3>a
    <3>2. ~(skip + m <= k)
      OBVIOUS
    <3>3. t[n] \in B
      BY <3>1, <3>2
    <3>4. (skip + m) - 1 = k + f[t[n]] /\ f[t[n]] \in Nat
      BY <3>1, <3>3
    <3> QED
      BY <3>a, <3>3, <3>4
  <2> QED
    BY <2>1, <2>2
<1>2. ASSUME skip < L => z = L - skip, NEW i \in B PROVE \E n \in 1..(q + z) : t[n] = i
  <2>1. PICK n \in 1..L : s[n] = i
    OBVIOUS
  <2>2. n - 1 = k + f[i] /\ f[i] \in Nat
    BY <2>1
  <2>3. CASE n > skip
    <3>1. n - skip \in 1..z /\ n = skip + (n - skip)
      BY <1>2, <2>3
    <3>2. PICK m \in 1..z : n = skip + m
      BY <3>1
    <3>3. t[q + m] = i /\ q + m \in 1..(q + z)
      BY <2>1, <3>2
    <3> QED
      BY <3>3
  <2>4. CASE ~(n > skip)
    <3>1. f[i] + 1 \in 1..q
      BY <2>2, <2>4
    <3>2. PICK r \in 1..q : r - 1 = f[i]
      BY <2>2, <3>1
    <3>3. t[r] \in B /\ f[t[r]] = f[i] /\ r \in 1..(q + z)
      BY <3>2
    <3> QED
      BY <3>3
  <2> QED
    BY <2>3, <2>4
<1> QED
  BY <1>1, <1>2

(* A slice after what was shown, element by element.                       *)
LEMMA Halves ==
    ASSUME NEW q \in Nat, NEW z \in Nat, NEW a, NEW b, NEW t,
           \A i \in 1..(q + z) : t[i] = IF i <= q THEN a[i] ELSE b[i - q]
    PROVE  (\A n \in 1..q : t[n] = a[n]) /\ (\A m \in 1..z : t[q + m] = b[m])
<1>1. ASSUME NEW n \in 1..q PROVE t[n] = a[n]
  <2>1. n \in 1..(q + z) /\ n <= q
    OBVIOUS
  <2> QED
    BY <2>1
<1>2. ASSUME NEW m \in 1..z PROVE t[q + m] = b[m]
  <2>1. q + m \in 1..(q + z) /\ ~(q + m <= q) /\ (q + m) - q = m
    OBVIOUS
  <2> QED
    BY <2>1
<1> QED
  BY <1>1, <1>2

LEMMA Joined ==
    ASSUME NEW a \in Seq(Nat), NEW b \in Seq(Nat)
    PROVE  /\ a \o b \in Seq(Nat) /\ DOMAIN (a \o b) = 1..(Len(a) + Len(b))
           /\ Len(a \o b) = Len(a) + Len(b)
           /\ \A n \in 1..Len(a) : (a \o b)[n] = a[n]
           /\ \A m \in 1..Len(b) : (a \o b)[Len(a) + m] = b[m]
<1> DEFINE q == Len(a)
           z == Len(b)
           t == a \o b
<1>1. q \in Nat /\ z \in Nat
  OBVIOUS
<1>2. t \in Seq(Nat) /\ Len(t) = q + z
  BY ConcatProperties
<1>3. \A i \in 1..(q + z) : t[i] = IF i <= q THEN a[i] ELSE b[i - q]
  BY ConcatProperties
<1>4. DOMAIN t = 1..(q + z)
  BY <1>2
<1> HIDE DEF q, z, t
<1>5. (\A n \in 1..q : t[n] = a[n]) /\ (\A m \in 1..z : t[q + m] = b[m])
  BY <1>1, <1>3, Halves
<1> QED
  BY <1>2, <1>4, <1>5 DEF q, z, t

LEMMA OrderedIs ==
    ASSUME Tab!TypeOK, NEW C, C \subseteq DOMAIN message, NEW s, s \in Tab!Ordered(C)
    PROVE  /\ s \in Seq(Nat) /\ Len(s) \in Nat /\ DOMAIN s = 1..Len(s)
           /\ \A i \in DOMAIN s : s[i] \in C
           /\ \A x \in C : \E i \in DOMAIN s : s[i] = x
<1>1. IsFiniteSet(C) /\ s \in Tab!SetToSeqs(C)
  BY NewerFinite DEF Tab!Ordered
<1>2. /\ s \in Seq(C) /\ DOMAIN s = 1..Len(s)
      /\ \A i \in DOMAIN s : s[i] \in C
      /\ \A x \in C : \E i \in DOMAIN s : s[i] = x
  BY <1>1, SeqsAre
<1>3. C \subseteq Nat
  BY RowsAre
<1> DEFINE L == Len(s)
<1>4. L \in Nat /\ s \in [1..L -> C]
  BY <1>2
<1> HIDE DEF L
<1>5. s \in [1..L -> Nat]
  BY <1>3, <1>4
<1>6. s \in Seq(Nat)
  BY <1>4, <1>5
<1> QED
  BY <1>2, <1>4, <1>6 DEF L

(* The slice goes on where the last page ended, and a page that is not     *)
(* full has the rest: C are the rows of the conversation, B those of its   *)
(* first page, k the newer ones, t what was shown with the slice.          *)
GoingOn(C, B, s, k, q, t, skip, z) ==
    /\ C \subseteq DOMAIN message /\ s \in Tab!Ordered(C) /\ B \subseteq C
    /\ \A i \in B, j \in C \ B : message[j].sent > message[i].sent
    /\ k \in Nat /\ Cardinality(C \ B) = k /\ q \in Nat /\ skip = q + k /\ z \in Nat
    /\ \A n \in 1..q : t[n] \in B /\ Cardinality(NewerIn(B, t[n])) = n - 1
    /\ \A m \in 1..z : skip + m \in 1..Len(s) /\ t[q + m] = s[skip + m]

LEMMA GoesOn ==
    ASSUME Tab!TypeOK, ~Tab!Tied, NEW C, NEW B, NEW s, NEW k, NEW q, NEW t, NEW skip, NEW z,
           GoingOn(C, B, s, k, q, t, skip, z)
    PROVE  /\ \A n \in 1..(q + z) : t[n] \in B /\ Cardinality(NewerIn(B, t[n])) = n - 1
           /\ (skip < Len(s) => z = Len(s) - skip) =>
                  \A i \in B : \E n \in 1..(q + z) : t[n] = i
<1> USE DEF GoingOn
<1> DEFINE L == Len(s)
<1>1. /\ L \in Nat /\ DOMAIN s = 1..L
      /\ \A i \in DOMAIN s : s[i] \in C
      /\ \A x \in C : \E i \in DOMAIN s : s[i] = x
  BY OrderedIs
<1>2. ASSUME NEW n \in 1..L
      PROVE  /\ s[n] \in B => n - 1 = k + Cardinality(NewerIn(B, s[n]))
             /\ s[n] \notin B => n <= k
  <2>1. n \in DOMAIN s
    BY <1>1
  <2>2. /\ s[n] \in B => n - 1 = Cardinality(C \ B) + Cardinality(NewerIn(B, s[n]))
        /\ s[n] \notin B => n <= Cardinality(C \ B)
    BY <2>1, PlaceBelow
  <2> QED
    BY <2>2
<1>3. \A i \in B : Cardinality(NewerIn(B, i)) \in Nat
  BY NewerFinite
<1>4. \A m \in 1..z : skip + m \in 1..L /\ t[q + m] = s[skip + m]
  OBVIOUS
<1> HIDE DEF L
<1> DEFINE f == [i \in B |-> Cardinality(NewerIn(B, i))]
<1>6. \A i \in B : f[i] = Cardinality(NewerIn(B, i))
  OBVIOUS
<1> HIDE DEF f
<1>7. \A i \in B : f[i] \in Nat
  BY <1>3, <1>6
<1>8. \A i, j \in B : f[i] = f[j] => i = j
  <2> SUFFICES ASSUME NEW i \in B, NEW j \in B, f[i] = f[j] PROVE i = j
    OBVIOUS
  <2>1. Cardinality(NewerIn(B, i)) = Cardinality(NewerIn(B, j))
    BY <1>6
  <2>2. B \subseteq DOMAIN message
    OBVIOUS
  <2> QED
    BY <2>1, <2>2, PlaceIsItsOwn
<1>9. \A i \in B : \E n \in 1..L : s[n] = i
  BY <1>1
<1>10. \A n \in 1..L : s[n] \in B => n - 1 = k + f[s[n]]
  BY <1>2, <1>6
<1>11. \A n \in 1..L : s[n] \notin B => n <= k
  BY <1>2
<1>12. \A n \in 1..q : t[n] \in B /\ f[t[n]] = n - 1
  BY <1>6
<1>15. Counting(B, f, s, L, k, q, t, skip, z)
  BY <1>1, <1>4, <1>7, <1>8, <1>9, <1>10, <1>11, <1>12 DEF Counting
<1>16. /\ \A n \in 1..(q + z) : t[n] \in B /\ f[t[n]] = n - 1
       /\ (skip < L => z = L - skip) => \A i \in B : \E n \in 1..(q + z) : t[n] = i
  BY <1>15, TabCounted
<1> QED
  BY <1>6, <1>16 DEF L

LEMMA SliceGoesOn ==
    ASSUME Tab!TypeOK, ~Tab!Tied, NEW C, C \subseteq DOMAIN message, NEW s,
             s \in Tab!Ordered(C),
           NEW B, B \subseteq C,
           \A i \in B, j \in C \ B : message[j].sent > message[i].sent,
           NEW k \in Nat, Cardinality(C \ B) = k, NEW shown \in Seq(Nat),
           \A n \in DOMAIN shown : shown[n] \in B /\ Cardinality(NewerIn(B, shown[n])) = n - 1,
           NEW skip, skip = Len(shown) + k, NEW slice, slice = Slice(s, skip)
    PROVE  /\ \A n \in DOMAIN (shown \o slice) :
                  /\ (shown \o slice)[n] \in B
                  /\ Cardinality(NewerIn(B, (shown \o slice)[n])) = n - 1
           /\ Len(slice) < Size => B \subseteq Tab!ToSet(shown \o slice)
<1> DEFINE z == Len(slice)
           q == Len(shown)
           t == shown \o slice
<1>1. s \in Seq(Nat)
  BY OrderedIs
<1>2. skip \in Nat /\ q \in Nat /\ DOMAIN shown = 1..q
  OBVIOUS
<1>4. /\ slice \in Seq(Nat) /\ z \in Nat
      /\ z < Size /\ skip < Len(s) => z = Len(s) - skip
      /\ \A m \in 1..z : skip + m \in 1..Len(s) /\ slice[m] = s[skip + m]
  BY <1>1, <1>2, SliceIs
<1>6. /\ DOMAIN t = 1..(q + z)
      /\ \A n \in 1..q : t[n] = shown[n]
      /\ \A m \in 1..z : t[q + m] = slice[m]
  BY <1>4, Joined
<1>3. skip = q + k
  OBVIOUS
<1> HIDE DEF z, q, t
<1>7. \A n \in 1..q : t[n] \in B /\ Cardinality(NewerIn(B, t[n])) = n - 1
  BY <1>2, <1>6
<1>8. \A m \in 1..z : skip + m \in 1..Len(s) /\ t[q + m] = s[skip + m]
  BY <1>4, <1>6
<1>9. GoingOn(C, B, s, k, q, t, skip, z)
  BY <1>2, <1>3, <1>4, <1>7, <1>8 DEF GoingOn
<1>10. /\ \A n \in 1..(q + z) : t[n] \in B /\ Cardinality(NewerIn(B, t[n])) = n - 1
       /\ (skip < Len(s) => z = Len(s) - skip) =>
              \A i \in B : \E n \in 1..(q + z) : t[n] = i
  BY <1>9, GoesOn
<1>12. z < Size => B \subseteq Tab!ToSet(t)
  BY <1>4, <1>6, <1>10 DEF Tab!ToSet
<1> QED
  BY <1>6, <1>10, <1>12 DEF z, t

-----------------------------------------------------------------------------
(* A page.                                                                 *)

(* The rows with the reader's partner up to row b.                         *)
UpTo(b) == {i \in DOMAIN message : i <= b /\ Tab!Partner(message[i]) = reader.with}

(* What a page adds, when nothing came between that it does not count.     *)
LEMMA Cut ==
    ASSUME TabIInv, reader # Tab!Closed, reader.pc = "slice", ~Tab!Tied,
           \E p \in PageRows : pageRow = {p},
           NEW b \in Nat,
           reader.page = 1 => b = Len(message), reader.page # 1 => b = reader.base,
           \A i, j \in DOMAIN message :
               i <= b /\ b < j => ~(message[j].sent <= message[i].sent),
           ~reader.missed, ~(reader.page > 1 /\ Cardinality(Tab!Newer) > reader.asked),
           NEW s, s \in Tab!Ordered(Tab!InConversation(reader.own, reader.with)),
           NEW t, t = reader.shown \o Slice(s, Tab!Skip)
    PROVE  /\ \A n \in DOMAIN t :
                t[n] \in UpTo(b) /\ Cardinality(NewerIn(UpTo(b), t[n])) = n - 1
           /\ Len(Slice(s, Tab!Skip)) < Size => UpTo(b) \subseteq Tab!ToSet(t)
<1> DEFINE C == Tab!InConversation(reader.own, reader.with)
           B == UpTo(b)
           k == reader.asked
           shown == reader.shown
           skip == Tab!Skip
<1>p. PICK p \in PageRows : pageRow = {p}
  OBVIOUS
<1>1. /\ reader.with \in People /\ reader.page \in Nat \ {0} /\ reader.offset \in Nat
      /\ reader.asked \in Nat /\ reader.base \in Nat /\ reader.base <= Len(message)
      /\ reader.shown \in Seq(Nat) /\ reader.asked <= reader.offset
      /\ reader.page = 1 => reader.offset = 0 /\ reader.base = 0 /\ reader.shown = <<>>
  BY ReaderIs
<1>2. reader.own = p /\ ~reader.over /\ Len(shown) = (reader.page - 1) * Size
  BY <1>p DEF TabIInv, Tab!TypeOK, PagesOK
<1>3. C = {i \in DOMAIN message : Tab!Partner(message[i]) = reader.with}
  BY <1>p, <1>1, <1>2, OwnConversation
<1>4. C \subseteq DOMAIN message /\ B \subseteq C
  BY <1>3 DEF UpTo
<1>5. Len(message) \in Nat /\ DOMAIN message = 1..Len(message)
      /\ \A i \in DOMAIN message : message[i].sent \in Nat
  BY RowsAre DEF TabIInv
<1>6. \A i \in B, j \in C \ B : message[j].sent > message[i].sent
  <2> SUFFICES ASSUME NEW i \in B, NEW j \in C \ B PROVE message[j].sent > message[i].sent
    OBVIOUS
  <2>1. i \in DOMAIN message /\ i <= b
    BY DEF UpTo
  <2>2. j \in DOMAIN message /\ ~(j <= b)
    BY <1>3 DEF UpTo
  <2>3. b < j
    BY <1>5, <2>2
  <2>4. ~(message[j].sent <= message[i].sent)
    BY <2>1, <2>2, <2>3
  <2>5. message[i].sent \in Nat /\ message[j].sent \in Nat
    BY <1>5, <2>1, <2>2
  <2> QED
    BY <2>4, <2>5
<1>7. skip = Len(shown) + k
  BY <1>2 DEF Tab!Skip
<1>8. Cardinality(C \ B) = k
  <2>1. CASE reader.page = 1
    <3>1. C \ B = {}
      BY <1>3, <1>5, <2>1 DEF UpTo
    <3>2. k = 0
      BY <1>1, <2>1
    <3> QED
      BY <3>1, <3>2, FS_EmptySet
  <2>2. CASE reader.page # 1
    <3>1. reader.page > 1 /\ b = reader.base
      BY <1>1, <2>2
    <3>2. C \ B = After
      <4>1. \A i \in DOMAIN message : ~(i <= b) <=> i > reader.base
        BY <1>5, <1>1, <3>1
      <4> QED
        BY <1>3, <4>1 DEF UpTo, After
    <3>3. Tab!Newer = After
      BY <1>3 DEF Tab!Newer, After
    <3>4. Cardinality(After) \in Nat /\ Cardinality(After \intersect unsent) \in Nat
      BY AfterFinite DEF TabIInv
    <3>5. reader.offset + Cardinality(After \intersect unsent) <= Cardinality(After)
      BY <3>1 DEF TabIInv, HeardOK
    <3>6. ~(Cardinality(After) > k)
      BY <3>1, <3>3
    <3>7. Cardinality(After) = k
      BY <1>1, <3>4, <3>5, <3>6
    <3> QED
      BY <3>2, <3>7
  <2> QED
    BY <2>1, <2>2
<1>9. \A n \in DOMAIN shown : shown[n] \in B /\ Cardinality(NewerIn(B, shown[n])) = n - 1
  <2>1. CASE reader.page = 1
    BY <1>1, <2>1
  <2>2. CASE reader.page # 1
    <3>1. b = reader.base
      BY <1>1, <2>2
    <3>2. B = Base /\ ~Tab!Late
      BY <3>1 DEF UpTo, Base, Tab!Late
    <3>3. InOrder
      BY <3>2 DEF TabIInv, ShownOK
    <3> QED
      BY <3>2, <3>3 DEF InOrder, Ahead
  <2> QED
    BY <2>1, <2>2
<1>10. k \in Nat /\ shown \in Seq(Nat) /\ Tab!TypeOK /\ s \in Tab!Ordered(C)
         /\ t = shown \o Slice(s, skip)
  BY <1>1 DEF TabIInv
<1> HIDE DEF C, B, k, shown, skip
<1>11. /\ \A n \in DOMAIN (shown \o Slice(s, skip)) :
             /\ (shown \o Slice(s, skip))[n] \in B
             /\ Cardinality(NewerIn(B, (shown \o Slice(s, skip))[n])) = n - 1
       /\ Len(Slice(s, skip)) < Size => B \subseteq Tab!ToSet(shown \o Slice(s, skip))
  BY <1>4, <1>6, <1>7, <1>8, <1>9, <1>10, SliceGoesOn
<1> QED
  BY <1>10, <1>11 DEF skip, B

LEMMA TabOneMore == ASSUME NEW p \in Nat,
  NEW z \in Nat PROVE (p - 1) * z + z = ((p + 1) - 1) * z
<1>1. (p + 1) - 1 = p /\ p = (p - 1) + 1
  OBVIOUS
<1> DEFINE a == p - 1
<1>2. a \in Int /\ p = a + 1
  OBVIOUS
<1> HIDE DEF a
<1>3. (a + 1) * z = a * z + z
  BY <1>2
<1> QED
  BY <1>1, <1>2, <1>3 DEF a

LEMMA TabGetMessageIInv ==
    ASSUME TabIInv, Tab!GetMessageInConversation
    PROVE  TabIInv'
<1> DEFINE C == Tab!InConversation(reader.own, reader.with)
           b == IF reader.page = 1 THEN Len(message) ELSE reader.base
           g == reader.page + 1
           m == reader.missed \/ (reader.page > 1 /\ Cardinality(Tab!Newer) > reader.asked)
<1>1. reader # Tab!Closed /\ reader.pc = "slice" /\ UNCHANGED <<message, pageRow, unsent>>
  BY DEF Tab!GetMessageInConversation
<1>2. PICK s \in Tab!Ordered(C) :
          reader' = [reader EXCEPT !.pc = "resting", !.base = b, !.page = g,
                         !.shown = reader.shown \o Slice(s, Tab!Skip),
                         !.over = Len(Slice(s, Tab!Skip)) < Size, !.missed = m]
  BY TabCounts DEF Tab!GetMessageInConversation, Slice, EndOf
<1> DEFINE h == reader.shown \o Slice(s, Tab!Skip)
           o == Len(Slice(s, Tab!Skip)) < Size
<1>3. /\ reader.with \in People /\ reader.page \in Nat \ {0} /\ reader.offset \in Nat
      /\ reader.asked \in Nat /\ reader.base \in Nat /\ reader.base <= Len(message)
      /\ reader.shown \in Seq(Nat)
      /\ reader.asked <= reader.offset /\ reader.offset <= MaxMessages
      /\ reader.page = 1 => reader.offset = 0 /\ reader.base = 0 /\ reader.shown = <<>>
  BY <1>1, ReaderIs
<1>4. ~reader.over /\ Len(reader.shown) = (reader.page - 1) * Size
  BY <1>1 DEF TabIInv, PagesOK
<1>5. Tab!Skip \in Nat
  <2>1. Tab!Skip = Len(reader.shown) + reader.asked
    BY <1>4 DEF Tab!Skip
  <2> QED
    BY <1>3, <2>1
<1>6. C \subseteq DOMAIN message /\ Tab!TypeOK
  BY DEF Tab!InConversation, TabIInv
<1>7. /\ s \in Seq(Nat) /\ DOMAIN s = 1..Len(s) /\ \A i \in DOMAIN s : s[i] \in C
  BY <1>6, OrderedIs
<1>8. /\ Slice(s, Tab!Skip) \in Seq(Nat) /\ Len(Slice(s, Tab!Skip)) \in Nat
      /\ Len(Slice(s, Tab!Skip)) <= Size
      /\ \A k \in 1..Len(Slice(s, Tab!Skip)) :
             Tab!Skip + k \in 1..Len(s) /\ Slice(s, Tab!Skip)[k] = s[Tab!Skip + k]
  BY <1>5, <1>7, SliceIs
<1>9. /\ h \in Seq(Nat) /\ Len(h) = Len(reader.shown) + Len(Slice(s, Tab!Skip))
      /\ DOMAIN h = 1..(Len(reader.shown) + Len(Slice(s, Tab!Skip)))
      /\ \A n \in 1..Len(reader.shown) : h[n] = reader.shown[n]
      /\ \A k \in 1..Len(Slice(s, Tab!Skip)) : h[Len(reader.shown) + k] = Slice(s, Tab!Skip)[k]
  BY <1>3, <1>8, Joined
<1>10. Len(message) \in Nat /\ DOMAIN message = 1..Len(message) /\ Size \in Nat \ {0}
  BY RowsAre, Constants DEF TabIInv
<1>11. reader \in [pc : {"resting", "slice"}, with : People, page : Nat \ {0}, offset : Nat,
                   own : People \union PageRows, asked : Nat, shown : Seq(Nat), base : Nat,
                   missed : BOOLEAN, over : BOOLEAN]
  BY <1>1 DEF TabIInv, ReaderType
<1>12. b \in Nat /\ b <= Len(message) /\ g \in Nat \ {0} /\ g # 1 /\ g > 1
       /\ o \in BOOLEAN /\ m \in BOOLEAN
  BY <1>3, <1>10, <1>11
<1>13. reader' = [reader EXCEPT !.pc = "resting", !.base = b, !.page = g,
                     !.shown = h, !.over = o, !.missed = m]
  BY <1>2
<1>14. (reader.page = 1 => b = Len(message)) /\ (reader.page # 1 => b = reader.base)
  OBVIOUS
<1>15. ~o => Len(h) = (g - 1) * Size
  <2> SUFFICES ASSUME ~o PROVE Len(h) = (g - 1) * Size
    OBVIOUS
  <2>1. Len(Slice(s, Tab!Skip)) = Size
    BY <1>8, <1>10
  <2>2. (reader.page - 1) * Size + Size = ((reader.page + 1) - 1) * Size
    BY <1>3, <1>10, TabOneMore
  <2> QED
    BY <1>4, <1>9, <2>1, <2>2
<1>16. Tab!ToSet(h) \subseteq DOMAIN message
  <2> SUFFICES ASSUME NEW n \in DOMAIN h PROVE h[n] \in DOMAIN message
    BY DEF Tab!ToSet
  <2> DEFINE q == Len(reader.shown)
             z == Len(Slice(s, Tab!Skip))
  <2>1. q \in Nat /\ z \in Nat /\ n \in 1..(q + z)
    BY <1>3, <1>8, <1>9
  <2>2. CASE n \in 1..q
    <3>1. h[n] = reader.shown[n] /\ n \in DOMAIN reader.shown
      BY <1>3, <1>9, <2>2
    <3>2. Tab!ToSet(reader.shown) \subseteq DOMAIN message
      BY <1>1 DEF TabIInv, Tab!TypeOK
    <3> QED
      BY <3>1, <3>2 DEF Tab!ToSet
  <2>3. CASE n \notin 1..q
    <3> HIDE DEF q, z
    <3>1. n - q \in 1..z /\ n = q + (n - q)
      BY <2>1, <2>3
    <3>2. PICK k \in 1..z : n = q + k
      BY <3>1
    <3>3. h[q + k] = s[Tab!Skip + k] /\ Tab!Skip + k \in DOMAIN s
      BY <1>7, <1>8, <1>9 DEF q, z
    <3> QED
      BY <1>6, <1>7, <3>2, <3>3
  <2> QED
    BY <2>2, <2>3
<1> HIDE DEF b, g, m, h, o
<1>17. reader' \in [pc : {"resting", "slice"}, with : People, page : Nat \ {0}, offset : Nat,
                    own : People \union PageRows, asked : Nat, shown : Seq(Nat), base : Nat,
                    missed : BOOLEAN, over : BOOLEAN]
  BY <1>9, <1>11, <1>12, <1>13
<1>18. /\ reader'.pc = "resting" /\ reader'.base = b /\ reader'.page = g
       /\ reader'.shown = h /\ reader'.over = o /\ reader'.missed = m
       /\ reader'.with = reader.with /\ reader'.offset = reader.offset
       /\ reader'.asked = reader.asked
  BY <1>11, <1>13
<1> HIDE DEF C
<1>19. Tab!TypeOK'
  <2>1. reader' # Tab!Closed =>
            /\ reader'.pc \in {"resting", "slice"} /\ reader'.with \in People
            /\ reader'.page \in Nat \ {0}
            /\ reader'.asked <= reader'.offset /\ reader'.offset <= MaxMessages
            /\ Tab!ToSet(reader'.shown) \subseteq DOMAIN message
            /\ reader'.pc = "slice" => reader'.own \in pageRow
    BY <1>3, <1>12, <1>16, <1>18
  <2> QED
    BY <1>1, <1>6, <2>1 DEF Tab!TypeOK
<1>20. RowsOK'
  BY <1>1 DEF TabIInv, RowsOK
<1>21. ReaderType'
  BY <1>17 DEF ReaderType
<1>22. PagesOK'
  BY <1>1, <1>12, <1>15, <1>18 DEF PagesOK
<1>23. HeardOK'
  <2>1. CASE reader.page = 1
    <3>1. After' = {}
      BY <1>1, <1>10, <1>14, <1>18, <2>1 DEF After
    <3>2. (After \intersect unsent)' = {} /\ reader'.offset = 0
      BY <1>3, <1>18, <2>1, <3>1
    <3> QED
      BY <3>1, <3>2, FS_EmptySet DEF HeardOK
  <2>2. CASE reader.page # 1
    <3>1. After' = After
      BY <1>1, <1>14, <1>18, <2>2 DEF After, Tab!Partner
    <3>2. (After \intersect unsent)' = After \intersect unsent /\ reader.page > 1
      BY <1>1, <1>3, <2>2, <3>1
    <3>3. reader.offset + Cardinality(After \intersect unsent) <= Cardinality(After)
      BY <1>1, <3>2 DEF TabIInv, HeardOK
    <3> QED
      BY <1>18, <3>1, <3>2, <3>3 DEF HeardOK
  <2> QED
    BY <2>1, <2>2
<1>24. ShownOK'
  <2> SUFFICES ASSUME ~Tab!Late', ~Tab!Tied', ~reader'.missed, NEW p \in PageRows,
                        pageRow' = {p}
               PROVE  InOrder' /\ (reader'.over => Base' \subseteq Tab!ToSet(reader'.shown))
    BY DEF ShownOK
  <2>1. ~Tab!Tied /\ \E r \in PageRows : pageRow = {r}
    BY <1>1 DEF Tab!Tied
  <2>2. \A i, j \in DOMAIN message : i <= b /\ b < j => ~(message[j].sent <= message[i].sent)
    BY <1>1, <1>18 DEF Tab!Late
  <2>3. ~reader.missed /\ ~(reader.page > 1 /\ Cardinality(Tab!Newer) > reader.asked)
    BY <1>18 DEF m
  <2>4. s \in Tab!Ordered(Tab!InConversation(reader.own, reader.with))
    BY DEF C
  <2>5. b \in Nat /\ Tab!TypeOK /\ (reader.page = 1 => b = Len(message))
        /\ (reader.page # 1 => b = reader.base)
    BY <1>6, <1>12, <1>14
  <2>6. h = reader.shown \o Slice(s, Tab!Skip) /\ (o <=> Len(Slice(s, Tab!Skip)) < Size)
    BY DEF h, o
  <2>7. /\ \A n \in DOMAIN h : h[n] \in UpTo(b) /\ Cardinality(NewerIn(UpTo(b), h[n])) = n - 1
        /\ Len(Slice(s, Tab!Skip)) < Size => UpTo(b) \subseteq Tab!ToSet(h)
    BY <1>1, <2>1, <2>2, <2>3, <2>4, <2>5, <2>6, Cut
  <2>8. Base' = UpTo(b)
    BY <1>1, <1>18 DEF Base, UpTo, Tab!Partner
  <2>9. ASSUME NEW n \in DOMAIN h, NEW i, i = h[n]
        PROVE  i \in Base' /\ Cardinality(Ahead(i)') = n - 1
    <3>1. Ahead(i)' = NewerIn(UpTo(b), i)
      BY <1>1, <2>8 DEF Ahead, NewerIn
    <3> QED
      BY <2>7, <2>8, <2>9, <3>1
  <2>10. InOrder'
    BY <1>18, <2>9 DEF InOrder
  <2> QED
    BY <1>18, <2>6, <2>7, <2>8, <2>10
<1> QED
  BY <1>19, <1>20, <1>21, <1>22, <1>23, <1>24 DEF TabIInv

LEMMA TabNextIInv == TabIInv /\ [Tab!Next]_(Tab!vars) => TabIInv'
<1> SUFFICES ASSUME TabIInv, [Tab!Next]_(Tab!vars) PROVE TabIInv'
  OBVIOUS
<1>1. CASE UNCHANGED Tab!vars
  <2>1. Base' = Base /\ After' = After
    BY <1>1 DEF Tab!vars, Base, After, Tab!Partner
  <2>2. ShownOK'
    BY <1>1, SameLonger, ShownStays DEF Tab!vars, TabIInv
  <2>3. (After \intersect unsent)' = After \intersect unsent
    BY <1>1, <2>1 DEF Tab!vars
  <2>4. HeardOK'
    BY <1>1, <2>1, <2>3 DEF Tab!vars, TabIInv, HeardOK
  <2> QED
    BY <1>1, <2>2, <2>4 DEF Tab!vars, TabIInv, Tab!TypeOK, RowsOK, ReaderType, PagesOK
<1>2. CASE Tab!Next
  BY <1>2, TabCreateIInv, TabSendMessageIInv, TabReplyFailsIInv, TabOpenIInv, TabAskIInv,
     TabGetMessageIInv, TabCloseIInv DEF Tab!Next
<1> QED
  BY <1>1, <1>2

LEMMA TabInductiveIInv == Tab!Spec => []TabIInv
BY TabInitIInv, TabNextIInv, PTL DEF Tab!Spec

-----------------------------------------------------------------------------
(* What follows from it.                                                   *)

LEMMA SkippedNone == TabIInv => Tab!NothingSkipped
<1> SUFFICES ASSUME TabIInv, reader # Tab!Closed, reader.over, Tab!Settled, ~reader.missed,
                    NEW i \in 1..reader.base, Tab!Partner(message[i]) = reader.with
             PROVE  i \in Tab!ToSet(reader.shown)
  BY DEF Tab!NothingSkipped
<1>1. \E p \in PageRows : pageRow = {p}
  BY DEF Tab!Settled, TabIInv, Tab!TypeOK
<1>2. Base \subseteq Tab!ToSet(reader.shown)
  BY <1>1 DEF TabIInv, ShownOK, Tab!Settled
<1>3. reader.base \in Nat /\ reader.base <= Len(message)
  BY ReaderIs
<1>4. DOMAIN message = 1..Len(message) /\ Len(message) \in Nat
  BY RowsAre DEF TabIInv
<1>5. i \in DOMAIN message /\ i <= reader.base
  BY <1>3, <1>4
<1> QED
  BY <1>2, <1>5 DEF Base

LEMMA RepeatedNone == TabIInv => Tab!RepeatsNeedAnUnheardArrival
<1> SUFFICES ASSUME TabIInv, reader # Tab!Closed, Tab!Settled, ~reader.missed,
                    NEW m \in DOMAIN reader.shown, NEW n \in DOMAIN reader.shown,
                    reader.shown[m] = reader.shown[n]
             PROVE  m = n
  BY DEF Tab!RepeatsNeedAnUnheardArrival, Tab!IsInjective
<1>1. \E p \in PageRows : pageRow = {p}
  BY DEF Tab!Settled, TabIInv, Tab!TypeOK
<1>2. InOrder
  BY <1>1 DEF TabIInv, ShownOK, Tab!Settled
<1>3. Cardinality(Ahead(reader.shown[m])) = m - 1
  BY <1>2 DEF InOrder
<1>4. Cardinality(Ahead(reader.shown[n])) = n - 1
  BY <1>2 DEF InOrder
<1>5. reader.shown \in Seq(Nat)
  BY ReaderIs
<1>6. m \in Nat /\ n \in Nat
  BY <1>5
<1>7. m - 1 = n - 1
  BY <1>3, <1>4
<1> QED
  BY <1>6, <1>7

LEMMA AllOrdered ==
    ASSUME Tab!TypeOK, NEW s, s \in Tab!Ordered(DOMAIN message)
    PROVE  /\ \A n \in DOMAIN s : n \in Nat /\ s[n] \in DOMAIN message
           /\ \A m, n \in DOMAIN s : s[m] = s[n] => m = n
           /\ \A i \in DOMAIN message : \E n \in DOMAIN s : s[n] = i
           /\ \A m, n \in DOMAIN s : m < n => message[s[m]].sent >= message[s[n]].sent
           /\ \A i \in DOMAIN message : message[i].sent \in Nat
<1>1. IsFiniteSet(DOMAIN message) /\ \A i \in DOMAIN message : message[i].sent \in Nat
  BY RowsAre
<1>2. s \in Tab!SetToSeqs(DOMAIN message)
      /\ \A m, n \in DOMAIN s : m < n => message[s[m]].sent >= message[s[n]].sent
  BY DEF Tab!Ordered
<1>3. /\ s \in Seq(DOMAIN message) /\ DOMAIN s = 1..Len(s)
      /\ \A i, j \in DOMAIN s : s[i] = s[j] => i = j
      /\ \A i \in DOMAIN s : s[i] \in DOMAIN message
      /\ \A x \in DOMAIN message : \E i \in DOMAIN s : s[i] = x
  BY <1>1, <1>2, SeqsAre
<1>4. Len(s) \in Nat
  BY <1>3
<1> QED
  BY <1>1, <1>2, <1>3, <1>4

LEMMA SideOfThePage ==
    ASSUME TabIInv, NEW own, pageRow = {own}, NEW i \in DOMAIN message
    PROVE  Tab!UserSend(own, i) = Tab!Partner(message[i]) /\ Tab!Partner(message[i]) \in People
<1>1. \/ message[i].from \in People /\ message[i].to \in PageRows
      \/ message[i].from \in PageRows /\ message[i].to \in People
  BY RowsAre DEF Tab!Rows, TabIInv
<1>2. {message[i].from, message[i].to} \subseteq People \union {own}
  BY DEF TabIInv, RowsOK
<1>3. People \intersect PageRows = {} /\ own \in PageRows
  BY Constants DEF TabIInv, Tab!TypeOK
<1> QED
  BY <1>1, <1>2, <1>3 DEF Tab!Partner, Tab!UserSend

LEMMA NewestListed == TabIInv => Tab!ListHasTheNewest
<1> SUFFICES ASSUME TabIInv, NEW own \in pageRow, NEW s \in Tab!Ordered(DOMAIN message),
                    pageRow = {own}, ~Tab!Tied
             PROVE  Tab!GetAllConversation(own, s) = UNION {Tab!NewestOf(u) : u \in People}
  BY DEF Tab!ListHasTheNewest
<1>1. /\ \A n \in DOMAIN s : n \in Nat /\ s[n] \in DOMAIN message
      /\ \A m, n \in DOMAIN s : s[m] = s[n] => m = n
      /\ \A i \in DOMAIN message : \E n \in DOMAIN s : s[n] = i
      /\ \A m, n \in DOMAIN s : m < n => message[s[m]].sent >= message[s[n]].sent
      /\ \A i \in DOMAIN message : message[i].sent \in Nat
  BY AllOrdered DEF TabIInv
<1>2. \A i \in DOMAIN message :
          Tab!UserSend(own, i) = Tab!Partner(message[i]) /\ Tab!Partner(message[i]) \in People
  BY SideOfThePage
<1>3. ASSUME NEW n \in DOMAIN s,
             \A j \in DOMAIN s : j < n => Tab!UserSend(own, s[j]) # Tab!UserSend(own, s[n])
      PROVE  \E u \in People : s[n] \in Tab!NewestOf(u)
  <2> DEFINE u == Tab!Partner(message[s[n]])
  <2>1. u \in People /\ s[n] \in DOMAIN message
    BY <1>1, <1>2
  <2>2. ASSUME NEW j \in DOMAIN message, Tab!Partner(message[j]) = u
        PROVE  message[j].sent <= message[s[n]].sent
    <3>1. PICK m \in DOMAIN s : s[m] = j
      BY <1>1
    <3>2. Tab!UserSend(own, s[m]) = Tab!UserSend(own, s[n])
      BY <1>1, <1>2, <2>2, <3>1
    <3>3. m \in Nat /\ n \in Nat /\ ~(m < n)
      BY <1>1, <1>3, <3>2
    <3>4. message[s[m]].sent \in Nat /\ message[s[n]].sent \in Nat
      BY <1>1
    <3>5. n < m => message[s[n]].sent >= message[s[m]].sent
      BY <1>1
    <3>6. CASE n = m
      BY <3>1, <3>4, <3>6
    <3>7. CASE n # m
      BY <3>1, <3>3, <3>4, <3>5, <3>7
    <3> QED
      BY <3>6, <3>7
  <2> QED
    BY <2>1, <2>2 DEF Tab!NewestOf
<1>4. ASSUME NEW u \in People, NEW i \in Tab!NewestOf(u)
      PROVE  \E n \in DOMAIN s :
                 /\ s[n] = i
                 /\ \A j \in DOMAIN s :
                      j < n => Tab!UserSend(own, s[j]) # Tab!UserSend(own, s[n])
  <2>1. i \in DOMAIN message /\ Tab!Partner(message[i]) = u
        /\ \A j \in DOMAIN message :
               Tab!Partner(message[j]) = u => message[j].sent <= message[i].sent
    BY DEF Tab!NewestOf
  <2>2. PICK n \in DOMAIN s : s[n] = i
    BY <1>1, <2>1
  <2>3. ASSUME NEW j \in DOMAIN s, j < n, Tab!UserSend(own, s[j]) = Tab!UserSend(own, s[n])
        PROVE  FALSE
    <3>1. s[j] \in DOMAIN message /\ Tab!Partner(message[s[j]]) = u
      BY <1>1, <1>2, <2>1, <2>2, <2>3
    <3>2. message[s[j]].sent <= message[i].sent
      BY <2>1, <3>1
    <3>3. message[s[j]].sent >= message[i].sent
      BY <1>1, <2>2, <2>3
    <3>4. message[s[j]].sent \in Nat /\ message[i].sent \in Nat
      BY <1>1, <2>1, <3>1
    <3>5. message[s[j]].sent = message[i].sent
      BY <3>2, <3>3, <3>4
    <3>6. s[j] = i
      BY <2>1, <3>1, <3>5 DEF Tab!Tied
    <3>7. j = n
      BY <1>1, <2>2, <3>6
    <3>8. n \in Nat
      BY <1>1
    <3> QED
      BY <2>3, <3>7, <3>8
  <2> QED
    BY <2>2, <2>3
<1>5. \A k \in Tab!GetAllConversation(own, s) : \E u \in People : k \in Tab!NewestOf(u)
  BY <1>3 DEF Tab!GetAllConversation
<1>6. \A u \in People : \A i \in Tab!NewestOf(u) : i \in Tab!GetAllConversation(own, s)
  BY <1>4 DEF Tab!GetAllConversation
<1> QED
  BY <1>5, <1>6

LEMMA WritersListed == TabIInv => Tab!WritersAreListed
<1> SUFFICES ASSUME TabIInv, NEW own \in pageRow, NEW s \in Tab!Ordered(DOMAIN message),
                    NEW i \in DOMAIN message, message[i].from \in People
             PROVE  \E k \in Tab!GetAllConversation(own, s) :
                      Tab!UserSend(own, k) = message[i].from
  BY DEF Tab!WritersAreListed
<1> DEFINE S == {n \in DOMAIN s : Tab!UserSend(own, s[n]) = message[i].from}
<1>1. /\ \A n \in DOMAIN s : n \in Nat /\ s[n] \in DOMAIN message
      /\ \A j \in DOMAIN message : \E n \in DOMAIN s : s[n] = j
  BY AllOrdered DEF TabIInv
<1>2. message[i].from # own
  BY Constants DEF TabIInv, Tab!TypeOK
<1>3. Tab!UserSend(own, i) = message[i].from
  BY <1>2 DEF Tab!UserSend
<1>4. S \subseteq Nat /\ S # {}
  BY <1>1, <1>3
<1>5. PICK n \in S : \A m \in S : n <= m
  <2> HIDE DEF S
  <2> QED
    BY <1>4, Least
<1>6. \A j \in DOMAIN s : j < n => Tab!UserSend(own, s[j]) # Tab!UserSend(own, s[n])
  <2> SUFFICES ASSUME NEW j \in DOMAIN s, j < n, Tab!UserSend(own,
                        s[j]) = Tab!UserSend(own, s[n])
               PROVE  FALSE
    OBVIOUS
  <2>1. j \in S
    OBVIOUS
  <2>2. n <= j /\ n \in Nat /\ j \in Nat
    BY <1>1, <1>5, <2>1
  <2> QED
    BY <2>2
<1>7. s[n] \in Tab!GetAllConversation(own, s)
  BY <1>6 DEF Tab!GetAllConversation
<1> QED
  BY <1>7

(* Whoever scrolls through getMessageInConversation's pages has seen every *)
(* message there was at the first page, each once, but for the causes the  *)
(* property names.                                                         *)
THEOREM PagesExact == Tab!Spec => []PagesAreExact
<1>1. TabIInv => PagesAreExact
  BY SkippedNone, RepeatedNone DEF TabIInv, PagesAreExact, Tab!PagesAreExact
<1> QED
  BY <1>1, TabInductiveIInv, PTL

(* getAllConversation lists every customer who wrote, with the newest      *)
(* message of each where the page has one row and no two are of an instant. *)
THEOREM ListComplete == Tab!Spec => []ListIsComplete
<1>1. TabIInv => ListIsComplete
  BY NewestListed, WritersListed DEF ListIsComplete, Tab!ListIsComplete
<1> QED
  BY <1>1, TabInductiveIInv, PTL
==============================================================================
