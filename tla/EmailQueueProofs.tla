-------------------------- MODULE EmailQueueProofs --------------------------
(***************************************************************************)
(* What the two workers promise: the e-mail worker for any mails, any      *)
(* number of attempts and any number of repetitions and ends of the        *)
(* process, the import for any sheets; and that both implement JobQueue.   *)
(* One lemma shows that each action preserves the module's IInv.           *)
(*                                                                         *)
(* The import counts the rows it has behind it.  What its counters promise *)
(* of a sheet is a fact about those rows (Joined, Strays), so a row's step *)
(* compares two sets of rows, by RowSets and OneRow.                       *)
(***************************************************************************)
EXTENDS Workers, FiniteSetTheorems, TLAPS
-----------------------------------------------------------------------------
(* The inductive invariant.  The active job is the one in the call; what   *)
(* the call has seen so far determines what its job may become.            *)
CallIsActive ==
    \A m \in Mails : state[m] = "active" <=> (call # Idle /\ call.mail = m)

RunsOK ==
    \A m \in Mails : /\ state[m] \in {"none", "waiting"} => runs[m] <= Repeats
                     /\ state[m] = "failed" => runs[m] = Repeats + 1

(* A run takes at most one copy of its own; the others are unsure.         *)
CopiesOK ==
    \A m \in Mails :
        copies[m] <= unsure[m] + (IF call.pc = "send" /\ call.mail = m
                                  THEN runs[m] - 1 ELSE runs[m])

CallOK ==
    /\ call.pc = "send" => refused[call.mail] = call.retryCount
    /\ call.pc = "return" =>
           /\ call.answer => refused[call.mail] = call.retryCount
           /\ ~call.answer => refused[call.mail] # 0
           /\ copies[call.mail] > 0 \/ refused[call.mail] = MaxRetry + 1

IInv == TypeOK /\ CallIsActive /\ RunsOK /\ CopiesOK /\ CallOK
            /\ LostMailExplained /\ ValueIsFirstAttempt
-----------------------------------------------------------------------------
LEMMA Bounds == MaxRetry \in Nat /\ Repeats \in Nat /\ MaxCrashes \in Nat
BY EmailAssumption

LEMMA InitIInv == Init => IInv
BY Bounds
   DEF Init, IInv, TypeOK, CallIsActive, RunsOK, CopiesOK, CallOK, Settled,
       LostMailExplained, ValueIsFirstAttempt, Idle, Queue!Init, Queue!States

(* The call in progress is about an active job.                            *)
LEMMA TheCall ==
    ASSUME IInv, call.pc \in {"send", "return"}
    PROVE  /\ call # Idle
           /\ call.mail \in Mails
           /\ state[call.mail] = "active"
           /\ call.retryCount \in 0..MaxRetry
           /\ call.pc = "return" => call.answer \in BOOLEAN
BY DEF IInv, TypeOK, CallIsActive, Idle

LEMMA AddIInv ==
    ASSUME IInv, NEW m \in Mails, AddEmailToQueue(m)
    PROVE  IInv'
<1> USE Bounds
<1> USE DEF AddEmailToQueue, Queue!Add, Queue!Move, history, IInv
<1>1. TypeOK'
  BY DEF TypeOK, Queue!States
<1>2. CallIsActive'
  BY DEF TypeOK, CallIsActive
<1>3. RunsOK'
  BY DEF TypeOK, RunsOK
<1>4. CopiesOK' /\ CallOK'
  BY DEF CopiesOK, CallOK
<1>5. LostMailExplained' /\ ValueIsFirstAttempt'
  BY DEF TypeOK, LostMailExplained, ValueIsFirstAttempt, Settled
<1> QED
  BY <1>1, <1>2, <1>3, <1>4, <1>5

LEMMA TakeIInv ==
    ASSUME IInv, NEW m \in Mails, Take(m)
    PROVE  IInv'
<1> USE Bounds
<1> USE DEF Take, Queue!Start, Queue!Move, IInv
<1>1. call = Idle /\ call' = Sending(m, 0)
  BY TheCall DEF TypeOK
<1>2. runs[m] \in 0..Repeats /\ runs'[m] = runs[m] + 1 /\ refused'[m] = 0
  BY DEF TypeOK, RunsOK
<1>3. TypeOK'
  BY <1>1, <1>2 DEF TypeOK, Queue!States, Sending
<1>4. CallIsActive'
  BY <1>1 DEF TypeOK, CallIsActive, Sending, Idle
<1>5. RunsOK'
  BY DEF TypeOK, RunsOK
<1>6. CopiesOK'
  <2> SUFFICES ASSUME NEW n \in Mails
               PROVE  copies[n] <= unsure[n] + (IF call'.pc = "send" /\ call'.mail = n
                                                THEN runs'[n] - 1 ELSE runs'[n])
    BY DEF CopiesOK
  <2>1. copies[n] <= unsure[n] + runs[n]
    BY <1>1 DEF CopiesOK, Idle
  <2> QED
    BY <2>1, <1>1, <1>2 DEF TypeOK, Sending
<1>7. CallOK'
  BY <1>1, <1>2 DEF CallOK, Sending
<1>8. LostMailExplained' /\ ValueIsFirstAttempt'
  BY DEF TypeOK, LostMailExplained, ValueIsFirstAttempt, Settled
<1> QED
  BY <1>3, <1>4, <1>5, <1>6, <1>7, <1>8

LEMMA SendIInv ==
    ASSUME IInv, SendEmail
    PROVE  IInv'
<1> USE Bounds
<1> USE DEF SendEmail, IInv
<1> DEFINE m == call.mail
<1>1. /\ m \in Mails /\ state[m] = "active" /\ call.retryCount \in 0..MaxRetry
      /\ call # Idle
  BY TheCall
<1>2. copies'[m] = copies[m] + 1 /\ \A n \in Mails \ {m} : copies'[n] = copies[n]
  BY <1>1 DEF TypeOK
<1>3. TypeOK'
  BY <1>1 DEF TypeOK, Returning
<1>4. CallIsActive'
  BY <1>1 DEF CallIsActive, Returning, Idle
<1>5. RunsOK'
  BY DEF RunsOK
<1>6. CopiesOK'
  BY <1>1, <1>2 DEF TypeOK, CopiesOK, Returning
<1>7. CallOK'
  BY <1>1, <1>2 DEF TypeOK, CallOK, Returning
<1>8. LostMailExplained' /\ ValueIsFirstAttempt'
  BY <1>1, <1>2 DEF TypeOK, LostMailExplained, ValueIsFirstAttempt, Settled
<1> QED
  BY <1>3, <1>4, <1>5, <1>6, <1>7, <1>8

(* The recursion goes one call deeper, or comes to its end.                *)
LEMMA AfterErrorMoves ==
    ASSUME NEW m \in Mails, NEW n \in 0..MaxRetry
    PROVE  \/ n + 1 \in 0..MaxRetry /\ AfterError(m, n) = Sending(m, n + 1)
           \/ n = MaxRetry /\ AfterError(m, n) = Returning(m, n, FALSE)
<1> USE Bounds
<1>1. CASE n < MaxRetry
  <2>1. AfterError(m, n) = Sending(m, n + 1)
    BY <1>1 DEF AfterError
  <2>2. n + 1 \in 0..MaxRetry
    BY <1>1
  <2> QED
    BY <2>1, <2>2
<1>2. CASE ~(n < MaxRetry)
  <2>1. AfterError(m, n) = Returning(m, n, FALSE)
    BY <1>2 DEF AfterError
  <2>2. n = MaxRetry
    BY <1>2
  <2> QED
    BY <2>1, <2>2
<1> QED
  BY <1>1, <1>2

LEMMA TypeOfSending ==
    ASSUME NEW m \in Mails, NEW n \in 0..MaxRetry
    PROVE  Sending(m, n) \in [pc : {"send"}, mail : Mails, retryCount : 0..MaxRetry]
BY DEF Sending

LEMMA TypeOfReturning ==
    ASSUME NEW m \in Mails, NEW n \in 0..MaxRetry, NEW a \in BOOLEAN
    PROVE  Returning(m, n, a) \in [pc : {"return"}, mail : Mails,
                                  retryCount : 0..MaxRetry, answer : BOOLEAN]
BY DEF Returning

LEMMA FailIInv ==
    ASSUME IInv, NEW taken \in 0..1, SendFails(taken)
    PROVE  IInv'
<1> USE Bounds
<1> USE DEF SendFails, IInv
<1>0. PICK m \in Mails, n \in 0..MaxRetry :
          call.mail = m /\ call.retryCount = n /\ state[m] = "active" /\ call # Idle
  BY TheCall
<1>1. call' = AfterError(m, n)
  BY <1>0
<1>2. /\ copies'[m] = copies[m] + taken /\ unsure'[m] = unsure[m] + taken
      /\ refused'[m] = n + 1
      /\ \A k \in Mails \ {m} : /\ copies'[k] = copies[k] /\ unsure'[k] = unsure[k]
                                /\ refused'[k] = refused[k]
  BY <1>0 DEF TypeOK, CallOK
<1>3. \/ n + 1 \in 0..MaxRetry /\ call' = Sending(m, n + 1)
      \/ n = MaxRetry /\ call' = Returning(m, n, FALSE)
  BY <1>1, AfterErrorMoves
<1>4. TypeOK'
  <2>1. call' \in [pc : {"send"}, mail : Mails, retryCount : 0..MaxRetry]
            \union [pc : {"return"}, mail : Mails, retryCount : 0..MaxRetry, answer : BOOLEAN]
    BY <1>3, TypeOfSending, TypeOfReturning
  <2>2. copies' \in [Mails -> Nat] /\ unsure' \in [Mails -> Nat]
    BY <1>0 DEF TypeOK
  <2>3. refused' \in [Mails -> 0..MaxRetry + 1]
    BY <1>0 DEF TypeOK, CallOK
  <2> QED
    BY <2>1, <2>2, <2>3 DEF TypeOK
<1>5. CallIsActive'
  BY <1>0, <1>3 DEF CallIsActive, Sending, Returning, Idle
<1>6. RunsOK'
  BY DEF RunsOK
<1>7. CopiesOK'
  BY <1>0, <1>2, <1>3 DEF TypeOK, CopiesOK, Sending, Returning
<1>8. CallOK'
  BY <1>0, <1>2, <1>3 DEF TypeOK, CallOK, Sending, Returning
<1>9. LostMailExplained' /\ ValueIsFirstAttempt'
  BY <1>0, <1>2 DEF TypeOK, LostMailExplained, ValueIsFirstAttempt, Settled
<1> QED
  BY <1>4, <1>5, <1>6, <1>7, <1>8, <1>9

LEMMA ReturnIInv ==
    ASSUME IInv, Return
    PROVE  IInv'
<1> USE Bounds
<1> USE DEF Return, IInv, history
<1> DEFINE m == call.mail
           n == call.retryCount
<1>1. /\ m \in Mails /\ state[m] = "active" /\ n \in 1..MaxRetry /\ call # Idle
      /\ call.answer \in BOOLEAN /\ call' = Returning(m, n - 1, FALSE)
  BY TheCall
<1>2. TypeOK'
  BY <1>1 DEF TypeOK, Returning
<1>3. CallIsActive'
  BY <1>1 DEF CallIsActive, Returning, Idle
<1>4. RunsOK'
  BY DEF RunsOK
<1>5. CopiesOK'
  BY <1>1 DEF CopiesOK, Returning
<1>6. CallOK'
  BY <1>1 DEF CallOK, Returning
<1>7. LostMailExplained' /\ ValueIsFirstAttempt'
  BY DEF LostMailExplained, ValueIsFirstAttempt, Settled
<1> QED
  BY <1>2, <1>3, <1>4, <1>5, <1>6, <1>7

LEMMA CompleteIInv ==
    ASSUME IInv, Complete
    PROVE  IInv'
<1> USE Bounds
<1> USE DEF Complete, Queue!Complete, Queue!Move, IInv, history
<1> DEFINE m == call.mail
<1>1. /\ m \in Mails /\ state[m] = "active" /\ call # Idle
      /\ call.answer \in BOOLEAN /\ call.retryCount = 0
  BY TheCall
<1>2. /\ state'[m] = "completed"
      /\ value'[m] = IF call.answer THEN "true" ELSE "false"
      /\ \A k \in Mails \ {m} : state'[k] = state[k] /\ value'[k] = value[k]
  BY <1>1 DEF TypeOK
<1>3. TypeOK'
  BY <1>1 DEF TypeOK, Queue!States, Idle
<1>4. CallIsActive'
  BY <1>1, <1>2 DEF CallIsActive, Idle
<1>5. RunsOK'
  BY <1>2 DEF RunsOK
<1>6. CopiesOK'
  BY <1>1 DEF CopiesOK, Idle
<1>7. CallOK'
  BY DEF CallOK, Idle
<1>8. LostMailExplained'
  BY <1>1, <1>2 DEF TypeOK, CallOK, LostMailExplained, Settled
<1>9. ValueIsFirstAttempt'
  BY <1>1, <1>2 DEF TypeOK, CallOK, ValueIsFirstAttempt
<1> QED
  BY <1>3, <1>4, <1>5, <1>6, <1>7, <1>8, <1>9

(* The job of the call that was cut is given back or failed.               *)
LEMMA CrashMoves ==
    ASSUME IInv, Crash
    PROVE  /\ runs' = runs /\ call' = Idle
           /\ \/ call = Idle /\ state' = state
              \/ \E m \in Mails :
                    /\ call # Idle /\ call.mail = m /\ state[m] = "active"
                    /\ \/ /\ runs[m] <= Repeats
                          /\ state' = [state EXCEPT ![m] = "waiting"]
                       \/ /\ runs[m] = Repeats + 1
                          /\ state' = [state EXCEPT ![m] = "failed"]
<1>1. CASE call = Idle
  BY <1>1 DEF Crash
<1>2. CASE call # Idle
  <2>1. call.mail \in Mails /\ state[call.mail] = "active"
    BY <1>2, TheCall DEF IInv, TypeOK
  <2>2. runs[call.mail] \in 0..Repeats + 1
    BY <2>1 DEF IInv, TypeOK
  <2> QED
    BY <1>2, <2>1, <2>2, Bounds
       DEF Crash, OnFailed, Queue!GiveBack, Queue!Fail, Queue!Move
<1> QED
  BY <1>1, <1>2

LEMMA CrashIInv ==
    ASSUME IInv, Crash
    PROVE  IInv'
<1> USE Bounds, CrashMoves
<1> USE DEF IInv
<1>1. UNCHANGED <<value, copies, refused, unsure>> /\ crashes' \in 0..MaxCrashes
  BY DEF Crash, TypeOK, history
<1>2. TypeOK'
  BY <1>1 DEF TypeOK, Queue!States, Idle
<1>3. CallIsActive'
  BY DEF TypeOK, CallIsActive, Idle
<1>4. RunsOK'
  BY DEF TypeOK, RunsOK
<1>5. CopiesOK'
  BY <1>1 DEF TypeOK, CopiesOK, Idle
<1>6. CallOK'
  BY DEF CallOK, Idle
<1>7. LostMailExplained' /\ ValueIsFirstAttempt'
  BY <1>1 DEF TypeOK, LostMailExplained, ValueIsFirstAttempt, Settled
<1> QED
  BY <1>2, <1>3, <1>4, <1>5, <1>6, <1>7

LEMMA NextIInv == IInv /\ [Next]_vars => IInv'
<1> SUFFICES ASSUME IInv, [Next]_vars
             PROVE  IInv'
  OBVIOUS
<1>1. CASE UNCHANGED vars
  BY <1>1 DEF vars, history, IInv, TypeOK, CallIsActive, RunsOK, CopiesOK, CallOK,
              LostMailExplained, ValueIsFirstAttempt, Settled
<1>2. CASE \E m \in Mails : AddEmailToQueue(m)
  BY <1>2, AddIInv
<1>3. CASE \E m \in Mails : Take(m)
  BY <1>3, TakeIInv
<1>4. CASE SendEmail
  BY <1>4, SendIInv
<1>5. CASE \E taken \in 0..1 : SendFails(taken)
  BY <1>5, FailIInv
<1>6. CASE Return
  BY <1>6, ReturnIInv
<1>7. CASE Complete
  BY <1>7, CompleteIInv
<1>8. CASE Crash
  BY <1>8, CrashIInv
<1> QED
  BY <1>1, <1>2, <1>3, <1>4, <1>5, <1>6, <1>7, <1>8 DEF Next, WorkerStep, Rest

LEMMA Invariance == Spec => []IInv
BY InitIInv, NextIInv, PTL DEF Spec
-----------------------------------------------------------------------------
(* Type correctness of the worker for any mails and bounds.                *)
THEOREM TypeCorrect == Spec => []TypeOK
<1>1. IInv => TypeOK
  BY DEF IInv
<1> QED
  BY Invariance, <1>1, PTL

(* A mail is doubled only by an answer that was lost or a run that was     *)
(* repeated: MailService's retries never overlap Bull's.                   *)
THEOREM CopiesHaveACause == Spec => []TwoCopiesExplained
<1>1. IInv => TwoCopiesExplained
  <2> SUFFICES ASSUME IInv, NEW m \in Mails
               PROVE  copies[m] <= unsure[m] + runs[m]
    BY DEF TwoCopiesExplained
  <2>1. runs[m] \in Nat /\ unsure[m] \in Nat /\ copies[m] \in Nat
    BY Bounds DEF IInv, TypeOK
  <2>2. CASE call.pc = "send" /\ call.mail = m
    BY <2>1, <2>2 DEF IInv, CopiesOK
  <2>3. CASE ~(call.pc = "send" /\ call.mail = m)
    BY <2>1, <2>3 DEF IInv, CopiesOK
  <2> QED
    BY <2>2, <2>3
<1> QED
  BY Invariance, <1>1, PTL

(* A mail is lost only when each attempt of its last run failed, or when   *)
(* Bull gave its job up.                                                   *)
THEOREM LossesHaveACause == Spec => []LostMailExplained
<1>1. IInv => LostMailExplained
  BY DEF IInv
<1> QED
  BY Invariance, <1>1, PTL

(* sendEmail answers for its first attempt, however many follow.           *)
THEOREM ValuesSpeakOfTheFirst == Spec => []ValueIsFirstAttempt
<1>1. IInv => ValueIsFirstAttempt
  BY DEF IInv
<1> QED
  BY Invariance, <1>1, PTL
-----------------------------------------------------------------------------
(* Every step of the worker is a step of the queue or none.                *)
LEMMA StepImplements == IInv /\ [Next]_vars => [Queue!Next]_(Queue!vars)
<1> SUFFICES ASSUME IInv, [Next]_vars
             PROVE  [Queue!Next]_(Queue!vars)
  OBVIOUS
<1>1. CASE \E m \in Mails : AddEmailToQueue(m)
  BY <1>1 DEF AddEmailToQueue, Queue!Next
<1>2. CASE \E m \in Mails : Take(m)
  BY <1>2 DEF Take, Queue!Next
<1>3. CASE Complete
  BY <1>3, TheCall DEF Complete, Queue!Next
<1>4. CASE Crash
  <2>1. CASE call = Idle
    BY <1>4, <2>1 DEF Crash, Queue!vars
  <2>2. CASE call # Idle
    <3>1. call.mail \in Mails
      BY <2>2 DEF IInv, TypeOK
    <3> QED
      BY <1>4, <2>2, <3>1 DEF Crash, OnFailed, Queue!Next
  <2> QED
    BY <2>1, <2>2
<1>5. CASE SendEmail \/ Return \/ (\E taken \in 0..1 : SendFails(taken))
           \/ Rest \/ UNCHANGED vars
  BY <1>5 DEF SendEmail, Return, SendFails, Rest, vars, Queue!vars
<1> QED
  BY <1>1, <1>2, <1>3, <1>4, <1>5 DEF Next, WorkerStep

(* EmailQueue implements JobQueue.                                         *)
THEOREM WorkerImplementsQueue == Spec => ImplementsQueue
<1>1. Init => Queue!Init
  BY DEF Init
<1> QED
  BY <1>1, Invariance, StepImplements, PTL DEF Spec, ImplementsQueue, Queue!Spec

(* Every doubled or lost mail, and every value, has the cause named.       *)
THEOREM DeliveriesHaveACause == Spec => []DeliveriesExplained
BY CopiesHaveACause, LossesHaveACause, ValuesSpeakOfTheFirst, PTL DEF DeliveriesExplained
-----------------------------------------------------------------------------
(* The import of employees: the worker's module is Import here (Workers).  *)

(* The job at work, or none.                                               *)
LEMMA ImportTheWork ==
    ASSUME Import!TypeOK
    PROVE  /\ work.pc = "idle" <=> work = Import!Idle
           /\ work.pc # "idle" => work \in Import!Jobs
<1>1. Import!Idle.pc = "idle"
  BY DEF Import!Idle
<1>2. \A w \in Import!Jobs : w.pc # "idle"
  BY DEF Import!Jobs
<1> QED
  BY <1>1, <1>2 DEF Import!TypeOK

LEMMA ImportSheetType ==
    ASSUME Import!ImportAssumption, Import!TypeOK, NEW f \in Files
    PROVE  sheet[f].size \in Nat /\ sheet[f].valid \subseteq 1..sheet[f].size
BY DEF Import!ImportAssumption, Import!TypeOK

LEMMA ImportNoCountType ==
    /\ Import!NoCount \in Import!Counts /\ Import!NoCount.total = 0
    /\ Import!NoCount.importSuccess = 0 /\ Import!NoCount.importFailure = 0
BY DEF Import!NoCount, Import!Counts

(* ImportUsers counts its rows as FiniteSets does.                         *)
LEMMA ImportCounts == \A S : Import!Cardinality(S) = Cardinality(S)
BY DEF Cardinality, Import!Cardinality

(* Sets of rows are finite; more rows, more of them.                       *)
LEMMA ImportRowSets ==
    ASSUME NEW n \in Nat, NEW A, NEW B, A \subseteq B, B \subseteq 1..n
    PROVE  /\ Import!Cardinality(A) \in Nat /\ Import!Cardinality(B) \in Nat
           /\ Import!Cardinality(A) <= Import!Cardinality(B)
<1>1. IsFiniteSet(1..n)
  BY FS_Interval
<1>2. IsFiniteSet(B)
  BY <1>1, FS_Subset
<1>3. /\ Cardinality(A) \in Nat /\ Cardinality(B) \in Nat
      /\ Cardinality(A) <= Cardinality(B)
  BY <1>2, FS_Subset, FS_CardinalityType
<1> QED
  BY <1>3, ImportCounts

(* One row more or less.                                                   *)
LEMMA ImportOneRow ==
    ASSUME NEW n \in Nat, NEW A, A \subseteq 1..n, NEW i
    PROVE  /\ Import!Cardinality(A) <= Import!Cardinality(A \ {i}) + 1
           /\ i \notin A
                => Import!Cardinality(A \union {i}) = Import!Cardinality(A) + 1
           /\ Import!Cardinality(A) \in Nat /\ Import!Cardinality(A \ {i}) \in Nat
<1>1. IsFiniteSet(A) /\ Cardinality(A) \in Nat
  <2>1. IsFiniteSet(1..n)
    BY FS_Interval
  <2>2. IsFiniteSet(A)
    BY <2>1, FS_Subset
  <2> QED
    BY <2>2, FS_CardinalityType
<1>2. Cardinality(A \ {i}) = IF i \in A THEN Cardinality(A) - 1 ELSE Cardinality(A)
  BY <1>1, FS_RemoveElement
<1>3. Cardinality(A \union {i}) = IF i \in A THEN Cardinality(A) ELSE Cardinality(A) + 1
  BY <1>1, FS_AddElement
<1>4. IsFiniteSet(A \ {i})
  BY <1>1, FS_Subset
<1>5. Cardinality(A \ {i}) \in Nat
  BY <1>4, FS_CardinalityType
<1> QED
  BY <1>1, <1>2, <1>3, <1>5, ImportCounts
-----------------------------------------------------------------------------
(* Steps of a job that write no table.                                     *)
ImportKnowsRows(w) ==
    /\ \A i \in Import!RowsToCome(w) : accounts[w.file][i] < jobRuns[w.file]
    /\ Import!CountOK(w) /\ Import!FirstRunOK(w)

ImportTables == <<sheet, jobState, jobRuns, accounts, members, reports, ends, broken>>

LEMMA ImportTablesStay ==
    ASSUME Import!IInv, UNCHANGED ImportTables, work' = work \/ work' \in Import!Jobs,
           upload' = upload
    PROVE  /\ (\/ work' = work
               \/ work'.file = work.file /\ work.pc # "idle") => Import!JobsOK'
           /\ Import!TypeOK' /\ Import!ReportsAreHonest' /\ Import!DoubledRowsExplained'
           /\ Import!StraysAreFailures' /\ Import!SilenceExplained'
<1>1. Import!TypeOK'
  BY DEF Import!IInv, Import!TypeOK, ImportTables, Import!Rows
<1>2. ASSUME work' = work \/ (work'.file = work.file /\ work.pc # "idle")
      PROVE  Import!JobsOK'
  <2>1. work'.pc # "idle" <=> work.pc # "idle"
    BY <1>2 DEF Import!Jobs
  <2> QED
    BY <1>2, <2>1 DEF Import!IInv, Import!JobsOK, ImportTables, Import!Rows
<1>3. Import!ReportsAreHonest' /\ Import!DoubledRowsExplained'
      /\ Import!StraysAreFailures' /\ Import!SilenceExplained'
  BY DEF Import!IInv, Import!ReportsAreHonest, Import!DoubledRowsExplained,
         Import!StraysAreFailures, Import!SilenceExplained, ImportTables, Import!Rows
<1> QED
  BY <1>1, <1>2, <1>3

LEMMA ImportWorkAlone ==
    ASSUME Import!IInv, UNCHANGED ImportTables, upload' = upload, work.pc # "idle",
           NEW w \in Import!Jobs, work' = w, w.file = work.file, ImportKnowsRows(w)
    PROVE  Import!IInv'
<1>1. Import!WorkOK'
  <2>1. ImportKnowsRows(w)'
    BY DEF ImportKnowsRows, Import!RowsToCome, Import!CountOK, Import!FirstRunOK,
           Import!Honest, Import!Joined, Import!Strays, Import!Rows, ImportTables
  <2> QED
    BY <2>1 DEF Import!WorkOK, ImportKnowsRows
<1> QED
  BY <1>1, ImportTablesStay DEF Import!IInv

LEMMA ImportUploadStep ==
    ASSUME Import!IInv, UNCHANGED ImportTables, work' = work,
           upload' \in [Files -> {"new", "refused", "saved", "error", "accepted"}]
    PROVE  Import!IInv'
<1>1. Import!TypeOK'
  BY DEF Import!IInv, Import!TypeOK, ImportTables, Import!Rows
<1>2. Import!JobsOK' /\ Import!WorkOK'
  BY DEF Import!IInv, Import!JobsOK, Import!WorkOK, Import!RowsToCome, Import!CountOK,
         Import!FirstRunOK, Import!Honest, Import!Joined, Import!Strays, Import!Rows,
         ImportTables
<1>3. Import!ReportsAreHonest' /\ Import!DoubledRowsExplained'
      /\ Import!StraysAreFailures' /\ Import!SilenceExplained'
  BY DEF Import!IInv, Import!ReportsAreHonest, Import!DoubledRowsExplained,
         Import!StraysAreFailures, Import!SilenceExplained, ImportTables, Import!Rows
<1> QED
  BY <1>1, <1>2, <1>3 DEF Import!IInv

LEMMA ImportSaveFileStep ==
    ASSUME Import!IInv, NEW f \in Files, Import!SaveFile(f)
    PROVE  Import!IInv'
<1>1. UNCHANGED ImportTables /\ work' = work
  BY DEF Import!SaveFile, ImportTables
<1>2. PICK to \in {"refused", "saved", "error"} : upload' = [upload EXCEPT ![f] = to]
  BY DEF Import!SaveFile
<1> QED
  BY <1>1, <1>2, ImportUploadStep DEF Import!IInv, Import!TypeOK

(* What holds of a row holds of the loop at the next one.                  *)
LEMMA ImportPrepareStep ==
    ASSUME Import!ImportAssumption, Import!IInv, Import!Prepare
    PROVE  Import!IInv'
<1> DEFINE f == work.file
           n == sheet[f].size
<1>0. /\ work.pc = "prepare" /\ UNCHANGED ImportTables /\ upload' = upload
      /\ work \in Import!Jobs /\ f \in Files /\ n \in Nat /\ ImportKnowsRows(work)
  BY ImportTheWork, ImportSheetType DEF Import!Prepare, ImportTables, Import!IInv,
         Import!Jobs, Import!WorkOK, ImportKnowsRows
<1>1. work.count = Import!NoCount
  BY <1>0 DEF ImportKnowsRows, Import!CountOK
<1>2. \A i \in Import!Rows(f) : accounts[f][i] < jobRuns[f]
  BY <1>0 DEF ImportKnowsRows, Import!RowsToCome
<1>3. jobRuns[f] = 1 => reports[f] = {} /\ Import!Strays(f) = {}
  <2>1. SUFFICES ASSUME jobRuns[f] = 1 PROVE Import!Strays(f) = {}
    BY <1>0 DEF ImportKnowsRows, Import!FirstRunOK
  <2>2. accounts[f] \in [Import!Rows(f) -> Nat] /\ members[f] \in [Import!Rows(f) -> Nat]
    BY <1>0 DEF Import!IInv, Import!TypeOK
  <2> QED
    BY <1>2, <2>1, <2>2 DEF Import!Strays
<1>4. Import!Cardinality({}) = 0
  BY FS_EmptySet, ImportCounts
<1>5. CASE work' = [work EXCEPT !.pc = "notify"]
  <2> DEFINE w == [work EXCEPT !.pc = "notify"]
  <2>1. w \in Import!Jobs /\ w.pc = "notify" /\ w.file = f /\ w.count = Import!NoCount
    BY <1>0, <1>1 DEF Import!Jobs
  <2> HIDE DEF w
  <2>2. ImportKnowsRows(w)
    BY <1>3, <1>4, <2>1, ImportNoCountType DEF ImportKnowsRows, Import!RowsToCome,
           Import!CountOK, Import!FirstRunOK, Import!Honest
  <2> QED
    BY <1>0, <1>5, <2>1, <2>2, ImportWorkAlone DEF w
<1>6. CASE work' = [work EXCEPT !.pc = "row", !.row = 1, !.count.total = n]
  <2> DEFINE c == [work.count EXCEPT !.total = n]
             w == [work EXCEPT !.pc = "row", !.row = 1, !.count = c]
  <2>1. work.count \in Import!Counts
    BY <1>0 DEF Import!Jobs
  <2>2. c \in Import!Counts /\ c.total = n /\ c.importSuccess = 0 /\ c.importFailure = 0
    BY <1>0, <1>1, <2>1, ImportNoCountType DEF Import!Counts
  <2>3. work' = w
    BY <1>6
  <2> HIDE DEF c
  <2>4. w \in Import!Jobs /\ w.pc = "row" /\ w.file = f /\ w.count = c /\ w.row = 1
    BY <1>0, <2>2 DEF Import!Jobs
  <2> HIDE DEF w
  <2>5. ImportKnowsRows(w)
    <3>1. \A i \in Import!RowsToCome(w) : accounts[f][i] < jobRuns[f]
      BY <1>2, <2>4 DEF Import!RowsToCome
    <3>2. Import!CountOK(w)
      <4>1. Import!Joined(f, 0) = {}
        BY DEF Import!Joined
      <4>2. 1 \in 1..n + 1 /\ 1 - 1 = 0 /\ 0 <= 0
        BY <1>0
      <4> QED
        BY <1>4, <2>2, <2>4, <4>1, <4>2 DEF Import!CountOK
    <3>3. Import!FirstRunOK(w)
      BY <1>3, <1>4, <2>2, <2>4 DEF Import!FirstRunOK
    <3> QED
      BY <2>4, <3>1, <3>2, <3>3 DEF ImportKnowsRows
  <2> QED
    BY <1>0, <2>3, <2>4, <2>5, ImportWorkAlone
<1> QED
  BY <1>5, <1>6 DEF Import!Prepare

LEMMA ImportEndLoopStep ==
    ASSUME Import!ImportAssumption, Import!IInv, Import!EndLoop
    PROVE  Import!IInv'
<1> DEFINE f == work.file
           n == sheet[f].size
           w == [work EXCEPT !.pc = "notify"]
<1>0. /\ work.pc = "row" /\ work.row > n /\ work' = w /\ UNCHANGED ImportTables
      /\ upload' = upload
      /\ work \in Import!Jobs /\ f \in Files /\ n \in Nat /\ ImportKnowsRows(work)
  BY ImportTheWork, ImportSheetType DEF Import!EndLoop, ImportTables, Import!IInv,
         Import!Jobs, Import!WorkOK, ImportKnowsRows
<1>1. w \in Import!Jobs /\ w.pc = "notify" /\ w.file = f /\ w.count = work.count
  BY <1>0 DEF Import!Jobs
<1> HIDE DEF w
<1>2. work.row = n + 1
  BY <1>0 DEF ImportKnowsRows, Import!CountOK
<1>3. Import!Honest(f, work.count)
  BY <1>0, <1>2 DEF ImportKnowsRows, Import!CountOK, Import!Honest
<1>4. ImportKnowsRows(w)
  BY <1>0, <1>1, <1>3 DEF ImportKnowsRows, Import!RowsToCome, Import!CountOK,
         Import!FirstRunOK
<1> QED
  BY <1>0, <1>1, <1>4, ImportWorkAlone


(* A row that failed, before its account was made or after.                *)
LEMMA ImportFailureStep ==
    ASSUME Import!ImportAssumption, Import!IInv, work.pc \in {"row", "join"},
           work.row <= sheet[work.file].size, work' = Import!Failure(work),
           UNCHANGED ImportTables, upload' = upload
    PROVE  Import!IInv'
<1> DEFINE f == work.file
           n == sheet[f].size
           i == work.row
           o == work.count
           x == o.importFailure + 1
           c == [o EXCEPT !.importFailure = x]
           k == i + 1
           w == [work EXCEPT !.pc = "row", !.row = k, !.count = c]
<1>0. /\ work \in Import!Jobs /\ f \in Files /\ n \in Nat /\ ImportKnowsRows(work)
  BY ImportTheWork, ImportSheetType DEF Import!IInv, Import!Jobs, Import!WorkOK,
         ImportKnowsRows
<1>1. work' = w
  BY DEF Import!Failure
<1>2. o \in Import!Counts /\ i \in Nat /\ i <= n
  BY <1>0 DEF Import!Jobs
<1>3. /\ o.total = n /\ o.importSuccess + o.importFailure = i - 1 /\ i \in 1..n
      /\ o.importSuccess <= Import!Cardinality(Import!Joined(f, i - 1))
  BY <1>0, <1>2 DEF ImportKnowsRows, Import!CountOK
<1>4. /\ o.importSuccess \in Nat /\ o.importFailure \in Nat /\ x \in Nat /\ k \in Nat
      /\ k \in 1..n + 1 /\ k - 1 = i /\ o.importSuccess + x = i
  BY <1>0, <1>2, <1>3 DEF Import!Counts
<1>5. x = o.importFailure + 1 /\ k = i + 1
  OBVIOUS
<1> HIDE DEF x, k
<1>6. c \in Import!Counts /\ c.total = n /\ c.importSuccess = o.importSuccess
      /\ c.importFailure = x
  BY <1>2, <1>3, <1>4 DEF Import!Counts
<1> HIDE DEF c
<1>7. w \in Import!Jobs /\ w.pc = "row" /\ w.file = f /\ w.row = k /\ w.count = c
  BY <1>0, <1>4, <1>6 DEF Import!Jobs
<1> HIDE DEF w
<1>8. \A r \in Import!RowsToCome(w) : accounts[f][r] < jobRuns[f]
  <2>1. ASSUME NEW r \in Import!Rows(f), k <= r PROVE i < r /\ i <= r
    BY <1>0, <1>2, <1>5, <2>1 DEF Import!Rows
  <2>2. Import!RowsToCome(w) \subseteq Import!RowsToCome(work)
    BY <1>2, <1>7, <2>1 DEF Import!RowsToCome
  <2> QED
    BY <1>0, <2>2 DEF ImportKnowsRows
<1>9. Import!CountOK(w)
  <2>1. Import!Joined(f, i - 1) \subseteq Import!Joined(f, i)
        /\ Import!Joined(f, i) \subseteq 1..i
    BY <1>2 DEF Import!Joined
  <2>2. /\ Import!Cardinality(Import!Joined(f, i - 1))
              <= Import!Cardinality(Import!Joined(f, i))
        /\ Import!Cardinality(Import!Joined(f, i - 1)) \in Nat
              /\ Import!Cardinality(Import!Joined(f, i)) \in Nat
    BY <1>2, <2>1, ImportRowSets
  <2>3. o.importSuccess <= Import!Cardinality(Import!Joined(f, k - 1))
    BY <1>3, <1>4, <2>2
  <2> QED
    BY <1>4, <1>6, <1>7, <2>3 DEF Import!CountOK
<1>10. Import!FirstRunOK(w)
  <2>1. SUFFICES ASSUME jobRuns[f] = 1
                 PROVE  reports[f] = {} /\ Import!Cardinality(Import!Strays(f)) <= x
    BY <1>6, <1>7 DEF Import!FirstRunOK
  <2>2. Import!Strays(f) \subseteq 1..n
    BY DEF Import!Strays, Import!Rows
  <2>3. /\ Import!Cardinality(Import!Strays(f))
              <= Import!Cardinality(Import!Strays(f) \ {i}) + 1
        /\ Import!Cardinality(Import!Strays(f)) \in Nat
              /\ Import!Cardinality(Import!Strays(f) \ {i}) \in Nat
    BY <1>0, <2>2, ImportOneRow
  <2>4. /\ reports[f] = {}
        /\ \/ Import!Cardinality(Import!Strays(f)) <= o.importFailure
           \/ Import!Cardinality(Import!Strays(f) \ {i}) <= o.importFailure
    BY <1>0, <2>1 DEF ImportKnowsRows, Import!FirstRunOK
  <2> QED
    BY <1>4, <1>5, <2>3, <2>4
<1> QED
  BY <1>0, <1>1, <1>7, <1>8, <1>9, <1>10, ImportWorkAlone DEF ImportKnowsRows

(* The row's account exists.                                               *)
LEMMA ImportAccountStep ==
    ASSUME Import!ImportAssumption, Import!IInv, work.pc = "row",
           work.row <= sheet[work.file].size,
           work' = [work EXCEPT !.pc = "join"], accounts' = Import!Count(work.file, work.row),
           UNCHANGED <<sheet, jobState, jobRuns, upload, members, reports, ends, broken>>
    PROVE  Import!IInv'
<1> PICK f, i, w, o : f = work.file /\ i = work.row /\ o = work.count
                      /\ w = [work EXCEPT !.pc = "join"]
  OBVIOUS
<1> DEFINE n == sheet[f].size
<1>0. /\ work \in Import!Jobs /\ f \in Files /\ n \in Nat /\ ImportKnowsRows(work)
      /\ Import!TypeOK /\ Import!JobsOK
  BY ImportTheWork, ImportSheetType DEF Import!IInv, Import!Jobs, Import!WorkOK,
         ImportKnowsRows
<1>1. w \in Import!Jobs /\ w.pc = "join" /\ w.file = f /\ w.row = i /\ w.count = o
  BY <1>0 DEF Import!Jobs
<1>2. i \in Import!Rows(f) /\ i \in 1..n /\ i \in Nat
  BY <1>0 DEF ImportKnowsRows, Import!CountOK, Import!Rows, Import!Jobs
<1>3. /\ accounts[f] \in [Import!Rows(f) -> Nat] /\ members[f] \in [Import!Rows(f) -> Nat]
      /\ jobRuns[f] \in Nat
  BY <1>0 DEF Import!TypeOK, Import!ImportAssumption
<1>4. /\ DOMAIN accounts' = Files /\ \A g \in Files \ {f} : accounts'[g] = accounts[g]
      /\ accounts'[f] \in [Import!Rows(f) -> Nat] /\ accounts'[f][i] = accounts[f][i] + 1
      /\ \A r \in Import!Rows(f) \ {i} : accounts'[f][r] = accounts[f][r]
  BY <1>0, <1>2, <1>3 DEF Import!Count, Import!TypeOK
<1>5. accounts[f][i] < jobRuns[f]
  BY <1>0, <1>2 DEF ImportKnowsRows, Import!RowsToCome, Import!Jobs
<1>6. jobRuns[f] # 0
  BY <1>0 DEF Import!JobsOK
<1>7. Import!TypeOK'
  BY <1>0, <1>1, <1>4 DEF Import!TypeOK, Import!Rows
<1>8. Import!JobsOK'
  BY <1>0, <1>1, <1>4, <1>6 DEF Import!JobsOK, Import!Rows
<1>9. Import!WorkOK'
  <2>1. \A r \in Import!RowsToCome(w)' : accounts'[f][r] < jobRuns[f]
    <3>1. ASSUME NEW r \in Import!Rows(f), i < r
          PROVE  accounts'[f][r] < jobRuns[f]
      <4>1. r # i /\ i <= r
        BY <1>0, <1>2, <3>1 DEF Import!Rows
      <4> QED
        BY <1>0, <1>4, <3>1, <4>1 DEF ImportKnowsRows, Import!RowsToCome
    <3> QED
      BY <1>1, <3>1 DEF Import!RowsToCome, Import!Rows
  <2>2. Import!CountOK(w)'
    BY <1>0, <1>1 DEF ImportKnowsRows, Import!CountOK, Import!Joined
  <2>3. Import!FirstRunOK(w)'
    <3>1. SUFFICES ASSUME jobRuns[f] = 1
                   PROVE  reports[f] = {}
                         /\ Import!Cardinality(Import!Strays(f)' \ {i}) <= o.importFailure
      BY <1>1 DEF Import!FirstRunOK
    <3>2. reports[f] = {} /\ Import!Cardinality(Import!Strays(f)) <= o.importFailure
      BY <1>0, <3>1 DEF ImportKnowsRows, Import!FirstRunOK
    <3>3. Import!Strays(f)' \ {i} \subseteq Import!Strays(f) /\ Import!Strays(f) \subseteq 1..n
      BY <1>4 DEF Import!Strays, Import!Rows
    <3>4. /\ Import!Cardinality(Import!Strays(f)' \ {i}) <= Import!Cardinality(Import!Strays(f))
          /\ Import!Cardinality(Import!Strays(f)' \ {i}) \in Nat
                /\ Import!Cardinality(Import!Strays(f)) \in Nat
      BY <1>0, <3>3, ImportRowSets
    <3>5. o.importFailure \in Nat
      BY <1>0 DEF Import!Jobs, Import!Counts
    <3> QED
      BY <3>2, <3>4, <3>5
  <2>4. Import!WorkOK' <=>
          (w.pc # "idle" =>
             (\A r \in Import!RowsToCome(w)' : accounts'[f][r] < jobRuns[f])
                   /\ Import!CountOK(w)' /\ Import!FirstRunOK(w)')
    BY <1>1 DEF Import!WorkOK
  <2> QED
    BY <2>1, <2>2, <2>3, <2>4
<1>10. Import!ReportsAreHonest' /\ Import!SilenceExplained'
  BY DEF Import!IInv, Import!ReportsAreHonest, Import!SilenceExplained, Import!Rows
<1>11. Import!DoubledRowsExplained'
  <2>1. \A r \in Import!Rows(f) : accounts'[f][r] <= jobRuns[f]
    BY <1>0, <1>2, <1>3, <1>4, <1>5 DEF Import!IInv, Import!DoubledRowsExplained
  <2> QED
    BY <1>4, <2>1 DEF Import!IInv, Import!DoubledRowsExplained, Import!Rows
<1>12. Import!StraysAreFailures'
  <2>1. jobRuns[f] = 1 => reports[f] = {}
    BY <1>0 DEF ImportKnowsRows, Import!FirstRunOK
  <2> QED
    BY <1>4, <2>1 DEF Import!IInv, Import!StraysAreFailures, Import!Rows
<1> QED
  BY <1>7, <1>8, <1>9, <1>10, <1>11, <1>12 DEF Import!IInv


(* The account is in the group.                                            *)
LEMMA ImportMemberStep ==
    ASSUME Import!ImportAssumption, Import!IInv, work.pc = "join",
           work' = Import!Success(work),
           members' = [members EXCEPT ![work.file][work.row] = @ + 1],
           UNCHANGED <<sheet, jobState, jobRuns, upload, accounts, reports, ends, broken>>
    PROVE  Import!IInv'
<1> PICK f, i, o : f = work.file /\ i = work.row /\ o = work.count
  OBVIOUS
<1> DEFINE n == sheet[f].size
           x == o.importSuccess + 1
           c == [o EXCEPT !.importSuccess = x]
           k == i + 1
           v == [work EXCEPT !.pc = "row", !.row = k, !.count = c]
<1>0. /\ work \in Import!Jobs /\ f \in Files /\ n \in Nat /\ ImportKnowsRows(work)
      /\ Import!TypeOK /\ Import!JobsOK
  BY ImportTheWork, ImportSheetType DEF Import!IInv, Import!Jobs, Import!WorkOK,
         ImportKnowsRows
<1>a. work' = v
  BY DEF Import!Success
<1>2. o \in Import!Counts /\ i \in Nat
  BY <1>0 DEF Import!Jobs
<1>3. /\ o.total = n /\ o.importSuccess + o.importFailure = i - 1 /\ i \in 1..n
      /\ o.importSuccess <= Import!Cardinality(Import!Joined(f, i - 1)) /\ i <= n
  BY <1>0, <1>2 DEF ImportKnowsRows, Import!CountOK
<1>4. /\ o.importSuccess \in Nat /\ o.importFailure \in Nat /\ x \in Nat /\ k \in Nat
      /\ k \in 1..n + 1 /\ k - 1 = i /\ x + o.importFailure = i
  BY <1>0, <1>2, <1>3 DEF Import!Counts
<1>5. x = o.importSuccess + 1 /\ k = i + 1
  OBVIOUS
<1> HIDE DEF x, k
<1>6. c \in Import!Counts /\ c.total = n /\ c.importSuccess = x
      /\ c.importFailure = o.importFailure
  BY <1>2, <1>3, <1>4 DEF Import!Counts
<1> HIDE DEF c
<1> PICK w : w = v
  OBVIOUS
<1>7. w \in Import!Jobs /\ w.pc = "row" /\ w.file = f /\ w.row = k /\ w.count = c /\ work' = w
  BY <1>0, <1>4, <1>6, <1>a DEF Import!Jobs
<1> HIDE DEF v
<1>8. /\ accounts[f] \in [Import!Rows(f) -> Nat] /\ members[f] \in [Import!Rows(f) -> Nat]
      /\ jobRuns[f] \in Nat /\ i \in Import!Rows(f)
  BY <1>0, <1>3 DEF Import!TypeOK, Import!ImportAssumption, Import!Rows
<1>9. /\ DOMAIN members' = Files /\ \A g \in Files \ {f} : members'[g] = members[g]
      /\ members'[f] \in [Import!Rows(f) -> Nat] /\ members'[f][i] = members[f][i] + 1
      /\ \A r \in Import!Rows(f) \ {i} : members'[f][r] = members[f][r]
  BY <1>0, <1>8 DEF Import!TypeOK
<1>10. Import!TypeOK'
  BY <1>0, <1>7, <1>9 DEF Import!TypeOK, Import!Rows
<1>11. Import!JobsOK'
  BY <1>0, <1>7 DEF Import!JobsOK, Import!Rows
<1>12. Import!WorkOK'
  <2>1. \A r \in Import!RowsToCome(w)' : accounts[f][r] < jobRuns[f]
    <3>1. ASSUME NEW r \in Import!Rows(f), k <= r PROVE i < r /\ i <= r
      BY <1>0, <1>2, <1>5, <3>1 DEF Import!Rows
    <3>2. Import!RowsToCome(w)' \subseteq Import!RowsToCome(work)
      BY <1>2, <1>7, <3>1 DEF Import!RowsToCome, Import!Rows
    <3> QED
      BY <1>0, <3>2 DEF ImportKnowsRows
  <2>2. Import!CountOK(w)'
    <3>1. /\ Import!Joined(f, i - 1) \union {i} \subseteq Import!Joined(f, i)'
          /\ Import!Joined(f, i)' \subseteq 1..i
          /\ Import!Joined(f, i - 1) \subseteq 1..i /\ i \notin Import!Joined(f, i - 1)
      <4>1. \A r \in 1..i - 1 : r \in 1..i /\ r \in Import!Rows(f) /\ r # i
        BY <1>0, <1>2, <1>3 DEF Import!Rows
      <4>2. i \notin 1..i - 1 /\ i \in 1..i
        BY <1>2, <1>3
      <4>3. \A r \in 1..i - 1 : members'[f][r] = members[f][r]
        BY <1>9, <4>1
      <4>4. members'[f][i] > 0
        BY <1>8, <1>9
      <4>5. Import!Joined(f, i)' = {r \in 1..i : members'[f][r] > 0}
        BY DEF Import!Joined
      <4> QED
        BY <4>1, <4>2, <4>3, <4>4, <4>5 DEF Import!Joined
    <3>2. /\ Import!Cardinality(Import!Joined(f, i - 1)) \in Nat
          /\ Import!Cardinality(Import!Joined(f, i - 1) \union {i})
                = Import!Cardinality(Import!Joined(f, i - 1)) + 1
      BY <1>2, <3>1, ImportOneRow
    <3>3. /\ Import!Cardinality(Import!Joined(f, i - 1) \union {i})
                <= Import!Cardinality(Import!Joined(f, i)')
          /\ Import!Cardinality(Import!Joined(f, i)') \in Nat
      BY <1>2, <3>1, ImportRowSets
    <3>4. x <= Import!Cardinality(Import!Joined(f, i)')
      BY <1>3, <1>4, <1>5, <3>2, <3>3
    <3>5. sheet' = sheet
      OBVIOUS
    <3>6. x <= Import!Cardinality(Import!Joined(w.file, w.row - 1)')
      BY <1>4, <1>7, <3>4
    <3> QED
      BY <1>4, <1>6, <1>7, <3>5, <3>6 DEF Import!CountOK
  <2>3. Import!FirstRunOK(w)'
    <3>1. SUFFICES ASSUME jobRuns[f] = 1
                   PROVE  reports[f] = {}
                         /\ Import!Cardinality(Import!Strays(f)') <= o.importFailure
      BY <1>6, <1>7 DEF Import!FirstRunOK
    <3>2. reports[f] = {} /\ Import!Cardinality(Import!Strays(f) \ {i}) <= o.importFailure
      BY <1>0, <3>1 DEF ImportKnowsRows, Import!FirstRunOK
    <3>3. accounts[f][i] <= 1
      BY <1>0, <1>8, <3>1 DEF Import!IInv, Import!DoubledRowsExplained
    <3>4. Import!Strays(f)' \subseteq Import!Strays(f) \ {i}
          /\ Import!Strays(f) \ {i} \subseteq 1..n
      <4>1. Import!Strays(f)' = {r \in Import!Rows(f) : accounts[f][r] > members'[f][r]}
        BY DEF Import!Strays, Import!Rows
      <4>2. ~(accounts[f][i] > members'[f][i])
        BY <1>8, <1>9, <3>3
      <4> QED
        BY <1>9, <4>1, <4>2 DEF Import!Strays, Import!Rows
    <3>5. /\ Import!Cardinality(Import!Strays(f)') <= Import!Cardinality(Import!Strays(f) \ {i})
          /\ Import!Cardinality(Import!Strays(f)') \in Nat
                /\ Import!Cardinality(Import!Strays(f) \ {i}) \in Nat
      BY <1>0, <3>4, ImportRowSets
    <3> QED
      BY <1>4, <3>2, <3>5
  <2>4. Import!WorkOK' <=>
          (w.pc # "idle" =>
             (\A r \in Import!RowsToCome(w)' : accounts[f][r] < jobRuns[f])
                   /\ Import!CountOK(w)' /\ Import!FirstRunOK(w)')
    BY <1>7 DEF Import!WorkOK
  <2> QED
    BY <2>1, <2>2, <2>3, <2>4
<1>13. \A g \in Files : \A r \in Import!Rows(g) : members[g][r] \in Nat
      /\ members'[g][r] \in Nat
                                           /\ members[g][r] <= members'[g][r]
  BY <1>0, <1>8, <1>9 DEF Import!TypeOK
<1>14. Import!ReportsAreHonest'
  <2>1. SUFFICES ASSUME NEW g \in Files, NEW r \in reports[g], r # Import!NoCount
                 PROVE  /\ r.total = sheet[g].size
                        /\ r.importSuccess + r.importFailure = r.total
                        /\ r.importSuccess <=
                              Import!Cardinality({j \in Import!Rows(g) : members'[g][j] > 0})
    BY DEF Import!ReportsAreHonest, Import!Rows
  <2> DEFINE A == {j \in Import!Rows(g) : members[g][j] > 0}
             B == {j \in Import!Rows(g) : members'[g][j] > 0}
  <2>2. /\ r.total = sheet[g].size /\ r.importSuccess + r.importFailure = r.total
        /\ r.importSuccess <= Import!Cardinality(A)
    BY <2>1 DEF Import!IInv, Import!ReportsAreHonest
  <2>3. sheet[g].size \in Nat
    BY <1>0, ImportSheetType
  <2>4. A \subseteq B /\ B \subseteq 1..sheet[g].size
    BY <1>13 DEF Import!Rows
  <2> HIDE DEF A, B
  <2>5. Import!Cardinality(A) <= Import!Cardinality(B) /\ Import!Cardinality(A) \in Nat
        /\ Import!Cardinality(B) \in Nat
    BY <2>3, <2>4, ImportRowSets
  <2>6. r.importSuccess \in Nat
    <3>1. r \in Import!Counts
      BY <1>0 DEF Import!TypeOK
    <3> QED
      BY <3>1 DEF Import!Counts
  <2>7. r.importSuccess <= Import!Cardinality(B)
    BY <2>2, <2>5, <2>6
  <2> QED
    BY <2>2, <2>7 DEF B
<1>15. Import!DoubledRowsExplained' /\ Import!SilenceExplained'
  BY DEF Import!IInv, Import!DoubledRowsExplained, Import!SilenceExplained, Import!Rows
<1>16. Import!StraysAreFailures'
  <2>1. jobRuns[f] = 1 => reports[f] = {}
    BY <1>0 DEF ImportKnowsRows, Import!FirstRunOK
  <2> QED
    BY <1>9, <2>1 DEF Import!IInv, Import!StraysAreFailures, Import!Rows
<1> QED
  BY <1>10, <1>11, <1>12, <1>14, <1>15, <1>16 DEF Import!IInv

(* The uploader is notified.                                               *)
LEMMA ImportNotifyStep ==
    ASSUME Import!ImportAssumption, Import!IInv, work.pc = "notify",
           reports' = [reports EXCEPT ![work.file] = @ \union {work.count}],
           work' = [work EXCEPT !.pc = "complete"],
           UNCHANGED <<sheet, jobState, jobRuns, upload, accounts, members, ends, broken>>
    PROVE  Import!IInv'
<1> PICK f, o, w : f = work.file /\ o = work.count /\ w = [work EXCEPT !.pc = "complete"]
  OBVIOUS
<1> DEFINE n == sheet[f].size
<1>0. /\ work \in Import!Jobs /\ f \in Files /\ n \in Nat /\ ImportKnowsRows(work)
      /\ Import!TypeOK /\ Import!JobsOK
      /\ o \in Import!Counts /\ Import!Honest(f, o)
  BY ImportTheWork, ImportSheetType DEF Import!IInv, Import!Jobs, Import!WorkOK,
         ImportKnowsRows, Import!CountOK
<1>1. w \in Import!Jobs /\ w.pc = "complete" /\ w.file = f /\ work' = w
  BY <1>0 DEF Import!Jobs
<1>2. /\ reports' \in [Files -> SUBSET Import!Counts] /\ reports'[f] = reports[f] \union {o}
      /\ \A g \in Files \ {f} : reports'[g] = reports[g]
  BY <1>0 DEF Import!TypeOK
<1>3. jobState[f] = "active" /\ jobRuns[f] > 0 /\ jobRuns[f] # 0
  BY <1>0 DEF Import!JobsOK, Import!TypeOK, Import!ImportAssumption
<1>4. Import!TypeOK'
  BY <1>0, <1>1, <1>2 DEF Import!TypeOK, Import!Rows
<1>5. Import!JobsOK'
  BY <1>0, <1>1, <1>2, <1>3 DEF Import!JobsOK, Import!Rows
<1>6. Import!WorkOK'
  <2>1. Import!RowsToCome(w)' = {}
    BY <1>1 DEF Import!RowsToCome
  <2>2. Import!CountOK(w)' /\ Import!FirstRunOK(w)'
    BY <1>1, <1>2 DEF Import!CountOK, Import!FirstRunOK
  <2>3. Import!WorkOK' <=>
          (w.pc # "idle" =>
             (\A r \in Import!RowsToCome(w)' : accounts[f][r] < jobRuns[f])
                   /\ Import!CountOK(w)' /\ Import!FirstRunOK(w)')
    BY <1>1 DEF Import!WorkOK
  <2> QED
    BY <2>1, <2>2, <2>3
<1>7. Import!ReportsAreHonest'
  <2>1. \/ o = Import!NoCount
        \/ /\ o.total = sheet[f].size
           /\ o.importSuccess + o.importFailure = o.total
           /\ o.importSuccess <= Import!Cardinality({i \in Import!Rows(f) : members[f][i] > 0})
    <3>1. o.total = sheet[f].size
              => Import!Joined(f, o.total) = {i \in Import!Rows(f) : members[f][i] > 0}
      BY DEF Import!Joined, Import!Rows
    <3> QED
      BY <1>0, <3>1 DEF Import!Honest
  <2>2. /\ sheet' = sheet /\ members' = members
        /\ \A g \in Files : \A r \in reports'[g] : r \in reports[g] \/ (g = f /\ r = o)
    BY <1>2
  <2> QED
    BY <2>1, <2>2 DEF Import!IInv, Import!ReportsAreHonest, Import!Rows
<1>8. Import!DoubledRowsExplained'
  BY DEF Import!IInv, Import!DoubledRowsExplained, Import!Rows
<1>9. Import!SilenceExplained'
  BY <1>2, <1>3 DEF Import!IInv, Import!SilenceExplained
<1>10. Import!StraysAreFailures'
  <2>1. jobRuns[f] = 1 => reports[f] = {}
        /\ Import!Cardinality(Import!Strays(f)) <= o.importFailure
    BY <1>0 DEF ImportKnowsRows, Import!FirstRunOK
  <2>2. /\ jobRuns' = jobRuns /\ accounts' = accounts /\ members' = members /\ sheet' = sheet
        /\ \A g \in Files : \A r \in reports'[g] : r \in reports[g] \/ (g = f /\ r = o)
    BY <1>2
  <2> QED
    BY <2>1, <2>2 DEF Import!IInv, Import!StraysAreFailures, Import!Strays, Import!Rows
<1> QED
  BY <1>4, <1>5, <1>6, <1>7, <1>8, <1>9, <1>10 DEF Import!IInv


LEMMA ImportAddFileStep ==
    ASSUME Import!ImportAssumption, Import!IInv, NEW f \in Files, Import!AddFileToQueue(f)
    PROVE  Import!IInv'
<1>1. CASE UNCHANGED <<jobState, jobRuns>> /\ upload' = [upload EXCEPT ![f] = "error"]
  <2>1. UNCHANGED ImportTables /\ work' = work
    BY <1>1 DEF Import!AddFileToQueue, ImportTables
  <2> QED
    BY <1>1, <2>1, ImportUploadStep DEF Import!IInv, Import!TypeOK
<1>2. CASE Import!Queue!Add(f) /\ upload' = [upload EXCEPT ![f] = "accepted"]
  <2>0. /\ jobState[f] = "none" /\ jobState' = [jobState EXCEPT ![f] = "waiting"]
        /\ jobRuns' = jobRuns
        /\ UNCHANGED <<sheet, work, accounts, members, reports, ends, broken>>
    BY <1>2 DEF Import!AddFileToQueue, Import!Queue!Add, Import!Queue!Move
  <2>1. /\ jobState' \in [Files -> Import!Queue!States] /\ jobState'[f] = "waiting"
        /\ \A g \in Files \ {f} : jobState'[g] = jobState[g]
    BY <2>0 DEF Import!IInv, Import!TypeOK, Import!Queue!States
  <2>2. jobRuns[f] = 0 /\ ends \in Nat /\ Repeats \in Nat
    BY <2>0 DEF Import!IInv, Import!JobsOK, Import!TypeOK, Import!ImportAssumption
  <2>3. Import!TypeOK'
    BY <1>2, <2>0, <2>1 DEF Import!IInv, Import!TypeOK, Import!Rows
  <2>4. Import!JobsOK'
    BY <2>0, <2>1, <2>2 DEF Import!IInv, Import!JobsOK, Import!Rows
  <2>5. Import!WorkOK'
    BY <2>0 DEF Import!IInv, Import!WorkOK, Import!RowsToCome, Import!CountOK,
           Import!FirstRunOK, Import!Honest, Import!Joined, Import!Strays, Import!Rows
  <2>6. Import!ReportsAreHonest' /\ Import!DoubledRowsExplained' /\ Import!StraysAreFailures'
    BY <2>0 DEF Import!IInv, Import!ReportsAreHonest, Import!DoubledRowsExplained,
           Import!StraysAreFailures, Import!Rows
  <2>7. Import!SilenceExplained'
    BY <2>0, <2>1 DEF Import!IInv, Import!SilenceExplained
  <2> QED
    BY <2>3, <2>4, <2>5, <2>6, <2>7 DEF Import!IInv
<1> QED
  BY <1>1, <1>2 DEF Import!AddFileToQueue

(* A run begins: no row of the sheet has an account of this run.           *)
LEMMA ImportTakeStep ==
    ASSUME Import!ImportAssumption, Import!IInv, NEW f \in Files, Import!Take(f)
    PROVE  Import!IInv'
<1> PICK w : w = [pc |-> "read", file |-> f, row |-> 0, count |-> Import!NoCount]
  OBVIOUS
<1> DEFINE x == jobRuns[f] + 1
<1>0. /\ jobState[f] = "waiting" /\ jobState' = [jobState EXCEPT ![f] = "active"]
      /\ jobRuns' = [jobRuns EXCEPT ![f] = x] /\ work' = w
      /\ \A g \in Files : jobState[g] # "active"
      /\ UNCHANGED <<sheet, upload, accounts, members, reports, ends, broken>>
  BY DEF Import!Take, Import!Queue!Start, Import!Queue!Move
<1>1. w \in Import!Jobs /\ w.pc = "read" /\ w.file = f /\ w.count = Import!NoCount
  BY ImportNoCountType DEF Import!Jobs
<1>2. /\ jobRuns[f] \in 0..Repeats + 1 /\ jobRuns[f] <= ends /\ jobRuns[f] <= Repeats
      /\ ends \in Nat /\ Repeats \in Nat
  BY <1>0 DEF Import!IInv, Import!JobsOK, Import!TypeOK, Import!ImportAssumption
<1>3. /\ jobRuns[f] \in Nat /\ x \in 0..Repeats + 1 /\ x > 0 /\ x # 0 /\ x <= 1 + ends
      /\ jobRuns[f] < x /\ (x = 1 => jobRuns[f] = 0)
  BY <1>2
<1> HIDE DEF x
<1>4. /\ jobState' \in [Files -> Import!Queue!States] /\ jobState'[f] = "active"
      /\ \A g \in Files \ {f} : jobState'[g] = jobState[g]
  BY <1>0 DEF Import!IInv, Import!TypeOK, Import!Queue!States
<1>5. /\ jobRuns' \in [Files -> 0..Repeats + 1] /\ jobRuns'[f] = x
      /\ \A g \in Files \ {f} : jobRuns'[g] = jobRuns[g]
  BY <1>0, <1>3 DEF Import!IInv, Import!TypeOK
<1>6. /\ Import!TypeOK /\ accounts[f] \in [Import!Rows(f) -> Nat]
      /\ \A i \in Import!Rows(f) : accounts[f][i] \in Nat /\ accounts[f][i] <= jobRuns[f]
  BY DEF Import!IInv, Import!TypeOK, Import!DoubledRowsExplained
<1>7. \A i \in Import!Rows(f) : accounts[f][i] < x /\ accounts[f][i] <= x
  BY <1>3, <1>6
<1>8. Import!TypeOK'
  BY <1>0, <1>1, <1>4, <1>5 DEF Import!IInv, Import!TypeOK, Import!Rows
<1>9. Import!JobsOK'
  <2>1. work.pc = "idle" \/ work.file # f
    BY <1>0 DEF Import!IInv, Import!JobsOK
  <2>2. \A g \in Files : ~(work.pc # "idle" /\ work.file = g)
    BY <1>0 DEF Import!IInv, Import!JobsOK
  <2> QED
    BY <1>0, <1>1, <1>3, <1>4, <1>5, <2>2 DEF Import!IInv, Import!JobsOK, Import!Rows
<1>10. Import!WorkOK'
  <2>1. \A i \in Import!RowsToCome(w)' : accounts[f][i] < x
    BY <1>0, <1>1, <1>7 DEF Import!RowsToCome, Import!Rows
  <2>2. Import!CountOK(w)'
    BY <1>1 DEF Import!CountOK
  <2>3. x = 1 => reports[f] = {}
    BY <1>3 DEF Import!IInv, Import!JobsOK
  <2>4. Import!FirstRunOK(w)'
    BY <1>0, <1>1, <1>5, <2>3 DEF Import!FirstRunOK
  <2>5. Import!WorkOK' <=>
          (w.pc # "idle" =>
             (\A i \in Import!RowsToCome(w)' : accounts[f][i] < x) /\ Import!CountOK(w)'
                   /\ Import!FirstRunOK(w)')
    BY <1>0, <1>1, <1>5 DEF Import!WorkOK
  <2> QED
    BY <2>1, <2>2, <2>4, <2>5
<1>11. Import!ReportsAreHonest'
  BY <1>0 DEF Import!IInv, Import!ReportsAreHonest, Import!Rows
<1>12. Import!DoubledRowsExplained'
  BY <1>0, <1>3, <1>5, <1>7 DEF Import!IInv, Import!DoubledRowsExplained, Import!Rows
<1>13. Import!StraysAreFailures'
  <2>1. x = 1 => reports[f] = {}
    BY <1>3 DEF Import!IInv, Import!JobsOK
  <2> QED
    BY <1>0, <1>5, <2>1 DEF Import!IInv, Import!StraysAreFailures, Import!Rows
<1>14. Import!SilenceExplained'
  BY <1>0, <1>4, <1>5 DEF Import!IInv, Import!SilenceExplained
<1> QED
  BY <1>8, <1>9, <1>10, <1>11, <1>12, <1>13, <1>14 DEF Import!IInv

(* The active job leaves the worker.                                       *)
LEMMA ImportJobLeaves ==
    ASSUME Import!ImportAssumption, Import!IInv, work.pc # "idle", work' = Import!Idle,
           NEW to \in {"waiting", "completed", "failed"},
           jobState' = [jobState EXCEPT ![work.file] = to],
           to = "waiting" => jobRuns[work.file] <= ends' /\ jobRuns[work.file] <= Repeats,
           to \in {"completed", "failed"} =>
               \/ reports[work.file] # {} \/ work.file \in broken'
               \/ jobRuns[work.file] = Repeats + 1 /\ ends' > Repeats,
           ends' \in 0..MaxCrashes, ends <= ends',
           broken \subseteq broken', broken' \subseteq Files,
           upload' \in [Files -> {"new", "refused", "saved", "error", "accepted"}],
           UNCHANGED <<sheet, jobRuns, accounts, members, reports>>
    PROVE  Import!IInv'
<1> PICK f : f = work.file
  OBVIOUS
<1>0. /\ f \in Files /\ Import!TypeOK /\ Import!JobsOK /\ work \in Import!Jobs
  BY ImportTheWork DEF Import!IInv, Import!Jobs
<1>1. /\ jobState' \in [Files -> Import!Queue!States] /\ jobState'[f] = to
      /\ \A g \in Files \ {f} : jobState'[g] = jobState[g]
  BY <1>0 DEF Import!TypeOK, Import!Queue!States
<1>2. Import!Idle.pc = "idle" /\ work'.pc = "idle"
  BY DEF Import!Idle
<1>3. Import!TypeOK'
  BY <1>1 DEF Import!IInv, Import!TypeOK, Import!Rows
<1>4. \A g \in Files : jobRuns[g] \in Nat
  BY <1>0 DEF Import!TypeOK, Import!ImportAssumption
<1>5. ends \in Nat /\ ends' \in Nat /\ Repeats \in Nat
  BY <1>0 DEF Import!TypeOK, Import!ImportAssumption
<1>6. Import!JobsOK'
  <2>1. \A g \in Files : jobState'[g] # "active"
    BY <1>0, <1>1 DEF Import!JobsOK
  <2>2. \A g \in Files : jobState'[g] = "none" => jobRuns[g] = 0
    BY <1>0, <1>1 DEF Import!JobsOK
  <2>3. \A g \in Files : jobState'[g] = "waiting" => jobRuns[g] <= ends'
        /\ jobRuns[g] <= Repeats
    BY <1>0, <1>1, <1>4, <1>5 DEF Import!JobsOK
  <2>4. \A g \in Files : jobRuns[g] = 0
            => reports[g] = {} /\ \A i \in Import!Rows(g)' : accounts[g][i] = 0
    BY <1>0 DEF Import!JobsOK, Import!Rows
  <2>5. /\ jobRuns' = jobRuns /\ reports' = reports /\ accounts' = accounts
    OBVIOUS
  <2> QED
    BY <1>2, <2>1, <2>2, <2>3, <2>4, <2>5 DEF Import!JobsOK
<1>7. Import!WorkOK'
  BY <1>2 DEF Import!WorkOK
<1>8. Import!ReportsAreHonest' /\ Import!StraysAreFailures'
  BY DEF Import!IInv, Import!ReportsAreHonest, Import!StraysAreFailures, Import!Rows
<1>9. Import!DoubledRowsExplained'
  <2>1. \A g \in Files : jobRuns[g] <= 1 + ends => jobRuns[g] <= 1 + ends'
    BY <1>4, <1>5
  <2> QED
    BY <2>1 DEF Import!IInv, Import!DoubledRowsExplained, Import!Rows
<1>10. Import!SilenceExplained'
  BY <1>1, <1>5 DEF Import!IInv, Import!SilenceExplained
<1> QED
  BY <1>3, <1>6, <1>7, <1>8, <1>9, <1>10 DEF Import!IInv

LEMMA ImportJobFailsStep ==
    ASSUME Import!ImportAssumption, Import!IInv, work.pc # "idle", Import!JobFails,
           UNCHANGED <<sheet, upload, accounts, members, reports, ends>>
    PROVE  Import!IInv'
<1>1. work.file \in Files /\ Import!TypeOK
  BY ImportTheWork DEF Import!IInv, Import!Jobs
<1>2. /\ work' = Import!Idle /\ broken' = broken \union {work.file} /\ jobRuns' = jobRuns
      /\ jobState' = [jobState EXCEPT ![work.file] = "failed"]
  BY DEF Import!JobFails, Import!Queue!Fail, Import!Queue!Move
<1>3. ends \in Nat /\ ends <= ends' /\ ends' \in 0..MaxCrashes
  BY <1>1 DEF Import!TypeOK, Import!ImportAssumption
<1>4. /\ broken \subseteq broken' /\ broken' \subseteq Files /\ work.file \in broken'
      /\ upload' \in [Files -> {"new", "refused", "saved", "error", "accepted"}]
  BY <1>1, <1>2 DEF Import!TypeOK
<1> QED
  BY <1>2, <1>3, <1>4, ImportJobLeaves

LEMMA ImportCompleteStep ==
    ASSUME Import!ImportAssumption, Import!IInv, Import!Complete
    PROVE  Import!IInv'
<1>0. work.pc = "complete" /\ work.pc # "idle"
  BY DEF Import!Complete
<1>1. work.file \in Files /\ Import!TypeOK /\ reports[work.file] # {}
  BY <1>0, ImportTheWork DEF Import!IInv, Import!Jobs, Import!WorkOK, Import!CountOK
<1>2. /\ work' = Import!Idle /\ jobState' = [jobState EXCEPT ![work.file] = "completed"]
      /\ UNCHANGED <<sheet, jobRuns, upload, accounts, members, reports, ends, broken>>
  BY DEF Import!Complete, Import!Queue!Complete, Import!Queue!Move
<1>3. ends \in Nat /\ ends <= ends' /\ ends' \in 0..MaxCrashes
  BY <1>1, <1>2 DEF Import!TypeOK, Import!ImportAssumption
<1>4. /\ broken \subseteq broken' /\ broken' \subseteq Files
      /\ upload' \in [Files -> {"new", "refused", "saved", "error", "accepted"}]
  BY <1>1, <1>2 DEF Import!TypeOK
<1> QED
  BY <1>0, <1>1, <1>2, <1>3, <1>4, ImportJobLeaves

LEMMA ImportReadExcelFileStep ==
    ASSUME Import!ImportAssumption, Import!IInv, Import!ReadExcelFile
    PROVE  Import!IInv'
<1>0. work.pc = "read" /\ work.pc # "idle"
  BY DEF Import!ReadExcelFile
<1>1. CASE ~sheet[work.file].readable
  BY <1>0, <1>1, ImportJobFailsStep DEF Import!ReadExcelFile
<1>2. CASE sheet[work.file].readable
  <2> DEFINE w == [work EXCEPT !.pc = "prepare"]
  <2>0. /\ work \in Import!Jobs /\ ImportKnowsRows(work) /\ UNCHANGED ImportTables
        /\ upload' = upload /\ work' = w
    BY <1>0, <1>2, ImportTheWork DEF Import!ReadExcelFile, ImportTables, Import!IInv,
           Import!WorkOK, ImportKnowsRows
  <2>1. w \in Import!Jobs /\ w.pc = "prepare" /\ w.file = work.file /\ w.count = work.count
    BY <2>0 DEF Import!Jobs
  <2> HIDE DEF w
  <2>2. ImportKnowsRows(w)
    BY <1>0, <2>0, <2>1 DEF ImportKnowsRows, Import!RowsToCome, Import!CountOK,
           Import!FirstRunOK
  <2> QED
    BY <1>0, <2>0, <2>1, <2>2, ImportWorkAlone
<1> QED
  BY <1>1, <1>2

LEMMA ImportCreateEmployeeStep ==
    ASSUME Import!ImportAssumption, Import!IInv, Import!CreateEmployee
    PROVE  Import!IInv'
<1>0. /\ work.pc = "row" /\ work.row <= sheet[work.file].size
      /\ UNCHANGED <<sheet, jobState, jobRuns, upload, members, reports, ends, broken>>
  BY DEF Import!CreateEmployee
<1>1. CASE work' = Import!Failure(work) /\ accounts' = accounts
  BY <1>0, <1>1, ImportFailureStep DEF ImportTables
<1>2. CASE work' = [work EXCEPT !.pc = "join"] /\ accounts' = Import!Count(work.file, work.row)
  BY <1>0, <1>2, ImportAccountStep
<1> QED
  BY <1>1, <1>2 DEF Import!CreateEmployee

LEMMA ImportAddUserToGroupStep ==
    ASSUME Import!ImportAssumption, Import!IInv, Import!AddUserToGroup
    PROVE  Import!IInv'
<1>0. /\ work.pc = "join" /\ work.pc # "idle"
      /\ UNCHANGED <<sheet, jobState, jobRuns, upload, accounts, reports, ends, broken>>
  BY DEF Import!AddUserToGroup
<1>1. work.row <= sheet[work.file].size
  BY <1>0 DEF Import!IInv, Import!WorkOK, Import!CountOK
<1>2. CASE work' = Import!Failure(work) /\ members' = members
  BY <1>0, <1>1, <1>2, ImportFailureStep DEF ImportTables
<1>3. CASE work' = Import!Success(work)
           /\ members' = [members EXCEPT ![work.file][work.row] = @ + 1]
  BY <1>0, <1>3, ImportMemberStep
<1> QED
  BY <1>2, <1>3 DEF Import!AddUserToGroup

LEMMA ImportNotifyIInv ==
    ASSUME Import!ImportAssumption, Import!IInv, Import!Notify
    PROVE  Import!IInv'
<1>0. work.pc = "notify" /\ work.pc # "idle"
  BY DEF Import!Notify
<1>1. CASE Import!JobFails /\ reports' = reports
  BY <1>0, <1>1, ImportJobFailsStep DEF Import!Notify
<1>2. CASE /\ reports' = [reports EXCEPT ![work.file] = @ \union {work.count}]
           /\ work' = [work EXCEPT !.pc = "complete"]
           /\ UNCHANGED <<jobState, jobRuns, broken>>
  BY <1>0, <1>2, ImportNotifyStep DEF Import!Notify
<1> QED
  BY <1>1, <1>2 DEF Import!Notify

(* The process ends: the active job waits again, or has failed for good.   *)
LEMMA ImportCrashStep ==
    ASSUME Import!ImportAssumption, Import!IInv, Import!Crash
    PROVE  Import!IInv'
<1>0. /\ ends' = ends + 1 /\ ends < MaxCrashes /\ work' = Import!Idle
      /\ upload' = [f \in Files |-> IF upload[f] = "saved" THEN "error" ELSE upload[f]]
      /\ UNCHANGED <<sheet, accounts, members, reports, broken>>
  BY DEF Import!Crash
<1>1. /\ Import!TypeOK /\ Import!JobsOK
      /\ upload' \in [Files -> {"new", "refused", "saved", "error", "accepted"}]
  BY <1>0 DEF Import!IInv, Import!TypeOK
<1>2. /\ ends \in Nat /\ ends' \in 0..MaxCrashes /\ ends <= ends'
      /\ Repeats \in Nat /\ MaxCrashes \in Nat
  BY <1>0, <1>1 DEF Import!TypeOK, Import!ImportAssumption
<1>3. CASE work = Import!Idle
  <2>1. Import!Idle.pc = "idle" /\ UNCHANGED <<jobState, jobRuns, work>>
    BY <1>0, <1>3 DEF Import!Crash, Import!Idle
  <2>2. Import!TypeOK'
    BY <1>0, <1>1, <1>2, <2>1 DEF Import!TypeOK, Import!Rows
  <2>3. \A f \in Files : jobRuns[f] \in Nat
    BY <1>1, <1>2 DEF Import!TypeOK
  <2>4. \A f \in Files : jobRuns[f] <= ends => jobRuns[f] <= ends'
    BY <1>2, <2>3
  <2>5. \A f \in Files : jobRuns[f] <= 1 + ends => jobRuns[f] <= 1 + ends'
    BY <1>2, <2>3
  <2>6. Import!JobsOK' /\ Import!WorkOK'
    BY <1>0, <1>1, <1>3, <2>1, <2>4 DEF Import!JobsOK, Import!WorkOK, Import!Rows
  <2>7. Import!ReportsAreHonest' /\ Import!StraysAreFailures'
    BY <1>0, <2>1 DEF Import!IInv, Import!ReportsAreHonest, Import!StraysAreFailures,
           Import!Rows
  <2>8. Import!DoubledRowsExplained'
    BY <1>0, <2>1, <2>5 DEF Import!IInv, Import!DoubledRowsExplained, Import!Rows
  <2>9. Import!SilenceExplained'
    BY <1>0, <1>2, <2>1 DEF Import!IInv, Import!SilenceExplained
  <2> QED
    BY <2>2, <2>6, <2>7, <2>8, <2>9 DEF Import!IInv
<1>4. CASE work # Import!Idle
  <2>1. work.pc # "idle" /\ work \in Import!Jobs /\ work.file \in Files
    BY <1>1, <1>4, ImportTheWork DEF Import!Jobs
  <2>2. /\ jobRuns' = jobRuns
        /\ \/ jobRuns[work.file] <= Repeats
              /\ jobState' = [jobState EXCEPT ![work.file] = "waiting"]
           \/ /\ ~(jobRuns[work.file] <= Repeats)
              /\ jobState' = [jobState EXCEPT ![work.file] = "failed"]
    BY <1>4 DEF Import!Crash, Import!Stalled, Import!Queue!GiveBack, Import!Queue!Fail,
           Import!Queue!Move
  <2>3. jobRuns[work.file] \in 0..Repeats + 1 /\ jobRuns[work.file] <= ends'
    <3>1. jobRuns[work.file] <= 1 + ends
      BY <1>1, <2>1 DEF Import!JobsOK
    <3> QED
      BY <1>0, <1>1, <2>1, <3>1 DEF Import!TypeOK
  <2>4. broken \subseteq broken' /\ broken' \subseteq Files
    BY <1>0, <1>1 DEF Import!TypeOK
  <2>5. CASE jobRuns[work.file] <= Repeats
    BY <1>0, <1>1, <1>2, <2>1, <2>2, <2>3, <2>4, <2>5, ImportJobLeaves
  <2>6. CASE ~(jobRuns[work.file] <= Repeats)
    <3>1. jobRuns[work.file] = Repeats + 1 /\ ends' > Repeats
      BY <1>2, <2>3, <2>6
    <3> QED
      BY <1>0, <1>1, <1>2, <2>1, <2>2, <2>4, <2>6, <3>1, ImportJobLeaves
  <2> QED
    BY <2>5, <2>6
<1> QED
  BY <1>3, <1>4


LEMMA ImportInitIInv ==
    ASSUME Import!ImportAssumption, Import!Init
    PROVE  Import!IInv
<1>1. /\ Import!Idle.pc = "idle" /\ work = Import!Idle /\ ends = 0 /\ Repeats \in Nat
      /\ MaxCrashes \in Nat
      /\ jobState = [f \in Files |-> "none"] /\ jobRuns = [f \in Files |-> 0]
      /\ reports = [f \in Files |-> {}]
      /\ accounts = [f \in Files |-> [i \in Import!Rows(f) |-> 0]]
      /\ members = [f \in Files |-> [i \in Import!Rows(f) |-> 0]]
  BY DEF Import!Init, Import!Queue!Init, Import!Idle, Import!ImportAssumption
<1>2. Import!TypeOK
  BY <1>1 DEF Import!TypeOK, Import!Init, Import!Queue!States
<1>3. Import!JobsOK /\ Import!WorkOK
  BY <1>1 DEF Import!JobsOK, Import!WorkOK
<1>4. Import!ReportsAreHonest /\ Import!DoubledRowsExplained /\ Import!StraysAreFailures
      /\ Import!SilenceExplained
  BY <1>1 DEF Import!ReportsAreHonest, Import!DoubledRowsExplained,
         Import!StraysAreFailures, Import!SilenceExplained
<1> QED
  BY <1>2, <1>3, <1>4 DEF Import!IInv

LEMMA ImportNextIInv ==
    ASSUME Import!ImportAssumption, Import!IInv, [Import!Next]_(Import!vars)
    PROVE  Import!IInv'
<1>1. ASSUME NEW f \in Files, Import!SaveFile(f) PROVE Import!IInv'
  BY <1>1, ImportSaveFileStep
<1>2. ASSUME NEW f \in Files, Import!AddFileToQueue(f) PROVE Import!IInv'
  BY <1>2, ImportAddFileStep
<1>3. ASSUME NEW f \in Files, Import!Take(f) PROVE Import!IInv'
  BY <1>3, ImportTakeStep
<1>4. CASE Import!ReadExcelFile
  BY <1>4, ImportReadExcelFileStep
<1>5. CASE Import!Prepare
  BY <1>5, ImportPrepareStep
<1>6. CASE Import!EndLoop
  BY <1>6, ImportEndLoopStep
<1>7. CASE Import!CreateEmployee
  BY <1>7, ImportCreateEmployeeStep
<1>8. CASE Import!AddUserToGroup
  BY <1>8, ImportAddUserToGroupStep
<1>9. CASE Import!Notify
  BY <1>9, ImportNotifyIInv
<1>10. CASE Import!Complete
  BY <1>10, ImportCompleteStep
<1>11. CASE Import!Crash
  BY <1>11, ImportCrashStep
<1>12. CASE UNCHANGED Import!vars
  BY <1>12, ImportUploadStep DEF Import!vars, ImportTables, Import!IInv, Import!TypeOK
<1> QED
  BY <1>1, <1>2, <1>3, <1>4, <1>5, <1>6, <1>7, <1>8, <1>9, <1>10, <1>11, <1>12
     DEF Import!Next, Import!WorkerStep, Import!Rest

(* No step of the import is more than the queue allows.                    *)
LEMMA ImportQueueSteps ==
    ASSUME Import!ImportAssumption, Import!IInv, [Import!Next]_(Import!vars)
    PROVE  [Import!Queue!Next]_(Import!Queue!vars)
<1> USE DEF Import!Queue!vars
<1>0. work.pc # "idle" => work.file \in Files
  BY ImportTheWork DEF Import!IInv, Import!Jobs
<1>1. ASSUME NEW f \in Files, Import!SaveFile(f) \/ Import!AddFileToQueue(f)
      PROVE  [Import!Queue!Next]_(Import!Queue!vars)
  BY <1>1 DEF Import!SaveFile, Import!AddFileToQueue, Import!Queue!Next
<1>2. ASSUME NEW f \in Files, Import!Take(f)
      PROVE  [Import!Queue!Next]_(Import!Queue!vars)
  BY <1>2 DEF Import!Take, Import!Queue!Next
<1>3. CASE Import!ReadExcelFile
  BY <1>0, <1>3 DEF Import!ReadExcelFile, Import!JobFails, Import!Queue!Next
<1>4. CASE Import!Prepare \/ Import!EndLoop \/ Import!CreateEmployee \/ Import!AddUserToGroup
  BY <1>4 DEF Import!Prepare, Import!EndLoop, Import!CreateEmployee, Import!AddUserToGroup
<1>5. CASE Import!Notify
  BY <1>0, <1>5 DEF Import!Notify, Import!JobFails, Import!Queue!Next
<1>6. CASE Import!Complete
  BY <1>0, <1>6 DEF Import!Complete, Import!Queue!Next
<1>7. CASE Import!Crash
  <2>1. work # Import!Idle => work.file \in Files
    BY <1>0, ImportTheWork DEF Import!IInv
  <2> QED
    BY <1>7, <2>1 DEF Import!Crash, Import!Stalled, Import!Queue!Next
<1>8. CASE UNCHANGED Import!vars
  BY <1>8 DEF Import!vars
<1> QED
  BY <1>1, <1>2, <1>3, <1>4, <1>5, <1>6, <1>7, <1>8 DEF Import!Next, Import!WorkerStep,
         Import!Rest

LEMMA ImportInvariance ==
    ASSUME Import!ImportAssumption
    PROVE  Import!Spec => []Import!IInv
<1>1. Import!Init => Import!IInv
  BY ImportInitIInv
<1>2. Import!IInv /\ [Import!Next]_(Import!vars) => Import!IInv'
  BY ImportNextIInv
<1> QED
  BY <1>1, <1>2, PTL DEF Import!Spec

(* What an uploader is told of a file, the accounts that are stored twice  *)
(* and those outside the group agree with the tables, and silence has a    *)
(* cause (importData and the queue that repeats it).                       *)
THEOREM ImportsHaveACause == Import!Spec => []ImportsExplained
<1>1. Import!IInv => ImportsExplained
  BY DEF Import!IInv, ImportsExplained, Import!ImportsExplained
<1> QED
  BY <1>1, ImportInvariance, SheetsAssumption, PTL

(* importUser and the worker keep the promise of their queue: each step of *)
(* theirs is a step of JobQueue or leaves its state alone.                 *)
THEOREM ImportKeepsTheQueue == Import!Spec => ImportImplementsQueue
<1>1. Import!Init => Import!Queue!Init
  BY DEF Import!Init
<1>2. Import!IInv /\ [Import!Next]_(Import!vars) => [Import!Queue!Next]_(Import!Queue!vars)
  BY ImportQueueSteps, SheetsAssumption
<1> QED
  BY <1>1, <1>2, ImportInvariance, SheetsAssumption, PTL
     DEF Import!Spec, ImportImplementsQueue, Import!ImplementsQueue, Import!Queue!Spec
=============================================================================
