---------------------------- MODULE ImportUsers ----------------------------
(***************************************************************************)
(* The import of employees: the upload saves the file and queues a job,    *)
(* the worker reads the sheet, creates an account and a membership for     *)
(* each row, and notifies the uploader of the counters.                    *)
(*                                                                         *)
(* Every query may be rejected.  A row is valid or not (checkData); the    *)
(* rest of its contents is left out.                                       *)
(*                                                                         *)
(* sheet        what each file holds and who uploads it                    *)
(* state, runs  the Bull job of an upload (see JobQueue)                   *)
(* upload       how far the request is                                     *)
(* work         the active job and the variables of importData             *)
(* accounts     User rows created for each row of a file                   *)
(* members      UserInGroup rows among them                                *)
(* reports      the counters its uploader was notified of                  *)
(* crashes      how often the process ended                                *)
(* broken       history: jobs an error ended.  No guard reads it.          *)
(***************************************************************************)
EXTENDS Naturals, FiniteSets

CONSTANTS Files, Sheets,
          Repeats,      \* maxStalledCount, 1 by default
          MaxCrashes    \* bound: ends of the process

(* Assumed of the sheets and the bounds.                                   *)
ImportAssumption ==
    /\ \A s \in Sheets :
           /\ s.size \in Nat /\ s.valid \subseteq 1..s.size
           /\ {s.readable, s.mapped, s.grouped, s.admin} \subseteq BOOLEAN
    /\ Repeats \in Nat /\ MaxCrashes \in Nat

VARIABLES sheet, state, runs, upload, work, accounts, members, reports,
          crashes, broken

vars == <<sheet, state, runs, upload, work, accounts, members, reports,
          crashes, broken>>

Queue == INSTANCE JobQueue WITH Jobs <- Files

Rows(f) == 1..sheet[f].size
Idle == [pc |-> "idle"]
NoCount == [total |-> 0, importSuccess |-> 0, importFailure |-> 0]

Init ==
    /\ sheet \in [Files -> Sheets]
    /\ Queue!Init
    /\ upload = [f \in Files |-> "new"]
    /\ work = Idle
    /\ accounts = [f \in Files |-> [i \in Rows(f) |-> 0]]
    /\ members = [f \in Files |-> [i \in Rows(f) |-> 0]]
    /\ reports = [f \in Files |-> {}]
    /\ crashes = 0
    /\ broken = {}
-----------------------------------------------------------------------------
(* importUser of the controller: an administrator is refused, the file is  *)
(* saved, and then the job is queued.  A rejection ends the request.       *)
SaveFile(f) ==
    /\ upload[f] = "new"
    /\ \E to \in (IF sheet[f].admin THEN {"refused"} ELSE {"saved", "error"}) :
           upload' = [upload EXCEPT ![f] = to]
    /\ UNCHANGED <<sheet, state, runs, work, accounts, members, reports,
                   crashes, broken>>

AddFileToQueue(f) ==
    /\ upload[f] = "saved"
    /\ \/ Queue!Add(f) /\ upload' = [upload EXCEPT ![f] = "accepted"]
       \/ UNCHANGED <<state, runs>> /\ upload' = [upload EXCEPT ![f] = "error"]
    /\ UNCHANGED <<sheet, work, accounts, members, reports, crashes, broken>>
-----------------------------------------------------------------------------
(* The worker.  An exception outside importData's try fails the job, and   *)
(* onFailed only logs it.                                                  *)
Take(f) ==
    /\ Queue!Start(f)
    /\ work' = [pc |-> "read", file |-> f, row |-> 0, count |-> NoCount]
    /\ UNCHANGED <<sheet, upload, accounts, members, reports, crashes, broken>>

JobFails ==
    /\ Queue!Fail(work.file)
    /\ work' = Idle
    /\ broken' = broken \union {work.file}

ReadExcelFile ==
    /\ work.pc = "read"
    /\ IF sheet[work.file].readable
       THEN work' = [work EXCEPT !.pc = "prepare"] /\ UNCHANGED <<state, runs, broken>>
       ELSE JobFails
    /\ UNCHANGED <<sheet, upload, accounts, members, reports, crashes>>

(* importData up to its loop.  A rejected query or a mapping that is no    *)
(* JSON skips the loop, and the notification is sent all the same.         *)
Prepare ==
    /\ work.pc = "prepare"
    /\ \/ /\ sheet[work.file].mapped
          /\ work' = [work EXCEPT !.pc = "row", !.row = 1,
                                  !.count.total = sheet[work.file].size]
       \/ work' = [work EXCEPT !.pc = "notify"]
    /\ UNCHANGED <<sheet, state, runs, upload, accounts, members, reports,
                   crashes, broken>>

EndLoop ==
    /\ work.pc = "row" /\ work.row > sheet[work.file].size
    /\ work' = [work EXCEPT !.pc = "notify"]
    /\ UNCHANGED <<sheet, state, runs, upload, accounts, members, reports,
                   crashes, broken>>

Failure(w) ==
    [w EXCEPT !.pc = "row", !.row = @ + 1, !.count.importFailure = @ + 1]
Success(w) ==
    [w EXCEPT !.pc = "row", !.row = @ + 1, !.count.importSuccess = @ + 1]

Count(f, i) == [accounts EXCEPT ![f][i] = @ + 1]

(* checkData, the role and createEmployee: the row is a failure, or its    *)
(* account exists.  Nobody asks whether the address is taken.              *)
CreateEmployee ==
    /\ work.pc = "row" /\ work.row <= sheet[work.file].size
    /\ \/ /\ work' = Failure(work)
          /\ UNCHANGED accounts
       \/ /\ work.row \in sheet[work.file].valid
          /\ work' = [work EXCEPT !.pc = "join"]
          /\ accounts' = Count(work.file, work.row)
    /\ UNCHANGED <<sheet, state, runs, upload, members, reports, crashes, broken>>

(* Mutant: the row is tried again at once.                                 *)
AddUserToGroupRetries ==
    /\ work.pc = "join"
    /\ \/ /\ work' = [work EXCEPT !.pc = "row"]
          /\ UNCHANGED members
       \/ /\ sheet[work.file].grouped
          /\ work' = Success(work)
          /\ members' = [members EXCEPT ![work.file][work.row] = @ + 1]
    /\ UNCHANGED <<sheet, state, runs, upload, accounts, reports, crashes, broken>>

(* group.id of an uploader who manages no group throws after the account   *)
(* was created, as a rejected insert does: both count as a failure.        *)
AddUserToGroup ==
    /\ work.pc = "join"
    /\ \/ /\ work' = Failure(work)
          /\ UNCHANGED members
       \/ /\ sheet[work.file].grouped
          /\ work' = Success(work)
          /\ members' = [members EXCEPT ![work.file][work.row] = @ + 1]
    /\ UNCHANGED <<sheet, state, runs, upload, accounts, reports, crashes, broken>>

(* createNotification stands after the try: its rejection fails a job      *)
(* whose rows are all in the database.                                     *)
Notify ==
    /\ work.pc = "notify"
    /\ \/ /\ reports' = [reports EXCEPT ![work.file] = @ \union {work.count}]
          /\ work' = [work EXCEPT !.pc = "complete"]
          /\ UNCHANGED <<state, runs, broken>>
       \/ JobFails /\ UNCHANGED reports
    /\ UNCHANGED <<sheet, upload, accounts, members, crashes>>

Complete ==
    /\ work.pc = "complete"
    /\ Queue!Complete(work.file)
    /\ work' = Idle
    /\ UNCHANGED <<sheet, upload, accounts, members, reports, crashes, broken>>
-----------------------------------------------------------------------------
(* Mutant: the queue gives a stalled job back without limit.               *)
StalledAlways(f) == Queue!Move(f, "active", "waiting") /\ UNCHANGED runs

(* Bull finds the active job of the ended process and runs it again from   *)
(* its first row, or fails it when that happened before.                   *)
Stalled(f) == IF runs[f] <= Repeats THEN Queue!GiveBack(f) ELSE Queue!Fail(f)

Crash ==
    /\ crashes < MaxCrashes
    /\ crashes' = crashes + 1
    /\ work' = Idle
    /\ upload' = [f \in Files |-> IF upload[f] = "saved" THEN "error" ELSE upload[f]]
    /\ IF work = Idle THEN UNCHANGED <<state, runs>> ELSE Stalled(work.file)
    /\ UNCHANGED <<sheet, accounts, members, reports, broken>>

Settled(f) ==
    upload[f] \in {"refused", "error"} \/ state[f] \in {"completed", "failed"}

(* Nothing is left to do.                                                  *)
Rest == (\A f \in Files : Settled(f)) /\ UNCHANGED vars

WorkerStep ==
    \/ \E f \in Files : Take(f)
    \/ ReadExcelFile \/ Prepare \/ EndLoop \/ CreateEmployee \/ AddUserToGroup
    \/ Notify \/ Complete

Next ==
    \/ \E f \in Files : SaveFile(f) \/ AddFileToQueue(f)
    \/ WorkerStep \/ Crash \/ Rest

Spec == Init /\ [][Next]_vars

(* Bull hands out its jobs and every query ends, one way or the other.     *)
FairSpec == Spec /\ WF_vars(WorkerStep)
-----------------------------------------------------------------------------
Counts == [total : Nat, importSuccess : Nat, importFailure : Nat]
Jobs == [pc : {"read", "prepare", "row", "join", "notify", "complete"},
         file : Files, row : Nat, count : Counts]

TypeOK ==
    /\ sheet \in [Files -> Sheets]
    /\ state \in [Files -> Queue!States]
    /\ runs \in [Files -> 0..Repeats + 1]
    /\ upload \in [Files -> {"new", "refused", "saved", "error", "accepted"}]
    /\ work \in {Idle} \union Jobs
    /\ DOMAIN accounts = Files /\ DOMAIN members = Files
    /\ \A f \in Files : /\ accounts[f] \in [Rows(f) -> Nat]
                        /\ members[f] \in [Rows(f) -> Nat]
    /\ reports \in [Files -> SUBSET Counts]
    /\ crashes \in 0..MaxCrashes
    /\ broken \subseteq Files

(* Every report is either about the whole sheet, each row a success or a   *)
(* failure and each success with its account in the group, or it is the    *)
(* empty report of an import that never began (importResult and            *)
(* "Import Account Successfully").                                         *)
ReportsAreHonest ==
    \A f \in Files : \A r \in reports[f] :
        \/ r = NoCount
        \/ /\ r.total = sheet[f].size
           /\ r.importSuccess + r.importFailure = r.total
           /\ r.importSuccess <= Cardinality({i \in Rows(f) : members[f][i] > 0})

(* A row gets at most one account per run of its job: what doubles the     *)
(* accounts of a sheet is the job that Bull repeats after a crash, and at  *)
(* most once.                                                              *)
DoubledRowsExplained ==
    \A f \in Files : \A i \in Rows(f) :
        accounts[f][i] <= runs[f] /\ runs[f] <= 1 + crashes

(* An account outside every group is never counted as a success: in a job  *)
(* that ran once it is among the reported failures.                        *)
StraysAreFailures ==
    \A f \in Files : \A r \in reports[f] :
        runs[f] = 1 => Cardinality({i \in Rows(f) : accounts[f][i] > members[f][i]})
                           <= r.importFailure

(* The uploader hears of every accepted file, except when the sheet cannot *)
(* be read, the notification itself is rejected, or the process ended in   *)
(* both runs of the job.                                                   *)
SilenceExplained ==
    \A f \in Files : state[f] \in {"completed", "failed"} /\ reports[f] = {}
        => f \in broken \/ (runs[f] = Repeats + 1 /\ crashes > Repeats)

(* What an uploader is told, what is stored twice and what is stored       *)
(* outside the group agree, and silence has a cause.                       *)
ImportsExplained ==
    /\ TypeOK /\ ReportsAreHonest /\ DoubledRowsExplained
    /\ StraysAreFailures /\ SilenceExplained

(* The worker keeps the promise of its queue.                              *)
ImplementsQueue == Queue!Spec

(* Every accepted file is settled in the end.                              *)
EveryImportSettles == \A f \in Files : upload[f] = "accepted" ~> Settled(f)
-----------------------------------------------------------------------------
(* What the steps rely on (EmailQueueProofs).                              *)

Joined(f, n) == {i \in 1..n : members[f][i] > 0}
Strays(f) == {i \in Rows(f) : accounts[f][i] > members[f][i]}

Honest(f, c) ==
    \/ c = NoCount
    \/ /\ c.total = sheet[f].size
       /\ c.importSuccess + c.importFailure = c.total
       /\ c.importSuccess <= Cardinality(Joined(f, c.total))

(* The active job is the worker's, and a job that waits was given back for *)
(* each of its runs.                                                       *)
JobsOK ==
    \A f \in Files :
        /\ state[f] = "active" <=> work.pc # "idle" /\ work.file = f
        /\ state[f] = "active" => runs[f] > 0 /\ runs[f] <= 1 + crashes
        /\ state[f] = "none" => runs[f] = 0
        /\ state[f] = "waiting" => runs[f] <= crashes /\ runs[f] <= Repeats
        /\ runs[f] = 0 => reports[f] = {} /\ \A i \in Rows(f) : accounts[f][i] = 0

(* Rows that the loop has not come to have no account of this run.         *)
RowsToCome(w) ==
    {i \in Rows(w.file) : \/ w.pc \in {"read", "prepare"}
                          \/ w.pc = "row" /\ w.row <= i
                          \/ w.pc = "join" /\ w.row < i}

(* The counters speak of the rows behind it.                               *)
CountOK(w) ==
    /\ w.pc \in {"read", "prepare"} => w.count = NoCount
    /\ w.pc \in {"row", "join"} =>
          /\ w.row \in 1..sheet[w.file].size + 1
          /\ w.count.total = sheet[w.file].size
          /\ w.count.importSuccess + w.count.importFailure = w.row - 1
          /\ w.count.importSuccess <= Cardinality(Joined(w.file, w.row - 1))
    /\ w.pc = "join" => w.row <= sheet[w.file].size
    /\ w.pc = "notify" => Honest(w.file, w.count)
    /\ w.pc = "complete" => reports[w.file] # {}

(* In a job that runs once, so does what is outside the group.             *)
FirstRunOK(w) ==
    runs[w.file] = 1 =>
        /\ w.pc # "complete" => reports[w.file] = {}
        /\ w.pc \in {"row", "notify"} => Cardinality(Strays(w.file)) <= w.count.importFailure
        /\ w.pc = "join" => Cardinality(Strays(w.file) \ {w.row}) <= w.count.importFailure

WorkOK ==
    work.pc # "idle" =>
        /\ \A i \in RowsToCome(work) : accounts[work.file][i] < runs[work.file]
        /\ CountOK(work) /\ FirstRunOK(work)

(* The inductive invariant.                                                *)
IInv == TypeOK /\ JobsOK /\ WorkOK /\ ReportsAreHonest /\ DoubledRowsExplained
        /\ StraysAreFailures /\ SilenceExplained
=============================================================================
