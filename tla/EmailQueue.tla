---------------------------- MODULE EmailQueue ----------------------------
(***************************************************************************)
(* The e-mail queue: EmailWorker hands each job to MailService.sendEmail,  *)
(* which calls itself after an error until retryCount is 3 and answers for *)
(* its own attempt only.                                                   *)
(*                                                                         *)
(* state, runs  the Bull job of a mail (see JobQueue)                      *)
(* call         the innermost sendEmail of the active job: its retryCount, *)
(*              or the answer it returns to the call around it             *)
(* value        the return value of a completed job                        *)
(* crashes      how often the process ended                                *)
(* copies, refused and unsure are history: copies the mail server took,    *)
(* errors of the current run, and copies taken whose answer was lost.      *)
(* No guard reads them.                                                    *)
(***************************************************************************)
EXTENDS Naturals

CONSTANTS Mails,
          MaxRetry,     \* 3 in sendEmail
          Repeats,      \* maxStalledCount, 1 by default
          MaxCrashes    \* bound: ends of the process

ASSUME EmailAssumption == {MaxRetry, Repeats, MaxCrashes} \subseteq Nat

VARIABLES state, runs, call, value, crashes, copies, refused, unsure

history == <<copies, refused, unsure>>
vars == <<state, runs, call, value, crashes, history>>

Queue == INSTANCE JobQueue WITH Jobs <- Mails

Idle == [pc |-> "idle"]
Sending(m, n) == [pc |-> "send", mail |-> m, retryCount |-> n]
Returning(m, n, a) == [pc |-> "return", mail |-> m, retryCount |-> n, answer |-> a]

Init ==
    /\ Queue!Init
    /\ call = Idle
    /\ value = [m \in Mails |-> "none"]
    /\ crashes = 0
    /\ copies = [m \in Mails |-> 0]
    /\ refused = [m \in Mails |-> 0]
    /\ unsure = [m \in Mails |-> 0]
-----------------------------------------------------------------------------
AddEmailToQueue(m) ==
    /\ Queue!Add(m)
    /\ UNCHANGED <<call, value, crashes, history>>

(* job.data carries no retryCount: the worker starts at 0.                 *)
Take(m) ==
    /\ Queue!Start(m)
    /\ call' = Sending(m, 0)
    /\ refused' = [refused EXCEPT ![m] = 0]
    /\ UNCHANGED <<value, crashes, copies, unsure>>

AfterError(m, n) ==
    IF n < MaxRetry THEN Sending(m, n + 1) ELSE Returning(m, n, FALSE)

(* Mutant: the success does not return.                                    *)
SendEmailOn ==
    /\ call.pc = "send"
    /\ copies' = [copies EXCEPT ![call.mail] = @ + 1]
    /\ call' = AfterError(call.mail, call.retryCount)
    /\ UNCHANGED <<state, runs, value, crashes, refused, unsure>>

(* The mail server takes the mail, and says so.                            *)
SendEmail ==
    /\ call.pc = "send"
    /\ copies' = [copies EXCEPT ![call.mail] = @ + 1]
    /\ call' = Returning(call.mail, call.retryCount, TRUE)
    /\ UNCHANGED <<state, runs, value, crashes, refused, unsure>>

(* Mutant: a nested call starts counting again.                            *)
SendFailsForever(taken) ==
    /\ call.pc = "send"
    /\ refused' = [refused EXCEPT ![call.mail] = 1 - @]
    /\ call' = Sending(call.mail, 0)
    /\ UNCHANGED <<state, runs, value, crashes, copies, unsure>>

(* sendMail is rejected.  The server may have taken the mail (taken = 1)   *)
(* and the connection have broken before its answer.                       *)
SendFails(taken) ==
    /\ call.pc = "send"
    /\ copies' = [copies EXCEPT ![call.mail] = @ + taken]
    /\ unsure' = [unsure EXCEPT ![call.mail] = @ + taken]
    /\ refused' = [refused EXCEPT ![call.mail] = @ + 1]
    /\ call' = AfterError(call.mail, call.retryCount)
    /\ UNCHANGED <<state, runs, value, crashes>>

(* The call around a retry drops its answer and returns false.             *)
Return ==
    /\ call.pc = "return" /\ call.retryCount > 0
    /\ call' = Returning(call.mail, call.retryCount - 1, FALSE)
    /\ UNCHANGED <<state, runs, value, crashes, history>>

(* sendEmail never throws, so the job completes whatever it answered and   *)
(* onFailed is not called for it.                                          *)
Complete ==
    /\ call.pc = "return" /\ call.retryCount = 0
    /\ Queue!Complete(call.mail)
    /\ value' = [value EXCEPT ![call.mail] = IF call.answer THEN "true" ELSE "false"]
    /\ call' = Idle
    /\ UNCHANGED <<crashes, history>>

(* Mutant: the failed job's mail is queued again.                          *)
OnFailedRequeues(m) ==
    /\ state' = [state EXCEPT ![m] = "waiting"]
    /\ UNCHANGED runs

(* job.data.retryCount is undefined, and undefined < 3 is false: the       *)
(* handler of a failed job logs and sends nothing.                         *)
OnFailed(m) == Queue!Fail(m)

(* The process ends.  The active job is given back, or failed by Bull when *)
(* it was given back before.                                               *)
Crash ==
    /\ crashes < MaxCrashes
    /\ crashes' = crashes + 1
    /\ call' = Idle
    /\ IF call = Idle THEN UNCHANGED <<state, runs>>
       ELSE LET m == call.mail
            IN  IF runs[m] <= Repeats THEN Queue!GiveBack(m) ELSE OnFailed(m)
    /\ UNCHANGED <<value, history>>

Settled(m) == state[m] \in {"completed", "failed"}

(* Nothing is left to do.                                                  *)
Rest == (\A m \in Mails : Settled(m)) /\ UNCHANGED vars

WorkerStep ==
    \/ \E m \in Mails : Take(m)
    \/ SendEmail
    \/ \E taken \in 0..1 : SendFails(taken)
    \/ Return
    \/ Complete

Next == (\E m \in Mails : AddEmailToQueue(m)) \/ WorkerStep \/ Crash \/ Rest

Spec == Init /\ [][Next]_vars

(* Bull keeps handing out jobs and every sendMail ends, one way or the     *)
(* other: nothing makes the mail server take a mail.                       *)
FairSpec == Spec /\ WF_vars(WorkerStep)
-----------------------------------------------------------------------------
TypeOK ==
    /\ state \in [Mails -> Queue!States]
    /\ runs \in [Mails -> 0..Repeats + 1]
    /\ call \in {Idle} \union [pc : {"send"}, mail : Mails, retryCount : 0..MaxRetry]
                \union [pc : {"return"}, mail : Mails, retryCount : 0..MaxRetry,
                        answer : BOOLEAN]
    /\ value \in [Mails -> {"none", "true", "false"}]
    /\ crashes \in 0..MaxCrashes
    /\ copies \in [Mails -> Nat] /\ unsure \in [Mails -> Nat]
    /\ refused \in [Mails -> 0..MaxRetry + 1]

(* A mail reaches its reader twice only through an error that came after   *)
(* the server had taken it, or through a crash that repeated the job: the  *)
(* retries of sendEmail and Bull's own never overlap.                      *)
TwoCopiesExplained ==
    \A m \in Mails : copies[m] <= unsure[m] + runs[m]

(* A job that completed without a copy taken used up its four attempts,    *)
(* and one that failed was interrupted by two ends of the process: no      *)
(* other path loses a mail.                                                *)
LostMailExplained ==
    \A m \in Mails : Settled(m) /\ copies[m] = 0
        => IF state[m] = "completed" THEN refused[m] = MaxRetry + 1
                                     ELSE runs[m] = Repeats + 1

(* The job's value speaks of the first attempt alone: true means that no   *)
(* attempt of this run failed, and a mail that only a retry delivered      *)
(* counts as false (the dropped answer in sendEmail).                      *)
ValueIsFirstAttempt ==
    \A m \in Mails : state[m] = "completed" => (value[m] = "true") = (refused[m] = 0)

(* Every doubled or lost mail has one of these causes, and the job's value *)
(* knows of the first attempt alone.                                       *)
DeliveriesExplained == TwoCopiesExplained /\ LostMailExplained /\ ValueIsFirstAttempt
(* The worker keeps the promise of its queue.                              *)
ImplementsQueue == Queue!Spec

(* Every queued mail is settled in the end.                                *)
EveryMailSettles == \A m \in Mails : state[m] = "waiting" ~> Settled(m)
=============================================================================
