--------------------------- MODULE Notifications ---------------------------
(***************************************************************************)
(* The delivery of notifications: a row per notification, a Bull job that  *)
(* pushes it to the user's registered socket, and a new job five seconds   *)
(* later until the client acknowledged it or maxAttempt runs out.          *)
(*                                                                         *)
(* The module composes with SocketRegistry, whose rows the worker reads.   *)
(* Bull runs one job of the queue at a time and at least once: a job that  *)
(* was active when the process ended runs again, once.  The five seconds   *)
(* are not modelled: a queued job starts at any time.                      *)
(*                                                                         *)
(* notification  the Notification rows (its id is the position)            *)
(* adding        jobs whose queue.add was called and has not reached Redis *)
(* queue         jobs waiting or delayed in Redis                          *)
(* worker        the job being processed and the handler's variables       *)
(* delivered     notifications that reached a client                       *)
(* crashes       how often the process ended                               *)
(* tries, pushes, late and dropped are history: attempts made, pushes      *)
(* sent, pushes sent after the acknowledgement, and notifications whose    *)
(* chain of jobs an error or a crash may have cut.  No guard reads them.   *)
(***************************************************************************)
EXTENDS Naturals, Sequences, FiniteSets, Bags

CONSTANTS Users, Sockets, Owner, NoSocket,
          MaxAttempt,        \* the column's default, 5 in the schema
          MaxNotifications,  \* bound: notifications created
          MaxCrashes         \* bound: ends of the process

ASSUME AttemptAssumption == MaxAttempt \in Nat \ {0}
ASSUME BoundAssumption == MaxNotifications \in Nat /\ MaxCrashes \in Nat

VARIABLES connection, link, joining, leaving, ending, evictor
VARIABLES notification, adding, queue, worker, delivered, crashes,
          tries, pushes, late, dropped

Registry == INSTANCE SocketRegistry

ASSUME SocketAssumption == Registry!OwnerAssumption /\ Registry!NoSocketAssumption

sockets == <<connection, link, joining, leaving, ending, evictor>>
history == <<tries, pushes, late, dropped>>
vars == <<sockets, notification, adding, queue, worker, delivered, crashes,
          history>>

Ids == 1..MaxNotifications
Created == 1..Len(notification)

Rows == [userId : Users, status : {"Sent", "Received"}]

(* left is job.data.notification.maxAttempt; stalled, whether Bull already *)
(* gave the job back once.                                                 *)
Jobs == [id : Ids, left : 1..MaxAttempt, stalled : BOOLEAN]
Job(n, left) == [id |-> n, left |-> left, stalled |-> FALSE]

Idle == [pc |-> "idle"]
Steps == {"lookup", "check", "push", "requeue", "complete"}
Busy == [pc : Steps, job : Jobs, token : Sockets \union {NoSocket},
         sent : BOOLEAN]

Init ==
    /\ Registry!Init
    /\ notification = <<>>
    /\ adding = EmptyBag
    /\ queue = EmptyBag
    /\ worker = Idle
    /\ delivered = {}
    /\ crashes = 0
    /\ tries = [n \in Ids |-> 0]
    /\ pushes = [n \in Ids |-> 0]
    /\ late = [n \in Ids |-> 0]
    /\ dropped = {}
-----------------------------------------------------------------------------
(* createNotification: the row, then the first job.                        *)
CreateNotification(u) ==
    /\ Len(notification) < MaxNotifications
    /\ notification' = Append(notification, [userId |-> u, status |-> "Sent"])
    /\ adding' = adding (+) SetToBag({Job(Len(notification) + 1, MaxAttempt)})
    /\ UNCHANGED <<sockets, queue, worker, delivered, crashes, history>>

(* queue.add reaches Redis.                                                *)
AddNotificationToQueue(j) ==
    /\ BagIn(j, adding)
    /\ adding' = adding (-) SetToBag({j})
    /\ queue' = queue (+) SetToBag({j})
    /\ UNCHANGED <<sockets, notification, worker, delivered, crashes, history>>

(* It does not: the requeue's rejection goes unnoticed.                    *)
AddFails(j) ==
    /\ BagIn(j, adding)
    /\ adding' = adding (-) SetToBag({j})
    /\ dropped' = dropped \union {j.id}
    /\ UNCHANGED <<sockets, notification, queue, worker, delivered, crashes,
                   tries, pushes, late>>
-----------------------------------------------------------------------------
(* NotificationWorker.pushNotification, one await at a time.               *)

Take(j) ==
    /\ worker = Idle
    /\ BagIn(j, queue)
    /\ queue' = queue (-) SetToBag({j})
    /\ worker' = [pc |-> "lookup", job |-> j, token |-> NoSocket, sent |-> FALSE]
    /\ UNCHANGED <<sockets, notification, adding, delivered, crashes, history>>

(* Mutant: the row's token is not returned.                                *)
GetConnectionNever ==
    /\ worker.pc = "lookup"
    /\ worker' = [worker EXCEPT !.pc = "check"]
    /\ UNCHANGED <<sockets, notification, adding, queue, delivered, crashes,
                   history>>

GetConnection ==
    /\ worker.pc = "lookup"
    /\ LET u == notification[worker.job.id].userId
       IN  worker' = [worker EXCEPT !.pc = "check", !.token = connection[u]]
    /\ UNCHANGED <<sockets, notification, adding, queue, delivered, crashes,
                   history>>

(* Mutant: every job pushes, acknowledged or not.                          *)
IsReceivedUnasked ==
    /\ worker.pc = "check"
    /\ worker' = [worker EXCEPT !.pc = "push", !.sent = TRUE]
    /\ UNCHANGED <<sockets, notification, adding, queue, delivered, crashes,
                   history>>

IsReceived ==
    /\ worker.pc = "check"
    /\ LET status == notification[worker.job.id].status
       IN  worker' = [worker EXCEPT !.pc = "push", !.sent = (status = "Sent")]
    /\ UNCHANGED <<sockets, notification, adding, queue, delivered, crashes,
                   history>>

Count(f, n) == [f EXCEPT ![n] = @ + 1]

(* The event goes to the room of that socket id: to its client if it is    *)
(* still connected, to nobody otherwise.  An offline user costs an attempt *)
(* as well.                                                                *)
PushNotification ==
    /\ worker.pc = "push"
    /\ worker' = [worker EXCEPT !.pc = "requeue"]
    /\ LET n == worker.job.id
           push == worker.sent /\ worker.token # NoSocket
       IN  /\ tries' = Count(tries, n)
           /\ pushes' = IF push THEN Count(pushes, n) ELSE pushes
           /\ late' = IF push /\ notification[n].status = "Received"
                      THEN Count(late, n) ELSE late
           /\ delivered' = IF push /\ link[worker.token] = "open"
                           THEN delivered \union {n} ELSE delivered
    /\ UNCHANGED <<sockets, notification, adding, queue, crashes, dropped>>

(* Mutant: only a user who is online gets another attempt.                 *)
RequeueOnline ==
    /\ worker.pc = "requeue"
    /\ worker' = [worker EXCEPT !.pc = "complete"]
    /\ adding' = IF worker.sent /\ worker.job.left > 1 /\ worker.token # NoSocket
                 THEN adding (+) SetToBag({Job(worker.job.id, worker.job.left - 1)})
                 ELSE adding
    /\ UNCHANGED <<sockets, notification, queue, delivered, crashes, history>>

(* The call that adds the next job is not awaited: the job may complete    *)
(* before or after its successor is in Redis.                              *)
Requeue ==
    /\ worker.pc = "requeue"
    /\ worker' = [worker EXCEPT !.pc = "complete"]
    /\ adding' = IF worker.sent /\ worker.job.left > 1
                 THEN adding (+) SetToBag({Job(worker.job.id, worker.job.left - 1)})
                 ELSE adding
    /\ UNCHANGED <<sockets, notification, queue, delivered, crashes, history>>

Complete ==
    /\ worker.pc = "complete"
    /\ worker' = Idle
    /\ UNCHANGED <<sockets, notification, adding, queue, delivered, crashes,
                   history>>

(* One of the two queries is rejected: the job has one attempt and fails.  *)
JobFails ==
    /\ worker.pc \in {"lookup", "check"}
    /\ worker' = Idle
    /\ dropped' = dropped \union {worker.job.id}
    /\ UNCHANGED <<sockets, notification, adding, queue, delivered, crashes,
                   tries, pushes, late>>
-----------------------------------------------------------------------------
(* The client acknowledges what it was sent.                               *)
ReceiveNotification(n) ==
    /\ n \in delivered
    /\ notification' = [notification EXCEPT ![n].status = "Received"]
    /\ UNCHANGED <<sockets, adding, queue, worker, delivered, crashes, history>>

(* The process ends.  Calls on their way to Redis are lost; the active job *)
(* is given back to the queue, or failed when it stalled before.           *)
Crash ==
    /\ crashes < MaxCrashes
    /\ crashes' = crashes + 1
    /\ Registry!Crash
    /\ adding' = EmptyBag
    /\ worker' = Idle
    /\ queue' = IF worker # Idle /\ ~worker.job.stalled
                THEN queue (+) SetToBag({[worker.job EXCEPT !.stalled = TRUE]})
                ELSE queue
    /\ dropped' = dropped \union {j.id : j \in BagToSet(adding)}
                  \union (IF worker # Idle /\ worker.job.stalled
                          THEN {worker.job.id} ELSE {})
    /\ UNCHANGED <<notification, delivered, tries, pushes, late>>

(* Nothing is left to do within the bounds.                                *)
Rest ==
    /\ Len(notification) = MaxNotifications
    /\ adding = EmptyBag /\ queue = EmptyBag /\ worker = Idle
    /\ UNCHANGED vars

WorkerStep ==
    \/ \E j \in Jobs : Take(j)
    \/ GetConnection \/ IsReceived \/ PushNotification
    \/ Requeue \/ Complete

Next ==
    \/ Registry!Serve /\ UNCHANGED <<notification, adding, queue, worker,
                                     delivered, crashes, history>>
    \/ \E u \in Users : CreateNotification(u)
    \/ \E j \in Jobs : AddNotificationToQueue(j) \/ AddFails(j)
    \/ WorkerStep
    \/ JobFails
    \/ \E n \in Created : ReceiveNotification(n)
    \/ Crash
    \/ Rest

Spec == Init /\ [][Next]_vars

(* Redis answers and Bull keeps handing out jobs.  Nothing forces a client *)
(* to connect, to stay or to acknowledge.                                  *)
Fairness ==
    /\ WF_vars(WorkerStep)
    /\ WF_vars(\E j \in Jobs : AddNotificationToQueue(j))

FairSpec == Spec /\ Fairness
-----------------------------------------------------------------------------
TypeOK ==
    /\ Registry!TypeOK
    /\ notification \in Seq(Rows) /\ Len(notification) <= MaxNotifications
    /\ IsABag(adding) /\ BagToSet(adding) \subseteq Jobs
    /\ IsABag(queue) /\ BagToSet(queue) \subseteq Jobs
    /\ worker \in Busy \union {Idle}
    /\ delivered \subseteq Created /\ dropped \subseteq Created
    /\ crashes \in 0..MaxCrashes
    /\ \A f \in {tries, pushes, late} : f \in [Ids -> Nat]

(* A chain of jobs is alive: one is queued, on its way to the queue, or    *)
(* being processed and not yet past the decision to requeue.               *)
Outstanding(n) ==
    \/ \E j \in BagToSet(adding) \union BagToSet(queue) : j.id = n
    \/ worker # Idle /\ worker.job.id = n /\ worker.pc # "complete"

(* However attempts, acknowledgements and crashes interleave, a client is  *)
(* pushed a notification at most maxAttempt times per life of the process  *)
(* it was pending in: a crash repeats one job and its successors at most   *)
(* (maxAttempt in pushNotification).                                       *)
PushBudget ==
    \A n \in Created : pushes[n] <= MaxAttempt * (1 + crashes)

(* The status is read before the push, so an acknowledgement can arrive in *)
(* between; that costs one superfluous push and never a second, because    *)
(* the job's successor reads the status again.                             *)
OneLatePush == \A n \in Created : late[n] <= 1

(* A notification nobody acknowledged is given up only after maxAttempt    *)
(* attempts, unless an error or a crash cut its chain: the un-awaited      *)
(* requeue opens no other gap.                                             *)
ChainUnbroken ==
    \A n \in Created :
        notification[n].status = "Sent" /\ ~Outstanding(n)
            => tries[n] >= MaxAttempt \/ n \in dropped

(* No client is pushed more often than it may be.                          *)
PushesBounded == TypeOK /\ PushBudget /\ OneLatePush

(* Every notification is settled in the end: acknowledged, given up after  *)
(* maxAttempt attempts, or cut short by an error or a crash.               *)
Settled(n) ==
    \/ notification[n].status = "Received"
    \/ tries[n] >= MaxAttempt
    \/ n \in dropped

EveryNotificationSettles ==
    \A n \in Ids : n \in Created ~> n \in Created /\ Settled(n)

(* A user who is registered on an open socket before the first attempt and *)
(* stays so is reached, unless an error cuts the chain.                    *)
Reachable(n) ==
    /\ n \in Created
    /\ LET s == connection[notification[n].userId]
       IN  s # NoSocket /\ link[s] = "open"

ReachableUsersAreNotified ==
    \A n \in Ids :
        []((n \in Created /\ tries[n] = 0 /\ []Reachable(n))
              => <>(n \in delivered \union dropped))
-----------------------------------------------------------------------------
(* What the registry promises of the rows the worker reads: the causes of  *)
(* a row that names no open socket, and of an open socket without a row    *)
(* (SocketRegistry).                                                       *)
DeadRegistrationExplained == Registry!DeadRegistrationExplained
RegistrationsKept == Registry!RegistrationsKept
=============================================================================
