------------------------------ MODULE HotQueue ------------------------------
(***************************************************************************)
(* The path of a customer's message from the intake endpoints through the  *)
(* workflow hook to the agents' desk (the "hot queue").                    *)
(*                                                                         *)
(* The backend runs on one event loop over one database and opens no       *)
(* transaction: every awaited query is a point at which other requests     *)
(* run.  A request occupies a slot of Handlers; pc is the query it awaits  *)
(* next and job holds the local variables that live across its awaits.     *)
(*                                                                         *)
(* message     the Message and SocialMessage rows                          *)
(* hotQueue    the UserInHotQueue rows: the customers an agent looks after *)
(* hotMessage  the HotQueueMessage rows: what the agents' desk displays    *)
(* pageSender  the tabs whose page has a SocialSender row                  *)
(* isWorked    the tabs whose intake is paused (WorkingState.Pause = true) *)
(* botCalls    the messages that were posted to the bot service            *)
(*                                                                         *)
(* A row's id is its position.  The fields checkedAt, seen, fresh and      *)
(* closedBy, the job fields mark, checkedAt and added, and the variable    *)
(* torn are history: no guard reads them.                                  *)
(***************************************************************************)
EXTENDS Naturals, Sequences, FiniteSets

CONSTANTS Handlers,     \* slots for requests in flight
          Customers,    \* SocialSender rows of people writing to a page
          Tabs,         \* SocialTab rows
          Types,        \* workflow types in use
          Agents,       \* users who answer from the desk
          NoAgent,      \* userId = null
          Pausable,     \* bound: tabs whose owner pauses and resumes them
          MaxMessages,  \* bound: messages stored in a behaviour
          MaxEntries    \* bound: UserInHotQueue rows created in a behaviour

ASSUME TypesAssumption == Types \subseteq {"Message", "Comment"}
ASSUME AgentAssumption == NoAgent \notin Agents
ASSUME PausableAssumption == Pausable \subseteq Tabs
ASSUME BoundAssumption == MaxMessages \in Nat /\ MaxEntries \in Nat

VARIABLES message, hotQueue, hotMessage, pageSender, isWorked, botCalls,
          pc, job, torn

rows == <<message, hotQueue, hotMessage>>
vars == <<message, hotQueue, hotMessage, pageSender, isWorked, botCalls,
          pc, job, torn>>

(* The customer of a tab, per workflow type: what every hot-queue query    *)
(* filters on.                                                             *)
Keys == [customer : Customers, tab : Tabs, type : Types]

Ops == {"none", "save", "sentiment", "notify", "start", "stop"}
Steps == {"idle", "store", "score", "hook", "flow", "add", "announce",
          "check", "save", "claim", "delete", "purge", "done"}

MessageRow == [key : Keys, incoming : BOOLEAN]
QueueRow   == [key : Keys, live : BOOLEAN, userId : Agents \union {NoAgent},
               checkedAt : Nat]
DeskRow    == [key : Keys, msg : Nat, seen : Nat, fresh : BOOLEAN,
               closedBy : Nat]

NoKey == [customer |-> "none", tab |-> "none", type |-> "none"]
Locals(op, k, incoming, m, e, a) ==
    [op |-> op, key |-> k, incoming |-> incoming, msg |-> m, entry |-> e,
     userId |-> a, mark |-> 0, checkedAt |-> 0, added |-> 0]
NoJob == Locals("none", NoKey, FALSE, 0, 0, NoAgent)
Jobs  == [op : Ops, key : Keys \union {NoKey}, incoming : BOOLEAN, msg : Nat,
          entry : Nat, userId : Agents \union {NoAgent}, mark : Nat,
          checkedAt : Nat, added : Nat]

(* findUserInHotQueue: any undeleted row of the key, findFirst picks one.  *)
LiveEntries(k) ==
    {e \in 1..Len(hotQueue) : hotQueue[e].key = k /\ hotQueue[e].live}

Waiting(step) == {p \in Handlers : pc[p] = step}

Init ==
    /\ message = <<>>
    /\ hotQueue = <<>>
    /\ hotMessage = <<>>
    /\ pageSender = [t \in Tabs |-> FALSE]
    /\ isWorked = [t \in Tabs |-> FALSE]
    /\ botCalls = {}
    /\ pc = [p \in Handlers |-> "idle"]
    /\ job = [p \in Handlers |-> NoJob]
    /\ torn = {}

Start(p, step, j) ==
    /\ pc[p] = "idle"
    /\ pc' = [pc EXCEPT ![p] = step]
    /\ job' = [job EXCEPT ![p] = j]

Goto(p, step) == pc' = [pc EXCEPT ![p] = step]

(* A request whose local variables die with it.                            *)
Leave(p) ==
    /\ pc' = [pc EXCEPT ![p] = "idle"]
    /\ job' = [job EXCEPT ![p] = NoJob]
-----------------------------------------------------------------------------
(* Intake: createMessage and saveMessage.                                  *)

(* The tab is looked up and refused when paused; `incoming` is             *)
(* recipient.id === networkId for messages, type 'Comment' for comments.   *)
Receive(p) ==
    /\ Len(message) + Cardinality(Waiting("store")) < MaxMessages
    /\ \E k \in Keys, incoming \in BOOLEAN :
          /\ ~isWorked[k.tab]
          /\ Start(p, "store", Locals("save", k, incoming, 0, 0, NoAgent))
    /\ UNCHANGED <<rows, pageSender, isWorked, botCalls, torn>>

(* Both ends of a message get a SocialSender row, a comment only its       *)
(* author: the page's row appears with its first message or own comment.   *)
(* The lookups and the rows that racing handlers make twice are            *)
(* SenderRegistry's; here a page that has rows counts as having one.       *)
SenderRows(j) ==
    pageSender' = [pageSender EXCEPT
        ![j.key.tab] = @ \/ j.key.type = "Message" \/ ~j.incoming]

StoreRow(j) ==
    message' = Append(message, [key |-> j.key, incoming |-> j.incoming])

(* The new row's id, and how many queue rows there were when it was made.  *)
StoredAs(j, m, n) == [j EXCEPT !.msg = m, !.mark = n]

(* The row is created and announced to the tab's room; what is addressed   *)
(* to the page goes through the hook first.                                *)
Store(p) ==
    /\ pc[p] = "store"
    /\ StoreRow(job[p])
    /\ SenderRows(job[p])
    /\ Goto(p, IF job[p].incoming THEN "hook" ELSE "check")
    /\ job' = [job EXCEPT ![p] = StoredAs(@, Len(message) + 1, Len(hotQueue))]
    /\ UNCHANGED <<hotQueue, hotMessage, isWorked, botCalls, torn>>

(* A message that answers a known one: the row is created, then the        *)
(* MessageReplied row is refused, because it is given the network's id of  *)
(* the answered message where the schema wants the row's own id.           *)
StoreReply(p) ==
    /\ pc[p] = "store"
    /\ job[p].key.type = "Message"
    /\ \E m \in 1..Len(message) : message[m].key.type = "Message"
    /\ StoreRow(job[p])
    /\ SenderRows(job[p])
    /\ Leave(p)
    /\ UNCHANGED <<hotQueue, hotMessage, isWorked, botCalls, torn>>
-----------------------------------------------------------------------------
(* The bot's callbacks, for messages that were posted to it.               *)

CalculateSentiment(p) ==
    /\ \E m \in botCalls :
          /\ ~isWorked[message[m].key.tab]
          /\ Start(p, "score", Locals("sentiment", message[m].key, FALSE, m, 0,
                                      NoAgent))
    /\ UNCHANGED <<rows, pageSender, isWorked, botCalls, torn>>

(* The score is written to the row; no later step of the desk reads it.    *)
UpdateSentiment(p) ==
    /\ pc[p] = "score"
    /\ Goto(p, "hook")
    /\ UNCHANGED <<rows, pageSender, isWorked, botCalls, job, torn>>

(* The endpoint has no pause check.                                        *)
NotifyAgent(p) ==
    /\ \E m \in botCalls :
          Start(p, "hook", Locals("notify", message[m].key, FALSE, m, 0, NoAgent))
    /\ UNCHANGED <<rows, pageSender, isWorked, botCalls, torn>>
-----------------------------------------------------------------------------
(* tryCallHook and callService.                                            *)

(* Mutant: an intake whose customer is in the queue answers at once.       *)
AfterHookAnswers(op) == "done"

(* Where a request goes on after the hook: an intake still has to copy its *)
(* message to the desk, a callback is finished.                            *)
AfterHook(op) == IF op = "save" THEN "check" ELSE "done"

(* Mutant: the hook does not ask the queue.                                *)
TryCallHookUnasked(p) ==
    /\ pc[p] = "hook"
    /\ Goto(p, "flow")
    /\ job' = [job EXCEPT ![p].checkedAt = Len(hotQueue)]
    /\ UNCHANGED <<rows, pageSender, isWorked, botCalls, torn>>

(* Mutant: the hook looks only for entries an agent has claimed.           *)
TryCallHookClaimedOnly(p) ==
    /\ pc[p] = "hook"
    /\ IF \E e \in LiveEntries(job[p].key) : hotQueue[e].userId # NoAgent
       THEN /\ Goto(p, AfterHook(job[p].op))
            /\ UNCHANGED job
       ELSE /\ Goto(p, "flow")
            /\ job' = [job EXCEPT ![p].checkedAt = Len(hotQueue)]
    /\ UNCHANGED <<rows, pageSender, isWorked, botCalls, torn>>

(* willContinue: the automation stays out of an agent's conversation.      *)
TryCallHook(p) ==
    /\ pc[p] = "hook"
    /\ IF LiveEntries(job[p].key) # {}
       THEN /\ Goto(p, AfterHook(job[p].op))
            /\ UNCHANGED job
       ELSE /\ Goto(p, "flow")
            /\ job' = [job EXCEPT ![p].checkedAt = Len(hotQueue)]
    /\ UNCHANGED <<rows, pageSender, isWorked, botCalls, torn>>

(* Which node follows belongs to the tab's workflow, which its owner may   *)
(* redraw at any time: any outcome of the lookup is possible.              *)
NoNextNode(p) ==
    /\ pc[p] = "flow"
    /\ job[p].op # "notify"
    /\ Goto(p, AfterHook(job[p].op))
    /\ UNCHANGED <<rows, pageSender, isWorked, botCalls, job, torn>>

(* The sentiment and reply nodes post to the bot and do not wait for it.   *)
CallBot(p) ==
    /\ pc[p] = "flow"
    /\ job[p].op # "notify"
    /\ botCalls' = botCalls \union {job[p].msg}
    /\ Goto(p, AfterHook(job[p].op))
    /\ UNCHANGED <<rows, pageSender, isWorked, job, torn>>

Escalate(p) ==
    /\ pc[p] = "flow"
    /\ Len(hotQueue) + Cardinality(Waiting("add")) < MaxEntries
    /\ Goto(p, "add")
    /\ UNCHANGED <<rows, pageSender, isWorked, botCalls, job, torn>>

(* No active workflow, a missing node or missing flow data: a TypeError.   *)
HookError(p) ==
    /\ pc[p] = "flow"
    /\ Leave(p)
    /\ UNCHANGED <<rows, pageSender, isWorked, botCalls, torn>>

(* addToHotQueue creates the row without a second look at the queue.       *)
AddToHotQueue(p) ==
    /\ pc[p] = "add"
    /\ hotQueue' = Append(hotQueue, [key |-> job[p].key, live |-> TRUE,
                                     userId |-> NoAgent,
                                     checkedAt |-> job[p].checkedAt])
    /\ job' = [job EXCEPT ![p].added = Len(hotQueue) + 1]
    /\ Goto(p, IF job[p].op = "save" THEN "announce" ELSE "check")
    /\ UNCHANGED <<message, hotMessage, pageSender, isWorked, botCalls, torn>>

(* The sender is read back and the tab's room told.                        *)
Announce(p) ==
    /\ pc[p] = "announce"
    /\ Goto(p, AfterHook(job[p].op))
    /\ UNCHANGED <<rows, pageSender, isWorked, botCalls, job, torn>>
-----------------------------------------------------------------------------
(* checkThenSaveMessage: the end of an intake, and part of a callback's    *)
(* escalation (callSaveData).                                              *)

AfterSave(op) == IF op = "save" THEN "done" ELSE "announce"

CheckQueue(p) ==
    /\ pc[p] = "check"
    /\ pageSender[job[p].key.tab]
    /\ LET live == LiveEntries(job[p].key)
       IN  IF live = {}
           THEN /\ Goto(p, AfterSave(job[p].op))
                /\ UNCHANGED job
           ELSE /\ Goto(p, "save")
                /\ \E e \in live : job' = [job EXCEPT ![p].entry = e]
    /\ UNCHANGED <<rows, pageSender, isWorked, botCalls, torn>>

(* findSender returned null for the page: `sender.id` throws.              *)
NoPageSender(p) ==
    /\ pc[p] = "check"
    /\ ~pageSender[job[p].key.tab]
    /\ Leave(p)
    /\ UNCHANGED <<rows, pageSender, isWorked, botCalls, torn>>

SaveHotQueueMessage(p) ==
    /\ pc[p] = "save"
    /\ hotMessage' = Append(hotMessage,
            [key |-> job[p].key, msg |-> job[p].msg, seen |-> job[p].entry,
             fresh |-> hotQueue[job[p].entry].live, closedBy |-> 0])
    /\ Goto(p, AfterSave(job[p].op))
    /\ UNCHANGED <<message, hotQueue, pageSender, isWorked, botCalls, job, torn>>
-----------------------------------------------------------------------------
(* The desk: startHotQueue and stopHotQueue, each over one socket event.   *)
(* Both find an undeleted row first and give up without one.               *)

StartHotQueue(p) ==
    /\ \E k \in Keys, a \in Agents : \E e \in LiveEntries(k) :
          Start(p, "claim", Locals("start", k, FALSE, 0, e, a))
    /\ UNCHANGED <<rows, pageSender, isWorked, botCalls, torn>>

(* Mutant: the claim writes its columns in the wrong order.                *)
ClaimSwapped(p) ==
    /\ pc[p] = "claim"
    /\ hotQueue' = [hotQueue EXCEPT ![job[p].entry].userId = job[p].op]
    /\ Goto(p, "done")
    /\ UNCHANGED <<message, hotMessage, pageSender, isWorked, botCalls, job,
                   torn>>

(* The update is by id: it also hits a row that was closed meanwhile.      *)
Claim(p) ==
    /\ pc[p] = "claim"
    /\ hotQueue' = [hotQueue EXCEPT ![job[p].entry].userId = job[p].userId]
    /\ Goto(p, "done")
    /\ UNCHANGED <<message, hotMessage, pageSender, isWorked, botCalls, job,
                   torn>>

StopHotQueue(p) ==
    /\ \E k \in Keys : \E e \in LiveEntries(k) :
          Start(p, "delete", Locals("stop", k, FALSE, 0, e, NoAgent))
    /\ UNCHANGED <<rows, pageSender, isWorked, botCalls, torn>>

(* Mutant: the stop answers after its first write.                         *)
DeleteEntryOnly(p) ==
    /\ pc[p] = "delete"
    /\ hotQueue' = [hotQueue EXCEPT ![job[p].entry].live = FALSE]
    /\ Goto(p, "done")
    /\ UNCHANGED <<message, hotMessage, pageSender, isWorked, botCalls, job,
                   torn>>

DeleteEntry(p) ==
    /\ pc[p] = "delete"
    /\ hotQueue' = [hotQueue EXCEPT ![job[p].entry].live = FALSE]
    /\ Goto(p, "purge")
    /\ UNCHANGED <<message, hotMessage, pageSender, isWorked, botCalls, job,
                   torn>>

(* Mutant: the purge forgets the rows the customer received.              *)
PurgeRowSentOnly(r, j) ==
    IF r.key = j.key /\ r.closedBy = 0 /\ message[r.msg].incoming
    THEN [r EXCEPT !.closedBy = j.entry]
    ELSE r

(* updateMany over the customer's undeleted rows of the tab and type.      *)
PurgeRow(r, j) ==
    IF r.key = j.key /\ r.closedBy = 0
    THEN [r EXCEPT !.closedBy = j.entry]
    ELSE r

PurgeMessages(p) ==
    /\ pc[p] = "purge"
    /\ hotMessage' = [i \in 1..Len(hotMessage) |-> PurgeRow(hotMessage[i], job[p])]
    /\ torn' = torn \ {job[p].key}
    /\ Goto(p, "done")
    /\ UNCHANGED <<message, hotQueue, pageSender, isWorked, botCalls, job>>
-----------------------------------------------------------------------------
(* The response leaves and the slot is free again.                         *)
Return(p) ==
    /\ pc[p] = "done"
    /\ Leave(p)
    /\ UNCHANGED <<rows, pageSender, isWorked, botCalls, torn>>

(* The tab's owner pauses or resumes the intake.                           *)
UpdateWorkingState(t) ==
    /\ isWorked' = [isWorked EXCEPT ![t] = ~@]
    /\ UNCHANGED <<rows, pageSender, botCalls, pc, job, torn>>

(* Stops that die between the two writes of stopHotQueue.                  *)
TornBy(S) == {job[p].key : p \in {q \in S : pc[q] = "purge"}}

(* Any awaited query may throw; what was written before it stays.          *)
Fail(p) ==
    /\ pc[p] \notin {"idle", "done"}
    /\ Leave(p)
    /\ torn' = torn \union TornBy({p})
    /\ UNCHANGED <<rows, pageSender, isWorked, botCalls>>

(* The posts to the bot have no error callback: a bot that does not answer *)
(* is an uncaught exception, which ends the process and every request.     *)
Crash ==
    /\ botCalls # {}
    /\ \E p \in Handlers : pc[p] # "idle"
    /\ pc' = [p \in Handlers |-> "idle"]
    /\ job' = [p \in Handlers |-> NoJob]
    /\ torn' = torn \union TornBy(Handlers)
    /\ UNCHANGED <<rows, pageSender, isWorked, botCalls>>

(* What a request in flight does next when nothing fails.                  *)
Step(p) ==
    \/ Store(p) \/ StoreReply(p) \/ UpdateSentiment(p)
    \/ TryCallHook(p) \/ NoNextNode(p) \/ CallBot(p) \/ Escalate(p)
    \/ HookError(p) \/ AddToHotQueue(p) \/ Announce(p)
    \/ CheckQueue(p) \/ NoPageSender(p) \/ SaveHotQueueMessage(p)
    \/ Claim(p) \/ DeleteEntry(p) \/ PurgeMessages(p) \/ Return(p)

Request(p) ==
    \/ Receive(p) \/ CalculateSentiment(p) \/ NotifyAgent(p)
    \/ StartHotQueue(p) \/ StopHotQueue(p)

(* At the bound, and with nothing in flight, the server only waits.        *)
Rest ==
    /\ Len(message) = MaxMessages
    /\ pc = [p \in Handlers |-> "idle"]
    /\ UNCHANGED vars

Next ==
    \/ \E p \in Handlers : Request(p) \/ Step(p) \/ Fail(p)
    \/ \E t \in Pausable : UpdateWorkingState(t)
    \/ Crash
    \/ Rest

(* A query the database accepts is answered in the end: each request in    *)
(* flight goes on.  New requests, failures and crashes are never forced.   *)
Fairness == \A p \in Handlers : WF_vars(Step(p))

Spec == Init /\ [][Next]_vars
FairSpec == Spec /\ Fairness
-----------------------------------------------------------------------------
(* Every table holds rows of its type, and every id a row or a request     *)
(* refers to is a row of the table it names.                               *)
TypeOK ==
    /\ message \in Seq(MessageRow)
    /\ hotQueue \in Seq(QueueRow)
    /\ hotMessage \in Seq(DeskRow)
    /\ pageSender \in [Tabs -> BOOLEAN]
    /\ isWorked \in [Tabs -> BOOLEAN]
    /\ botCalls \subseteq 1..Len(message)
    /\ pc \in [Handlers -> Steps]
    /\ job \in [Handlers -> Jobs]
    /\ torn \subseteq Keys

(* The automation never acts on a customer whom an agent was already       *)
(* looking after when the hook (tryCallHook) asked: every queue entry that *)
(* is live while the hook runs its workflow is younger than that question. *)
HookSnapshot ==
    \A p \in Handlers :
        pc[p] \in {"flow", "add"} =>
            \A e \in LiveEntries(job[p].key) : e > job[p].checkedAt

(* addToHotQueue does not look before it inserts, so a customer can be on  *)
(* the desk twice; that takes two hooks that both asked before either      *)
(* inserted, never a hook that started on a customer already there.        *)
DuplicatesOnlyFromRacingHooks ==
    \A d, e \in 1..Len(hotQueue) :
        (/\ d < e
         /\ hotQueue[d].live
         /\ hotQueue[e].live
         /\ hotQueue[d].key = hotQueue[e].key)
        => hotQueue[e].checkedAt < d

OnDesk(m, k) ==
    \E i \in 1..Len(hotMessage) : hotMessage[i].msg = m /\ hotMessage[i].key = k

(* An intake or an escalation that answers without an error has put its    *)
(* message on the desk of each agent entry that was there when the message *)
(* was stored, or that it created itself, and that is still open.          *)
DeskComplete ==
    \A p \in Handlers :
        (pc[p] = "done" /\ job[p].op \in {"save", "sentiment", "notify"}) =>
            \A e \in LiveEntries(job[p].key) :
                (e <= job[p].mark \/ e = job[p].added) =>
                    OnDesk(job[p].msg, job[p].key)

(* getConversation reads supportStatus.userId of the live queue entry of   *)
(* every live desk message: without one the whole list fails.  Such a      *)
(* message exists only while a stop is between its two writes, after a     *)
(* stop died there, or when the message was saved for an entry that had    *)
(* been closed since checkThenSaveMessage looked.                          *)
OrphansExplained ==
    \A i \in 1..Len(hotMessage) :
        LET r == hotMessage[i] IN
        (r.closedBy = 0 /\ LiveEntries(r.key) = {}) =>
            \/ ~r.fresh
            \/ r.key \in torn
            \/ \E p \in Handlers : pc[p] = "purge" /\ job[p].key = r.key

(* stopHotQueue takes messages off the desk for no customer, tab or type   *)
(* but its own, and never before the entry it stops is closed.             *)
PurgeScoped ==
    \A i \in 1..Len(hotMessage) :
        LET d == hotMessage[i].closedBy IN
        d # 0 => /\ d \in 1..Len(hotQueue)
                 /\ hotQueue[d].key = hotMessage[i].key
                 /\ ~hotQueue[d].live

(* A closed conversation leaves the desk: a message that was saved for an  *)
(* entry then open does not stay displayed once the entry is closed,       *)
(* unless the stop that closed it died half-way.                           *)
Stranded(k) ==
    /\ k \notin torn
    /\ \E i \in 1..Len(hotMessage) :
          LET r == hotMessage[i] IN
          /\ r.key = k
          /\ r.closedBy = 0
          /\ r.fresh
          /\ ~hotQueue[r.seen].live

StoppedConversationsClear == \A k \in Keys : Stranded(k) ~> ~Stranded(k)
=============================================================================
