---------------------------- MODULE WorkflowData ----------------------------
(***************************************************************************)
(* What a tab's automation knows of one message: the WorkflowData row that *)
(* the first hook creates, that the bot's callbacks merge their fields     *)
(* into, and that every call of a service is made from.                    *)
(*                                                                         *)
(* A row belongs to a message and to the workflow that was active when its *)
(* hook looked.  A callback looks for the active workflow again: in the    *)
(* meantime people switch workflows, delete them and stop conversations.   *)
(* Every awaited query is a step.                                          *)
(*                                                                         *)
(* row        the WorkflowData rows: their workflow and their fields       *)
(* active     the workflows of the tab and type with isActive              *)
(* deleted    the workflows with delete                                    *)
(* onDesk     is the sender in the hot queue?                              *)
(* received   has the message been stored?                                 *)
(* posted     the services that were sent the message                      *)
(* hook       what each hook does next and its local variables             *)
(*                                                                         *)
(* disturbed (workflows were changed since the message came), written      *)
(* (fields whose update is over) and raced (two updates overlapped) are    *)
(* history; callbacks and switches are counters for the bounds.            *)
(***************************************************************************)
EXTENDS Naturals, Sequences

CONSTANTS Hooks,         \* bound: hooks at a time
          Flows,         \* workflows of the tab
          Graph,         \* their drawings: what follows a node of each type
          None,
          MaxCallbacks,  \* bound: what the bot sends
          MaxSwitches    \* bound: changes to the workflows

(* Assumed of the drawings: the nodes that may follow.  What follows a     *)
(* sentiment node is empty only where the workflow has no such node.       *)
DrawnAssumption ==
    /\ Graph \in [Flows -> [receive : {"sentiment", "reply", "agent", "none"},
                            sentiment : SUBSET {"reply", "agent", "none"}]]
    /\ \A f \in Flows : Graph[f].receive = "sentiment" => Graph[f].sentiment # {}

BoundAssumption == MaxCallbacks \in Nat /\ MaxSwitches \in Nat

VARIABLES row, active, deleted, onDesk, received, posted, hook,
          disturbed, written, raced, callbacks, switches

history == <<disturbed, written, raced, callbacks, switches>>
vars == <<row, active, deleted, onDesk, received, posted, hook, history>>

Ops == {"receive", "sentiment", "agent"}
Idle == [pc |-> "idle", op |-> "none", flow |-> None, at |-> 0, seen |-> {},
         target |-> "none", gone |-> FALSE, payload |-> {}, outcome |-> "none"]

Init ==
    /\ row = <<>> /\ received = FALSE /\ posted = {}
    /\ active \in SUBSET Flows /\ deleted = {}
    /\ onDesk \in BOOLEAN
    /\ hook = [h \in Hooks |-> Idle]
    /\ disturbed = FALSE /\ written = {} /\ raced = FALSE
    /\ callbacks = 0 /\ switches = 0

At(h, step) == hook[h].pc = step
Change(h, r) == hook' = [hook EXCEPT ![h] = r]
Goto(h, step) == Change(h, [hook[h] EXCEPT !.pc = step])
End(h, outcome) == Change(h, [hook[h] EXCEPT !.pc = "done", !.outcome = outcome])
-----------------------------------------------------------------------------
(* The three callers of tryCallHook.                                       *)

Begin(h, op, step) ==
    /\ hook[h].pc \in {"idle", "done"}
    /\ Change(h, [Idle EXCEPT !.pc = step, !.op = op])
    /\ UNCHANGED <<row, active, deleted, onDesk, posted, disturbed, written, raced, switches>>

(* message/save and socialmessage/save: the row of the message is new.     *)
CreateMessage(h) ==
    /\ ~received /\ received' = TRUE
    /\ Begin(h, "receive", "queue")
    /\ UNCHANGED callbacks

(* The bot answers /sentiment, and asks for an agent, as often as it likes *)
(* once a service has the message.                                         *)
CalculateSentiment(h) ==
    /\ "sentiment" \in posted /\ callbacks < MaxCallbacks
    /\ callbacks' = callbacks + 1
    /\ UNCHANGED received
    /\ Begin(h, "sentiment", "queue")

NotifyAgent(h) ==
    /\ posted # {} /\ callbacks < MaxCallbacks
    /\ callbacks' = callbacks + 1
    /\ UNCHANGED received
    /\ Begin(h, "agent", "named")

(* getWorkflowById of the id that was sent to the bot; its answer only     *)
(* serves for the tab.                                                     *)
GetNamedWorkflow(h) ==
    /\ At(h, "named")
    /\ \E i \in DOMAIN row :
          IF row[i].flow \in deleted THEN End(h, "error") ELSE Goto(h, "queue")
    /\ UNCHANGED <<row, active, deleted, onDesk, received, posted, history>>
-----------------------------------------------------------------------------
(* tryCallHook.                                                            *)

FindUserInHotQueue(h) ==
    /\ At(h, "queue")
    /\ IF onDesk THEN End(h, "on desk") ELSE Goto(h, "flow")
    /\ UNCHANGED <<row, active, deleted, onDesk, received, posted, history>>

FindWorkflowByTabId(h) ==
    /\ At(h, "flow")
    /\ \/ active = {} /\ End(h, "error")
       \/ \E f \in active : Change(h, [hook[h] EXCEPT !.pc = "read", !.flow = f])
    /\ UNCHANGED <<row, active, deleted, onDesk, received, posted, history>>

RowsOf(f) == {i \in DOMAIN row : row[i].flow = f}
Fresh(op) == IF op = "receive" THEN {"message"} ELSE {op}

(* Only the intake says of which type the message is; updateData of a      *)
(* callback that finds no row does nothing.                                *)
GetWorkflowData(h) ==
    /\ At(h, "read")
    /\ \/ RowsOf(hook[h].flow) = {}
          /\ Goto(h, IF hook[h].op = "receive" THEN "create" ELSE "node")
       \/ \E i \in RowsOf(hook[h].flow) :
             Change(h, [hook[h] EXCEPT !.pc = "write", !.at = i, !.seen = row[i].data])
    /\ UNCHANGED <<row, active, deleted, onDesk, received, posted, history>>

(* Mutant: the row takes the new fields alone.                             *)
UpdateDataUnmerged(h) ==
    /\ At(h, "write")
    /\ row' = [row EXCEPT ![hook[h].at].data = Fresh(hook[h].op)]
    /\ written' = written \union Fresh(hook[h].op)
    /\ raced' = (raced \/ \E g \in Hooks \ {h} : At(g, "write"))
    /\ Goto(h, "node")
    /\ UNCHANGED <<active, deleted, onDesk, received, posted, disturbed, callbacks, switches>>

UpdateData(h) ==
    /\ At(h, "write")
    /\ row' = [row EXCEPT ![hook[h].at].data = hook[h].seen \union Fresh(hook[h].op)]
    /\ written' = written \union Fresh(hook[h].op)
    /\ raced' = (raced \/ \E g \in Hooks \ {h} : At(g, "write"))
    /\ Goto(h, "node")
    /\ UNCHANGED <<active, deleted, onDesk, received, posted, disturbed, callbacks, switches>>

(* The row's page is found through the workflow, which must not be deleted *)
(* for that, although findWorkflowByTabId finds deleted ones.              *)
GetSocialTabInfo(h) ==
    /\ At(h, "create")
    /\ IF hook[h].flow \in deleted THEN End(h, "error") ELSE Goto(h, "insert")
    /\ UNCHANGED <<row, active, deleted, onDesk, received, posted, history>>

(* Mutant: the hook does not wait for the row, which comes too late.       *)
CreateDataUnawaited(h) ==
    /\ At(h, "insert")
    /\ Goto(h, "node")
    /\ UNCHANGED <<row, active, deleted, onDesk, received, posted, history>>

CreateData(h) ==
    /\ At(h, "insert")
    /\ row' = Append(row, [flow |-> hook[h].flow, data |-> Fresh(hook[h].op)])
    /\ written' = written \union Fresh(hook[h].op)
    /\ Goto(h, "node")
    /\ UNCHANGED <<active, deleted, onDesk, received, posted, disturbed, raced, callbacks, switches>>

Target(h, target) ==
    IF target = "none" THEN End(h, "over")
    ELSE Change(h, [hook[h] EXCEPT !.pc = "load", !.target = target])

(* The node after the current one; a workflow without a sentiment node     *)
(* cannot take a sentiment.                                                *)
FindNextNode(h) ==
    /\ At(h, "node")
    /\ \/ hook[h].op = "receive" /\ Target(h, Graph[hook[h].flow].receive)
       \/ hook[h].op = "agent" /\ Target(h, "agent")
       \/ /\ hook[h].op = "sentiment"
          /\ \/ Graph[hook[h].flow].sentiment = {} /\ End(h, "error")
             \/ \E t \in Graph[hook[h].flow].sentiment : Target(h, t)
    /\ UNCHANGED <<row, active, deleted, onDesk, received, posted, history>>
-----------------------------------------------------------------------------
(* callService.                                                            *)

Load(h) ==
    /\ At(h, "load")
    /\ \/ RowsOf(hook[h].flow) = {} /\ End(h, "error")
       \/ \E i \in RowsOf(hook[h].flow) :
             Change(h, [hook[h] EXCEPT !.pc = "setting", !.payload = row[i].data])
    /\ UNCHANGED <<row, active, deleted, onDesk, received, posted, history>>

(* The bot's address is read, and the message posted to it.                *)
Post(h) ==
    /\ At(h, "setting") /\ hook[h].target \in {"sentiment", "reply"}
    /\ posted' = posted \union {hook[h].target}
    /\ End(h, "over")
    /\ UNCHANGED <<row, active, deleted, onDesk, received, history>>

GetWorkflowById(h) ==
    /\ At(h, "setting") /\ hook[h].target = "agent"
    /\ Change(h, [hook[h] EXCEPT !.pc = "add", !.gone = hook[h].flow \in deleted])
    /\ UNCHANGED <<row, active, deleted, onDesk, received, posted, history>>

AddToHotQueue(h) ==
    /\ At(h, "add")
    /\ onDesk' = TRUE
    /\ Goto(h, "announce")
    /\ UNCHANGED <<row, active, deleted, received, posted, history>>

(* notifyAgent goes to workflow.tabId, which a deleted workflow no longer  *)
(* has.                                                                    *)
Announce(h) ==
    /\ At(h, "announce")
    /\ End(h, IF hook[h].gone THEN "unheard" ELSE "heard")
    /\ UNCHANGED <<row, active, deleted, onDesk, received, posted, history>>

QueryFails(h) ==
    /\ hook[h].pc \notin {"idle", "done"}
    /\ End(h, "query")
    /\ UNCHANGED <<row, active, deleted, onDesk, received, posted, history>>
-----------------------------------------------------------------------------
(* What people do meanwhile.                                               *)

Switch(A, D) ==
    /\ switches < MaxSwitches
    /\ switches' = switches + 1
    /\ active' = A /\ deleted' = D
    /\ disturbed' = (disturbed \/ received)
    /\ UNCHANGED <<row, onDesk, received, posted, hook, written, raced, callbacks>>

DeactivateAllWorkflow == active # {} /\ Switch({}, deleted)
UpdateActivation(f) == f \notin deleted \union active /\ Switch(active \union {f}, deleted)
DeleteWorkflow(f) == f \notin deleted /\ Switch(active, deleted \union {f})

StopHotQueue ==
    /\ onDesk /\ onDesk' = FALSE
    /\ UNCHANGED <<row, active, deleted, received, posted, hook, history>>

(* Nothing is under way.                                                   *)
Rest ==
    /\ received /\ \A h \in Hooks : hook[h].pc \in {"idle", "done"}
    /\ UNCHANGED vars

Next ==
    \/ \E h \in Hooks :
          \/ CreateMessage(h) \/ CalculateSentiment(h) \/ NotifyAgent(h)
          \/ GetNamedWorkflow(h) \/ FindUserInHotQueue(h) \/ FindWorkflowByTabId(h)
          \/ GetWorkflowData(h) \/ UpdateData(h) \/ GetSocialTabInfo(h) \/ CreateData(h)
          \/ FindNextNode(h) \/ Load(h) \/ Post(h) \/ GetWorkflowById(h) \/ AddToHotQueue(h)
          \/ Announce(h) \/ QueryFails(h)
    \/ \E f \in Flows : UpdateActivation(f) \/ DeleteWorkflow(f)
    \/ DeactivateAllWorkflow \/ StopHotQueue \/ Rest

Spec == Init /\ [][Next]_vars
-----------------------------------------------------------------------------
Fields == {"message", "sentiment", "agent"}
Steps == {"idle", "named", "queue", "flow", "read", "create", "insert", "write", "node",
          "load", "setting", "add", "announce", "done"}

RowType == [flow : Flows, data : SUBSET Fields]
HookState == [pc : Steps, op : Ops \union {"none"}, flow : Flows \union {None},
              at : Nat, seen : SUBSET Fields,
              target : {"none", "sentiment", "reply", "agent"},
              gone : BOOLEAN, payload : SUBSET Fields,
              outcome : {"none", "on desk", "error", "query", "over",
                         "heard", "unheard"}]

TypeOK ==
    /\ row \in Seq(RowType)
    /\ active \subseteq Flows /\ deleted \subseteq Flows
    /\ onDesk \in BOOLEAN /\ received \in BOOLEAN
    /\ posted \subseteq {"sentiment", "reply"}
    /\ hook \in [Hooks -> HookState]
    /\ \A h \in Hooks : hook[h].at \in {0} \union DOMAIN row
    /\ disturbed \in BOOLEAN /\ written \subseteq Fields /\ raced \in BOOLEAN
    /\ callbacks \in 0..MaxCallbacks /\ switches \in 0..MaxSwitches

(* A message has one row over all workflows, although updateData creates   *)
(* one where it finds none: callbacks do not know the type and so create   *)
(* nothing, even after a switch of workflows.                              *)
OneRow == Len(row) <= 1

(* While one workflow is active and nobody touches the workflows, every    *)
(* callback finds the data of its message: the row is there before any     *)
(* service can answer.                                                     *)
ErrorsNeedASwitch ==
    \A h \in Hooks :
        hook[h].outcome = "error" =>
            disturbed \/ ~\E f \in Flows \ deleted : active = {f}

(* A field that a callback has stored is lost only when two updates of the *)
(* row overlapped (updateData merges into what it read).                   *)
FieldsLostOnlyInRaces ==
    raced \/ \A f \in written : \E i \in DOMAIN row : f \in row[i].data

(* A service is called with the message and with what its own callback     *)
(* brought, unless updates overlapped.                                     *)
PayloadIsComplete ==
    raced \/ \A h \in Hooks :
        hook[h].pc \in {"setting", "add", "announce"}
            => {"message"} \union Fresh(hook[h].op) \subseteq hook[h].payload

(* A customer is put on the desk without any agent hearing of it only by   *)
(* the automation of a workflow that was deleted while still active.       *)
UnheardOnlyOfDeleted ==
    \A h \in Hooks : hook[h].outcome = "unheard" => hook[h].flow \in deleted

(* What the callbacks bring is kept and sent on.                           *)
FieldsReachTheServices == TypeOK /\ FieldsLostOnlyInRaces /\ PayloadIsComplete

(* A callback goes on where its message's hook stopped: there is one row,  *)
(* it is found, and an agent hears of it, unless the workflows changed.    *)
CallbacksFindTheirRow == OneRow /\ ErrorsNeedASwitch /\ UnheardOnlyOfDeleted
-----------------------------------------------------------------------------
(* What the steps rely on (HotQueueProofs).                                *)

Looked == {"read", "create", "insert", "write", "node", "load", "setting", "add",
           "announce"}

(* The row is inserted once, by the hook of the intake, before anything is *)
(* sent that could be answered.                                            *)
IntakeOK ==
    /\ ~received => row = <<>> /\ \A h \in Hooks : hook[h].op = "none"
    /\ \A g, h \in Hooks : hook[g].op = "receive" /\ hook[h].op = "receive" => g = h
    /\ posted # {} => row # <<>>
    /\ row # <<>> => "message" \in written
    /\ \A h \in Hooks :
          /\ hook[h].op = "none" <=> hook[h].pc = "idle"
          /\ hook[h].pc \in {"create", "insert"} => hook[h].op = "receive"
          /\ hook[h].op = "sentiment" => "sentiment" \in posted
          /\ row = <<>> => hook[h].op \notin {"sentiment", "agent"}
          /\ row = <<>> => hook[h].pc \notin {"write", "node", "load", "setting", "add",
                                             "announce"}
          /\ hook[h].op = "receive" /\ row # <<>>
                => hook[h].pc \notin {"named", "queue", "flow", "read", "create", "insert"}

(* Where a hook is in its workflow's drawing.                              *)
HooksOK ==
    \A h \in Hooks :
        /\ hook[h].pc \in Looked => hook[h].flow \in Flows
        /\ hook[h].pc = "write" => hook[h].at \in DOMAIN row
        /\ hook[h].pc \in {"load", "setting"} /\ hook[h].target = "sentiment"
              => Graph[hook[h].flow].receive = "sentiment"
        /\ hook[h].gone => /\ hook[h].flow \in deleted
                           /\ hook[h].pc \in {"add", "announce", "done"}
        /\ hook[h].outcome # "none" => hook[h].pc = "done"

(* While one workflow is active and untouched, everything is about it.     *)
CalmOK ==
    \A f \in Flows \ deleted :
        received /\ ~disturbed /\ active = {f} =>
           /\ \A i \in DOMAIN row : row[i].flow = f
           /\ "sentiment" \in posted => Graph[f].receive = "sentiment"
           /\ \A h \in Hooks :
                 /\ hook[h].pc \in Looked => hook[h].flow = f
                 /\ hook[h].outcome # "error"

(* Without overlapping updates a hook has read what it merges into, and    *)
(* its field is stored when it loads, if it has found the row.             *)
MergeOK ==
    ~raced => \A h \in Hooks :
        /\ hook[h].pc = "write" => hook[h].seen = row[hook[h].at].data
        /\ hook[h].pc \in {"node", "load"} /\ RowsOf(hook[h].flow) # {}
              => Fresh(hook[h].op) \subseteq written

(* The inductive invariant.                                                *)
IInv == TypeOK /\ OneRow /\ IntakeOK /\ HooksOK /\ CalmOK /\ MergeOK
        /\ FieldsLostOnlyInRaces /\ PayloadIsComplete /\ UnheardOnlyOfDeleted
=============================================================================
