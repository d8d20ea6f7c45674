--------------------------- MODULE HotQueueProofs ---------------------------
(***************************************************************************)
(* HotQueue's invariants hold for any number of requests in flight,        *)
(* customers, tabs and agents, and for any bounds; WorkflowData's, further *)
(* down, for any hooks, callbacks and changes of the workflows.            *)
(*                                                                         *)
(* IInv is inductive.  Most steps move one request and leave the tables    *)
(* alone; RequestMoves settles all of them at once.  The others write one  *)
(* table each, and have a lemma that says what the write leaves intact.    *)
(***************************************************************************)
EXTENDS DeskAndData, SequenceTheorems, TLAPS
-----------------------------------------------------------------------------
(* The inductive strengthening of the invariants above, in named parts.    *)
(* What concerns one request is said of its step s and its locals j.       *)

Hooked == {"hook", "flow", "add", "announce", "check", "save"}
Writers == {"save", "sentiment", "notify"}

(* A request in flight works on rows that exist, under the operation that  *)
(* leads to its step, and its snapshots are not from the future.           *)
RequestOK(s, j) ==
    /\ s # "idle" => j.key \in Keys
    /\ s = "store" => j.op = "save"
    /\ s = "score" => j.op = "sentiment"
    /\ s \in Hooked => j.op \in Writers
    /\ s \in {"claim", "delete", "purge"} => j.op \notin Writers
    /\ s \in Hooked \union {"score"} => j.msg \in 1..Len(message)
    /\ j.mark <= Len(hotQueue)
    /\ j.checkedAt <= Len(hotQueue)
    /\ j.added <= Len(hotQueue)
    /\ j.op # "save" => j.mark = 0
    /\ s \in {"store", "score", "hook", "flow", "add"} => j.added = 0

(* A request that acts on an entry found it under its own key, and a stop  *)
(* about to purge has closed it.                                           *)
EntryOK(s, j) ==
    /\ s \in {"save", "claim", "delete", "purge"} =>
          /\ j.entry \in 1..Len(hotQueue)
          /\ hotQueue[j.entry].key = j.key
    /\ s = "purge" => ~hotQueue[j.entry].live

SnapshotOK(s, j) ==
    s \in {"flow", "add"} => \A e \in LiveEntries(j.key) : e > j.checkedAt

(* DeskComplete holds from the moment the desk was written, which for a    *)
(* callback is before the announcement.                                    *)
SettledOK(s, j) ==
    (\/ s = "done" /\ j.op \in Writers
     \/ s = "announce" /\ j.op \in {"sentiment", "notify"})
    => \A e \in LiveEntries(j.key) :
          (e <= j.mark \/ e = j.added) => OnDesk(j.msg, j.key)

LocalOK(s, j) ==
    RequestOK(s, j) /\ EntryOK(s, j) /\ SnapshotOK(s, j) /\ SettledOK(s, j)

(* A desk message remembers an entry of its own customer.                  *)
SeenOK ==
    \A i \in 1..Len(hotMessage) :
        /\ hotMessage[i].seen \in 1..Len(hotQueue)
        /\ hotQueue[hotMessage[i].seen].key = hotMessage[i].key

(* Who still owes the desk a clean-up for a closed entry.                  *)
Unpurged(k) ==
    \/ k \in torn
    \/ \E p \in Handlers : pc[p] = "purge" /\ job[p].key = k

FreshOK ==
    \A i \in 1..Len(hotMessage) :
        (/\ hotMessage[i].closedBy = 0
         /\ hotMessage[i].fresh
         /\ ~hotQueue[hotMessage[i].seen].live)
        => Unpurged(hotMessage[i].key)

IInv ==
    /\ TypeOK
    /\ \A p \in Handlers : LocalOK(pc[p], job[p])
    /\ DuplicatesOnlyFromRacingHooks
    /\ SeenOK
    /\ FreshOK
    /\ PurgeScoped
-----------------------------------------------------------------------------
(* Nothing is in flight and no row exists at the start.                    *)
LEMMA InitIInv == Init => IInv
<1> SUFFICES ASSUME Init PROVE IInv
    OBVIOUS
<1> USE DEF Init
<1>1. TypeOK
    BY DEF TypeOK, Steps, Jobs, NoJob, Locals, Ops, NoKey
<1>2. ASSUME NEW p \in Handlers PROVE LocalOK(pc[p], job[p])
    BY DEF LocalOK, RequestOK, EntryOK, SnapshotOK, SettledOK, Hooked, Writers,
           NoJob, Locals
<1>3. DuplicatesOnlyFromRacingHooks /\ SeenOK /\ FreshOK /\ PurgeScoped
    BY DEF DuplicatesOnlyFromRacingHooks, SeenOK, FreshOK, PurgeScoped
<1> QED
    BY <1>1, <1>2, <1>3 DEF IInv

(* A request that moves from its step to s with locals j, on the same      *)
(* tables, keeps IInv when (s, j) is a state a request may be in and a     *)
(* stop that dies leaves its mark in torn.                                 *)
LEMMA RequestMoves ==
    ASSUME IInv, NEW p \in Handlers, NEW s \in Steps, NEW j \in Jobs,
           pc' = [pc EXCEPT ![p] = s],
           job' = [job EXCEPT ![p] = j],
           UNCHANGED rows,
           pageSender' \in [Tabs -> BOOLEAN],
           isWorked' \in [Tabs -> BOOLEAN],
           botCalls' \subseteq 1..Len(message),
           torn \subseteq torn', torn' \subseteq Keys,
           pc[p] = "purge" => job[p].key \in torn',
           LocalOK(s, j)
    PROVE  IInv'
<1> USE DEF IInv, rows
<1>1. TypeOK'
    BY DEF TypeOK
<1>2. ASSUME NEW q \in Handlers PROVE LocalOK(pc[q], job[q])'
    <2>1. LocalOK(pc'[q], job'[q])
        BY DEF TypeOK
    <2> QED
        BY <2>1 DEF LocalOK, RequestOK, EntryOK, SnapshotOK, SettledOK,
                    LiveEntries, OnDesk
<1>3. (DuplicatesOnlyFromRacingHooks /\ SeenOK /\ PurgeScoped)'
    BY DEF DuplicatesOnlyFromRacingHooks, SeenOK, PurgeScoped
<1>4. FreshOK'
    <2>1. ASSUME NEW k, Unpurged(k) PROVE Unpurged(k)'
        BY <2>1 DEF Unpurged, TypeOK
    <2> QED
        BY <2>1 DEF FreshOK
<1> QED
    BY <1>1, <1>2, <1>3, <1>4

(* A message the bot knows is a stored row of a customer.                  *)
LEMMA MessageKey ==
    ASSUME IInv, NEW m \in botCalls
    PROVE  m \in 1..Len(message) /\ message[m].key \in Keys
<1>1. m \in 1..Len(message) /\ message \in Seq(MessageRow)
    BY DEF IInv, TypeOK
<1>2. message[m] \in MessageRow
    BY <1>1, ElementOfSeq
<1> QED
    BY <1>1, <1>2 DEF MessageRow

(* A new request starts with the locals its handler found.                 *)
LEMMA RequestIInv ==
    ASSUME IInv, NEW p \in Handlers, Request(p)
    PROVE  IInv'
<1> USE DEF Start, Locals
<1>1. CASE Receive(p)
    <2>1. PICK k \in Keys, incoming \in BOOLEAN :
            Start(p, "store", Locals("save", k, incoming, 0, 0, NoAgent))
        BY <1>1 DEF Receive
    <2>2. Locals("save", k, incoming, 0, 0, NoAgent) \in Jobs
        BY DEF Jobs, Ops
    <2>3. LocalOK("store", Locals("save", k, incoming, 0, 0, NoAgent))
        BY DEF IInv, TypeOK, LocalOK, RequestOK, EntryOK, SnapshotOK, SettledOK,
               Hooked, Writers
    <2> QED
        BY <1>1, <2>1, <2>2, <2>3, RequestMoves DEF Receive, Steps, IInv, TypeOK
<1>2. CASE CalculateSentiment(p)
    <2>1. PICK m \in botCalls :
            Start(p, "score", Locals("sentiment", message[m].key, FALSE, m, 0,
                                     NoAgent))
        BY <1>2 DEF CalculateSentiment
    <2>2. m \in 1..Len(message) /\ message[m].key \in Keys
        BY <2>1, MessageKey
    <2>3. Locals("sentiment", message[m].key, FALSE, m, 0, NoAgent) \in Jobs
        BY <2>2 DEF Jobs, Ops
    <2>4. LocalOK("score", Locals("sentiment", message[m].key, FALSE, m, 0,
                                  NoAgent))
        BY <2>2 DEF IInv, TypeOK, LocalOK, RequestOK, EntryOK, SnapshotOK,
               SettledOK, Hooked, Writers
    <2> QED
        BY <1>2, <2>1, <2>3, <2>4, RequestMoves
        DEF CalculateSentiment, Steps, IInv, TypeOK
<1>3. CASE NotifyAgent(p)
    <2>1. PICK m \in botCalls :
            Start(p, "hook", Locals("notify", message[m].key, FALSE, m, 0, NoAgent))
        BY <1>3 DEF NotifyAgent
    <2>2. m \in 1..Len(message) /\ message[m].key \in Keys
        BY <2>1, MessageKey
    <2>3. Locals("notify", message[m].key, FALSE, m, 0, NoAgent) \in Jobs
        BY <2>2 DEF Jobs, Ops
    <2>4. LocalOK("hook", Locals("notify", message[m].key, FALSE, m, 0, NoAgent))
        BY <2>2 DEF IInv, TypeOK, LocalOK, RequestOK, EntryOK, SnapshotOK,
               SettledOK, Hooked, Writers
    <2> QED
        BY <1>3, <2>1, <2>3, <2>4, RequestMoves
        DEF NotifyAgent, Steps, IInv, TypeOK
<1>4. CASE StartHotQueue(p)
    <2>1. PICK k \in Keys, a \in Agents : \E e \in LiveEntries(k) :
            Start(p, "claim", Locals("start", k, FALSE, 0, e, a))
        BY <1>4 DEF StartHotQueue
    <2>2. PICK e \in LiveEntries(k) :
            Start(p, "claim", Locals("start", k, FALSE, 0, e, a))
        BY <2>1
    <2>3. Locals("start", k, FALSE, 0, e, a) \in Jobs
        BY DEF Jobs, Ops, LiveEntries
    <2>4. LocalOK("claim", Locals("start", k, FALSE, 0, e, a))
        BY DEF IInv, TypeOK, LocalOK, RequestOK, EntryOK, SnapshotOK, SettledOK,
               Hooked, Writers, LiveEntries
    <2> QED
        BY <1>4, <2>2, <2>3, <2>4, RequestMoves
        DEF StartHotQueue, Steps, IInv, TypeOK
<1>5. CASE StopHotQueue(p)
    <2>1. PICK k \in Keys : \E e \in LiveEntries(k) :
            Start(p, "delete", Locals("stop", k, FALSE, 0, e, NoAgent))
        BY <1>5 DEF StopHotQueue
    <2>2. PICK e \in LiveEntries(k) :
            Start(p, "delete", Locals("stop", k, FALSE, 0, e, NoAgent))
        BY <2>1
    <2>3. Locals("stop", k, FALSE, 0, e, NoAgent) \in Jobs
        BY DEF Jobs, Ops, LiveEntries
    <2>4. LocalOK("delete", Locals("stop", k, FALSE, 0, e, NoAgent))
        BY DEF IInv, TypeOK, LocalOK, RequestOK, EntryOK, SnapshotOK, SettledOK,
               Hooked, Writers, LiveEntries
    <2> QED
        BY <1>5, <2>2, <2>3, <2>4, RequestMoves
        DEF StopHotQueue, Steps, IInv, TypeOK
<1> QED
    BY <1>1, <1>2, <1>3, <1>4, <1>5 DEF Request

(* A request that leaves has nothing to answer for.                        *)
LEMMA LeaveKeeps == LocalOK("idle", NoJob) /\ NoJob \in Jobs
    BY DEF LocalOK, RequestOK, EntryOK, SnapshotOK, SettledOK, Hooked, Writers,
           NoJob, Locals, Jobs, Ops, NoKey

(* A request that only goes on to its next step.                           *)
LEMMA RequestGoes ==
    ASSUME IInv, NEW p \in Handlers, NEW s \in Steps,
           Goto(p, s), pc[p] # "purge",
           UNCHANGED <<rows, pageSender, isWorked, job, torn>>,
           botCalls' \subseteq 1..Len(message),
           LocalOK(s, job[p])
    PROVE  IInv'
<1>1. job[p] \in Jobs /\ job' = [job EXCEPT ![p] = job[p]]
    BY DEF IInv, TypeOK
<1> QED
    BY <1>1, RequestMoves DEF Goto, IInv, TypeOK

(* The steps that read the tables and move on.                             *)
LEMMA ReadingStepIInv ==
    ASSUME IInv, NEW p \in Handlers,
           \/ UpdateSentiment(p) \/ TryCallHook(p) \/ NoNextNode(p)
           \/ CallBot(p) \/ Escalate(p) \/ HookError(p) \/ Announce(p)
           \/ CheckQueue(p) \/ NoPageSender(p) \/ Return(p) \/ Fail(p)
    PROVE  IInv'
<1> DEFINE j == job[p]
<1>0. /\ pc[p] \in Steps /\ j \in Jobs /\ LocalOK(pc[p], j)
      /\ botCalls \subseteq 1..Len(message)
      /\ Len(hotQueue) \in Nat
    BY LenProperties DEF IInv, TypeOK
<1> USE DEF LocalOK, RequestOK, EntryOK, SnapshotOK, SettledOK, Hooked, Writers
<1>1. CASE UpdateSentiment(p)
    <2>1. LocalOK("hook", j)
        BY <1>0, <1>1 DEF UpdateSentiment
    <2> QED
        BY <1>0, <1>1, <2>1, RequestGoes DEF UpdateSentiment, Steps
<1>2. CASE TryCallHook(p)
    <2>1. CASE LiveEntries(j.key) # {}
        <3>1. LocalOK(AfterHook(j.op), j)
            BY <1>0, <1>2 DEF TryCallHook, AfterHook, LiveEntries, Jobs
        <3> QED
            BY <1>0, <1>2, <2>1, <3>1, RequestGoes
            DEF TryCallHook, Steps, AfterHook
    <2>2. CASE LiveEntries(j.key) = {}
        <3> DEFINE i == [j EXCEPT !.checkedAt = Len(hotQueue)]
        <3>1. i \in Jobs
            BY <1>0 DEF Jobs
        <3>2. LocalOK("flow", i)
            BY <1>0, <1>2, <2>2, <3>1 DEF TryCallHook, Jobs
        <3>3. job' = [job EXCEPT ![p] = i] /\ Goto(p, "flow")
            BY <1>2, <2>2 DEF TryCallHook
        <3> QED
            BY <1>0, <1>2, <3>1, <3>2, <3>3, RequestMoves
            DEF TryCallHook, Steps, Goto, IInv, TypeOK
    <2> QED
        BY <2>1, <2>2
<1>3. CASE NoNextNode(p)
    <2>1. LocalOK(AfterHook(j.op), j)
        BY <1>0, <1>3 DEF NoNextNode, AfterHook, LiveEntries, Jobs
    <2> QED
        BY <1>0, <1>3, <2>1, RequestGoes DEF NoNextNode, Steps, AfterHook
<1>4. CASE CallBot(p)
    <2>1. LocalOK(AfterHook(j.op), j)
        BY <1>0, <1>4 DEF CallBot, AfterHook, LiveEntries, Jobs
    <2>2. botCalls' \subseteq 1..Len(message)
        BY <1>0, <1>4 DEF CallBot
    <2> QED
        BY <1>0, <1>4, <2>1, <2>2, RequestGoes DEF CallBot, Steps, AfterHook
<1>5. CASE Escalate(p)
    <2>1. LocalOK("add", j)
        BY <1>0, <1>5 DEF Escalate
    <2> QED
        BY <1>0, <1>5, <2>1, RequestGoes DEF Escalate, Steps
<1>6. CASE Announce(p)
    <2>1. LocalOK(AfterHook(j.op), j)
        BY <1>0, <1>6 DEF Announce, AfterHook
    <2> QED
        BY <1>0, <1>6, <2>1, RequestGoes DEF Announce, Steps, AfterHook
<1>7. CASE CheckQueue(p)
    <2>1. CASE LiveEntries(j.key) = {}
        <3>1. LocalOK(AfterSave(j.op), j)
            BY <1>0, <1>7, <2>1 DEF CheckQueue, AfterSave
        <3> QED
            BY <1>0, <1>7, <2>1, <3>1, RequestGoes
            DEF CheckQueue, Steps, AfterSave
    <2>2. CASE LiveEntries(j.key) # {}
        <3>1. PICK e \in LiveEntries(j.key) : job' = [job EXCEPT ![p].entry = e]
            BY <1>7, <2>2 DEF CheckQueue
        <3> DEFINE i == [j EXCEPT !.entry = e]
        <3>2. i \in Jobs
            BY <1>0 DEF Jobs, LiveEntries
        <3>3. LocalOK("save", i)
            BY <1>0, <1>7, <3>2 DEF CheckQueue, Jobs, LiveEntries
        <3>4. job' = [job EXCEPT ![p] = i] /\ Goto(p, "save")
            BY <1>7, <2>2, <3>1 DEF CheckQueue
        <3> QED
            BY <1>0, <1>7, <3>2, <3>3, <3>4, RequestMoves
            DEF CheckQueue, Steps, Goto, IInv, TypeOK
    <2> QED
        BY <2>1, <2>2
<1>8. CASE HookError(p) \/ NoPageSender(p) \/ Return(p)
    <2>1. Leave(p) /\ pc[p] # "purge" /\ UNCHANGED <<rows, pageSender, isWorked,
                                                    botCalls, torn>>
        BY <1>8 DEF HookError, NoPageSender, Return
    <2> QED
        BY <1>0, <2>1, LeaveKeeps, RequestMoves DEF Leave, Steps, IInv, TypeOK
<1>9. CASE Fail(p)
    <2>1. torn' \subseteq Keys /\ torn \subseteq torn'
        BY <1>0, <1>9 DEF Fail, TornBy, IInv, TypeOK
    <2>2. pc[p] = "purge" => job[p].key \in torn'
        BY <1>9 DEF Fail, TornBy
    <2> QED
        BY <1>0, <1>9, <2>1, <2>2, LeaveKeeps, RequestMoves
        DEF Fail, Leave, Steps, IInv, TypeOK
<1> QED
    BY <1>1, <1>2, <1>3, <1>4, <1>5, <1>6, <1>7, <1>8, <1>9

(* A new message row disturbs nobody; its own request goes on or leaves.   *)
LEMMA StoreIInv ==
    ASSUME IInv, NEW p \in Handlers, Store(p) \/ StoreReply(p)
    PROVE  IInv'
<1> DEFINE r == [key |-> job[p].key, incoming |-> job[p].incoming]
<1>1. /\ pc[p] = "store" /\ job[p] \in Jobs /\ LocalOK("store", job[p])
      /\ message \in Seq(MessageRow) /\ Len(hotQueue) \in Nat
    BY LenProperties DEF Store, StoreReply, IInv, TypeOK
<1>2. r \in MessageRow
    BY <1>1 DEF LocalOK, RequestOK, MessageRow, Jobs
<1>3. /\ message' = Append(message, r)
      /\ message' \in Seq(MessageRow)
      /\ Len(message') = Len(message) + 1 /\ Len(message) \in Nat
    <2>1. message' = Append(message, r)
        BY DEF Store, StoreReply, StoreRow
    <2> HIDE DEF r
    <2> QED
        BY <1>1, <1>2, <2>1, AppendProperties, LenProperties
<1>4. UNCHANGED <<hotQueue, hotMessage, isWorked, botCalls, torn>>
    BY DEF Store, StoreReply
<1>5. PICK s \in Steps, j \in Jobs :
        /\ pc' = [pc EXCEPT ![p] = s]
        /\ job' = [job EXCEPT ![p] = j]
        /\ LocalOK(s, j)'
        /\ s # "purge"
    <2>1. CASE Store(p)
        <3>1. PICK i : i = StoredAs(job[p], Len(message) + 1, Len(hotQueue))
            OBVIOUS
        <3>2. PICK t \in {"hook", "check"} : pc' = [pc EXCEPT ![p] = t]
            BY <2>1 DEF Store, Goto
        <3>3. /\ i \in Jobs
              /\ i.key = job[p].key /\ i.op = job[p].op
              /\ i.added = job[p].added /\ i.checkedAt = job[p].checkedAt
              /\ i.msg = Len(message) + 1 /\ i.mark = Len(hotQueue)
            <4>1. /\ Len(message) + 1 \in Nat /\ Len(hotQueue) \in Nat
                  /\ job[p] \in Jobs
                BY <1>1, <1>3
            <4> QED
                BY <3>1, <4>1, Zenon DEF StoredAs, Jobs
        <3>4. LocalOK(t, i)'
            BY <1>1, <1>3, <1>4, <3>3
            DEF LocalOK, RequestOK, EntryOK, SnapshotOK, SettledOK, Hooked,
                Writers
        <3>5. job' = [job EXCEPT ![p] = i]
            BY <2>1, <3>1 DEF Store
        <3> QED
            BY <3>2, <3>3, <3>4, <3>5 DEF Steps
    <2>2. CASE StoreReply(p)
        <3>1. LocalOK("idle", NoJob)'
            BY <1>1, <1>4
            DEF LocalOK, RequestOK, EntryOK, SnapshotOK, SettledOK, Hooked,
                Writers, NoJob, Locals
        <3> QED
            BY <2>2, <3>1, LeaveKeeps DEF StoreReply, Leave, Steps
    <2> QED
        BY <2>1, <2>2
<1>6. TypeOK'
    <2>1. pageSender' \in [Tabs -> BOOLEAN]
        BY DEF Store, StoreReply, SenderRows, IInv, TypeOK
    <2> QED
        BY <1>3, <1>4, <1>5, <2>1 DEF IInv, TypeOK
<1>7. ASSUME NEW q \in Handlers PROVE LocalOK(pc[q], job[q])'
    <2>1. CASE q = p
        BY <1>5, <2>1 DEF IInv, TypeOK
    <2>2. CASE q # p
        <3>1. pc'[q] = pc[q] /\ job'[q] = job[q] /\ LocalOK(pc[q], job[q])
            BY <1>5, <2>2 DEF IInv, TypeOK
        <3>2. /\ hotQueue' = hotQueue /\ hotMessage' = hotMessage
              /\ 1..Len(message) \subseteq 1..Len(message')
            BY <1>3, <1>4
        <3>3. RequestOK(pc[q], job[q])'
            BY <3>1, <3>2 DEF LocalOK, RequestOK
        <3>4. EntryOK(pc[q], job[q])'
            BY <3>1, <3>2 DEF LocalOK, EntryOK
        <3>5. SnapshotOK(pc[q], job[q])' /\ SettledOK(pc[q], job[q])'
            BY <3>1, <3>2 DEF LocalOK, SnapshotOK, SettledOK, LiveEntries, OnDesk
        <3> QED
            BY <3>3, <3>4, <3>5 DEF LocalOK
    <2> QED
        BY <2>1, <2>2
<1>8. (DuplicatesOnlyFromRacingHooks /\ SeenOK /\ PurgeScoped)'
    BY <1>4 DEF IInv, DuplicatesOnlyFromRacingHooks, SeenOK, PurgeScoped
<1>9. FreshOK'
    <2>1. ASSUME NEW k, Unpurged(k) PROVE Unpurged(k)'
        BY <1>1, <1>4, <1>5, <2>1 DEF Unpurged, IInv, TypeOK
    <2> QED
        BY <1>4, <2>1 DEF FreshOK, IInv
<1> QED
    BY <1>6, <1>7, <1>8, <1>9 DEF IInv

(* A new entry is younger than every snapshot and than every debt to the   *)
(* desk, so no other request notices it; and it joins only entries that    *)
(* are younger than its own hook's question.                               *)
LEMMA AddIInv ==
    ASSUME IInv, NEW p \in Handlers, AddToHotQueue(p)
    PROVE  IInv'
<1> DEFINE r == [key |-> job[p].key, live |-> TRUE, userId |-> NoAgent,
                 checkedAt |-> job[p].checkedAt]
           n == Len(hotQueue)
<1>1. /\ pc[p] = "add" /\ job[p] \in Jobs /\ LocalOK("add", job[p])
      /\ hotQueue \in Seq(QueueRow) /\ n \in Nat
    BY LenProperties DEF AddToHotQueue, IInv, TypeOK
<1>2. r \in QueueRow
    BY <1>1 DEF LocalOK, RequestOK, QueueRow, Jobs, Hooked
<1>3. /\ hotQueue' \in Seq(QueueRow)
      /\ Len(hotQueue') = n + 1
      /\ hotQueue'[n + 1] = r
      /\ \A e \in 1..n : hotQueue'[e] = hotQueue[e]
    <2>1. hotQueue' = Append(hotQueue, r)
        BY DEF AddToHotQueue
    <2> HIDE DEF r
    <2> QED
        BY <1>1, <1>2, <2>1, AppendProperties
<1>4. UNCHANGED <<message, hotMessage, pageSender, isWorked, botCalls, torn>>
    BY DEF AddToHotQueue
<1>5. PICK m \in Nat : m = n + 1
    BY <1>1
<1>6. PICK i : i = [job[p] EXCEPT !.added = m]
    OBVIOUS
<1>7. PICK t \in {"announce", "check"} :
        /\ pc' = [pc EXCEPT ![p] = t]
        /\ t = "announce" => job[p].op = "save"
    BY DEF AddToHotQueue, Goto
<1>8. /\ job' = [job EXCEPT ![p] = i]
      /\ i \in Jobs
      /\ i.key = job[p].key /\ i.op = job[p].op /\ i.msg = job[p].msg
      /\ i.checkedAt = job[p].checkedAt /\ i.mark = job[p].mark
      /\ i.added = m
    BY <1>1, <1>5, <1>6 DEF AddToHotQueue, Jobs
<1>9. LocalOK(t, i)'
    BY <1>1, <1>3, <1>4, <1>5, <1>7, <1>8
    DEF LocalOK, RequestOK, EntryOK, SnapshotOK, SettledOK, Hooked, Writers, Jobs
<1>10. ASSUME NEW q \in Handlers PROVE LocalOK(pc[q], job[q])'
    <2>1. CASE q = p
        BY <1>7, <1>8, <1>9, <2>1 DEF IInv, TypeOK
    <2>2. CASE q # p
        <3>1. /\ pc'[q] = pc[q] /\ job'[q] = job[q] /\ job[q] \in Jobs
              /\ LocalOK(pc[q], job[q])
            BY <1>7, <1>8, <2>2 DEF IInv, TypeOK
        <3>2. RequestOK(pc[q], job[q])'
            BY <1>1, <1>3, <1>4, <3>1 DEF LocalOK, RequestOK, Jobs
        <3>3. EntryOK(pc[q], job[q])'
            BY <1>1, <1>3, <3>1 DEF LocalOK, EntryOK
        <3>4. \A e \in LiveEntries(job[q].key)' :
                e \in LiveEntries(job[q].key) \/ e = n + 1
            BY <1>1, <1>3, <3>1 DEF LiveEntries
        <3>5. SnapshotOK(pc[q], job[q])'
            BY <1>1, <3>1, <3>4 DEF LocalOK, RequestOK, SnapshotOK, Jobs
        <3>6. SettledOK(pc[q], job[q])'
            BY <1>1, <1>4, <3>1, <3>4
            DEF LocalOK, RequestOK, SettledOK, OnDesk, Jobs
        <3> QED
            BY <3>2, <3>3, <3>5, <3>6 DEF LocalOK
    <2> QED
        BY <2>1, <2>2
<1>11. TypeOK'
    BY <1>3, <1>4, <1>7, <1>8 DEF IInv, TypeOK, Steps
<1>12. DuplicatesOnlyFromRacingHooks'
    <2> SUFFICES ASSUME NEW d \in 1..(n + 1), NEW e \in 1..(n + 1), d < e,
                        hotQueue'[d].live, hotQueue'[e].live,
                        hotQueue'[d].key = hotQueue'[e].key
                 PROVE  hotQueue'[e].checkedAt < d
        BY <1>3 DEF DuplicatesOnlyFromRacingHooks
    <2>1. CASE e = n + 1
        <3>1. d \in LiveEntries(job[p].key)
            BY <1>1, <1>3, <2>1 DEF LiveEntries
        <3> QED
            BY <1>1, <1>3, <2>1, <3>1 DEF LocalOK, SnapshotOK, Jobs
    <2>2. CASE e # n + 1
        BY <1>1, <1>3, <2>2 DEF IInv, DuplicatesOnlyFromRacingHooks
    <2> QED
        BY <2>1, <2>2
<1>13. SeenOK' /\ PurgeScoped'
    BY <1>1, <1>3, <1>4 DEF IInv, SeenOK, PurgeScoped
<1>14. FreshOK'
    <2>1. ASSUME NEW k, Unpurged(k) PROVE Unpurged(k)'
        BY <1>1, <1>4, <1>7, <1>8, <2>1 DEF Unpurged, IInv, TypeOK
    <2> QED
        BY <1>1, <1>3, <1>4, <2>1 DEF FreshOK, SeenOK, IInv
<1> QED
    BY <1>10, <1>11, <1>12, <1>13, <1>14 DEF IInv

(* A message is saved for an entry its request found; whether that entry   *)
(* is still open is what the row's fresh remembers.                        *)
LEMMA SaveIInv ==
    ASSUME IInv, NEW p \in Handlers, SaveHotQueueMessage(p)
    PROVE  IInv'
<1> DEFINE r == [key |-> job[p].key, msg |-> job[p].msg, seen |-> job[p].entry,
                 fresh |-> hotQueue[job[p].entry].live, closedBy |-> 0]
           n == Len(hotMessage)
<1>1. /\ pc[p] = "save" /\ job[p] \in Jobs /\ LocalOK("save", job[p])
      /\ hotMessage \in Seq(DeskRow) /\ n \in Nat
      /\ hotQueue \in Seq(QueueRow)
    BY LenProperties DEF SaveHotQueueMessage, IInv, TypeOK
<1>2. r \in DeskRow
    <2>1. hotQueue[job[p].entry] \in QueueRow
        BY <1>1, ElementOfSeq DEF LocalOK, EntryOK
    <2> QED
        BY <1>1, <2>1 DEF LocalOK, RequestOK, DeskRow, QueueRow, Jobs
<1>3. /\ hotMessage' \in Seq(DeskRow)
      /\ Len(hotMessage') = n + 1
      /\ hotMessage'[n + 1] = r
      /\ \A i \in 1..n : hotMessage'[i] = hotMessage[i]
    <2>1. hotMessage' = Append(hotMessage, r)
        BY DEF SaveHotQueueMessage
    <2> HIDE DEF r
    <2> QED
        BY <1>1, <1>2, <2>1, AppendProperties
<1>4. UNCHANGED <<message, hotQueue, pageSender, isWorked, botCalls, job, torn>>
    BY DEF SaveHotQueueMessage
<1>5. PICK t \in {"announce", "done"} : pc' = [pc EXCEPT ![p] = t]
    BY DEF SaveHotQueueMessage, Goto, AfterSave
<1>6. ASSUME NEW m, NEW k, OnDesk(m, k) PROVE OnDesk(m, k)'
    BY <1>1, <1>3, <1>6 DEF OnDesk
<1>7. OnDesk(job[p].msg, job[p].key)'
    BY <1>1, <1>3, <1>4 DEF OnDesk
<1>8. LocalOK(t, job[p])'
    BY <1>1, <1>4, <1>7
    DEF LocalOK, RequestOK, EntryOK, SnapshotOK, SettledOK, LiveEntries, Hooked,
        Writers
<1>9. ASSUME NEW q \in Handlers PROVE LocalOK(pc[q], job[q])'
    <2>1. CASE q = p
        BY <1>4, <1>5, <1>8, <2>1 DEF IInv, TypeOK
    <2>2. CASE q # p
        <3>1. /\ pc'[q] = pc[q] /\ LocalOK(pc[q], job[q])
            BY <1>5, <2>2 DEF IInv, TypeOK
        <3> QED
            BY <1>4, <1>6, <3>1
            DEF LocalOK, RequestOK, EntryOK, SnapshotOK, SettledOK, LiveEntries
    <2> QED
        BY <2>1, <2>2
<1>10. TypeOK'
    BY <1>3, <1>4, <1>5 DEF IInv, TypeOK, Steps
<1>11. DuplicatesOnlyFromRacingHooks'
    BY <1>4 DEF IInv, DuplicatesOnlyFromRacingHooks
<1>12. SeenOK' /\ PurgeScoped'
    <2>1. SUFFICES ASSUME NEW i \in 1..(n + 1)
                   PROVE  /\ hotMessage'[i].seen \in 1..Len(hotQueue)
                          /\ hotQueue[hotMessage'[i].seen].key = hotMessage'[i].key
                          /\ LET d == hotMessage'[i].closedBy IN
                             d # 0 => /\ d \in 1..Len(hotQueue)
                                      /\ hotQueue[d].key = hotMessage'[i].key
                                      /\ ~hotQueue[d].live
        BY <1>1, <1>3, <1>4 DEF SeenOK, PurgeScoped
    <2>2. CASE i = n + 1
        BY <1>1, <1>3, <2>2 DEF LocalOK, EntryOK
    <2>3. CASE i \in 1..n
        BY <1>3, <2>3 DEF IInv, SeenOK, PurgeScoped
    <2> QED
        BY <1>1, <2>2, <2>3
<1>13. FreshOK'
    <2>1. ASSUME NEW k, Unpurged(k) PROVE Unpurged(k)'
        BY <1>1, <1>4, <1>5, <2>1 DEF Unpurged, IInv, TypeOK
    <2> QED
        BY <1>1, <1>3, <1>4, <2>1 DEF FreshOK, IInv
<1> QED
    BY <1>9, <1>10, <1>11, <1>12, <1>13 DEF IInv

(* What Claim and DeleteEntry have in common: one entry changes, keeps its *)
(* key and its history, and does not come back to life.                    *)
LEMMA EntryChanges ==
    ASSUME IInv, NEW p \in Handlers, NEW s \in Steps, NEW x \in 1..Len(hotQueue),
           NEW r \in QueueRow, s \in {"done", "purge"},
           r.key = hotQueue[x].key, r.checkedAt = hotQueue[x].checkedAt,
           r.live => hotQueue[x].live,
           ~hotQueue[x].live \/ r.live \/ (s = "purge" /\ job[p].key = r.key),
           hotQueue' = [hotQueue EXCEPT ![x] = r],
           pc' = [pc EXCEPT ![p] = s],
           pc[p] # "purge",
           UNCHANGED <<message, hotMessage, pageSender, isWorked, botCalls, job,
                       torn>>,
           LocalOK(s, job[p])'
    PROVE  IInv'
<1> DEFINE n == Len(hotQueue)
<1>1. /\ hotQueue \in Seq(QueueRow) /\ n \in Nat
      /\ hotQueue' \in Seq(QueueRow) /\ Len(hotQueue') = n
      /\ hotQueue'[x] = r
      /\ \A e \in 1..n : e # x => hotQueue'[e] = hotQueue[e]
    BY ExceptSeq, LenProperties DEF IInv, TypeOK
<1>2. \A e \in 1..n : /\ hotQueue'[e].key = hotQueue[e].key
                       /\ hotQueue'[e].checkedAt = hotQueue[e].checkedAt
                       /\ hotQueue'[e].live => hotQueue[e].live
    BY <1>1
<1>3. \A k : LiveEntries(k)' \subseteq LiveEntries(k)
    BY <1>1, <1>2 DEF LiveEntries
<1>4. ASSUME NEW q \in Handlers PROVE LocalOK(pc[q], job[q])'
    <2>1. CASE q = p
        BY <2>1 DEF IInv, TypeOK
    <2>2. CASE q # p
        <3>1. pc'[q] = pc[q] /\ job'[q] = job[q] /\ LocalOK(pc[q], job[q])
            BY <2>2 DEF IInv, TypeOK
        <3>2. RequestOK(pc[q], job[q])' /\ EntryOK(pc[q], job[q])'
            BY <1>1, <1>2, <3>1 DEF LocalOK, RequestOK, EntryOK
        <3>3. SnapshotOK(pc[q], job[q])' /\ SettledOK(pc[q], job[q])'
            BY <1>3, <3>1 DEF LocalOK, SnapshotOK, SettledOK, OnDesk
        <3> QED
            BY <3>2, <3>3 DEF LocalOK
    <2> QED
        BY <2>1, <2>2
<1>5. TypeOK'
    BY <1>1 DEF IInv, TypeOK
<1>6. DuplicatesOnlyFromRacingHooks'
    BY <1>1, <1>2 DEF IInv, DuplicatesOnlyFromRacingHooks
<1>7. SeenOK' /\ PurgeScoped'
    BY <1>1, <1>2 DEF IInv, SeenOK, PurgeScoped
<1>8. FreshOK'
    <2>1. ASSUME NEW k, Unpurged(k) PROVE Unpurged(k)'
        BY <2>1 DEF Unpurged, IInv, TypeOK
    <2>2. ASSUME s = "purge" PROVE Unpurged(job[p].key)'
        BY <2>2 DEF Unpurged, IInv, TypeOK
    <2> SUFFICES ASSUME NEW i \in 1..Len(hotMessage),
                        hotMessage[i].closedBy = 0, hotMessage[i].fresh,
                        ~hotQueue'[hotMessage[i].seen].live
                 PROVE  Unpurged(hotMessage[i].key)'
        BY DEF FreshOK
    <2>3. CASE hotQueue[hotMessage[i].seen].live
        <3>1. /\ hotMessage[i].seen \in 1..n
              /\ hotQueue[hotMessage[i].seen].key = hotMessage[i].key
            BY DEF IInv, SeenOK
        <3>2. hotMessage[i].seen = x
            BY <1>1, <2>3, <3>1
        <3> QED
            BY <1>1, <2>2, <2>3, <3>1, <3>2
    <2>4. CASE ~hotQueue[hotMessage[i].seen].live
        BY <2>1, <2>4 DEF IInv, FreshOK
    <2> QED
        BY <2>3, <2>4
<1> QED
    BY <1>4, <1>5, <1>6, <1>7, <1>8 DEF IInv

LEMMA ClaimIInv ==
    ASSUME IInv, NEW p \in Handlers, Claim(p)
    PROVE  IInv'
<1>1. /\ pc[p] = "claim" /\ job[p] \in Jobs /\ LocalOK("claim", job[p])
      /\ job[p].entry \in 1..Len(hotQueue) /\ hotQueue \in Seq(QueueRow)
    BY DEF Claim, IInv, TypeOK, LocalOK, EntryOK
<1>2. PICK x \in 1..Len(hotQueue) : x = job[p].entry
    BY <1>1
<1>3. hotQueue[x] \in QueueRow
    BY <1>1, ElementOfSeq
<1>4. PICK r : r = [hotQueue[x] EXCEPT !.userId = job[p].userId]
    OBVIOUS
<1>5. /\ r \in QueueRow /\ r.key = hotQueue[x].key
      /\ r.checkedAt = hotQueue[x].checkedAt /\ r.live = hotQueue[x].live
    BY <1>1, <1>3, <1>4 DEF QueueRow, Jobs
<1>6. hotQueue' = [hotQueue EXCEPT ![x] = r]
    BY <1>2, <1>4 DEF Claim
<1>7. Len(hotQueue') = Len(hotQueue)
    BY <1>1, <1>5, <1>6, ExceptSeq
<1>8. LocalOK("done", job[p])'
    BY <1>1, <1>7
    DEF Claim, LocalOK, RequestOK, EntryOK, SnapshotOK, SettledOK, Hooked, Writers
<1>9. /\ pc' = [pc EXCEPT ![p] = "done"] /\ "done" \in Steps
      /\ UNCHANGED <<message, hotMessage, pageSender, isWorked, botCalls, job,
                     torn>>
    BY DEF Claim, Goto, Steps
<1>10. (r.live => hotQueue[x].live) /\ (~hotQueue[x].live \/ r.live)
    BY <1>5
<1> QED
    BY <1>1, <1>5, <1>6, <1>8, <1>9, <1>10, EntryChanges

LEMMA DeleteIInv ==
    ASSUME IInv, NEW p \in Handlers, DeleteEntry(p)
    PROVE  IInv'
<1>1. /\ pc[p] = "delete" /\ job[p] \in Jobs /\ LocalOK("delete", job[p])
      /\ job[p].entry \in 1..Len(hotQueue) /\ hotQueue \in Seq(QueueRow)
      /\ hotQueue[job[p].entry].key = job[p].key
    BY DEF DeleteEntry, IInv, TypeOK, LocalOK, EntryOK
<1>2. PICK x \in 1..Len(hotQueue) : x = job[p].entry
    BY <1>1
<1>3. hotQueue[x] \in QueueRow
    BY <1>1, ElementOfSeq
<1>4. PICK r : r = [hotQueue[x] EXCEPT !.live = FALSE]
    OBVIOUS
<1>5. /\ r \in QueueRow /\ r.key = hotQueue[x].key
      /\ r.checkedAt = hotQueue[x].checkedAt /\ ~r.live
    BY <1>3, <1>4 DEF QueueRow
<1>6. hotQueue' = [hotQueue EXCEPT ![x] = r]
    BY <1>2, <1>4 DEF DeleteEntry
<1>7. Len(hotQueue') = Len(hotQueue) /\ hotQueue'[x] = r
    BY <1>1, <1>5, <1>6, ExceptSeq
<1>8. LocalOK("purge", job[p])'
    BY <1>1, <1>2, <1>5, <1>7
    DEF DeleteEntry, LocalOK, RequestOK, EntryOK, SnapshotOK, SettledOK, Hooked,
        Writers
<1>9. /\ pc' = [pc EXCEPT ![p] = "purge"] /\ "purge" \in Steps
      /\ UNCHANGED <<message, hotMessage, pageSender, isWorked, botCalls, job,
                     torn>>
    BY DEF DeleteEntry, Goto, Steps
<1>10. (r.live => hotQueue[x].live) /\ job[p].key = r.key
    BY <1>1, <1>2, <1>5
<1> QED
    BY <1>1, <1>5, <1>6, <1>8, <1>9, <1>10, EntryChanges

(* A purge changes nothing of the desk's rows but who closed them, and     *)
(* leaves no row of its customer open.                                     *)
LEMMA PurgeIInv ==
    ASSUME IInv, NEW p \in Handlers, PurgeMessages(p)
    PROVE  IInv'
<1> DEFINE n == Len(hotMessage)
           k == job[p].key
<1>1. /\ pc[p] = "purge" /\ job[p] \in Jobs /\ LocalOK("purge", job[p])
      /\ hotMessage \in Seq(DeskRow) /\ n \in Nat
      /\ hotQueue \in Seq(QueueRow)
    BY LenProperties DEF PurgeMessages, IInv, TypeOK
<1>2. ASSUME NEW i \in 1..n
      PROVE  LET r == hotMessage[i]
                 w == PurgeRow(r, job[p])
             IN  /\ w \in DeskRow
                 /\ w.key = r.key /\ w.msg = r.msg /\ w.seen = r.seen
                 /\ w.fresh = r.fresh
                 /\ w.closedBy = IF r.key = k /\ r.closedBy = 0
                                 THEN job[p].entry ELSE r.closedBy
    <2>1. hotMessage[i] \in DeskRow /\ job[p].entry \in Nat
        BY <1>1, ElementOfSeq DEF Jobs
    <2> QED
        BY <2>1 DEF PurgeRow, DeskRow
<1>3. /\ hotMessage' \in Seq(DeskRow)
      /\ Len(hotMessage') = n
      /\ \A i \in 1..n : hotMessage'[i] = PurgeRow(hotMessage[i], job[p])
    <2>1. hotMessage' = [i \in 1..n |-> PurgeRow(hotMessage[i], job[p])]
        BY DEF PurgeMessages
    <2> QED
        BY <1>1, <1>2, <2>1
<1>4. /\ UNCHANGED <<message, hotQueue, pageSender, isWorked, botCalls, job>>
      /\ torn' = torn \ {k}
      /\ pc' = [pc EXCEPT ![p] = "done"]
    BY DEF PurgeMessages, Goto
<1>5. ASSUME NEW m, NEW c, OnDesk(m, c) PROVE OnDesk(m, c)'
    BY <1>2, <1>3, <1>5 DEF OnDesk
<1>6. LocalOK("done", job[p])'
    BY <1>1, <1>4
    DEF LocalOK, RequestOK, EntryOK, SnapshotOK, SettledOK, Hooked, Writers
<1>7. ASSUME NEW q \in Handlers PROVE LocalOK(pc[q], job[q])'
    <2>1. CASE q = p
        BY <1>4, <1>6, <2>1 DEF IInv, TypeOK
    <2>2. CASE q # p
        <3>1. /\ pc'[q] = pc[q] /\ LocalOK(pc[q], job[q])
            BY <1>4, <2>2 DEF IInv, TypeOK
        <3> QED
            BY <1>4, <1>5, <3>1
            DEF LocalOK, RequestOK, EntryOK, SnapshotOK, SettledOK, LiveEntries
    <2> QED
        BY <2>1, <2>2
<1>8. TypeOK'
    BY <1>3, <1>4 DEF IInv, TypeOK, Steps
<1>9. DuplicatesOnlyFromRacingHooks'
    BY <1>4 DEF IInv, DuplicatesOnlyFromRacingHooks
<1>10. SeenOK'
    BY <1>2, <1>3, <1>4 DEF IInv, SeenOK
<1>11. PurgeScoped'
    <2>1. /\ job[p].entry \in 1..Len(hotQueue)
          /\ hotQueue[job[p].entry].key = k
          /\ ~hotQueue[job[p].entry].live
        BY <1>1 DEF LocalOK, EntryOK
    <2> QED
        BY <1>2, <1>3, <1>4, <2>1 DEF IInv, PurgeScoped
<1>12. FreshOK'
    <2>1. ASSUME NEW c, c # k, Unpurged(c) PROVE Unpurged(c)'
        BY <1>4, <2>1 DEF Unpurged, IInv, TypeOK
    <2>2. ASSUME NEW i \in 1..n, hotMessage'[i].closedBy = 0
          PROVE  /\ hotMessage'[i].key # k
                 /\ hotMessage[i].closedBy = 0
        <3>1. job[p].entry # 0
            BY <1>1 DEF LocalOK, EntryOK
        <3> QED
            BY <1>2, <1>3, <2>2, <3>1
    <2> QED
        BY <1>2, <1>3, <1>4, <2>1, <2>2 DEF FreshOK, IInv
<1> QED
    BY <1>7, <1>8, <1>9, <1>10, <1>11, <1>12 DEF IInv

(* A crash ends every request at once and keeps the tables.                *)
LEMMA CrashIInv == ASSUME IInv, Crash PROVE IInv'
<1>1. /\ pc' = [p \in Handlers |-> "idle"]
      /\ job' = [p \in Handlers |-> NoJob]
      /\ torn' = torn \union TornBy(Handlers)
      /\ UNCHANGED <<message, hotQueue, hotMessage, pageSender, isWorked,
                     botCalls>>
    BY DEF Crash, rows
<1>2. TornBy(Handlers) \subseteq Keys
    BY DEF TornBy, IInv, LocalOK, RequestOK
<1>3. TypeOK'
    BY <1>1, <1>2, LeaveKeeps DEF IInv, TypeOK, Steps
<1>4. ASSUME NEW q \in Handlers PROVE LocalOK(pc[q], job[q])'
    BY <1>1, LeaveKeeps
    DEF LocalOK, RequestOK, EntryOK, SnapshotOK, SettledOK, LiveEntries, Hooked
<1>5. (DuplicatesOnlyFromRacingHooks /\ SeenOK /\ PurgeScoped)'
    BY <1>1 DEF IInv, DuplicatesOnlyFromRacingHooks, SeenOK, PurgeScoped
<1>6. FreshOK'
    <2>1. ASSUME NEW k, Unpurged(k) PROVE Unpurged(k)'
        BY <1>1, <2>1 DEF Unpurged, TornBy
    <2> QED
        BY <1>1, <2>1 DEF FreshOK, IInv
<1> QED
    BY <1>3, <1>4, <1>5, <1>6 DEF IInv

(* Pausing a tab, resting and stuttering touch none of what IInv relates.  *)
LEMMA QuietIInv ==
    ASSUME IInv, \/ \E t \in Pausable : UpdateWorkingState(t)
                 \/ UNCHANGED vars
    PROVE  IInv'
<1>1. /\ UNCHANGED <<message, hotQueue, hotMessage, pageSender, botCalls, pc,
                     job, torn>>
      /\ isWorked' \in [Tabs -> BOOLEAN]
    BY PausableAssumption DEF UpdateWorkingState, rows, vars, IInv, TypeOK
<1> QED
    BY <1>1
    DEF IInv, TypeOK, LocalOK, RequestOK, EntryOK, SnapshotOK, SettledOK,
        LiveEntries, OnDesk, DuplicatesOnlyFromRacingHooks, SeenOK, PurgeScoped,
        FreshOK, Unpurged

LEMMA NextIInv == IInv /\ [Next]_vars => IInv'
<1> SUFFICES ASSUME IInv, [Next]_vars PROVE IInv'
    OBVIOUS
<1>1. ASSUME NEW p \in Handlers, Request(p) PROVE IInv'
    BY <1>1, RequestIInv
<1>2. ASSUME NEW p \in Handlers, Step(p) \/ Fail(p) PROVE IInv'
    BY <1>2, StoreIInv, ReadingStepIInv, AddIInv, SaveIInv, ClaimIInv,
       DeleteIInv, PurgeIInv DEF Step
<1>3. CASE Crash
    BY <1>3, CrashIInv
<1>4. CASE Rest \/ (\E t \in Pausable : UpdateWorkingState(t)) \/ UNCHANGED vars
    BY <1>4, QuietIInv DEF Rest
<1> QED
    BY <1>1, <1>2, <1>3, <1>4 DEF Next

THEOREM InductiveInvariant == Spec => []IInv
    BY InitIInv, NextIInv, PTL DEF Spec
-----------------------------------------------------------------------------
(* The tables stay well-typed and ids stay within them.                    *)
THEOREM TypeCorrect == Spec => []TypeOK
    BY InductiveInvariant, PTL DEF IInv

(* The hook never acts on a customer an agent already looked after when it *)
(* asked.                                                                  *)
THEOREM HookRespectsAgents == Spec => []HookSnapshot
<1>1. IInv => HookSnapshot
    BY DEF IInv, LocalOK, SnapshotOK, HookSnapshot
<1> QED
    BY <1>1, InductiveInvariant, PTL

(* A customer is on the desk twice only when two hooks raced.              *)
THEOREM DuplicatesNeedRace == Spec => []DuplicatesOnlyFromRacingHooks
    BY InductiveInvariant, PTL DEF IInv

(* What an agent should see is on the desk when the request is answered.   *)
THEOREM DeskIsComplete == Spec => []DeskComplete
<1>1. IInv => DeskComplete
    BY DEF IInv, LocalOK, SettledOK, DeskComplete, Writers
<1> QED
    BY <1>1, InductiveInvariant, PTL

(* getConversation breaks only in the three windows OrphansExplained names *)
THEOREM OrphansAreExplained == Spec => []OrphansExplained
<1>1. IInv => OrphansExplained
    <2> SUFFICES ASSUME IInv, NEW i \in 1..Len(hotMessage),
                        hotMessage[i].closedBy = 0, hotMessage[i].fresh,
                        LiveEntries(hotMessage[i].key) = {}
                 PROVE  Unpurged(hotMessage[i].key)
        BY DEF OrphansExplained, Unpurged
    <2>1. ~hotQueue[hotMessage[i].seen].live
        BY DEF IInv, SeenOK, LiveEntries
    <2> QED
        BY <2>1 DEF IInv, FreshOK
<1> QED
    BY <1>1, InductiveInvariant, PTL

(* A stop clears its own customer's messages, after closing the entry.     *)
THEOREM PurgeIsScoped == Spec => []PurgeScoped
    BY InductiveInvariant, PTL DEF IInv
-----------------------------------------------------------------------------
(***************************************************************************)
(* What a message's automation knows, for any number of hooks, workflows,  *)
(* callbacks and changes, and for every drawing of the editor: the module  *)
(* WorkflowData, which is Data here.                                       *)
(*                                                                         *)
(* First what the steps do to a hook's record.  IInv is then split into    *)
(* what it says of the tables and of each hook alone, so that a step that  *)
(* moves one hook and no table has only that hook's new record to account  *)
(* for (HookMoves, HookEnds, HookGoes).  The steps that write a table are  *)
(* taken one by one.                                                       *)
(***************************************************************************)
(* A step of hook h leaves the others where they are.                      *)
DataAlone(h) == hook' \in [Hooks -> Data!HookState] /\ \A g \in Hooks \ {h} : hook'[g] = hook[g]

LEMMA DataChanges ==
    ASSUME Data!TypeOK, NEW h \in Hooks, NEW r \in Data!HookState, Data!Change(h, r)
    PROVE  DataAlone(h) /\ hook'[h] = r
BY DEF Data!TypeOK, Data!Change, DataAlone

LEMMA DataIdleType ==
    /\ Data!Idle \in Data!HookState /\ Data!Idle.pc = "idle" /\ Data!Idle.op = "none"
    /\ Data!Idle.outcome = "none" /\ ~Data!Idle.gone /\ Data!Idle.at = 0
BY DEF Data!Idle, Data!HookState, Data!Steps

LEMMA DataGotoFields ==
    ASSUME Data!TypeOK, NEW h \in Hooks, NEW s \in Data!Steps, Data!Goto(h, s)
    PROVE  LET r == hook'[h]
               o == hook[h]
           IN  /\ DataAlone(h) /\ r.pc = s /\ r.op = o.op /\ r.flow = o.flow /\ r.at = o.at
               /\ r.seen = o.seen /\ r.target = o.target /\ r.gone = o.gone
               /\ r.payload = o.payload /\ r.outcome = o.outcome
<1> DEFINE o == hook[h]
           r == [o EXCEPT !.pc = s]
<1>1. o \in Data!HookState
  BY DEF Data!TypeOK
<1>2. /\ r \in Data!HookState /\ r.pc = s /\ r.op = o.op /\ r.flow = o.flow /\ r.at = o.at
      /\ r.seen = o.seen /\ r.target = o.target /\ r.gone = o.gone
      /\ r.payload = o.payload /\ r.outcome = o.outcome
  BY <1>1 DEF Data!HookState
<1>3. Data!Change(h, r)
  BY DEF Data!Goto
<1> HIDE DEF r
<1> QED
  BY <1>2, <1>3, DataChanges

DataOutcomes == {"on desk", "error", "query", "over", "heard", "unheard"}

LEMMA DataEndFields ==
    ASSUME Data!TypeOK, NEW h \in Hooks, NEW x \in DataOutcomes, Data!End(h, x)
    PROVE  LET r == hook'[h]
               o == hook[h]
           IN  /\ DataAlone(h) /\ r.pc = "done" /\ r.op = o.op /\ r.flow = o.flow
               /\ r.at = o.at /\ r.gone = o.gone /\ r.outcome = x
<1> DEFINE o == hook[h]
           r == [o EXCEPT !.pc = "done", !.outcome = x]
<1>1. o \in Data!HookState
  BY DEF Data!TypeOK
<1>2. /\ r \in Data!HookState /\ r.pc = "done" /\ r.op = o.op /\ r.flow = o.flow
      /\ r.at = o.at /\ r.gone = o.gone /\ r.outcome = x
  BY <1>1 DEF Data!HookState, Data!Steps, DataOutcomes
<1>3. Data!Change(h, r)
  BY DEF Data!End
<1> HIDE DEF r
<1> QED
  BY <1>2, <1>3, DataChanges

LEMMA DataBeginFields ==
    ASSUME Data!TypeOK, NEW h \in Hooks, NEW op \in Data!Ops, NEW s \in Data!Steps,
           Data!Begin(h, op, s)
    PROVE  LET r == hook'[h]
           IN  /\ DataAlone(h) /\ r.pc = s /\ r.op = op /\ r.at = 0 /\ ~r.gone
               /\ r.outcome = "none" /\ hook[h].pc \in {"idle", "done"}
               /\ UNCHANGED <<row, active, deleted, onDesk, posted, disturbed, written,
                              raced, switches>>
<1> DEFINE r == [Data!Idle EXCEPT !.pc = s, !.op = op]
<1>1. r \in Data!HookState /\ r.pc = s /\ r.op = op /\ r.at = 0 /\ ~r.gone /\ r.outcome = "none"
  BY DataIdleType DEF Data!HookState
<1>2. Data!Change(h, r)
  BY DEF Data!Begin
<1> HIDE DEF r
<1> QED
  BY <1>1, <1>2, DataChanges DEF Data!Begin

LEMMA DataFlowFields ==
    ASSUME Data!TypeOK, NEW h \in Hooks, NEW f \in Flows,
           Data!Change(h, [hook[h] EXCEPT !.pc = "read", !.flow = f])
    PROVE  LET r == hook'[h]
               o == hook[h]
           IN  /\ DataAlone(h) /\ r.pc = "read" /\ r.op = o.op /\ r.flow = f /\ r.at = o.at
               /\ r.gone = o.gone /\ r.outcome = o.outcome
<1> DEFINE o == hook[h]
           r == [o EXCEPT !.pc = "read", !.flow = f]
<1>1. o \in Data!HookState
  BY DEF Data!TypeOK
<1>2. /\ r \in Data!HookState /\ r.pc = "read" /\ r.op = o.op /\ r.flow = f /\ r.at = o.at
      /\ r.gone = o.gone /\ r.outcome = o.outcome
  BY <1>1 DEF Data!HookState, Data!Steps
<1> HIDE DEF r
<1> QED
  BY <1>2, DataChanges DEF r

LEMMA DataWriteFields ==
    ASSUME Data!TypeOK, NEW h \in Hooks, NEW i \in DOMAIN row,
           Data!Change(h, [hook[h] EXCEPT !.pc = "write", !.at = i, !.seen = row[i].data])
    PROVE  LET r == hook'[h]
               o == hook[h]
           IN  /\ DataAlone(h) /\ r.pc = "write" /\ r.op = o.op /\ r.flow = o.flow /\ r.at = i
               /\ r.seen = row[i].data /\ r.gone = o.gone /\ r.outcome = o.outcome
<1> DEFINE o == hook[h]
           D == row[i].data
           r == [o EXCEPT !.pc = "write", !.at = i, !.seen = D]
<1>0. row[i] \in Data!RowType /\ i \in Nat
  BY DEF Data!TypeOK
<1>1. o \in Data!HookState /\ D \in SUBSET Data!Fields /\ i \in Nat
  BY <1>0 DEF Data!TypeOK, Data!RowType
<1>2. Data!Change(h, r)
  OBVIOUS
<1> HIDE DEF D
<1>3. /\ r \in Data!HookState /\ r.pc = "write" /\ r.op = o.op /\ r.flow = o.flow /\ r.at = i
      /\ r.seen = D /\ r.gone = o.gone /\ r.outcome = o.outcome
  BY <1>1 DEF Data!HookState, Data!Steps
<1> HIDE DEF r
<1> QED
  BY <1>2, <1>3, DataChanges DEF D

LEMMA DataLoadFields ==
    ASSUME Data!TypeOK, NEW h \in Hooks, NEW t \in {"sentiment", "reply", "agent"},
           Data!Change(h, [hook[h] EXCEPT !.pc = "load", !.target = t])
    PROVE  LET r == hook'[h]
               o == hook[h]
           IN  /\ DataAlone(h) /\ r.pc = "load" /\ r.op = o.op /\ r.flow = o.flow /\ r.at = o.at
               /\ r.target = t /\ r.gone = o.gone /\ r.outcome = o.outcome
<1> DEFINE o == hook[h]
           r == [o EXCEPT !.pc = "load", !.target = t]
<1>1. o \in Data!HookState
  BY DEF Data!TypeOK
<1>2. /\ r \in Data!HookState /\ r.pc = "load" /\ r.op = o.op /\ r.flow = o.flow /\ r.at = o.at
      /\ r.target = t /\ r.gone = o.gone /\ r.outcome = o.outcome
  BY <1>1 DEF Data!HookState, Data!Steps
<1> HIDE DEF r
<1> QED
  BY <1>2, DataChanges DEF r

LEMMA DataPayloadFields ==
    ASSUME Data!TypeOK, NEW h \in Hooks, NEW i \in DOMAIN row,
           Data!Change(h, [hook[h] EXCEPT !.pc = "setting", !.payload = row[i].data])
    PROVE  LET r == hook'[h]
               o == hook[h]
           IN  /\ DataAlone(h) /\ r.pc = "setting" /\ r.op = o.op /\ r.flow = o.flow
               /\ r.at = o.at /\ r.target = o.target /\ r.gone = o.gone
               /\ r.payload = row[i].data /\ r.outcome = o.outcome
<1> DEFINE o == hook[h]
           D == row[i].data
           r == [o EXCEPT !.pc = "setting", !.payload = D]
<1>0. row[i] \in Data!RowType
  BY DEF Data!TypeOK
<1>1. o \in Data!HookState /\ D \in SUBSET Data!Fields
  BY <1>0 DEF Data!TypeOK, Data!RowType
<1>2. Data!Change(h, r)
  OBVIOUS
<1> HIDE DEF D
<1>3. /\ r \in Data!HookState /\ r.pc = "setting" /\ r.op = o.op /\ r.flow = o.flow
      /\ r.at = o.at /\ r.target = o.target /\ r.gone = o.gone
      /\ r.payload = D /\ r.outcome = o.outcome
  BY <1>1 DEF Data!HookState, Data!Steps
<1> HIDE DEF r
<1> QED
  BY <1>2, <1>3, DataChanges DEF D

LEMMA DataGoneFields ==
    ASSUME Data!TypeOK, NEW h \in Hooks, NEW b \in BOOLEAN,
           Data!Change(h, [hook[h] EXCEPT !.pc = "add", !.gone = b])
    PROVE  LET r == hook'[h]
               o == hook[h]
           IN  /\ DataAlone(h) /\ r.pc = "add" /\ r.op = o.op /\ r.flow = o.flow /\ r.at = o.at
               /\ r.payload = o.payload /\ r.gone = b /\ r.outcome = o.outcome
<1> DEFINE o == hook[h]
           r == [o EXCEPT !.pc = "add", !.gone = b]
<1>1. o \in Data!HookState
  BY DEF Data!TypeOK
<1>2. /\ r \in Data!HookState /\ r.pc = "add" /\ r.op = o.op /\ r.flow = o.flow /\ r.at = o.at
      /\ r.payload = o.payload /\ r.gone = b /\ r.outcome = o.outcome
  BY <1>1 DEF Data!HookState, Data!Steps
<1> HIDE DEF r
<1> QED
  BY <1>2, DataChanges DEF r

(* The rows after an update and after an insertion.                        *)
LEMMA DataUpdatedRow ==
    ASSUME Data!TypeOK, NEW i \in DOMAIN row, NEW D \in SUBSET Data!Fields,
           row' = [row EXCEPT ![i].data = D]
    PROVE  /\ row' \in Seq(Data!RowType) /\ Len(row') = Len(row) /\ DOMAIN row' = DOMAIN row
           /\ \A k \in DOMAIN row : row'[k].flow = row[k].flow
           /\ row'[i].data = D /\ \A k \in DOMAIN row \ {i} : row'[k] = row[k]
<1> DEFINE r == [row[i] EXCEPT !.data = D]
<1>1. row \in Seq(Data!RowType) /\ row[i] \in Data!RowType
  BY DEF Data!TypeOK
<1>2. r \in Data!RowType /\ r.flow = row[i].flow /\ r.data = D
  BY <1>1 DEF Data!RowType
<1>3. row' = [row EXCEPT ![i] = r]
  BY <1>1
<1> HIDE DEF r
<1> QED
  BY <1>1, <1>2, <1>3

LEMMA DataInsertedRow ==
    ASSUME NEW f \in Flows, NEW D \in SUBSET Data!Fields, row = <<>>,
           row' = Append(row, [flow |-> f, data |-> D])
    PROVE  /\ row' \in Seq(Data!RowType) /\ Len(row') = 1 /\ DOMAIN row' = {1}
           /\ row'[1].flow = f /\ row'[1].data = D
BY DEF Data!RowType
-----------------------------------------------------------------------------
(* What IInv says of a single hook, and of the tables.                     *)

DataRecordOK(r) ==
    /\ r.op = "none" <=> r.pc = "idle"
    /\ r.pc \in {"create", "insert"} => r.op = "receive"
    /\ r.op = "sentiment" => "sentiment" \in posted
    /\ row = <<>> => r.op \notin {"sentiment", "agent"}
    /\ row = <<>> => r.pc \notin {"write", "node", "load", "setting", "add", "announce"}
    /\ r.op = "receive" /\ row # <<>>
          => r.pc \notin {"named", "queue", "flow", "read", "create", "insert"}
    /\ r.pc \in Data!Looked => r.flow \in Flows
    /\ r.pc = "write" => r.at \in DOMAIN row
    /\ r.pc \in {"load", "setting"} /\ r.target = "sentiment"
          => Graph[r.flow].receive = "sentiment"
    /\ r.gone => r.flow \in deleted /\ r.pc \in {"add", "announce", "done"}
    /\ r.outcome # "none" => r.pc = "done"
    /\ r.outcome = "unheard" => r.flow \in deleted

DataCalmRecord(r) ==
    \A f \in Flows \ deleted :
        received /\ ~disturbed /\ active = {f} =>
           (r.pc \in Data!Looked => r.flow = f) /\ r.outcome # "error"

DataMergedRecord(r) ==
    ~raced =>
        /\ r.pc = "write" => r.seen = row[r.at].data
        /\ r.pc \in {"node", "load"}
              /\ Data!RowsOf(r.flow) # {} => Data!Fresh(r.op) \subseteq written
        /\ r.pc \in {"setting", "add", "announce"}
              => {"message"} \union Data!Fresh(r.op) \subseteq r.payload

DataCalmTables ==
    \A f \in Flows \ deleted :
        received /\ ~disturbed /\ active = {f} =>
           /\ \A i \in DOMAIN row : row[i].flow = f
           /\ "sentiment" \in posted => Graph[f].receive = "sentiment"

DataTablesOK ==
    /\ Data!OneRow /\ Data!FieldsLostOnlyInRaces
    /\ posted # {} => row # <<>>
    /\ row # <<>> => "message" \in written
    /\ ~received => row = <<>>
    /\ DataCalmTables

DataOpsOK ==
    /\ ~received => \A h \in Hooks : hook[h].op = "none"
    /\ \A g, h \in Hooks : hook[g].op = "receive" /\ hook[h].op = "receive" => g = h

DataByPart ==
    /\ Data!TypeOK /\ DataTablesOK /\ DataOpsOK
    /\ \A h \in Hooks : DataRecordOK(hook[h]) /\ DataCalmRecord(hook[h])
          /\ DataMergedRecord(hook[h])

LEMMA DataParts == Data!IInv <=> DataByPart
<1>1. Data!CalmOK <=> DataCalmTables /\ \A h \in Hooks : DataCalmRecord(hook[h])
  BY DEF Data!CalmOK, DataCalmTables, DataCalmRecord
<1>2. Data!MergeOK /\ Data!PayloadIsComplete <=> \A h \in Hooks : DataMergedRecord(hook[h])
  BY DEF Data!MergeOK, Data!PayloadIsComplete, DataMergedRecord, Data!TypeOK
<1>3. Data!HooksOK /\ Data!IntakeOK /\ Data!UnheardOnlyOfDeleted
      <=> /\ \A h \in Hooks : DataRecordOK(hook[h])
          /\ DataOpsOK
          /\ posted # {} => row # <<>>
          /\ row # <<>> => "message" \in written
          /\ ~received => row = <<>>
  BY DEF Data!HooksOK, Data!IntakeOK, Data!UnheardOnlyOfDeleted, DataRecordOK, DataOpsOK
<1> QED
  BY <1>1, <1>2, <1>3 DEF Data!IInv, DataTablesOK, DataByPart

LEMMA DataNextParts == Data!IInv' <=> DataByPart'
BY DataParts, PTL

DataTables == <<row, active, deleted, received, disturbed, written, raced>>

(* A hook takes a step and the tables stay.                                *)
LEMMA DataHookMoves ==
    ASSUME Data!IInv, NEW h \in Hooks, DataAlone(h), UNCHANGED DataTables, UNCHANGED posted,
           onDesk' \in BOOLEAN, UNCHANGED <<callbacks, switches>>,
           hook'[h].op = hook[h].op, hook'[h].at \in {0} \union DOMAIN row,
           DataRecordOK(hook'[h]), DataCalmRecord(hook'[h]), DataMergedRecord(hook'[h])
    PROVE  Data!IInv'
<1> USE DEF DataTables
<1>0. Data!TypeOK /\ DataTablesOK /\ DataOpsOK
      /\ \A g \in Hooks : DataRecordOK(hook[g]) /\ DataCalmRecord(hook[g])
            /\ DataMergedRecord(hook[g])
  BY DataParts DEF DataByPart
<1>1. Data!TypeOK'
  BY <1>0 DEF Data!TypeOK, DataAlone
<1>2. DataTablesOK' /\ DataOpsOK'
  <2>1. DataTablesOK'
    BY <1>0 DEF DataTablesOK, Data!OneRow, Data!FieldsLostOnlyInRaces, DataCalmTables
  <2>2. \A g \in Hooks : hook'[g].op = hook[g].op
    BY DEF DataAlone
  <2> QED
    BY <1>0, <2>1, <2>2 DEF DataOpsOK
<1>3. ASSUME NEW g \in Hooks
      PROVE DataRecordOK(hook[g])' /\ DataCalmRecord(hook[g])' /\ DataMergedRecord(hook[g])'
  <2>1. PICK r : r = hook'[g]
    OBVIOUS
  <2>2. DataRecordOK(r) /\ DataCalmRecord(r) /\ DataMergedRecord(r)
    BY <1>0, <2>1 DEF DataAlone
  <2>3. DataRecordOK(hook[g])'
    BY <2>1, <2>2 DEF DataRecordOK
  <2>4. DataCalmRecord(hook[g])'
    BY <2>1, <2>2 DEF DataCalmRecord
  <2>5. DataMergedRecord(hook[g])'
    BY <2>1, <2>2 DEF DataMergedRecord, Data!RowsOf
  <2> QED
    BY <2>3, <2>4, <2>5
<1> QED
  BY <1>1, <1>2, <1>3, DataNextParts DEF DataByPart
-----------------------------------------------------------------------------
(* The steps of a hook that leave the tables alone.                        *)

DataQuiet == UNCHANGED DataTables /\ UNCHANGED <<posted, callbacks, switches>>

(* What a hook that is under way knows.                                    *)
LEMMA DataUnderWay ==
    ASSUME Data!IInv, NEW h \in Hooks, hook[h].pc \notin {"idle", "done"}
    PROVE  /\ Data!TypeOK /\ DataTablesOK /\ DataRecordOK(hook[h]) /\ DataCalmRecord(hook[h])
           /\ DataMergedRecord(hook[h])
           /\ hook[h] \in Data!HookState /\ hook[h].at \in {0} \union DOMAIN row
           /\ hook[h].op \in Data!Ops /\ received /\ onDesk \in BOOLEAN
<1>1. DataByPart
  BY DataParts
<1>2. hook[h] \in Data!HookState /\ hook[h].op # "none"
  BY <1>1 DEF DataByPart, Data!TypeOK, DataRecordOK
<1>3. hook[h].op \in Data!Ops
  BY <1>2 DEF Data!HookState, Data!Ops
<1>4. received
  BY <1>1, <1>2 DEF DataByPart, DataOpsOK
<1> QED
  BY <1>1, <1>2, <1>3, <1>4 DEF DataByPart, Data!TypeOK

DataCalm(f) == f \in Flows \ deleted /\ received /\ ~disturbed /\ active = {f}

(* It may end, with an error only where nothing was calm.                  *)
LEMMA DataHookEnds ==
    ASSUME Data!IInv, NEW h \in Hooks, hook[h].pc \notin {"idle", "done"}, DataQuiet,
           onDesk' \in BOOLEAN, NEW x \in DataOutcomes, Data!End(h, x),
           x = "error" => ~\E f : DataCalm(f),
           x = "unheard" => hook[h].flow \in deleted
    PROVE  Data!IInv'
<1> DEFINE o == hook[h]
<1>1. Data!TypeOK /\ DataRecordOK(o) /\ DataCalmRecord(o) /\ o \in Data!HookState
      /\ o.at \in {0} \union DOMAIN row /\ o.op \in Data!Ops
  BY DataUnderWay
<1> PICK r : r = hook'[h]
  OBVIOUS
<1>2. DataAlone(h) /\ r.pc = "done" /\ r.op = o.op /\ r.flow = o.flow /\ r.at = o.at
      /\ r.gone = o.gone /\ r.outcome = x
  BY <1>1, DataEndFields
<1>3. o.gone \in BOOLEAN
  BY <1>1 DEF Data!HookState
<1>4. DataRecordOK(r)
  BY <1>1, <1>2, <1>3 DEF DataRecordOK, Data!Ops, Data!Looked
<1>5. DataMergedRecord(r)
  BY <1>2 DEF DataMergedRecord
<1>6. DataCalmRecord(r)
  BY <1>2 DEF DataCalmRecord, DataCalm, Data!Looked
<1> QED
  BY <1>1, <1>2, <1>4, <1>5, <1>6, DataHookMoves DEF DataQuiet

(* It may go on to a step that asks for no more than the one before.       *)
LEMMA DataHookGoes ==
    ASSUME Data!IInv, NEW h \in Hooks, hook[h].pc \notin {"idle", "done"}, DataQuiet,
           onDesk' \in BOOLEAN, NEW s \in Data!Steps \ {"idle", "load", "setting"},
           Data!Goto(h, s),
           s \in Data!Looked => hook[h].pc \in Data!Looked,
           s \in {"create", "insert"} => hook[h].op = "receive",
           row = <<>> => s \notin {"write", "node", "add", "announce"},
           hook[h].op = "receive" /\ row # <<>>
              => s \notin {"named", "queue", "flow", "read", "create", "insert"},
           s = "write" => hook[h].at \in DOMAIN row /\ hook[h].seen = row[hook[h].at].data,
           s = "node" => Data!RowsOf(hook[h].flow) = {},
           s \in {"add", "announce"} => hook[h].pc \in {"setting", "add"},
           hook[h].pc = "add" => s = "announce",
           hook[h].pc # "announce"
    PROVE  Data!IInv'
<1> DEFINE o == hook[h]
<1>1. Data!TypeOK /\ DataRecordOK(o) /\ DataCalmRecord(o) /\ DataMergedRecord(o)
      /\ o \in Data!HookState
      /\ o.at \in {0} \union DOMAIN row /\ o.op \in Data!Ops
  BY DataUnderWay
<1> PICK r : r = hook'[h]
  OBVIOUS
<1>2. DataAlone(h) /\ r.pc = s /\ r.op = o.op /\ r.flow = o.flow /\ r.at = o.at
      /\ r.seen = o.seen /\ r.target = o.target /\ r.gone = o.gone
      /\ r.payload = o.payload /\ r.outcome = o.outcome
  BY <1>1, DataGotoFields
<1>3. o.gone \in BOOLEAN
  BY <1>1 DEF Data!HookState
<1>4. DataRecordOK(r)
  <2>1. /\ r.op = "none" <=> r.pc = "idle"
        /\ r.pc \in {"create", "insert"} => r.op = "receive"
        /\ r.op = "sentiment" => "sentiment" \in posted
        /\ row = <<>> => r.op \notin {"sentiment", "agent"}
        /\ row = <<>> => r.pc \notin {"write", "node", "load", "setting", "add", "announce"}
        /\ r.op = "receive" /\ row # <<>>
              => r.pc \notin {"named", "queue", "flow", "read", "create", "insert"}
    BY <1>1, <1>2 DEF DataRecordOK, Data!Ops
  <2>2. /\ r.pc \in Data!Looked => r.flow \in Flows
        /\ r.pc = "write" => r.at \in DOMAIN row
        /\ r.pc \notin {"load", "setting"}
        /\ r.outcome = "none"
    BY <1>1, <1>2 DEF DataRecordOK
  <2>3. r.gone => r.flow \in deleted /\ r.pc \in {"add", "announce", "done"}
    BY <1>1, <1>2, <1>3 DEF DataRecordOK
  <2> QED
    BY <2>1, <2>2, <2>3 DEF DataRecordOK
<1>5. DataMergedRecord(r)
  BY <1>1, <1>2 DEF DataMergedRecord
<1>6. DataCalmRecord(r)
  BY <1>1, <1>2 DEF DataCalmRecord
<1> QED
  BY <1>1, <1>2, <1>4, <1>5, <1>6, DataHookMoves DEF DataQuiet

LEMMA DataGetNamedWorkflowStep ==
    ASSUME Data!IInv, NEW h \in Hooks, Data!GetNamedWorkflow(h)
    PROVE  Data!IInv'
<1>0. hook[h].pc = "named" /\ DataQuiet /\ UNCHANGED onDesk
  BY DEF Data!GetNamedWorkflow, Data!At, DataQuiet, DataTables, Data!history
<1>1. DataTablesOK /\ DataRecordOK(hook[h]) /\ onDesk \in BOOLEAN
  BY <1>0, DataUnderWay
<1>2. PICK i \in DOMAIN row :
          IF row[i].flow \in deleted THEN Data!End(h, "error") ELSE Data!Goto(h, "queue")
  BY DEF Data!GetNamedWorkflow
<1>3. CASE row[i].flow \in deleted
  <2>1. ~\E f : DataCalm(f)
    BY <1>1, <1>3 DEF DataTablesOK, DataCalmTables, DataCalm
  <2> QED
    BY <1>0, <1>1, <1>2, <1>3, <2>1, DataHookEnds DEF DataOutcomes
<1>4. CASE row[i].flow \notin deleted
  <2>1. hook[h].op = "receive" => row = <<>>
    BY <1>0, <1>1 DEF DataRecordOK
  <2> QED
    BY <1>0, <1>1, <1>2, <1>4, <2>1, DataHookGoes DEF Data!Steps, Data!Looked
<1> QED
  BY <1>3, <1>4

LEMMA DataFindUserInHotQueueStep ==
    ASSUME Data!IInv, NEW h \in Hooks, Data!FindUserInHotQueue(h)
    PROVE  Data!IInv'
<1>0. hook[h].pc = "queue" /\ DataQuiet /\ UNCHANGED onDesk
      /\ IF onDesk THEN Data!End(h, "on desk") ELSE Data!Goto(h, "flow")
  BY DEF Data!FindUserInHotQueue, Data!At, DataQuiet, DataTables, Data!history
<1>1. DataRecordOK(hook[h]) /\ onDesk \in BOOLEAN
  BY <1>0, DataUnderWay
<1>2. CASE onDesk
  BY <1>0, <1>1, <1>2, DataHookEnds DEF DataOutcomes
<1>3. CASE ~onDesk
  <2>1. hook[h].op = "receive" => row = <<>>
    BY <1>0, <1>1 DEF DataRecordOK
  <2> QED
    BY <1>0, <1>1, <1>3, <2>1, DataHookGoes DEF Data!Steps, Data!Looked
<1> QED
  BY <1>2, <1>3

LEMMA DataFindWorkflowByTabIdStep ==
    ASSUME Data!IInv, NEW h \in Hooks, Data!FindWorkflowByTabId(h)
    PROVE  Data!IInv'
<1> DEFINE o == hook[h]
<1>0. o.pc = "flow" /\ DataQuiet /\ UNCHANGED onDesk
  BY DEF Data!FindWorkflowByTabId, Data!At, DataQuiet, DataTables, Data!history
<1>1. Data!TypeOK /\ DataRecordOK(o) /\ o \in Data!HookState /\ o.op \in Data!Ops
      /\ onDesk \in BOOLEAN
      /\ o.at \in {0} \union DOMAIN row
  BY <1>0, DataUnderWay
<1>2. CASE active = {} /\ Data!End(h, "error")
  <2>1. ~\E f : DataCalm(f)
    BY <1>2 DEF DataCalm
  <2> QED
    BY <1>0, <1>1, <1>2, <2>1, DataHookEnds DEF DataOutcomes
<1>3. ASSUME NEW f \in active, Data!Change(h, [o EXCEPT !.pc = "read", !.flow = f])
      PROVE  Data!IInv'
  <2> PICK r : r = hook'[h]
    OBVIOUS
  <2>0. f \in Flows /\ o.gone = FALSE /\ o.outcome = "none"
    BY <1>0, <1>1 DEF Data!TypeOK, DataRecordOK, Data!HookState
  <2>1. DataAlone(h) /\ r.pc = "read" /\ r.op = o.op /\ r.flow = f /\ r.at = o.at
        /\ r.gone = o.gone /\ r.outcome = o.outcome
    BY <1>1, <1>3, <2>0, DataFlowFields
  <2>2. DataRecordOK(r)
    BY <1>0, <1>1, <2>0, <2>1 DEF DataRecordOK, Data!Ops, Data!Looked
  <2>3. DataMergedRecord(r)
    BY <2>1 DEF DataMergedRecord
  <2>4. DataCalmRecord(r)
    BY <2>0, <2>1 DEF DataCalmRecord
  <2> QED
    BY <1>0, <1>1, <2>1, <2>2, <2>3, <2>4, DataHookMoves DEF DataQuiet
<1> QED
  BY <1>2, <1>3 DEF Data!FindWorkflowByTabId

LEMMA DataGetWorkflowDataStep ==
    ASSUME Data!IInv, NEW h \in Hooks, Data!GetWorkflowData(h)
    PROVE  Data!IInv'
<1> DEFINE o == hook[h]
<1>0. o.pc = "read" /\ DataQuiet /\ UNCHANGED onDesk
  BY DEF Data!GetWorkflowData, Data!At, DataQuiet, DataTables, Data!history
<1>1. Data!TypeOK /\ DataRecordOK(o) /\ DataCalmRecord(o) /\ o \in Data!HookState
      /\ o.op \in Data!Ops
      /\ onDesk \in BOOLEAN /\ o.at \in {0} \union DOMAIN row
  BY <1>0, DataUnderWay
<1>2. CASE /\ Data!RowsOf(o.flow) = {}
           /\ Data!Goto(h, IF o.op = "receive" THEN "create" ELSE "node")
  <2>1. o.op = "receive" => row = <<>>
    BY <1>0, <1>1 DEF DataRecordOK
  <2>2. o.op # "receive" => row # <<>>
    BY <1>1 DEF DataRecordOK, Data!Ops
  <2>3. CASE o.op = "receive"
    BY <1>0, <1>1, <1>2, <2>1, <2>3, DataHookGoes DEF Data!Steps, Data!Looked
  <2>4. CASE o.op # "receive"
    BY <1>0, <1>1, <1>2, <2>2, <2>4, DataHookGoes DEF Data!Steps, Data!Looked
  <2> QED
    BY <2>3, <2>4
<1>3. ASSUME NEW i \in Data!RowsOf(o.flow),
             Data!Change(h, [o EXCEPT !.pc = "write", !.at = i, !.seen = row[i].data])
      PROVE  Data!IInv'
  <2> PICK r : r = hook'[h]
    OBVIOUS
  <2>5. i \in DOMAIN row /\ row # <<>>
    BY <1>3 DEF Data!RowsOf
  <2>0. o.gone = FALSE /\ o.outcome = "none"
    BY <1>0, <1>1 DEF DataRecordOK, Data!HookState
  <2>1. DataAlone(h) /\ r.pc = "write" /\ r.op = o.op /\ r.flow = o.flow /\ r.at = i
        /\ r.seen = row[i].data /\ r.gone = o.gone /\ r.outcome = o.outcome
    BY <1>1, <1>3, <2>5, DataWriteFields
  <2>2. DataRecordOK(r)
    BY <1>0, <1>1, <2>0, <2>5, <2>1 DEF DataRecordOK, Data!Ops, Data!Looked
  <2>3. DataMergedRecord(r)
    BY <2>1 DEF DataMergedRecord
  <2>4. DataCalmRecord(r)
    BY <1>0, <1>1, <2>1 DEF DataCalmRecord, Data!Looked
  <2> QED
    BY <1>0, <1>1, <2>5, <2>1, <2>2, <2>3, <2>4, DataHookMoves DEF DataQuiet
<1> QED
  BY <1>2, <1>3 DEF Data!GetWorkflowData

LEMMA DataGetSocialTabInfoStep ==
    ASSUME Data!IInv, NEW h \in Hooks, Data!GetSocialTabInfo(h)
    PROVE  Data!IInv'
<1>0. hook[h].pc = "create" /\ DataQuiet /\ UNCHANGED onDesk
      /\ IF hook[h].flow \in deleted THEN Data!End(h, "error") ELSE Data!Goto(h, "insert")
  BY DEF Data!GetSocialTabInfo, Data!At, DataQuiet, DataTables, Data!history
<1>1. DataRecordOK(hook[h]) /\ DataCalmRecord(hook[h]) /\ onDesk \in BOOLEAN
  BY <1>0, DataUnderWay
<1>2. CASE hook[h].flow \in deleted
  <2>1. ~\E f : DataCalm(f)
    BY <1>0, <1>1, <1>2 DEF DataCalmRecord, DataCalm, Data!Looked
  <2> QED
    BY <1>0, <1>1, <1>2, <2>1, DataHookEnds DEF DataOutcomes
<1>3. CASE hook[h].flow \notin deleted
  <2>1. hook[h].op = "receive" /\ row = <<>>
    BY <1>0, <1>1 DEF DataRecordOK
  <2> QED
    BY <1>0, <1>1, <1>3, <2>1, DataHookGoes DEF Data!Steps, Data!Looked
<1> QED
  BY <1>2, <1>3

(* The node after the current one, given that the drawing has it.          *)
LEMMA DataTargetStep ==
    ASSUME Data!IInv, NEW h \in Hooks, hook[h].pc = "node", DataQuiet, onDesk' \in BOOLEAN,
           NEW t \in {"none", "sentiment", "reply", "agent"}, Data!Target(h, t),
           t = "sentiment" => Graph[hook[h].flow].receive = "sentiment"
    PROVE  Data!IInv'
<1> DEFINE o == hook[h]
<1>1. Data!TypeOK /\ DataRecordOK(o) /\ DataCalmRecord(o) /\ DataMergedRecord(o)
      /\ o \in Data!HookState
      /\ o.op \in Data!Ops /\ o.at \in {0} \union DOMAIN row
  BY DataUnderWay
<1>2. CASE t = "none"
  BY <1>2, DataHookEnds DEF DataOutcomes, Data!Target
<1>3. CASE t # "none"
  <2> PICK r : r = hook'[h]
    OBVIOUS
  <2>0. o.gone = FALSE /\ o.outcome = "none"
    BY <1>1 DEF DataRecordOK, Data!HookState
  <2>1. DataAlone(h) /\ r.pc = "load" /\ r.op = o.op /\ r.flow = o.flow /\ r.at = o.at
        /\ r.target = t /\ r.gone = o.gone /\ r.outcome = o.outcome
    BY <1>1, <1>3, DataLoadFields DEF Data!Target
  <2>2. DataRecordOK(r)
    BY <1>1, <2>0, <2>1 DEF DataRecordOK, Data!Ops, Data!Looked
  <2>3. DataMergedRecord(r)
    BY <1>1, <2>1 DEF DataMergedRecord
  <2>4. DataCalmRecord(r)
    BY <1>1, <2>1 DEF DataCalmRecord, Data!Looked
  <2> QED
    BY <1>1, <2>1, <2>2, <2>3, <2>4, DataHookMoves DEF DataQuiet
<1> QED
  BY <1>2, <1>3

LEMMA DataFindNextNodeStep ==
    ASSUME Data!DrawnAssumption, Data!IInv, NEW h \in Hooks, Data!FindNextNode(h)
    PROVE  Data!IInv'
<1> DEFINE o == hook[h]
<1>0. o.pc = "node" /\ DataQuiet /\ UNCHANGED onDesk
  BY DEF Data!FindNextNode, Data!At, DataQuiet, DataTables, Data!history
<1>1. DataRecordOK(o) /\ DataCalmRecord(o) /\ DataTablesOK /\ onDesk \in BOOLEAN
  BY <1>0, DataUnderWay
<1>2. /\ o.flow \in Flows
      /\ Graph[o.flow].receive \in {"sentiment", "reply", "agent", "none"}
      /\ Graph[o.flow].sentiment \subseteq {"reply", "agent", "none"}
  BY <1>0, <1>1 DEF DataRecordOK, Data!Looked, Data!DrawnAssumption
<1>3. CASE o.op = "receive" /\ Data!Target(h, Graph[o.flow].receive)
  BY <1>0, <1>1, <1>2, <1>3, DataTargetStep
<1>4. CASE o.op = "agent" /\ Data!Target(h, "agent")
  BY <1>0, <1>1, <1>4, DataTargetStep
<1>5. CASE o.op = "sentiment" /\ Graph[o.flow].sentiment = {} /\ Data!End(h, "error")
  <2>1. ASSUME NEW f, DataCalm(f) PROVE FALSE
    <3>1. o.flow = f
      BY <1>0, <1>1, <2>1 DEF DataCalmRecord, DataCalm, Data!Looked
    <3>2. Graph[f].receive = "sentiment"
      BY <1>1, <1>5, <2>1 DEF DataRecordOK, DataTablesOK, DataCalmTables, DataCalm
    <3> QED
      BY <1>2, <1>5, <3>1, <3>2 DEF Data!DrawnAssumption
  <2> QED
    BY <1>0, <1>1, <1>5, <2>1, DataHookEnds DEF DataOutcomes
<1>6. ASSUME NEW t \in Graph[o.flow].sentiment, Data!Target(h, t) PROVE Data!IInv'
  BY <1>0, <1>1, <1>2, <1>6, DataTargetStep
<1> QED
  BY <1>3, <1>4, <1>5, <1>6 DEF Data!FindNextNode

LEMMA DataLoadStep ==
    ASSUME Data!IInv, NEW h \in Hooks, Data!Load(h)
    PROVE  Data!IInv'
<1> DEFINE o == hook[h]
<1>0. o.pc = "load" /\ DataQuiet /\ UNCHANGED onDesk
  BY DEF Data!Load, Data!At, DataQuiet, DataTables, Data!history
<1>1. Data!TypeOK /\ DataTablesOK /\ DataRecordOK(o) /\ DataCalmRecord(o) /\ DataMergedRecord(o)
      /\ o \in Data!HookState /\ o.op \in Data!Ops /\ onDesk \in BOOLEAN
      /\ o.at \in {0} \union DOMAIN row /\ received
  BY <1>0, DataUnderWay
<1>2. CASE Data!RowsOf(o.flow) = {} /\ Data!End(h, "error")
  <2>1. ASSUME NEW f, DataCalm(f) PROVE FALSE
    <3>1. o.flow = f /\ row # <<>>
      BY <1>0, <1>1, <2>1 DEF DataCalmRecord, DataRecordOK, DataCalm, Data!Looked
    <3>2. 1 \in DOMAIN row
      BY <1>1, <3>1 DEF Data!TypeOK
    <3> QED
      BY <1>1, <1>2, <2>1, <3>1, <3>2 DEF DataTablesOK, DataCalmTables, DataCalm,
             Data!RowsOf
  <2> QED
    BY <1>0, <1>1, <1>2, <2>1, DataHookEnds DEF DataOutcomes
<1>3. ASSUME NEW i \in Data!RowsOf(o.flow),
             Data!Change(h, [o EXCEPT !.pc = "setting", !.payload = row[i].data])
      PROVE  Data!IInv'
  <2> PICK r : r = hook'[h]
    OBVIOUS
  <2>5. i \in DOMAIN row /\ row # <<>> /\ Data!RowsOf(o.flow) # {}
    BY <1>3 DEF Data!RowsOf
  <2>0. o.gone = FALSE /\ o.outcome = "none"
    BY <1>0, <1>1 DEF DataRecordOK, Data!HookState
  <2>1. DataAlone(h) /\ r.pc = "setting" /\ r.op = o.op /\ r.flow = o.flow
        /\ r.at = o.at /\ r.target = o.target /\ r.gone = o.gone
        /\ r.payload = row[i].data /\ r.outcome = o.outcome
    BY <1>1, <1>3, <2>5, DataPayloadFields
  <2>2. DataRecordOK(r)
    BY <1>0, <1>1, <2>0, <2>5, <2>1 DEF DataRecordOK, Data!Ops, Data!Looked
  <2>3. DataMergedRecord(r)
    <3>1. SUFFICES ASSUME ~raced PROVE {"message"} \union Data!Fresh(r.op) \subseteq row[i].data
      BY <2>1 DEF DataMergedRecord
    <3>2. "message" \in written /\ Data!Fresh(r.op) \subseteq written
      BY <1>0, <1>1, <2>1, <2>5, <3>1 DEF DataTablesOK, DataMergedRecord
    <3>3. \A k \in DOMAIN row : k = i
      BY <1>1, <2>5 DEF Data!TypeOK, DataTablesOK, Data!OneRow
    <3>4. written \subseteq row[i].data
      BY <1>1, <3>1, <3>3 DEF DataTablesOK, Data!FieldsLostOnlyInRaces
    <3> QED
      BY <3>2, <3>4
  <2>4. DataCalmRecord(r)
    BY <1>0, <1>1, <2>1 DEF DataCalmRecord, Data!Looked
  <2> QED
    BY <1>0, <1>1, <2>1, <2>2, <2>3, <2>4, DataHookMoves DEF DataQuiet
<1> QED
  BY <1>2, <1>3 DEF Data!Load

LEMMA DataGetWorkflowByIdStep ==
    ASSUME Data!IInv, NEW h \in Hooks, Data!GetWorkflowById(h)
    PROVE  Data!IInv'
<1> DEFINE o == hook[h]
           b == o.flow \in deleted
<1>0. o.pc = "setting" /\ DataQuiet /\ UNCHANGED onDesk
      /\ Data!Change(h, [o EXCEPT !.pc = "add", !.gone = b])
  BY DEF Data!GetWorkflowById, Data!At, DataQuiet, DataTables, Data!history
<1>1. Data!TypeOK /\ DataRecordOK(o) /\ DataCalmRecord(o) /\ DataMergedRecord(o)
      /\ o \in Data!HookState
      /\ o.op \in Data!Ops /\ onDesk \in BOOLEAN /\ o.at \in {0} \union DOMAIN row
  BY <1>0, DataUnderWay
<1> PICK r : r = hook'[h]
  OBVIOUS
<1>2. o.outcome = "none"
  BY <1>0, <1>1 DEF DataRecordOK
<1>3. b \in BOOLEAN /\ (b => o.flow \in deleted)
  OBVIOUS
<1> HIDE DEF b
<1>4. DataAlone(h) /\ r.pc = "add" /\ r.op = o.op /\ r.flow = o.flow /\ r.at = o.at
      /\ r.payload = o.payload /\ r.gone = b /\ r.outcome = o.outcome
  BY <1>0, <1>1, <1>3, DataGoneFields
<1>5. DataRecordOK(r)
  BY <1>0, <1>1, <1>2, <1>3, <1>4 DEF DataRecordOK, Data!Ops, Data!Looked
<1>6. DataMergedRecord(r)
  BY <1>0, <1>1, <1>4 DEF DataMergedRecord
<1>7. DataCalmRecord(r)
  BY <1>0, <1>1, <1>4 DEF DataCalmRecord, Data!Looked
<1> QED
  BY <1>0, <1>1, <1>4, <1>5, <1>6, <1>7, DataHookMoves DEF DataQuiet

LEMMA DataAddToHotQueueStep ==
    ASSUME Data!IInv, NEW h \in Hooks, Data!AddToHotQueue(h)
    PROVE  Data!IInv'
<1>0. hook[h].pc = "add" /\ DataQuiet /\ onDesk' = TRUE /\ Data!Goto(h, "announce")
  BY DEF Data!AddToHotQueue, Data!At, DataQuiet, DataTables, Data!history
<1>1. DataRecordOK(hook[h])
  BY <1>0, DataUnderWay
<1>2. row # <<>>
  BY <1>0, <1>1 DEF DataRecordOK
<1> QED
  BY <1>0, <1>2, DataHookGoes DEF Data!Steps, Data!Looked

LEMMA DataAnnounceStep ==
    ASSUME Data!IInv, NEW h \in Hooks, Data!Announce(h)
    PROVE  Data!IInv'
<1>0. hook[h].pc = "announce" /\ DataQuiet /\ UNCHANGED onDesk
      /\ Data!End(h, IF hook[h].gone THEN "unheard" ELSE "heard")
  BY DEF Data!Announce, Data!At, DataQuiet, DataTables, Data!history
<1>1. DataRecordOK(hook[h]) /\ onDesk \in BOOLEAN /\ hook[h] \in Data!HookState
  BY <1>0, DataUnderWay
<1>2. CASE hook[h].gone
  <2>1. hook[h].flow \in deleted
    BY <1>1, <1>2 DEF DataRecordOK
  <2> QED
    BY <1>0, <1>1, <1>2, <2>1, DataHookEnds DEF DataOutcomes
<1>3. CASE ~hook[h].gone
  BY <1>0, <1>1, <1>3, DataHookEnds DEF DataOutcomes
<1> QED
  BY <1>2, <1>3

LEMMA DataQueryFailsStep ==
    ASSUME Data!IInv, NEW h \in Hooks, Data!QueryFails(h)
    PROVE  Data!IInv'
<1>0. hook[h].pc \notin {"idle", "done"} /\ DataQuiet /\ UNCHANGED onDesk
      /\ Data!End(h, "query")
  BY DEF Data!QueryFails, DataQuiet, DataTables, Data!history
<1>1. onDesk \in BOOLEAN
  BY <1>0, DataUnderWay
<1> QED
  BY <1>0, <1>1, DataHookEnds DEF DataOutcomes
-----------------------------------------------------------------------------
(* The steps that write the tables.                                        *)

LEMMA DataAllParts ==
    ASSUME Data!IInv
    PROVE  /\ Data!TypeOK /\ DataTablesOK /\ DataOpsOK
           /\ \A g \in Hooks : DataRecordOK(hook[g]) /\ DataCalmRecord(hook[g])
                 /\ DataMergedRecord(hook[g])
BY DataParts DEF DataByPart

LEMMA DataPostStep ==
    ASSUME Data!IInv, NEW h \in Hooks, Data!Post(h)
    PROVE  Data!IInv'
<1> DEFINE o == hook[h]
<1>0. /\ o.pc = "setting" /\ o.target \in {"sentiment", "reply"}
      /\ posted' = posted \union {o.target} /\ Data!End(h, "over")
      /\ UNCHANGED DataTables /\ UNCHANGED <<onDesk, callbacks, switches>>
  BY DEF Data!Post, Data!At, DataTables, Data!history
<1>1. Data!TypeOK /\ DataTablesOK /\ DataOpsOK
      /\ \A g \in Hooks : DataRecordOK(hook[g]) /\ DataCalmRecord(hook[g])
            /\ DataMergedRecord(hook[g])
  BY DataAllParts
<1> PICK r : r = hook'[h]
  OBVIOUS
<1>2. DataAlone(h) /\ r.pc = "done" /\ r.op = o.op /\ r.flow = o.flow /\ r.at = o.at
      /\ r.gone = o.gone /\ r.outcome = "over"
  BY <1>0, <1>1, DataEndFields DEF DataOutcomes
<1>3. row # <<>> /\ o.gone = FALSE /\ (o.op = "none" <=> FALSE) /\ o.op \in Data!Ops
  BY <1>0, <1>1, DataUnderWay DEF DataRecordOK, Data!HookState, Data!Ops
<1>4. Data!TypeOK'
  BY <1>0, <1>1, <1>2 DEF Data!TypeOK, DataAlone, DataTables
<1>5. DataTablesOK'
  <2>1. DataCalmTables'
    <3>1. SUFFICES ASSUME NEW f \in Flows \ deleted, received, ~disturbed, active = {f},
                          "sentiment" \in posted'
                   PROVE  Graph[f].receive = "sentiment"
      BY <1>0, <1>1 DEF DataTablesOK, DataCalmTables, DataTables
    <3>2. CASE "sentiment" \in posted
      BY <1>1, <3>1, <3>2 DEF DataTablesOK, DataCalmTables
    <3>3. CASE o.target = "sentiment"
      <4>1. o.flow = f
        BY <1>0, <1>1, <3>1 DEF DataCalmRecord, Data!Looked
      <4> QED
        BY <1>0, <1>1, <3>3, <4>1 DEF DataRecordOK
    <3> QED
      BY <1>0, <3>1, <3>2, <3>3
  <2> QED
    BY <1>0, <1>1, <1>3, <2>1 DEF DataTablesOK, Data!OneRow, Data!FieldsLostOnlyInRaces,
           DataTables
<1>6. DataOpsOK'
  <2>1. \A g \in Hooks : hook'[g].op = hook[g].op
    BY <1>2 DEF DataAlone
  <2> QED
    BY <1>0, <1>1, <2>1 DEF DataOpsOK, DataTables
<1>7. ASSUME NEW g \in Hooks
      PROVE DataRecordOK(hook[g])' /\ DataCalmRecord(hook[g])' /\ DataMergedRecord(hook[g])'
  <2> PICK x : x = hook'[g]
    OBVIOUS
  <2>1. DataRecordOK(x)'
    <3>1. CASE g = h
      BY <1>0, <1>2, <1>3, <3>1, <1>1 DEF DataRecordOK, Data!Ops, DataTables, Data!Looked
    <3>2. CASE g # h
      <4>1. DataRecordOK(x)
        BY <1>1, <1>2, <3>2 DEF DataAlone
      <4> QED
        BY <1>0, <4>1 DEF DataRecordOK, DataTables
    <3> QED
      BY <3>1, <3>2
  <2>2. DataCalmRecord(x)'
    BY <1>0, <1>1, <1>2 DEF DataCalmRecord, DataTables, DataAlone, Data!Looked
  <2>3. DataMergedRecord(x)'
    BY <1>0, <1>1, <1>2 DEF DataMergedRecord, DataTables, DataAlone, Data!RowsOf
  <2> QED
    BY <2>1, <2>2, <2>3
<1> QED
  BY <1>4, <1>5, <1>6, <1>7, DataNextParts DEF DataByPart

LEMMA DataStopHotQueueStep ==
    ASSUME Data!IInv, Data!StopHotQueue \/ Data!Rest PROVE Data!IInv'
<1>0. UNCHANGED DataTables /\ UNCHANGED <<posted, hook, callbacks, switches>>
      /\ onDesk' \in BOOLEAN
  BY DataAllParts DEF Data!StopHotQueue, Data!Rest, Data!vars, Data!history, DataTables,
         Data!TypeOK
<1>1. Data!TypeOK /\ DataTablesOK /\ DataOpsOK
      /\ \A g \in Hooks : DataRecordOK(hook[g]) /\ DataCalmRecord(hook[g])
            /\ DataMergedRecord(hook[g])
  BY DataAllParts
<1>2. Data!TypeOK'
  BY <1>0, <1>1 DEF Data!TypeOK, DataTables
<1>3. DataTablesOK' /\ DataOpsOK'
  BY <1>0, <1>1 DEF DataTablesOK, DataOpsOK, DataTables, Data!OneRow,
         Data!FieldsLostOnlyInRaces, DataCalmTables
<1>4. ASSUME NEW g \in Hooks
      PROVE DataRecordOK(hook[g])' /\ DataCalmRecord(hook[g])' /\ DataMergedRecord(hook[g])'
  BY <1>0, <1>1 DEF DataRecordOK, DataCalmRecord, DataMergedRecord, DataTables,
         Data!RowsOf
<1> QED
  BY <1>2, <1>3, <1>4, DataNextParts DEF DataByPart

(* Before the message nothing is known; after it every change disturbs.    *)
LEMMA DataSwitchStep ==
    ASSUME Data!IInv, NEW A \in SUBSET Flows, NEW D \in SUBSET Flows, deleted \subseteq D,
           Data!Switch(A, D), MaxSwitches \in Nat
    PROVE  Data!IInv'
<1>0. /\ active' = A /\ deleted' = D /\ disturbed' = (disturbed \/ received)
      /\ switches' = switches + 1 /\ switches < MaxSwitches
      /\ UNCHANGED <<row, onDesk, received, posted, hook, written, raced, callbacks>>
  BY DEF Data!Switch
<1>1. Data!TypeOK /\ DataTablesOK /\ DataOpsOK
      /\ \A g \in Hooks : DataRecordOK(hook[g]) /\ DataCalmRecord(hook[g])
            /\ DataMergedRecord(hook[g])
  BY DataAllParts
<1>2. Data!TypeOK'
  <2>1. switches' \in 0..MaxSwitches /\ disturbed' \in BOOLEAN
    BY <1>0, <1>1 DEF Data!TypeOK
  <2> QED
    BY <1>0, <1>1, <2>1 DEF Data!TypeOK
<1>3. DataTablesOK' /\ DataOpsOK'
  BY <1>0, <1>1 DEF DataTablesOK, DataOpsOK, Data!OneRow, Data!FieldsLostOnlyInRaces,
         DataCalmTables, Data!TypeOK
<1>4. ASSUME NEW g \in Hooks
      PROVE DataRecordOK(hook[g])' /\ DataCalmRecord(hook[g])' /\ DataMergedRecord(hook[g])'
  <2>1. DataRecordOK(hook[g])'
    BY <1>0, <1>1 DEF DataRecordOK
  <2>2. DataCalmRecord(hook[g])' /\ DataMergedRecord(hook[g])'
    BY <1>0, <1>1 DEF DataCalmRecord, DataMergedRecord, Data!RowsOf, Data!TypeOK
  <2> QED
    BY <2>1, <2>2
<1> QED
  BY <1>2, <1>3, <1>4, DataNextParts DEF DataByPart

LEMMA DataCreateMessageStep ==
    ASSUME Data!IInv, NEW h \in Hooks, Data!CreateMessage(h)
    PROVE  Data!IInv'
<1>1. Data!TypeOK /\ DataTablesOK /\ DataOpsOK
      /\ \A g \in Hooks : DataRecordOK(hook[g]) /\ DataCalmRecord(hook[g])
            /\ DataMergedRecord(hook[g])
  BY DataAllParts
<1>0. /\ ~received /\ received' = TRUE /\ Data!Begin(h, "receive", "queue")
      /\ UNCHANGED callbacks
  BY DEF Data!CreateMessage
<1> PICK r : r = hook'[h]
  OBVIOUS
<1>2. /\ DataAlone(h) /\ r.pc = "queue" /\ r.op = "receive" /\ r.at = 0 /\ r.gone = FALSE
      /\ r.outcome = "none"
      /\ UNCHANGED <<row, active, deleted, onDesk, posted, disturbed, written, raced, switches>>
  BY <1>0, <1>1, DataBeginFields DEF Data!Ops, Data!Steps
<1>3. row = <<>> /\ posted = {} /\ \A g \in Hooks : hook[g].op = "none"
  BY <1>0, <1>1 DEF DataTablesOK, DataOpsOK
<1>4. Data!TypeOK'
  BY <1>0, <1>1, <1>2 DEF Data!TypeOK, DataAlone
<1>5. DataTablesOK'
  BY <1>0, <1>1, <1>2, <1>3 DEF DataTablesOK, Data!OneRow, Data!FieldsLostOnlyInRaces,
         DataCalmTables
<1>6. DataOpsOK'
  <2>1. \A g \in Hooks \ {h} : hook'[g].op = "none"
    BY <1>2, <1>3 DEF DataAlone
  <2> QED
    BY <1>0, <2>1 DEF DataOpsOK
<1>7. ASSUME NEW g \in Hooks
      PROVE DataRecordOK(hook[g])' /\ DataCalmRecord(hook[g])' /\ DataMergedRecord(hook[g])'
  <2> PICK x : x = hook'[g]
    OBVIOUS
  <2>1. CASE g = h
    BY <1>2, <1>3, <2>1 DEF DataRecordOK, DataCalmRecord, DataMergedRecord, Data!Looked
  <2>2. CASE g # h
    <3>1. x = hook[g] /\ x.op = "none" /\ x.pc = "idle"
      BY <1>1, <1>2, <1>3, <2>2 DEF DataAlone, DataRecordOK
    <3>2. DataRecordOK(x)
      BY <1>1, <3>1
    <3>3. DataRecordOK(x)'
      BY <1>2, <3>2 DEF DataRecordOK
    <3>4. DataCalmRecord(x)' /\ DataMergedRecord(x)'
      BY <3>1, <3>2 DEF DataCalmRecord, DataMergedRecord, DataRecordOK, Data!Looked
    <3> QED
      BY <3>3, <3>4
  <2> QED
    BY <2>1, <2>2
<1> QED
  BY <1>4, <1>5, <1>6, <1>7, DataNextParts DEF DataByPart

(* A callback begins, after a service got the message.                     *)
LEMMA DataCallbackStep ==
    ASSUME Data!IInv, NEW h \in Hooks, NEW op \in {"sentiment", "agent"},
           NEW s \in {"queue", "named"}, posted # {},
           op = "sentiment" => "sentiment" \in posted,
           callbacks < MaxCallbacks, MaxCallbacks \in Nat, callbacks' = callbacks + 1,
           UNCHANGED received, Data!Begin(h, op, s)
    PROVE  Data!IInv'
<1>1. Data!TypeOK /\ DataTablesOK /\ DataOpsOK
      /\ \A g \in Hooks : DataRecordOK(hook[g]) /\ DataCalmRecord(hook[g])
            /\ DataMergedRecord(hook[g])
  BY DataAllParts
<1> PICK r : r = hook'[h]
  OBVIOUS
<1>2. /\ DataAlone(h) /\ r.pc = s /\ r.op = op /\ r.at = 0 /\ r.gone = FALSE
      /\ r.outcome = "none"
      /\ UNCHANGED <<row, active, deleted, onDesk, posted, disturbed, written, raced, switches>>
  BY <1>1, DataBeginFields DEF Data!Ops, Data!Steps
<1>3. row # <<>> /\ received
  BY <1>1 DEF DataTablesOK
<1>4. Data!TypeOK'
  <2>1. callbacks' \in 0..MaxCallbacks
    BY <1>1 DEF Data!TypeOK
  <2> QED
    BY <1>1, <1>2, <2>1 DEF Data!TypeOK, DataAlone
<1>5. DataTablesOK'
  BY <1>1, <1>2 DEF DataTablesOK, Data!OneRow, Data!FieldsLostOnlyInRaces, DataCalmTables
<1>6. DataOpsOK'
  BY <1>1, <1>2, <1>3 DEF DataOpsOK, DataAlone
<1>7. ASSUME NEW g \in Hooks
      PROVE DataRecordOK(hook[g])' /\ DataCalmRecord(hook[g])' /\ DataMergedRecord(hook[g])'
  <2> PICK x : x = hook'[g]
    OBVIOUS
  <2>1. CASE g = h
    BY <1>2, <1>3, <2>1 DEF DataRecordOK, DataCalmRecord, DataMergedRecord, Data!Looked
  <2>2. CASE g # h
    <3>1. DataRecordOK(x) /\ DataCalmRecord(x) /\ DataMergedRecord(x)
      BY <1>1, <1>2, <2>2 DEF DataAlone
    <3>2. DataRecordOK(x)'
      BY <1>2, <3>1 DEF DataRecordOK
    <3>3. DataCalmRecord(x)' /\ DataMergedRecord(x)'
      BY <1>2, <3>1 DEF DataCalmRecord, DataMergedRecord, Data!RowsOf
    <3> QED
      BY <3>2, <3>3
  <2> QED
    BY <2>1, <2>2
<1> QED
  BY <1>4, <1>5, <1>6, <1>7, DataNextParts DEF DataByPart

LEMMA DataUpdateDataStep ==
    ASSUME Data!IInv, NEW h \in Hooks, Data!UpdateData(h)
    PROVE  Data!IInv'
<1> DEFINE o == hook[h]
           F == Data!Fresh(o.op)
           D == o.seen \union F
           i == o.at
<1>1. Data!TypeOK /\ DataTablesOK /\ DataOpsOK
      /\ \A g \in Hooks : DataRecordOK(hook[g]) /\ DataCalmRecord(hook[g])
            /\ DataMergedRecord(hook[g])
  BY DataAllParts
<1>0. /\ o.pc = "write" /\ row' = [row EXCEPT ![i].data = D]
      /\ written' = written \union F
      /\ raced' = (raced \/ \E g \in Hooks \ {h} : hook[g].pc = "write")
      /\ Data!Goto(h, "node")
      /\ UNCHANGED <<active, deleted, onDesk, received, posted, disturbed, callbacks, switches>>
  BY DEF Data!UpdateData, Data!At
<1>2. o \in Data!HookState /\ o.op \in Data!Ops
  BY <1>0, DataUnderWay
<1>3. i \in DOMAIN row /\ F \in SUBSET Data!Fields /\ D \in SUBSET Data!Fields
      /\ (~raced => o.seen = row[i].data)
  BY <1>0, <1>1, <1>2 DEF DataRecordOK, DataMergedRecord, Data!HookState, Data!Fresh,
         Data!Fields, Data!Ops
<1>4. /\ row' \in Seq(Data!RowType) /\ Len(row') = Len(row) /\ DOMAIN row' = DOMAIN row
      /\ \A k \in DOMAIN row : row'[k].flow = row[k].flow
      /\ row'[i].data = D /\ \A k \in DOMAIN row \ {i} : row'[k] = row[k]
  BY <1>0, <1>1, <1>3, DataUpdatedRow
<1> PICK r : r = hook'[h]
  OBVIOUS
<1>5. DataAlone(h) /\ r.pc = "node" /\ r.op = o.op /\ r.flow = o.flow /\ r.at = o.at
      /\ r.gone = o.gone /\ r.outcome = o.outcome
  BY <1>0, <1>1, DataGotoFields DEF Data!Steps
<1>6. row # <<>> /\ row' # <<>>
  BY <1>1, <1>3, <1>4 DEF Data!TypeOK
<1>7. \A f : Data!RowsOf(f)' = Data!RowsOf(f)
  BY <1>4 DEF Data!RowsOf
<1>8. F = Data!Fresh(r.op) /\ (raced' \in BOOLEAN) /\ (raced => raced')
      /\ (~raced' => \A g \in Hooks \ {h} : hook[g].pc # "write")
  BY <1>0, <1>1, <1>5 DEF Data!TypeOK
<1>a. o.gone = FALSE /\ o.outcome = "none" /\ o.flow \in Flows
  BY <1>0, <1>1, <1>2 DEF DataRecordOK, Data!HookState, Data!Looked
<1> HIDE DEF F, D, i
<1>9. Data!TypeOK'
  BY <1>0, <1>1, <1>3, <1>4, <1>5, <1>8 DEF Data!TypeOK, DataAlone
<1>10. DataTablesOK'
  <2>1. Data!OneRow' /\ DataCalmTables'
    BY <1>0, <1>1, <1>4 DEF DataTablesOK, Data!OneRow, DataCalmTables
  <2>2. Data!FieldsLostOnlyInRaces'
    <3>1. SUFFICES ASSUME ~raced', NEW f \in written'
                   PROVE  \E k \in DOMAIN row : f \in row'[k].data
      BY <1>4 DEF Data!FieldsLostOnlyInRaces
    <3>2. CASE f \in F
      BY <1>3, <1>4, <3>2 DEF D
    <3>3. CASE f \in written
      <4>1. PICK k \in DOMAIN row : f \in row[k].data
        BY <1>1, <1>8, <3>1, <3>3 DEF DataTablesOK, Data!FieldsLostOnlyInRaces
      <4>2. CASE k = i
        BY <1>3, <1>4, <1>8, <3>1, <4>1, <4>2 DEF D
      <4>3. CASE k # i
        BY <1>4, <4>1, <4>3
      <4> QED
        BY <4>2, <4>3
    <3> QED
      BY <1>0, <3>1, <3>2, <3>3
  <2> QED
    BY <1>0, <1>1, <1>6, <2>1, <2>2 DEF DataTablesOK
<1>11. DataOpsOK'
  <2>1. \A g \in Hooks : hook'[g].op = hook[g].op
    BY <1>5 DEF DataAlone
  <2> QED
    BY <1>0, <1>1, <2>1 DEF DataOpsOK
<1>12. ASSUME NEW g \in Hooks
       PROVE DataRecordOK(hook[g])' /\ DataCalmRecord(hook[g])' /\ DataMergedRecord(hook[g])'
  <2> PICK x : x = hook'[g]
    OBVIOUS
  <2>1. CASE g = h
    <3>1. DataRecordOK(x)'
      BY <1>0, <1>1, <1>2, <1>5, <1>6, <1>a, <2>1 DEF DataRecordOK, Data!Looked, Data!Ops
    <3>2. DataCalmRecord(x)'
      BY <1>0, <1>1, <1>5, <1>a, <2>1 DEF DataCalmRecord, Data!Looked
    <3>3. DataMergedRecord(x)'
      BY <1>0, <1>5, <1>8, <2>1 DEF DataMergedRecord
    <3> QED
      BY <3>1, <3>2, <3>3
  <2>2. CASE g # h
    <3>0. x = hook[g]
      BY <1>5, <2>2 DEF DataAlone
    <3>1. DataRecordOK(x) /\ DataCalmRecord(x) /\ DataMergedRecord(x)
      BY <1>1, <3>0
    <3>2. DataRecordOK(x)'
      BY <1>0, <1>4, <1>6, <3>1 DEF DataRecordOK
    <3>3. DataCalmRecord(x)'
      BY <1>0, <3>1 DEF DataCalmRecord
    <3>4. DataMergedRecord(x)'
      BY <1>0, <1>7, <1>8, <2>2, <3>0, <3>1 DEF DataMergedRecord
    <3> QED
      BY <3>2, <3>3, <3>4
  <2> QED
    BY <2>1, <2>2
<1> QED
  BY <1>9, <1>10, <1>11, <1>12, DataNextParts DEF DataByPart

LEMMA DataCreateDataStep ==
    ASSUME Data!IInv, NEW h \in Hooks, Data!CreateData(h)
    PROVE  Data!IInv'
<1> DEFINE o == hook[h]
           F == Data!Fresh(o.op)
<1>1. Data!TypeOK /\ DataTablesOK /\ DataOpsOK
      /\ \A g \in Hooks : DataRecordOK(hook[g]) /\ DataCalmRecord(hook[g])
            /\ DataMergedRecord(hook[g])
  BY DataAllParts
<1>0. /\ o.pc = "insert" /\ row' = Append(row, [flow |-> o.flow, data |-> F])
      /\ written' = written \union F /\ Data!Goto(h, "node")
      /\ UNCHANGED <<active, deleted, onDesk, received, posted, disturbed, raced, callbacks,
                     switches>>
  BY DEF Data!CreateData, Data!At
<1>2. o.op = "receive" /\ row = <<>> /\ posted = {} /\ received /\ o.flow \in Flows
      /\ o.gone = FALSE /\ o.outcome = "none" /\ F = {"message"}
  BY <1>0, <1>1, DataUnderWay DEF DataRecordOK, Data!HookState, Data!Looked, Data!Fresh,
         DataTablesOK
<1>3. /\ row' \in Seq(Data!RowType) /\ Len(row') = 1 /\ DOMAIN row' = {1}
      /\ row'[1].flow = o.flow /\ row'[1].data = {"message"}
  BY <1>0, <1>2, DataInsertedRow DEF Data!Fields
<1> PICK r : r = hook'[h]
  OBVIOUS
<1>4. DataAlone(h) /\ r.pc = "node" /\ r.op = o.op /\ r.flow = o.flow /\ r.at = o.at
      /\ r.gone = o.gone /\ r.outcome = o.outcome
  BY <1>0, <1>1, DataGotoFields DEF Data!Steps
<1>5. \A g \in Hooks \ {h} : hook'[g] = hook[g] /\ hook[g].op = "none" /\ hook[g].pc = "idle"
  <2>1. ASSUME NEW g \in Hooks \ {h}
        PROVE hook[g].op \notin {"receive", "sentiment", "agent"} /\ hook[g] \in Data!HookState
    BY <1>1, <1>2 DEF DataOpsOK, DataRecordOK, Data!TypeOK
  <2>2. \A g \in Hooks \ {h} : hook[g].op = "none"
    BY <2>1 DEF Data!HookState, Data!Ops
  <2> QED
    BY <1>1, <1>4, <2>2 DEF DataRecordOK, DataAlone
<1>6. row' # <<>>
  BY <1>3
<1> HIDE DEF F
<1>7. Data!TypeOK'
  <2>1. \A g \in Hooks : hook'[g].at \in {0} \union DOMAIN row'
    <3>1. \A g \in Hooks : hook[g].at \in {0}
      BY <1>1, <1>2 DEF Data!TypeOK
    <3> QED
      BY <1>4, <3>1 DEF DataAlone
  <2>2. written' \subseteq Data!Fields
    BY <1>0, <1>1, <1>2 DEF Data!TypeOK, Data!Fields
  <2> QED
    BY <1>0, <1>1, <1>3, <1>4, <2>1, <2>2 DEF Data!TypeOK, DataAlone
<1>8. DataTablesOK'
  <2>1. Data!OneRow'
    BY <1>3 DEF Data!OneRow
  <2>2. DataCalmTables'
    <3>1. ASSUME NEW f \in Flows \ deleted, received, ~disturbed, active = {f}
          PROVE  o.flow = f
      BY <1>0, <1>1, <3>1 DEF DataCalmRecord, Data!Looked
    <3> QED
      BY <1>0, <1>2, <1>3, <3>1 DEF DataCalmTables
  <2>3. Data!FieldsLostOnlyInRaces'
    <3>1. ASSUME ~raced PROVE written = {}
      BY <1>1, <1>2, <3>1 DEF DataTablesOK, Data!FieldsLostOnlyInRaces
    <3> QED
      BY <1>0, <1>2, <1>3, <3>1 DEF Data!FieldsLostOnlyInRaces
  <2> QED
    BY <1>0, <1>2, <1>6, <2>1, <2>2, <2>3 DEF DataTablesOK
<1>9. DataOpsOK'
  BY <1>0, <1>2, <1>5 DEF DataOpsOK
<1>10. ASSUME NEW g \in Hooks
       PROVE DataRecordOK(hook[g])' /\ DataCalmRecord(hook[g])' /\ DataMergedRecord(hook[g])'
  <2> PICK x : x = hook'[g]
    OBVIOUS
  <2>1. CASE g = h
    <3>1. DataRecordOK(x)'
      BY <1>2, <1>4, <1>6, <2>1 DEF DataRecordOK, Data!Looked
    <3>2. DataCalmRecord(x)'
      BY <1>0, <1>1, <1>2, <1>4, <2>1 DEF DataCalmRecord, Data!Looked
    <3>3. DataMergedRecord(x)'
      BY <1>0, <1>4, <2>1 DEF DataMergedRecord, F
    <3> QED
      BY <3>1, <3>2, <3>3
  <2>2. CASE g # h
    <3>0. x = hook[g] /\ x.op = "none" /\ x.pc = "idle"
      BY <1>5, <2>2
    <3>1. DataRecordOK(x) /\ DataCalmRecord(x)
      BY <1>1, <3>0
    <3>2. DataRecordOK(x)'
      BY <1>0, <3>0, <3>1 DEF DataRecordOK, Data!Looked
    <3>3. DataCalmRecord(x)' /\ DataMergedRecord(x)'
      BY <1>0, <3>0, <3>1 DEF DataCalmRecord, DataMergedRecord
    <3> QED
      BY <3>2, <3>3
  <2> QED
    BY <2>1, <2>2
<1> QED
  BY <1>7, <1>8, <1>9, <1>10, DataNextParts DEF DataByPart
-----------------------------------------------------------------------------
(* The invariant holds from the start on.                                  *)

LEMMA DataInitIInv == ASSUME Data!BoundAssumption, Data!Init PROVE Data!IInv
<1>1. Data!TypeOK
  <2>1. row \in Seq(Data!RowType) /\ DOMAIN row = {}
    BY DEF Data!Init
  <2>2. hook \in [Hooks -> Data!HookState] /\ \A h \in Hooks : hook[h].at = 0
    BY DataIdleType DEF Data!Init
  <2>3. callbacks \in 0..MaxCallbacks /\ switches \in 0..MaxSwitches
    BY DEF Data!BoundAssumption, Data!Init
  <2> QED
    BY <2>1, <2>2, <2>3 DEF Data!Init, Data!TypeOK
<1>2. DataTablesOK
  BY DEF Data!Init, DataTablesOK, Data!OneRow, Data!FieldsLostOnlyInRaces, DataCalmTables
<1>3. DataOpsOK
  BY DataIdleType DEF Data!Init, DataOpsOK
<1>4. ASSUME NEW h \in Hooks
      PROVE  DataRecordOK(hook[h]) /\ DataCalmRecord(hook[h]) /\ DataMergedRecord(hook[h])
  <2>1. hook[h] = Data!Idle /\ row = <<>> /\ ~received
    BY DEF Data!Init
  <2> QED
    BY <2>1, DataIdleType DEF DataRecordOK, DataCalmRecord, DataMergedRecord, Data!Looked
<1> QED
  BY <1>1, <1>2, <1>3, <1>4, DataParts DEF DataByPart

LEMMA DataNextIInv == ASSUME Data!DrawnAssumption, Data!BoundAssumption, Data!IInv,
       Data!Next PROVE Data!IInv'
<1>0. Data!TypeOK
  BY DataAllParts
<1> USE DEF Data!BoundAssumption
<1>1. ASSUME NEW h \in Hooks, Data!CalculateSentiment(h) PROVE Data!IInv'
  BY <1>1, DataCallbackStep DEF Data!CalculateSentiment
<1>2. ASSUME NEW h \in Hooks, Data!NotifyAgent(h) PROVE Data!IInv'
  BY <1>2, DataCallbackStep DEF Data!NotifyAgent
<1>3. ASSUME NEW f \in Flows,
       Data!UpdateActivation(f) \/ Data!DeleteWorkflow(f) PROVE Data!IInv'
  <2>1. deleted \subseteq Flows /\ active \subseteq Flows
    BY <1>0 DEF Data!TypeOK
  <2>2. CASE Data!UpdateActivation(f)
    BY <1>3, <2>1, <2>2, DataSwitchStep DEF Data!UpdateActivation
  <2>3. CASE Data!DeleteWorkflow(f)
    BY <1>3, <2>1, <2>3, DataSwitchStep DEF Data!DeleteWorkflow
  <2> QED
    BY <1>3, <2>2, <2>3
<1>4. CASE Data!DeactivateAllWorkflow
  <2>1. deleted \subseteq Flows /\ {} \subseteq Flows
    BY <1>0 DEF Data!TypeOK
  <2> QED
    BY <1>4, <2>1, DataSwitchStep DEF Data!DeactivateAllWorkflow
<1> QED
  BY <1>1, <1>2, <1>3, <1>4, DataCreateMessageStep, DataGetNamedWorkflowStep,
     DataFindUserInHotQueueStep, DataFindWorkflowByTabIdStep, DataGetWorkflowDataStep,
     DataUpdateDataStep, DataGetSocialTabInfoStep, DataCreateDataStep,
     DataFindNextNodeStep, DataLoadStep, DataPostStep, DataGetWorkflowByIdStep,
     DataAddToHotQueueStep, DataAnnounceStep, DataQueryFailsStep, DataStopHotQueueStep
     DEF Data!Next

LEMMA DataStutterIInv == ASSUME Data!IInv, UNCHANGED Data!vars PROVE Data!IInv'
<1>1. DataByPart
  BY DataParts
<1>2. UNCHANGED DataTables /\ UNCHANGED <<posted, hook, callbacks, switches, onDesk>>
  BY DEF Data!vars, Data!history, DataTables
<1>3. Data!TypeOK'
  BY <1>1, <1>2 DEF DataByPart, Data!TypeOK, DataTables
<1>4. DataTablesOK' /\ DataOpsOK'
  BY <1>1, <1>2 DEF DataByPart, DataTablesOK, DataOpsOK, DataTables, Data!OneRow,
         Data!FieldsLostOnlyInRaces, DataCalmTables
<1>5. ASSUME NEW g \in Hooks
      PROVE DataRecordOK(hook[g])' /\ DataCalmRecord(hook[g])' /\ DataMergedRecord(hook[g])'
  BY <1>1, <1>2 DEF DataByPart, DataRecordOK, DataCalmRecord, DataMergedRecord,
         DataTables, Data!RowsOf
<1> QED
  BY <1>3, <1>4, <1>5, DataNextParts DEF DataByPart

(* IInv is inductive (TLC checks it on a small instance).                  *)
THEOREM DataInvariance ==
    ASSUME Data!DrawnAssumption, Data!BoundAssumption
    PROVE  Data!Spec => []Data!IInv
<1>1. Data!Init => Data!IInv
  BY DataInitIInv
<1>2. Data!IInv /\ [Data!Next]_(Data!vars) => Data!IInv'
  BY DataNextIInv, DataStutterIInv
<1> QED
  BY <1>1, <1>2, PTL DEF Data!Spec

(* The rows and local variables have the types the code gives them: a hook *)
(* always writes to a row that exists.                                     *)
THEOREM DataIsTyped == Data!Spec => []Data!TypeOK
<1>1. Data!IInv => Data!TypeOK
  BY DEF Data!IInv
<1> QED
  BY <1>1, DataInvariance, DataAssumption, PTL

(* However many hooks and callbacks interleave with changes to the         *)
(* workflows, a field that a callback stored is in a row and a service is  *)
(* called with the message and what its callback brought, unless two       *)
(* updates of the row overlapped (updateData, callService).                *)
THEOREM FieldsAreKept == Data!Spec => []FieldsReachTheServices
<1>1. Data!IInv => FieldsReachTheServices
  BY DEF Data!IInv, FieldsReachTheServices, Data!FieldsReachTheServices
<1> QED
  BY <1>1, DataInvariance, DataAssumption, PTL

(* A message never has a second WorkflowData row; while one workflow is    *)
(* active and untouched no callback fails to find its row or its node; and *)
(* a customer is put on the desk unheard only by a deleted workflow        *)
(* (tryCallHook, callService).                                             *)
THEOREM CallbacksMeetTheirRow == Data!Spec => []CallbacksFindTheirRow
<1>1. ASSUME Data!IInv PROVE Data!ErrorsNeedASwitch
  <2>1. \A h \in Hooks : DataRecordOK(hook[h]) /\ DataCalmRecord(hook[h])
    BY <1>1, DataAllParts
  <2>2. Data!TypeOK /\ DataOpsOK
    BY <1>1, DataAllParts
  <2>3. SUFFICES ASSUME NEW h \in Hooks, hook[h].outcome = "error", ~disturbed,
                        NEW f \in Flows \ deleted, active = {f}
                 PROVE  FALSE
    BY DEF Data!ErrorsNeedASwitch
  <2>4. received
    BY <2>1, <2>2, <2>3 DEF DataRecordOK, DataOpsOK
  <2> QED
    BY <2>1, <2>3, <2>4 DEF DataCalmRecord
<1>2. Data!IInv => CallbacksFindTheirRow
  BY <1>1 DEF Data!IInv, CallbacksFindTheirRow, Data!CallbacksFindTheirRow
<1> QED
  BY <1>2, DataInvariance, DataAssumption, PTL
=============================================================================
