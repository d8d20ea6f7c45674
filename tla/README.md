# Verification of the Social Listening backend

TLA+ models of the parts of this NestJS backend in which several requests,
socket events, queue jobs and process restarts meet over the same rows, with TLC
runs and TLAPS proofs. Paths below are relative to `src/src/` of the repository
(`prisma/schema.prisma` is beside it).

The program is one Node.js process: one event loop, a SQL database behind
Prisma, Bull queues in Redis, socket.io towards the browsers and an external bot
service behind HTTP. Code between two `await`s is atomic; every awaited query
is a point at which other requests run. The program opens no transaction, takes
no lock and has few unique constraints, so **the order of awaited queries is the
concurrency of this system**. That is what every module models: a request is a
slot, `pc` is the query it awaits next, the local variables that live across
awaits are a record, and a query is one action.

## Inventory

| Component | State | Operations | Talks to | Module |
|---|---|---|---|---|
| Message and comment intake (`modules/message`, `modules/socialMessage`) | Message, SocialMessage, MessageReplied | createMessage, saveMessage, calculateSentiment | senders, hook, hot queue | `HotQueue` |
| Workflow hook (`workflows/services/workflow.service.ts`) | reads graph; WorkflowData | tryCallHook, callService, notifyAgent | bot service, hot queue | `HotQueue`, `WorkflowEditor` |
| Hot queue: the agents' desk (`hotQueue*.service.ts`, `workflow.gateway.ts`) | UserInHotQueue, HotQueueMessage | addToHotQueue, checkThenSaveMessage, startHotQueue, stopHotQueue | intake, sockets | `HotQueue` |
| Socket registry (`sockets`, `notification.gateway.ts`) | SocketConnection, open sockets | handleConnection, handleDisconnect | notifications | `SocketRegistry` |
| Notification delivery (`notifications`, `queue/workers/notification.worker.ts`) | Notification, Bull queue `notification` | createNotification, pushNotification, receiveNotification | socket registry, Redis | `Notifications` |
| Tab membership (`users/services/userInTab.service.ts`) | UserInTab | assignUsers, unassignUsers, updateRoleUser | rooms, guards | `TabMembership` |
| Workflow editor (`workflow*.service.ts`, `workflow.controller.ts`) | Workflow, WorkflowNode, WorkflowEdge | create, update, activate, delete | hook | `WorkflowEditor` |
| Workflow data (`workflowData.service.ts`) | WorkflowData | updateData, and the reads of hooks and callbacks | hook, editor | `WorkflowData` |
| Start-up seeding (`startup.service.ts`) | Setting, Role, User, Permission, Role_Permission | onModuleInit | everything | `Startup` |
| Roles and permissions (`roles`, `permission`) | Role, Permission, Role_Permission | assign, remove | start-up, guards | `Startup` |
| Accounts (`auth`, `token`, `users`) | User, Token, SocialGroup, UserInGroup | register, confirm, login, recover, employees | e-mail queue | `Accounts`, `AccountLinks` |
| E-mail queue (`mail`, `queue/workers/email.worker.ts`) | Bull queue `email` | sendEmail, onFailed | mail server | `EmailQueue` |
| User import (`queue/workers/importUser.worker.ts`, `user.service.ts` importData) | Bull queue `importUser`, User, UserInGroup | importUser | accounts, notifications | `ImportUsers` |
| Senders and posts (`socialSender`, `socialPost.service.ts`) | SocialSender, SocialPost | find-or-create | intake | `SenderRegistry` |
| Networks and tabs (`socialNetworks`, `socialGroups`) | SocialNetwork, SocialTab, UserInTab | connect, pause, disconnect | intake, membership, settings | `TabLifecycle` |
| Settings (`settings`, `socialGroups`) | Setting, SocialTabSetting | created by start-up and connect; update | start-up, intake | `Startup`, `TabLifecycle` |
| Dashboard (`dashboard`) | none; counts rows | getLineChart, getPieChart | intake, desk | `Dashboard` |
| Listings, paging, export | none | conversations and their pages; filters, other pages, export | intake | `Conversations`, in part |
| Activity and social logs, files, mail templates | append-only records, files | | | no |

What makes each part correct, and what is hard about it:

* **Intake, hook, desk.** Automation and agents share a customer. The bot must
  stay out of a conversation an agent has; a message must be on the desk that
  waits for it; a closed conversation must leave it, whole. Hard: the hook reads
  the queue and acts several awaits later; an insert does not look again; closing
  is two writes; the bot posts back while the message that called it is still in
  flight; an unanswered post ends the process.
* **Sockets and notifications.** A user who is online must be reachable, and a
  notification must be pushed until it is acknowledged, a bounded number of times.
  Hard: two un-awaited handlers per socket, one row per user, a delete by user,
  an un-awaited requeue, at-least-once jobs, rows that outlive the process.
* **Membership.** One membership per user and tab, one manager per tab. Hard:
  check-then-create without a constraint, a hand-over of two writes, updates by
  an id that was read before.
* **Editor.** The stored graph is the one that was drawn, one workflow of a type
  is active, and the hook runs what was drawn. Hard: delete-all then upsert-each,
  un-awaited upserts, ids chosen by the browser, activation in two writes.
* **Workflow data.** What the bot brings is kept until the next service is called
  with it. Hard: read-merge-write, and every callback looks for the active
  workflow anew.
* **Start-up and permissions.** No seed repeated, none lost, and the last request
  about a permission decides. Hard: onModuleInit is cut off anywhere, two of its
  seeds are two writes each, and assignments are answered before they run.
* **Accounts and links.** One account per address, no account half made, nobody
  in who was removed. Hard: up to four writes per request, each after a check in
  another query; links that nothing marks as used.
* **Queues.** Each mail and each row once. Hard: Bull repeats an interrupted job,
  the retry of a mail is a recursion whose answer is dropped, an import is two
  writes per row and one notification.
* **Networks, tabs, senders.** A connect is whole, a pause stops the intake, a
  customer is one sender. Hard: five writes, a toggle that negates what another
  query read, find-or-create without a unique index.
* **Dashboard and conversations.** What is counted or paged is what there is. Hard:
  several queries while rows arrive, local days against UTC days, offsets that
  were counted earlier.

## Plan

All parts of the inventory with state of their own are modelled: intake, hook and
desk first, then sockets and notifications, membership, editor, start-up,
accounts, queues, tabs, senders, dashboard, workflow data and conversations. Left:

1. An abstract `Desk` (a customer is with the bot or with the agents) that
   `HotQueue` implements while no two requests race.
2. The filters of the listings (`advancedFiltering`) beside `Dashboard`'s calendar.

## Modules

A component has a module. Where two components are run or proved side by side, a
third module puts them together and states the properties of the second under a
name of its own: `DeskAndData` (HotQueue, WorkflowData), `Notifications`
(SocketRegistry), `Inbox` (Notifications, Conversations), `Reports` (Dashboard,
TabMembership), `AccountsAndLinks` (Accounts, AccountLinks), `Workers` (EmailQueue,
ImportUsers) and `Intake` (TabLifecycle, SenderRegistry). Only in `Notifications` do
the two share state. The others are scenes of one run, or one of them rests while the
other runs: `Accounts` in `account_links`, the deliveries in `socket_registry`, the
conversations in `notifications`, the charts in `tab_membership` and the members in
`dashboard`. An inductive invariant, `IInv`, is in the module of the proofs, except
that a module which is instantiated ends with its own.

### HotQueue

Sources: `message.controller.ts` createMessage, `socialMessage.controller.ts`
saveMessage and calculateSentiment, `workflow.service.ts` tryCallHook and
callService, `workflow.controller.ts` notifyAgent, `hotQueue.service.ts`,
`hotQueueMessage.service.ts`, `workflow.gateway.ts`.

A row's id is its position in the sequence of its table. A `Key` is the
(customer, tab, type) that every hot-queue query filters on.

| Action | Code |
|---|---|
| `Receive`, `Store`, `StoreReply` | the intake up to and including the message row; a reply dies on the MessageReplied row |
| `CalculateSentiment`, `UpdateSentiment`, `NotifyAgent` | the bot's callbacks, for messages posted to it |
| `TryCallHook` | the queue lookup: automation continues only without an entry |
| `NoNextNode`, `CallBot`, `Escalate`, `HookError` | what the workflow makes of the message. Which one is nondeterministic here: the graph is `WorkflowEditor`'s |
| `AddToHotQueue`, `Announce` | the new entry, and the event to the tab's room |
| `CheckQueue`, `NoPageSender`, `SaveHotQueueMessage` | checkThenSaveMessage |
| `StartHotQueue`, `Claim`; `StopHotQueue`, `DeleteEntry`, `PurgeMessages` | the two socket events of the desk |
| `UpdateWorkingState` | the tab's owner pauses or resumes the intake |
| `Fail`, `Crash` | a rejected query; the end of the process through an unanswered post |

History fields (`checkedAt`, `seen`, `fresh`, `closedBy`, `mark`, `added`,
`torn`) remember when a row was looked for, so that a property can say *which
race* is the only way to a bad state. No guard reads them.

Properties: `HookSnapshot` (the bot stays out of a conversation that an agent
had when the hook asked), `DuplicatesOnlyFromRacingHooks`, `DeskComplete`,
`OrphansExplained` (a desk message without an entry makes getConversation fail
for the whole list), and `PurgeScoped` (a stop takes messages of its own
conversation only), which is proved; liveness `StoppedConversationsClear`.

### SocketRegistry and Notifications

`SocketRegistry` has the SocketConnection rows (primary key: the user) and, per
socket, how far handleConnection and handleDisconnect have come. `Open`,
`Register`, `Refuse` are the connect, `Close`, `FindConnection`,
`DeleteConnection`, `LeaveFails` the disconnect, which verifies the token anew
and deletes by user. `Crash` keeps the rows, as nothing at startup clears them.
Properties: which four causes leave a dead registration
(`DeadRegistrationExplained`); that an open registered socket keeps its row unless a
sibling's disconnect takes it, and in which histories a sibling can
(`RegistrationsKept`). `ending` and `evictor` are history.

`Notifications` instantiates it and adds the Notification rows, the bag of jobs
in Redis, the calls on their way there (`adding`: `queue.add` is not awaited by
the worker) and the worker's await points. A crash loses the calls, keeps the
jobs and gives the active one back once, which is what Bull does. The delay of
five seconds is not modelled: a queued job starts at any time, which includes
every real timing. Properties: `PushesBounded` (the
attempts bound the pushes, and one at most follows the acknowledgement),
`ChainUnbroken`;
liveness `EveryNotificationSettles`, `ReachableUsersAreNotified`.

### TabMembership

The UserInTab rows under assignUsers, unassignUsers (loops over pairs, each a
check and a write) and updateRoleUser (find the manager, demote, find the
target, promote). `WriteFails` is the swallowed exception of the loops, `Fail`
one that ends a request. Order within a request is left open. The history
numbers promotions, so that `TwoManagersOnlyFromRacingHandOvers` and
`VacancyExplained` can name the race or the request that went wrong.

### WorkflowEditor

Workflow rows, node and edge rows by their browser-given ids, the saves
(`SaveWorkflowData`, `RemoveAllNode`, `RemoveAllEdge`, one upsert at a time in any
order: `Promise.all`), activation (`DeactivateAllWorkflow`, `UpdateActivation`), deletion,
and the hook's five reads of a received message. `createWorkflow` awaits none of
its upserts, so the request's slot goes on in the "background". `last` is the
drawing sent last, `disturbed` the workflows something named has happened to.
`Meant` is what a drawing makes of a received message: an edge may lead to a node
that the drawing does not have, and the automation stops there. `HookFollowsDrawing`
is about hooks that met no save of their workflow (`Unmoved`: as many were sent since
as when the hook looked, none is under way, nothing disturbed its graph).

Two observations that the models are exact about: deactivateAllWorkflow has no
tab in its filter, so activating a workflow deactivates those of the same type on
*every* tab; and deleteWorkflow leaves `isActive` set while findWorkflowByTabId
does not look at `delete`, so the hook still finds a deleted workflow.

### WorkflowData

The WorkflowData row of one message: the first hook creates it (`CreateData`), the
bot's callbacks merge their field into what they read (`GetWorkflowData`,
`UpdateData`), and `Load` and `Post` send a service what the row holds. Meanwhile
`DeactivateAllWorkflow`, `UpdateActivation`, `DeleteWorkflow` and `StopHotQueue`
change what the next callback finds. A field group stands for what one caller
stores. `Graph` is what follows a node of each type in each workflow's drawing,
"none" included (`DrawnAssumption`). Properties: `FieldsReachTheServices` (a stored
field is lost only to an overlapping update, `FieldsLostOnlyInRaces`, and is sent on,
`PayloadIsComplete`) and
`CallbacksFindTheirRow` (one row over all workflows, `OneRow`; callbacks find it while
workflows are left alone, `ErrorsNeedASwitch`; a customer is put on the desk unheard
only by a deleted workflow, `UnheardOnlyOfDeleted`).

### Startup and Seeding

`Startup` is onModuleInit, group after group (`AwaitGroup` is the end of a
Promise.all), each seed a task: `Check`, `Create`, then `ActiveAccount` for the
administrator and `AssignPermissionToRole` for a permission; `InitRole`, the
un-awaited reads of UserInTabService's constructor; and, while the system is
"ready", requests that assign and remove permissions (`Request`, `Settle`). Assignments
answer before their tasks run. `ReleaseAdministrator` is the administrator's own
change of address, after which the next start creates a second one unless another user has taken
it by then (`TakeAddress`: updateAccount and importData ask nobody, and the start only
asks whether the address is there). `holder` is who has it. `Crash` keeps the tables. Properties: what an interrupted start leaves behind for good and when a
role id is unknown (`NothingMissingUnlessTorn`), and which request decides
(`LastRequestDecides`).

`Seeding` is the abstract promise: each seed has one row, planted after the rows it
refers to. `Startup` implements it with `copies` as the only variable they share:
however often and wherever a start is cut short.

### Accounts and AccountLinks

`Accounts`: User, SocialGroup and UserInGroup rows under registration, the making,
editing, removal, activation and deactivation of employees, the rows of an import,
administrators, changes of one's own address, and logins. Each endpoint begins a request (`Register`,
`EditEmployee`, ...) whose queries are steps on the way (`GetUserByEmail`, the lookup
of a group, the writes). `Lower` is the lower case that only registration applies.
Callers are what the guards let through: they look at the role's permissions and not
at whether the caller was removed. `ImportData` is the worker's side of an upload:
`NextRow` takes an address of the sheet and goes straight to `InsertUser`, for
importData calls createEmployee without getUserByEmail, and `RowFails` is the catch
inside its loop. (`ImportUsers` has the same loop seen from the queue: what is counted
and reported, and what a repeated job doubles.) Properties: two living users of one
address only where the later one's check ran before the earlier one had it, or where
nothing was checked. `checkedAt` is 0 for such writes, and there are three:
updateAccount, a row of an import, and an edit that findFirst answers with the edited
user's own row. Further, no account half made unless its request died; owners stay;
nobody removed or deactivated logs in afterwards.

`AccountLinks`: Token rows and the confirmation and recovery links that name them,
a clock, and requests that are slow between the age check and the write. A link dies
twice, of its row's age and of its signature's. Properties: a dead link has no
effect; an account that its owner registered is active only if its address was
confirmed, unless that was changed since. The users here are such accounts:
createEmployee makes active ones that nobody confirms, and start-up activates its
administrator itself.

### JobQueue, EmailQueue, ImportUsers

`JobQueue` is what Bull promises: one job at a time, at least once, settled for
good, given back at most `Repeats` times after an end of the process. Both workers
take its actions as the queue's part of theirs (`Queue!Start`, ...) and are shown to
implement it.

`EmailQueue` has the recursion of sendEmail as the innermost call and its answer on
the way back; a `sendMail` may fail before or after the server took the mail.
Properties: what can double or lose a mail, and that the job's value speaks of the
first attempt only, because the recursion's answer is dropped. `ImportUsers` is the
upload, the sheet, two writes per row, the counters and the notification that stands
outside the try. Properties: reports count every row once, doubled rows come from a
repeated job, accounts without a group are among the reported failures, and when an
uploader hears nothing; liveness: every accepted file settles.

### TabLifecycle and SenderRegistry

`TabLifecycle`: the five writes of a connect (`Connect`, `CreateNewTab`,
`AddUserToTab`, the un-awaited `CreateSocialSetting`s), the toggle that writes the
negation of what it read (`UpdateWorkingState`), removal, updates of settings by row
id, the removal of the owner's membership (`UnassignUsers`), the intake's lookup of a
page's tab (`GetTabByNetworkId` looks at neither `delete` nor order, `Intake`, `Store`),
and `Crash`. `GetAllSocialTab` lists what its query does: tabs that are not removed, of
memberships that are not. A connect that answered leaves a tab its owner is shown, until
the tab is removed or the owner unassigned. `toggles`, `late` and `after` count what the
requests in flight could still do, which is what the properties bound.

`SenderRegistry`: the find-or-create of the two rows a message refers to, for any
number of overlapping handlers, with answers that may overtake the comments they
answer and events that are delivered again, which nothing in the code notices: the
message then has two rows. Properties: a key is divided among at most the handlers that
raced for its first row; answers lead to a row of their comment, and to no other
comment, in whichever order and however often both were stored.

### Dashboard and Conversations

`Dashboard`: the line and the pie chart, query by query, over a calendar `Local`
that has a time zone and a change of the clock: ranges go by local days, daily
buckets by UTC days, hourly ones by local hours. Properties: a chart of several days
adds up to the pie chart's count; what a chart of one day counts too much belongs to
other tabs; which day a range cuts; by how much the hot queue's share can exceed the
whole. A hot-queue row has an `id`, because saveHotQueueMessage does not ask whether it
has the message: a callback that runs while the intake waits for its hook saves the
message, and the intake then saves it again. `Extra` are the rows that make the share
too large: such second rows, and rows queued in the range of a message from before it.

`Conversations`: a reader who asks for a tab's list of conversations and scrolls
through one, with an offset for what came since, while messages are stored first and
announced later. How the reader counts is the web client's side and marked external.
Properties: what can make a page pass over a message or repeat one; the list has
each customer's newest message.

## Runs

A property that a run checks may be a group: the conjunction of properties of one
hazard, each of them defined and stated beside it (`RegistrationsKept`,
`DeliveriesExplained`, `LateEffectsBounded`, ...). Type invariants that TLAPS proves
are left to it, with `HotQueue`'s kept in its run; the others are part of such a group.

A run may have several *scenes*: parts of the system that share no state, or bounds
that would be too large together, of which the initial state chooses one and every
step keeps to it. A run of scenes checks each as a run of its own would.

| Run | Scenes and instance | Distinct states | What it shows |
|---|---|---|---|
| `desk_races` | *agents*: 2 requests, 1 message, 2 entries, an agent, a pausable tab. *types*: a message and a comment of one person. *data*: 1 message, 2 hooks, 2 callbacks, 2 switches between 2 workflows | 1 693 194 | the safety properties of the desk and of the workflow data |
| `desk_liveness` | 2 requests, 2 types, 2 messages, 1 entry, an agent, fair | 387 148 | closed conversations clear |
| `socket_registry` | *registry*: 3 sockets of one user, 1 of another. *conversation*: 3 messages, 2 customers, 2 rows of the page, pages of one | 965 998 | causes of dead and stolen registrations; what paging skips or repeats |
| `notifications` | 2 sockets, 1 notification, 2 attempts, 1 crash, fair | 387 451 | bounded pushes, unbroken chains, settling, delivery |
| `tab_membership` | *hand over*: 2 requests, 2 users, 1 tab, 3 promotions. *assign*: 1 user, 2 tabs, 3 rows | 340 812 | two managers, no manager, doubled memberships |
| `workflow_editor` | *draw*: 3 saves of 2 workflows sharing node ids. *activate*: 2 activations, 2 tabs, 2 types. *hook*: a hook under 2 saves and an activation | 945 861 | the stored graph, two active workflows, the hook |
| `startup` | 1 setting, 2 roles, 2 permissions, 2 crashes, 2 requests | 138 523 | what restarts repeat and mend; refines `Seeding` |
| `accounts` | *members*: 2 requests of every kind but the import, 3 users, one write of an address. *import*: an import and what happens to the account it makes meanwhile. *addresses*: 4 users, two writes of addresses that race, imports' among them; 3 addresses of which two differ in case | 1 149 250 | doubled addresses, half-made accounts, who gets in |
| `account_links` | 2 requests, 1 link, time up to 3 with an hour of 1 and a signature of 3, 1 exchange of addresses; `Accounts` rests in either of two initial states | 586 808 | dead links and confirmed addresses |
| `queues` | *mails*: 2 mails of 4 attempts. *imports*: 2 uploads of five kinds of sheet; 3 crashes each, fair | 425 704 | doubled and lost mails and rows; both refine `JobQueue` |
| `intake` | *connect*: 2 connects that fail or crash, owners unassigned. *switch*: 3 requests that toggle, remove and write. *senders*: 3 handlers, 4 events, 3 keys, or 2 events of which one is delivered again | 1 220 517 | torn connects, late effects after a pause or removal, divided customers |
| `dashboard` | *line* and *pie*: 2 tabs, days of 2 hours, one of them shortened, 2 comments, 1 message, 2 rows of the hot queue, which may be of one message | 342 579 | what charts count, and too much |

Why the bounds are enough. Every race named here is between two requests, which
is why there are two slots: one that has read and not yet acted, one that acts.
A third request repeats the race with another partner; it is there only where a
property *counts* the others in flight (`PauseStopsIntake`, `RowsPerKeyBounded`).
Two queue entries are needed to double a customer, three promotions for "a later
hand-over replaces one of two managers", three sockets for an eviction passed on
(refused, evicted, evicted again), two attempts for a requeue and the end of the
chain, two crashes for a start torn twice, three for one queue to end a job's last
run and still repeat another's, two writes of addresses for a check that comes too
early. Time
has one value before, at and after each limit. In `Conversations` three messages fill
"before the first page", "between two pages" and "not announced yet".
A bound only stops new requests from arriving and the runs complete, so deadlock
stays checked: where a model stops at its bound, a `Rest` step says so and says that
nothing is in flight. Symmetry is used over slots, sockets, users and the like that
no definition names, in runs without temporal properties.

Every property of every run has a mutant in `PROJECT.json`: a change of the kind
somebody might make to the code (a dropped check, a forgotten filter, an
un-awaited second write) under which TLC finds the property violated.

**Fairness.** `HotQueue!FairSpec` has weak fairness per slot: a query that the
database accepts is answered in the end, because the event loop serves every
settled promise. `Notifications!FairSpec`, `EmailQueue!FairSpec` and
`ImportUsers!FairSpec` (`Fairness` in the first, which `MCNotifications` puts beside
conversations at rest) have weak fairness of the worker, because Bull keeps handing
out jobs, and of calls to Redis landing. Never forced: new requests, failures, crashes, the
mail server taking a mail, a client connecting, staying or acknowledging.

**Refinement.** Three runs' properties are abstract specifications: `Startup`
implements `Seeding`, `EmailQueue` and `ImportUsers` implement `JobQueue`. The mapping
is by name: `copies`, and `state` and `runs`.

## Proofs

Proved for every value of the constants, with TLAPS (SMT, Zenon, LS4), are all safety
invariants and refinements that the runs check. The invariants are not inductive: they
say nothing of a request half-way. Each `IInv` adds what the steps may rely on, TLC has
checked it on the run's instance (that of `Conversations` on an instance of its own),
and the proofs show that the initial states have it, that every action keeps it and
that it implies the property.

* `HotQueueProofs`: `TypeOK`, `HookSnapshot`, `DuplicatesOnlyFromRacingHooks`,
  `DeskComplete`, `OrphansExplained` and `PurgeScoped` are invariants of `Spec`,
  for any number of requests, customers, tabs, agents and bounds. Assumed of the
  constants: the two types exist at most, "no agent" is no agent, bounds are
  natural numbers. `IInv` adds what each step of a request may rely on
  (`RequestOK`: it works on rows that exist, under the operation that leads
  there; `EntryOK`: a request that acts on an entry found it under its own key;
  `SnapshotOK`, `SettledOK`: the two properties at the earlier steps), and of the
  desk that a message remembers an entry of its customer (`SeenOK`) and that a
  message saved in time for an entry closed since has a stop that owes it the
  purge, or had one that died (`FreshOK`). Rows are only appended, and fields of
  rows change in two actions: most of the proof is that lengths grow and keys stay.

  Its second part is `WorkflowData`: `TypeOK`, `FieldsReachTheServices` and
  `CallbacksFindTheirRow`, for any hooks, callbacks, switches and drawings of
  `DrawnAssumption`. `IInv` adds that the row is inserted once, by the hook of the
  intake, before a service knows the message (`IntakeOK`), where in its drawing a
  hook is (`HooksOK`), that all of it is about one workflow while that one is active
  and untouched (`CalmOK`), and that a hook whose update met no other has read what
  it merges into (`MergeOK`).
* `WorkflowEditorProofs`: `TypeOK`, `GraphKept`, `TwoActiveExplained` and
  `HookFollowsDrawing`, for any drawings, saves, activations and hooks. Assumed: a
  drawing's edges are between nodes, "none" is no id. `IInv` adds, for a workflow that
  nothing disturbed, that one request saves it and which part of the drawing is
  stored by then (`SaveOK`, `DrawnSoFar`), that a request past its clearing meets
  only younger activations (`ActivationsOK`), and that a hook stands where its
  drawing leads unless a later one is being saved (`HooksOK`).
* `InboxProofs`: of the registry alone `TypeOK`, `DeadRegistrationExplained`
  and `RegistrationsKept`, for any users and sockets; its `IInv`
  adds that a row names a socket of its user, how far the two handlers of a
  socket can have come together (`SessionOK`), and that a row is made once by its
  own connect and is there until evicted (`RowOK`). Of the deliveries `TypeOK`,
  `PushesBounded` and `ChainUnbroken`, for any `MaxAttempt` and number of crashes.
  That argument counts attempts: every copy of a job, on its way to Redis or queued,
  holds the attempts it has left, and so does the worker's job; a step passes them on
  or spends one on a push, and a crash gives back one job's worth at most
  (`BudgetOK`). `WorkerOK` and `LateOK` say which pushes can still follow an
  acknowledgement. `DeliveryKeepsRegistry`: a delivery's step is the registry's or
  leaves its variables alone, so what is proved of it holds beside the worker.

  Its last part is `Conversations`: `PagesAreExact` and `ListIsComplete`, for any
  customers, messages and page sizes of `ConversationAssumption` (a page has a row, no
  customer is one of the page's rows). An order of rows newest first is what it says of
  each row: its place is one more than the number of rows that are newer (`Newer`), so
  where no two rows are of an instant there is one order, and the rows that came after
  the first page are in front of it. The offset that the browser sends moves the slice
  by the arrivals it heard of; `HeardOK` says that these are among the arrivals that
  were sent, and where none was missed they are all of them, so the slice begins where
  the last page ended in the order of the first page's rows. `ShownOK` therefore says
  that what is shown is a beginning of that order, and `PagesOK` that every page but the
  last is full, so the end of the scrolling is the end of it. The list of conversations
  is a statement about one state and needs the types alone.
* `ReportsProofs`: `ChartsCountTheirRange` and `ShareIsAPart` of `Dashboard`, for any
  tabs, rows and calendar of `TimeAssumption` and `CalendarAssumption`: hours pass one
  by one, local days in their order, each is finite, and no two of them lie within the
  hours of one. The chart of several days is a bijection between the rows of the range
  and the units shown, one bucket after the other; `IInv` says of each query what it
  has counted so far, and of the hot queue that its rows are numbered and each is of a
  stored message (`HotQueueOK`). A counted row that is none of
  `Extra` is the first of its message and the message is counted too, so these rows are
  mapped one to one into the whole. A range is compared with its local days hour by hour: a local day
  is an interval of hours, so the two differ in hours of the last day and the next.

  Its second part is `TabMembership`: `TypeOK`, `DuplicatesOnlyFromRacingAssigns`,
  `TwoManagersOnlyFromRacingHandOvers`, `VacancyExplained`, for any requests,
  users, tabs and row bound. `IInv` adds that a request acts on users and tabs it
  was called with (`RequestOK`) and on rows that it found on its tab (`EntryOK`),
  that what it read was so when it read it (`CheckOK`: the pair was not there;
  `LookOK`: managers it has not seen came later), and that no row is younger than
  the last promotion (`SinceOK`). Only a promotion adds a manager, and the newest
  one of its tab; the three writes that only take managers or rows away share a lemma.
* `StartupProofs`: `TypeOK`, `LastRequestDecides`, `NothingMissingUnlessTorn` (from
  `AdministratorActiveUnlessTorn`, `PermissionsAssignedUnlessTorn` and
  `RoleIdsKnownAfterFirstStart`), and that `Spec` implements `Seeding`, for any lists
  of seeds, any crashes and any requests. Assumed: the lists are disjoint, and the two
  roles that are read are among them. `IInv` says that a start goes through the groups
  in order (`TasksOK`: groups behind it are complete and those ahead untouched; a task
  past its create has its row), who may still owe the second write (`AdministratorOK`,
  `AssignmentOK`), that only this process's roles can be unknown to it (`RoleIdsOK`),
  and which request may still decide about a permission (`WorkOK`). The refinement
  needs `TasksOK` alone: a task creates in its own group, when lower ranks are there.
* `AccountsProofs`: `SameAddressOnlyFromRaces`, `AccountsKept` and
  `NobodyBarredLogsIn`, for any requests, imports, users and addresses. Assumed: lower case of
  lower case is itself. `IInv` says what a request knows at its step (`RequestOK`;
  `CheckOK`: whoever has the address it looked for had it later; `JoinOK`: the account
  it is making has no group yet; `MemberOK`: the one it removes or toggles is no
  owner), that no two requests make one account (`JoinersDiffer`), and that whoever is
  barred stays so while a login of his is under way (`OutOK`, `LoginsOK`).

  Its second part is `AccountLinks`: `LinksDie` and `ActiveMeansConfirmed`, for any
  lifetimes. `IInv` adds what a request has learnt of its link at each step: whoever
  passed the check of the row began within the hour, whoever decoded it within the
  signature's life, and who is to be activated has the link's address or moved since.
* `EmailQueueProofs`: `TypeOK`, `DeliveriesExplained` (from `TwoCopiesExplained`,
  `LostMailExplained` and `ValueIsFirstAttempt`), and that `Spec` implements
  `JobQueue`, for any mails, retries, repeats and crashes. `IInv` ties the call to the
  one active job (`CallIsActive`), the job's runs to the crashes (`RunsOK`), its copies
  to the errors that came late (`CopiesOK`), and the call's retryCount and answer to
  the errors of this run (`CallOK`). A worker step is then a step of the queue's job or
  leaves it alone.

  Its second part is `ImportUsers`: `ImportsExplained` and that it implements
  `JobQueue`, for any sheets. `IInv` adds that the active job is the worker's
  (`JobsOK`), that the counters agree with the rows behind it (`CountOK`), that rows
  ahead of it have no account of this run (`RowsToCome`), and for a job that runs once
  that its stray accounts are among the failures (`FirstRunOK`).
* `IntakeProofs`: `ConnectionsWholeUnlessTorn` and `LateEffectsBounded` of
  `TabLifecycle`, `SendersKept` of `SenderRegistry`. Assumed: the clients are some,
  and finitely many; events are finitely many and told apart by their id, which
  "no parent" is not. `IInv` of the first adds that rows refer to rows that exist and
  that a network gets one tab (`RowsOK`, `OneTab`), from which a connect always has its
  place in the tables (`TabsFit`), and counts what is in flight: of the toggles of a tab
  those that read another state than it has now (`Stale`), and the messages about to be
  stored. A
  toggle that takes effect makes at most the other clients' stale; every other step
  turns what was in flight into what was done (`TogglesOK`, `PausesOK`, `RemovalsOK`).
  `IInv` of the second says that a row has a handler that made it, and none made two
  of one key (`RowsMade`): the second lookup would have found the first. A key has
  therefore as many rows as there are handlers, at most.

`Inbox`, `Reports`, `Intake`, `Workers`, `AccountsAndLinks` and `DeskAndData` are where
the second part's assumptions are stated and where TLC evaluates them.

Only model-checked is liveness, which needs fairness and with it ENABLED, out of the
prover's reach: `StoppedConversationsClear`, `EveryNotificationSettles`,
`ReachableUsersAreNotified` and `EveryJobSettles`.

## Not modelled

Names, texts, attachments and times, as no guard of the modelled code depends on
them except a token's expiry, which may happen at any close. `socket.io` rooms:
what is announced to a tab's room reaches whoever is there. The order in which
`findFirst` answers is left open, as the code states none. Workflow variables are written
like nodes and read nowhere. Clicked and read-all flags of notifications are
read by no modelled code. Filters (`advancedFiltering`, filterString, filterDate),
the pages of the other tables and the export read one table in one query. Values of
settings, password hashes, refresh tokens, names of tabs and groups are single fields
of single rows that no other operation depends on. Logs, files and mail templates
are written and not read back. `getTabByNetworkId` may answer with a removed tab;
`TabLifecycle` has the step, but nothing in the repository says which tab such a
message belongs to, so no property is about it. Racing handlers can make two
sender rows of one page, and an event that is delivered again a second row of its
message: `SenderRegistry` has both, while in `HotQueue` and `Dashboard` a page has a
sender row or has none, and each stored message is a message of its own. An import's
sheet is any sequence of rows; that it has an end, and is read again when Bull repeats
the job, is `ImportUsers`'.
