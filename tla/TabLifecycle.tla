---------------------------- MODULE TabLifecycle ----------------------------
(***************************************************************************)
(* The life of a connected page: a connect creates a network, a tab, its   *)
(* settings and the owner's membership in separate queries; later requests *)
(* pause it, change its settings, remove it, take the owner off it and     *)
(* store the page's messages in it.  Who is assigned later is              *)
(* TabMembership's.                                                        *)
(*                                                                         *)
(* Requests interleave at every query.  Names, tokens and the values of    *)
(* settings are left out.                                                  *)
(*                                                                         *)
(* network, tab, setting  the rows of the three tables, in order of id     *)
(* member                 UserInTab rows the connects wrote                *)
(* request                what each client's request does next             *)
(* tasks                  settings being inserted, for which nobody waits  *)
(* crashes, toggles, messages, updates  count what the bounds limit        *)
(* torn, spoilt, done, effective, late and after are history: networks     *)
(* whose connect did not answer with them; tabs whose settings an error or *)
(* another row's update touched; per tab, the toggles written and those    *)
(* that changed its state, the messages stored while it was paused, and    *)
(* the toggles written after its removal.  No guard reads them.            *)
(***************************************************************************)
EXTENDS Naturals, Sequences, FiniteSets

CONSTANTS Clients, Users, Pages,
          Managers,     \* users who manage a group
          Keys,         \* defaultSetting
          Kinds,        \* bound: the kinds of request that arrive
          MaxNetworks, MaxToggles, MaxMessages, MaxUpdates,
          MaxCrashes    \* bounds on rows, requests and ends of the process

ASSUME LifecycleAssumption ==
    /\ Clients # {} /\ IsFiniteSet(Clients)
    /\ Managers \subseteq Users
    /\ {MaxNetworks, MaxToggles, MaxMessages, MaxUpdates, MaxCrashes} \subseteq Nat

VARIABLES network, tab, setting, member, request, tasks,
          crashes, toggles, messages, updates,
          torn, spoilt, done, effective, late, after

tables == <<network, tab, setting, member>>
bounds == <<crashes, toggles, messages, updates>>
history == <<torn, spoilt, done, effective, late, after>>
vars == <<tables, request, tasks, bounds, history>>

Tabs == 1..MaxNetworks
Idle == [pc |-> "idle"]

Init ==
    /\ network = <<>> /\ tab = <<>> /\ setting = <<>> /\ member = {}
    /\ request = [c \in Clients |-> Idle]
    /\ tasks = {}
    /\ crashes = 0 /\ toggles = 0 /\ messages = 0 /\ updates = 0
    /\ torn = {} /\ spoilt = {}
    /\ done = [t \in Tabs |-> 0]
    /\ effective = [t \in Tabs |-> 0]
    /\ late = [t \in Tabs |-> 0]
    /\ after = [t \in Tabs |-> 0]

Arrive(c, kind) == kind \in Kinds /\ request[c] = Idle
Goto(c, r) == request' = [request EXCEPT ![c] = r]
Answer(c) == Goto(c, Idle)
-----------------------------------------------------------------------------
(* connectSocialNetwork: a user without a group is refused, then four      *)
(* queries in turn.                                                        *)
Connect(c, u, page) ==
    /\ Arrive(c, "connect")
    /\ u \in Managers /\ Len(network) < MaxNetworks
    /\ network' = Append(network, page)
    /\ Goto(c, [pc |-> "tab", user |-> u, network |-> Len(network) + 1])
    /\ UNCHANGED <<tab, setting, member, tasks, bounds, history>>

(* createNewTab does not wait for addSettingToTab.                         *)
CreateNewTab(c) ==
    /\ request[c].pc = "tab"
    /\ tab' = Append(tab, [network |-> request[c].network, delete |-> FALSE,
                           isWorked |-> FALSE])
    /\ tasks' = tasks \union {[tab |-> Len(tab) + 1, key |-> k] : k \in Keys}
    /\ Goto(c, [pc |-> "member", user |-> request[c].user,
                network |-> request[c].network, tab |-> Len(tab) + 1])
    /\ UNCHANGED <<network, setting, member, bounds, history>>

(* Mutant: the membership is not awaited either.                           *)
AddUserToTabUnawaited(c) ==
    /\ request[c].pc = "member"
    /\ Answer(c)
    /\ UNCHANGED <<tables, tasks, bounds, history>>

(* The membership, and a log whose failure turns the answer into a message *)
(* although the connection is whole.                                       *)
AddUserToTab(c) ==
    /\ request[c].pc = "member"
    /\ member' = member \union {[user |-> request[c].user, tab |-> request[c].tab,
                                 delete |-> FALSE]}
    /\ Answer(c)
    /\ \/ UNCHANGED torn
       \/ torn' = torn \union {request[c].network}
    /\ UNCHANGED <<network, tab, setting, tasks, bounds, spoilt, done,
                   effective, late, after>>

(* A query of the connect is rejected: what it wrote so far stays.         *)
ConnectFails(c) ==
    /\ request[c].pc \in {"tab", "member"}
    /\ Answer(c)
    /\ torn' = torn \union {request[c].network}
    /\ UNCHANGED <<tables, tasks, bounds, spoilt, done,
                   effective, late, after>>

(* addSettingToTab, one insert.  A rejection reaches nobody.               *)
CreateSocialSetting(s) ==
    /\ s \in tasks
    /\ tasks' = tasks \ {s}
    /\ \/ setting' = Append(setting, s) /\ UNCHANGED spoilt
       \/ spoilt' = spoilt \union {s.tab} /\ UNCHANGED setting
    /\ UNCHANGED <<network, tab, member, request, bounds, torn,
                   done, effective, late, after>>
-----------------------------------------------------------------------------
(* Mutant: any row may be updated.                                         *)
FindSocialSettingAny(c, i, s) ==
    /\ Arrive(c, "setting") /\ updates < MaxUpdates
    /\ i \in DOMAIN setting
    /\ updates' = updates + 1
    /\ Goto(c, [pc |-> "setting", row |-> i, data |-> s])
    /\ UNCHANGED <<tables, tasks, crashes, toggles, messages, history>>

(* updateSetting asks for a row with the tab and key of the body, ...      *)
FindSocialSetting(c, i, s) ==
    /\ Arrive(c, "setting") /\ updates < MaxUpdates
    /\ i \in DOMAIN setting
    /\ \E j \in DOMAIN setting : setting[j] = s
    /\ updates' = updates + 1
    /\ Goto(c, [pc |-> "setting", row |-> i, data |-> s])
    /\ UNCHANGED <<tables, tasks, crashes, toggles, messages, history>>

(* ... and writes the body over the row of the path's id, another one      *)
(* perhaps: that row's tab loses a key and the body's tab has it twice.    *)
UpdateSocialSetting(c) ==
    /\ request[c].pc = "setting"
    /\ LET i == request[c].row
           s == request[c].data
       IN  /\ setting' = [setting EXCEPT ![i] = s]
           /\ spoilt' = IF setting[i] = s THEN spoilt
                        ELSE spoilt \union {s.tab, setting[i].tab}
    /\ Answer(c)
    /\ UNCHANGED <<network, tab, member, tasks, bounds, torn,
                   done, effective, late, after>>
-----------------------------------------------------------------------------
(* updateWorkingState and removeSocialTab read the tab, refuse one that is *)
(* removed, ...                                                            *)
GetSocialTabById(c, t, kind) ==
    /\ Arrive(c, kind) /\ toggles < MaxToggles
    /\ toggles' = toggles + 1
    /\ t \in DOMAIN tab /\ ~tab[t].delete
    /\ Goto(c, [pc |-> kind, tab |-> t, isWorked |-> tab[t].isWorked])
    /\ UNCHANGED <<tables, tasks, crashes, messages, updates, history>>

UpdateTab(t, row) == tab' = [tab EXCEPT ![t] = row]

Increment(f, t, b) == IF b THEN [f EXCEPT ![t] = @ + 1] ELSE f

(* ... and then write the negation of what they read, ...                  *)
UpdateWorkingState(c) ==
    /\ request[c].pc = "toggle"
    /\ LET t == request[c].tab
           state == ~request[c].isWorked
       IN  /\ UpdateTab(t, [tab[t] EXCEPT !.isWorked = state])
           /\ done' = Increment(done, t, TRUE)
           /\ effective' = Increment(effective, t, tab[t].isWorked # state)
           /\ after' = Increment(after, t, tab[t].delete)
    /\ Answer(c)
    /\ UNCHANGED <<network, setting, member, tasks, bounds, torn,
                   spoilt, late>>

(* ... or the removal.                                                     *)
RemoveTab(c) ==
    /\ request[c].pc = "remove"
    /\ UpdateTab(request[c].tab, [tab[request[c].tab] EXCEPT !.delete = TRUE])
    /\ Answer(c)
    /\ UNCHANGED <<network, setting, member, tasks, bounds, history>>
-----------------------------------------------------------------------------
(* unassignUsers: the lookup and the write are one step here, for nothing  *)
(* gives a row back.                                                       *)
UnassignUsers(m) ==
    /\ "unassign" \in Kinds
    /\ m \in member /\ ~m.delete
    /\ member' = (member \ {m}) \union {[m EXCEPT !.delete = TRUE]}
    /\ UNCHANGED <<network, tab, setting, request, tasks, bounds, history>>
-----------------------------------------------------------------------------
(* Tabs whose network carries the page: removed ones as well, and in no    *)
(* particular order.                                                       *)
GetTabByNetworkId(page) == {t \in DOMAIN tab : network[tab[t].network] = page}

(* Mutant: a paused tab takes messages.                                    *)
IntakePaused(c, page) ==
    /\ Arrive(c, "message") /\ messages < MaxMessages
    /\ messages' = messages + 1
    /\ \E t \in GetTabByNetworkId(page) : Goto(c, [pc |-> "store", tab |-> t])
    /\ UNCHANGED <<tables, tasks, crashes, toggles, updates, history>>

(* message/save and socialmessage/save: one of those tabs, refused when it *)
(* is paused.                                                              *)
Intake(c, page) ==
    /\ Arrive(c, "message") /\ messages < MaxMessages
    /\ messages' = messages + 1
    /\ \E t \in GetTabByNetworkId(page) :
           ~tab[t].isWorked /\ Goto(c, [pc |-> "store", tab |-> t])
    /\ UNCHANGED <<tables, tasks, crashes, toggles, updates, history>>

(* The row is written several queries later, whatever the tab is by now.   *)
Store(c) ==
    /\ request[c].pc = "store"
    /\ late' = Increment(late, request[c].tab, tab[request[c].tab].isWorked)
    /\ Answer(c)
    /\ UNCHANGED <<tables, tasks, bounds, torn, spoilt, done,
                   effective, after>>
-----------------------------------------------------------------------------
Crash ==
    /\ crashes < MaxCrashes
    /\ crashes' = crashes + 1
    /\ request' = [c \in Clients |-> Idle]
    /\ tasks' = {}
    /\ torn' = torn \union {request[c].network :
                   c \in {d \in Clients : request[d].pc \in {"tab", "member"}}}
    /\ spoilt' = spoilt \union {s.tab : s \in tasks}
    /\ UNCHANGED <<tables, toggles, messages, updates, done,
                   effective, late, after>>

(* Every request is answered, and the clients leave it at that.            *)
Rest ==
    /\ tasks = {} /\ \A c \in Clients : request[c] = Idle
    /\ UNCHANGED vars

Settings == [tab : Tabs, key : Keys]

Next ==
    \/ \E c \in Clients :
           \/ \E u \in Users, p \in Pages : Connect(c, u, p)
           \/ CreateNewTab(c) \/ AddUserToTab(c) \/ ConnectFails(c)
           \/ \E i \in DOMAIN setting, s \in Settings : FindSocialSetting(c, i, s)
           \/ UpdateSocialSetting(c)
           \/ \E t \in Tabs, kind \in {"toggle", "remove"} :
                  GetSocialTabById(c, t, kind)
           \/ UpdateWorkingState(c) \/ RemoveTab(c)
           \/ \E p \in Pages : Intake(c, p)
           \/ Store(c)
    \/ \E s \in tasks : CreateSocialSetting(s)
    \/ \E m \in member : UnassignUsers(m)
    \/ Crash
    \/ Rest

Spec == Init /\ [][Next]_vars
-----------------------------------------------------------------------------
Requests ==
    {Idle}
    \union [pc : {"tab"}, user : Managers, network : Tabs]
    \union [pc : {"member"}, user : Managers, network : Tabs, tab : Tabs]
    \union [pc : {"setting"}, row : Nat \ {0}, data : Settings]
    \union [pc : {"toggle", "remove"}, tab : Tabs, isWorked : BOOLEAN]
    \union [pc : {"store"}, tab : Tabs]

TypeOK ==
    /\ network \in Seq(Pages) /\ Len(network) <= MaxNetworks
    /\ tab \in Seq([network : Tabs, delete : BOOLEAN, isWorked : BOOLEAN])
    /\ setting \in Seq(Settings) /\ tasks \subseteq Settings
    /\ member \subseteq [user : Managers, tab : Tabs, delete : BOOLEAN]
    /\ request \in [Clients -> Requests]
    /\ {crashes, toggles, messages, updates} \subseteq Nat
    /\ torn \subseteq DOMAIN network
    /\ spoilt \subseteq DOMAIN tab
    /\ \A f \in {done, effective, late, after} : f \in [Tabs -> Nat]

(* What getAllSocialTab lists for a user.                                  *)
GetAllSocialTab(u) ==
    {t \in DOMAIN tab :
        [user |-> u, tab |-> t, delete |-> FALSE] \in member /\ ~tab[t].delete}

Shown(t) == \E u \in Managers : t \in GetAllSocialTab(u)
GivenUp(t) ==
    tab[t].delete \/ \E u \in Managers : [user |-> u, tab |-> t, delete |-> TRUE] \in member

Connecting(n) ==
    \E c \in Clients : request[c].pc \in {"tab", "member"} /\ request[c].network = n

(* A network without a tab that its owner is shown is one whose connect    *)
(* answered with a message or was cut by a crash, or whose tab was removed *)
(* or its owner unassigned since.                                          *)
NoSilentHalfConnection ==
    \A n \in DOMAIN network \ torn : ~Connecting(n) =>
        \E t \in DOMAIN tab : tab[t].network = n /\ (Shown(t) \/ GivenUp(t))

Others == Cardinality(Clients) - 1

(* Toggles that overlap write the same value and all but one are lost; one *)
(* always takes effect, so a user is never left with none of them.         *)
OneToggleTakesEffect ==
    \A t \in Tabs : done[t] <= Cardinality(Clients) * effective[t]

(* A pause stops the intake except for the messages that had already read  *)
(* the tab: at most one per other request in flight and pause.             *)
PauseStopsIntake ==
    \A t \in Tabs : late[t] <= Others * ((effective[t] + 1) \div 2)

(* A removed tab is not changed again, except by requests that read it     *)
(* before its removal.                                                     *)
RemovedTabRests == \A t \in Tabs : after[t] <= Others

(* A tab has each default setting exactly once, inserted or on its way,    *)
(* unless an insert failed or an update was sent to the row of another     *)
(* setting.                                                                *)
SettingsComplete ==
    \A t \in DOMAIN tab \ spoilt : \A k \in Keys :
        LET s == [tab |-> t, key |-> k]
        IN  Cardinality({i \in DOMAIN setting : setting[i] = s})
            + (IF s \in tasks THEN 1 ELSE 0) = 1

(* A connection is whole, with its settings, unless its connect or one of  *)
(* its inserts went wrong.                                                 *)
ConnectionsWholeUnlessTorn == TypeOK /\ NoSilentHalfConnection /\ SettingsComplete

(* What requests in flight can do after a toggle, a pause or a removal is  *)
(* bounded by their number.                                                *)
LateEffectsBounded == OneToggleTakesEffect /\ PauseStopsIntake /\ RemovedTabRests
-----------------------------------------------------------------------------
(* The inductive invariant behind the two.                                 *)

(* What a request knows of the rows it goes on with.                       *)
RequestOK(r) ==
    /\ r.pc \in {"tab", "member"} => r.network \in DOMAIN network
    /\ r.pc = "member" => r.tab \in DOMAIN tab /\ tab[r.tab].network = r.network
    /\ r.pc \in {"toggle", "remove", "store"} => r.tab \in DOMAIN tab
    /\ r.pc = "setting" => r.row \in DOMAIN setting /\ r.data.tab \in DOMAIN tab
RequestsOK == \A c \in Clients : RequestOK(request[c])

(* Rows refer to rows that exist, and a network gets one tab.              *)
RowsOK ==
    /\ \A t \in DOMAIN tab : tab[t].network \in DOMAIN network
    /\ \A i \in DOMAIN setting : setting[i].tab \in DOMAIN tab
    /\ \A s \in tasks : s.tab \in DOMAIN tab

AwaitsTab(c) == request[c].pc = "tab"
OneTab ==
    /\ \A t, u \in DOMAIN tab : tab[t].network = tab[u].network => t = u
    /\ \A c \in Clients : AwaitsTab(c) =>
          /\ \A t \in DOMAIN tab : tab[t].network # request[c].network
          /\ \A d \in Clients : AwaitsTab(d) /\ request[d].network = request[c].network
                => d = c

(* The requests that a tab has in flight, and of its toggles those that    *)
(* read another state than it has now and will not change it.              *)
InFlight(kind, t) == {c \in Clients : request[c].pc = kind /\ request[c].tab = t}
Stale(t) == {c \in InFlight("toggle", t) : request[c].isWorked # tab[t].isWorked}

(* What was written and what is in flight is within the bounds.            *)
TogglesOK ==
    \A t \in DOMAIN tab :
        done[t] + Cardinality(Stale(t)) <= Cardinality(Clients) * effective[t]

PausesOK ==
    \A t \in DOMAIN tab :
        /\ tab[t].isWorked <=> effective[t] % 2 = 1
        /\ late[t] + (IF tab[t].isWorked THEN Cardinality(InFlight("store", t)) ELSE 0)
              <= Others * ((effective[t] + 1) \div 2)

RemovalsOK ==
    \A t \in DOMAIN tab :
        IF tab[t].delete THEN after[t] + Cardinality(InFlight("toggle", t)) <= Others
                         ELSE after[t] = 0

FreshOK ==
    \A t \in Tabs \ DOMAIN tab :
        done[t] = 0 /\ effective[t] = 0 /\ late[t] = 0 /\ after[t] = 0

IInv ==
    /\ ConnectionsWholeUnlessTorn
    /\ RequestsOK /\ RowsOK /\ OneTab
    /\ TogglesOK /\ PausesOK /\ RemovalsOK /\ FreshOK
=============================================================================
