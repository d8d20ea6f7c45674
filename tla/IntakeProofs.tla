---------------------------- MODULE IntakeProofs ----------------------------
(***************************************************************************)
(* A connected page, and the rows its messages refer to: the inductive     *)
(* invariants that end TabLifecycle and SenderRegistry hold in every       *)
(* reachable state, for any number of clients, pages, settings and events  *)
(* and any bounds.                                                         *)
(*                                                                         *)
(* The first part is about TabLifecycle.  The rows of its tables refer to  *)
(* one another (TablesOK): most requests leave the tables as they are      *)
(* (TablesKept), a connect inserts and has its place (TabsFit).  What      *)
(* requests in flight can still do to a tab is counted (TabOK): a toggle   *)
(* either takes effect, and then at most every other client's request is   *)
(* stale (Effective), or it is one of those that were counted (Lost), and  *)
(* so is a message that is stored late (StoredLate).                       *)
(*                                                                         *)
(* The second part is about SenderRegistry: every row has a handler that   *)
(* made it, and no handler makes two of one key (MakersKept, CreateKeeps). *)
(***************************************************************************)
EXTENDS Intake, FiniteSetTheorems, TLAPS

(* Sizes, and the halves that pauses and their ends share.                 *)
LEMMA Sizes ==
    /\ IsFiniteSet(Clients) /\ Cardinality(Clients) \in Nat
    /\ Others \in Nat /\ Cardinality(Clients) = Others + 1
BY LifecycleAssumption, FS_CardinalityType, FS_EmptySet DEF Others

LEMMA Products ==
    ASSUME NEW a \in Nat, NEW b \in Nat
    PROVE  a * b \in Nat /\ a * (b + 1) = a * b + a
OBVIOUS

LEMMA Halves ==
    ASSUME NEW e \in Nat
    PROVE  /\ (e + 1) \div 2 \in Nat
           /\ e % 2 = 1 <=> (e + 1) % 2 # 1
           /\ e % 2 = 1 => ((e + 1) + 1) \div 2 = (e + 1) \div 2
           /\ e % 2 # 1 => ((e + 1) + 1) \div 2 = ((e + 1) \div 2) + 1
OBVIOUS

LEMMA UpTo == \A k \in Nat : IsFiniteSet(1..k) /\ Cardinality(1..k) = k
<1> SUFFICES ASSUME NEW k \in Nat PROVE IsFiniteSet(1..k) /\ Cardinality(1..k) = k
  OBVIOUS
<1>1. IsFiniteSet(1..k) /\ Cardinality(1..k) = IF 1 > k THEN 0 ELSE k - 1 + 1
  BY FS_Interval
<1> QED
  BY <1>1

(* At most every other request is in flight beside one.                    *)
LEMMA FewerOthers ==
    ASSUME NEW c \in Clients, NEW S \in SUBSET (Clients \ {c})
    PROVE  IsFiniteSet(S) /\ Cardinality(S) \in Nat /\ Cardinality(S) <= Others
<1>1. IsFiniteSet(Clients \ {c}) /\ Cardinality(Clients \ {c}) = Others
  BY Sizes, FS_RemoveElement
<1>2. IsFiniteSet(S) /\ Cardinality(S) <= Cardinality(Clients \ {c})
  BY <1>1, FS_Subset
<1> QED
  BY <1>1, <1>2, FS_CardinalityType

LEMMA Fewer ==
    ASSUME NEW S \in SUBSET Clients, NEW T \in SUBSET S
    PROVE  /\ Cardinality(S) \in Nat /\ Cardinality(T) \in Nat
           /\ Cardinality(T) <= Cardinality(S)
<1>1. IsFiniteSet(S)
  BY Sizes, FS_Subset
<1>2. IsFiniteSet(T) /\ Cardinality(T) <= Cardinality(S)
  BY <1>1, FS_Subset
<1> QED
  BY <1>1, <1>2, FS_CardinalityType

LEMMA OneFewer ==
    ASSUME NEW S \in SUBSET Clients, NEW c \in S
    PROVE  /\ Cardinality(S) \in Nat /\ Cardinality(S \ {c}) \in Nat
           /\ Cardinality(S \ {c}) = Cardinality(S) - 1
<1>1. IsFiniteSet(S)
  BY Sizes, FS_Subset
<1>2. IsFiniteSet(S \ {c}) /\ Cardinality(S \ {c}) = Cardinality(S) - 1
  BY <1>1, FS_RemoveElement
<1> QED
  BY <1>1, <1>2, FS_CardinalityType
-----------------------------------------------------------------------------
(* What a request is at each step.                                         *)
LEMMA RequestIs ==
    ASSUME NEW r \in Requests
    PROVE  /\ r = Idle <=> r.pc = "idle"
           /\ r.pc \in {"idle", "tab", "member", "setting", "toggle", "remove", "store"}
           /\ r.pc \in {"tab", "member"} => r.user \in Managers /\ r.network \in Tabs
           /\ r.pc \in {"member", "toggle", "remove", "store"} => r.tab \in Tabs
           /\ r.pc \in {"toggle", "remove"} => r.isWorked \in BOOLEAN
           /\ r.pc = "setting" => r.row \in Nat \ {0} /\ r.data \in Settings
<1>1. CASE r = Idle
  BY <1>1 DEF Idle
<1>2. CASE r \in [pc : {"tab"}, user : Managers, network : Tabs]
  BY <1>2 DEF Idle
<1>3. CASE r \in [pc : {"member"}, user : Managers, network : Tabs, tab : Tabs]
  BY <1>3 DEF Idle
<1>4. CASE r \in [pc : {"setting"}, row : Nat \ {0}, data : Settings]
  BY <1>4 DEF Idle
<1>5. CASE r \in [pc : {"toggle", "remove"}, tab : Tabs, isWorked : BOOLEAN]
  BY <1>5 DEF Idle
<1>6. CASE r \in [pc : {"store"}, tab : Tabs]
  BY <1>6 DEF Idle
<1> QED
  BY <1>1, <1>2, <1>3, <1>4, <1>5, <1>6 DEF Requests

LEMMA TypesAre ==
    ASSUME TypeOK
    PROVE  /\ crashes \in Nat /\ toggles \in Nat /\ messages \in Nat /\ updates \in Nat
           /\ done \in [Tabs -> Nat] /\ effective \in [Tabs -> Nat]
           /\ late \in [Tabs -> Nat] /\ after \in [Tabs -> Nat]
           /\ request \in [Clients -> Requests]
           /\ Len(tab) \in Nat /\ DOMAIN tab = 1..Len(tab)
           /\ \A t \in DOMAIN tab : /\ tab[t] \in [network : Tabs, delete : BOOLEAN,
                                                   isWorked : BOOLEAN]
                                   /\ tab[t].network \in Tabs /\ tab[t].delete \in BOOLEAN
                                   /\ tab[t].isWorked \in BOOLEAN
<1>1. \A t \in DOMAIN tab : tab[t] \in [network : Tabs, delete : BOOLEAN, isWorked : BOOLEAN]
  <2>1. PICK S : S = [network : Tabs, delete : BOOLEAN, isWorked : BOOLEAN]
    OBVIOUS
  <2>2. tab \in Seq(S)
    BY <2>1 DEF TypeOK
  <2>3. \A t \in DOMAIN tab : tab[t] \in S
    BY <2>2
  <2> QED
    BY <2>1, <2>3
<1>2. Len(tab) \in Nat /\ DOMAIN tab = 1..Len(tab)
  BY DEF TypeOK
<1>3. crashes \in Nat /\ toggles \in Nat /\ messages \in Nat /\ updates \in Nat
  BY DEF TypeOK
<1>4. /\ done \in [Tabs -> Nat] /\ effective \in [Tabs -> Nat]
      /\ late \in [Tabs -> Nat] /\ after \in [Tabs -> Nat]
  BY DEF TypeOK
<1>5. request \in [Clients -> Requests]
  BY DEF TypeOK
<1> QED
  BY <1>1, <1>2, <1>3, <1>4, <1>5

LEMMA TabFields ==
    TypeOK => \A t \in DOMAIN tab : tab[t].isWorked \in BOOLEAN /\ tab[t].delete \in BOOLEAN
BY TypesAre

LEMMA IdleIs == Idle \in Requests /\ Idle.pc = "idle"
BY DEF Requests, Idle

(* One request goes on to r.                                               *)
Goes(c, r) ==
    /\ r \in Requests /\ request' \in [Clients -> Requests]
    /\ request'[c] = r
    /\ \A d \in Clients : d # c => request'[d] = request[d]

LEMMA GotoGoes ==
    ASSUME TypeOK, NEW c \in Clients, NEW r \in Requests, Goto(c, r)
    PROVE  Goes(c, r)
BY DEF TypeOK, Goto, Goes

(* A request goes on, and a toggle or a message that begins has just read  *)
(* its tab.                                                                *)
Begins(c) ==
    \E r \in Requests :
        /\ Goes(c, r)
        /\ r.pc \in {"toggle", "store"} => r.tab \in DOMAIN tab
        /\ r.pc = "toggle" => r.isWorked = tab[r.tab].isWorked /\ ~tab[r.tab].delete
        /\ r.pc = "store" => ~tab[r.tab].isWorked

(* Rows are never lost, and a removed tab stays removed.                   *)
TabsStay ==
    /\ DOMAIN tab' = DOMAIN tab
    /\ \A t \in DOMAIN tab : /\ tab'[t].network = tab[t].network
                             /\ tab[t].delete => tab'[t].delete

(* A setting of a tab, inserted or on its way.                             *)
Inserted(s) == {i \in DOMAIN setting : setting[i] = s}
Copies(s) == Cardinality(Inserted(s)) + (IF s \in tasks THEN 1 ELSE 0)

LEMMA SettingsAre ==
    SettingsComplete <=>
        \A t \in DOMAIN tab \ spoilt : \A k \in Keys : Copies([tab |-> t, key |-> k]) = 1
BY DEF SettingsComplete, Copies, Inserted

LEMMA NextSettingsAre ==
    SettingsComplete' <=>
        \A t \in DOMAIN tab' \ spoilt' : \A k \in Keys : Copies([tab |-> t, key |-> k])' = 1
BY DEF SettingsComplete, Copies, Inserted

TablesOK == RequestsOK /\ RowsOK /\ OneTab /\ NoSilentHalfConnection /\ SettingsComplete

Kept(n) ==
    \/ n \in torn'
    \/ \E t \in DOMAIN tab : /\ tab[t].network = n
                             /\ \E u \in Managers :
                                    [user |-> u, tab |-> t, delete |-> FALSE] \in member'

(* A request that inserts no network, tab or setting.                      *)
LEMMA TablesKept ==
    ASSUME TablesOK, NEW c \in Clients, NEW r, Goes(c, r),
           UNCHANGED <<network, setting, tasks>>, TabsStay,
           member \subseteq member', torn \subseteq torn', spoilt \subseteq spoilt',
           RequestOK(r)', r.pc \notin {"tab", "member"},
           request[c].pc \in {"tab", "member"} => Kept(request[c].network)
    PROVE  TablesOK'
<1>1. RowsOK'
  BY DEF TablesOK, RowsOK, TabsStay
<1>2. RequestsOK'
  <2>1. ASSUME NEW d \in Clients, d # c PROVE RequestOK(request[d])'
    <3>1. RequestOK(request[d]) /\ request'[d] = request[d]
      BY <2>1 DEF TablesOK, RequestsOK, Goes
    <3> QED
      BY <3>1 DEF RequestOK, TabsStay
  <2>2. RequestOK(request[c])'
    BY DEF Goes
  <2> QED
    BY <2>1, <2>2 DEF RequestsOK
<1>3. OneTab'
  <2>1. \A d \in Clients : AwaitsTab(d)' => d # c /\ AwaitsTab(d) /\ request'[d] = request[d]
    BY DEF AwaitsTab, Goes
  <2> QED
    BY <2>1 DEF TablesOK, OneTab, TabsStay
<1>4. NoSilentHalfConnection'
  <2>1. SUFFICES ASSUME NEW n \in DOMAIN network \ torn', ~Connecting(n)'
                 PROVE  \E t \in DOMAIN tab :
                            /\ tab'[t].network = n
                            /\ (Shown(t) \/ GivenUp(t))'
    BY DEF NoSilentHalfConnection, TabsStay
  <2>2. CASE Connecting(n)
    <3>1. request[c].pc \in {"tab", "member"} /\ request[c].network = n
      BY <2>1, <2>2 DEF Connecting, Goes
    <3>2. PICK t \in DOMAIN tab : /\ tab[t].network = n
                                  /\ \E u \in Managers :
                                    [user |-> u, tab |-> t, delete |-> FALSE] \in member'
      BY <2>1, <3>1 DEF Kept
    <3> QED
      BY <3>2 DEF TabsStay, Shown, GivenUp, GetAllSocialTab
  <2>3. CASE ~Connecting(n)
    <3>1. PICK t \in DOMAIN tab : /\ tab[t].network = n
                                  /\ Shown(t) \/ GivenUp(t)
      BY <2>1, <2>3 DEF TablesOK, NoSilentHalfConnection
    <3> QED
      BY <3>1 DEF TabsStay, Shown, GivenUp, GetAllSocialTab
  <2> QED
    BY <2>2, <2>3
<1>5. SettingsComplete'
  <2>1. ASSUME NEW s PROVE Copies(s)' = Copies(s)
    <3>1. Inserted(s)' = Inserted(s)
      BY DEF Inserted
    <3> QED
      BY <3>1 DEF Copies
  <2> QED
    BY <2>1, SettingsAre, NextSettingsAre DEF TablesOK, TabsStay
<1> QED
  BY <1>1, <1>2, <1>3, <1>4, <1>5 DEF TablesOK
-----------------------------------------------------------------------------
(* The tables, action by action.                                           *)
LEMMA ConnectTables ==
    ASSUME TypeOK, TablesOK, NEW c \in Clients, NEW u \in Users, NEW page \in Pages,
           Connect(c, u, page)
    PROVE  TypeOK' /\ TablesOK' /\ Begins(c) /\ UNCHANGED <<tab, history>>
<1> PICK n, r : n = Len(network) + 1 /\ r = [pc |-> "tab", user |-> u, network |-> n]
  OBVIOUS
<1>1. /\ request[c] = Idle /\ u \in Managers /\ Len(network) < MaxNetworks
      /\ network' = Append(network, page) /\ Goto(c, r)
      /\ UNCHANGED <<tab, setting, member, tasks, bounds, history>>
  BY DEF Connect, Arrive
<1>2. /\ network' \in Seq(Pages) /\ Len(network') = n /\ n \in Tabs
      /\ DOMAIN network' = DOMAIN network \union {n} /\ n \notin DOMAIN network
  BY <1>1, LifecycleAssumption DEF TypeOK, Tabs
<1>3. r \in Requests
  BY <1>1, <1>2 DEF Requests
<1>4. Goes(c, r)
  BY <1>1, <1>3, GotoGoes
<1>5. TypeOK'
  <2>1. UNCHANGED <<crashes, toggles, messages, updates, torn, spoilt, done, effective,
          late, after>>
    BY <1>1 DEF bounds, history
  <2>2. request' \in [Clients -> Requests] /\ Len(network') <= MaxNetworks
    BY <1>1, <1>2, <1>4 DEF Goes, Tabs
  <2> QED
    BY <1>1, <1>2, <2>1, <2>2 DEF TypeOK
<1>6. RequestsOK'
  <2>1. ASSUME NEW d \in Clients, d # c PROVE RequestOK(request[d])'
    <3>1. RequestOK(request[d]) /\ request'[d] = request[d]
      BY <1>4, <2>1 DEF TablesOK, RequestsOK, Goes
    <3> QED
      BY <1>1, <1>2, <3>1 DEF RequestOK
  <2>2. RequestOK(request[c])'
    BY <1>2, <1>4 DEF RequestOK, Goes
  <2> QED
    BY <2>1, <2>2 DEF RequestsOK
<1>7. RowsOK'
  BY <1>1, <1>2 DEF TablesOK, RowsOK
<1>8. OneTab'
  <2>1. \A t \in DOMAIN tab : tab[t].network # n
    BY <1>2 DEF TablesOK, RowsOK
  <2>2. ASSUME NEW d \in Clients, AwaitsTab(d), d # c PROVE request[d].network # n
    BY <1>2, <2>2 DEF TablesOK, RequestsOK, RequestOK, AwaitsTab
  <2>3. \A d \in Clients : d # c => (AwaitsTab(d)' <=> AwaitsTab(d))
                                     /\ request'[d] = request[d]
    BY <1>4 DEF AwaitsTab, Goes
  <2>4. request'[c].network = n
    BY <1>4 DEF Goes
  <2> QED
    BY <1>1, <2>1, <2>2, <2>3, <2>4 DEF TablesOK, OneTab
<1>9. NoSilentHalfConnection'
  <2>1. Connecting(n)'
    BY <1>4 DEF Connecting, Goes
  <2>2. \A m : Connecting(m) => Connecting(m)'
    <3>1. request[c].pc \notin {"tab", "member"}
      BY <1>1, IdleIs
    <3> QED
      BY <1>4, <3>1 DEF Connecting, Goes
  <2>3. SUFFICES ASSUME NEW m \in DOMAIN network \ torn, ~Connecting(m)
                 PROVE  \E t \in DOMAIN tab :
                            /\ tab[t].network = m
                            /\ Shown(t) \/ GivenUp(t)
    BY <1>1, <1>2, <2>1, <2>2 DEF NoSilentHalfConnection, Shown, GivenUp, GetAllSocialTab, history
  <2> QED
    BY <2>3 DEF TablesOK, NoSilentHalfConnection
<1>10. SettingsComplete'
  <2>1. ASSUME NEW s PROVE Copies(s)' = Copies(s)
    BY <1>1 DEF Copies, Inserted
  <2> QED
    BY <1>1, <2>1, SettingsAre, NextSettingsAre DEF TablesOK, history
<1>11. Begins(c)
  BY <1>4 DEF Begins, Goes
<1> QED
  BY <1>1, <1>5, <1>6, <1>7, <1>8, <1>9, <1>10, <1>11 DEF TablesOK

(* Tabs are as many as the networks they belong to.                        *)
LEMMA TabsInto ==
    ASSUME TypeOK, TablesOK, NEW S \in SUBSET DOMAIN network,
           \A t \in DOMAIN tab : tab[t].network \in S
    PROVE  /\ IsFiniteSet(S) /\ Len(tab) <= Cardinality(S)
           /\ Cardinality(S) \in Nat /\ Cardinality(S) <= MaxNetworks
<1> PICK f : f = [t \in DOMAIN tab |-> tab[t].network]
  OBVIOUS
<1>1. \A t, u \in DOMAIN tab : tab[t].network = tab[u].network => t = u
  BY DEF TablesOK, OneTab
<1>2. f \in [DOMAIN tab -> S] /\ \A t, u \in DOMAIN tab : f[t] = f[u] => t = u
  BY <1>1
<1>3. f \in Injection(DOMAIN tab, S)
  BY <1>2 DEF Injection, IsInjective
<1>4. /\ Len(network) \in Nat /\ DOMAIN network = 1..Len(network)
      /\ Len(tab) \in Nat /\ DOMAIN tab = 1..Len(tab) /\ Len(network) <= MaxNetworks
  BY DEF TypeOK
<1>5. /\ IsFiniteSet(1..Len(network)) /\ Cardinality(1..Len(network)) = Len(network)
      /\ IsFiniteSet(1..Len(tab)) /\ Cardinality(1..Len(tab)) = Len(tab)
  BY <1>4, UpTo
<1>6. IsFiniteSet(S) /\ Cardinality(S) <= Len(network) /\ Cardinality(S) \in Nat
  BY <1>4, <1>5, FS_Subset, FS_CardinalityType
<1>7. Len(tab) <= Cardinality(S)
  BY <1>3, <1>4, <1>5, <1>6, FS_Injection
<1> QED
  BY <1>4, <1>6, <1>7, LifecycleAssumption

LEMMA TabsAre ==
    ASSUME TypeOK, TablesOK
    PROVE  DOMAIN tab \subseteq Tabs
<1>1. \A t \in DOMAIN tab : tab[t].network \in DOMAIN network
  BY DEF TablesOK, RowsOK
<1>2. Len(tab) <= Cardinality(DOMAIN network) /\ Cardinality(DOMAIN network) <= MaxNetworks
      /\ Cardinality(DOMAIN network) \in Nat
  BY <1>1, TabsInto
<1>3. Len(tab) \in Nat /\ DOMAIN tab = 1..Len(tab)
  BY DEF TypeOK
<1> QED
  BY <1>2, <1>3, LifecycleAssumption DEF Tabs

(* A network that waits for its tab leaves a place in the table of tabs.   *)
LEMMA TabsFit ==
    ASSUME TypeOK, TablesOK, NEW c \in Clients, AwaitsTab(c)
    PROVE  Len(tab) + 1 \in Tabs
<1> PICK n, S : n = request[c].network /\ S = DOMAIN network \ {n}
  OBVIOUS
<1>1. n \in DOMAIN network /\ \A t \in DOMAIN tab : tab[t].network \in S
  BY DEF TablesOK, RequestsOK, RequestOK, RowsOK, OneTab, AwaitsTab
<1>2. IsFiniteSet(S) /\ Len(tab) <= Cardinality(S)
  BY <1>1, TabsInto
<1>3. /\ IsFiniteSet(DOMAIN network)
      /\ Cardinality(DOMAIN network) <= MaxNetworks /\ Cardinality(DOMAIN network) \in Nat
  BY TabsInto DEF TablesOK, RowsOK
<1>4. Cardinality(S) = Cardinality(DOMAIN network) - 1
  BY <1>1, <1>3, FS_RemoveElement
<1>5. Len(tab) \in Nat
  BY DEF TypeOK
<1> QED
  BY <1>2, <1>3, <1>4, <1>5, LifecycleAssumption DEF Tabs
LEMMA CreateNewTabTables ==
    ASSUME TypeOK, TablesOK, NEW c \in Clients, CreateNewTab(c)
    PROVE  /\ TypeOK' /\ TablesOK' /\ Begins(c) /\ UNCHANGED history
           /\ DOMAIN tab \subseteq DOMAIN tab' /\ \A t \in DOMAIN tab : tab'[t] = tab[t]
           /\ \A t \in DOMAIN tab' \ DOMAIN tab : ~tab'[t].isWorked /\ ~tab'[t].delete
<1> PICK n, k, r, x : /\ n = request[c].network /\ k = Len(tab) + 1
                      /\ r = [pc |-> "member", user |-> request[c].user,
                              network |-> n, tab |-> k]
                      /\ x = [network |-> n, delete |-> FALSE, isWorked |-> FALSE]
  OBVIOUS
<1>1. /\ request[c].pc = "tab" /\ tab' = Append(tab, x) /\ Goto(c, r)
      /\ tasks' = tasks \union {[tab |-> k, key |-> q] : q \in Keys}
      /\ UNCHANGED <<network, setting, member, bounds, history>>
  BY DEF CreateNewTab
<1>2. /\ request[c].user \in Managers /\ n \in Tabs /\ n \in DOMAIN network /\ k \in Tabs
  <2>1. request[c] \in Requests
    BY DEF TypeOK
  <2>2. n \in DOMAIN network
    BY <1>1 DEF TablesOK, RequestsOK, RequestOK
  <2> QED
    BY <1>1, <2>1, <2>2, RequestIs, TabsFit DEF AwaitsTab
<1>3. /\ tab' \in Seq([network : Tabs, delete : BOOLEAN, isWorked : BOOLEAN])
      /\ DOMAIN tab' = DOMAIN tab \union {k} /\ k \notin DOMAIN tab
      /\ tab'[k] = x /\ \A t \in DOMAIN tab : tab'[t] = tab[t]
  <2>1. /\ tab \in Seq([network : Tabs, delete : BOOLEAN, isWorked : BOOLEAN])
        /\ x \in [network : Tabs, delete : BOOLEAN, isWorked : BOOLEAN]
    BY <1>2 DEF TypeOK
  <2> QED
    BY <1>1, <2>1
<1>4. Goes(c, r)
  <2>1. r \in Requests
    BY <1>2 DEF Requests
  <2> QED
    BY <1>1, <2>1, GotoGoes
<1>5. TypeOK'
  <2>1. UNCHANGED <<crashes, toggles, messages, updates, torn, spoilt, done, effective,
          late, after>>
    BY <1>1 DEF bounds, history
  <2>2. request' \in [Clients -> Requests] /\ tasks' \subseteq Settings
    BY <1>1, <1>2, <1>4 DEF Goes, Settings, TypeOK
  <2>3. spoilt' \subseteq DOMAIN tab'
    BY <1>3, <2>1 DEF TypeOK
  <2> QED
    BY <1>1, <1>3, <2>1, <2>2, <2>3 DEF TypeOK
<1>6. RequestsOK'
  <2>1. ASSUME NEW d \in Clients, d # c PROVE RequestOK(request[d])'
    <3>1. RequestOK(request[d]) /\ request'[d] = request[d]
      BY <1>4, <2>1 DEF TablesOK, RequestsOK, Goes
    <3> QED
      BY <1>1, <1>3, <3>1 DEF RequestOK
  <2>2. RequestOK(request[c])'
    BY <1>1, <1>2, <1>3, <1>4 DEF RequestOK, Goes
  <2> QED
    BY <2>1, <2>2 DEF RequestsOK
<1>7. RowsOK'
  <2>1. \A s \in tasks' : s.tab \in DOMAIN tab'
    BY <1>1, <1>3 DEF TablesOK, RowsOK
  <2> QED
    BY <1>1, <1>2, <1>3, <2>1 DEF TablesOK, RowsOK
<1>8. OneTab'
  <2>1. \A d \in Clients : AwaitsTab(d)' => d # c /\ AwaitsTab(d) /\ request'[d] = request[d]
    BY <1>4 DEF AwaitsTab, Goes
  <2>2. /\ \A t \in DOMAIN tab : tab[t].network # n
        /\ \A d \in Clients : AwaitsTab(d) /\ d # c => request[d].network # n
    BY <1>1 DEF TablesOK, OneTab, AwaitsTab
  <2> QED
    BY <1>3, <2>1, <2>2 DEF TablesOK, OneTab
<1>9. NoSilentHalfConnection'
  <2>1. \A m : Connecting(m) => Connecting(m)'
    BY <1>1, <1>4 DEF Connecting, Goes
  <2>2. torn' = torn /\ network' = network /\ member' = member
    BY <1>1 DEF history
  <2>3. SUFFICES ASSUME NEW m \in DOMAIN network \ torn, ~Connecting(m)
                 PROVE  \E t \in DOMAIN tab' :
                            /\ tab'[t].network = m
                            /\ (Shown(t) \/ GivenUp(t))'
    BY <2>1, <2>2 DEF NoSilentHalfConnection
  <2>4. PICK t \in DOMAIN tab : /\ tab[t].network = m
                                /\ Shown(t) \/ GivenUp(t)
    BY <2>3 DEF TablesOK, NoSilentHalfConnection
  <2> QED
    BY <1>3, <2>2, <2>4 DEF Shown, GivenUp, GetAllSocialTab
<1>10. SettingsComplete'
  <2>1. ASSUME NEW t \in DOMAIN tab, NEW q \in Keys
        PROVE  Copies([tab |-> t, key |-> q])' = Copies([tab |-> t, key |-> q])
    <3> PICK s : s = [tab |-> t, key |-> q]
      OBVIOUS
    <3>1. s \in tasks' <=> s \in tasks
      BY <1>1, <1>3
    <3>2. Inserted(s)' = Inserted(s)
      BY <1>1 DEF Inserted
    <3>3. Copies(s)' = Copies(s)
      BY <3>1, <3>2 DEF Copies
    <3> QED
      BY <3>3
  <2>2. ASSUME NEW q \in Keys PROVE Copies([tab |-> k, key |-> q])' = 1
    <3> PICK s : s = [tab |-> k, key |-> q]
      OBVIOUS
    <3>1. s \in tasks'
      BY <1>1
    <3>2. Inserted(s)' = {}
      <4>1. setting' = setting /\ s.tab = k
        BY <1>1
      <4>2. \A i \in DOMAIN setting : setting[i].tab # k
        BY <1>3 DEF TablesOK, RowsOK
      <4>3. \A i \in DOMAIN setting : setting[i] # s
        BY <4>1, <4>2
      <4>4. \A i \in DOMAIN setting' : setting'[i] # s
        BY <4>1, <4>3
      <4>5. \A i : i \notin Inserted(s)'
        BY <4>4, Zenon DEF Inserted
      <4> QED
        BY <4>5, Zenon
    <3>3. Cardinality(Inserted(s)') = 0
      BY <3>2, FS_EmptySet, Zenon
    <3>4. Copies(s)' = 1
      BY <3>1, <3>3 DEF Copies
    <3> QED
      BY <3>4
  <2>3. spoilt' = spoilt
    BY <1>1 DEF history
  <2> QED
    BY <1>3, <2>1, <2>2, <2>3, SettingsAre, NextSettingsAre DEF TablesOK
<1>11. Begins(c)
  BY <1>4 DEF Begins, Goes
<1>12. \A t \in DOMAIN tab' \ DOMAIN tab : ~tab'[t].isWorked /\ ~tab'[t].delete
  BY <1>3
<1> QED
  BY <1>1, <1>3, <1>5, <1>6, <1>7, <1>8, <1>9, <1>10, <1>11, <1>12 DEF TablesOK

(* The end of a connect, with its membership or without.                   *)
LEMMA EndConnectTables ==
    ASSUME TypeOK, TablesOK, NEW c \in Clients, AddUserToTab(c) \/ ConnectFails(c)
    PROVE  /\ TypeOK' /\ TablesOK' /\ Begins(c)
           /\ UNCHANGED <<tab, done, effective, late, after>>
<1> PICK n, p : n = request[c].network /\ p = request[c]
  OBVIOUS
<1>1. /\ p.pc \in {"tab", "member"} /\ Goto(c, Idle) /\ torn \subseteq torn'
      /\ torn' \subseteq torn \union {n} /\ member \subseteq member'
      /\ \/ n \in torn' /\ member' = member
         \/ /\ p.pc = "member"
            /\ member' = member \union {[user |-> p.user, tab |-> p.tab, delete |-> FALSE]}
      /\ UNCHANGED <<network, tab, setting, tasks, bounds, spoilt, done, effective, late,
           after>>
  BY DEF AddUserToTab, ConnectFails, Answer, tables
<1>2. Goes(c, Idle)
  BY <1>1, GotoGoes, IdleIs
<1>3. p \in Requests /\ p.user \in Managers /\ n \in DOMAIN network /\ RequestOK(p)
  BY <1>1, RequestIs DEF TypeOK, TablesOK, RequestsOK, RequestOK
<1>4. p.pc = "member" => p.tab \in Tabs /\ p.tab \in DOMAIN tab /\ tab[p.tab].network = n
  BY <1>3, RequestIs DEF RequestOK
<1>5. TypeOK'
  <2>1. UNCHANGED <<crashes, toggles, messages, updates>>
    BY <1>1 DEF bounds
  <2>2. member' \subseteq [user : Managers, tab : Tabs, delete : BOOLEAN]
    <3>1. member \subseteq [user : Managers, tab : Tabs, delete : BOOLEAN]
      BY DEF TypeOK
    <3>2. CASE member' = member
      BY <3>1, <3>2
    <3>3. CASE /\ p.pc = "member"
               /\ member' = member \union {[user |-> p.user, tab |-> p.tab, delete |-> FALSE]}
      <4>1. [user |-> p.user, tab |-> p.tab, delete |-> FALSE]
                \in [user : Managers, tab : Tabs, delete : BOOLEAN]
        BY <1>3, <1>4, <3>3
      <4> QED
        BY <3>1, <3>3, <4>1
    <3> QED
      BY <1>1, <3>2, <3>3
  <2>3. torn' \subseteq DOMAIN network'
    BY <1>1, <1>3 DEF TypeOK
  <2>4. request' \in [Clients -> Requests]
    BY <1>2 DEF Goes
  <2> QED
    BY <1>1, <2>1, <2>2, <2>3, <2>4 DEF TypeOK
<1>6. Kept(n)
  BY <1>1, <1>3, <1>4 DEF Kept
<1>7. RequestOK(Idle)' /\ TabsStay
  BY <1>1, IdleIs DEF RequestOK, TabsStay
<1>8. TablesOK'
  BY <1>1, <1>2, <1>6, <1>7, IdleIs, TablesKept
<1>9. Begins(c)
  BY <1>2, IdleIs DEF Begins
<1> QED
  BY <1>1, <1>5, <1>8, <1>9
(* An insert of a setting, or its failure.                                 *)
LEMMA CreateSettingTables ==
    ASSUME TypeOK, TablesOK, NEW s \in tasks, CreateSocialSetting(s)
    PROVE  TypeOK' /\ TablesOK' /\ UNCHANGED <<tab, request, done, effective, late, after>>
<1> PICK i : i = Len(setting) + 1
  OBVIOUS
<1>1. /\ tasks' = tasks \ {s}
      /\ \/ setting' = Append(setting, s) /\ spoilt' = spoilt
         \/ spoilt' = spoilt \union {s.tab} /\ setting' = setting
      /\ UNCHANGED <<network, tab, member, request, bounds, torn, done, effective, late, after>>
  BY DEF CreateSocialSetting
<1>2. s \in Settings /\ s.tab \in DOMAIN tab
  BY DEF TypeOK, TablesOK, RowsOK
<1>3. /\ setting' \in Seq(Settings) /\ DOMAIN setting \subseteq DOMAIN setting'
      /\ \A j \in DOMAIN setting : setting'[j] = setting[j]
      /\ \A j \in DOMAIN setting' : setting'[j].tab \in DOMAIN tab
      /\ setting' = Append(setting, s) => /\ DOMAIN setting' = DOMAIN setting \union {i}
                                          /\ i \notin DOMAIN setting /\ setting'[i] = s
  <2>1. setting \in Seq(Settings)
    BY DEF TypeOK
  <2>2. \A j \in DOMAIN setting : setting[j].tab \in DOMAIN tab
    BY DEF TablesOK, RowsOK
  <2>3. CASE setting' = Append(setting, s)
    BY <1>2, <2>1, <2>2, <2>3
  <2>4. CASE setting' = setting
    <3>1. i \notin DOMAIN setting
      BY <2>1
    <3>2. Len(Append(setting, s)) # Len(setting)
      BY <1>2, <2>1
    <3> QED
      BY <2>1, <2>2, <2>4, <3>1, <3>2
  <2> QED
    BY <1>1, <2>3, <2>4
<1>4. spoilt \subseteq spoilt' /\ spoilt' \subseteq DOMAIN tab
  BY <1>1, <1>2 DEF TypeOK
<1>5. TypeOK'
  <2>1. UNCHANGED <<crashes, toggles, messages, updates>>
    BY <1>1 DEF bounds
  <2>2. tasks' \subseteq Settings
    BY <1>1 DEF TypeOK
  <2> QED
    BY <1>1, <1>3, <1>4, <2>1, <2>2 DEF TypeOK
<1>6. RequestsOK' /\ RowsOK' /\ OneTab'
  <2>1. RequestsOK'
    BY <1>1, <1>3 DEF TablesOK, RequestsOK, RequestOK
  <2>2. RowsOK'
    BY <1>1, <1>3 DEF TablesOK, RowsOK
  <2>3. OneTab'
    BY <1>1 DEF TablesOK, OneTab, AwaitsTab
  <2> QED
    BY <2>1, <2>2, <2>3
<1>7. NoSilentHalfConnection'
  BY <1>1 DEF TablesOK, NoSilentHalfConnection, Connecting, Shown, GivenUp, GetAllSocialTab
<1>8. SettingsComplete'
  <2>1. ASSUME NEW x, x # s PROVE Copies(x)' = Copies(x)
    <3>1. Inserted(x)' = Inserted(x)
      BY <1>1, <1>3, <2>1 DEF Inserted
    <3> QED
      BY <1>1, <2>1, <3>1 DEF Copies
  <2>2. ASSUME setting' = Append(setting, s), Copies(s) = 1 PROVE Copies(s)' = 1
    <3>1. Inserted(s)' = Inserted(s) \union {i} /\ i \notin Inserted(s)
      BY <1>3, <2>2 DEF Inserted
    <3>2. IsFiniteSet(Inserted(s))
      <4>1. Len(setting) \in Nat /\ Inserted(s) \subseteq 1..Len(setting)
        BY DEF Inserted, TypeOK
      <4> QED
        BY <4>1, UpTo, FS_Subset
    <3>3. Cardinality(Inserted(s)) \in Nat /\ Cardinality(Inserted(s)) = 0
      BY <2>2, <3>2, FS_CardinalityType DEF Copies
    <3>4. Cardinality(Inserted(s) \union {i}) = Cardinality(Inserted(s)) + 1
      BY <3>1, <3>2, FS_AddElement
    <3>5. s \notin tasks'
      BY <1>1
    <3> QED
      BY <3>1, <3>3, <3>4, <3>5 DEF Copies
  <2>3. SUFFICES ASSUME NEW t \in DOMAIN tab \ spoilt', NEW k \in Keys
                 PROVE  Copies([tab |-> t, key |-> k])' = 1
    BY <1>1, NextSettingsAre
  <2> PICK x : x = [tab |-> t, key |-> k]
    OBVIOUS
  <2>4. Copies(x) = 1
    BY <1>4, SettingsAre DEF TablesOK
  <2>5. x = s => setting' = Append(setting, s)
    BY <1>1
  <2>6. Copies(x)' = 1
    BY <2>1, <2>2, <2>4, <2>5
  <2> QED
    BY <2>6
<1> QED
  BY <1>1, <1>5, <1>6, <1>7, <1>8 DEF TablesOK

(* The update of a setting, which may write over another row.              *)
LEMMA UpdateSettingTables ==
    ASSUME TypeOK, TablesOK, NEW c \in Clients, UpdateSocialSetting(c)
    PROVE  /\ TypeOK' /\ TablesOK' /\ Begins(c)
           /\ UNCHANGED <<tab, done, effective, late, after>>
<1> PICK i, s : i = request[c].row /\ s = request[c].data
  OBVIOUS
<1>1. /\ request[c].pc = "setting" /\ setting' = [setting EXCEPT ![i] = s] /\ Goto(c, Idle)
      /\ spoilt' = IF setting[i] = s THEN spoilt ELSE spoilt \union {s.tab, setting[i].tab}
      /\ UNCHANGED <<network, tab, member, tasks, bounds, torn, done, effective, late, after>>
  BY DEF UpdateSocialSetting, Answer
<1>2. /\ i \in DOMAIN setting /\ s \in Settings /\ s.tab \in DOMAIN tab
      /\ setting[i].tab \in DOMAIN tab /\ setting \in Seq(Settings)
  BY <1>1, RequestIs DEF TypeOK, TablesOK, RequestsOK, RequestOK, RowsOK
<1>3. /\ setting' \in Seq(Settings) /\ DOMAIN setting' = DOMAIN setting
      /\ setting'[i] = s /\ \A j \in DOMAIN setting : j # i => setting'[j] = setting[j]
  BY <1>1, <1>2
<1>4. Goes(c, Idle)
  BY <1>1, GotoGoes, IdleIs
<1>5. spoilt \subseteq spoilt' /\ spoilt' \subseteq DOMAIN tab
  BY <1>1, <1>2 DEF TypeOK
<1>6. TypeOK'
  <2>1. UNCHANGED <<crashes, toggles, messages, updates>>
    BY <1>1 DEF bounds
  <2>2. request' \in [Clients -> Requests]
    BY <1>4 DEF Goes
  <2> QED
    BY <1>1, <1>3, <1>5, <2>1, <2>2 DEF TypeOK
<1>7. RequestsOK'
  <2>1. ASSUME NEW d \in Clients, d # c PROVE RequestOK(request[d])'
    <3>1. RequestOK(request[d]) /\ request'[d] = request[d]
      BY <1>4, <2>1 DEF TablesOK, RequestsOK, Goes
    <3> QED
      BY <1>1, <1>3, <3>1 DEF RequestOK
  <2>2. RequestOK(request[c])'
    BY <1>4, IdleIs DEF RequestOK, Goes
  <2> QED
    BY <2>1, <2>2 DEF RequestsOK
<1>8. RowsOK'
  BY <1>1, <1>2, <1>3 DEF TablesOK, RowsOK
<1>9. OneTab' /\ NoSilentHalfConnection'
  <2>1. \A d \in Clients : /\ AwaitsTab(d)' <=> AwaitsTab(d)
                           /\ AwaitsTab(d) => request'[d] = request[d]
    BY <1>1, <1>4, IdleIs DEF AwaitsTab, Goes
  <2>2. OneTab'
    BY <1>1, <2>1 DEF TablesOK, OneTab
  <2>3. \A n : Connecting(n) => Connecting(n)'
    BY <1>1, <1>4 DEF Connecting, Goes
  <2>4. NoSilentHalfConnection'
    BY <1>1, <2>3 DEF TablesOK, NoSilentHalfConnection, Shown, GivenUp, GetAllSocialTab
  <2> QED
    BY <2>2, <2>4
<1>10. SettingsComplete'
  <2>1. SUFFICES ASSUME NEW t \in DOMAIN tab \ spoilt', NEW k \in Keys
                 PROVE  Copies([tab |-> t, key |-> k])' = 1
    BY <1>1, NextSettingsAre
  <2> PICK x : x = [tab |-> t, key |-> k]
    OBVIOUS
  <2>2. Copies(x) = 1
    BY <1>5, SettingsAre DEF TablesOK
  <2>3. setting[i] = s \/ (s.tab # t /\ setting[i].tab # t)
    BY <1>1, <2>1
  <2>4. Inserted(x)' = Inserted(x)
    <3>1. \A j \in DOMAIN setting : setting'[j] = x <=> setting[j] = x
      <4> TAKE j \in DOMAIN setting
      <4>1. CASE j # i
        BY <1>3, <4>1
      <4>2. CASE j = i
        BY <1>3, <2>3, <4>2
      <4> QED
        BY <4>1, <4>2
    <3> QED
      BY <1>3, <3>1 DEF Inserted
  <2>5. Copies(x)' = 1
    BY <1>1, <2>2, <2>4 DEF Copies
  <2> QED
    BY <2>5
<1>11. Begins(c)
  BY <1>4, IdleIs DEF Begins
<1> QED
  BY <1>1, <1>6, <1>7, <1>8, <1>9, <1>10, <1>11 DEF TablesOK

(* A request that only begins.                                             *)
LEMMA BeginningTables ==
    ASSUME TypeOK, TablesOK, NEW c \in Clients, NEW r \in Requests,
           Goto(c, r), request[c] = Idle, RequestOK(r), r.pc \notin {"tab", "member"},
           UNCHANGED <<tables, tasks, history, crashes>>,
           toggles' \in Nat, messages' \in Nat, updates' \in Nat
    PROVE  TypeOK' /\ TablesOK' /\ Goes(c, r)
<1>1. Goes(c, r)
  BY GotoGoes
<1>2. UNCHANGED <<network, tab, setting, member, tasks, crashes, torn, spoilt,
                  done, effective, late, after>>
  BY DEF tables, history
<1>3. TypeOK'
  <2>1. request' \in [Clients -> Requests]
    BY <1>1 DEF Goes
  <2> QED
    BY <1>2, <2>1 DEF TypeOK
<1>4. RequestOK(r)' /\ TabsStay
  BY <1>2 DEF RequestOK, TabsStay
<1>5. TablesOK'
  BY <1>1, <1>2, <1>4, IdleIs, TablesKept
<1> QED
  BY <1>1, <1>3, <1>5

LEMMA FindSettingTables ==
    ASSUME TypeOK, TablesOK, NEW c \in Clients, NEW i \in DOMAIN setting,
           NEW s \in Settings, FindSocialSetting(c, i, s)
    PROVE  /\ TypeOK' /\ TablesOK'
           /\ Begins(c) /\ UNCHANGED <<tab, history>>
<1>r. PICK r : r = [pc |-> "setting", row |-> i, data |-> s]
  OBVIOUS
<1>1. /\ request[c] = Idle /\ Goto(c, r) /\ updates' = updates + 1
      /\ \E j \in DOMAIN setting : setting[j] = s
      /\ UNCHANGED <<tables, tasks, crashes, toggles, messages, history>>
  BY <1>r DEF FindSocialSetting, Arrive
<1>2. r.pc = "setting" /\ r.row = i /\ r.data = s /\ i \in Nat \ {0}
  BY <1>r DEF TypeOK
<1>3. r \in Requests
  BY <1>r, <1>2 DEF Requests
<1>4. RequestOK(r)
  BY <1>1, <1>2 DEF TablesOK, RowsOK, RequestOK
<1>5. toggles' \in Nat /\ messages' \in Nat /\ updates' \in Nat
  BY <1>1, TypesAre
<1> QED
  BY <1>1, <1>2, <1>3, <1>4, <1>5, BeginningTables DEF Begins, tables

LEMMA GetTabTables ==
    ASSUME TypeOK, TablesOK, NEW c \in Clients, NEW t \in Tabs,
           NEW kind \in {"toggle", "remove"}, GetSocialTabById(c, t, kind)
    PROVE  /\ TypeOK' /\ TablesOK'
           /\ Begins(c) /\ UNCHANGED <<tab, history>>
<1>r. PICK r : r = [pc |-> kind, tab |-> t, isWorked |-> tab[t].isWorked]
  OBVIOUS
<1>1. /\ request[c] = Idle /\ Goto(c, r) /\ toggles' = toggles + 1
      /\ t \in DOMAIN tab /\ ~tab[t].delete
      /\ UNCHANGED <<tables, tasks, crashes, messages, updates, history>>
  BY <1>r DEF GetSocialTabById, Arrive
<1>0. tab[t].isWorked \in BOOLEAN
  BY <1>1, TypesAre
<1>2. r.pc = kind /\ r.tab = t /\ r.isWorked = tab[t].isWorked
  BY <1>r
<1>3. r \in Requests
  BY <1>0, <1>1, <1>r DEF Requests
<1>4. RequestOK(r)
  BY <1>1, <1>2 DEF RequestOK
<1>5. toggles' \in Nat /\ messages' \in Nat /\ updates' \in Nat
  BY <1>1, TypesAre
<1> QED
  BY <1>1, <1>2, <1>3, <1>4, <1>5, BeginningTables DEF Begins, tables

LEMMA IntakeTables ==
    ASSUME TypeOK, TablesOK, NEW c \in Clients, NEW page \in Pages, Intake(c, page)
    PROVE  /\ TypeOK' /\ TablesOK'
           /\ Begins(c) /\ UNCHANGED <<tab, history>>
<1>a. PICK t \in DOMAIN tab : ~tab[t].isWorked /\ Goto(c, [pc |-> "store", tab |-> t])
  BY DEF Intake, GetTabByNetworkId
<1>r. PICK r : r = [pc |-> "store", tab |-> t]
  OBVIOUS
<1>1. /\ request[c] = Idle /\ Goto(c, r) /\ messages' = messages + 1
      /\ UNCHANGED <<tables, tasks, crashes, toggles, updates, history>>
  BY <1>a, <1>r DEF Intake, Arrive
<1>2. r.pc = "store" /\ r.tab = t
  BY <1>r
<1>0. t \in Tabs
  BY TabsAre
<1>3. r \in Requests
  BY <1>0, <1>r DEF Requests
<1>4. RequestOK(r)
  BY <1>1, <1>2 DEF RequestOK
<1>5. toggles' \in Nat /\ messages' \in Nat /\ updates' \in Nat
  BY <1>1, TypesAre
<1> QED
  BY <1>a, <1>1, <1>2, <1>3, <1>4, <1>5, BeginningTables DEF Begins, tables

(* The update of a tab, which leaves its network and its removal.          *)
LEMMA UpdatingTables ==
    ASSUME TypeOK, TablesOK, NEW c \in Clients, NEW t \in DOMAIN tab,
           NEW x \in [network : Tabs, delete : BOOLEAN, isWorked : BOOLEAN],
           x.network = tab[t].network, tab[t].delete => x.delete,
           UpdateTab(t, x), Answer(c), request[c].pc \notin {"tab", "member"},
           UNCHANGED <<network, setting, member, tasks, bounds, torn, spoilt>>,
           done' \in [Tabs -> Nat], effective' \in [Tabs -> Nat],
           late' \in [Tabs -> Nat], after' \in [Tabs -> Nat]
    PROVE  /\ TypeOK' /\ TablesOK' /\ Goes(c, Idle)
           /\ DOMAIN tab' = DOMAIN tab /\ tab'[t] = x
           /\ \A u \in DOMAIN tab : u # t => tab'[u] = tab[u]
<1>1. Goes(c, Idle)
  BY GotoGoes, IdleIs DEF Answer
<1>2. /\ tab' \in Seq([network : Tabs, delete : BOOLEAN, isWorked : BOOLEAN])
      /\ DOMAIN tab' = DOMAIN tab /\ tab'[t] = x
      /\ \A u \in DOMAIN tab : u # t => tab'[u] = tab[u]
  <2>1. PICK S : S = [network : Tabs, delete : BOOLEAN, isWorked : BOOLEAN]
    OBVIOUS
  <2>2. tab \in Seq(S) /\ x \in S
    BY <2>1 DEF TypeOK
  <2>3. tab' = [tab EXCEPT ![t] = x]
    BY DEF UpdateTab
  <2>4. /\ tab' \in Seq(S) /\ DOMAIN tab' = DOMAIN tab /\ tab'[t] = x
        /\ \A u \in DOMAIN tab : u # t => tab'[u] = tab[u]
    BY <2>2, <2>3
  <2> QED
    BY <2>1, <2>4
<1>3. TabsStay
  <2>1. ASSUME NEW u \in DOMAIN tab
        PROVE  tab'[u].network = tab[u].network /\ (tab[u].delete => tab'[u].delete)
    <3>1. CASE u = t
      BY <1>2, <3>1
    <3>2. CASE u # t
      BY <1>2, <3>2
    <3> QED
      BY <3>1, <3>2
  <2> QED
    BY <1>2, <2>1 DEF TabsStay
<1>4. TypeOK'
  <2>1. request' \in [Clients -> Requests]
    BY <1>1 DEF Goes
  <2>2. UNCHANGED <<crashes, toggles, messages, updates>>
    BY DEF bounds
  <2>3. spoilt' \subseteq DOMAIN tab'
    BY <1>2 DEF TypeOK
  <2> QED
    BY <1>2, <2>1, <2>2, <2>3 DEF TypeOK
<1>5. RequestOK(Idle)'
  BY IdleIs DEF RequestOK
<1>6. TablesOK'
  BY <1>1, <1>3, <1>5, IdleIs, TablesKept
<1> QED
  BY <1>1, <1>2, <1>4, <1>6

LEMMA Incremented ==
    ASSUME NEW f \in [Tabs -> Nat], NEW t \in Tabs, NEW b \in BOOLEAN
    PROVE  /\ Increment(f, t, b) \in [Tabs -> Nat]
           /\ Increment(f, t, b)[t] = f[t] + (IF b THEN 1 ELSE 0)
           /\ \A u \in Tabs : u # t => Increment(f, t, b)[u] = f[u]
BY DEF Increment

LEMMA UpdateWorkingTables ==
    ASSUME TypeOK, TablesOK, NEW c \in Clients, UpdateWorkingState(c)
    PROVE  /\ TypeOK' /\ TablesOK' /\ Goes(c, Idle)
           /\ request[c].pc = "toggle" /\ request[c].isWorked \in BOOLEAN
           /\ request[c].tab \in DOMAIN tab /\ request[c].tab \in Tabs
           /\ DOMAIN tab' = DOMAIN tab
           /\ tab'[request[c].tab].isWorked = ~request[c].isWorked
           /\ tab'[request[c].tab].delete = tab[request[c].tab].delete
           /\ \A u \in DOMAIN tab : u # request[c].tab => tab'[u] = tab[u]
           /\ done' = Increment(done, request[c].tab, TRUE)
           /\ effective' = Increment(effective, request[c].tab,
                                     tab[request[c].tab].isWorked # ~request[c].isWorked)
           /\ after' = Increment(after, request[c].tab, tab[request[c].tab].delete)
           /\ late' = late
<1>a. PICK p, t : p = request[c] /\ t = request[c].tab
  OBVIOUS
<1>b. PICK x : x = [tab[t] EXCEPT !.isWorked = ~p.isWorked]
  OBVIOUS
<1>1. /\ p.pc = "toggle" /\ UpdateTab(t, x) /\ Answer(c)
      /\ done' = Increment(done, t, TRUE)
      /\ effective' = Increment(effective, t, tab[t].isWorked # ~p.isWorked)
      /\ after' = Increment(after, t, tab[t].delete)
      /\ UNCHANGED <<network, setting, member, tasks, bounds, torn, spoilt, late>>
  BY <1>a, <1>b DEF UpdateWorkingState
<1>2. p.isWorked \in BOOLEAN /\ t \in DOMAIN tab /\ t \in Tabs
  <2>1. p \in Requests /\ RequestOK(p)
    BY <1>a, TypesAre DEF TablesOK, RequestsOK
  <2> QED
    BY <1>1, <1>a, <2>1, RequestIs DEF RequestOK
<1>3. /\ x \in [network : Tabs, delete : BOOLEAN, isWorked : BOOLEAN]
      /\ x.network = tab[t].network /\ x.delete = tab[t].delete /\ x.isWorked = ~p.isWorked
      /\ tab[t].delete \in BOOLEAN /\ tab[t].isWorked \in BOOLEAN
  <2>1. tab[t] \in [network : Tabs, delete : BOOLEAN, isWorked : BOOLEAN]
    BY <1>2, TypesAre
  <2> QED
    BY <1>2, <1>b, <2>1
<1>4. /\ done' \in [Tabs -> Nat] /\ effective' \in [Tabs -> Nat] /\ after' \in [Tabs -> Nat]
      /\ late' \in [Tabs -> Nat]
  BY <1>1, <1>2, <1>3, TypesAre, Incremented
<1>5. /\ TypeOK' /\ TablesOK' /\ Goes(c, Idle)
      /\ DOMAIN tab' = DOMAIN tab /\ tab'[t] = x
      /\ \A u \in DOMAIN tab : u # t => tab'[u] = tab[u]
  <2>1. request[c].pc \notin {"tab", "member"}
    BY <1>1, <1>a
  <2> QED
    BY <1>1, <1>2, <1>3, <1>4, <2>1, UpdatingTables
<1> QED
  BY <1>1, <1>2, <1>3, <1>5, <1>a

LEMMA RemoveTables ==
    ASSUME TypeOK, TablesOK, NEW c \in Clients, RemoveTab(c)
    PROVE  /\ TypeOK' /\ TablesOK' /\ Goes(c, Idle)
           /\ request[c].pc = "remove" /\ request[c].tab \in DOMAIN tab
           /\ DOMAIN tab' = DOMAIN tab
           /\ tab'[request[c].tab].isWorked = tab[request[c].tab].isWorked
           /\ tab'[request[c].tab].delete
           /\ \A u \in DOMAIN tab : u # request[c].tab => tab'[u] = tab[u]
           /\ UNCHANGED <<done, effective, late, after>>
<1>a. PICK p, t : p = request[c] /\ t = request[c].tab
  OBVIOUS
<1>b. PICK x : x = [tab[t] EXCEPT !.delete = TRUE]
  OBVIOUS
<1>1. /\ p.pc = "remove" /\ UpdateTab(t, x) /\ Answer(c)
      /\ UNCHANGED <<network, setting, member, tasks, bounds, history>>
  BY <1>a, <1>b DEF RemoveTab
<1>2. t \in DOMAIN tab
  <2>1. RequestOK(p)
    BY <1>a DEF TablesOK, RequestsOK
  <2> QED
    BY <1>1, <1>a, <2>1 DEF RequestOK
<1>3. /\ x \in [network : Tabs, delete : BOOLEAN, isWorked : BOOLEAN]
      /\ x.network = tab[t].network /\ x.delete /\ x.isWorked = tab[t].isWorked
  <2>1. tab[t] \in [network : Tabs, delete : BOOLEAN, isWorked : BOOLEAN]
    BY <1>2, TypesAre
  <2> QED
    BY <1>b, <2>1
<1>4. /\ UNCHANGED <<torn, spoilt, done, effective, late, after>>
      /\ done' \in [Tabs -> Nat] /\ effective' \in [Tabs -> Nat] /\ after' \in [Tabs -> Nat]
      /\ late' \in [Tabs -> Nat]
  BY <1>1, TypesAre DEF history
<1>5. /\ TypeOK' /\ TablesOK' /\ Goes(c, Idle)
      /\ DOMAIN tab' = DOMAIN tab /\ tab'[t] = x
      /\ \A u \in DOMAIN tab : u # t => tab'[u] = tab[u]
  <2>1. request[c].pc \notin {"tab", "member"}
    BY <1>1, <1>a
  <2> QED
    BY <1>1, <1>2, <1>3, <1>4, <2>1, UpdatingTables
<1> QED
  BY <1>1, <1>2, <1>3, <1>4, <1>5, <1>a

LEMMA StoreTables ==
    ASSUME TypeOK, TablesOK, NEW c \in Clients, Store(c)
    PROVE  /\ TypeOK' /\ TablesOK' /\ Goes(c, Idle)
           /\ request[c].pc = "store" /\ request[c].tab \in DOMAIN tab
                /\ request[c].tab \in Tabs
           /\ late' = Increment(late, request[c].tab, tab[request[c].tab].isWorked)
           /\ UNCHANGED <<tab, done, effective, after>>
<1>a. PICK p, t : p = request[c] /\ t = request[c].tab
  OBVIOUS
<1>1. /\ p.pc = "store" /\ late' = Increment(late, t, tab[t].isWorked) /\ Answer(c)
      /\ UNCHANGED <<tables, tasks, bounds, torn, spoilt, done, effective, after>>
  BY <1>a DEF Store
<1>2. t \in DOMAIN tab /\ t \in Tabs /\ tab[t].isWorked \in BOOLEAN
  <2>1. p \in Requests /\ RequestOK(p)
    BY <1>a, TypesAre DEF TablesOK, RequestsOK
  <2>2. t \in DOMAIN tab
    BY <1>1, <1>a, <2>1 DEF RequestOK
  <2> QED
    BY <2>2, TabsAre, TypesAre
<1>3. Goes(c, Idle)
  BY <1>1, GotoGoes, IdleIs DEF Answer
<1>4. late' \in [Tabs -> Nat]
  BY <1>1, <1>2, TypesAre, Incremented
<1>5. UNCHANGED <<network, tab, setting, member, crashes, toggles, messages, updates>>
  BY <1>1 DEF tables, bounds
<1>6. TypeOK'
  <2>1. request' \in [Clients -> Requests]
    BY <1>3 DEF Goes
  <2> QED
    BY <1>1, <1>4, <1>5, <2>1 DEF TypeOK
<1>7. RequestOK(Idle)' /\ TabsStay
  BY <1>5, IdleIs DEF RequestOK, TabsStay
<1>8. request[c].pc \notin {"tab", "member"}
  BY <1>1, <1>a
<1>9. TablesOK'
  BY <1>1, <1>3, <1>5, <1>7, <1>8, IdleIs, TablesKept
<1> QED
  BY <1>1, <1>2, <1>3, <1>5, <1>6, <1>9, <1>a

(* The owner is taken off a tab, which is one that was given up by then.   *)
LEMMA UnassignTables ==
    ASSUME TypeOK, TablesOK, NEW m \in member, UnassignUsers(m)
    PROVE  TypeOK' /\ TablesOK' /\ UNCHANGED <<tab, request, done, effective, late, after>>
<1> PICK x : x = [m EXCEPT !.delete = TRUE]
  OBVIOUS
<1>1. /\ member' = (member \ {m}) \union {x}
      /\ UNCHANGED <<network, tab, setting, request, tasks, bounds, history>>
  BY DEF UnassignUsers
<1>2. UNCHANGED <<crashes, toggles, messages, updates, torn, spoilt, done, effective,
                  late, after>>
  BY <1>1 DEF bounds, history
<1>3. /\ m \in [user : Managers, tab : Tabs, delete : BOOLEAN]
      /\ x = [user |-> m.user, tab |-> m.tab, delete |-> TRUE]
      /\ m.user \in Managers /\ m.tab \in Tabs
  BY DEF TypeOK
<1>4. TypeOK'
  <2>1. member' \subseteq [user : Managers, tab : Tabs, delete : BOOLEAN]
    BY <1>1, <1>3 DEF TypeOK
  <2> QED
    BY <1>1, <1>2, <2>1 DEF TypeOK
<1>5. RequestsOK' /\ RowsOK' /\ OneTab' /\ SettingsComplete'
  BY <1>1, <1>2 DEF TablesOK, RequestsOK, RequestOK, RowsOK, OneTab, AwaitsTab,
                    SettingsComplete
<1>6. ASSUME NEW t \in DOMAIN tab, Shown(t) \/ GivenUp(t)
      PROVE  (Shown(t) \/ GivenUp(t))'
  <2>1. CASE tab[t].delete
    BY <1>1, <2>1 DEF GivenUp
  <2>2. ASSUME NEW u \in Managers, NEW b \in BOOLEAN, ~tab[t].delete,
               [user |-> u, tab |-> t, delete |-> b] \in member
        PROVE  (Shown(t) \/ GivenUp(t))'
    <3>1. CASE [user |-> u, tab |-> t, delete |-> b] = m
      <4>1. x = [user |-> u, tab |-> t, delete |-> TRUE]
        BY <1>3, <3>1
      <4> QED
        BY <1>1, <4>1 DEF GivenUp
    <3>2. CASE [user |-> u, tab |-> t, delete |-> b] # m
      <4>1. [user |-> u, tab |-> t, delete |-> b] \in member'
        BY <1>1, <2>2, <3>2
      <4> QED
        BY <1>1, <2>2, <4>1 DEF Shown, GivenUp, GetAllSocialTab
    <3> QED
      BY <3>1, <3>2
  <2> QED
    BY <1>6, <2>1, <2>2 DEF Shown, GivenUp, GetAllSocialTab
<1>7. NoSilentHalfConnection'
  <2>1. SUFFICES ASSUME NEW n \in DOMAIN network \ torn, ~Connecting(n)
                 PROVE  \E t \in DOMAIN tab : tab[t].network = n /\ (Shown(t) \/ GivenUp(t))'
    BY <1>1, <1>2 DEF NoSilentHalfConnection, Connecting
  <2> QED
    BY <1>6, <2>1 DEF TablesOK, NoSilentHalfConnection
<1> QED
  BY <1>1, <1>2, <1>4, <1>5, <1>7 DEF TablesOK

(* The process ends: what was under way is torn or spoilt.                 *)
LEMMA CrashTables ==
    ASSUME TypeOK, TablesOK, Crash
    PROVE  /\ TypeOK' /\ TablesOK' /\ \A c \in Clients : request'[c] = Idle
           /\ UNCHANGED <<tab, done, effective, late, after>>
<1>1. /\ request' = [c \in Clients |-> Idle] /\ tasks' = {} /\ crashes' = crashes + 1
      /\ torn' = torn \union {request[c].network :
                     c \in {d \in Clients : request[d].pc \in {"tab", "member"}}}
      /\ spoilt' = spoilt \union {s.tab : s \in tasks}
      /\ UNCHANGED <<network, tab, setting, member, toggles, messages, updates,
                     done, effective, late, after>>
  BY DEF Crash, tables
<1>2. \A n : Connecting(n) => n \in torn'
  BY <1>1 DEF Connecting
<1>3. TypeOK'
  <2>1. torn' \subseteq DOMAIN network
    BY <1>1 DEF TypeOK, TablesOK, RequestsOK, RequestOK
  <2>2. spoilt' \subseteq DOMAIN tab
    BY <1>1 DEF TypeOK, TablesOK, RowsOK
  <2>3. request' \in [Clients -> Requests] /\ tasks' \subseteq Settings
    BY <1>1, IdleIs
  <2>4. crashes' \in Nat
    BY <1>1, TypesAre
  <2> QED
    BY <1>1, <2>1, <2>2, <2>3, <2>4 DEF TypeOK
<1>4. RequestsOK' /\ RowsOK' /\ OneTab'
  <2>1. \A c \in Clients : request'[c] = Idle
    BY <1>1
  <2>2. RequestsOK'
    BY <2>1, IdleIs DEF RequestsOK, RequestOK
  <2>3. RowsOK'
    BY <1>1 DEF TablesOK, RowsOK
  <2>4. OneTab'
    BY <1>1, <2>1, IdleIs DEF TablesOK, OneTab, AwaitsTab
  <2> QED
    BY <2>2, <2>3, <2>4
<1>5. NoSilentHalfConnection'
  <2>1. SUFFICES ASSUME NEW n \in DOMAIN network \ torn'
                 PROVE  \E t \in DOMAIN tab :
                            /\ tab[t].network = n
                            /\ Shown(t) \/ GivenUp(t)
    BY <1>1 DEF NoSilentHalfConnection, Shown, GivenUp, GetAllSocialTab
  <2>2. n \notin torn /\ ~Connecting(n)
    BY <1>1, <1>2
  <2> QED
    BY <2>2 DEF TablesOK, NoSilentHalfConnection
<1>6. SettingsComplete'
  <2>1. SUFFICES ASSUME NEW t \in DOMAIN tab \ spoilt', NEW k \in Keys
                 PROVE  Copies([tab |-> t, key |-> k])' = 1
    BY <1>1, NextSettingsAre
  <2>a. PICK s : s = [tab |-> t, key |-> k]
    OBVIOUS
  <2>2. Copies(s) = 1
    BY <1>1, <2>a, SettingsAre DEF TablesOK
  <2>3. s \notin tasks
    BY <1>1, <2>a
  <2>4. Inserted(s)' = Inserted(s)
    BY <1>1 DEF Inserted
  <2>5. Copies(s)' = 1
    BY <1>1, <2>2, <2>3, <2>4 DEF Copies
  <2> QED
    BY <2>5, <2>a
<1> QED
  BY <1>1, <1>3, <1>4, <1>5, <1>6 DEF TablesOK

LEMMA InitTables ==
    ASSUME Init
    PROVE  TypeOK /\ TablesOK
<1>1. TypeOK
  <2>1. \A S : << >> \in Seq(S)
    OBVIOUS
  <2>2. Len(network) <= MaxNetworks
    BY LifecycleAssumption DEF Init
  <2> QED
    BY <2>1, <2>2, IdleIs DEF Init, TypeOK
<1>2. DOMAIN network = {} /\ DOMAIN tab = {} /\ DOMAIN setting = {}
  BY DEF Init
<1>3. RequestsOK /\ RowsOK /\ OneTab
  BY <1>2, IdleIs DEF Init, RequestsOK, RequestOK, RowsOK, OneTab, AwaitsTab
<1>4. NoSilentHalfConnection /\ SettingsComplete
  BY <1>2 DEF NoSilentHalfConnection, SettingsComplete
<1> QED
  BY <1>1, <1>3, <1>4 DEF TablesOK
-----------------------------------------------------------------------------
(* What was written of one tab, and what its requests in flight can add to *)
(* that: e toggles took effect of d, l messages were stored late, s toggles *)
(* are stale and m messages on their way.                                  *)
Within(e, d, l, s, m) ==
    /\ d + s <= Cardinality(Clients) * e
    /\ l + (IF e % 2 = 1 THEN m ELSE 0) <= Others * ((e + 1) \div 2)

RemovalOK(t) ==
    IF tab[t].delete THEN after[t] + Cardinality(InFlight("toggle", t)) <= Others
                     ELSE after[t] = 0

TabOK(t) ==
    /\ tab[t].isWorked <=> effective[t] % 2 = 1
    /\ RemovalOK(t)
    /\ Within(effective[t], done[t], late[t],
              Cardinality(Stale(t)), Cardinality(InFlight("store", t)))

LateOK == (\A t \in DOMAIN tab : TabOK(t)) /\ FreshOK

LEMMA LateIs == LateOK <=> TogglesOK /\ PausesOK /\ RemovalsOK /\ FreshOK
BY DEF LateOK, TabOK, RemovalOK, Within, TogglesOK, PausesOK, RemovalsOK

LEMMA NothingWritten == 0 % 2 # 1 /\ Within(0, 0, 0, 0, 0)
<1>1. (0 + 1) \div 2 = 0 /\ 0 % 2 # 1
  OBVIOUS
<1>2. Cardinality(Clients) * 0 = 0 /\ Others * 0 = 0
  BY Sizes
<1> QED
  BY <1>1, <1>2 DEF Within

(* Fewer in flight.                                                        *)
LEMMA FewerInFlight ==
    ASSUME NEW e \in Nat, NEW d \in Nat, NEW l \in Nat, NEW s \in Nat, NEW m \in Nat,
           NEW s2 \in Nat, NEW m2 \in Nat,
           Within(e, d, l, s, m), s2 <= s, e % 2 = 1 => m2 <= m
    PROVE  Within(e, d, l, s2, m2)
<1>a. PICK p, q : p = Cardinality(Clients) * e /\ q = Others * ((e + 1) \div 2)
  OBVIOUS
<1>1. p \in Nat /\ q \in Nat
  BY <1>a, Sizes, Products, Halves
<1>2. d + s <= p /\ l + (IF e % 2 = 1 THEN m ELSE 0) <= q
  BY <1>a DEF Within
<1>3. d + s2 <= p /\ l + (IF e % 2 = 1 THEN m2 ELSE 0) <= q
  BY <1>1, <1>2
<1> QED
  BY <1>3, <1>a DEF Within

(* A toggle that takes effect: at most every other request is stale, or    *)
(* goes on to store in the paused tab, now.                                *)
LEMMA Effective ==
    ASSUME NEW e \in Nat, NEW d \in Nat, NEW l \in Nat, NEW s \in Nat, NEW m \in Nat,
           NEW s2 \in Nat, NEW m2 \in Nat,
           Within(e, d, l, s, m), s2 <= Others, m2 <= Others
    PROVE  Within(e + 1, d + 1, l, s2, m2) /\ ((e + 1) % 2 = 1 <=> e % 2 # 1)
<1>b. PICK e2, d2 : e2 = e + 1 /\ d2 = d + 1
  OBVIOUS
<1>a. PICK k, h, h2 : /\ k = Cardinality(Clients)
                      /\ h = (e + 1) \div 2 /\ h2 = (e2 + 1) \div 2
  OBVIOUS
<1>1. /\ k \in Nat /\ Others \in Nat /\ k = Others + 1
      /\ k * e \in Nat /\ k * e2 = k * e + k
  BY <1>a, <1>b, Sizes, Products
<1>2. /\ h \in Nat /\ Others * h \in Nat /\ Others * (h + 1) = Others * h + Others
      /\ (e % 2 = 1 <=> e2 % 2 # 1)
      /\ (e % 2 = 1 => h2 = h) /\ (e % 2 # 1 => h2 = h + 1)
  BY <1>a, <1>b, <1>1, Halves, Products
<1>3. d + s <= k * e /\ l + (IF e % 2 = 1 THEN m ELSE 0) <= Others * h
  BY <1>a DEF Within
<1>4. d2 + s2 <= k * e2
  BY <1>b, <1>1, <1>3
<1>5. l + (IF e2 % 2 = 1 THEN m2 ELSE 0) <= Others * h2
  BY <1>1, <1>2, <1>3
<1> QED
  BY <1>2, <1>4, <1>5, <1>a, <1>b DEF Within

(* A stale toggle, which is one of those that were counted.                *)
LEMMA Lost ==
    ASSUME NEW e \in Nat, NEW d \in Nat, NEW l \in Nat, NEW s \in Nat, NEW m \in Nat,
           NEW s2 \in Nat, NEW m2 \in Nat, NEW d2,
           Within(e, d, l, s, m), s2 + 1 = s, m2 <= m, d2 = d + 1
    PROVE  Within(e, d2, l, s2, m2)
<1>a. PICK p, q : p = Cardinality(Clients) * e /\ q = Others * ((e + 1) \div 2)
  OBVIOUS
<1>1. p \in Nat /\ q \in Nat
  BY <1>a, Sizes, Products, Halves
<1>2. d + s <= p /\ l + (IF e % 2 = 1 THEN m ELSE 0) <= q
  BY <1>a DEF Within
<1>3. d2 + s2 <= p /\ l + (IF e % 2 = 1 THEN m2 ELSE 0) <= q
  BY <1>1, <1>2
<1> QED
  BY <1>3, <1>a DEF Within

(* A message stored in a paused tab is one of those that were counted.     *)
LEMMA StoredLate ==
    ASSUME NEW e \in Nat, NEW d \in Nat, NEW l \in Nat, NEW s \in Nat, NEW m \in Nat,
           NEW s2 \in Nat, NEW m2 \in Nat, NEW l2,
           Within(e, d, l, s, m), s2 <= s, m2 + 1 = m,
           l2 = l + (IF e % 2 = 1 THEN 1 ELSE 0)
    PROVE  Within(e, d, l2, s2, m2)
<1>a. PICK p, q : p = Cardinality(Clients) * e /\ q = Others * ((e + 1) \div 2)
  OBVIOUS
<1>1. p \in Nat /\ q \in Nat
  BY <1>a, Sizes, Products, Halves
<1>2. d + s <= p /\ l + (IF e % 2 = 1 THEN m ELSE 0) <= q
  BY <1>a DEF Within
<1>3. d + s2 <= p /\ l2 + (IF e % 2 = 1 THEN m2 ELSE 0) <= q
  BY <1>1, <1>2
<1> QED
  BY <1>3, <1>a DEF Within
-----------------------------------------------------------------------------
(* The requests in flight after one of them went on.                       *)
LEMMA Flights ==
    ASSUME NEW c \in Clients, NEW r, Goes(c, r), NEW kind, NEW t
    PROVE  /\ InFlight(kind, t)' \ {c} = InFlight(kind, t) \ {c}
           /\ c \in InFlight(kind, t)' <=> r.pc = kind /\ r.tab = t
           /\ InFlight(kind, t) \in SUBSET Clients /\ InFlight(kind, t)' \in SUBSET Clients
           /\ Stale(t) \in SUBSET Clients /\ Stale(t)' \in SUBSET Clients
BY DEF Goes, InFlight, Stale

LEMMA StaleAre ==
    ASSUME NEW c \in Clients, NEW r, Goes(c, r), NEW t,
           tab'[t].isWorked = tab[t].isWorked
    PROVE  /\ Stale(t)' \ {c} = Stale(t) \ {c}
           /\ c \in Stale(t)' <=> r.pc = "toggle" /\ r.tab = t /\ r.isWorked # tab[t].isWorked
BY DEF Goes, InFlight, Stale

LEMMA CountsOf ==
    ASSUME NEW S \in SUBSET Clients
    PROVE  Cardinality(S) \in Nat
BY Fewer

LEMMA Counted ==
    ASSUME TypeOK, NEW t \in DOMAIN tab, t \in Tabs
    PROVE  /\ effective[t] \in Nat /\ done[t] \in Nat /\ late[t] \in Nat /\ after[t] \in Nat
           /\ tab[t].isWorked \in BOOLEAN /\ tab[t].delete \in BOOLEAN
           /\ Cardinality(Stale(t)) \in Nat /\ Cardinality(InFlight("store", t)) \in Nat
           /\ Cardinality(InFlight("toggle", t)) \in Nat
<1>1. Stale(t) \in SUBSET Clients /\ \A kind : InFlight(kind, t) \in SUBSET Clients
  BY DEF Stale, InFlight
<1>2. /\ Cardinality(Stale(t)) \in Nat /\ Cardinality(InFlight("store", t)) \in Nat
      /\ Cardinality(InFlight("toggle", t)) \in Nat
  BY <1>1, CountsOf
<1> QED
  BY <1>2, TypesAre

(* A tab that a step leaves alone, with fewer requests in flight.          *)
LEMMA TabRests ==
    ASSUME TypeOK, NEW t \in DOMAIN tab, t \in Tabs, TabOK(t),
           tab'[t].isWorked = tab[t].isWorked, tab'[t].delete = tab[t].delete,
           effective'[t] = effective[t], done'[t] = done[t], late'[t] = late[t],
           after'[t] = after[t],
           Stale(t)' \in SUBSET Stale(t),
           tab[t].isWorked => InFlight("store", t)' \in SUBSET InFlight("store", t),
           tab[t].delete => InFlight("toggle", t)' \in SUBSET InFlight("toggle", t)
    PROVE  TabOK(t)'
<1>a. PICK s, m, s2, m2 :
          /\ s = Cardinality(Stale(t)) /\ m = Cardinality(InFlight("store", t))
          /\ s2 = Cardinality(Stale(t)') /\ m2 = Cardinality(InFlight("store", t)')
  OBVIOUS
<1>b. PICK e, d, l : e = effective[t] /\ d = done[t] /\ l = late[t]
  OBVIOUS
<1>1. /\ Stale(t) \in SUBSET Clients /\ \A kind : InFlight(kind, t) \in SUBSET Clients
      /\ Stale(t)' \in SUBSET Clients /\ \A kind : InFlight(kind, t)' \in SUBSET Clients
  BY DEF Stale, InFlight
<1>2. s \in Nat /\ m \in Nat /\ s2 \in Nat /\ m2 \in Nat
  BY <1>1, <1>a, CountsOf
<1>3. s2 <= s
  BY <1>1, <1>a, Fewer
<1>4. (e % 2 = 1 <=> tab[t].isWorked) /\ Within(e, d, l, s, m) /\ RemovalOK(t)
  BY <1>a, <1>b DEF TabOK
<1>5. e % 2 = 1 => m2 <= m
  BY <1>1, <1>4, <1>a, Fewer
<1>6. e \in Nat /\ d \in Nat /\ l \in Nat
  BY <1>b, Counted
<1>7. Within(e, d, l, s2, m2)
  BY <1>2, <1>3, <1>4, <1>5, <1>6, FewerInFlight
<1>8. RemovalOK(t)'
  <2>a. PICK g, g2, a : /\ g = Cardinality(InFlight("toggle", t)) /\ a = after[t]
                        /\ g2 = Cardinality(InFlight("toggle", t)')
    OBVIOUS
  <2>1. g \in Nat /\ g2 \in Nat /\ a \in Nat /\ Others \in Nat
    BY <1>1, <2>a, CountsOf, Counted, Sizes
  <2>2. tab[t].delete => g2 <= g
    BY <1>1, <2>a, Fewer
  <2>3. IF tab[t].delete THEN a + g <= Others ELSE a = 0
    BY <1>4, <2>a DEF RemovalOK
  <2>4. IF tab[t].delete THEN a + g2 <= Others ELSE a = 0
    BY <2>1, <2>2, <2>3
  <2> QED
    BY <2>4, <2>a DEF RemovalOK
<1> QED
  BY <1>4, <1>7, <1>8, <1>a, <1>b DEF TabOK

LEMMA BeginningRests ==
    ASSUME TypeOK, TablesOK, LateOK, NEW c \in Clients, Begins(c),
           UNCHANGED <<done, effective, late, after>>,
           DOMAIN tab \subseteq DOMAIN tab', DOMAIN tab' \subseteq Tabs,
           \A t \in DOMAIN tab : tab'[t] = tab[t],
           \A t \in DOMAIN tab' \ DOMAIN tab : ~tab'[t].isWorked /\ ~tab'[t].delete,
           \A t \in DOMAIN tab' : tab'[t].isWorked \in BOOLEAN /\ tab'[t].delete \in BOOLEAN
    PROVE  LateOK'
<1>a. PICK r \in Requests :
          /\ Goes(c, r)
          /\ r.pc \in {"toggle", "store"} => r.tab \in DOMAIN tab
          /\ r.pc = "toggle" => r.isWorked = tab[r.tab].isWorked /\ ~tab[r.tab].delete
          /\ r.pc = "store" => ~tab[r.tab].isWorked
  BY DEF Begins
<1>1. ASSUME NEW t \in DOMAIN tab PROVE TabOK(t)'
  <2>1. Stale(t)' \in SUBSET Stale(t)
    BY <1>a, StaleAre
  <2>2. tab[t].isWorked => InFlight("store", t)' \in SUBSET InFlight("store", t)
    BY <1>a, Flights
  <2>3. tab[t].delete => InFlight("toggle", t)' \in SUBSET InFlight("toggle", t)
    BY <1>a, Flights
  <2>4. TabOK(t) /\ tab'[t] = tab[t]
    BY DEF LateOK
  <2> QED
    BY <2>1, <2>2, <2>3, <2>4, TabRests
<1>2. ASSUME NEW t \in DOMAIN tab' \ DOMAIN tab PROVE TabOK(t)'
  <2>1. ASSUME NEW kind \in {"toggle", "store"} PROVE InFlight(kind, t)' = {}
    <3>1. \A d \in Clients : request[d].pc = kind => request[d].tab \in DOMAIN tab
      BY DEF TablesOK, RequestsOK, RequestOK
    <3>2. InFlight(kind, t) = {}
      BY <3>1 DEF InFlight
    <3> QED
      BY <1>a, <3>2, Flights
  <2>2. Stale(t)' = {}
    BY <2>1 DEF Stale
  <2>3. Cardinality(Stale(t)') = 0 /\ Cardinality(InFlight("store", t)') = 0
        /\ Cardinality(InFlight("toggle", t)') = 0
    BY <2>1, <2>2, FS_EmptySet
  <2>4. done[t] = 0 /\ effective[t] = 0 /\ late[t] = 0 /\ after[t] = 0
    BY DEF LateOK, FreshOK
  <2>5. tab'[t].isWorked = FALSE /\ tab'[t].delete = FALSE
    OBVIOUS
  <2> QED
    BY <2>3, <2>4, <2>5, NothingWritten DEF TabOK, RemovalOK
<1>3. FreshOK'
  BY DEF LateOK, FreshOK
<1> QED
  BY <1>1, <1>2, <1>3 DEF LateOK

LEMMA UpdateWorkingLate ==
    ASSUME TypeOK, TablesOK, LateOK, NEW c \in Clients, UpdateWorkingState(c)
    PROVE  LateOK'
<1>a. PICK p, t : p = request[c].isWorked /\ t = request[c].tab
  OBVIOUS
<1>1. /\ Goes(c, Idle) /\ request[c].pc = "toggle" /\ p \in BOOLEAN
      /\ t \in DOMAIN tab /\ t \in Tabs /\ DOMAIN tab' = DOMAIN tab
      /\ tab'[t].isWorked = ~p /\ tab'[t].delete = tab[t].delete
      /\ \A u \in DOMAIN tab : u # t => tab'[u] = tab[u]
      /\ done' = Increment(done, t, TRUE)
      /\ effective' = Increment(effective, t, tab[t].isWorked # ~p)
      /\ after' = Increment(after, t, tab[t].delete)
      /\ late' = late
  BY <1>a, UpdateWorkingTables
<1>0. tab[t].isWorked \in BOOLEAN /\ tab[t].delete \in BOOLEAN
  BY <1>1, TypesAre
<1>2. /\ done'[t] = done[t] + 1
           /\ effective'[t] = effective[t] + (IF tab[t].isWorked = p THEN 1 ELSE 0)
      /\ after'[t] = IF tab[t].delete THEN after[t] + 1 ELSE after[t]
      /\ \A u \in Tabs : u # t => done'[u] = done[u] /\ effective'[u] = effective[u]
                                  /\ after'[u] = after[u]
  <2>1. /\ done \in [Tabs -> Nat] /\ effective \in [Tabs -> Nat] /\ after \in [Tabs -> Nat]
        /\ after[t] \in Nat /\ (tab[t].isWorked # ~p) \in BOOLEAN
    BY <1>1, TypesAre
  <2>2. done'[t] = done[t] + 1 /\ \A u \in Tabs : u # t => done'[u] = done[u]
    BY <1>1, <2>1, Incremented
  <2>3. /\ effective'[t] = effective[t] + (IF tab[t].isWorked # ~p THEN 1 ELSE 0)
        /\ \A u \in Tabs : u # t => effective'[u] = effective[u]
    BY <1>1, <2>1, Incremented
  <2>5. (tab[t].isWorked # ~p) <=> (tab[t].isWorked = p)
    BY <1>0, <1>1
  <2>4. /\ after'[t] = IF tab[t].delete THEN after[t] + 1 ELSE after[t]
        /\ \A u \in Tabs : u # t => after'[u] = after[u]
    BY <1>0, <1>1, <2>1, Incremented
  <2> QED
    BY <2>2, <2>3, <2>4, <2>5
<1>3. DOMAIN tab \subseteq Tabs
  BY TabsAre
<1>4. \A kind \in {"toggle", "store"} : \A u : InFlight(kind, u)' = InFlight(kind, u) \ {c}
  BY <1>1, IdleIs, Flights
<1>5. ASSUME NEW u \in DOMAIN tab, u # t PROVE TabOK(u)'
  <2>1. tab'[u] = tab[u] /\ TabOK(u) /\ u \in Tabs
    BY <1>1, <1>3, <1>5 DEF LateOK
  <2>2. Stale(u)' \in SUBSET Stale(u)
    BY <1>1, <2>1, IdleIs, StaleAre
  <2> QED
    BY <1>1, <1>2, <1>4, <1>5, <2>1, <2>2, TabRests
<1>6. TabOK(t)'
  <2>a. PICK s, m, s2, m2 :
            /\ s = Cardinality(Stale(t)) /\ m = Cardinality(InFlight("store", t))
            /\ s2 = Cardinality(Stale(t)') /\ m2 = Cardinality(InFlight("store", t)')
    OBVIOUS
  <2>b. PICK e, d, l, w : /\ e = effective[t] /\ d = done[t] /\ l = late[t]
                          /\ w = tab[t].isWorked
    OBVIOUS
  <2>c. PICK e2, d2 : e2 = effective'[t] /\ d2 = done'[t]
    OBVIOUS
  <2>1. /\ Stale(t) \in SUBSET Clients /\ \A kind : InFlight(kind, t) \in SUBSET Clients
        /\ \A kind \in {"toggle", "store"} : InFlight(kind, t)' \in SUBSET (Clients \ {c})
        /\ Stale(t)' \in SUBSET (Clients \ {c})
    <3>1. \A kind : InFlight(kind, t) \in SUBSET Clients
      BY DEF InFlight
    <3>2. Stale(t) \in SUBSET InFlight("toggle", t)
            /\ Stale(t)' \in SUBSET InFlight("toggle", t)'
      BY DEF Stale
    <3>3. \A kind \in {"toggle", "store"} : InFlight(kind, t)' \in SUBSET (Clients \ {c})
      BY <1>4, <3>1
    <3> QED
      BY <3>1, <3>2, <3>3
  <2>2. /\ s \in Nat /\ m \in Nat /\ s2 \in Nat /\ m2 \in Nat
        /\ s2 <= Others /\ m2 <= Others
    BY <2>1, <2>a, CountsOf, FewerOthers
  <2>3. m2 <= m
    BY <1>4, <2>1, <2>a, Fewer
  <2>4. Within(e, d, l, s, m) /\ (w <=> e % 2 = 1) /\ RemovalOK(t)
    BY <1>1, <2>a, <2>b DEF TabOK, LateOK
  <2>5. e \in Nat /\ d \in Nat /\ l \in Nat /\ w \in BOOLEAN
    BY <1>1, <2>b, Counted
  <2>6. /\ d2 = d + 1 /\ e2 = e + (IF w = p THEN 1 ELSE 0)
        /\ tab'[t].isWorked <=> ~p
    BY <1>1, <1>2, <2>b, <2>c
  <2>7. /\ Within(e2, d2, l, s2, m2)
        /\ tab'[t].isWorked <=> e2 % 2 = 1
    <3>1. CASE w = p
      <4>1. e2 = e + 1
        BY <2>6, <3>1
      <4>2. Within(e + 1, d + 1, l, s2, m2) /\ ((e + 1) % 2 = 1 <=> e % 2 # 1)
        BY <2>2, <2>4, <2>5, Effective
      <4> QED
        BY <1>1, <2>4, <2>5, <2>6, <3>1, <4>1, <4>2
    <3>2. CASE w # p
      <4>1. e2 = e /\ w = ~p
        BY <1>1, <2>5, <2>6, <3>2
      <4>2. c \in Stale(t)
        BY <1>1, <1>a, <2>b, <3>2 DEF Stale, InFlight
      <4>7. tab'[t].isWorked = tab[t].isWorked
        BY <1>1, <2>b, <4>1
      <4>8. c \notin Stale(t)' /\ Stale(t)' \ {c} = Stale(t) \ {c}
        BY <1>1, <4>7, IdleIs, StaleAre
      <4>3. Stale(t)' = Stale(t) \ {c}
        BY <4>8
      <4>4. s2 = s - 1
        BY <2>1, <2>a, <4>2, <4>3, OneFewer
      <4>5. s2 + 1 = s
        BY <2>2, <4>4
      <4>6. Within(e, d2, l, s2, m2)
        BY <2>2, <2>3, <2>4, <2>5, <2>6, <4>5, Lost
      <4> QED
        BY <2>4, <2>6, <4>1, <4>6
    <3> QED
      BY <3>1, <3>2
  <2>8. RemovalOK(t)'
    <3>a. PICK g, g2, a : /\ g = Cardinality(InFlight("toggle", t)) /\ a = after[t]
                          /\ g2 = Cardinality(InFlight("toggle", t)')
      OBVIOUS
    <3>1. c \in InFlight("toggle", t)
      BY <1>1, <1>a DEF InFlight
    <3>2. /\ g2 = g - 1 /\ g \in Nat /\ g2 \in Nat
      BY <1>4, <2>1, <3>a, <3>1, OneFewer
    <3>3. a \in Nat /\ Others \in Nat
      BY <1>1, <3>a, Counted, Sizes
    <3>4. IF tab[t].delete THEN a + g <= Others ELSE a = 0
      BY <2>4, <3>a DEF RemovalOK
    <3>5. after'[t] = IF tab[t].delete THEN a + 1 ELSE a
      BY <1>2, <3>a
    <3>6. IF tab[t].delete THEN after'[t] + g2 <= Others ELSE after'[t] = 0
      BY <3>2, <3>3, <3>4, <3>5
    <3> QED
      BY <1>1, <3>a, <3>6 DEF RemovalOK
  <2> QED
    BY <1>1, <2>a, <2>b, <2>c, <2>7, <2>8 DEF TabOK
<1>7. FreshOK'
  BY <1>1, <1>2 DEF LateOK, FreshOK
<1> QED
  BY <1>1, <1>5, <1>6, <1>7 DEF LateOK

LEMMA StoreLate ==
    ASSUME TypeOK, TablesOK, LateOK, NEW c \in Clients, Store(c)
    PROVE  LateOK'
<1>a. PICK t : t = request[c].tab
  OBVIOUS
<1>1. /\ Goes(c, Idle) /\ request[c].pc = "store" /\ t \in DOMAIN tab /\ t \in Tabs
      /\ late' = Increment(late, t, tab[t].isWorked)
      /\ UNCHANGED <<tab, done, effective, after>>
  BY <1>a, StoreTables
<1>0. tab[t].isWorked \in BOOLEAN
  BY <1>1, TypesAre
<1>2. /\ late'[t] = late[t] + (IF tab[t].isWorked THEN 1 ELSE 0)
      /\ \A u \in Tabs : u # t => late'[u] = late[u]
  <2>1. late \in [Tabs -> Nat]
    BY TypesAre
  <2>2. Increment(late, t, tab[t].isWorked)[t] = late[t] + (IF tab[t].isWorked THEN 1 ELSE 0)
    BY <1>0, <1>1, <2>1, Incremented
  <2>3. \A u \in Tabs : u # t => Increment(late, t, tab[t].isWorked)[u] = late[u]
    BY <1>0, <1>1, <2>1, Incremented
  <2> QED
    BY <1>1, <2>2, <2>3
<1>3. DOMAIN tab \subseteq Tabs
  BY TabsAre
<1>4. \A kind \in {"toggle", "store"} : \A u : InFlight(kind, u)' = InFlight(kind, u) \ {c}
  BY <1>1, IdleIs, Flights
<1>5. \A u : Stale(u)' \in SUBSET Stale(u)
  BY <1>1, IdleIs, StaleAre
<1>6. ASSUME NEW u \in DOMAIN tab, u # t PROVE TabOK(u)'
  <2>1. tab'[u] = tab[u] /\ TabOK(u) /\ u \in Tabs
    BY <1>1, <1>3 DEF LateOK
  <2> QED
    BY <1>1, <1>2, <1>4, <1>5, <1>6, <2>1, TabRests
<1>7. TabOK(t)'
  <2>a. PICK s, m, s2, m2 :
            /\ s = Cardinality(Stale(t)) /\ m = Cardinality(InFlight("store", t))
            /\ s2 = Cardinality(Stale(t)') /\ m2 = Cardinality(InFlight("store", t)')
    OBVIOUS
  <2>b. PICK e, d, l, l2 : /\ e = effective[t] /\ d = done[t] /\ l = late[t] /\ l2 = late'[t]
    OBVIOUS
  <2>1. Stale(t) \in SUBSET Clients /\ \A kind : InFlight(kind, t) \in SUBSET Clients
    BY DEF Stale, InFlight
  <2>2. s \in Nat /\ m \in Nat /\ s2 \in Nat /\ m2 \in Nat /\ s2 <= s
    BY <1>4, <1>5, <2>1, <2>a, CountsOf, Fewer
  <2>3. m2 + 1 = m
    <3>1. c \in InFlight("store", t)
      BY <1>1, <1>a DEF InFlight
    <3>2. m2 = m - 1
      BY <1>4, <2>1, <2>a, <3>1, OneFewer
    <3> QED
      BY <2>2, <3>2
  <2>4. Within(e, d, l, s, m) /\ (tab[t].isWorked <=> e % 2 = 1) /\ RemovalOK(t)
    BY <1>1, <2>a, <2>b DEF TabOK, LateOK
  <2>5. e \in Nat /\ d \in Nat /\ l \in Nat
    BY <1>1, <2>b, Counted
  <2>6. l2 = l + (IF e % 2 = 1 THEN 1 ELSE 0)
    BY <1>2, <2>4, <2>b
  <2>7. Within(e, d, l2, s2, m2)
    BY <2>2, <2>3, <2>4, <2>5, <2>6, StoredLate
  <2>8. RemovalOK(t)'
    <3>1. InFlight("toggle", t)' = InFlight("toggle", t)
      BY <1>1, <1>4 DEF InFlight
    <3> QED
      BY <1>1, <2>4, <3>1 DEF RemovalOK
  <2> QED
    BY <1>1, <2>4, <2>7, <2>8, <2>a, <2>b DEF TabOK
<1>8. FreshOK'
  BY <1>1, <1>2 DEF LateOK, FreshOK
<1> QED
  BY <1>1, <1>6, <1>7, <1>8 DEF LateOK

LEMMA RemoveLate ==
    ASSUME TypeOK, TablesOK, LateOK, NEW c \in Clients, RemoveTab(c)
    PROVE  LateOK'
<1>a. PICK t : t = request[c].tab
  OBVIOUS
<1>1. /\ Goes(c, Idle) /\ request[c].pc = "remove" /\ t \in DOMAIN tab
      /\ DOMAIN tab' = DOMAIN tab
      /\ tab'[t].isWorked = tab[t].isWorked /\ tab'[t].delete
      /\ \A u \in DOMAIN tab : u # t => tab'[u] = tab[u]
      /\ UNCHANGED <<done, effective, late, after>>
  BY <1>a, RemoveTables
<1>2. DOMAIN tab \subseteq Tabs
  BY TabsAre
<1>3. \A kind \in {"toggle", "store"} : \A u : InFlight(kind, u)' = InFlight(kind, u) \ {c}
  BY <1>1, IdleIs, Flights
<1>4. \A u \in DOMAIN tab : tab'[u].isWorked = tab[u].isWorked
  <2> SUFFICES ASSUME NEW u \in DOMAIN tab PROVE tab'[u].isWorked = tab[u].isWorked
    OBVIOUS
  <2>1. CASE u = t
    BY <1>1, <2>1
  <2>2. CASE u # t
    BY <1>1, <2>2
  <2> QED
    BY <2>1, <2>2
<1>5. \A u \in DOMAIN tab : Stale(u)' \in SUBSET Stale(u)
  BY <1>1, <1>4, IdleIs, StaleAre
<1>6. ASSUME NEW u \in DOMAIN tab, u # t PROVE TabOK(u)'
  <2>1. tab'[u] = tab[u] /\ TabOK(u) /\ u \in Tabs
    BY <1>1, <1>2, <1>6 DEF LateOK
  <2> QED
    BY <1>1, <1>3, <1>5, <2>1, TabRests
<1>7. TabOK(t)'
  <2>a. PICK s, m, s2, m2 :
            /\ s = Cardinality(Stale(t)) /\ m = Cardinality(InFlight("store", t))
            /\ s2 = Cardinality(Stale(t)') /\ m2 = Cardinality(InFlight("store", t)')
    OBVIOUS
  <2>b. PICK e, d, l : e = effective[t] /\ d = done[t] /\ l = late[t]
    OBVIOUS
  <2>1. Stale(t) \in SUBSET Clients /\ \A kind : InFlight(kind, t) \in SUBSET Clients
    BY DEF Stale, InFlight
  <2>2. s \in Nat /\ m \in Nat /\ s2 \in Nat /\ m2 \in Nat /\ s2 <= s /\ m2 <= m
    BY <1>1, <1>3, <1>5, <2>1, <2>a, CountsOf, Fewer
  <2>4. Within(e, d, l, s, m) /\ (tab[t].isWorked <=> e % 2 = 1) /\ RemovalOK(t)
    BY <1>1, <2>a, <2>b DEF TabOK, LateOK
  <2>5. e \in Nat /\ d \in Nat /\ l \in Nat
    BY <1>1, <1>2, <2>b, Counted
  <2>6. Within(e, d, l, s2, m2)
    BY <2>2, <2>4, <2>5, FewerInFlight
  <2>7. RemovalOK(t)'
    <3>a. PICK g, g2, a : /\ g = Cardinality(InFlight("toggle", t)) /\ a = after[t]
                          /\ g2 = Cardinality(InFlight("toggle", t)')
      OBVIOUS
    <3>1. InFlight("toggle", t)' = InFlight("toggle", t) /\ c \notin InFlight("toggle", t)
      BY <1>1, <1>3, <1>a DEF InFlight
    <3>2. g2 = g /\ g \in Nat /\ g <= Others
      <4>1. InFlight("toggle", t) \in SUBSET (Clients \ {c})
        BY <2>1, <3>1
      <4> QED
        BY <3>1, <3>a, <4>1, FewerOthers
    <3>3. a \in Nat /\ Others \in Nat
      BY <1>1, <1>2, <3>a, Counted, Sizes
    <3>4. IF tab[t].delete THEN a + g <= Others ELSE a = 0
      BY <2>4, <3>a DEF RemovalOK
    <3>5. a + g2 <= Others
      BY <3>2, <3>3, <3>4
    <3> QED
      BY <1>1, <3>a, <3>5 DEF RemovalOK
  <2> QED
    BY <1>1, <2>4, <2>6, <2>7, <2>a, <2>b DEF TabOK
<1>8. FreshOK'
  BY <1>1 DEF LateOK, FreshOK
<1> QED
  BY <1>1, <1>6, <1>7, <1>8 DEF LateOK

(* A crash takes what is in flight away.                                   *)
LEMMA CrashLate ==
    ASSUME TypeOK, TablesOK, LateOK, Crash
    PROVE  LateOK'
<1>1. /\ \A c \in Clients : request'[c] = Idle
      /\ UNCHANGED <<tab, done, effective, late, after>>
  BY CrashTables
<1>2. \A kind \in {"toggle", "store"} : \A t : InFlight(kind, t)' = {}
  BY <1>1, IdleIs DEF InFlight
<1>3. \A t : Stale(t)' = {}
  BY <1>2 DEF Stale
<1>4. DOMAIN tab \subseteq Tabs
  BY TabsAre
<1>5. ASSUME NEW t \in DOMAIN tab PROVE TabOK(t)'
  <2>1. TabOK(t)
    BY DEF LateOK
  <2> QED
    BY <1>1, <1>2, <1>3, <1>4, <2>1, TabRests
<1>6. FreshOK'
  BY <1>1 DEF LateOK, FreshOK
<1> QED
  BY <1>1, <1>5, <1>6 DEF LateOK

LEMMA NothingMoves ==
    ASSUME LateOK, UNCHANGED <<tab, request, done, effective, late, after>>
    PROVE  LateOK'
<1>1. \A t : RemovalOK(t)' <=> RemovalOK(t)
  BY DEF RemovalOK, InFlight
<1>2. \A t : TabOK(t)' <=> TabOK(t)
  <2> SUFFICES ASSUME NEW t PROVE TabOK(t)' <=> TabOK(t)
    OBVIOUS
  <2>1. Stale(t)' = Stale(t) /\ InFlight("store", t)' = InFlight("store", t)
    BY DEF Stale, InFlight
  <2> QED
    BY <1>1, <2>1 DEF TabOK
<1>3. FreshOK'
  BY DEF LateOK, FreshOK
<1> QED
  BY <1>2, <1>3 DEF LateOK
-----------------------------------------------------------------------------
LEMMA InvIs == IInv <=> TypeOK /\ TablesOK /\ LateOK
BY LateIs DEF IInv, ConnectionsWholeUnlessTorn, TablesOK

LEMMA NextInvIs == IInv' <=> TypeOK' /\ TablesOK' /\ LateOK'
<1>1. LateOK' <=> (TogglesOK /\ PausesOK /\ RemovalsOK /\ FreshOK)'
  BY LateIs, PTL
<1> QED
  BY <1>1 DEF IInv, ConnectionsWholeUnlessTorn, TablesOK

LEMMA InvInit == Init => IInv
<1> SUFFICES ASSUME Init PROVE IInv
  OBVIOUS
<1>1. TypeOK /\ TablesOK
  BY InitTables
<1>2. DOMAIN tab = {} /\ FreshOK
  BY DEF Init, FreshOK
<1>3. LateOK
  BY <1>2 DEF LateOK
<1> QED
  BY <1>1, <1>3, InvIs

LEMMA InvNext == IInv /\ [Next]_vars => IInv'
<1> SUFFICES ASSUME IInv, [Next]_vars PROVE IInv'
  OBVIOUS
<1>0. TypeOK /\ TablesOK /\ LateOK
  BY InvIs
<1>h. UNCHANGED history => UNCHANGED <<done, effective, late, after>>
  BY DEF history
<1>s. SUFFICES TypeOK' /\ TablesOK' /\ LateOK'
  BY NextInvIs
(* A step after which every tab is as it was, or new.                      *)
<1>r. ASSUME TypeOK', TablesOK', NEW c \in Clients, Begins(c),
             UNCHANGED <<tab, done, effective, late, after>>
      PROVE  LateOK'
  <2>1. DOMAIN tab \subseteq Tabs
    BY <1>0, TabsAre
  <2>2. \A t \in DOMAIN tab : tab[t].isWorked \in BOOLEAN /\ tab[t].delete \in BOOLEAN
    BY <1>0, TypesAre
  <2> QED
    BY <1>0, <1>r, <2>1, <2>2, BeginningRests
<1>1. ASSUME NEW c \in Clients, NEW u \in Users, NEW p \in Pages, Connect(c, u, p)
      PROVE  TypeOK' /\ TablesOK' /\ LateOK'
  BY <1>0, <1>1, <1>h, <1>r, ConnectTables
<1>2. ASSUME NEW c \in Clients, CreateNewTab(c) PROVE TypeOK' /\ TablesOK' /\ LateOK'
  <2>1. /\ TypeOK' /\ TablesOK' /\ Begins(c) /\ UNCHANGED <<done, effective, late, after>>
        /\ DOMAIN tab \subseteq DOMAIN tab' /\ \A t \in DOMAIN tab : tab'[t] = tab[t]
        /\ \A t \in DOMAIN tab' \ DOMAIN tab : ~tab'[t].isWorked /\ ~tab'[t].delete
    BY <1>0, <1>2, <1>h, CreateNewTabTables
  <2>2. DOMAIN tab' \subseteq Tabs
    <3>1. (TypeOK /\ TablesOK => DOMAIN tab \subseteq Tabs)'
      BY TabsAre, PTL
    <3> QED
      BY <2>1, <3>1
  <2>3. \A t \in DOMAIN tab' : tab'[t].isWorked \in BOOLEAN /\ tab'[t].delete \in BOOLEAN
    <3>1. (TypeOK => \A t \in DOMAIN tab : tab[t].isWorked \in BOOLEAN
                                           /\ tab[t].delete \in BOOLEAN)'
      BY TabFields, PTL
    <3> QED
      BY <2>1, <3>1
  <2> QED
    BY <1>0, <2>1, <2>2, <2>3, BeginningRests
<1>3. ASSUME NEW c \in Clients, AddUserToTab(c) \/ ConnectFails(c)
      PROVE  TypeOK' /\ TablesOK' /\ LateOK'
  BY <1>0, <1>3, <1>r, EndConnectTables
<1>4. ASSUME NEW c \in Clients, NEW i \in DOMAIN setting, NEW s \in Settings,
             FindSocialSetting(c, i, s)
      PROVE  TypeOK' /\ TablesOK' /\ LateOK'
  BY <1>0, <1>4, <1>h, <1>r, FindSettingTables
<1>5. ASSUME NEW c \in Clients, UpdateSocialSetting(c) PROVE TypeOK' /\ TablesOK' /\ LateOK'
  BY <1>0, <1>5, <1>r, UpdateSettingTables
<1>6. ASSUME NEW c \in Clients, NEW t \in Tabs, NEW kind \in {"toggle", "remove"},
             GetSocialTabById(c, t, kind)
      PROVE  TypeOK' /\ TablesOK' /\ LateOK'
  BY <1>0, <1>6, <1>h, <1>r, GetTabTables
<1>7. ASSUME NEW c \in Clients, UpdateWorkingState(c) PROVE TypeOK' /\ TablesOK' /\ LateOK'
  BY <1>0, <1>7, UpdateWorkingTables, UpdateWorkingLate
<1>8. ASSUME NEW c \in Clients, RemoveTab(c) PROVE TypeOK' /\ TablesOK' /\ LateOK'
  BY <1>0, <1>8, RemoveTables, RemoveLate
<1>9. ASSUME NEW c \in Clients, NEW p \in Pages, Intake(c, p)
      PROVE  TypeOK' /\ TablesOK' /\ LateOK'
  BY <1>0, <1>9, <1>h, <1>r, IntakeTables
<1>10. ASSUME NEW c \in Clients, Store(c) PROVE TypeOK' /\ TablesOK' /\ LateOK'
  BY <1>0, <1>10, StoreTables, StoreLate
<1>11. ASSUME NEW s \in tasks, CreateSocialSetting(s) PROVE TypeOK' /\ TablesOK' /\ LateOK'
  BY <1>0, <1>11, CreateSettingTables, NothingMoves
<1>12. CASE Crash
  BY <1>0, <1>12, CrashTables, CrashLate
<1>14. ASSUME NEW m \in member, UnassignUsers(m) PROVE TypeOK' /\ TablesOK' /\ LateOK'
  BY <1>0, <1>14, UnassignTables, NothingMoves
<1>13. CASE UNCHANGED vars
  <2>1. UNCHANGED <<network, tab, setting, member, request, tasks, crashes, toggles, messages,
                    updates, torn, spoilt, done, effective, late, after>>
    BY <1>13 DEF vars, tables, bounds, history
  <2>2. TypeOK'
    BY <1>0, <2>1 DEF TypeOK
  <2>3. TablesOK'
    <3>1. RequestsOK' /\ RowsOK' /\ OneTab'
      BY <1>0, <2>1 DEF TablesOK, RequestsOK, RequestOK, RowsOK, OneTab, AwaitsTab
    <3>2. NoSilentHalfConnection' /\ SettingsComplete'
      BY <1>0, <2>1 DEF TablesOK, NoSilentHalfConnection, SettingsComplete, Connecting,
                        Shown, GivenUp, GetAllSocialTab
    <3> QED
      BY <3>1, <3>2 DEF TablesOK
  <2>4. LateOK'
    BY <1>0, <2>1, NothingMoves
  <2> QED
    BY <2>2, <2>3, <2>4
<1> QED
  BY <1>1, <1>2, <1>3, <1>4, <1>5, <1>6, <1>7, <1>8, <1>9, <1>10, <1>11, <1>12, <1>13,
     <1>14
  DEF Next, Rest

LEMMA LateBounded == IInv => LateEffectsBounded
<1> SUFFICES ASSUME IInv PROVE LateEffectsBounded
  OBVIOUS
<1>0. TypeOK /\ TablesOK /\ LateOK
  BY InvIs
<1>1. SUFFICES ASSUME NEW t \in Tabs
               PROVE  /\ done[t] <= Cardinality(Clients) * effective[t]
                      /\ late[t] <= Others * ((effective[t] + 1) \div 2)
                      /\ after[t] <= Others
  BY DEF LateEffectsBounded, OneToggleTakesEffect, PauseStopsIntake, RemovedTabRests
<1>2. CASE t \in DOMAIN tab
  <2>a. PICK s, m, g, e, d, l, a :
            /\ s = Cardinality(Stale(t)) /\ m = Cardinality(InFlight("store", t))
            /\ g = Cardinality(InFlight("toggle", t))
            /\ e = effective[t] /\ d = done[t] /\ l = late[t] /\ a = after[t]
    OBVIOUS
  <2>b. PICK p, q : p = Cardinality(Clients) * e /\ q = Others * ((e + 1) \div 2)
    OBVIOUS
  <2>1. /\ s \in Nat /\ m \in Nat /\ g \in Nat
        /\ e \in Nat /\ d \in Nat /\ l \in Nat /\ a \in Nat
    BY <1>0, <1>2, <2>a, Counted
  <2>2. Others \in Nat /\ p \in Nat /\ q \in Nat
    BY <2>1, <2>b, Sizes, Products, Halves
  <2>3. /\ d + s <= p /\ l + (IF e % 2 = 1 THEN m ELSE 0) <= q
        /\ IF tab[t].delete THEN a + g <= Others ELSE a = 0
    BY <1>0, <1>2, <2>a, <2>b DEF LateOK, TabOK, RemovalOK, Within
  <2>4. d <= p /\ l <= q /\ a <= Others
    BY <2>1, <2>2, <2>3
  <2> QED
    BY <2>4, <2>a, <2>b
<1>3. CASE t \notin DOMAIN tab
  <2>1. done[t] = 0 /\ effective[t] = 0 /\ late[t] = 0 /\ after[t] = 0
    BY <1>0, <1>3 DEF LateOK, FreshOK
  <2>2. Cardinality(Clients) * 0 = 0 /\ Others * ((0 + 1) \div 2) = 0 /\ 0 <= Others
    BY NothingWritten, Sizes
  <2> QED
    BY <2>1, <2>2
<1> QED
  BY <1>2, <1>3

(* A connected page has its one tab, its settings and its owner's          *)
(* membership, however requests, failed inserts and crashes interleave,    *)
(* unless one of those that went wrong touched it, the tab was removed or  *)
(* the owner was taken off it.                                             *)
THEOREM ConnectionsStayWhole == Spec => []ConnectionsWholeUnlessTorn
<1>1. IInv => ConnectionsWholeUnlessTorn
  BY DEF IInv
<1> QED
  BY <1>1, InvInit, InvNext, PTL DEF Spec

(* Requests in flight when a tab is toggled, paused or removed change it,  *)
(* or store in it, at most once each, for any number of clients.           *)
THEOREM LateEffectsAreBounded == Spec => []LateEffectsBounded
BY LateBounded, InvInit, InvNext, PTL DEF Spec
-----------------------------------------------------------------------------
(* The rows a message refers to: what an event needs, and what a request   *)
(* is at each step.                                                        *)
LEMMA SenderCounts ==
    /\ \A S : Senders!Cardinality(S) = Cardinality(S)
    /\ \A S : Senders!IsFiniteSet(S) <=> IsFiniteSet(S)
BY DEF Cardinality, Senders!Cardinality, IsFiniteSet, Senders!IsFiniteSet

LEMMA EventsFinite == Senders!EventAssumption => IsFiniteSet(Events) /\ IsFiniteSet(Clients)
BY SenderCounts DEF Senders!EventAssumption

LEMMA KeysFinite ==
    ASSUME Senders!EventAssumption
    PROVE  /\ IsFiniteSet(Senders!KeysNeeded) /\ Cardinality(Senders!KeysNeeded) \in Nat
           /\ IsFiniteSet(Clients) /\ Cardinality(Clients) \in Nat
           /\ \A e \in Events :
                e.needs[1] \in Senders!KeysNeeded /\ e.needs[2] \in Senders!KeysNeeded
<1>a. PICK f, S : /\ f = [e \in Events |-> {e.needs[1], e.needs[2]}]
                  /\ S = {{e.needs[1], e.needs[2]} : e \in Events}
  OBVIOUS
<1>1. f \in Surjection(Events, S)
  BY <1>a DEF Surjection
<1>2. IsFiniteSet(S)
  BY <1>1, EventsFinite, FS_Surjection
<1>3. \A T \in S : IsFiniteSet(T)
  <2> SUFFICES ASSUME NEW e \in Events PROVE IsFiniteSet({e.needs[1], e.needs[2]})
    BY <1>a
  <2>1. IsFiniteSet({e.needs[1]})
    BY FS_Singleton
  <2>2. IsFiniteSet({e.needs[1]} \union {e.needs[2]})
    BY <2>1, FS_AddElement
  <2>3. {e.needs[1]} \union {e.needs[2]} = {e.needs[1], e.needs[2]}
    OBVIOUS
  <2> QED
    BY <2>2, <2>3
<1>4. IsFiniteSet(UNION S)
  BY <1>2, <1>3, FS_UNION
<1>5. Senders!KeysNeeded = UNION S
  BY <1>a DEF Senders!KeysNeeded
<1>6. \A e \in Events : e.needs[1] \in Senders!KeysNeeded /\ e.needs[2] \in Senders!KeysNeeded
  BY DEF Senders!KeysNeeded
<1> QED
  BY <1>4, <1>5, <1>6, EventsFinite, FS_CardinalityType

KeyOf(r) == r.event.needs[Len(r.refs) + 1]

LEMMA AskedIs ==
    ASSUME Senders!EventAssumption, NEW r \in Senders!Requests
    PROVE  /\ r = Senders!Idle <=> r.pc = "idle"
           /\ r.pc \in {"idle", "find", "create", "save"}
           /\ r # Senders!Idle => r.event \in Events
           /\ r.pc \in {"find", "create"} =>
                 /\ r.refs = <<>> \/ \E i \in Senders!Rows : r.refs = <<i>>
                 /\ (Len(r.refs) = 0 \/ Len(r.refs) = 1)
                 /\ KeyOf(r) \in Senders!KeysNeeded
           /\ r.pc = "save" => r.refs \in Senders!Rows \X Senders!Rows /\ Len(r.refs) = 2
<1>1. CASE r = Senders!Idle
  BY <1>1 DEF Senders!Idle
<1>2. CASE \/ r \in [pc : {"find"}, event : Events,
                     refs : {<<>>} \union {<<i>> : i \in Senders!Rows}]
           \/ r \in [pc : {"create"}, event : Events,
                     refs : {<<>>} \union {<<i>> : i \in Senders!Rows}]
  <2>1. /\ r.pc \in {"find", "create"} /\ r.event \in Events
        /\ r.refs = <<>> \/ \E i \in Senders!Rows : r.refs = <<i>>
    BY <1>2
  <2>2. r # Senders!Idle
    BY <2>1 DEF Senders!Idle
  <2>3. Len(r.refs) = 0 \/ Len(r.refs) = 1
    <3>1. CASE r.refs = <<>>
      BY <3>1
    <3>2. ASSUME NEW i \in Senders!Rows, r.refs = <<i>> PROVE Len(r.refs) = 1
      BY <3>2
    <3> QED
      BY <2>1, <3>1, <3>2
  <2>4. KeyOf(r) \in Senders!KeysNeeded
    <3>1. r.event.needs[1] \in Senders!KeysNeeded /\ r.event.needs[2] \in Senders!KeysNeeded
      BY <2>1, KeysFinite
    <3>2. CASE Len(r.refs) = 0
      BY <3>1, <3>2 DEF KeyOf
    <3>3. CASE Len(r.refs) = 1
      BY <3>1, <3>3 DEF KeyOf
    <3> QED
      BY <2>3, <3>2, <3>3
  <2> QED
    BY <2>1, <2>2, <2>3, <2>4
<1>3. CASE r \in [pc : {"save"}, event : Events, refs : Senders!Rows \X Senders!Rows]
  BY <1>3 DEF Senders!Idle
<1> QED
  BY <1>1, <1>2, <1>3 DEF Senders!Requests

LEMMA AskedTypes ==
    ASSUME Senders!EventAssumption, Senders!TypeOK
    PROVE  /\ \A h \in Clients :
                handling[h] \in Senders!Requests /\ Senders!Key(h) = KeyOf(handling[h])
           /\ Len(row) \in Nat /\ DOMAIN row = 1..Len(row)
           /\ \A i \in DOMAIN row : row[i] \in Senders!KeysNeeded
<1>1. \A h \in Clients : handling[h] \in Senders!Requests /\ Senders!Key(h) = KeyOf(handling[h])
  BY DEF Senders!TypeOK, Senders!Key, KeyOf
<1> QED
  BY <1>1 DEF Senders!TypeOK

(* A handler goes on to r.                                                 *)
Turns(h, r) ==
    /\ r \in Senders!Requests /\ handling' \in [Clients -> Senders!Requests]
    /\ handling'[h] = r
    /\ \A g \in Clients : g # h => handling'[g] = handling[g]

LEMMA GotoTurns ==
    ASSUME Senders!TypeOK, NEW h \in Clients, NEW r \in Senders!Requests, Senders!Goto(h, r)
    PROVE  Turns(h, r)
BY DEF Senders!TypeOK, Senders!Goto, Turns

(* Rows fit: each has another pair of key and maker, and the pair of the   *)
(* next one is free.                                                       *)
LEMMA RowsFit ==
    ASSUME Senders!EventAssumption, Senders!TypeOK, NEW f \in [DOMAIN row -> Clients],
             Senders!MadeBy(f)
    PROVE  /\ DOMAIN row \subseteq Senders!Rows
           /\ \A h \in Clients : handling[h].pc = "create" => Len(row) + 1 \in Senders!Rows
<1>a. PICK g, P : g = [i \in DOMAIN row |-> <<row[i], f[i]>>]
                    /\ P = Senders!KeysNeeded \X Clients
  OBVIOUS
<1>1. /\ IsFiniteSet(P)
           /\ Cardinality(P) = Cardinality(Senders!KeysNeeded) * Cardinality(Clients)
      /\ Cardinality(P) \in Nat
  BY <1>a, KeysFinite, FS_Product, FS_CardinalityType
<1>2. Senders!Rows = 1..Cardinality(P)
  BY <1>1, SenderCounts DEF Senders!Rows
<1>3. /\ Len(row) \in Nat /\ DOMAIN row = 1..Len(row)
      /\ \A i \in DOMAIN row : row[i] \in Senders!KeysNeeded
  BY AskedTypes
<1>4. IsFiniteSet(1..Len(row)) /\ Cardinality(1..Len(row)) = Len(row)
  <2>1. IsFiniteSet(1..Len(row))
          /\ Cardinality(1..Len(row)) = IF 1 > Len(row) THEN 0 ELSE Len(row) - 1 + 1
    BY <1>3, FS_Interval
  <2> QED
    BY <1>3, <2>1
<1>5. ASSUME NEW S \in SUBSET P, \A i \in DOMAIN row : <<row[i], f[i]>> \in S
      PROVE  IsFiniteSet(S) /\ Len(row) <= Cardinality(S)
  <2>1. g \in [DOMAIN row -> S] /\ \A i, j \in DOMAIN row : g[i] = g[j] => i = j
    BY <1>5, <1>a DEF Senders!MadeBy
  <2>2. g \in Injection(DOMAIN row, S)
    BY <2>1 DEF Injection, IsInjective
  <2>3. IsFiniteSet(S)
    BY <1>1, FS_Subset
  <2>4. Cardinality(DOMAIN row) <= Cardinality(S)
    BY <2>2, <2>3, FS_Injection
  <2> QED
    BY <1>3, <1>4, <2>3, <2>4
<1>6. \A i \in DOMAIN row : <<row[i], f[i]>> \in P
  BY <1>3, <1>a
<1>7. Len(row) <= Cardinality(P)
  BY <1>5, <1>6
<1>8. ASSUME NEW h \in Clients, handling[h].pc = "create" PROVE Len(row) + 1 \in Senders!Rows
  <2>a. PICK x : x = <<Senders!Key(h), h>>
    OBVIOUS
  <2>1. x \in P
    <3>1. Senders!Key(h) \in Senders!KeysNeeded
      BY <1>8, AskedTypes, AskedIs
    <3> QED
      BY <1>a, <2>a, <3>1
  <2>2. \A i \in DOMAIN row : <<row[i], f[i]>> # x
    BY <1>8, <2>a DEF Senders!MadeBy
  <2>3. Len(row) <= Cardinality(P \ {x})
    BY <1>5, <1>6, <2>2
  <2>4. Cardinality(P \ {x}) = Cardinality(P) - 1
    BY <1>1, <2>1, FS_RemoveElement
  <2> QED
    BY <1>1, <1>2, <1>3, <2>3, <2>4
<1> QED
  BY <1>1, <1>2, <1>3, <1>7, <1>8
-----------------------------------------------------------------------------
RowsStay == DOMAIN row \subseteq DOMAIN row' /\ \A i \in DOMAIN row : row'[i] = row[i]

HandlersOK == \A h \in Clients : Senders!RequestOK(h)

LEMMA HandlersKept ==
    ASSUME HandlersOK, NEW h \in Clients, NEW r, Turns(h, r),
           arrived \subseteq arrived', RowsStay,
           r # Senders!Idle =>
               /\ r.event \in arrived'
               /\ \A n \in 1..Len(r.refs) :
                      r.refs[n] \in DOMAIN row' /\ row'[r.refs[n]] = r.event.needs[n]
    PROVE  HandlersOK'
<1>1. Senders!RequestOK(h)'
  BY DEF Senders!RequestOK, Turns
<1>2. ASSUME NEW g \in Clients, g # h PROVE Senders!RequestOK(g)'
  <2>a. PICK q : q = handling[g]
    OBVIOUS
  <2>1. CASE q = Senders!Idle
    BY <1>2, <2>1, <2>a DEF Senders!RequestOK, Turns
  <2>2. CASE q # Senders!Idle
    <3>1. /\ q.event \in arrived
          /\ \A n \in 1..Len(q.refs) :
               q.refs[n] \in DOMAIN row /\ row[q.refs[n]] = q.event.needs[n]
      BY <2>2, <2>a DEF HandlersOK, Senders!RequestOK
    <3>2. handling'[g] = q
      BY <1>2, <2>a DEF Turns
    <3>3. \A n \in 1..Len(q.refs) :
            q.refs[n] \in DOMAIN row' /\ row'[q.refs[n]] = q.event.needs[n]
      BY <3>1 DEF RowsStay
    <3> QED
      BY <3>1, <3>2, <3>3 DEF Senders!RequestOK
  <2> QED
    BY <2>1, <2>2
<1> QED
  BY <1>1, <1>2 DEF HandlersOK

(* A step that makes no row keeps who made them.                           *)
LEMMA MakersKept ==
    ASSUME NEW f \in [DOMAIN row -> Clients], Senders!MadeBy(f), NEW h \in Clients,
           NEW r, Turns(h, r), row' = row, \A g \in Clients :
             Senders!Key(g) = KeyOf(handling[g]),
           \A g \in Clients : Senders!Key(g)' = KeyOf(handling'[g]),
           r.pc = "create" => \A i \in DOMAIN row : row[i] # KeyOf(r)
    PROVE  Senders!RowsMade'
<1>1. Senders!MadeBy(f)'
  <2>1. ASSUME NEW g \in Clients, handling'[g].pc = "create", NEW i \in DOMAIN row,
               row[i] = Senders!Key(g)'
        PROVE  f[i] # g
    <3>1. CASE g = h
      BY <2>1, <3>1 DEF Turns
    <3>2. CASE g # h
      BY <2>1, <3>2 DEF Turns, Senders!MadeBy
    <3> QED
      BY <3>1, <3>2
  <2> QED
    BY <2>1 DEF Senders!MadeBy
<1> QED
  BY <1>1 DEF Senders!RowsMade

LEMMA KeysAre == \A g \in Clients : Senders!Key(g) = KeyOf(handling[g])
BY DEF Senders!Key, KeyOf

LEMMA NextKeysAre == \A g \in Clients : Senders!Key(g)' = KeyOf(handling'[g])
BY DEF Senders!Key, KeyOf

SendersOK == Senders!EventAssumption /\ Senders!TypeOK /\ HandlersOK
  /\ Senders!StoredOK /\ Senders!RowsMade

LEMMA ArriveKeeps ==
    ASSUME SendersOK, NEW h \in Clients, NEW e \in Events, Senders!Arrive(h, e)
    PROVE  SendersOK'
<1>a. PICK r : r = [pc |-> "find", event |-> e, refs |-> <<>>]
  OBVIOUS
<1>1. /\ handling[h] = Senders!Idle /\ arrived' = arrived \union {e}
      /\ Senders!Goto(h, r) /\ row' = row /\ stored' = stored
      /\ redeliveries' \in {redeliveries, redeliveries + 1}
  BY <1>a DEF Senders!Arrive
<1>2. r \in Senders!Requests /\ r.pc = "find" /\ r.event = e /\ r.refs = <<>> /\ Len(r.refs) = 0
  BY <1>a DEF Senders!Requests
<1>3. Turns(h, r)
  BY <1>1, <1>2, GotoTurns DEF SendersOK
<1>4. Senders!TypeOK'
  <2>1. handling' \in [Clients -> Senders!Requests]
    BY <1>3 DEF Turns
  <2> QED
    BY <1>1, <2>1 DEF SendersOK, Senders!TypeOK
<1>5. HandlersOK'
  BY <1>1, <1>2, <1>3, HandlersKept DEF SendersOK, RowsStay
<1>6. Senders!StoredOK'
  BY <1>1 DEF SendersOK, Senders!StoredOK
<1>7. Senders!RowsMade'
  <2>1. PICK f \in [DOMAIN row -> Clients] : Senders!MadeBy(f)
    BY DEF SendersOK, Senders!RowsMade
  <2> QED
    BY <1>1, <1>2, <1>3, <2>1, KeysAre, NextKeysAre, MakersKept
<1> QED
  BY <1>4, <1>5, <1>6, <1>7 DEF SendersOK

LEMMA AppendNext ==
    ASSUME NEW S, NEW s \in Seq(S), NEW x \in S
    PROVE  /\ Append(s, x) \in Seq(S) /\ Len(Append(s, x)) = Len(s) + 1
           /\ Append(s, x)[Len(s) + 1] = x
           /\ \A n \in 1..Len(s) : Append(s, x)[n] = s[n]
<1>1. Append(s, x) \in Seq(S) /\ Len(Append(s, x)) = Len(s) + 1
  OBVIOUS
<1>2. Append(s, x)[Len(s) + 1] = x
  OBVIOUS
<1>3. \A n \in 1..Len(s) : Append(s, x)[n] = s[n]
  OBVIOUS
<1> QED
  BY <1>1, <1>2, <1>3

LEMMA PairOf ==
    ASSUME NEW S, NEW a \in Seq(S), Len(a) = 2
    PROVE  a \in S \X S
<1>1. a = <<a[1], a[2]>> /\ a[1] \in S /\ a[2] \in S
  OBVIOUS
<1> QED
  BY <1>1

LEMMA AppendFirst ==
    ASSUME NEW S, NEW s \in Seq(S), Len(s) = 1, NEW x \in S
    PROVE  Append(s, x)[1] = s[1]
OBVIOUS

LEMMA AppendPair ==
    ASSUME NEW S, NEW j \in S, NEW x \in S
    PROVE  /\ Append(<<j>>, x) \in S \X S /\ Len(Append(<<j>>, x)) = 2
           /\ Append(<<j>>, x)[1] = j /\ Append(<<j>>, x)[2] = x
<1>a. PICK s : s = <<j>>
  OBVIOUS
<1>b. PICK a : a = Append(s, x)
  OBVIOUS
<1>1. s \in Seq(S) /\ Len(s) = 1 /\ s[1] = j
  BY <1>a
<1>2. s \in Seq(S)
  BY <1>1
<1>3. Append(s, x) \in Seq(S) /\ Len(Append(s, x)) = Len(s) + 1
  BY <1>2, AppendNext, Zenon
<1>4. Append(s, x)[Len(s) + 1] = x
  BY <1>2, AppendNext, Zenon
<1>5. Append(s, x)[1] = s[1]
  BY <1>1, AppendFirst, Zenon
<1>6. a \in Seq(S) /\ Len(a) = 2 /\ a[1] = j /\ a[2] = x
  BY <1>1, <1>3, <1>4, <1>5, <1>b
<1>7. a \in S \X S
  BY <1>6, PairOf
<1> QED
  BY <1>a, <1>b, <1>6, <1>7, Zenon

(* What a handler finds or makes it refers to from then on.                *)
LEMMA Refers ==
    ASSUME Senders!EventAssumption, NEW r \in Senders!Requests, r.pc \in {"find", "create"},
           NEW i \in Senders!Rows
    PROVE  /\ Senders!Referring(r, i) \in Senders!Requests
                /\ Senders!Referring(r, i) # Senders!Idle
           /\ Senders!Referring(r, i).event = r.event
                /\ Senders!Referring(r, i).pc \in {"find", "save"}
           /\ Len(Senders!Referring(r, i).refs) = Len(r.refs) + 1
           /\ Senders!Referring(r, i).refs[Len(r.refs) + 1] = i
           /\ \A n \in 1..Len(r.refs) : Senders!Referring(r, i).refs[n] = r.refs[n]
<1>a. PICK q : q = Senders!Referring(r, i)
  OBVIOUS
<1>0. /\ r.event \in Events /\ (r.refs = <<>> \/ \E j \in Senders!Rows : r.refs = <<j>>)
      /\ r \in [pc : {"find", "create"}, event : Events,
                refs : {<<>>} \union {<<j>> : j \in Senders!Rows}]
  BY AskedIs DEF Senders!Requests
<1>1. /\ q.pc = IF Len(r.refs) = 1 THEN "save" ELSE "find"
      /\ q.event = r.event /\ q.refs = Append(r.refs, i)
      /\ q = [pc |-> q.pc, event |-> q.event, refs |-> q.refs]
  BY <1>0, <1>a DEF Senders!Referring
<1>2. CASE r.refs = <<>>
  <2>1. q.refs = <<i>> /\ Len(r.refs) = 0 /\ q.pc = "find" /\ Len(q.refs) = 1 /\ q.refs[1] = i
    BY <1>1, <1>2
  <2>2. q \in Senders!Requests /\ q # Senders!Idle
    BY <1>0, <1>1, <2>1 DEF Senders!Requests, Senders!Idle
  <2> QED
    BY <1>1, <1>a, <2>1, <2>2
<1>3. ASSUME NEW j \in Senders!Rows, r.refs = <<j>>
      PROVE  /\ q \in Senders!Requests /\ q # Senders!Idle /\ q.pc = "save"
                  /\ Len(q.refs) = Len(r.refs) + 1
             /\ q.refs[Len(r.refs) + 1] = i /\ \A n \in 1..Len(r.refs) : q.refs[n] = r.refs[n]
  <2>1. q.refs \in Senders!Rows \X Senders!Rows /\ Len(q.refs) = 2 /\ q.refs[1] = j
          /\ q.refs[2] = i
    <3>1. q.refs = Append(<<j>>, i)
      BY <1>1, <1>3
    <3>2. /\ Append(<<j>>, i) \in Senders!Rows \X Senders!Rows /\ Len(Append(<<j>>, i)) = 2
          /\ Append(<<j>>, i)[1] = j /\ Append(<<j>>, i)[2] = i
      BY <1>3, AppendPair
    <3> QED
      BY <3>1, <3>2, Zenon
  <2>2. Len(r.refs) = 1 /\ r.refs[1] = j
    BY <1>3
  <2>3. q.pc = "save"
    BY <1>1, <2>2
  <2>4. q \in Senders!Requests /\ q # Senders!Idle
    <3>1. q.event \in Events /\ q = [pc |-> q.pc, event |-> q.event, refs |-> q.refs]
      BY <1>0, <1>1
    <3>2. q \in [pc : {"save"}, event : Events, refs : Senders!Rows \X Senders!Rows]
      BY <2>1, <2>3, <3>1
    <3> QED
      BY <2>3, <3>2 DEF Senders!Requests, Senders!Idle
  <2> QED
    BY <2>1, <2>2, <2>3, <2>4
<1> QED
  BY <1>0, <1>1, <1>2, <1>3, <1>a

(* A request that has just been given row i, which names its key.          *)
LEMMA ReferringOK ==
    ASSUME SendersOK, NEW h \in Clients, handling[h].pc \in {"find", "create"},
             NEW i \in Senders!Rows,
           RowsStay, i \in DOMAIN row', row'[i] = Senders!Key(h), stored' = stored,
             arrived' = arrived,
           Turns(h, Senders!Referring(handling[h], i))
    PROVE  HandlersOK'
<1>a. PICK q, r : q = handling[h] /\ r = Senders!Referring(handling[h], i)
  OBVIOUS
<1>1. q \in Senders!Requests /\ q # Senders!Idle /\ Senders!Key(h) = KeyOf(q)
        /\ Len(q.refs) \in Nat
  BY <1>a, AskedTypes, AskedIs DEF SendersOK
<1>2. /\ r.event = q.event /\ Len(r.refs) = Len(q.refs) + 1
      /\ r.refs[Len(q.refs) + 1] = i /\ \A n \in 1..Len(q.refs) : r.refs[n] = q.refs[n]
  BY <1>1, <1>a, Refers DEF SendersOK
<1>3. /\ q.event \in arrived
      /\ \A n \in 1..Len(q.refs) : q.refs[n] \in DOMAIN row /\ row[q.refs[n]] = q.event.needs[n]
  BY <1>1, <1>a DEF SendersOK, HandlersOK, Senders!RequestOK
<1>4. \A n \in 1..Len(r.refs) : r.refs[n] \in DOMAIN row' /\ row'[r.refs[n]] = r.event.needs[n]
  <2> SUFFICES ASSUME NEW n \in 1..Len(r.refs)
               PROVE  r.refs[n] \in DOMAIN row' /\ row'[r.refs[n]] = r.event.needs[n]
    OBVIOUS
  <2>1. CASE n = Len(q.refs) + 1
    BY <1>1, <1>2, <2>1 DEF KeyOf
  <2>2. CASE n # Len(q.refs) + 1
    <3>1. n \in 1..Len(q.refs)
      BY <1>1, <1>2, <2>2
    <3> QED
      BY <1>2, <1>3, <3>1 DEF RowsStay
  <2> QED
    BY <2>1, <2>2
<1>5. Turns(h, r)
  BY <1>a
<1> QED
  BY <1>1, <1>2, <1>3, <1>4, <1>5, <1>a, HandlersKept DEF SendersOK

LEMMA FindKeeps ==
    ASSUME SendersOK, NEW h \in Clients, Senders!Find(h)
    PROVE  SendersOK'
<1>a. PICK q : q = handling[h]
  OBVIOUS
<1>1. /\ q.pc = "find" /\ row' = row /\ arrived' = arrived /\ stored' = stored
      /\ redeliveries' = redeliveries
      /\ \/ \E i \in DOMAIN row :
              row[i] = Senders!Key(h) /\ Senders!Goto(h, Senders!Referring(q, i))
         \/ /\ \A i \in DOMAIN row : row[i] # Senders!Key(h)
            /\ Senders!Goto(h, [q EXCEPT !.pc = "create"])
  BY <1>a DEF Senders!Find
<1>2. q \in Senders!Requests /\ q # Senders!Idle /\ Senders!Key(h) = KeyOf(q)
        /\ Senders!EventAssumption
  BY <1>1, <1>a, AskedTypes, AskedIs DEF SendersOK
<1>3. PICK f \in [DOMAIN row -> Clients] : Senders!MadeBy(f)
  BY DEF SendersOK, Senders!RowsMade
<1>4. DOMAIN row \subseteq Senders!Rows
  BY <1>3, RowsFit DEF SendersOK
<1>5. RowsStay
  BY <1>1 DEF RowsStay
<1>6. /\ HandlersOK'
      /\ \E r \in Senders!Requests :
             Turns(h, r) /\ (r.pc = "create" => \A i \in DOMAIN row : row[i] # KeyOf(r))
  <2>1. ASSUME NEW i \in DOMAIN row, row[i] = Senders!Key(h), Senders!Goto(h,
                 Senders!Referring(q, i))
        PROVE  HandlersOK' /\ Turns(h, Senders!Referring(q, i))
               /\ Senders!Referring(q, i) \in Senders!Requests
                    /\ Senders!Referring(q, i).pc # "create"
    <3>1. Senders!Referring(q, i) \in Senders!Requests
            /\ Senders!Referring(q, i).pc \in {"find", "save"}
      BY <1>1, <1>2, <1>4, Refers
    <3>2. Turns(h, Senders!Referring(q, i))
      BY <2>1, <3>1, GotoTurns DEF SendersOK
    <3>3. i \in Senders!Rows /\ i \in DOMAIN row' /\ row'[i] = Senders!Key(h)
      BY <1>1, <1>4, <2>1
    <3>4. HandlersOK'
      BY <1>1, <1>5, <1>a, <3>2, <3>3, ReferringOK
    <3> QED
      BY <3>1, <3>2, <3>4
  <2>2. ASSUME \A i \in DOMAIN row :
                 row[i] # Senders!Key(h), NEW r, r = [q EXCEPT !.pc = "create"],
               Senders!Goto(h, r)
        PROVE  /\ HandlersOK' /\ r \in Senders!Requests /\ Turns(h, r)
               /\ \A i \in DOMAIN row : row[i] # KeyOf(r)
    <3>1. /\ r \in Senders!Requests /\ r.pc = "create" /\ r # Senders!Idle
          /\ r.event = q.event /\ r.refs = q.refs
      <4>1. q \in [pc : {"find"}, event : Events,
                   refs : {<<>>} \union {<<i>> : i \in Senders!Rows}]
        BY <1>1, <1>2 DEF Senders!Requests
      <4>2. /\ r \in [pc : {"create"}, event : Events,
                      refs : {<<>>} \union {<<i>> : i \in Senders!Rows}]
            /\ r.pc = "create" /\ r.event = q.event /\ r.refs = q.refs
        BY <2>2, <4>1
      <4> QED
        BY <4>2 DEF Senders!Requests, Senders!Idle
    <3>2. Turns(h, r)
      BY <2>2, <3>1, GotoTurns DEF SendersOK
    <3>3. KeyOf(r) = Senders!Key(h)
      BY <1>2, <3>1 DEF KeyOf
    <3>4. /\ q.event \in arrived
          /\ \A n \in 1..Len(q.refs) :
               q.refs[n] \in DOMAIN row /\ row[q.refs[n]] = q.event.needs[n]
      BY <1>2, <1>a DEF SendersOK, HandlersOK, Senders!RequestOK
    <3>5. HandlersOK'
      BY <1>1, <1>2, <1>5, <1>a, <3>1, <3>2, <3>4, HandlersKept DEF SendersOK
    <3> QED
      BY <2>2, <3>1, <3>2, <3>3, <3>5
  <2>3. CASE \E i \in DOMAIN row :
               row[i] = Senders!Key(h) /\ Senders!Goto(h, Senders!Referring(q, i))
    BY <2>1, <2>3
  <2>4. CASE (\A i \in DOMAIN row :
               row[i] # Senders!Key(h)) /\ Senders!Goto(h, [q EXCEPT !.pc = "create"])
    <3>a. PICK r : r = [q EXCEPT !.pc = "create"]
      OBVIOUS
    <3> QED
      BY <2>2, <2>4, <3>a
  <2> QED
    BY <1>1, <2>3, <2>4
<1>7. Senders!RowsMade'
  <2>1. PICK r \in Senders!Requests :
              Turns(h, r) /\ (r.pc = "create" => \A i \in DOMAIN row : row[i] # KeyOf(r))
    BY <1>6
  <2> QED
    BY <1>1, <1>3, <2>1, KeysAre, NextKeysAre, MakersKept
<1>8. Senders!TypeOK' /\ Senders!StoredOK'
  <2>1. handling' \in [Clients -> Senders!Requests]
    BY <1>6 DEF Turns
  <2> QED
    BY <1>1, <2>1 DEF SendersOK, Senders!TypeOK, Senders!StoredOK
<1> QED
  BY <1>2, <1>6, <1>7, <1>8 DEF SendersOK

LEMMA CreateKeeps ==
    ASSUME SendersOK, NEW h \in Clients, Senders!Create(h)
    PROVE  SendersOK'
<1>a. PICK q, m, r : q = handling[h] /\ m = Len(row) + 1 /\ r = Senders!Referring(q, m)
  OBVIOUS
<1>1. /\ q.pc = "create" /\ row' = Append(row, Senders!Key(h)) /\ Senders!Goto(h, r)
      /\ arrived' = arrived /\ stored' = stored /\ redeliveries' = redeliveries
  BY <1>a DEF Senders!Create
<1>2. q \in Senders!Requests /\ q # Senders!Idle /\ Senders!Key(h) = KeyOf(q)
        /\ KeyOf(q) \in Senders!KeysNeeded /\ Senders!EventAssumption
  BY <1>1, <1>a, AskedTypes, AskedIs DEF SendersOK
<1>3. PICK f \in [DOMAIN row -> Clients] : Senders!MadeBy(f)
  BY DEF SendersOK, Senders!RowsMade
<1>4. m \in Senders!Rows
  BY <1>1, <1>3, <1>a, RowsFit DEF SendersOK
<1>5. /\ row' \in Seq(Senders!KeysNeeded) /\ DOMAIN row' = DOMAIN row
           \union {m} /\ m \notin DOMAIN row
      /\ row'[m] = Senders!Key(h) /\ \A i \in DOMAIN row : row'[i] = row[i]
  <2>1. row \in Seq(Senders!KeysNeeded) /\ Senders!Key(h) \in Senders!KeysNeeded
    BY <1>2 DEF SendersOK, Senders!TypeOK
  <2>2. row' \in Seq(Senders!KeysNeeded) /\ Len(row') = Len(row) + 1
    BY <1>1, <2>1, AppendNext
  <2>3. row'[m] = Senders!Key(h) /\ \A i \in DOMAIN row : row'[i] = row[i]
    BY <1>1, <1>a, <2>1, AppendNext
  <2>4. DOMAIN row = 1..Len(row) /\ DOMAIN row' = 1..Len(row') /\ Len(row) \in Nat
    BY <2>1, <2>2
  <2> QED
    BY <1>a, <2>2, <2>3, <2>4
<1>6. r \in Senders!Requests /\ r.pc \in {"find", "save"} /\ Turns(h, r)
  <2>1. r \in Senders!Requests /\ r.pc \in {"find", "save"}
    BY <1>1, <1>2, <1>4, <1>a, Refers
  <2> QED
    BY <1>1, <2>1, GotoTurns DEF SendersOK
<1>7. HandlersOK'
  BY <1>1, <1>4, <1>5, <1>6, <1>a, ReferringOK DEF RowsStay
<1>8. Senders!TypeOK'
  <2>1. handling' \in [Clients -> Senders!Requests]
    BY <1>6 DEF Turns
  <2>2. \A s \in stored : \A n \in 1..2 : row'[s.refs[n]] = s.event.needs[n]
    BY <1>5 DEF SendersOK, Senders!TypeOK, Senders!StoredOK
  <2> QED
    BY <1>1, <1>5, <2>1, <2>2 DEF SendersOK, Senders!TypeOK
<1>9. Senders!StoredOK'
  BY <1>1, <1>5 DEF SendersOK, Senders!StoredOK
<1>10. Senders!RowsMade'
  <2>a. PICK g : g = [i \in DOMAIN row' |-> IF i = m THEN h ELSE f[i]]
    OBVIOUS
  <2>1. /\ g \in [DOMAIN row' -> Clients] /\ g[m] = h
        /\ \A i \in DOMAIN row : g[i] = f[i]
    BY <1>3, <1>5, <2>a
  <2>2. \A i \in DOMAIN row : row[i] = Senders!Key(h) => f[i] # h
    BY <1>1, <1>3, <1>a DEF Senders!MadeBy
  <2>3. ASSUME NEW i \in DOMAIN row', NEW j \in DOMAIN row', row'[i] = row'[j], g[i] = g[j]
        PROVE  i = j
    <3>1. CASE i \in DOMAIN row /\ j \in DOMAIN row
      BY <1>3, <1>5, <2>1, <2>3, <3>1 DEF Senders!MadeBy
    <3>2. CASE i = m \/ j = m
      BY <1>5, <2>1, <2>2, <2>3, <3>2
    <3> QED
      BY <1>5, <3>1, <3>2
  <2>4. ASSUME NEW k \in Clients, handling'[k].pc = "create", NEW i \in DOMAIN row',
               row'[i] = Senders!Key(k)'
        PROVE  g[i] # k
    <3>1. k # h /\ handling'[k] = handling[k] /\ handling[k].pc = "create"
            /\ Senders!Key(k)' = Senders!Key(k)
      BY <1>6, <2>4, KeysAre, NextKeysAre DEF Turns
    <3>2. CASE i = m
      BY <2>1, <3>1, <3>2
    <3>3. CASE i \in DOMAIN row
      BY <1>3, <1>5, <2>1, <2>4, <3>1, <3>3 DEF Senders!MadeBy
    <3> QED
      BY <1>5, <3>2, <3>3
  <2>5. Senders!MadeBy(g)'
    BY <2>3, <2>4 DEF Senders!MadeBy
  <2> QED
    BY <2>1, <2>5 DEF Senders!RowsMade
<1> QED
  BY <1>2, <1>7, <1>8, <1>9, <1>10 DEF SendersOK

(* A handler that is done, or gives up.                                    *)
LEMMA EndingKeeps ==
    ASSUME SendersOK, NEW h \in Clients, Senders!Goto(h, Senders!Idle), row' = row,
             arrived' = arrived
    PROVE  HandlersOK' /\ Senders!RowsMade' /\ handling' \in [Clients -> Senders!Requests]
<1>1. Turns(h, Senders!Idle) /\ Senders!Idle.pc = "idle"
  <2>1. Senders!Idle \in Senders!Requests
    BY DEF Senders!Requests
  <2> QED
    BY <2>1, GotoTurns DEF SendersOK, Senders!Idle
<1>2. HandlersOK'
  BY <1>1, HandlersKept DEF SendersOK, RowsStay
<1>3. Senders!RowsMade'
  <2>1. PICK f \in [DOMAIN row -> Clients] : Senders!MadeBy(f)
    BY DEF SendersOK, Senders!RowsMade
  <2> QED
    BY <1>1, <2>1, KeysAre, NextKeysAre, MakersKept
<1> QED
  BY <1>1, <1>2, <1>3 DEF Turns

LEMMA SaveKeeps ==
    ASSUME SendersOK, NEW h \in Clients, Senders!Save(h)
    PROVE  SendersOK'
<1>a. PICK q, x : /\ q = handling[h]
                  /\ x = [event |-> q.event, refs |-> q.refs,
                          parentId |-> Senders!Parent(q.event, q.refs)]
  OBVIOUS
<1>1. /\ q.pc = "save" /\ stored' = stored \union {x}
      /\ Senders!Goto(h, Senders!Idle) /\ row' = row /\ arrived' = arrived
      /\ redeliveries' = redeliveries
  BY <1>a DEF Senders!Save
<1>2. /\ q \in Senders!Requests /\ q # Senders!Idle
           /\ q.refs \in Senders!Rows \X Senders!Rows /\ Len(q.refs) = 2
  BY <1>1, <1>a, AskedTypes, AskedIs DEF SendersOK
<1>3. /\ q.event \in arrived
      /\ \A n \in 1..Len(q.refs) : q.refs[n] \in DOMAIN row /\ row[q.refs[n]] = q.event.needs[n]
  BY <1>2, <1>a DEF SendersOK, HandlersOK, Senders!RequestOK
<1>4. x.event = q.event /\ x.refs = q.refs /\ x.parentId = Senders!Parent(q.event, q.refs)
  BY <1>a
<1>5. HandlersOK' /\ Senders!RowsMade' /\ handling' \in [Clients -> Senders!Requests]
  BY <1>1, <1>2, <1>4, <1>a, EndingKeeps
<1>6. \A n \in 1..2 : x.refs[n] \in DOMAIN row /\ row[x.refs[n]] = x.event.needs[n]
  BY <1>2, <1>3, <1>4
<1>7. Senders!TypeOK'
  BY <1>1, <1>3, <1>4, <1>5, <1>6 DEF SendersOK, Senders!TypeOK
<1>8. Senders!StoredOK'
  <2> SUFFICES ASSUME NEW s \in stored'
               PROVE  /\ s.refs \in Senders!Rows \X Senders!Rows
                      /\ s.parentId = Senders!Parent(s.event, s.refs)
                      /\ \A n \in 1..2 : s.refs[n] \in DOMAIN row
    BY <1>1 DEF Senders!StoredOK
  <2>1. CASE s = x
    BY <1>2, <1>4, <1>6, <2>1
  <2>2. CASE s \in stored
    BY <2>2 DEF SendersOK, Senders!StoredOK
  <2> QED
    BY <1>1, <2>1, <2>2
<1> QED
  BY <1>5, <1>7, <1>8 DEF SendersOK

LEMMA FailsKeeps ==
    ASSUME SendersOK, NEW h \in Clients, Senders!Fails(h)
    PROVE  SendersOK'
<1>1. /\ Senders!Goto(h, Senders!Idle) /\ row' = row /\ arrived' = arrived
      /\ stored' = stored /\ redeliveries' = redeliveries
  BY DEF Senders!Fails
<1>2. HandlersOK' /\ Senders!RowsMade' /\ handling' \in [Clients -> Senders!Requests]
  BY <1>1, EndingKeeps
<1> QED
  BY <1>1, <1>2 DEF SendersOK, Senders!TypeOK, Senders!StoredOK

LEMMA SendersInit ==
    ASSUME Senders!EventAssumption, Senders!Init
    PROVE  SendersOK
<1>1. row \in Seq(Senders!KeysNeeded) /\ DOMAIN row = {}
  BY DEF Senders!Init
<1>2. handling \in [Clients -> Senders!Requests] /\ \A h \in Clients :
        handling[h] = Senders!Idle
  BY DEF Senders!Init, Senders!Requests
<1>3. Senders!TypeOK /\ HandlersOK /\ Senders!StoredOK
  BY <1>1, <1>2 DEF Senders!Init, Senders!TypeOK, HandlersOK, Senders!RequestOK,
         Senders!StoredOK
<1>4. Senders!RowsMade
  <2>a. PICK f : f = [i \in DOMAIN row |-> CHOOSE h \in Clients : TRUE]
    OBVIOUS
  <2>1. f \in [DOMAIN row -> Clients] /\ Senders!MadeBy(f)
    BY <1>1, <2>a DEF Senders!MadeBy
  <2> QED
    BY <2>1 DEF Senders!RowsMade
<1> QED
  BY <1>3, <1>4 DEF SendersOK

LEMMA SendersNext ==
    ASSUME SendersOK, [Senders!Next]_(Senders!vars)
    PROVE  SendersOK'
<1>1. CASE UNCHANGED Senders!vars
  BY <1>1 DEF Senders!vars, SendersOK, Senders!TypeOK, HandlersOK, Senders!RequestOK,
         Senders!StoredOK, Senders!RowsMade, Senders!MadeBy, Senders!Key
<1>2. CASE Senders!Next
  BY <1>1, <1>2, ArriveKeeps, FindKeeps, CreateKeeps, SaveKeeps, FailsKeeps DEF
         Senders!Next, Senders!Rest
<1> QED
  BY <1>1, <1>2

(* A key's rows have different makers.                                     *)
LEMMA RowsBounded == SendersOK => Senders!RowsPerKeyBounded
<1> SUFFICES ASSUME SendersOK, NEW k \in Senders!KeysNeeded
             PROVE  Cardinality({i \in DOMAIN row : row[i] = k}) <= Cardinality(Clients)
  BY SenderCounts DEF Senders!RowsPerKeyBounded
<1>1. PICK f \in [DOMAIN row -> Clients] : Senders!MadeBy(f)
  BY DEF SendersOK, Senders!RowsMade
<1>a. PICK S, g : S = {i \in DOMAIN row : row[i] = k} /\ g = [i \in S |-> f[i]]
  OBVIOUS
<1>2. g \in [S -> Clients] /\ \A i, j \in S : g[i] = g[j] => i = j
  BY <1>1, <1>a DEF Senders!MadeBy
<1>3. g \in Injection(S, Clients)
  BY <1>2 DEF Injection, IsInjective
<1>4. Cardinality(S) <= Cardinality(Clients)
  BY <1>3, EventsFinite, FS_Injection DEF SendersOK
<1> QED
  BY <1>4, <1>a

LEMMA AnswersFound == SendersOK => Senders!AnswersFindTheirComment
<1> SUFFICES ASSUME SendersOK, NEW s \in stored, NEW r \in stored, s.event.parent = r.event.id
             PROVE  /\ r \in Senders!GetRootMessage(s)
                    /\ \A q \in Senders!GetRootMessage(s) : q.event = r.event
  BY DEF Senders!AnswersFindTheirComment
<1>1. \A x \in stored : x.event \in Events
  BY DEF SendersOK, Senders!TypeOK
<1>2. s.event.parent # NoParent
  BY <1>1 DEF SendersOK, Senders!EventAssumption
<1>3. s.parentId = r.event.id
  BY <1>2 DEF SendersOK, Senders!StoredOK, Senders!Parent
<1>4. \A x \in stored : x.event.id = r.event.id => x.event = r.event
  BY <1>1 DEF SendersOK, Senders!EventAssumption
<1> QED
  BY <1>3, <1>4 DEF Senders!GetRootMessage

(* Whatever the messages, however their handlers interleave and however    *)
(* often a message is delivered, rows refer to what they name, a sender or *)
(* post has at most one row per handler, and an answer leads to the        *)
(* comment it answers.                                                     *)
THEOREM SendersAreKept == Senders!Spec => []SendersKept
<1>1. SendersOK => SendersKept
  BY RowsBounded, AnswersFound DEF SendersOK, SendersKept, Senders!SendersKept
<1>2. Senders!Init => SendersOK
  BY SendersAssumption, SendersInit
<1>3. SendersOK /\ [Senders!Next]_(Senders!vars) => SendersOK'
  BY SendersNext
<1> QED
  BY <1>1, <1>2, <1>3, PTL DEF Senders!Spec
====
