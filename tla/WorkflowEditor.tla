--------------------------- MODULE WorkflowEditor ---------------------------
(***************************************************************************)
(* A tab's automation: workflows are drawn, redrawn, activated and deleted *)
(* by the tab's people while the hook of a message reads them.             *)
(*                                                                         *)
(* Saving a drawing is a row write, deletes by workflow and upserts by id, *)
(* each awaited on its own; the hook reads the active row, the current     *)
(* node, its edge and the edge's target in separate queries.  There is no  *)
(* transaction and no lock, and node and edge ids come from the browser.   *)
(*                                                                         *)
(* workflow   the Workflow rows                                            *)
(* node       for each node id, the workflow its row belongs to            *)
(* edge       for each edge id, its row                                    *)
(* pc, job    the editing requests in flight and their local variables     *)
(* at, hook   the hooks in flight and what they have read                  *)
(*                                                                         *)
(* The row fields since, clearedAt and retyped, the local fields clearedAt *)
(* and edits and the variables activations, edits, last and disturbed are  *)
(* history: no guard but the bounds reads them.                            *)
(***************************************************************************)
EXTENDS Naturals, FiniteSets, Functions

CONSTANTS Editors,         \* slots for editing requests
          Hooks,           \* slots for hooks
          Flows,           \* ids of Workflow rows
          Tabs, Types,
          Nodes, EdgeIds,
          Drawings,        \* what browsers send: the nodes and edges of a save
          Receive,         \* the nodes of type "ReceiveMessage"
          None,            \* a column or local without a value
          MaxActivations,  \* bound: activations asked for
          MaxEdits         \* bound: drawings saved

ASSUME DrawingAssumption ==
    \A d \in Drawings : /\ d.nodes \subseteq Nodes
                        /\ DOMAIN d.edges \subseteq EdgeIds
                        /\ \A e \in DOMAIN d.edges : d.edges[e] \in Nodes \X Nodes
ASSUME ReceiveAssumption == Receive \subseteq Nodes
ASSUME NoneAssumption == None \notin Flows \union Nodes \union Tabs \union Types
ASSUME BoundAssumption == MaxActivations \in Nat /\ MaxEdits \in Nat

VARIABLES workflow, node, edge, pc, job, at, hook,
          activations, edits, last, disturbed

graph == <<node, edge>>
hooks == <<at, hook>>
history == <<activations, edits, last, disturbed>>
vars == <<workflow, graph, pc, job, hooks, history>>

NoDrawing == [nodes |-> {}, edges |-> [e \in {} |-> None]]
NoRow == [exists |-> FALSE, tab |-> None, type |-> None, isActive |-> FALSE,
          delete |-> FALSE, since |-> 0, clearedAt |-> 0, retyped |-> FALSE]
NoEdge == [flow |-> None, source |-> None, target |-> None]
NoJob == [flow |-> None, tab |-> None, type |-> None, activate |-> FALSE,
          drawing |-> NoDrawing, nodes |-> {}, edges |-> {}, clearedAt |-> 0]
NoHook == [tab |-> None, type |-> None, flow |-> None, node |-> None,
           outcome |-> "none", edits |-> 0]

(* The requests whose writes to a workflow's nodes and edges are under     *)
(* way: "background" are upserts that nobody awaits any more.              *)
Writing == {"remove nodes", "remove edges", "nodes", "edges", "background"}
Steps == {"idle", "row", "deactivate", "activate", "delete"} \union Writing
Saving(f) == \E p \in Editors : pc[p] \in Writing /\ job[p].flow = f

NodesOf(f) == {n \in Nodes : node[n] = f}
EdgesOf(f) == {e \in EdgeIds : edge[e].flow = f}

Init ==
    /\ workflow = [f \in Flows |-> NoRow]
    /\ node = [n \in Nodes |-> None]
    /\ edge = [e \in EdgeIds |-> NoEdge]
    /\ pc = [p \in Editors |-> "idle"]
    /\ job = [p \in Editors |-> NoJob]
    /\ at = [h \in Hooks |-> "idle"]
    /\ hook = [h \in Hooks |-> NoHook]
    /\ activations = 0
    /\ edits = [f \in Flows |-> 0]
    /\ last = [f \in Flows |-> NoDrawing]
    /\ disturbed = {}

Goto(p, step) == pc' = [pc EXCEPT ![p] = step]

Leave(p) ==
    /\ pc' = [pc EXCEPT ![p] = "idle"]
    /\ job' = [job EXCEPT ![p] = NoJob]

(* getWorkflowById: a row that is not deleted.                             *)
Present(f) == workflow[f].exists /\ ~workflow[f].delete
-----------------------------------------------------------------------------
(* Drawing.                                                                *)

Drawn == Cardinality({p \in Editors : pc[p] = "row"})
EditsLeft == FoldFunction(LAMBDA a, b : a + b, 0, edits) + Drawn < MaxEdits

(* The row of a drawing is written: its nodes and edges will follow.       *)
Begin(f, d) ==
    /\ edits' = [edits EXCEPT ![f] = @ + 1]
    /\ last' = [last EXCEPT ![f] = d]
    /\ disturbed' = IF Saving(f) THEN disturbed \union {f} ELSE disturbed \ {f}
    /\ UNCHANGED activations

(* createWorkflow: Promise.all is given arrays of promises, so it awaits   *)
(* none of them; the request answers and the upserts run on.               *)
CreateWorkflow(p) ==
    /\ pc[p] = "idle"
    /\ EditsLeft
    /\ \E f \in Flows, t \in Tabs, ty \in Types, d \in Drawings :
          /\ ~workflow[f].exists
          /\ workflow' = [workflow EXCEPT
                 ![f].exists = TRUE, ![f].tab = t, ![f].type = ty]
          /\ job' = [job EXCEPT ![p] =
                 [NoJob EXCEPT !.flow = f, !.drawing = d, !.nodes = d.nodes,
                               !.edges = DOMAIN d.edges]]
          /\ Begin(f, d)
    /\ Goto(p, "background")
    /\ UNCHANGED <<graph, hooks>>

UpdateWorkflow(p) ==
    /\ pc[p] = "idle"
    /\ EditsLeft
    /\ \E f \in Flows, t \in Tabs, ty \in Types, d \in Drawings :
          /\ Present(f)
          /\ job' = [job EXCEPT ![p] =
                 [NoJob EXCEPT !.flow = f, !.tab = t, !.type = ty, !.drawing = d]]
    /\ Goto(p, "row")
    /\ UNCHANGED <<workflow, graph, hooks, history>>

(* The row takes the tab and the type the browser sent.                    *)
SaveWorkflowData(p) ==
    /\ pc[p] = "row"
    /\ LET f == job[p].flow
       IN  /\ workflow' = [workflow EXCEPT
                  ![f].tab = job[p].tab, ![f].type = job[p].type,
                  ![f].retyped = @ \/ workflow[f].type # job[p].type]
           /\ Begin(f, job[p].drawing)
    /\ Goto(p, "remove nodes")
    /\ UNCHANGED <<graph, job, hooks>>

RemoveAllNode(p) ==
    /\ pc[p] = "remove nodes"
    /\ node' = [n \in Nodes |-> IF node[n] = job[p].flow THEN None ELSE node[n]]
    /\ Goto(p, "remove edges")
    /\ UNCHANGED <<workflow, edge, job, hooks, history>>

(* Mutant: the old edges stay.                                             *)
RemoveNoEdge(p) ==
    /\ pc[p] = "remove edges"
    /\ Goto(p, "nodes")
    /\ job' = [job EXCEPT ![p].nodes = job[p].drawing.nodes,
                          ![p].edges = DOMAIN job[p].drawing.edges]
    /\ UNCHANGED <<workflow, graph, hooks, history>>

RemoveAllEdge(p) ==
    /\ pc[p] = "remove edges"
    /\ edge' = [e \in EdgeIds |->
           IF edge[e].flow = job[p].flow THEN NoEdge ELSE edge[e]]
    /\ Goto(p, "nodes")
    /\ job' = [job EXCEPT ![p].nodes = job[p].drawing.nodes,
                          ![p].edges = DOMAIN job[p].drawing.edges]
    /\ UNCHANGED <<workflow, node, hooks, history>>

(* The upsert is by id alone: a node id that another workflow uses is      *)
(* moved from it.                                                          *)
TakenFrom(owner, f) == IF owner \in {None, f} THEN {} ELSE {owner}

(* Mutant: the upsert does not set the workflow of a row that exists.      *)
SaveWorkflowNodeKept(p) ==
    /\ pc[p] \in {"nodes", "background"}
    /\ \E n \in job[p].nodes :
          /\ node' = [node EXCEPT ![n] = IF @ = None THEN job[p].flow ELSE @]
          /\ job' = [job EXCEPT ![p].nodes = @ \ {n}]
    /\ UNCHANGED <<workflow, edge, pc, hooks, history>>

SaveWorkflowNode(p) ==
    /\ pc[p] \in {"nodes", "background"}
    /\ \E n \in job[p].nodes :
          /\ node' = [node EXCEPT ![n] = job[p].flow]
          /\ job' = [job EXCEPT ![p].nodes = @ \ {n}]
          /\ disturbed' = disturbed \union TakenFrom(node[n], job[p].flow)
    /\ UNCHANGED <<workflow, edge, pc, hooks, activations, edits, last>>

SaveWorkflowEdge(p) ==
    /\ pc[p] \in {"edges", "background"}
    /\ \E e \in job[p].edges :
          /\ edge' = [edge EXCEPT ![e] =
                 [flow |-> job[p].flow, source |-> job[p].drawing.edges[e][1],
                  target |-> job[p].drawing.edges[e][2]]]
          /\ job' = [job EXCEPT ![p].edges = @ \ {e}]
          /\ disturbed' = disturbed \union TakenFrom(edge[e].flow, job[p].flow)
    /\ UNCHANGED <<workflow, node, pc, hooks, activations, edits, last>>

(* All nodes are saved: the edges follow, in an update.                    *)
NodesSaved(p) ==
    /\ pc[p] = "nodes" /\ job[p].nodes = {}
    /\ Goto(p, "edges")
    /\ UNCHANGED <<workflow, graph, job, hooks, history>>

Saved(p) ==
    /\ pc[p] \in {"edges", "background"}
    /\ job[p].nodes = {} /\ job[p].edges = {}
    /\ Leave(p)
    /\ UNCHANGED <<workflow, graph, hooks, history>>

(* One upsert is rejected.  An update throws and saves no edges after      *)
(* nodes; the upserts already called run on in the background.             *)
UpsertFails(p) ==
    /\ \/ /\ pc[p] \in {"nodes", "background"}
          /\ \E n \in job[p].nodes :
                job' = [job EXCEPT
                    ![p].nodes = @ \ {n},
                    ![p].edges = IF pc[p] = "nodes" THEN {} ELSE @]
       \/ /\ pc[p] \in {"edges", "background"}
          /\ \E e \in job[p].edges : job' = [job EXCEPT ![p].edges = @ \ {e}]
    /\ Goto(p, "background")
    /\ disturbed' = disturbed \union {job[p].flow}
    /\ UNCHANGED <<workflow, graph, hooks, activations, edits, last>>

(* A request whose row write or delete is rejected.                        *)
RequestFails(p) ==
    /\ pc[p] \in Steps \ {"idle", "nodes", "edges", "background"}
    /\ disturbed' = IF pc[p] \in Writing THEN disturbed \union {job[p].flow}
                    ELSE disturbed
    /\ Leave(p)
    /\ UNCHANGED <<workflow, graph, hooks, activations, edits, last>>
-----------------------------------------------------------------------------
(* Activation and deletion.                                                *)

UpdateWorkflowActivation(p) ==
    /\ pc[p] = "idle"
    /\ \E f \in Flows, activate \in BOOLEAN :
          /\ Present(f)
          /\ activate => activations + Cardinality({q \in Editors : job[q].activate})
                             < MaxActivations
          /\ job' = [job EXCEPT ![p] =
                 [NoJob EXCEPT !.flow = f, !.type = workflow[f].type,
                               !.activate = activate]]
          /\ Goto(p, IF activate THEN "deactivate" ELSE "activate")
    /\ UNCHANGED <<workflow, graph, hooks, history>>

(* Mutant: only the workflows of the same tab are deactivated.             *)
DeactivateTab(p) ==
    /\ pc[p] = "deactivate"
    /\ workflow' = [f \in Flows |->
           IF workflow[f].type = job[p].type
              /\ workflow[f].tab = workflow[job[p].flow].tab
           THEN [workflow[f] EXCEPT !.isActive = FALSE, !.retyped = FALSE]
           ELSE workflow[f]]
    /\ job' = [job EXCEPT ![p].clearedAt = activations]
    /\ Goto(p, "activate")
    /\ UNCHANGED <<graph, hooks, history>>

(* Every workflow of the type, of whatever tab.                            *)
DeactivateAllWorkflow(p) ==
    /\ pc[p] = "deactivate"
    /\ workflow' = [f \in Flows |->
           IF workflow[f].type = job[p].type
           THEN [workflow[f] EXCEPT !.isActive = FALSE, !.retyped = FALSE]
           ELSE workflow[f]]
    /\ job' = [job EXCEPT ![p].clearedAt = activations]
    /\ Goto(p, "activate")
    /\ UNCHANGED <<graph, hooks, history>>

Activated(r, j, n) ==
    [r EXCEPT !.isActive = TRUE, !.since = n, !.clearedAt = j.clearedAt,
              !.retyped = r.type # j.type]

(* By id: it also hits a row that was deleted or redrawn meanwhile.        *)
UpdateActivation(p) ==
    /\ pc[p] = "activate"
    /\ LET f == job[p].flow
       IN  IF job[p].activate
           THEN /\ activations' = activations + 1
                /\ workflow' = [workflow EXCEPT
                       ![f] = Activated(@, job[p], activations + 1)]
           ELSE /\ workflow' = [workflow EXCEPT
                       ![f].isActive = FALSE, ![f].retyped = FALSE]
                /\ UNCHANGED activations
    /\ Leave(p)
    /\ UNCHANGED <<graph, hooks, edits, last, disturbed>>

AskDelete(p) ==
    /\ pc[p] = "idle"
    /\ \E f \in Flows :
          /\ Present(f)
          /\ job' = [job EXCEPT ![p] = [NoJob EXCEPT !.flow = f]]
    /\ Goto(p, "delete")
    /\ UNCHANGED <<workflow, graph, hooks, history>>

(* A deleted workflow keeps its activation.                                *)
DeleteWorkflow(p) ==
    /\ pc[p] = "delete"
    /\ workflow' = [workflow EXCEPT ![job[p].flow].delete = TRUE]
    /\ Leave(p)
    /\ UNCHANGED <<graph, hooks, history>>
-----------------------------------------------------------------------------
(* The hook of a received message (tryCallHook, case ReceiveMessage).      *)

ReceiveMessage(h) ==
    /\ at[h] = "idle"
    /\ \E t \in Tabs, ty \in Types :
          hook' = [hook EXCEPT ![h] = [NoHook EXCEPT !.tab = t, !.type = ty]]
    /\ at' = [at EXCEPT ![h] = "flow"]
    /\ UNCHANGED <<workflow, graph, pc, job, history>>

Answer(h, outcome) ==
    /\ at' = [at EXCEPT ![h] = "done"]
    /\ hook' = [hook EXCEPT ![h].outcome = outcome]

Read(h, step, r) ==
    /\ at' = [at EXCEPT ![h] = step]
    /\ hook' = [hook EXCEPT ![h] = r]

(* Which drawing is stored, 0 while one is being stored (edits counts      *)
(* from 1).                                                                *)
Stored(f) == IF Saving(f) THEN 0 ELSE edits[f]

(* The active workflow of the tab and type, deleted or not.                *)
FindWorkflowByTabId(h) ==
    /\ at[h] = "flow"
    /\ LET found == {f \in Flows : /\ workflow[f].isActive
                                   /\ workflow[f].tab = hook[h].tab
                                   /\ workflow[f].type = hook[h].type}
       IN  IF found = {} THEN Answer(h, "error")
           ELSE \E f \in found :
                   Read(h, "data", [hook[h] EXCEPT !.flow = f, !.edits = Stored(f)])
    /\ UNCHANGED <<workflow, graph, pc, job, history>>

(* updateData: the first message of a deleted workflow finds no tab.       *)
UpdateData(h) ==
    /\ at[h] = "data"
    /\ IF workflow[hook[h].flow].delete THEN Answer(h, "error")
       ELSE Read(h, "node", hook[h])
    /\ UNCHANGED <<workflow, graph, pc, job, history>>

FindNodeByFlowId(h) ==
    /\ at[h] = "node"
    /\ LET found == NodesOf(hook[h].flow) \intersect Receive
       IN  IF found = {} THEN Answer(h, "error")
           ELSE \E n \in found : Read(h, "edge", [hook[h] EXCEPT !.node = n])
    /\ UNCHANGED <<workflow, graph, pc, job, history>>

FindNextWorkflowNode(h) ==
    /\ at[h] = "edge"
    /\ LET found == {e \in EdgesOf(hook[h].flow) : edge[e].source = hook[h].node}
       IN  IF found = {} THEN Answer(h, "none")
           ELSE \E e \in found :
                   Read(h, "target", [hook[h] EXCEPT !.node = edge[e].target])
    /\ UNCHANGED <<workflow, graph, pc, job, history>>

FindNodeById(h) ==
    /\ at[h] = "target"
    /\ Answer(h, IF node[hook[h].node] = hook[h].flow THEN "next" ELSE "none")
    /\ UNCHANGED <<workflow, graph, pc, job, history>>

Return(h) ==
    /\ at[h] = "done"
    /\ Read(h, "idle", NoHook)
    /\ UNCHANGED <<workflow, graph, pc, job, history>>

(* The process ends, and with it every request.                            *)
Crash ==
    /\ pc' = [p \in Editors |-> "idle"]
    /\ job' = [p \in Editors |-> NoJob]
    /\ at' = [h \in Hooks |-> "idle"]
    /\ hook' = [h \in Hooks |-> NoHook]
    /\ disturbed' = disturbed \union {f \in Flows : Saving(f)}
    /\ UNCHANGED <<workflow, graph, activations, edits, last>>

Edit(p) ==
    \/ CreateWorkflow(p) \/ UpdateWorkflow(p) \/ SaveWorkflowData(p)
    \/ RemoveAllNode(p) \/ RemoveAllEdge(p) \/ SaveWorkflowNode(p)
    \/ SaveWorkflowEdge(p) \/ NodesSaved(p) \/ Saved(p)
    \/ UpsertFails(p) \/ RequestFails(p)

Manage(p) ==
    \/ UpdateWorkflowActivation(p) \/ DeactivateAllWorkflow(p)
    \/ UpdateActivation(p) \/ AskDelete(p) \/ DeleteWorkflow(p)

HookStep(h) ==
    \/ ReceiveMessage(h) \/ FindWorkflowByTabId(h) \/ UpdateData(h)
    \/ FindNodeByFlowId(h) \/ FindNextWorkflowNode(h) \/ FindNodeById(h)
    \/ Return(h)

Next ==
    \/ \E p \in Editors : Edit(p) \/ Manage(p)
    \/ \E h \in Hooks : HookStep(h)
    \/ Crash

Spec == Init /\ [][Next]_vars
-----------------------------------------------------------------------------
WorkflowRow == [exists : BOOLEAN, tab : Tabs \union {None},
                type : Types \union {None}, isActive : BOOLEAN,
                delete : BOOLEAN, since : Nat, clearedAt : Nat,
                retyped : BOOLEAN]
EdgeRow == [flow : Flows, source : Nodes, target : Nodes]
JobRow == [flow : Flows \union {None}, tab : Tabs \union {None},
           type : Types \union {None}, activate : BOOLEAN,
           drawing : Drawings \union {NoDrawing}, nodes : SUBSET Nodes,
           edges : SUBSET EdgeIds, clearedAt : Nat]
HookRow == [tab : Tabs \union {None}, type : Types \union {None},
            flow : Flows \union {None}, node : Nodes \union {None},
            outcome : {"none", "error", "next"}, edits : Nat]

TypeOK ==
    /\ workflow \in [Flows -> WorkflowRow]
    /\ node \in [Nodes -> Flows \union {None}]
    /\ edge \in [EdgeIds -> EdgeRow \union {NoEdge}]
    /\ pc \in [Editors -> Steps]
    /\ job \in [Editors -> JobRow]
    /\ \A p \in Editors :
          /\ pc[p] # "idle" => job[p].flow \in Flows
          /\ job[p].nodes \subseteq job[p].drawing.nodes
          /\ job[p].edges \subseteq DOMAIN job[p].drawing.edges
    /\ at \in [Hooks -> {"idle", "flow", "data", "node", "edge", "target", "done"}]
    /\ hook \in [Hooks -> HookRow]
    /\ \A h \in Hooks :
          /\ at[h] \in {"data", "node", "edge", "target"} => hook[h].flow \in Flows
          /\ at[h] \in {"edge", "target"} => hook[h].node \in Nodes
    /\ activations \in Nat
    /\ edits \in [Flows -> Nat]
    /\ last \in [Flows -> Drawings \union {NoDrawing}]
    /\ disturbed \subseteq Flows

(* The stored graph of a workflow is the last drawing that was sent,       *)
(* nothing of an older one and nothing missing, once its upserts are over, *)
(* unless two saves of it overlapped, a query failed, the process ended,   *)
(* or another workflow's save took one of its ids.                         *)
GraphIsLastDrawing ==
    \A f \in Flows \ disturbed :
        workflow[f].exists /\ ~Saving(f)
            => /\ NodesOf(f) = last[f].nodes
               /\ EdgesOf(f) = DOMAIN last[f].edges
               /\ \A e \in EdgesOf(f) :
                     <<edge[e].source, edge[e].target>> = last[f].edges[e]

(* The stored rows are a graph, and the one that was drawn.                *)
GraphKept == TypeOK /\ GraphIsLastDrawing

(* Two workflows of a type are active only if the later activation cleared *)
(* the type before the earlier one was made, or one of the two changed its *)
(* type (deactivateAllWorkflow, then updateActivation).                    *)
TwoActiveExplained ==
    \A f, g \in Flows :
        /\ workflow[f].isActive /\ workflow[g].isActive
        /\ workflow[f].type = workflow[g].type
        /\ workflow[f].since < workflow[g].since
        => \/ workflow[g].clearedAt < workflow[f].since
           \/ workflow[f].retyped \/ workflow[g].retyped

(* What the hook makes of a drawing: of the nodes that receive, of the     *)
(* edges that leave them, and of targets that were not drawn.              *)
Starts(d) == d.nodes \intersect Receive
Follow(d, n) == {d.edges[e][2] : e \in {x \in DOMAIN d.edges : d.edges[x][1] = n}}
Leads(d, n) ==
    IF Follow(d, n) = {} THEN {"none"}
    ELSE {IF m \in d.nodes THEN "next" ELSE "none" : m \in Follow(d, n)}
Meant(d) ==
    IF Starts(d) = {} THEN {"error"} ELSE UNION {Leads(d, n) : n \in Starts(d)}

(* Since the hook looked, the workflow was neither saved nor deleted, and  *)
(* its graph is the one that was drawn.                                    *)
Unmoved(h, f) ==
    /\ f \notin disturbed /\ ~workflow[f].delete
    /\ hook[h].edits = Stored(f) /\ ~Saving(f)

(* A hook that found a live workflow and met no save of it goes where the  *)
(* drawing goes: an error of the intake, or automation that stops in the   *)
(* middle, needs a save, a deletion or a disturbed graph under it.         *)
HookFollowsDrawing ==
    \A h \in Hooks, f \in Flows :
        at[h] = "done" /\ hook[h].flow = f /\ Unmoved(h, f)
        => hook[h].outcome \in Meant(last[f])
=============================================================================
