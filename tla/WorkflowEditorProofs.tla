------------------------- MODULE WorkflowEditorProofs -------------------------
(***************************************************************************)
(* What holds of the editor of workflows for any number of requests,       *)
(* hooks, workflows and drawings.                                          *)
(*                                                                         *)
(* First what each action does to the rows and local variables, as facts   *)
(* about their fields; then one lemma for each part of IInv, with a step   *)
(* for each action; last the theorems.                                     *)
(***************************************************************************)
EXTENDS WorkflowEditor, TLAPS
-----------------------------------------------------------------------------
(* What the steps rely on.                                                 *)

(* A request works on a row that exists, and a row that does not has no    *)
(* graph and is not active.                                                *)
RowsOK ==
    /\ \A p \in Editors : pc[p] # "idle" => workflow[job[p].flow].exists
    /\ \A f \in Flows : ~workflow[f].exists =>
          NodesOf(f) = {} /\ EdgesOf(f) = {} /\ ~workflow[f].isActive

(* The edges of a workflow are these of a drawing, as they were drawn.     *)
EdgesAre(f, d, E) ==
    /\ EdgesOf(f) = E
    /\ \A e \in E : edge[e] = [flow |-> f, source |-> d.edges[e][1],
                                target |-> d.edges[e][2]]

(* How far a save has come that nothing disturbs.                          *)
DrawnSoFar(p, f) ==
    LET d == job[p].drawing
    IN  /\ d = last[f]
        /\ pc[p] = "remove edges" => NodesOf(f) = {}
        /\ pc[p] \in {"nodes", "edges", "background"} =>
              /\ NodesOf(f) = d.nodes \ job[p].nodes
              /\ EdgesAre(f, d, (DOMAIN d.edges) \ job[p].edges)

(* A workflow that nothing disturbed is saved by one request at a time;    *)
(* after that its graph is the drawing.                                    *)
SaveOK(f) ==
    /\ \A p, q \in Editors :
          /\ pc[p] \in Writing /\ job[p].flow = f
          /\ pc[q] \in Writing /\ job[q].flow = f
          => p = q /\ DrawnSoFar(p, f)
    /\ workflow[f].exists /\ ~Saving(f)
          => NodesOf(f) = last[f].nodes
             /\ EdgesAre(f, last[f], DOMAIN last[f].edges)
SavesOK == \A f \in Flows \ disturbed : SaveOK(f)

(* A request that cleared its type meets older activations of that type    *)
(* only in rows that changed to it.                                        *)
ActivationsOK ==
    /\ \A f \in Flows : workflow[f].since <= activations
    /\ \A p \in Editors : pc[p] = "activate" /\ job[p].activate =>
          /\ job[p].clearedAt <= activations
          /\ \A f \in Flows : workflow[f].isActive /\ workflow[f].type = job[p].type
                 => workflow[f].since > job[p].clearedAt \/ workflow[f].retyped

(* Where a hook stands in a drawing.                                       *)
Follows(h, d) ==
    /\ at[h] = "edge" => hook[h].node \in Starts(d)
    /\ at[h] = "target" => \E n \in Starts(d) : hook[h].node \in Follow(d, n)
    /\ at[h] = "done" => hook[h].outcome \in Meant(d)

(* A hook remembers a drawing that is stored no more while a later one is  *)
(* being saved; if nothing moved it is where that drawing leads.           *)
HookOK(h, f) ==
    /\ workflow[f].exists
    /\ hook[h].edits <= edits[f]
    /\ Saving(f) => hook[h].edits < edits[f]
    /\ Unmoved(h, f) => Follows(h, last[f])

HooksOK ==
    /\ \A f \in Flows : Saving(f) => edits[f] > 0
    /\ \A h \in Hooks, f \in Flows : hook[h].flow = f => HookOK(h, f)
    /\ \A h \in Hooks : at[h] \in {"idle", "flow"} => hook[h].flow = None

(* The inductive invariant.                                                *)
IInv == TypeOK /\ RowsOK /\ SavesOK /\ ActivationsOK /\ TwoActiveExplained /\ HooksOK
-----------------------------------------------------------------------------
LEMMA EmptyRecords ==
    /\ NoRow \in WorkflowRow /\ NoJob \in JobRow /\ NoHook \in HookRow
    /\ NoJob.flow = None /\ NoJob.nodes = {} /\ NoJob.edges = {} /\ NoJob.activate = FALSE
    /\ NoHook.flow = None /\ NoRow.exists = FALSE /\ NoRow.isActive = FALSE
    /\ NoRow.since = 0
    /\ NoDrawing.nodes = {} /\ DOMAIN NoDrawing.edges = {}
BY DEF NoRow, WorkflowRow, NoJob, JobRow, NoHook, HookRow, NoDrawing

LEMMA DrawingTypes ==
    \A d \in Drawings \union {NoDrawing} :
        /\ d.nodes \subseteq Nodes /\ DOMAIN d.edges \subseteq EdgeIds
        /\ \A e \in DOMAIN d.edges : d.edges[e][1] \in Nodes /\ d.edges[e][2] \in Nodes
BY DrawingAssumption, EmptyRecords

-----------------------------------------------------------------------------
(* What the actions do to the rows and to the local variables.             *)

CreateMove(p, f, d, w, j) ==
    /\ pc[p] = "idle" /\ ~workflow[f].exists
    /\ workflow' = [workflow EXCEPT ![f] = w]
    /\ w.exists /\ w.isActive = workflow[f].isActive /\ w.since = workflow[f].since
    /\ job' = [job EXCEPT ![p] = j]
    /\ j.flow = f /\ j.drawing = d /\ j.nodes = d.nodes /\ j.edges = DOMAIN d.edges
    /\ ~j.activate
    /\ pc' = [pc EXCEPT ![p] = "background"]
    /\ Begin(f, d)
    /\ UNCHANGED <<node, edge, at, hook>>

LEMMA CreateEffect ==
    ASSUME TypeOK, NEW p \in Editors, CreateWorkflow(p)
    PROVE  \E f \in Flows, d \in Drawings, w \in WorkflowRow, j \in JobRow :
              CreateMove(p, f, d, w, j)
<1>1. PICK f \in Flows, t \in Tabs, ty \in Types, d \in Drawings :
          /\ ~workflow[f].exists
          /\ workflow' = [workflow EXCEPT
                 ![f].exists = TRUE, ![f].tab = t, ![f].type = ty]
          /\ job' = [job EXCEPT ![p] =
                 [NoJob EXCEPT !.flow = f, !.drawing = d, !.nodes = d.nodes,
                               !.edges = DOMAIN d.edges]]
          /\ Begin(f, d)
  BY DEF CreateWorkflow
<1> DEFINE w == [workflow[f] EXCEPT !.exists = TRUE, !.tab = t, !.type = ty]
           j == [NoJob EXCEPT !.flow = f, !.drawing = d, !.nodes = d.nodes,
                               !.edges = DOMAIN d.edges]
<1>0. workflow \in [Flows -> WorkflowRow] /\ workflow[f] \in WorkflowRow
  BY DEF TypeOK
<1>2. w \in WorkflowRow /\ w.exists /\ w.isActive = workflow[f].isActive
      /\ w.since = workflow[f].since
  BY <1>0 DEF WorkflowRow
<1>3. /\ j \in JobRow /\ j.flow = f /\ j.drawing = d /\ j.nodes = d.nodes
      /\ j.edges = DOMAIN d.edges /\ ~j.activate
  BY DrawingTypes DEF JobRow, NoJob
<1>4. workflow' = [workflow EXCEPT ![f] = w] /\ job' = [job EXCEPT ![p] = j]
  BY <1>0, <1>1
<1> HIDE DEF w, j
<1> QED
  BY <1>1, <1>2, <1>3, <1>4 DEF CreateMove, CreateWorkflow, Goto, graph, hooks

UpdateMove(p, f, j, step) ==
    /\ pc[p] = "idle" /\ workflow[f].exists
    /\ job' = [job EXCEPT ![p] = j]
    /\ j.flow = f /\ j.nodes = {} /\ j.edges = {}
    /\ step = "activate" => ~j.activate
    /\ pc' = [pc EXCEPT ![p] = step]
    /\ UNCHANGED <<workflow, node, edge, at, hook, history>>

LEMMA UpdateEffect ==
    ASSUME TypeOK, NEW p \in Editors,
           UpdateWorkflow(p) \/ UpdateWorkflowActivation(p) \/ AskDelete(p)
    PROVE  \E f \in Flows, j \in JobRow,
              step \in {"row", "deactivate", "activate", "delete"} : UpdateMove(p, f, j, step)
<1>1. CASE UpdateWorkflow(p)
  <2>1. PICK f \in Flows, t \in Tabs, ty \in Types, d \in Drawings :
            /\ Present(f)
            /\ job' = [job EXCEPT ![p] =
                   [NoJob EXCEPT !.flow = f, !.tab = t, !.type = ty, !.drawing = d]]
    BY <1>1 DEF UpdateWorkflow
  <2> DEFINE j == [NoJob EXCEPT !.flow = f, !.tab = t, !.type = ty, !.drawing = d]
  <2>2. j \in JobRow /\ j.flow = f /\ j.nodes = {} /\ j.edges = {} /\ ~j.activate
    BY DrawingTypes DEF JobRow, NoJob
  <2> HIDE DEF j
  <2> QED
    BY <1>1, <2>1, <2>2 DEF UpdateMove, UpdateWorkflow, Goto, graph, hooks, Present, j
<1>2. CASE UpdateWorkflowActivation(p)
  <2>1. PICK f \in Flows, b \in BOOLEAN :
            /\ Present(f)
            /\ job' = [job EXCEPT ![p] =
                   [NoJob EXCEPT !.flow = f, !.type = workflow[f].type, !.activate = b]]
            /\ Goto(p, IF b THEN "deactivate" ELSE "activate")
    BY <1>2 DEF UpdateWorkflowActivation
  <2> DEFINE j == [NoJob EXCEPT !.flow = f, !.type = workflow[f].type, !.activate = b]
  <2>0. workflow[f].type \in Types \union {None}
    BY DEF TypeOK, WorkflowRow
  <2>2. j \in JobRow /\ j.flow = f /\ j.nodes = {} /\ j.edges = {} /\ j.activate = b
    BY <2>0, DrawingTypes DEF JobRow, NoJob
  <2> HIDE DEF j
  <2> QED
    BY <1>2, <2>1, <2>2 DEF UpdateMove, UpdateWorkflowActivation, Goto, graph, hooks, Present, j
<1>3. CASE AskDelete(p)
  <2>1. PICK f \in Flows : Present(f) /\ job' = [job EXCEPT ![p] = [NoJob EXCEPT !.flow = f]]
    BY <1>3 DEF AskDelete
  <2> DEFINE j == [NoJob EXCEPT !.flow = f]
  <2>2. j \in JobRow /\ j.flow = f /\ j.nodes = {} /\ j.edges = {} /\ ~j.activate
    BY DrawingTypes DEF JobRow, NoJob
  <2> HIDE DEF j
  <2> QED
    BY <1>3, <2>1, <2>2 DEF UpdateMove, AskDelete, Goto, graph, hooks, Present, j
<1> QED
  BY <1>1, <1>2, <1>3

SaveDataMove(p, w) ==
    LET r == workflow[job[p].flow]
    IN  /\ pc[p] = "row" /\ job[p].flow \in Flows
        /\ workflow' = [workflow EXCEPT ![job[p].flow] = w]
        /\ w.exists = r.exists /\ w.delete = r.delete
        /\ w.isActive = r.isActive /\ w.since = r.since /\ w.clearedAt = r.clearedAt
        /\ w.type = r.type => w.retyped = r.retyped
        /\ w.type # r.type => w.retyped
        /\ pc' = [pc EXCEPT ![p] = "remove nodes"]
        /\ Begin(job[p].flow, job[p].drawing)
        /\ UNCHANGED <<node, edge, job, at, hook>>

LEMMA SaveDataEffect ==
    ASSUME TypeOK, NEW p \in Editors, SaveWorkflowData(p)
    PROVE  \E w \in WorkflowRow : SaveDataMove(p, w)
<1> DEFINE f == job[p].flow
           b == workflow[f].retyped \/ workflow[f].type # job[p].type
           w == [workflow[f] EXCEPT !.tab = job[p].tab, !.type = job[p].type, !.retyped = b]
<1>0. pc[p] = "row" /\ f \in Flows /\ workflow \in [Flows -> WorkflowRow]
      /\ workflow[f] \in WorkflowRow /\ b \in BOOLEAN
      /\ job[p].tab \in Tabs \union {None} /\ job[p].type \in Types \union {None}
  BY DEF SaveWorkflowData, TypeOK, JobRow
<1>1. workflow' = [workflow EXCEPT ![f] = w]
  BY <1>0 DEF SaveWorkflowData
<1> HIDE DEF b
<1>2. /\ w \in WorkflowRow
      /\ w.exists = workflow[f].exists /\ w.delete = workflow[f].delete
      /\ w.isActive = workflow[f].isActive /\ w.since = workflow[f].since
      /\ w.clearedAt = workflow[f].clearedAt /\ w.type = job[p].type
      /\ w.retyped = b
  BY <1>0 DEF WorkflowRow
<1>3. (w.type = workflow[f].type => w.retyped = workflow[f].retyped)
      /\ (w.type # workflow[f].type => w.retyped)
  <2>1. workflow[f].retyped \in BOOLEAN
    BY <1>0 DEF WorkflowRow
  <2> HIDE DEF w
  <2> QED
    BY <1>2, <2>1 DEF b
<1> HIDE DEF w
<1> QED
  BY <1>0, <1>1, <1>2, <1>3 DEF SaveDataMove, SaveWorkflowData, Goto, graph, hooks

RemoveEdgeMove(p, j) ==
    LET d == job[p].drawing
    IN  /\ pc[p] = "remove edges"
        /\ edge' = [e \in EdgeIds |->
               IF edge[e].flow = job[p].flow THEN NoEdge ELSE edge[e]]
        /\ job' = [job EXCEPT ![p] = j]
        /\ j.flow = job[p].flow /\ j.drawing = d /\ j.nodes = d.nodes
        /\ j.edges = DOMAIN d.edges
        /\ pc' = [pc EXCEPT ![p] = "nodes"]
        /\ UNCHANGED <<workflow, node, at, hook, history>>

LEMMA RemoveEdgeEffect ==
    ASSUME TypeOK, NEW p \in Editors, RemoveAllEdge(p)
    PROVE  \E j \in JobRow : RemoveEdgeMove(p, j)
<1> DEFINE d == job[p].drawing
           j == [job[p] EXCEPT !.nodes = d.nodes, !.edges = DOMAIN d.edges]
<1>0. job \in [Editors -> JobRow] /\ job[p] \in JobRow
      /\ d.nodes \subseteq Nodes /\ DOMAIN d.edges \subseteq EdgeIds
  <2>1. job \in [Editors -> JobRow] /\ job[p] \in JobRow /\ d \in Drawings \union {NoDrawing}
    BY DEF TypeOK, JobRow
  <2> QED
    BY <2>1, DrawingTypes
<1>1. job' = [job EXCEPT ![p] = j]
  BY <1>0 DEF RemoveAllEdge
<1>2. /\ j \in JobRow /\ j.flow = job[p].flow /\ j.drawing = d /\ j.nodes = d.nodes
      /\ j.edges = DOMAIN d.edges
  BY <1>0 DEF JobRow
<1> HIDE DEF j
<1> QED
  BY <1>1, <1>2 DEF RemoveEdgeMove, RemoveAllEdge, Goto, hooks

SaveNodeMove(p, n, j) ==
    /\ pc[p] \in {"nodes", "background"} /\ n \in Nodes
    /\ node' = [node EXCEPT ![n] = job[p].flow]
    /\ job' = [job EXCEPT ![p] = j]
    /\ j.flow = job[p].flow /\ j.drawing = job[p].drawing
    /\ j.nodes = job[p].nodes \ {n} /\ j.edges = job[p].edges
    /\ disturbed' = disturbed \union TakenFrom(node[n], job[p].flow)
    /\ UNCHANGED <<workflow, edge, pc, at, hook, activations, edits, last>>

LEMMA SaveNodeEffect ==
    ASSUME TypeOK, NEW p \in Editors, SaveWorkflowNode(p)
    PROVE  \E n \in job[p].nodes, j \in JobRow : SaveNodeMove(p, n, j)
<1>1. PICK n \in job[p].nodes :
          /\ node' = [node EXCEPT ![n] = job[p].flow]
          /\ job' = [job EXCEPT ![p].nodes = @ \ {n}]
          /\ disturbed' = disturbed \union TakenFrom(node[n], job[p].flow)
  BY DEF SaveWorkflowNode
<1> DEFINE j == [job[p] EXCEPT !.nodes = job[p].nodes \ {n}]
<1>2. job \in [Editors -> JobRow] /\ job[p] \in JobRow /\ job[p].nodes \subseteq Nodes
  BY DEF TypeOK, JobRow
<1>3. job' = [job EXCEPT ![p] = j]
  BY <1>1, <1>2
<1>4. /\ j \in JobRow /\ j.flow = job[p].flow /\ j.drawing = job[p].drawing
      /\ j.nodes = job[p].nodes \ {n} /\ j.edges = job[p].edges
  BY <1>2 DEF JobRow
<1> HIDE DEF j
<1> QED
  BY <1>1, <1>2, <1>3, <1>4 DEF SaveNodeMove, SaveWorkflowNode, hooks

SaveEdgeMove(p, e, j) ==
    /\ pc[p] \in {"edges", "background"} /\ e \in EdgeIds
    /\ edge' = [edge EXCEPT ![e] =
           [flow |-> job[p].flow, source |-> job[p].drawing.edges[e][1],
            target |-> job[p].drawing.edges[e][2]]]
    /\ job' = [job EXCEPT ![p] = j]
    /\ j.flow = job[p].flow /\ j.drawing = job[p].drawing
    /\ j.nodes = job[p].nodes /\ j.edges = job[p].edges \ {e}
    /\ disturbed' = disturbed \union TakenFrom(edge[e].flow, job[p].flow)
    /\ UNCHANGED <<workflow, node, pc, at, hook, activations, edits, last>>

LEMMA SaveEdgeEffect ==
    ASSUME TypeOK, NEW p \in Editors, SaveWorkflowEdge(p)
    PROVE  \E e \in job[p].edges, j \in JobRow : SaveEdgeMove(p, e, j)
<1>1. PICK e \in job[p].edges :
          /\ edge' = [edge EXCEPT ![e] =
                 [flow |-> job[p].flow, source |-> job[p].drawing.edges[e][1],
                  target |-> job[p].drawing.edges[e][2]]]
          /\ job' = [job EXCEPT ![p].edges = @ \ {e}]
          /\ disturbed' = disturbed \union TakenFrom(edge[e].flow, job[p].flow)
  BY DEF SaveWorkflowEdge
<1> DEFINE j == [job[p] EXCEPT !.edges = job[p].edges \ {e}]
<1>2. job \in [Editors -> JobRow] /\ job[p] \in JobRow /\ job[p].edges \subseteq EdgeIds
  BY DEF TypeOK, JobRow
<1>3. job' = [job EXCEPT ![p] = j]
  BY <1>1, <1>2
<1>4. /\ j \in JobRow /\ j.flow = job[p].flow /\ j.drawing = job[p].drawing
      /\ j.nodes = job[p].nodes /\ j.edges = job[p].edges \ {e}
  BY <1>2 DEF JobRow
<1> HIDE DEF j
<1> QED
  BY <1>1, <1>2, <1>3, <1>4 DEF SaveEdgeMove, SaveWorkflowEdge, hooks

UpsertFailsMove(p, j) ==
    /\ pc[p] \in {"nodes", "edges", "background"}
    /\ job' = [job EXCEPT ![p] = j]
    /\ j.flow = job[p].flow /\ j.drawing = job[p].drawing
    /\ j.nodes \subseteq job[p].nodes /\ j.edges \subseteq job[p].edges
    /\ pc' = [pc EXCEPT ![p] = "background"]
    /\ disturbed' = disturbed \union {job[p].flow}
    /\ UNCHANGED <<workflow, node, edge, at, hook, activations, edits, last>>

LEMMA UpsertFailsEffect ==
    ASSUME TypeOK, NEW p \in Editors, UpsertFails(p)
    PROVE  \E j \in JobRow : UpsertFailsMove(p, j)
<1>0. job \in [Editors -> JobRow] /\ job[p] \in JobRow /\ job[p].nodes \subseteq Nodes
      /\ job[p].edges \subseteq EdgeIds
  BY DEF TypeOK, JobRow
<1>1. PICK N \in SUBSET job[p].nodes, E \in SUBSET job[p].edges :
          \/ job' = [job EXCEPT ![p].nodes = N, ![p].edges = E]
          \/ job' = [job EXCEPT ![p].edges = E]
  <2>1. ASSUME NEW n \in job[p].nodes,
               job' = [job EXCEPT ![p].nodes = @ \ {n},
                                  ![p].edges = IF pc[p] = "nodes" THEN {} ELSE @]
        PROVE  \E N \in SUBSET job[p].nodes, E \in SUBSET job[p].edges :
                  job' = [job EXCEPT ![p].nodes = N, ![p].edges = E]
    <3>1. job' = [job EXCEPT ![p].nodes = job[p].nodes \ {n},
                             ![p].edges = IF pc[p] = "nodes" THEN {} ELSE job[p].edges]
      BY <2>1, <1>0
    <3>2. job[p].nodes \ {n} \in SUBSET job[p].nodes
          /\ (IF pc[p] = "nodes" THEN {} ELSE job[p].edges) \in SUBSET job[p].edges
      OBVIOUS
    <3> QED
      BY <3>1, <3>2
  <2>2. ASSUME NEW e \in job[p].edges, job' = [job EXCEPT ![p].edges = @ \ {e}]
        PROVE  \E E \in SUBSET job[p].edges : job' = [job EXCEPT ![p].edges = E]
    BY <2>2, <1>0
  <2> QED
    BY <2>1, <2>2 DEF UpsertFails
<1> DEFINE j == [job[p] EXCEPT !.nodes = N, !.edges = E]
           i == [job[p] EXCEPT !.edges = E]
<1>2. job' = [job EXCEPT ![p] = j] \/ job' = [job EXCEPT ![p] = i]
  BY <1>0, <1>1
<1>3. /\ j \in JobRow /\ j.flow = job[p].flow /\ j.drawing = job[p].drawing
      /\ j.nodes = N /\ j.edges = E
      /\ i \in JobRow /\ i.flow = job[p].flow /\ i.drawing = job[p].drawing
      /\ i.nodes = job[p].nodes /\ i.edges = E
  BY <1>0 DEF JobRow
<1> HIDE DEF j, i
<1> QED
  BY <1>2, <1>3 DEF UpsertFailsMove, UpsertFails, Goto, graph, hooks

DeactivateMove(p, j) ==
    /\ pc[p] = "deactivate"
    /\ workflow' \in [Flows -> WorkflowRow]
    /\ \A f \in Flows :
          LET r == workflow[f]
              w == workflow'[f]
          IN  /\ r.type = job[p].type => ~w.isActive
              /\ r.type # job[p].type => w = r
              /\ w.exists = r.exists /\ w.delete = r.delete /\ w.since = r.since
              /\ w.type = r.type
    /\ job' = [job EXCEPT ![p] = j]
    /\ j.flow = job[p].flow /\ j.drawing = job[p].drawing
    /\ j.nodes = job[p].nodes /\ j.edges = job[p].edges
    /\ j.activate = job[p].activate /\ j.type = job[p].type
    /\ j.clearedAt = activations
    /\ pc' = [pc EXCEPT ![p] = "activate"]
    /\ UNCHANGED <<node, edge, at, hook, history>>

LEMMA DeactivateEffect ==
    ASSUME TypeOK, NEW p \in Editors, DeactivateAllWorkflow(p)
    PROVE  \E j \in JobRow : DeactivateMove(p, j)
<1> DEFINE j == [job[p] EXCEPT !.clearedAt = activations]
<1>0. job \in [Editors -> JobRow] /\ job[p] \in JobRow /\ activations \in Nat
      /\ workflow \in [Flows -> WorkflowRow]
  BY DEF TypeOK
<1>1. job' = [job EXCEPT ![p] = j]
  BY <1>0 DEF DeactivateAllWorkflow
<1>2. /\ j \in JobRow /\ j.flow = job[p].flow /\ j.drawing = job[p].drawing
      /\ j.nodes = job[p].nodes /\ j.edges = job[p].edges
      /\ j.activate = job[p].activate /\ j.type = job[p].type
      /\ j.clearedAt = activations
  BY <1>0 DEF JobRow
<1> HIDE DEF j
<1>3. ASSUME NEW f \in Flows
      PROVE  LET r == workflow[f]
                 w == workflow'[f]
             IN  /\ w \in WorkflowRow
                 /\ r.type = job[p].type => ~w.isActive
                 /\ r.type # job[p].type => w = r
                 /\ w.exists = r.exists /\ w.delete = r.delete /\ w.since = r.since
                 /\ w.type = r.type
  <2> DEFINE r == workflow[f]
             w == [r EXCEPT !.isActive = FALSE, !.retyped = FALSE]
  <2>1. workflow'[f] = IF r.type = job[p].type THEN w ELSE r
    BY DEF DeactivateAllWorkflow
  <2>2. r \in WorkflowRow
    BY <1>0
  <2>3. /\ w \in WorkflowRow /\ ~w.isActive /\ w.exists = r.exists /\ w.delete = r.delete
        /\ w.since = r.since /\ w.type = r.type
    BY <2>2 DEF WorkflowRow
  <2> HIDE DEF w
  <2> QED
    BY <2>1, <2>2, <2>3
<1>4. workflow' \in [Flows -> WorkflowRow]
  <2>1. workflow' = [f \in Flows |-> workflow'[f]]
    BY DEF DeactivateAllWorkflow
  <2> QED
    BY <2>1, <1>3
<1> QED
  BY <1>1, <1>2, <1>3, <1>4 DEF DeactivateMove, DeactivateAllWorkflow, Goto, graph, hooks

ActivationMove(p, w) ==
    LET r == workflow[job[p].flow]
    IN  /\ pc[p] = "activate" /\ job[p].flow \in Flows
        /\ workflow' = [workflow EXCEPT ![job[p].flow] = w]
        /\ w.exists = r.exists /\ w.delete = r.delete /\ w.type = r.type
        /\ job[p].activate =>
              /\ w.since = activations + 1 /\ w.clearedAt = job[p].clearedAt
              /\ w.retyped = (r.type # job[p].type)
              /\ activations' = activations + 1
        /\ ~job[p].activate =>
              w.since = r.since /\ ~w.isActive /\ UNCHANGED activations
        /\ Leave(p)
        /\ UNCHANGED <<node, edge, at, hook, edits, last, disturbed>>

LEMMA ActivationEffect ==
    ASSUME TypeOK, NEW p \in Editors, UpdateActivation(p)
    PROVE  \E w \in WorkflowRow : ActivationMove(p, w)
<1> DEFINE f == job[p].flow
           r == workflow[f]
           w == Activated(r, job[p], activations + 1)
           v == [r EXCEPT !.isActive = FALSE, !.retyped = FALSE]
<1>0. /\ pc[p] = "activate" /\ f \in Flows /\ workflow \in [Flows -> WorkflowRow]
      /\ r \in WorkflowRow /\ job[p] \in JobRow /\ activations \in Nat
      /\ job[p].activate \in BOOLEAN /\ job[p].clearedAt \in Nat
  BY DEF UpdateActivation, TypeOK, JobRow
<1>1. /\ w \in WorkflowRow /\ w.exists = r.exists /\ w.delete = r.delete /\ w.type = r.type
      /\ w.since = activations + 1 /\ w.clearedAt = job[p].clearedAt
      /\ w.retyped = (r.type # job[p].type)
  <2> DEFINE b == r.type # job[p].type
             n == activations + 1
             c == job[p].clearedAt
             x == [r EXCEPT !.isActive = TRUE, !.since = n, !.clearedAt = c, !.retyped = b]
  <2>1. b \in BOOLEAN /\ n \in Nat /\ c \in Nat
    BY <1>0
  <2>2. w = x
    BY DEF Activated
  <2> HIDE DEF b, n, c
  <2>3. /\ x \in WorkflowRow /\ x.exists = r.exists /\ x.delete = r.delete
        /\ x.type = r.type /\ x.since = n /\ x.clearedAt = c /\ x.retyped = b
    BY <2>1, <1>0 DEF WorkflowRow
  <2> HIDE DEF w, x
  <2> QED
    BY <2>2, <2>3 DEF b, n, c
<1>2. /\ v \in WorkflowRow /\ v.exists = r.exists /\ v.delete = r.delete /\ v.type = r.type
      /\ v.since = r.since /\ ~v.isActive
  BY <1>0 DEF WorkflowRow
<1>3. job[p].activate =>
          activations' = activations + 1 /\ workflow' = [workflow EXCEPT ![f] = w]
  BY <1>0 DEF UpdateActivation
<1>4. ~job[p].activate =>
          activations' = activations /\ workflow' = [workflow EXCEPT ![f] = v]
  BY <1>0 DEF UpdateActivation
<1>5. Leave(p) /\ UNCHANGED <<node, edge, at, hook, edits, last, disturbed>>
  BY DEF UpdateActivation, graph, hooks
<1> HIDE DEF w, v
<1>6. CASE job[p].activate
  BY <1>0, <1>1, <1>3, <1>5, <1>6 DEF ActivationMove
<1>7. CASE ~job[p].activate
  BY <1>0, <1>2, <1>4, <1>5, <1>7 DEF ActivationMove
<1> QED
  BY <1>6, <1>7

DeleteMove(p, w) ==
    LET r == workflow[job[p].flow]
    IN  /\ pc[p] = "delete" /\ job[p].flow \in Flows
        /\ workflow' = [workflow EXCEPT ![job[p].flow] = w]
        /\ w.exists = r.exists /\ w.delete /\ w.isActive = r.isActive
        /\ w.since = r.since /\ w.type = r.type
        /\ w.clearedAt = r.clearedAt /\ w.retyped = r.retyped
        /\ Leave(p)
        /\ UNCHANGED <<node, edge, at, hook, history>>

LEMMA DeleteEffect ==
    ASSUME TypeOK, NEW p \in Editors, DeleteWorkflow(p)
    PROVE  \E w \in WorkflowRow : DeleteMove(p, w)
<1> DEFINE r == workflow[job[p].flow]
           w == [r EXCEPT !.delete = TRUE]
<1>0. /\ pc[p] = "delete" /\ job[p].flow \in Flows
      /\ workflow \in [Flows -> WorkflowRow] /\ r \in WorkflowRow
  BY DEF DeleteWorkflow, TypeOK
<1>1. /\ w \in WorkflowRow /\ w.exists = r.exists /\ w.delete /\ w.isActive = r.isActive
      /\ w.since = r.since /\ w.type = r.type
      /\ w.clearedAt = r.clearedAt /\ w.retyped = r.retyped
  BY <1>0 DEF WorkflowRow
<1>2. workflow' = [workflow EXCEPT ![job[p].flow] = w]
  BY <1>0 DEF DeleteWorkflow
<1> HIDE DEF w
<1> QED
  BY <1>0, <1>1, <1>2 DEF DeleteMove, DeleteWorkflow, graph, hooks

(* The columns of a stored edge.                                           *)
LEMMA StoredEdges ==
    ASSUME TypeOK, NEW f \in Flows, NEW e \in EdgesOf(f)
    PROVE  e \in EdgeIds /\ edge[e] \in EdgeRow
           /\ edge[e].source \in Nodes /\ edge[e].target \in Nodes
BY NoneAssumption DEF TypeOK, EdgesOf, EdgeRow, NoEdge

(* What a step of a hook has read.                                         *)
HookMove(h, a, k) ==
    \/ /\ a = "flow" /\ k.flow = None
    \/ /\ at[h] = "flow" /\ a = "data" /\ k.flow \in Flows
       /\ workflow[k.flow].isActive /\ k.edits = Stored(k.flow)
    \/ /\ at[h] = "data" /\ a = "node" /\ k = hook[h] /\ ~workflow[k.flow].delete
    \/ /\ at[h] = "node" /\ a = "edge" /\ k.flow = hook[h].flow /\ k.edits = hook[h].edits
       /\ k.node \in NodesOf(k.flow) \intersect Receive
    \/ /\ at[h] = "edge" /\ a = "target"
       /\ k.flow = hook[h].flow /\ k.edits = hook[h].edits
       /\ \E e \in EdgesOf(k.flow) :
             edge[e].source = hook[h].node /\ k.node = edge[e].target
    \/ /\ a = "done" /\ k.flow = hook[h].flow /\ k.edits = hook[h].edits
       /\ \/ at[h] = "flow"
          \/ at[h] = "data" /\ workflow[k.flow].delete
          \/ /\ at[h] = "node" /\ k.outcome = "error"
             /\ NodesOf(k.flow) \intersect Receive = {}
          \/ /\ at[h] = "edge" /\ k.outcome = "none"
             /\ {e \in EdgesOf(k.flow) : edge[e].source = hook[h].node} = {}
          \/ /\ at[h] = "target"
             /\ k.outcome = IF node[hook[h].node] = k.flow THEN "next" ELSE "none"
    \/ /\ a = "idle" /\ k.flow = None

(* A step of a hook changes its own slot and nothing else.                 *)
HookChange(h, a, k) ==
    /\ at' = [at EXCEPT ![h] = a] /\ hook' = [hook EXCEPT ![h] = k]
    /\ HookMove(h, a, k)
    /\ a \in {"data", "node", "edge", "target"} => k.flow \in Flows
    /\ a \in {"edge", "target"} => k.node \in Nodes
    /\ UNCHANGED <<workflow, node, edge, pc, job, activations, edits, last, disturbed>>

AtSteps == {"idle", "flow", "data", "node", "edge", "target", "done"}

LEMMA HookEffect ==
    ASSUME TypeOK, NEW h \in Hooks, HookStep(h)
    PROVE  \E a \in AtSteps, k \in HookRow : HookChange(h, a, k)
<1>0. /\ hook \in [Hooks -> HookRow] /\ hook[h] \in HookRow
      /\ edits \in [Flows -> Nat]
      /\ at[h] \in {"data", "node", "edge", "target"} => hook[h].flow \in Flows
      /\ at[h] \in {"edge", "target"} => hook[h].node \in Nodes
  BY DEF TypeOK
<1> DEFINE Goal == \E a \in AtSteps, k \in HookRow :
                 /\ at' = [at EXCEPT ![h] = a] /\ hook' = [hook EXCEPT ![h] = k]
                 /\ HookMove(h, a, k)
                 /\ a \in {"data", "node", "edge", "target"} => k.flow \in Flows
                 /\ a \in {"edge", "target"} => k.node \in Nodes
<1> SUFFICES Goal /\ UNCHANGED <<workflow, node, edge, pc, job, history>>
  BY DEF HookChange, history
(* An answer keeps what the hook has read.                                 *)
<1>1. ASSUME NEW o \in {"none", "error", "next"}, Answer(h, o)
      PROVE  \E k \in HookRow :
                /\ at' = [at EXCEPT ![h] = "done"] /\ hook' = [hook EXCEPT ![h] = k]
                /\ k.flow = hook[h].flow /\ k.edits = hook[h].edits /\ k.outcome = o
  <2> DEFINE k == [hook[h] EXCEPT !.outcome = o]
  <2>1. k \in HookRow /\ k.flow = hook[h].flow /\ k.edits = hook[h].edits /\ k.outcome = o
    BY <1>0 DEF HookRow
  <2>2. at' = [at EXCEPT ![h] = "done"] /\ hook' = [hook EXCEPT ![h] = k]
    BY <1>0, <1>1 DEF Answer
  <2> HIDE DEF k
  <2> QED
    BY <2>1, <2>2
<1>2. CASE ReceiveMessage(h)
  <2>1. PICK t \in Tabs, ty \in Types :
            hook' = [hook EXCEPT ![h] = [NoHook EXCEPT !.tab = t, !.type = ty]]
    BY <1>2 DEF ReceiveMessage
  <2> DEFINE k == [NoHook EXCEPT !.tab = t, !.type = ty]
  <2>2. k \in HookRow /\ k.flow = None
    BY DEF HookRow, NoHook
  <2>3. at' = [at EXCEPT ![h] = "flow"] /\ hook' = [hook EXCEPT ![h] = k]
    BY <1>2, <2>1 DEF ReceiveMessage
  <2> HIDE DEF k
  <2> QED
    BY <2>2, <2>3, <1>2 DEF ReceiveMessage, graph, HookMove, AtSteps
<1>3. CASE FindWorkflowByTabId(h)
  <2>1. at[h] = "flow" /\ UNCHANGED <<workflow, node, edge, pc, job, history>>
    BY <1>3 DEF FindWorkflowByTabId, graph
  <2>2. CASE Answer(h, "error")
    BY <1>1, <2>1, <2>2 DEF HookMove, AtSteps
  <2>3. ASSUME NEW f \in Flows, workflow[f].isActive,
               Read(h, "data", [hook[h] EXCEPT !.flow = f, !.edits = Stored(f)])
        PROVE  Goal
    <3> DEFINE n == Stored(f)
               k == [hook[h] EXCEPT !.flow = f, !.edits = n]
    <3>1. n \in Nat
      BY <1>0 DEF Stored
    <3>2. at' = [at EXCEPT ![h] = "data"] /\ hook' = [hook EXCEPT ![h] = k]
      BY <2>3 DEF Read
    <3> HIDE DEF n
    <3>3. k \in HookRow /\ k.flow = f /\ k.edits = n
      BY <1>0, <3>1 DEF HookRow
    <3> HIDE DEF k
    <3>4. HookMove(h, "data", k)
      BY <2>1, <2>3, <3>3 DEF HookMove, n
    <3> QED
      BY <3>2, <3>3, <3>4 DEF AtSteps
  <2> QED
    BY <2>1, <2>2, <2>3, <1>3 DEF FindWorkflowByTabId
<1>4. CASE UpdateData(h)
  <2>1. at[h] = "data" /\ UNCHANGED <<workflow, node, edge, pc, job, history>>
    BY <1>4 DEF UpdateData, graph
  <2>2. CASE workflow[hook[h].flow].delete /\ Answer(h, "error")
    BY <1>1, <2>1, <2>2 DEF HookMove, AtSteps
  <2>3. CASE ~workflow[hook[h].flow].delete /\ Read(h, "node", hook[h])
    BY <1>0, <2>1, <2>3 DEF HookMove, AtSteps, Read
  <2> QED
    BY <2>1, <2>2, <2>3, <1>4 DEF UpdateData
<1>5. CASE FindNodeByFlowId(h)
  <2>1. at[h] = "node" /\ UNCHANGED <<workflow, node, edge, pc, job, history>>
    BY <1>5 DEF FindNodeByFlowId, graph
  <2>2. CASE NodesOf(hook[h].flow) \intersect Receive = {} /\ Answer(h, "error")
    BY <1>1, <2>1, <2>2 DEF HookMove, AtSteps
  <2>3. ASSUME NEW n \in NodesOf(hook[h].flow) \intersect Receive,
               Read(h, "edge", [hook[h] EXCEPT !.node = n])
        PROVE  Goal
    <3> DEFINE k == [hook[h] EXCEPT !.node = n]
    <3>1. n \in Nodes
      BY DEF NodesOf
    <3>2. at' = [at EXCEPT ![h] = "edge"] /\ hook' = [hook EXCEPT ![h] = k]
      BY <2>3 DEF Read
    <3>3. k \in HookRow /\ k.flow = hook[h].flow /\ k.edits = hook[h].edits /\ k.node = n
      BY <1>0, <3>1 DEF HookRow
    <3> HIDE DEF k
    <3>4. HookMove(h, "edge", k)
      BY <2>1, <3>3 DEF HookMove
    <3> QED
      BY <1>0, <2>1, <3>1, <3>2, <3>3, <3>4 DEF AtSteps
  <2> QED
    BY <2>1, <2>2, <2>3, <1>5 DEF FindNodeByFlowId
<1>6. CASE FindNextWorkflowNode(h)
  <2>1. at[h] = "edge" /\ UNCHANGED <<workflow, node, edge, pc, job, history>>
    BY <1>6 DEF FindNextWorkflowNode, graph
  <2> DEFINE found == {e \in EdgesOf(hook[h].flow) : edge[e].source = hook[h].node}
  <2>2. CASE found = {} /\ Answer(h, "none")
    BY <1>1, <2>1, <2>2 DEF HookMove, AtSteps
  <2>3. ASSUME NEW e \in found,
               Read(h, "target", [hook[h] EXCEPT !.node = edge[e].target])
        PROVE  Goal
    <3> DEFINE n == edge[e].target
               k == [hook[h] EXCEPT !.node = n]
    <3>1. n \in Nodes
      BY <1>0, <2>1, StoredEdges
    <3>2. at' = [at EXCEPT ![h] = "target"] /\ hook' = [hook EXCEPT ![h] = k]
      BY <2>3 DEF Read
    <3> HIDE DEF n
    <3>3. k \in HookRow /\ k.flow = hook[h].flow /\ k.edits = hook[h].edits /\ k.node = n
      BY <1>0, <3>1 DEF HookRow
    <3> HIDE DEF k
    <3>4. HookMove(h, "target", k)
      BY <2>1, <3>3 DEF HookMove, n
    <3> QED
      BY <1>0, <2>1, <3>1, <3>2, <3>3, <3>4 DEF AtSteps
  <2> QED
    BY <2>1, <2>2, <2>3, <1>6 DEF FindNextWorkflowNode
<1>7. CASE FindNodeById(h)
  <2>1. at[h] = "target" /\ UNCHANGED <<workflow, node, edge, pc, job, history>>
    BY <1>7 DEF FindNodeById, graph
  <2> DEFINE o == IF node[hook[h].node] = hook[h].flow THEN "next" ELSE "none"
  <2>2. o \in {"none", "error", "next"} /\ Answer(h, o)
    BY <1>7 DEF FindNodeById
  <2> HIDE DEF o
  <2>3. PICK k \in HookRow :
            /\ at' = [at EXCEPT ![h] = "done"] /\ hook' = [hook EXCEPT ![h] = k]
            /\ k.flow = hook[h].flow /\ k.edits = hook[h].edits /\ k.outcome = o
    BY <1>1, <2>2
  <2>4. HookMove(h, "done", k)
    BY <2>1, <2>3 DEF HookMove, o
  <2> QED
    BY <2>1, <2>3, <2>4 DEF AtSteps
<1>8. CASE Return(h)
  BY <1>8, EmptyRecords DEF Return, Read, graph, HookMove, AtSteps
<1> QED
  BY <1>2, <1>3, <1>4, <1>5, <1>6, <1>7, <1>8 DEF HookStep
-----------------------------------------------------------------------------
LEMMA TypeInit == Init => TypeOK
<1>1. SUFFICES ASSUME Init PROVE TypeOK
  OBVIOUS
<1>2. /\ workflow \in [Flows -> WorkflowRow] /\ job \in [Editors -> JobRow]
      /\ hook \in [Hooks -> HookRow]
      /\ \A p \in Editors : job[p].nodes = {} /\ job[p].edges = {}
  BY <1>1, EmptyRecords DEF Init
<1> QED
  BY <1>1, <1>2 DEF Init, TypeOK, Steps, EdgeRow

LEMMA BeginTypes ==
    ASSUME TypeOK, NEW f \in Flows, NEW d \in Drawings \union {NoDrawing}, Begin(f, d)
    PROVE  /\ edits' \in [Flows -> Nat] /\ last' \in [Flows -> Drawings \union {NoDrawing}]
           /\ disturbed' \subseteq Flows /\ activations' \in Nat
BY DEF Begin, TypeOK

JobsTyped ==
    /\ pc \in [Editors -> Steps] /\ job \in [Editors -> JobRow]
    /\ \A q \in Editors :
          /\ pc[q] # "idle" => job[q].flow \in Flows
          /\ job[q].nodes \subseteq job[q].drawing.nodes
          /\ job[q].edges \subseteq DOMAIN job[q].drawing.edges

(* A request's own slot changes, to one that fits its step.                *)
LEMMA JobTypes ==
    ASSUME TypeOK, NEW p \in Editors, NEW s \in Steps, NEW j \in JobRow,
           pc' = [pc EXCEPT ![p] = s], job' = [job EXCEPT ![p] = j],
           s # "idle" => j.flow \in Flows,
           j.nodes \subseteq j.drawing.nodes, j.edges \subseteq DOMAIN j.drawing.edges
    PROVE  JobsTyped'
BY DEF TypeOK, JobsTyped

LEMMA LeaveTypes ==
    ASSUME TypeOK, NEW p \in Editors, Leave(p)
    PROVE  JobsTyped'
<1>1. pc' = [pc EXCEPT ![p] = "idle"] /\ job' = [job EXCEPT ![p] = NoJob]
  BY DEF Leave
<1>2. "idle" \in Steps
  BY DEF Steps
<1> QED
  BY <1>1, <1>2, EmptyRecords, JobTypes

(* The local variables of a request, for use with TypeOK hidden.           *)
LEMMA JobFacts ==
    ASSUME TypeOK, NEW p \in Editors
    PROVE  /\ job[p] \in JobRow /\ pc[p] \in Steps
           /\ pc[p] # "idle" => job[p].flow \in Flows
           /\ job[p].drawing \in Drawings \union {NoDrawing}
           /\ job[p].nodes \subseteq job[p].drawing.nodes /\ job[p].nodes \subseteq Nodes
           /\ job[p].edges \subseteq DOMAIN job[p].drawing.edges
           /\ job[p].edges \subseteq EdgeIds
           /\ job[p].clearedAt \in Nat /\ job[p].activate \in BOOLEAN
BY DEF TypeOK, JobRow

LEMMA TypeStep == ASSUME TypeOK, [Next]_vars PROVE TypeOK'
<1>0. {"idle", "row", "deactivate", "activate", "delete", "remove nodes",
       "remove edges", "nodes", "edges", "background"} \subseteq Steps
  BY DEF Steps, Writing
<1>1. ASSUME NEW p \in Editors, CreateWorkflow(p) PROVE TypeOK'
  <2>1. PICK f \in Flows, d \in Drawings, w \in WorkflowRow, j \in JobRow :
            CreateMove(p, f, d, w, j)
    BY <1>1, CreateEffect
  <2>2. JobsTyped'
    BY <1>0, <2>1, JobTypes DEF CreateMove
  <2> QED
    BY <2>1, <2>2, BeginTypes DEF TypeOK, JobsTyped, CreateMove
<1>2. ASSUME NEW p \in Editors,
             UpdateWorkflow(p) \/ UpdateWorkflowActivation(p) \/ AskDelete(p)
      PROVE  TypeOK'
  <2>1. PICK f \in Flows, j \in JobRow,
             step \in {"row", "deactivate", "activate", "delete"} : UpdateMove(p, f, j, step)
    BY <1>2, UpdateEffect
  <2>2. JobsTyped'
    BY <1>0, <2>1, JobTypes DEF UpdateMove
  <2> QED
    BY <2>1, <2>2 DEF TypeOK, JobsTyped, history, UpdateMove
<1>3. ASSUME NEW p \in Editors, SaveWorkflowData(p) PROVE TypeOK'
  <2>1. PICK w \in WorkflowRow : SaveDataMove(p, w)
    BY <1>3, SaveDataEffect
  <2>2. /\ job[p].flow \in Flows /\ pc' = [pc EXCEPT ![p] = "remove nodes"]
        /\ Begin(job[p].flow, job[p].drawing)
        /\ UNCHANGED <<node, edge, job, at, hook>>
    BY <2>1 DEF SaveDataMove
  <2>3. pc' \in [Editors -> Steps]
        /\ \A q \in Editors : pc'[q] # "idle" => job[q].flow \in Flows
    BY <1>0, <2>2 DEF TypeOK
  <2> QED
    BY <2>1, <2>2, <2>3, JobFacts, BeginTypes DEF TypeOK, SaveDataMove
<1>4. ASSUME NEW p \in Editors, RemoveAllNode(p) PROVE TypeOK'
  <2>1. /\ UNCHANGED <<workflow, edge, job, at, hook, activations, edits, last, disturbed>>
        /\ node' \in [Nodes -> Flows \union {None}] /\ pc' \in [Editors -> Steps]
        /\ \A q \in Editors : pc'[q] # "idle" => job[q].flow \in Flows
    BY <1>0, <1>4 DEF RemoveAllNode, Goto, TypeOK, hooks, history
  <2> QED
    BY <2>1 DEF TypeOK
<1>5. ASSUME NEW p \in Editors, RemoveAllEdge(p) PROVE TypeOK'
  <2>1. PICK j \in JobRow : RemoveEdgeMove(p, j)
    BY <1>5, RemoveEdgeEffect
  <2>2. edge' \in [EdgeIds -> EdgeRow \union {NoEdge}]
    BY <1>5 DEF RemoveAllEdge, TypeOK
  <2>3. job[p].flow \in Flows
    BY <2>1, JobFacts DEF RemoveEdgeMove
  <2>4. JobsTyped'
    BY <1>0, <2>1, <2>3, JobTypes DEF RemoveEdgeMove
  <2> QED
    BY <2>1, <2>2, <2>4 DEF TypeOK, JobsTyped, history, RemoveEdgeMove
<1>6. ASSUME NEW p \in Editors, SaveWorkflowNode(p) PROVE TypeOK'
  <2>1. PICK n \in job[p].nodes, j \in JobRow : SaveNodeMove(p, n, j)
    BY <1>6, SaveNodeEffect
  <2>2. job[p].flow \in Flows /\ pc' = [pc EXCEPT ![p] = pc[p]]
    BY <2>1, JobFacts DEF TypeOK, SaveNodeMove
  <2>3. JobsTyped'
    <3>1. j.nodes \subseteq j.drawing.nodes /\ j.edges \subseteq DOMAIN j.drawing.edges
      BY <2>1, JobFacts DEF SaveNodeMove
    <3> QED
      BY <2>1, <2>2, <3>1, JobFacts, JobTypes DEF SaveNodeMove
  <2>4. /\ node' \in [Nodes -> Flows \union {None}] /\ disturbed' \subseteq Flows
    BY <2>1, <2>2 DEF TypeOK, TakenFrom, SaveNodeMove
  <2> QED
    BY <2>1, <2>3, <2>4 DEF TypeOK, JobsTyped, SaveNodeMove
<1>7. ASSUME NEW p \in Editors, SaveWorkflowEdge(p) PROVE TypeOK'
  <2>1. PICK e \in job[p].edges, j \in JobRow : SaveEdgeMove(p, e, j)
    BY <1>7, SaveEdgeEffect
  <2>2. job[p].flow \in Flows /\ pc' = [pc EXCEPT ![p] = pc[p]]
    BY <2>1, JobFacts DEF TypeOK, SaveEdgeMove
  <2>3. JobsTyped'
    <3>1. j.nodes \subseteq j.drawing.nodes /\ j.edges \subseteq DOMAIN j.drawing.edges
      BY <2>1, JobFacts DEF SaveEdgeMove
    <3> QED
      BY <2>1, <2>2, <3>1, JobFacts, JobTypes DEF SaveEdgeMove
  <2>4. job[p].drawing.edges[e][1] \in Nodes /\ job[p].drawing.edges[e][2] \in Nodes
    BY <2>1, JobFacts, DrawingTypes DEF SaveEdgeMove
  <2>5. edge' \in [EdgeIds -> EdgeRow \union {NoEdge}]
    BY <2>1, <2>2, <2>4 DEF TypeOK, EdgeRow, SaveEdgeMove
  <2>6. disturbed' \subseteq Flows
    <3>1. edge[e].flow \in Flows \union {None}
      BY <2>1 DEF TypeOK, EdgeRow, NoEdge, SaveEdgeMove
    <3> QED
      BY <2>1, <3>1 DEF TypeOK, TakenFrom, SaveEdgeMove
  <2> QED
    BY <2>1, <2>3, <2>5, <2>6 DEF TypeOK, JobsTyped, SaveEdgeMove
<1>8. ASSUME NEW p \in Editors, NodesSaved(p) PROVE TypeOK'
  <2>1. /\ UNCHANGED <<workflow, node, edge, job, at, hook, activations, edits, last, disturbed>>
        /\ pc' \in [Editors -> Steps]
        /\ \A q \in Editors : pc'[q] # "idle" => job[q].flow \in Flows
    BY <1>0, <1>8 DEF NodesSaved, Goto, TypeOK, graph, hooks, history
  <2> QED
    BY <2>1 DEF TypeOK
<1>9. ASSUME NEW p \in Editors, Saved(p) PROVE TypeOK'
  <2>1. Leave(p)
        /\ UNCHANGED <<workflow, node, edge, at, hook, activations, edits, last, disturbed>>
    BY <1>9 DEF Saved, graph, hooks, history
  <2> QED
    BY <2>1, LeaveTypes DEF TypeOK, JobsTyped
<1>10. ASSUME NEW p \in Editors, UpsertFails(p) PROVE TypeOK'
  <2>1. PICK j \in JobRow : UpsertFailsMove(p, j)
    BY <1>10, UpsertFailsEffect
  <2>2. job[p].flow \in Flows
    BY <2>1, JobFacts DEF UpsertFailsMove
  <2>3. j.nodes \subseteq j.drawing.nodes /\ j.edges \subseteq DOMAIN j.drawing.edges
    BY <2>1, JobFacts DEF UpsertFailsMove
  <2>4. JobsTyped'
    BY <1>0, <2>1, <2>2, <2>3, JobTypes DEF UpsertFailsMove
  <2> QED
    BY <2>1, <2>2, <2>4 DEF TypeOK, JobsTyped, UpsertFailsMove
<1>11. ASSUME NEW p \in Editors, RequestFails(p) PROVE TypeOK'
  <2>1. /\ Leave(p) /\ pc[p] # "idle"
        /\ disturbed' \subseteq disturbed \union {job[p].flow}
        /\ UNCHANGED <<workflow, node, edge, at, hook, activations, edits, last>>
    BY <1>11 DEF RequestFails, graph, hooks
  <2>2. disturbed' \subseteq Flows
    BY <2>1 DEF TypeOK
  <2> QED
    BY <2>1, <2>2, LeaveTypes DEF TypeOK, JobsTyped
<1>12. ASSUME NEW p \in Editors, DeactivateAllWorkflow(p) PROVE TypeOK'
  <2>1. PICK j \in JobRow : DeactivateMove(p, j)
    BY <1>12, DeactivateEffect
  <2>2. /\ workflow' \in [Flows -> WorkflowRow] /\ pc[p] = "deactivate"
        /\ pc' = [pc EXCEPT ![p] = "activate"]
        /\ UNCHANGED <<node, edge, at, hook, history>>
    BY <2>1 DEF DeactivateMove
  <2>3. JobsTyped'
    <3>1. /\ j.nodes \subseteq j.drawing.nodes /\ j.edges \subseteq DOMAIN j.drawing.edges
          /\ j.flow \in Flows
      BY <2>1, <2>2, JobFacts DEF DeactivateMove
    <3> QED
      BY <1>0, <2>1, <2>2, <3>1, JobTypes DEF DeactivateMove
  <2> QED
    BY <2>2, <2>3 DEF TypeOK, JobsTyped, history
<1>13. ASSUME NEW p \in Editors, UpdateActivation(p) PROVE TypeOK'
  <2>1. PICK w \in WorkflowRow : ActivationMove(p, w)
    BY <1>13, ActivationEffect
  <2>2. Leave(p) /\ UNCHANGED <<node, edge, at, hook, edits, last, disturbed>>
    BY <2>1 DEF ActivationMove
  <2>3. activations' \in Nat
    BY <2>1, JobFacts DEF TypeOK, ActivationMove
  <2>4. workflow' \in [Flows -> WorkflowRow]
    BY <2>1 DEF TypeOK, ActivationMove
  <2> QED
    BY <2>2, <2>3, <2>4, LeaveTypes DEF TypeOK, JobsTyped
<1>14. ASSUME NEW p \in Editors, DeleteWorkflow(p) PROVE TypeOK'
  <2>1. PICK w \in WorkflowRow : DeleteMove(p, w)
    BY <1>14, DeleteEffect
  <2>2. Leave(p)
        /\ UNCHANGED <<node, edge, at, hook, activations, edits, last, disturbed>>
    BY <2>1 DEF DeleteMove, history
  <2>3. workflow' \in [Flows -> WorkflowRow]
    BY <2>1 DEF TypeOK, DeleteMove
  <2> QED
    BY <2>2, <2>3, LeaveTypes DEF TypeOK, JobsTyped
<1>15. ASSUME NEW h \in Hooks, HookStep(h) PROVE TypeOK'
  <2>1. PICK a \in AtSteps, k \in HookRow : HookChange(h, a, k)
    BY <1>15, HookEffect
  <2>2. UNCHANGED <<workflow, node, edge, pc, job, activations, edits, last, disturbed>>
    BY <2>1 DEF HookChange
  <2>3. /\ at' \in [Hooks -> AtSteps] /\ hook' \in [Hooks -> HookRow]
        /\ \A g \in Hooks :
              /\ at'[g] \in {"data", "node", "edge", "target"} => hook'[g].flow \in Flows
              /\ at'[g] \in {"edge", "target"} => hook'[g].node \in Nodes
    BY <2>1 DEF TypeOK, AtSteps, HookChange
  <2> QED
    BY <2>2, <2>3 DEF TypeOK, AtSteps
<1>16. CASE Crash
  <2>1. /\ pc' \in [Editors -> Steps] /\ job' \in [Editors -> JobRow]
        /\ hook' \in [Hooks -> HookRow]
        /\ \A q \in Editors : pc'[q] = "idle" /\ job'[q].nodes = {} /\ job'[q].edges = {}
        /\ \A h \in Hooks : at'[h] = "idle"
        /\ at' \in [Hooks -> {"idle"}]
    BY <1>0, <1>16, EmptyRecords DEF Crash
  <2>2. /\ disturbed' \subseteq Flows
        /\ UNCHANGED <<workflow, node, edge, activations, edits, last>>
    BY <1>16 DEF Crash, TypeOK, graph
  <2> QED
    BY <2>1, <2>2 DEF TypeOK
<1>17. CASE UNCHANGED vars
  BY <1>17 DEF vars, graph, hooks, history, TypeOK
<1> QED
  BY <1>1, <1>2, <1>3, <1>4, <1>5, <1>6, <1>7, <1>8, <1>9, <1>10, <1>11, <1>12,
     <1>13, <1>14, <1>15, <1>16, <1>17 DEF Next, Edit, Manage
-----------------------------------------------------------------------------
LEMMA RowsInit == Init => RowsOK
BY NoneAssumption, EmptyRecords
   DEF Init, RowsOK, NodesOf, EdgesOf, NoEdge

(* The steps that change no row of a node, an edge or a workflow but what  *)
(* keeps them, and that leave each request on a row that exists.           *)
LEMMA RowsKept ==
    ASSUME TypeOK, RowsOK, UNCHANGED <<node, edge>>,
           \A f \in Flows : /\ workflow'[f].exists = workflow[f].exists
                            /\ workflow'[f].isActive =>
                                  workflow[f].isActive \/ workflow[f].exists,
           \A p \in Editors : pc'[p] # "idle" =>
               /\ job'[p].flow \in Flows
               /\ workflow[job'[p].flow].exists
    PROVE  RowsOK'
BY DEF RowsOK, NodesOf, EdgesOf

LEMMA RowsStep == ASSUME TypeOK, TypeOK', RowsOK, [Next]_vars PROVE RowsOK'
<1>0. \A p \in Editors : pc[p] # "idle" =>
          job[p].flow \in Flows /\ workflow[job[p].flow].exists
  BY DEF TypeOK, RowsOK
<1> DEFINE Running == \A p \in Editors : pc'[p] # "idle" =>
                          job'[p].flow \in Flows /\ workflow[job'[p].flow].exists
           Kept == \A f \in Flows :
                      /\ workflow'[f].exists = workflow[f].exists
                      /\ workflow'[f].isActive => workflow[f].isActive \/ workflow[f].exists
<1>1. ASSUME NEW p \in Editors, CreateWorkflow(p) PROVE RowsOK'
  <2>1. PICK f \in Flows, d \in Drawings, w \in WorkflowRow, j \in JobRow :
            CreateMove(p, f, d, w, j)
    BY <1>1, CreateEffect
  <2>2. /\ workflow'[f].exists
        /\ \A g \in Flows \ {f} : workflow'[g] = workflow[g]
    BY <2>1 DEF CreateMove, TypeOK
  <2>3. \A q \in Editors : pc'[q] # "idle" => workflow'[job'[q].flow].exists
    BY <1>0, <2>1, <2>2 DEF CreateMove, TypeOK
  <2> QED
    BY <2>1, <2>2, <2>3 DEF CreateMove, RowsOK, NodesOf, EdgesOf
<1>2. ASSUME NEW p \in Editors,
             UpdateWorkflow(p) \/ UpdateWorkflowActivation(p) \/ AskDelete(p)
      PROVE  RowsOK'
  <2>1. PICK f \in Flows, j \in JobRow,
             step \in {"row", "deactivate", "activate", "delete"} : UpdateMove(p, f, j, step)
    BY <1>2, UpdateEffect
  <2>2. Running
    BY <1>0, <2>1 DEF UpdateMove, TypeOK
  <2> QED
    BY <2>1, <2>2, RowsKept DEF UpdateMove
<1>3. ASSUME NEW p \in Editors, SaveWorkflowData(p) PROVE RowsOK'
  <2>1. PICK w \in WorkflowRow : SaveDataMove(p, w)
    BY <1>3, SaveDataEffect
  <2>2. Kept
    BY <2>1 DEF SaveDataMove, TypeOK
  <2>3. Running
    BY <1>0, <2>1 DEF SaveDataMove, TypeOK
  <2> QED
    BY <2>1, <2>2, <2>3, RowsKept DEF SaveDataMove
<1>4. ASSUME NEW p \in Editors, RemoveAllNode(p) PROVE RowsOK'
  <2>1. \A f \in Flows : NodesOf(f)' \subseteq NodesOf(f)
    BY <1>4, NoneAssumption DEF RemoveAllNode, NodesOf, TypeOK
  <2>2. \A f \in Flows : EdgesOf(f)' = EdgesOf(f)
    BY <1>4 DEF RemoveAllNode, EdgesOf
  <2>3. \A q \in Editors : pc'[q] # "idle" => pc[q] # "idle"
    BY <1>4 DEF RemoveAllNode, Goto, TypeOK
  <2> QED
    BY <1>4, <2>1, <2>2, <2>3 DEF RemoveAllNode, RowsOK
<1>5. ASSUME NEW p \in Editors, RemoveAllEdge(p) PROVE RowsOK'
  <2>1. PICK j \in JobRow : RemoveEdgeMove(p, j)
    BY <1>5, RemoveEdgeEffect
  <2>2. \A f \in Flows : EdgesOf(f)' \subseteq EdgesOf(f)
    BY <2>1, NoneAssumption DEF RemoveEdgeMove, EdgesOf, NoEdge
  <2>3. \A f \in Flows : NodesOf(f)' = NodesOf(f)
    BY <2>1 DEF RemoveEdgeMove, NodesOf
  <2>4. Running
    BY <1>0, <2>1 DEF RemoveEdgeMove, TypeOK
  <2> QED
    BY <2>1, <2>2, <2>3, <2>4 DEF RemoveEdgeMove, RowsOK
<1>6. ASSUME NEW p \in Editors, SaveWorkflowNode(p) PROVE RowsOK'
  <2>1. PICK n \in job[p].nodes, j \in JobRow : SaveNodeMove(p, n, j)
    BY <1>6, SaveNodeEffect
  <2>2. Running /\ job[p].flow \in Flows /\ workflow[job[p].flow].exists
    BY <1>0, <2>1 DEF SaveNodeMove, TypeOK
  <2>3. \A f \in Flows \ {job[p].flow} : NodesOf(f)' \subseteq NodesOf(f)
    BY <2>1 DEF SaveNodeMove, NodesOf, TypeOK
  <2>4. \A f \in Flows : EdgesOf(f)' = EdgesOf(f)
    BY <2>1 DEF SaveNodeMove, EdgesOf
  <2> QED
    BY <2>1, <2>2, <2>3, <2>4 DEF SaveNodeMove, RowsOK
<1>7. ASSUME NEW p \in Editors, SaveWorkflowEdge(p) PROVE RowsOK'
  <2>1. PICK e \in job[p].edges, j \in JobRow : SaveEdgeMove(p, e, j)
    BY <1>7, SaveEdgeEffect
  <2>2. Running /\ job[p].flow \in Flows /\ workflow[job[p].flow].exists
    BY <1>0, <2>1 DEF SaveEdgeMove, TypeOK
  <2>3. \A f \in Flows \ {job[p].flow} : EdgesOf(f)' \subseteq EdgesOf(f)
    BY <2>1 DEF SaveEdgeMove, EdgesOf, TypeOK
  <2>4. \A f \in Flows : NodesOf(f)' = NodesOf(f)
    BY <2>1 DEF SaveEdgeMove, NodesOf
  <2> QED
    BY <2>1, <2>2, <2>3, <2>4 DEF SaveEdgeMove, RowsOK
<1>8. ASSUME NEW p \in Editors, NodesSaved(p) \/ Saved(p) \/ RequestFails(p) PROVE RowsOK'
  <2>1. Running
    BY <1>0, <1>8 DEF NodesSaved, Saved, RequestFails, Goto, Leave, TypeOK
  <2>2. UNCHANGED <<workflow, node, edge>>
    BY <1>8 DEF NodesSaved, Saved, RequestFails, graph
  <2> QED
    BY <2>1, <2>2, RowsKept
<1>9. ASSUME NEW p \in Editors, UpsertFails(p) PROVE RowsOK'
  <2>1. PICK j \in JobRow : UpsertFailsMove(p, j)
    BY <1>9, UpsertFailsEffect
  <2>2. Running
    BY <1>0, <2>1 DEF UpsertFailsMove, TypeOK
  <2> QED
    BY <2>1, <2>2, RowsKept DEF UpsertFailsMove
<1>10. ASSUME NEW p \in Editors, DeactivateAllWorkflow(p) PROVE RowsOK'
  <2>1. PICK j \in JobRow : DeactivateMove(p, j)
    BY <1>10, DeactivateEffect
  <2>2. Running
    BY <1>0, <2>1 DEF DeactivateMove, TypeOK
  <2>3. Kept
    BY <2>1 DEF DeactivateMove
  <2> QED
    BY <2>1, <2>2, <2>3, RowsKept DEF DeactivateMove
<1>11. ASSUME NEW p \in Editors, UpdateActivation(p) PROVE RowsOK'
  <2>1. PICK w \in WorkflowRow : ActivationMove(p, w)
    BY <1>11, ActivationEffect
  <2>2. Running
    BY <1>0, <2>1 DEF ActivationMove, TypeOK, Leave
  <2>3. Kept
    BY <1>0, <2>1 DEF ActivationMove, TypeOK
  <2> QED
    BY <2>1, <2>2, <2>3, RowsKept DEF ActivationMove
<1>12. ASSUME NEW p \in Editors, DeleteWorkflow(p) PROVE RowsOK'
  <2>1. PICK w \in WorkflowRow : DeleteMove(p, w)
    BY <1>12, DeleteEffect
  <2>2. Running
    BY <1>0, <2>1 DEF DeleteMove, TypeOK, Leave
  <2>3. Kept
    BY <2>1 DEF DeleteMove, TypeOK
  <2> QED
    BY <2>1, <2>2, <2>3, RowsKept DEF DeleteMove
<1>13. CASE Crash
  BY <1>13, RowsKept DEF Crash, graph
<1>14. CASE UNCHANGED <<workflow, node, edge, pc, job>>
  BY <1>0, <1>14, RowsKept
<1>15. ASSUME NEW h \in Hooks, HookStep(h) PROVE UNCHANGED <<workflow, node, edge, pc, job>>
  BY <1>15, HookEffect DEF HookChange
<1> QED
  BY <1>1, <1>2, <1>3, <1>4, <1>5, <1>6, <1>7, <1>8, <1>9, <1>10, <1>11, <1>12,
     <1>13, <1>14, <1>15 DEF Next, Edit, Manage, vars, graph
-----------------------------------------------------------------------------
ActiveOK == ActivationsOK /\ TwoActiveExplained

LEMMA ActiveInit == Init => ActiveOK
BY EmptyRecords DEF Init, ActiveOK, ActivationsOK, TwoActiveExplained

(* A step that changes no activation, and after which every request that   *)
(* activates was already on its way.                                       *)
LEMMA ActiveKept ==
    ASSUME TypeOK, ActiveOK, UNCHANGED activations,
           \A f \in Flows :
               LET r == workflow[f]
                   w == workflow'[f]
               IN  /\ w.since = r.since
                   /\ w.isActive =>
                         /\ r.isActive /\ w.clearedAt = r.clearedAt
                         /\ \/ w.type = r.type /\ w.retyped = r.retyped
                            \/ w.retyped,
           \A p \in Editors : pc'[p] = "activate" /\ job'[p].activate =>
               /\ pc[p] = "activate" /\ job[p].activate
               /\ job'[p].clearedAt = job[p].clearedAt
               /\ job'[p].type = job[p].type
    PROVE  ActiveOK'
<1>1. ActivationsOK'
  BY DEF ActiveOK, ActivationsOK
<1>2. TwoActiveExplained'
  BY DEF ActiveOK, TwoActiveExplained
<1> QED
  BY <1>1, <1>2 DEF ActiveOK

LEMMA ActiveStep ==
    ASSUME TypeOK, TypeOK', RowsOK, ActiveOK, [Next]_vars PROVE ActiveOK'
<1> DEFINE Kept == \A f \in Flows :
               LET r == workflow[f]
                   w == workflow'[f]
               IN  /\ w.since = r.since
                   /\ w.isActive =>
                         /\ r.isActive /\ w.clearedAt = r.clearedAt
                         /\ \/ w.type = r.type /\ w.retyped = r.retyped
                            \/ w.retyped
           Running == \A p \in Editors : pc'[p] = "activate" /\ job'[p].activate =>
               /\ pc[p] = "activate" /\ job[p].activate
               /\ job'[p].clearedAt = job[p].clearedAt
               /\ job'[p].type = job[p].type
(* A workflow is created inactive.                                         *)
<1>1. ASSUME NEW p \in Editors, CreateWorkflow(p) PROVE ActiveOK'
  <2>1. PICK f \in Flows, d \in Drawings, w \in WorkflowRow, j \in JobRow :
            CreateMove(p, f, d, w, j)
    BY <1>1, CreateEffect
  <2>2. workflow'[f] = w /\ \A g \in Flows \ {f} : workflow'[g] = workflow[g]
    BY <2>1 DEF CreateMove, TypeOK
  <2>3. ~w.isActive /\ w.since = workflow[f].since
    BY <2>1 DEF CreateMove, RowsOK
  <2>4. Kept
    BY <2>2, <2>3
  <2>5. Running
    BY <2>1 DEF CreateMove, TypeOK
  <2> QED
    BY <2>1, <2>4, <2>5, ActiveKept DEF CreateMove, Begin
<1>2. ASSUME NEW p \in Editors,
             UpdateWorkflow(p) \/ UpdateWorkflowActivation(p) \/ AskDelete(p)
      PROVE  ActiveOK'
  <2>1. PICK f \in Flows, j \in JobRow,
             step \in {"row", "deactivate", "activate", "delete"} : UpdateMove(p, f, j, step)
    BY <1>2, UpdateEffect
  <2>2. Running
    BY <2>1 DEF UpdateMove, TypeOK
  <2> QED
    BY <2>1, <2>2, ActiveKept DEF UpdateMove, history
(* A redrawn workflow is marked when its type changes.                     *)
<1>3. ASSUME NEW p \in Editors, SaveWorkflowData(p) PROVE ActiveOK'
  <2>1. PICK w \in WorkflowRow : SaveDataMove(p, w)
    BY <1>3, SaveDataEffect
  <2>2. Kept
    BY <2>1 DEF SaveDataMove, TypeOK
  <2>3. Running
    BY <2>1 DEF SaveDataMove, TypeOK
  <2> QED
    BY <2>1, <2>2, <2>3, ActiveKept DEF SaveDataMove, Begin
<1>4. ASSUME NEW p \in Editors, RemoveAllNode(p) \/ NodesSaved(p) \/ Saved(p) \/ RequestFails(p)
      PROVE  ActiveOK'
  <2>1. Running
    <3>1. CASE RemoveAllNode(p) \/ NodesSaved(p)
      <4>1. /\ UNCHANGED job
            /\ \/ pc' = [pc EXCEPT ![p] = "remove edges"]
               \/ pc' = [pc EXCEPT ![p] = "edges"]
        BY <3>1 DEF RemoveAllNode, NodesSaved, Goto
      <4>2. \A q \in Editors : pc'[q] = "activate" => pc[q] = "activate"
        BY <4>1 DEF TypeOK
      <4> QED
        BY <4>1, <4>2
    <3>2. CASE Saved(p) \/ RequestFails(p)
      <4>1. Leave(p)
        BY <3>2 DEF Saved, RequestFails
      <4> QED
        BY <4>1 DEF Leave, TypeOK
    <3> QED
      BY <1>4, <3>1, <3>2
  <2>2. UNCHANGED <<workflow, activations>>
    BY <1>4 DEF RemoveAllNode, NodesSaved, Saved, RequestFails, history
  <2> QED
    BY <2>1, <2>2, ActiveKept
<1>5. ASSUME NEW p \in Editors, RemoveAllEdge(p) PROVE ActiveOK'
  <2>1. PICK j \in JobRow : RemoveEdgeMove(p, j)
    BY <1>5, RemoveEdgeEffect
  <2>2. Running
    BY <2>1 DEF RemoveEdgeMove, TypeOK
  <2> QED
    BY <2>1, <2>2, ActiveKept DEF RemoveEdgeMove, history
<1>6. ASSUME NEW p \in Editors, SaveWorkflowNode(p) PROVE ActiveOK'
  <2>1. PICK n \in job[p].nodes, j \in JobRow : SaveNodeMove(p, n, j)
    BY <1>6, SaveNodeEffect
  <2>2. Running
    BY <2>1 DEF SaveNodeMove, TypeOK
  <2> QED
    BY <2>1, <2>2, ActiveKept DEF SaveNodeMove
<1>7. ASSUME NEW p \in Editors, SaveWorkflowEdge(p) PROVE ActiveOK'
  <2>1. PICK e \in job[p].edges, j \in JobRow : SaveEdgeMove(p, e, j)
    BY <1>7, SaveEdgeEffect
  <2>2. Running
    BY <2>1 DEF SaveEdgeMove, TypeOK
  <2> QED
    BY <2>1, <2>2, ActiveKept DEF SaveEdgeMove
<1>8. ASSUME NEW p \in Editors, UpsertFails(p) PROVE ActiveOK'
  <2>1. PICK j \in JobRow : UpsertFailsMove(p, j)
    BY <1>8, UpsertFailsEffect
  <2>2. Running
    BY <2>1 DEF UpsertFailsMove, TypeOK
  <2> QED
    BY <2>1, <2>2, ActiveKept DEF UpsertFailsMove
(* Nothing of the type is active any more when it has been cleared.        *)
<1>9. ASSUME NEW p \in Editors, DeactivateAllWorkflow(p) PROVE ActiveOK'
  <2>1. PICK j \in JobRow : DeactivateMove(p, j)
    BY <1>9, DeactivateEffect
  <2>2. \A f \in Flows :
            /\ workflow'[f].since = workflow[f].since
            /\ workflow'[f].isActive =>
                  workflow'[f] = workflow[f] /\ workflow[f].type # job[p].type
    BY <2>1 DEF DeactivateMove
  <2>3. /\ job'[p] = j /\ \A q \in Editors \ {p} : job'[q] = job[q] /\ pc'[q] = pc[q]
        /\ j.clearedAt = activations /\ j.type = job[p].type
        /\ UNCHANGED activations /\ activations \in Nat
    BY <2>1 DEF DeactivateMove, TypeOK, history
  <2>4. ActivationsOK'
    BY <2>2, <2>3 DEF ActiveOK, ActivationsOK
  <2>5. TwoActiveExplained'
    BY <2>2 DEF ActiveOK, TwoActiveExplained
  <2> QED
    BY <2>4, <2>5 DEF ActiveOK
(* The row that becomes active is the youngest.                            *)
<1>10. ASSUME NEW p \in Editors, UpdateActivation(p) PROVE ActiveOK'
  <2> DEFINE f == job[p].flow
  <2>1. PICK w \in WorkflowRow : ActivationMove(p, w)
    BY <1>10, ActivationEffect
  <2>2. /\ f \in Flows /\ workflow'[f] = w
        /\ \A g \in Flows \ {f} : workflow'[g] = workflow[g]
        /\ \A q \in Editors : pc'[q] # "idle" => pc'[q] = pc[q] /\ job'[q] = job[q]
        /\ activations \in Nat
        /\ \A g \in Flows : workflow[g].since \in Nat /\ workflow[g].since <= activations
        /\ \A q \in Editors : job[q].clearedAt \in Nat
    BY <2>1 DEF ActivationMove, Leave, TypeOK, ActiveOK, ActivationsOK, WorkflowRow, JobRow
  <2>3. CASE job[p].activate
    <3>1. /\ w.since = activations + 1 /\ w.clearedAt = job[p].clearedAt
          /\ w.retyped = (w.type # job[p].type)
          /\ activations' = activations + 1 /\ pc[p] = "activate"
      BY <2>1, <2>3 DEF ActivationMove
    <3>2. ActivationsOK'
      BY <2>2, <3>1 DEF ActiveOK, ActivationsOK
    <3>3. TwoActiveExplained'
      <4>1. SUFFICES ASSUME NEW g \in Flows, NEW h \in Flows,
                            workflow'[g].isActive, workflow'[h].isActive,
                            workflow'[g].type = workflow'[h].type,
                            workflow'[g].since < workflow'[h].since
                     PROVE  \/ workflow'[h].clearedAt < workflow'[g].since
                            \/ workflow'[g].retyped \/ workflow'[h].retyped
        BY DEF TwoActiveExplained
      <4>2. g # f
        BY <2>2, <3>1, <4>1
      <4>3. CASE h = f
        <5>1. CASE w.type = job[p].type
          <6>1. workflow[g].since > job[p].clearedAt \/ workflow[g].retyped
            BY <2>2, <2>3, <3>1, <4>1, <4>2, <4>3, <5>1 DEF ActiveOK, ActivationsOK
          <6> QED
            BY <2>2, <3>1, <4>2, <4>3, <6>1
        <5>2. CASE w.type # job[p].type
          BY <2>2, <3>1, <4>3, <5>2
        <5> QED
          BY <5>1, <5>2
      <4>4. CASE h # f
        BY <2>2, <4>1, <4>2, <4>4 DEF ActiveOK, TwoActiveExplained
      <4> QED
        BY <4>3, <4>4
    <3> QED
      BY <3>2, <3>3 DEF ActiveOK
  <2>4. CASE ~job[p].activate
    <3>1. w.since = workflow[f].since /\ ~w.isActive /\ UNCHANGED activations
      BY <2>1, <2>4 DEF ActivationMove
    <3>2. Kept
      BY <2>2, <3>1
    <3>3. Running
      BY <2>2
    <3> QED
      BY <3>1, <3>2, <3>3, ActiveKept
  <2> QED
    BY <2>3, <2>4
<1>11. ASSUME NEW p \in Editors, DeleteWorkflow(p) PROVE ActiveOK'
  <2>1. PICK w \in WorkflowRow : DeleteMove(p, w)
    BY <1>11, DeleteEffect
  <2>2. Running
    BY <2>1 DEF DeleteMove, TypeOK, Leave
  <2>3. Kept
    BY <2>1 DEF DeleteMove, TypeOK
  <2> QED
    BY <2>1, <2>2, <2>3, ActiveKept DEF DeleteMove, history
<1>12. CASE Crash
  BY <1>12, ActiveKept DEF Crash
<1>13. CASE UNCHANGED <<workflow, pc, job, activations>>
  BY <1>13, ActiveKept
<1>14. ASSUME NEW h \in Hooks, HookStep(h)
       PROVE  UNCHANGED <<workflow, pc, job, activations>>
  BY <1>14, HookEffect DEF HookChange
<1> QED
  BY <1>1, <1>2, <1>3, <1>4, <1>5, <1>6, <1>7, <1>8, <1>9, <1>10, <1>11, <1>12,
     <1>13, <1>14 DEF Next, Edit, Manage, vars, history
-----------------------------------------------------------------------------
LEMMA SavesInit == Init => SavesOK
BY EmptyRecords DEF Init, SavesOK, SaveOK, Saving, Writing

(* The request writes the graph of the workflow.                           *)
Saves(p, f) == pc[p] \in Writing /\ job[p].flow = f

(* A step that changes nothing of a workflow's graph, of its last drawing  *)
(* and of the requests that save it.                                       *)
LEMMA SaveFrame ==
    ASSUME NEW f \in Flows, SaveOK(f),
           NodesOf(f)' = NodesOf(f), EdgesOf(f)' = EdgesOf(f),
           \A e \in EdgesOf(f) : edge'[e] = edge[e],
           last'[f] = last[f], workflow'[f].exists = workflow[f].exists,
           \A q \in Editors : /\ Saves(q, f)' <=> Saves(q, f)
                              /\ Saves(q, f) => pc'[q] = pc[q] /\ job'[q] = job[q]
    PROVE  SaveOK(f)'
<1>1. ASSUME NEW p \in Editors, NEW q \in Editors, Saves(p, f)', Saves(q, f)'
      PROVE  p = q /\ DrawnSoFar(p, f)'
  <2>1. Saves(p, f) /\ Saves(q, f)
    BY <1>1
  <2>2. p = q /\ DrawnSoFar(p, f) /\ job[p].flow = f
    BY <2>1 DEF SaveOK, Saves
  <2>3. pc'[p] = pc[p] /\ job'[p] = job[p]
    BY <2>1
  <2>4. CASE pc[p] \in {"nodes", "edges", "background"}
    <3> DEFINE d == job[p].drawing
               E == (DOMAIN d.edges) \ job[p].edges
    <3>1. EdgesOf(f) = E /\ NodesOf(f) = d.nodes \ job[p].nodes /\ d = last[f]
          /\ pc[p] # "remove edges"
      BY <2>2, <2>4 DEF DrawnSoFar, EdgesAre
    <3>2. \A e \in E : edge[e] = [flow |-> f, source |-> d.edges[e][1],
                                  target |-> d.edges[e][2]]
      BY <2>2, <2>4 DEF DrawnSoFar, EdgesAre
    <3>3. \A e \in E : edge'[e] = edge[e]
      BY <3>1
    <3>4. /\ pc'[p] = pc[p] /\ job'[p].drawing = d /\ job'[p].nodes = job[p].nodes
          /\ job'[p].edges = job[p].edges
      BY <2>3
    <3>5. /\ NodesOf(f)' = job'[p].drawing.nodes \ job'[p].nodes
          /\ EdgesOf(f)' = (DOMAIN job'[p].drawing.edges) \ job'[p].edges
          /\ job'[p].drawing = last'[f]
      BY <3>1, <3>4
    <3>6. \A e \in (DOMAIN job'[p].drawing.edges) \ job'[p].edges :
              edge'[e] = [flow |-> f, source |-> job'[p].drawing.edges[e][1],
                          target |-> job'[p].drawing.edges[e][2]]
      BY <3>2, <3>3, <3>4
    <3> QED
      BY <2>2, <3>1, <3>4, <3>5, <3>6 DEF DrawnSoFar, EdgesAre
  <2>5. CASE pc[p] \notin {"nodes", "edges", "background"}
    BY <2>2, <2>3, <2>5 DEF DrawnSoFar
  <2> QED
    BY <2>2, <2>4, <2>5
<1>2. Saving(f)' <=> Saving(f)
  BY DEF Saving, Saves
<1>3. ASSUME workflow'[f].exists, ~Saving(f)'
      PROVE  NodesOf(f)' = last'[f].nodes /\ EdgesAre(f, last[f], DOMAIN last[f].edges)'
  BY <1>2, <1>3 DEF SaveOK, EdgesAre
<1> QED
  BY <1>1, <1>3 DEF SaveOK, Saves

(* The only request that saves a workflow, and how far it is afterwards.   *)
LEMMA SoleSaver ==
    ASSUME NEW f \in Flows, NEW p \in Editors, Saves(p, f)', DrawnSoFar(p, f)',
           \A q \in Editors : Saves(q, f)' => q = p
    PROVE  SaveOK(f)'
<1>1. Saving(f)'
  BY DEF Saving, Saves
<1> QED
  BY <1>1 DEF SaveOK, Saves

LEMMA SavesStep ==
    ASSUME TypeOK, TypeOK', RowsOK, SavesOK, [Next]_vars PROVE SavesOK'
<1> USE DEF Saves
<1>0. \A q \in Editors, f \in Flows : Saves(q, f) => workflow[f].exists
  BY DEF RowsOK, Writing
<1>w. "idle" \notin Writing /\ "row" \notin Writing /\ "deactivate" \notin Writing
      /\ "activate" \notin Writing /\ "delete" \notin Writing
      /\ "remove nodes" \in Writing /\ "remove edges" \in Writing /\ "nodes" \in Writing
      /\ "edges" \in Writing /\ "background" \in Writing
  BY DEF Writing
<1>1. ASSUME NEW p \in Editors, CreateWorkflow(p) PROVE SavesOK'
  <2>1. PICK f \in Flows, d \in Drawings, w \in WorkflowRow, j \in JobRow :
            CreateMove(p, f, d, w, j)
    BY <1>1, CreateEffect
  <2>2. /\ ~Saving(f) /\ NodesOf(f) = {} /\ EdgesOf(f) = {}
        /\ NodesOf(f)' = {} /\ EdgesOf(f)' = {}
    BY <1>0, <2>1 DEF CreateMove, Saving, RowsOK, NodesOf, EdgesOf
  <2>3. /\ job'[p] = j /\ pc'[p] = "background" /\ last'[f] = d
        /\ \A q \in Editors \ {p} : pc'[q] = pc[q] /\ job'[q] = job[q]
    BY <2>1 DEF CreateMove, Begin, TypeOK
  <2>4. SaveOK(f)'
    <3>1. Saves(p, f)' /\ \A q \in Editors : Saves(q, f)' => q = p
      BY <1>w, <2>1, <2>2, <2>3 DEF CreateMove, Saving
    <3>2. DrawnSoFar(p, f)'
      BY <2>1, <2>2, <2>3 DEF CreateMove, DrawnSoFar, EdgesAre
    <3> QED
      BY <3>1, <3>2, SoleSaver
  <2>5. ASSUME NEW g \in Flows \ {f}, SaveOK(g) PROVE SaveOK(g)'
    <3>1. /\ NodesOf(g)' = NodesOf(g) /\ EdgesOf(g)' = EdgesOf(g)
          /\ \A e \in EdgesOf(g) : edge'[e] = edge[e]
          /\ last'[g] = last[g] /\ workflow'[g] = workflow[g]
      BY <2>1 DEF CreateMove, Begin, NodesOf, EdgesOf, TypeOK
    <3>2. \A q \in Editors : /\ Saves(q, g)' <=> Saves(q, g)
                             /\ Saves(q, g) => pc'[q] = pc[q] /\ job'[q] = job[q]
      BY <1>w, <2>1, <2>3 DEF CreateMove
    <3> QED
      BY <2>5, <3>1, <3>2, SaveFrame
  <2>6. disturbed' = disturbed \ {f}
    BY <2>1, <2>2 DEF CreateMove, Begin
  <2> QED
    BY <2>4, <2>5, <2>6 DEF SavesOK
(* Requests that save no drawing yet, or no drawing at all.                *)
<1>2. ASSUME UNCHANGED <<node, edge, last>>, disturbed \subseteq disturbed',
             \A f \in Flows : workflow'[f].exists = workflow[f].exists,
             \A f \in Flows \ disturbed', q \in Editors :
                /\ Saves(q, f)' <=> Saves(q, f)
                /\ Saves(q, f) => pc'[q] = pc[q] /\ job'[q] = job[q]
      PROVE  SavesOK'
  <2>1. ASSUME NEW f \in Flows \ disturbed' PROVE SaveOK(f)'
    <3>1. SaveOK(f)
      BY <1>2 DEF SavesOK
    <3>2. /\ NodesOf(f)' = NodesOf(f) /\ EdgesOf(f)' = EdgesOf(f)
          /\ \A e \in EdgesOf(f) : edge'[e] = edge[e]
          /\ last'[f] = last[f]
      BY <1>2 DEF NodesOf, EdgesOf
    <3> QED
      BY <1>2, <3>1, <3>2, SaveFrame
  <2> QED
    BY <2>1 DEF SavesOK
<1>3. ASSUME NEW p \in Editors,
             UpdateWorkflow(p) \/ UpdateWorkflowActivation(p) \/ AskDelete(p)
      PROVE  SavesOK'
  <2>1. PICK f \in Flows, j \in JobRow,
             step \in {"row", "deactivate", "activate", "delete"} : UpdateMove(p, f, j, step)
    BY <1>3, UpdateEffect
  <2>3. /\ pc[p] \notin Writing /\ pc'[p] \notin Writing
        /\ \A q \in Editors \ {p} : pc'[q] = pc[q] /\ job'[q] = job[q]
    BY <1>w, <2>1 DEF UpdateMove, TypeOK
  <2>2. \A q \in Editors, g \in Flows :
            /\ Saves(q, g)' <=> Saves(q, g)
            /\ Saves(q, g) => pc'[q] = pc[q] /\ job'[q] = job[q]
    BY <2>3
  <2> QED
    BY <1>2, <2>1, <2>2 DEF UpdateMove, history
(* A save begins: it is the only one, or the workflow is disturbed.        *)
<1>4. ASSUME NEW p \in Editors, SaveWorkflowData(p) PROVE SavesOK'
  <2>1. PICK w \in WorkflowRow : SaveDataMove(p, w)
    BY <1>4, SaveDataEffect
  <2>f. PICK f \in Flows : f = job[p].flow
    BY <2>1 DEF SaveDataMove
  <2> DEFINE d == job[p].drawing
  <2>2. /\ f \in Flows /\ last'[f] = d /\ pc'[p] = "remove nodes" /\ job' = job
        /\ \A q \in Editors \ {p} : pc'[q] = pc[q]
        /\ \A g \in Flows \ {f} : last'[g] = last[g]
        /\ \A g \in Flows : workflow'[g].exists = workflow[g].exists
        /\ UNCHANGED <<node, edge>>
    BY <2>1, <2>f DEF SaveDataMove, Begin, TypeOK
  <2>3. ASSUME ~Saving(f) PROVE SaveOK(f)'
    <3>1. Saves(p, f)' /\ \A q \in Editors : Saves(q, f)' => q = p
      BY <1>w, <2>f, <2>2, <2>3 DEF Saving
    <3>2. DrawnSoFar(p, f)'
      BY <2>2 DEF DrawnSoFar
    <3> QED
      BY <2>2, <3>1, <3>2, SoleSaver
  <2>4. ASSUME NEW g \in Flows \ {f}, SaveOK(g) PROVE SaveOK(g)'
    <3>1. /\ NodesOf(g)' = NodesOf(g) /\ EdgesOf(g)' = EdgesOf(g)
          /\ \A e \in EdgesOf(g) : edge'[e] = edge[e]
      BY <2>2 DEF NodesOf, EdgesOf
    <3>2. \A q \in Editors : /\ Saves(q, g)' <=> Saves(q, g)
                             /\ Saves(q, g) => pc'[q] = pc[q] /\ job'[q] = job[q]
      BY <1>w, <2>f, <2>1, <2>2 DEF SaveDataMove
    <3> QED
      BY <2>2, <2>4, <3>1, <3>2, SaveFrame
  <2>5. disturbed' = IF Saving(f) THEN disturbed \union {f} ELSE disturbed \ {f}
    BY <2>1, <2>f DEF SaveDataMove, Begin
  <2> QED
    BY <2>3, <2>4, <2>5 DEF SavesOK
(* A step of a save: of the workflow it disturbs nothing, and of others it *)
(* changes nothing or disturbs them.                                       *)
<1>5. ASSUME NEW p \in Editors, NEW f \in Flows, Saves(p, f), Saves(p, f)',
             \A q \in Editors \ {p} : pc'[q] = pc[q] /\ job'[q] = job[q],
             disturbed \subseteq disturbed', UNCHANGED <<last, workflow>>,
             \A g \in Flows \ disturbed' : g # f =>
                /\ NodesOf(g)' = NodesOf(g) /\ EdgesOf(g)' = EdgesOf(g)
                /\ \A e \in EdgesOf(g) : edge'[e] = edge[e],
             DrawnSoFar(p, f) /\ f \notin disturbed' => DrawnSoFar(p, f)'
      PROVE  SavesOK'
  <2>1. ASSUME NEW g \in Flows \ disturbed', g # f PROVE SaveOK(g)'
    <3>1. SaveOK(g)
      BY <1>5 DEF SavesOK
    <3>2. \A q \in Editors : /\ Saves(q, g)' <=> Saves(q, g)
                             /\ Saves(q, g) => pc'[q] = pc[q] /\ job'[q] = job[q]
      BY <1>5, <2>1
    <3> QED
      BY <1>5, <2>1, <3>1, <3>2, SaveFrame
  <2>2. ASSUME f \notin disturbed' PROVE SaveOK(f)'
    <3>1. DrawnSoFar(p, f) /\ \A q \in Editors : Saves(q, f) => q = p
      BY <1>5, <2>2 DEF SavesOK, SaveOK
    <3>2. \A q \in Editors : Saves(q, f)' => q = p
      BY <1>5, <3>1
    <3> QED
      BY <1>5, <2>2, <3>1, <3>2, SoleSaver
  <2> QED
    BY <2>1, <2>2 DEF SavesOK
<1>6. ASSUME NEW p \in Editors, RemoveAllNode(p) PROVE SavesOK'
  <2>1. PICK f \in Flows : f = job[p].flow
    BY <1>6, JobFacts DEF RemoveAllNode
  <2>2. /\ pc[p] = "remove nodes" /\ pc'[p] = "remove edges"
        /\ \A q \in Editors \ {p} : pc'[q] = pc[q]
        /\ UNCHANGED <<workflow, edge, job, last, disturbed>>
    BY <1>6 DEF RemoveAllNode, Goto, TypeOK, history
  <2>3. NodesOf(f)' = {} /\ \A g \in Flows : g # f => NodesOf(g)' = NodesOf(g)
    BY <1>6, <2>1, NoneAssumption DEF RemoveAllNode, NodesOf
  <2>4. \A g \in Flows : EdgesOf(g)' = EdgesOf(g)
    BY <2>2 DEF EdgesOf
  <2>5. DrawnSoFar(p, f) => DrawnSoFar(p, f)'
    BY <2>2, <2>3 DEF DrawnSoFar
  <2> QED
    BY <1>w, <1>5, <2>1, <2>2, <2>3, <2>4, <2>5
<1>7. ASSUME NEW p \in Editors, RemoveAllEdge(p) PROVE SavesOK'
  <2>1. PICK j \in JobRow : RemoveEdgeMove(p, j)
    BY <1>7, RemoveEdgeEffect
  <2>2. PICK f \in Flows : f = job[p].flow
    BY <2>1, JobFacts DEF RemoveEdgeMove
  <2>3. /\ pc[p] = "remove edges" /\ pc'[p] = "nodes" /\ job'[p] = j
        /\ \A q \in Editors \ {p} : pc'[q] = pc[q] /\ job'[q] = job[q]
        /\ UNCHANGED <<workflow, node, last, disturbed>>
        /\ j.flow = f /\ j.drawing = job[p].drawing /\ j.nodes = job[p].drawing.nodes
        /\ j.edges = DOMAIN job[p].drawing.edges
    BY <2>1, <2>2 DEF RemoveEdgeMove, TypeOK, history
  <2>4. /\ EdgesOf(f)' = {}
        /\ \A g \in Flows : g # f =>
              EdgesOf(g)' = EdgesOf(g) /\ \A e \in EdgesOf(g) : edge'[e] = edge[e]
    BY <2>1, <2>2, NoneAssumption DEF RemoveEdgeMove, EdgesOf, NoEdge
  <2>5. \A g \in Flows : NodesOf(g)' = NodesOf(g)
    BY <2>3 DEF NodesOf
  <2>6. DrawnSoFar(p, f) => DrawnSoFar(p, f)'
    <3>1. SUFFICES ASSUME DrawnSoFar(p, f) PROVE DrawnSoFar(p, f)'
      OBVIOUS
    <3>2. NodesOf(f)' = j.drawing.nodes \ j.nodes
      BY <2>3, <2>5, <3>1 DEF DrawnSoFar
    <3>3. EdgesAre(f, j.drawing, (DOMAIN j.drawing.edges) \ j.edges)'
      BY <2>3, <2>4 DEF EdgesAre
    <3> QED
      BY <2>3, <3>1, <3>2, <3>3 DEF DrawnSoFar
  <2> QED
    BY <1>w, <1>5, <2>2, <2>3, <2>4, <2>5, <2>6
<1>8. ASSUME NEW p \in Editors, SaveWorkflowNode(p) PROVE SavesOK'
  <2>1. PICK n \in job[p].nodes, j \in JobRow : SaveNodeMove(p, n, j)
    BY <1>8, SaveNodeEffect
  <2>2. PICK f \in Flows : f = job[p].flow
    BY <2>1, JobFacts DEF SaveNodeMove
  <2>3. /\ pc[p] \in {"nodes", "background"} /\ pc' = pc /\ job'[p] = j
        /\ \A q \in Editors \ {p} : job'[q] = job[q]
        /\ UNCHANGED <<workflow, edge, last>>
        /\ j.flow = f /\ j.drawing = job[p].drawing /\ j.nodes = job[p].nodes \ {n}
        /\ j.edges = job[p].edges
        /\ n \in Nodes /\ n \in job[p].drawing.nodes
        /\ disturbed' = disturbed \union TakenFrom(node[n], f)
    BY <2>1, <2>2, JobFacts DEF SaveNodeMove, TypeOK
  <2>4. /\ NodesOf(f)' = NodesOf(f) \union {n}
        /\ \A g \in Flows \ disturbed' : g # f => NodesOf(g)' = NodesOf(g)
    <3>1. node' = [node EXCEPT ![n] = f] /\ node \in [Nodes -> Flows \union {None}]
      BY <2>1, <2>2 DEF SaveNodeMove, TypeOK
    <3>2. \A g \in Flows \ disturbed' : g # f => node[n] # g
      BY <2>3, NoneAssumption DEF TakenFrom
    <3> QED
      BY <2>3, <3>1, <3>2 DEF NodesOf
  <2>5. \A g \in Flows : EdgesOf(g)' = EdgesOf(g)
    BY <2>3 DEF EdgesOf
  <2>6. DrawnSoFar(p, f) => DrawnSoFar(p, f)'
    <3>1. SUFFICES ASSUME DrawnSoFar(p, f) PROVE DrawnSoFar(p, f)'
      OBVIOUS
    <3>2. NodesOf(f)' = j.drawing.nodes \ j.nodes
      BY <2>3, <2>4, <3>1 DEF DrawnSoFar
    <3>3. EdgesAre(f, j.drawing, (DOMAIN j.drawing.edges) \ j.edges)'
      BY <2>3, <2>5, <3>1 DEF DrawnSoFar, EdgesAre
    <3> QED
      BY <2>3, <3>1, <3>2, <3>3 DEF DrawnSoFar
  <2> QED
    BY <1>w, <1>5, <2>2, <2>3, <2>4, <2>5, <2>6
<1>9. ASSUME NEW p \in Editors, SaveWorkflowEdge(p) PROVE SavesOK'
  <2>1. PICK e \in job[p].edges, j \in JobRow : SaveEdgeMove(p, e, j)
    BY <1>9, SaveEdgeEffect
  <2>2. PICK f \in Flows : f = job[p].flow
    BY <2>1, JobFacts DEF SaveEdgeMove
  <2> DEFINE d == job[p].drawing
             r == [flow |-> f, source |-> d.edges[e][1], target |-> d.edges[e][2]]
  <2>3. /\ pc[p] \in {"edges", "background"} /\ pc' = pc /\ job'[p] = j
        /\ \A q \in Editors \ {p} : job'[q] = job[q]
        /\ UNCHANGED <<workflow, node, last>>
        /\ j.flow = f /\ j.drawing = d /\ j.nodes = job[p].nodes
        /\ j.edges = job[p].edges \ {e}
        /\ e \in EdgeIds /\ e \in DOMAIN d.edges
        /\ disturbed' = disturbed \union TakenFrom(edge[e].flow, f)
    BY <2>1, <2>2, JobFacts DEF SaveEdgeMove, TypeOK
  <2>4. /\ edge'[e] = r /\ \A x \in EdgeIds \ {e} : edge'[x] = edge[x]
        /\ r.flow = f
    BY <2>1, <2>2 DEF SaveEdgeMove, TypeOK
  <2>5. /\ EdgesOf(f)' = EdgesOf(f) \union {e}
        /\ \A g \in Flows \ disturbed' : g # f =>
              EdgesOf(g)' = EdgesOf(g) /\ \A x \in EdgesOf(g) : edge'[x] = edge[x]
    <3>1. \A g \in Flows \ disturbed' : g # f => edge[e].flow # g
      BY <2>3, NoneAssumption DEF TakenFrom
    <3> QED
      BY <2>3, <2>4, <3>1 DEF EdgesOf
  <2>6. \A g \in Flows : NodesOf(g)' = NodesOf(g)
    BY <2>3 DEF NodesOf
  <2>7. DrawnSoFar(p, f) => DrawnSoFar(p, f)'
    <3>1. SUFFICES ASSUME DrawnSoFar(p, f) PROVE DrawnSoFar(p, f)'
      OBVIOUS
    <3>2. NodesOf(f)' = j.drawing.nodes \ j.nodes
      BY <2>3, <2>6, <3>1 DEF DrawnSoFar
    <3>3. EdgesOf(f)' = (DOMAIN d.edges) \ j.edges
      BY <2>3, <2>5, <3>1 DEF DrawnSoFar, EdgesAre
    <3>4. \A x \in (DOMAIN d.edges) \ j.edges :
              edge'[x] = [flow |-> f, source |-> d.edges[x][1], target |-> d.edges[x][2]]
      <4>1. SUFFICES ASSUME NEW x \in (DOMAIN d.edges) \ j.edges, x # e
                     PROVE  edge'[x] = [flow |-> f, source |-> d.edges[x][1],
                                        target |-> d.edges[x][2]]
        BY <2>4
      <4>2. x \in (DOMAIN d.edges) \ job[p].edges
        BY <2>3, <4>1
      <4>3. edge[x] = [flow |-> f, source |-> d.edges[x][1], target |-> d.edges[x][2]]
            /\ x \in EdgesOf(f)
        BY <2>3, <3>1, <4>2 DEF DrawnSoFar, EdgesAre
      <4> QED
        BY <2>4, <4>1, <4>3 DEF EdgesOf
    <3>5. d = last'[f]
      BY <2>3, <3>1 DEF DrawnSoFar
    <3> QED
      BY <2>3, <3>2, <3>3, <3>4, <3>5 DEF DrawnSoFar, EdgesAre
  <2> QED
    BY <1>w, <1>5, <2>2, <2>3, <2>5, <2>6, <2>7
<1>10. ASSUME NEW p \in Editors, NodesSaved(p) PROVE SavesOK'
  <2>1. PICK f \in Flows : f = job[p].flow
    BY <1>10, JobFacts DEF NodesSaved
  <2>2. /\ pc[p] = "nodes" /\ pc'[p] = "edges"
        /\ \A q \in Editors \ {p} : pc'[q] = pc[q]
        /\ UNCHANGED <<workflow, node, edge, job, last, disturbed>>
    BY <1>10 DEF NodesSaved, Goto, TypeOK, graph, history
  <2>3. \A g \in Flows : NodesOf(g)' = NodesOf(g) /\ EdgesOf(g)' = EdgesOf(g)
    BY <2>2 DEF NodesOf, EdgesOf
  <2>4. DrawnSoFar(p, f) => DrawnSoFar(p, f)'
    BY <2>2, <2>3 DEF DrawnSoFar, EdgesAre
  <2> QED
    BY <1>w, <1>5, <2>1, <2>2, <2>3, <2>4
(* A save that ends has written everything.                                *)
<1>11. ASSUME NEW p \in Editors, Saved(p) PROVE SavesOK'
  <2>1. PICK f \in Flows : f = job[p].flow
    BY <1>11, JobFacts DEF Saved
  <2>2. /\ pc[p] \in {"edges", "background"} /\ job[p].nodes = {} /\ job[p].edges = {}
        /\ pc'[p] = "idle"
        /\ \A q \in Editors \ {p} : pc'[q] = pc[q] /\ job'[q] = job[q]
        /\ UNCHANGED <<workflow, node, edge, last, disturbed>>
    BY <1>11 DEF Saved, Leave, TypeOK, graph, history
  <2>3. \A g \in Flows : NodesOf(g)' = NodesOf(g) /\ EdgesOf(g)' = EdgesOf(g)
    BY <2>2 DEF NodesOf, EdgesOf
  <2>4. ASSUME NEW g \in Flows \ disturbed, g # f PROVE SaveOK(g)'
    <3>1. SaveOK(g)
      BY DEF SavesOK
    <3>2. \A q \in Editors : /\ Saves(q, g)' <=> Saves(q, g)
                             /\ Saves(q, g) => pc'[q] = pc[q] /\ job'[q] = job[q]
      BY <1>w, <2>1, <2>2, <2>4
    <3> QED
      BY <2>2, <2>3, <2>4, <3>1, <3>2, SaveFrame
  <2>5. ASSUME f \notin disturbed PROVE SaveOK(f)'
    <3>1. Saves(p, f)
      BY <1>w, <2>1, <2>2
    <3>2. DrawnSoFar(p, f) /\ \A q \in Editors : Saves(q, f) => q = p
      BY <2>5, <3>1 DEF SavesOK, SaveOK
    <3>3. \A q \in Editors : ~Saves(q, f)'
      BY <1>w, <2>2, <3>2
    <3>4. NodesOf(f) = last[f].nodes /\ EdgesAre(f, last[f], DOMAIN last[f].edges)
      BY <2>2, <3>2 DEF DrawnSoFar
    <3>5. NodesOf(f)' = last'[f].nodes
          /\ EdgesAre(f, last[f], DOMAIN last[f].edges)'
      BY <2>2, <2>3, <3>4 DEF EdgesAre
    <3> QED
      BY <3>3, <3>5 DEF SaveOK
  <2> QED
    BY <2>2, <2>4, <2>5 DEF SavesOK
<1>12. ASSUME NEW p \in Editors, UpsertFails(p) PROVE SavesOK'
  <2>1. PICK j \in JobRow : UpsertFailsMove(p, j)
    BY <1>12, UpsertFailsEffect
  <2>2. PICK f \in Flows : f = job[p].flow
    BY <2>1, JobFacts DEF UpsertFailsMove
  <2>3. /\ pc[p] \in Writing /\ pc'[p] \in Writing /\ job'[p].flow = f
        /\ \A q \in Editors \ {p} : pc'[q] = pc[q] /\ job'[q] = job[q]
        /\ UNCHANGED <<workflow, node, edge, last>>
        /\ disturbed' = disturbed \union {f}
    BY <1>w, <2>1, <2>2 DEF UpsertFailsMove, TypeOK
  <2>4. \A g \in Flows : NodesOf(g)' = NodesOf(g) /\ EdgesOf(g)' = EdgesOf(g)
    BY <2>3 DEF NodesOf, EdgesOf
  <2> QED
    BY <1>5, <2>2, <2>3, <2>4
<1>13. ASSUME NEW p \in Editors, RequestFails(p) PROVE SavesOK'
  <2>1. PICK f \in Flows : f = job[p].flow
    BY <1>13, JobFacts DEF RequestFails
  <2>2. /\ pc'[p] = "idle" /\ UNCHANGED <<workflow, node, edge, last>>
        /\ \A q \in Editors \ {p} : pc'[q] = pc[q] /\ job'[q] = job[q]
        /\ disturbed \subseteq disturbed'
        /\ pc[p] \in Writing => f \in disturbed'
    BY <1>13, <2>1 DEF RequestFails, Leave, TypeOK, graph
  <2>3. \A g \in Flows \ disturbed', q \in Editors :
            /\ Saves(q, g)' <=> Saves(q, g)
            /\ Saves(q, g) => pc'[q] = pc[q] /\ job'[q] = job[q]
    BY <1>w, <2>1, <2>2
  <2> QED
    BY <1>2, <2>2, <2>3
<1>14. ASSUME NEW p \in Editors, DeactivateAllWorkflow(p) PROVE SavesOK'
  <2>1. PICK j \in JobRow : DeactivateMove(p, j)
    BY <1>14, DeactivateEffect
  <2>2. /\ pc[p] \notin Writing /\ pc'[p] \notin Writing
        /\ \A q \in Editors \ {p} : pc'[q] = pc[q] /\ job'[q] = job[q]
    BY <1>w, <2>1 DEF DeactivateMove, TypeOK
  <2>3. \A q \in Editors, g \in Flows :
            /\ Saves(q, g)' <=> Saves(q, g)
            /\ Saves(q, g) => pc'[q] = pc[q] /\ job'[q] = job[q]
    BY <2>2
  <2> QED
    BY <1>2, <2>1, <2>3 DEF DeactivateMove, history
<1>15. ASSUME NEW p \in Editors, UpdateActivation(p) \/ DeleteWorkflow(p) PROVE SavesOK'
  <2>1. /\ \A f \in Flows : workflow'[f].exists = workflow[f].exists
        /\ Leave(p) /\ pc[p] \notin Writing /\ UNCHANGED <<node, edge, last, disturbed>>
    <3>1. CASE UpdateActivation(p)
      <4>1. PICK w \in WorkflowRow : ActivationMove(p, w)
        BY <3>1, ActivationEffect
      <4> QED
        BY <1>w, <4>1 DEF ActivationMove, TypeOK
    <3>2. CASE DeleteWorkflow(p)
      <4>1. PICK w \in WorkflowRow : DeleteMove(p, w)
        BY <3>2, DeleteEffect
      <4> QED
        BY <1>w, <4>1 DEF DeleteMove, TypeOK, history
    <3> QED
      BY <1>15, <3>1, <3>2
  <2>2. pc'[p] \notin Writing
        /\ \A q \in Editors \ {p} : pc'[q] = pc[q] /\ job'[q] = job[q]
    BY <1>w, <2>1 DEF Leave, TypeOK
  <2>3. \A q \in Editors, g \in Flows :
            /\ Saves(q, g)' <=> Saves(q, g)
            /\ Saves(q, g) => pc'[q] = pc[q] /\ job'[q] = job[q]
    BY <2>1, <2>2
  <2> QED
    BY <1>2, <2>1, <2>3
<1>16. CASE Crash
  <2>1. /\ UNCHANGED <<workflow, node, edge, last>>
        /\ \A q \in Editors : pc'[q] = "idle"
        /\ disturbed' = disturbed \union {f \in Flows : Saving(f)}
    BY <1>16 DEF Crash, graph
  <2>2. \A f \in Flows \ disturbed', q \in Editors : ~Saves(q, f) /\ ~Saves(q, f)'
    BY <1>w, <2>1 DEF Saving
  <2> QED
    BY <1>2, <2>1, <2>2
<1>17. CASE UNCHANGED <<workflow, node, edge, pc, job, last, disturbed>>
  BY <1>2, <1>17
<1>18. ASSUME NEW h \in Hooks, HookStep(h)
       PROVE  UNCHANGED <<workflow, node, edge, pc, job, last, disturbed>>
  BY <1>18, HookEffect DEF HookChange
<1> QED
  BY <1>1, <1>3, <1>4, <1>6, <1>7, <1>8, <1>9, <1>10, <1>11, <1>12,
     <1>13, <1>14, <1>15, <1>16, <1>17, <1>18 DEF Next, Edit, Manage, vars, graph, history
-----------------------------------------------------------------------------
LEMMA HooksInit == Init => HooksOK
<1>1. SUFFICES ASSUME Init PROVE HooksOK
  OBVIOUS
<1>2. \A f \in Flows : ~Saving(f)
  BY <1>1 DEF Init, Saving, Writing
<1>3. \A h \in Hooks : hook[h].flow = None
  BY <1>1, EmptyRecords DEF Init
<1> QED
  BY <1>2, <1>3, NoneAssumption DEF HooksOK

(* A step of others leaves a hook where it was, or moves its workflow.     *)
LEMMA HooksKept ==
    ASSUME TypeOK, TypeOK', HooksOK, UNCHANGED <<at, hook>>,
           \A f \in Flows :
              /\ workflow[f].exists => workflow'[f].exists
              /\ edits'[f] >= edits[f]
              /\ Saving(f)' => edits'[f] > 0 /\ (Saving(f) \/ edits'[f] > edits[f])
              /\ workflow[f].exists /\ ~Saving(f)' /\ ~workflow'[f].delete
                    /\ f \notin disturbed' =>
                       /\ f \notin disturbed /\ ~workflow[f].delete
                       /\ last'[f] = last[f] /\ edits'[f] = edits[f]
    PROVE  HooksOK'
<1>1. ASSUME NEW h \in Hooks, NEW f \in Flows, hook[h].flow = f
      PROVE  HookOK(h, f)'
  <2>1. HookOK(h, f)
    BY <1>1 DEF HooksOK
  <2>2. edits[f] \in Nat /\ edits'[f] \in Nat /\ hook[h].edits \in Nat
    BY DEF TypeOK, HookRow
  <2>3. workflow'[f].exists /\ hook[h].edits <= edits'[f]
        /\ (Saving(f)' => hook[h].edits < edits'[f])
    BY <2>1, <2>2 DEF HookOK
  <2>4. ASSUME Unmoved(h, f)' PROVE Follows(h, last[f])'
    <3>1. hook[h].edits = edits'[f] /\ ~Saving(f)'
      BY <2>4 DEF Unmoved, Stored
    <3>2. /\ f \notin disturbed /\ ~workflow[f].delete
          /\ last'[f] = last[f] /\ edits'[f] = edits[f]
      BY <2>1, <2>4 DEF Unmoved, HookOK
    <3>3. ~Saving(f)
      BY <2>1, <2>2, <3>1, <3>2 DEF HookOK
    <3>4. Unmoved(h, f)
      BY <3>1, <3>2, <3>3 DEF Unmoved, Stored
    <3>5. Follows(h, last[f])
      BY <2>1, <3>4 DEF HookOK
    <3> QED
      BY <3>2, <3>5 DEF Follows
  <2> QED
    BY <2>3, <2>4 DEF HookOK
<1>2. /\ \A f \in Flows : Saving(f)' => edits'[f] > 0
      /\ \A h \in Hooks : at'[h] \in {"idle", "flow"} => hook'[h].flow = None
  BY DEF HooksOK
<1> QED
  BY <1>1, <1>2 DEF HooksOK

(* What is stored of a workflow that nothing moved.                        *)
LEMMA StoredIsDrawn ==
    ASSUME SavesOK, NEW f \in Flows, f \notin disturbed, workflow[f].exists, ~Saving(f)
    PROVE  /\ NodesOf(f) = last[f].nodes /\ EdgesOf(f) = DOMAIN last[f].edges
           /\ \A e \in EdgesOf(f) : /\ edge[e].source = last[f].edges[e][1]
                                    /\ edge[e].target = last[f].edges[e][2]
<1>1. NodesOf(f) = last[f].nodes /\ EdgesAre(f, last[f], DOMAIN last[f].edges)
  BY DEF SavesOK, SaveOK
<1>2. \A e \in EdgesOf(f) :
          edge[e] = [flow |-> f, source |-> last[f].edges[e][1],
                     target |-> last[f].edges[e][2]]
  BY <1>1 DEF EdgesAre
<1>3. EdgesOf(f) = DOMAIN last[f].edges
  BY <1>1 DEF EdgesAre
<1>4. ASSUME NEW e \in EdgesOf(f)
      PROVE  edge[e].source = last[f].edges[e][1] /\ edge[e].target = last[f].edges[e][2]
  <2> DEFINE s == last[f].edges[e][1]
             t == last[f].edges[e][2]
  <2>1. edge[e] = [flow |-> f, source |-> s, target |-> t]
    BY <1>2
  <2> HIDE DEF s, t
  <2>2. edge[e].source = s /\ edge[e].target = t
    BY <2>1
  <2> QED
    BY <2>2 DEF s, t
<1> QED
  BY <1>1, <1>3, <1>4

LEMMA OutcomeMeant ==
    ASSUME NEW d, NEW n \in Starts(d), NEW o \in Leads(d, n)
    PROVE  o \in Meant(d)
BY DEF Meant

(* A step of a hook over a stored drawing stays in the drawing.            *)
LEMMA HookFollows ==
    ASSUME TypeOK, RowsOK, SavesOK, HooksOK, NEW h \in Hooks, NEW a \in AtSteps,
           NEW k \in HookRow, HookChange(h, a, k), NEW f \in Flows, k.flow = f
    PROVE  HookOK(h, f)'
<1>1. /\ at'[h] = a /\ hook'[h] = k
      /\ UNCHANGED <<workflow, node, edge, pc, job, edits, last, disturbed>>
  BY DEF HookChange, TypeOK
<1>2. (Saving(f)' <=> Saving(f)) /\ Stored(f)' = Stored(f)
  BY <1>1 DEF Saving, Stored
<1>3. HookMove(h, a, k)
  BY DEF HookChange
<1>4. k.flow # None
  BY NoneAssumption
<1>5. CASE at[h] = "flow" /\ a = "data" /\ workflow[f].isActive /\ k.edits = Stored(f)
  <2>1. workflow[f].exists
    BY <1>5 DEF RowsOK
  <2>2. k.edits <= edits[f] /\ (Saving(f) => k.edits < edits[f])
    <3>1. edits[f] \in Nat /\ (Saving(f) => edits[f] > 0)
      BY DEF HooksOK, TypeOK
    <3> QED
      BY <1>5, <3>1 DEF Stored
  <2> QED
    BY <1>1, <1>2, <1>5, <2>1, <2>2 DEF HookOK, Follows
<1>6. ASSUME k.flow = hook[h].flow, k.edits = hook[h].edits, at[h] # "flow",
             Unmoved(h, f)' => Follows(h, last[f])'
      PROVE  HookOK(h, f)'
  <2>1. HookOK(h, f)
    BY <1>6 DEF HooksOK
  <2> QED
    BY <1>1, <1>2, <1>6, <2>1 DEF HookOK
<1>7. ASSUME k.flow = hook[h].flow, k.edits = hook[h].edits, at[h] # "flow", Unmoved(h, f)'
      PROVE  /\ Follows(h, last[f])
             /\ NodesOf(f) = last[f].nodes /\ EdgesOf(f) = DOMAIN last[f].edges
             /\ \A e \in EdgesOf(f) : /\ edge[e].source = last[f].edges[e][1]
                                      /\ edge[e].target = last[f].edges[e][2]
  <2>1. Unmoved(h, f)
    BY <1>1, <1>2, <1>7 DEF Unmoved
  <2>2. HookOK(h, f) /\ Follows(h, last[f])
    BY <1>7, <2>1 DEF HooksOK, HookOK
  <2>3. f \notin disturbed /\ workflow[f].exists /\ ~Saving(f)
    BY <2>1, <2>2 DEF Unmoved, HookOK
  <2> QED
    BY <2>2, <2>3, StoredIsDrawn
<1>8. CASE at[h] = "data" /\ a = "node" /\ k = hook[h]
  BY <1>1, <1>6, <1>8 DEF Follows
<1>9. CASE /\ at[h] = "node" /\ a = "edge" /\ k.flow = hook[h].flow /\ k.edits = hook[h].edits
           /\ k.node \in NodesOf(f) \intersect Receive
  <2>1. ASSUME Unmoved(h, f)' PROVE Follows(h, last[f])'
    <3>1. k.node \in Starts(last[f])
      BY <1>7, <1>9, <2>1 DEF Starts
    <3> QED
      BY <1>1, <1>9, <3>1 DEF Follows
  <2> QED
    BY <1>6, <1>9, <2>1
<1>10. CASE /\ at[h] = "edge" /\ a = "target"
            /\ k.flow = hook[h].flow /\ k.edits = hook[h].edits
            /\ \E e \in EdgesOf(f) :
                  edge[e].source = hook[h].node /\ k.node = edge[e].target
  <2>1. ASSUME Unmoved(h, f)' PROVE Follows(h, last[f])'
    <3> DEFINE d == last[f]
    <3>1. PICK e \in EdgesOf(f) : edge[e].source = hook[h].node /\ k.node = edge[e].target
      BY <1>10
    <3>2. hook[h].node \in Starts(d)
      BY <1>7, <1>10, <2>1 DEF Follows
    <3>3. e \in DOMAIN d.edges /\ d.edges[e][1] = hook[h].node /\ d.edges[e][2] = k.node
      BY <1>7, <1>10, <2>1, <3>1
    <3>4. k.node \in Follow(d, hook[h].node)
      BY <3>3 DEF Follow
    <3> QED
      BY <1>1, <1>10, <3>2, <3>4 DEF Follows
  <2> QED
    BY <1>6, <1>10, <2>1
<1>11. CASE /\ a = "done" /\ k.flow = hook[h].flow /\ k.edits = hook[h].edits
            /\ \/ at[h] = "flow"
               \/ at[h] = "data" /\ workflow[f].delete
               \/ /\ at[h] = "node" /\ k.outcome = "error"
                  /\ NodesOf(f) \intersect Receive = {}
               \/ /\ at[h] = "edge" /\ k.outcome = "none"
                  /\ {e \in EdgesOf(f) : edge[e].source = hook[h].node} = {}
               \/ /\ at[h] = "target"
                  /\ k.outcome = IF node[hook[h].node] = f THEN "next" ELSE "none"
  <2> DEFINE d == last[f]
  <2>1. at[h] # "flow"
    BY <1>4, <1>11 DEF HooksOK
  <2>2. ASSUME Unmoved(h, f)' PROVE k.outcome \in Meant(d)
    <3>1. ~workflow[f].delete
      BY <1>1, <2>2 DEF Unmoved
    <3>2. /\ Follows(h, d)
          /\ NodesOf(f) = d.nodes /\ EdgesOf(f) = DOMAIN d.edges
          /\ \A e \in EdgesOf(f) : /\ edge[e].source = d.edges[e][1]
                                   /\ edge[e].target = d.edges[e][2]
      BY <1>7, <1>11, <2>1, <2>2
    <3>3. CASE at[h] = "node" /\ k.outcome = "error" /\ NodesOf(f) \intersect Receive = {}
      BY <3>2, <3>3 DEF Starts, Meant
    <3>4. CASE /\ at[h] = "edge" /\ k.outcome = "none"
               /\ {e \in EdgesOf(f) : edge[e].source = hook[h].node} = {}
      <4>1. hook[h].node \in Starts(d)
        BY <3>2, <3>4 DEF Follows
      <4>2. Follow(d, hook[h].node) = {}
        BY <3>2, <3>4 DEF Follow
      <4> QED
        BY <3>4, <4>1, <4>2, OutcomeMeant DEF Leads
    <3>5. CASE /\ at[h] = "target"
               /\ k.outcome = IF node[hook[h].node] = f THEN "next" ELSE "none"
      <4>1. PICK n \in Starts(d) : hook[h].node \in Follow(d, n)
        BY <3>2, <3>5 DEF Follows
      <4>2. hook[h].node \in Nodes
        BY <3>5 DEF TypeOK
      <4>3. k.outcome = IF hook[h].node \in d.nodes THEN "next" ELSE "none"
        BY <3>2, <3>5, <4>2 DEF NodesOf
      <4>4. k.outcome \in Leads(d, n)
        BY <4>1, <4>3 DEF Leads
      <4> QED
        BY <4>4, OutcomeMeant
    <3> QED
      BY <1>11, <2>1, <3>1, <3>3, <3>4, <3>5
  <2>3. Unmoved(h, f)' => Follows(h, last[f])'
    BY <1>1, <1>11, <2>2 DEF Follows
  <2> QED
    BY <1>6, <1>11, <2>1, <2>3
<1> QED
  BY <1>3, <1>4, <1>5, <1>8, <1>9, <1>10, <1>11 DEF HookMove

LEMMA HooksStep ==
    ASSUME TypeOK, TypeOK', RowsOK, SavesOK, HooksOK, [Next]_vars PROVE HooksOK'
<1> USE DEF Saves
<1>w. "idle" \notin Writing /\ "row" \notin Writing /\ "deactivate" \notin Writing
      /\ "activate" \notin Writing /\ "delete" \notin Writing
      /\ "remove nodes" \in Writing /\ "remove edges" \in Writing /\ "nodes" \in Writing
      /\ "edges" \in Writing /\ "background" \in Writing
  BY DEF Writing
<1>e. \A f \in Flows : edits[f] \in Nat /\ edits'[f] \in Nat
  BY DEF TypeOK
<1>s. \A f \in Flows : Saving(f) => edits[f] > 0
  BY DEF HooksOK
<1>h. ASSUME NEW h \in Hooks, HookStep(h) PROVE HooksOK'
  <2>1. PICK a \in AtSteps, k \in HookRow : HookChange(h, a, k)
    BY <1>h, HookEffect
  <2>2. /\ at'[h] = a /\ hook'[h] = k
        /\ \A g \in Hooks \ {h} : at'[g] = at[g] /\ hook'[g] = hook[g]
        /\ UNCHANGED <<workflow, node, edge, pc, job, edits, last, disturbed>>
    BY <2>1 DEF HookChange, TypeOK
  <2>3. \A f \in Flows : (Saving(f)' <=> Saving(f)) /\ Stored(f)' = Stored(f)
    BY <2>2 DEF Saving, Stored
  <2>4. ASSUME NEW g \in Hooks, NEW f \in Flows, hook'[g].flow = f PROVE HookOK(g, f)'
    <3>1. CASE g = h
      BY <2>1, <2>2, <2>4, <3>1, HookFollows
    <3>2. CASE g # h
      <4>1. HookOK(g, f)
        BY <2>2, <2>4, <3>2 DEF HooksOK
      <4> QED
        BY <2>2, <2>3, <3>2, <4>1 DEF HookOK, Unmoved, Follows
    <3> QED
      BY <3>1, <3>2
  <2>5. a \in {"idle", "flow"} => k.flow = None
    BY <2>1 DEF HookChange, HookMove
  <2> QED
    BY <2>2, <2>3, <2>4, <2>5 DEF HooksOK
(* Requests that begin no save: a hook's workflow moves only away.         *)
<1>1. ASSUME UNCHANGED <<at, hook, edits, last>>, disturbed \subseteq disturbed',
             \A f \in Flows :
                /\ workflow[f].exists => workflow'[f].exists
                /\ workflow[f].delete => workflow'[f].delete
                /\ Saving(f)' => Saving(f)
      PROVE  HooksOK'
  BY <1>1, <1>e, <1>s, HooksKept
<1>2. ASSUME NEW p \in Editors, CreateWorkflow(p) PROVE HooksOK'
  <2>1. PICK f \in Flows, d \in Drawings, w \in WorkflowRow, j \in JobRow :
            CreateMove(p, f, d, w, j)
    BY <1>2, CreateEffect
  <2>2. /\ job'[p] = j /\ j.flow = f /\ pc'[p] = "background"
        /\ \A q \in Editors \ {p} : pc'[q] = pc[q] /\ job'[q] = job[q]
        /\ workflow'[f] = w /\ w.exists /\ ~workflow[f].exists
        /\ \A g \in Flows \ {f} : workflow'[g] = workflow[g]
        /\ edits'[f] = edits[f] + 1
        /\ \A g \in Flows \ {f} : last'[g] = last[g] /\ edits'[g] = edits[g]
        /\ disturbed \ {f} \subseteq disturbed' /\ UNCHANGED <<at, hook>>
    BY <2>1 DEF CreateMove, Begin, TypeOK
  <2>3. \A g \in Flows : Saving(g)' => g = f \/ Saving(g)
    BY <2>2 DEF Saving
  <2> QED
    BY <1>e, <1>s, <2>2, <2>3, HooksKept
<1>3. ASSUME NEW p \in Editors, SaveWorkflowData(p) PROVE HooksOK'
  <2>1. PICK w \in WorkflowRow : SaveDataMove(p, w)
    BY <1>3, SaveDataEffect
  <2>f. PICK f \in Flows : f = job[p].flow
    BY <2>1 DEF SaveDataMove
  <2>2. /\ pc'[p] = "remove nodes" /\ UNCHANGED <<job, at, hook>>
        /\ \A q \in Editors \ {p} : pc'[q] = pc[q]
        /\ \A g \in Flows : /\ workflow'[g].exists = workflow[g].exists
                            /\ workflow'[g].delete = workflow[g].delete
        /\ edits'[f] = edits[f] + 1
        /\ \A g \in Flows \ {f} : last'[g] = last[g] /\ edits'[g] = edits[g]
        /\ disturbed \ {f} \subseteq disturbed'
    BY <2>1, <2>f DEF SaveDataMove, Begin, TypeOK
  <2>3. Saving(f)' /\ \A g \in Flows : Saving(g)' => g = f \/ Saving(g)
    BY <1>w, <2>f, <2>2 DEF Saving
  <2>4. \A g \in Flows :
              /\ edits'[g] >= edits[g]
              /\ Saving(g)' => edits'[g] > 0 /\ (Saving(g) \/ edits'[g] > edits[g])
    <3>1. edits'[f] = edits[f] + 1 /\ \A g \in Flows \ {f} : edits'[g] = edits[g]
      BY <2>2
    <3>2. TAKE g \in Flows
    <3>3. CASE g = f
      BY <1>e, <3>1, <3>3
    <3>4. CASE g # f
      BY <1>e, <1>s, <2>3, <3>1, <3>4
    <3> QED
      BY <3>3, <3>4
  <2> QED
    BY <2>2, <2>3, <2>4, HooksKept
<1>4. ASSUME NEW p \in Editors,
             UpdateWorkflow(p) \/ UpdateWorkflowActivation(p) \/ AskDelete(p)
      PROVE  HooksOK'
  <2>1. PICK f \in Flows, j \in JobRow,
             step \in {"row", "deactivate", "activate", "delete"} : UpdateMove(p, f, j, step)
    BY <1>4, UpdateEffect
  <2>2. pc'[p] \notin Writing /\ \A q \in Editors \ {p} : pc'[q] = pc[q] /\ job'[q] = job[q]
    BY <1>w, <2>1 DEF UpdateMove, TypeOK
  <2>3. \A g \in Flows : Saving(g)' => Saving(g)
    BY <2>2 DEF Saving
  <2> QED
    BY <1>1, <2>1, <2>3 DEF UpdateMove, history
(* Within a save the request keeps saving the same workflow or stops.      *)
<1>5. ASSUME NEW p \in Editors, \A q \in Editors \ {p} : pc'[q] = pc[q] /\ job'[q] = job[q],
             pc'[p] \in Writing => pc[p] \in Writing /\ job'[p].flow = job[p].flow
      PROVE  \A f \in Flows : Saving(f)' => Saving(f)
  BY <1>5 DEF Saving
<1>6. ASSUME NEW p \in Editors, RemoveAllNode(p) \/ NodesSaved(p) PROVE HooksOK'
  <2>1. /\ pc[p] \in Writing /\ \A q \in Editors \ {p} : pc'[q] = pc[q]
        /\ UNCHANGED <<workflow, job, at, hook, edits, last, disturbed>>
    BY <1>w, <1>6 DEF RemoveAllNode, NodesSaved, Goto, TypeOK, hooks, history
  <2> QED
    BY <1>1, <1>5, <2>1
<1>7. ASSUME NEW p \in Editors, RemoveAllEdge(p) PROVE HooksOK'
  <2>1. PICK j \in JobRow : RemoveEdgeMove(p, j)
    BY <1>7, RemoveEdgeEffect
  <2>2. /\ pc[p] \in Writing /\ job'[p].flow = job[p].flow
        /\ \A q \in Editors \ {p} : pc'[q] = pc[q] /\ job'[q] = job[q]
    BY <1>w, <2>1 DEF RemoveEdgeMove, TypeOK
  <2> QED
    BY <1>1, <1>5, <2>1, <2>2 DEF RemoveEdgeMove, history
<1>8. ASSUME NEW p \in Editors, SaveWorkflowNode(p) PROVE HooksOK'
  <2>1. PICK n \in job[p].nodes, j \in JobRow : SaveNodeMove(p, n, j)
    BY <1>8, SaveNodeEffect
  <2>2. /\ pc[p] \in Writing /\ job'[p].flow = job[p].flow
        /\ \A q \in Editors \ {p} : pc'[q] = pc[q] /\ job'[q] = job[q]
    BY <1>w, <2>1 DEF SaveNodeMove, TypeOK
  <2> QED
    BY <1>1, <1>5, <2>1, <2>2 DEF SaveNodeMove
<1>9. ASSUME NEW p \in Editors, SaveWorkflowEdge(p) PROVE HooksOK'
  <2>1. PICK e \in job[p].edges, j \in JobRow : SaveEdgeMove(p, e, j)
    BY <1>9, SaveEdgeEffect
  <2>2. /\ pc[p] \in Writing /\ job'[p].flow = job[p].flow
        /\ \A q \in Editors \ {p} : pc'[q] = pc[q] /\ job'[q] = job[q]
    BY <1>w, <2>1 DEF SaveEdgeMove, TypeOK
  <2> QED
    BY <1>1, <1>5, <2>1, <2>2 DEF SaveEdgeMove
<1>10. ASSUME NEW p \in Editors, UpsertFails(p) PROVE HooksOK'
  <2>1. PICK j \in JobRow : UpsertFailsMove(p, j)
    BY <1>10, UpsertFailsEffect
  <2>2. /\ pc[p] \in Writing /\ job'[p].flow = job[p].flow
        /\ \A q \in Editors \ {p} : pc'[q] = pc[q] /\ job'[q] = job[q]
    BY <1>w, <2>1 DEF UpsertFailsMove, TypeOK
  <2> QED
    BY <1>1, <1>5, <2>1, <2>2 DEF UpsertFailsMove
<1>11. ASSUME NEW p \in Editors, Leave(p)
       PROVE  \A f \in Flows : Saving(f)' => Saving(f)
  <2>1. pc'[p] = "idle" /\ \A q \in Editors \ {p} : pc'[q] = pc[q] /\ job'[q] = job[q]
    BY <1>11 DEF Leave, TypeOK
  <2> QED
    BY <1>w, <1>5, <2>1
<1>12. ASSUME NEW p \in Editors, Saved(p) \/ RequestFails(p) PROVE HooksOK'
  <2>1. /\ Leave(p) /\ UNCHANGED <<workflow, at, hook, edits, last>>
        /\ disturbed \subseteq disturbed'
    BY <1>12 DEF Saved, RequestFails, hooks, history
  <2> QED
    BY <1>1, <1>11, <2>1
<1>13. ASSUME NEW p \in Editors, DeactivateAllWorkflow(p) PROVE HooksOK'
  <2>1. PICK j \in JobRow : DeactivateMove(p, j)
    BY <1>13, DeactivateEffect
  <2>2. /\ pc'[p] \notin Writing
        /\ \A q \in Editors \ {p} : pc'[q] = pc[q] /\ job'[q] = job[q]
    BY <1>w, <2>1 DEF DeactivateMove, TypeOK
  <2> QED
    BY <1>1, <1>5, <2>1, <2>2 DEF DeactivateMove, history
<1>14. ASSUME NEW p \in Editors, UpdateActivation(p) PROVE HooksOK'
  <2>1. PICK w \in WorkflowRow : ActivationMove(p, w)
    BY <1>14, ActivationEffect
  <2>2. \A f \in Flows : /\ workflow'[f].exists = workflow[f].exists
                         /\ workflow'[f].delete = workflow[f].delete
    BY <2>1 DEF ActivationMove, TypeOK
  <2> QED
    BY <1>1, <1>11, <2>1, <2>2 DEF ActivationMove
<1>15. ASSUME NEW p \in Editors, DeleteWorkflow(p) PROVE HooksOK'
  <2>1. PICK w \in WorkflowRow : DeleteMove(p, w)
    BY <1>15, DeleteEffect
  <2>2. \A f \in Flows : /\ workflow'[f].exists = workflow[f].exists
                         /\ workflow[f].delete => workflow'[f].delete
    BY <2>1 DEF DeleteMove, TypeOK
  <2> QED
    BY <1>1, <1>11, <2>1, <2>2 DEF DeleteMove, history
(* The process ends, and no hook is left.                                  *)
<1>16. CASE Crash
  <2>1. /\ \A q \in Editors : pc'[q] = "idle"
        /\ \A h \in Hooks : hook'[h].flow = None
    BY <1>16, EmptyRecords DEF Crash
  <2>2. \A f \in Flows : ~Saving(f)'
    BY <1>w, <2>1 DEF Saving
  <2> QED
    BY <2>1, <2>2, NoneAssumption DEF HooksOK
<1>17. CASE UNCHANGED <<workflow, pc, job, at, hook, edits, last, disturbed>>
  <2>1. \A f \in Flows : Saving(f)' => Saving(f)
    BY <1>17 DEF Saving
  <2> QED
    BY <1>1, <1>17, <2>1
<1> QED
  BY <1>h, <1>2, <1>3, <1>4, <1>6, <1>7, <1>8, <1>9, <1>10, <1>12,
     <1>13, <1>14, <1>15, <1>16, <1>17 DEF Next, Edit, Manage, vars, hooks, history
-----------------------------------------------------------------------------
LEMMA Inductive ==
    /\ Init => IInv
    /\ IInv /\ [Next]_vars => IInv'
<1>1. Init => IInv
  BY TypeInit, RowsInit, SavesInit, ActiveInit, HooksInit DEF IInv, ActiveOK
<1>2. ASSUME IInv, [Next]_vars PROVE IInv'
  <2>1. TypeOK /\ RowsOK /\ SavesOK /\ ActiveOK /\ HooksOK
    BY <1>2 DEF IInv, ActiveOK
  <2>2. TypeOK'
    BY <1>2, <2>1, TypeStep
  <2>3. RowsOK' /\ SavesOK' /\ ActiveOK' /\ HooksOK'
    BY <1>2, <2>1, <2>2, RowsStep, SavesStep, ActiveStep, HooksStep
  <2> QED
    BY <2>2, <2>3 DEF IInv, ActiveOK
<1> QED
  BY <1>1, <1>2

(* Rows, requests and hooks are what the queries take them for.            *)
THEOREM TypeCorrect == Spec => []TypeOK
<1>1. IInv => TypeOK
  BY DEF IInv
<1> QED
  BY <1>1, Inductive, PTL DEF Spec

(* However saves, failures and crashes interleave, what is stored of a     *)
(* workflow is the drawing that was saved last, unless one of the named    *)
(* disturbances met it.                                                    *)
THEOREM GraphIsKept == Spec => []GraphKept
<1>1. IInv => GraphKept
  <2>1. SUFFICES ASSUME IInv PROVE GraphKept
    OBVIOUS
  <2>2. TypeOK /\ SavesOK
    BY <2>1 DEF IInv
  <2>3. ASSUME NEW f \in Flows \ disturbed, workflow[f].exists, ~Saving(f)
        PROVE  /\ NodesOf(f) = last[f].nodes
               /\ EdgesOf(f) = DOMAIN last[f].edges
               /\ \A e \in EdgesOf(f) :
                     <<edge[e].source, edge[e].target>> = last[f].edges[e]
    <3>1. /\ NodesOf(f) = last[f].nodes /\ EdgesOf(f) = DOMAIN last[f].edges
          /\ \A e \in EdgesOf(f) : /\ edge[e].source = last[f].edges[e][1]
                                   /\ edge[e].target = last[f].edges[e][2]
      BY <2>2, <2>3, StoredIsDrawn
    <3>2. ASSUME NEW e \in EdgesOf(f)
          PROVE  <<edge[e].source, edge[e].target>> = last[f].edges[e]
      <4>1. last[f] \in Drawings \union {NoDrawing} /\ e \in DOMAIN last[f].edges
        BY <2>2, <3>1 DEF TypeOK
      <4>2. last[f].edges[e] \in Nodes \X Nodes
        BY <4>1, EmptyRecords, DrawingAssumption
      <4> QED
        BY <3>1, <4>2
    <3> QED
      BY <3>1, <3>2
  <2> QED
    BY <2>2, <2>3 DEF GraphKept, GraphIsLastDrawing
<1> QED
  BY <1>1, Inductive, PTL DEF Spec

(* Two workflows of a type are active only after an activation that had    *)
(* cleared the type too early, or a change of type.                        *)
THEOREM TwoActiveHaveACause == Spec => []TwoActiveExplained
<1>1. IInv => TwoActiveExplained
  BY DEF IInv
<1> QED
  BY <1>1, Inductive, PTL DEF Spec

(* A hook whose workflow nothing moved answers as the drawing says,        *)
(* however its queries interleave with the saves of other workflows.       *)
THEOREM HooksFollowDrawings == Spec => []HookFollowsDrawing
<1>1. IInv => HookFollowsDrawing
  BY DEF IInv, HooksOK, HookOK, Follows, HookFollowsDrawing
<1> QED
  BY <1>1, Inductive, PTL DEF Spec
=============================================================================
