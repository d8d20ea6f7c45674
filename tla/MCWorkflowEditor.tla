-------------------------- MODULE MCWorkflowEditor --------------------------
(* Two workflows and drawings over three nodes: a flow that answers, one   *)
(* that is redrawn with the edge elsewhere, and one without an edge.       *)
EXTENDS WorkflowEditor, TLC

CONSTANTS p1, p2, h1, f1, f2, t1, t2, n1, n2, n3, e1, e2

MCEditors == {p1, p2}
MCHooks == {h1}
MCFlows == {f1, f2}
MCTabs == {t1, t2}
MCTypes == {"Message", "Comment"}
MCNodes == {n1, n2, n3}
MCEdgeIds == {e1, e2}
MCReceive == {n1}
MCGraphs == {[nodes |-> {n1, n2}, edges |-> e1 :> <<n1, n2>>],
             [nodes |-> {n1, n3}, edges |-> e2 :> <<n1, n3>>]}
MCDrawings == MCGraphs \union {NoDrawing}
MCSymmetry == Permutations(MCEditors) \union Permutations(MCFlows)
                  \union Permutations(MCTabs)

(* The scene is set at the start: three drawings that nobody activates,    *)
(* two drawings and an activation under a hook that starts when something  *)
(* is active or nothing is drawn yet, or activations of workflows without  *)
(* a graph on two tabs and of two types.                                   *)
VARIABLE scene

TabsUsed == {workflow[f].tab : f \in Flows} \union {job[p].tab : p \in Editors}
                \union {hook[h].tab : h \in Hooks}
TypesUsed == {workflow[f].type : f \in Flows} \union {job[p].type : p \in Editors}
                 \union {hook[h].type : h \in Hooks}
Graphs == {last[f] : f \in {g \in Flows : workflow[g].exists}}
              \union {job[p].drawing : p \in {q \in Editors : pc[q] = "row"}}
Saves == FoldFunction(LAMBDA a, b : a + b, 0, edits) + Drawn
Activations == activations + Cardinality({p \in Editors : job[p].activate})
OneOfEach == /\ \A t, u \in TabsUsed \ {None} : t = u
             /\ TypesUsed \subseteq {None, "Message"}
             /\ NoDrawing \notin Graphs

Within ==
    CASE scene = "draw" -> OneOfEach /\ Activations = 0 /\ \A h \in Hooks : at[h] = "idle"
      [] scene = "hook" -> /\ OneOfEach /\ Activations <= 1 /\ Saves <= 2
                           /\ \A h \in Hooks : at[h] # "idle" =>
                                 Saves = 0 \/ \E f \in Flows : workflow[f].isActive
      [] scene = "activate" -> Graphs \subseteq {NoDrawing} /\ \A h \in Hooks : at[h] = "idle"

SceneInit == Init /\ scene \in {"draw", "hook", "activate"}
SceneNext == Next /\ UNCHANGED scene /\ Within'
SceneSpec == SceneInit /\ [][SceneNext]_<<vars, scene>>
=============================================================================
