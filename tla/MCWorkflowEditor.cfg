CONSTANTS
    p1 = p1
    p2 = p2
    h1 = h1
    f1 = f1
    f2 = f2
    t1 = t1
    t2 = t2
    n1 = n1
    n2 = n2
    n3 = n3
    e1 = e1
    e2 = e2
    None = None
    Editors <- MCEditors
    Hooks <- MCHooks
    Flows <- MCFlows
    Tabs <- MCTabs
    Types <- MCTypes
    Nodes <- MCNodes
    EdgeIds <- MCEdgeIds
    Drawings <- MCDrawings
    Receive <- MCReceive
    MaxActivations = 2
    MaxEdits = 3
SPECIFICATION SceneSpec
INVARIANTS
    GraphKept
    TwoActiveExplained
    HookFollowsDrawing
SYMMETRY MCSymmetry
