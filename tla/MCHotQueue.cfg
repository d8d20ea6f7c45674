SPECIFICATION SceneSpec
CONSTANTS
    Handlers = {h1, h2}
    Customers = {c1}
    Tabs = {t1}
    Types = {"Message", "Comment"}
    Agents = {a1}
    NoAgent = NoAgent
    Pausable = {t1}
    f1 = f1
    f2 = f2
    None = None
    Hooks = {h1, h2}
    Flows = {f1, f2}
    Graph <- MCGraph
    MaxCallbacks = 2
    MaxSwitches = 2
    MaxMessages = 2
    MaxEntries = 2
SYMMETRY SlotSymmetry
INVARIANTS
    TypeOK
    HookSnapshot
    DuplicatesOnlyFromRacingHooks
    DeskComplete
    OrphansExplained
    FieldsReachTheServices
    CallbacksFindTheirRow
