SPECIFICATION FairSpec
CONSTANTS
    Handlers = {h1, h2}
    Customers = {c1}
    Tabs = {t1}
    Types = {"Message", "Comment"}
    Agents = {a1}
    NoAgent = NoAgent
    Pausable = {}
    MaxMessages = 2
    MaxEntries = 1
PROPERTIES
    StoppedConversationsClear
