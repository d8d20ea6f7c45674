SPECIFICATION SceneSpec
CONSTANTS
    t1 = t1
    t2 = t2
    Tabs <- MCTabs
    Times <- MCTimes
    Joined <- MCJoined
    HoursPerDay = 2
    Local <- MCCalendar
    Charts <- MCCharts
    MaxComments = 2
    MaxMessages = 1
    MaxHot = 2
    Handlers = {}
    Users = {}
    NoUser = NoUser
    NoTab = NoTab
    MaxRows = 0
    MaxPromotions = 0
INVARIANTS
    ChartsCountTheirRange
    ShareIsAPart
