CONSTANTS
    u1 = u1
    u2 = u2
    t1 = t1
    t2 = t2
    p1 = p1
    p2 = p2
    NoUser = NoUser
    NoTab = NoTab
    Handlers <- MCTwoHandlers
    Users <- MCUsers
    Tabs <- MCTabs
    MaxRows = 3
    MaxPromotions = 3
    Times = {0}
    HoursPerDay = 1
    Local <- MCCalendar
    Joined = {}
    Charts = {}
    MaxComments = 0
    MaxMessages = 0
    MaxHot = 0
SPECIFICATION SceneSpec
INVARIANTS
    TwoManagersOnlyFromRacingHandOvers
    VacancyExplained
    DuplicatesOnlyFromRacingAssigns
SYMMETRY MCSymmetry
