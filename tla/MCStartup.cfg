CONSTANTS
    s1 = s1
    admin = admin
    manager = manager
    supporter = supporter
    p1 = p1
    p2 = p2
    h1 = h1
    h2 = h2
    Settings <- MCOneSetting
    Roles <- MCRoles
    Permissions <- MCPermissions
    Administrator = admin
    ManagerRole = manager
    SupporterRole = supporter
    Slots <- MCSlots
    MaxCrashes = 2
    MaxRequests = 2
SPECIFICATION Spec
INVARIANTS
    NothingMissingUnlessTorn
    LastRequestDecides
PROPERTIES
    SeedsOnceAndInOrder
