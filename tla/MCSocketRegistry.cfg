CONSTANTS
    alice = alice
    bob = bob
    s1 = s1
    s2 = s2
    s3 = s3
    b1 = b1
    ann = ann
    joe = joe
    p1 = p1
    p2 = p2
    NoSocket = NoSocket
    Users <- MCUsers
    Sockets <- MCSockets
    Owner <- MCOwner
    MaxAttempt = 1
    MaxNotifications = 0
    MaxCrashes = 0
    People <- MCPeople
    PageRows <- MCPageRows
    Times <- MCTimes
    Size = 1
    MaxMessages = 3
    MaxUnsent = 1
SPECIFICATION SceneSpec
INVARIANTS
    DeadRegistrationExplained
    RegistrationsKept
    PagesAreExact
    ListIsComplete
SYMMETRY MCSymmetry
