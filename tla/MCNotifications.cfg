CONSTANTS
    alice = alice
    s1 = s1
    s2 = s2
    NoSocket = NoSocket
    Users <- MCUsers
    Sockets <- MCSockets
    Owner <- MCOwner
    MaxAttempt = 2
    MaxNotifications = 1
    MaxCrashes = 1
    People = {}
    PageRows = {page}
    Times = {}
    Size = 1
    MaxMessages = 0
    MaxUnsent = 0
SPECIFICATION PushSpec
INVARIANTS
    PushesBounded
    ChainUnbroken
PROPERTIES
    EveryNotificationSettles
    ReachableUsersAreNotified
