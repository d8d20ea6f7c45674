SPECIFICATION SceneSpec
CONSTANTS
    m1 = m1
    m2 = m2
    f1 = f1
    f2 = f2
    Mails <- MCMails
    Files <- MCFiles
    Sheets <- MCSheets
    MaxRetry = 3
    Repeats = 1
    MaxCrashes = 3
INVARIANTS
    DeliveriesExplained
    ImportsExplained
PROPERTIES
    ImplementsQueue
    ImportImplementsQueue
    EveryJobSettles
