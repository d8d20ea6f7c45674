CONSTANTS
    h1 = h1
    h2 = h2
    ann = ann
    bob = bob
    Bob = Bob
    NoEmail = NoEmail
    Handlers <- MCHandlers
    Emails <- MCEmails
    Kinds <- MCKinds
    Lower <- MCLower
    MaxUsers = 4
    MaxWrites = 4
SPECIFICATION SceneSpec
INVARIANTS
    SameAddressOnlyFromRaces
    AccountsKept
    NobodyBarredLogsIn
SYMMETRY MCSymmetry
