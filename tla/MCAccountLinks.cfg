CONSTANTS
    h1 = h1
    h2 = h2
    u1 = u1
    u2 = u2
    ann = ann
    bob = bob
    None = None
    NoEmail = NoEmail
    Handlers <- MCHandlers
    Users <- MCUsers
    Emails <- MCEmails
    Lower <- MCLower
    Kinds = {}
    MaxUsers = 2
    MaxWrites = 2
    Hour = 1
    SignatureLife = 3
    MaxTokens = 1
    MaxTime = 3
    MaxChanges = 1
SPECIFICATION LinksSpec
INVARIANTS
    LinksDie
    ActiveMeansConfirmed
SYMMETRY MCSymmetry
