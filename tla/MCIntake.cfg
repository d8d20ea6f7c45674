SPECIFICATION SceneSpec
CONSTANTS
    c1 = c1
    c2 = c2
    c3 = c3
    owner = owner
    other = other
    page1 = page1
    k1 = k1
    k2 = k2
    customer = customer
    page = page
    post = post
    e1 = e1
    e2 = e2
    e3 = e3
    e4 = e4
    NoParent = NoParent
    Clients <- MCClients
    Events <- MCEvents
    Users <- MCUsers
    Managers <- MCManagers
    Pages <- MCPages
    Keys <- MCKeys
    Kinds <- MCKinds
    MaxNetworks = 2
    MaxToggles = 4
    MaxMessages = 3
    MaxUpdates = 1
    MaxCrashes = 1
    MaxRedeliveries = 1
SYMMETRY MCSymmetry
INVARIANTS
    ConnectionsWholeUnlessTorn
    LateEffectsBounded
    SendersKept
