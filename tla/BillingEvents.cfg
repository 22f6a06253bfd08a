SPECIFICATION FairSpec
CONSTANTS
    k1 = k1
    k2 = k2
    k3 = k3
    s1 = s1
    h1 = h1
    h2 = h2
    Nil = Nil
    Key = {k1, k2, k3}
    SubId = {s1}
    Event <- Events
    Handler = {h1, h2}
    ByHand = {"CANCELLED"}
    MaxEdits = 1
    MaxFaults = 1
INVARIANTS
    TypeOK
    AppliedOnce
    Accounted
    TenantFollows
PROPERTIES
    EventsSettle
CHECK_DEADLOCK FALSE
