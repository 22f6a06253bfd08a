SPECIFICATION FairSpec
CONSTANTS
    x1 = x1
    c1 = c1
    c2 = c2
    r1 = r1
    r2 = r2
    Nil = Nil
    Reminder = {x1}
    Scanner = {c1, c2}
    Request = {r1}
    MaxAttempts = 2
    Limit = 3
    ByHand = {"PENDING"}
    MaxEdits = 3
    MaxFaults = 1
INVARIANTS
    TypeOK
    AttemptsBounded
    GivenUpLate
    NoneForgotten
PROPERTIES
    JobsSettle
CHECK_DEADLOCK FALSE
