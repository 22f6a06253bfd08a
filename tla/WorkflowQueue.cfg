SPECIFICATION FairSpec
CONSTANTS
    w1 = w1
    w2 = w2
    h1 = h1
    h2 = h2
    s1 = s1
    s2 = s2
    k1 = k1
    NoKey = NoKey
    Nil = Nil
    Workflow = {w1}
    Key = {}
    Handler = {h1}
    Slot = {s1, s2}
    MaxRuns = 1
    MaxJobs = 2
    MaxNodes = 0
    NodeLists <- NoNodes
    Attempts = 2
    MaxStalled = 1
    MaxGrants = 2
    MaxFaults = 1
INVARIANTS
    NoneForgotten
    ExecutionsGranted
    LocksMatch
PROPERTIES
    RunsRefineLifecycle
    JobsSettle
    RunsSettle
