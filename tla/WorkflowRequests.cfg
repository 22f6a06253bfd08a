SPECIFICATION Spec
CONSTANTS
    w1 = w1
    w2 = w2
    h1 = h1
    h2 = h2
    s1 = s1
    s2 = s2
    k1 = k1
    NoKey = NoKey
    Nil = Nil
    Workflow = {w1, w2}
    Key = {k1}
    Handler = {h1, h2}
    Slot = {s1}
    MaxRuns = 2
    MaxJobs = 1
    MaxNodes = 2
    NodeLists <- ShortLists
    Attempts = 1
    MaxStalled = 0
    MaxGrants = 1
    MaxFaults = 0
SYMMETRY RequestsAndWorkflows
CONSTRAINT NodesOrRuns
INVARIANTS
    TypeOK
    OnlyStopNodesFail
    IdempotentKeys
    RunsHaveWorkflow
