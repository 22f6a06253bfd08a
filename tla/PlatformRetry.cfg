SPECIFICATION SiteSpec
CONSTANTS
    w1 = w1
    h1 = h1
    s1 = s1
    c1 = c1
    NoKey = NoKey
    Nil = Nil
    Workflow = {w1}
    Key = {}
    Handler = {h1}
    Slot = {s1}
    Console = {c1}
    MaxRuns = 1
    MaxJobs = 1
    MaxNodes = 0
    NodeLists <- NoNodes
    Attempts = 1
    MaxStalled = 0
    MaxGrants = 1
    MaxFaults = 0
PROPERTIES
    SiteRetryExecutes
