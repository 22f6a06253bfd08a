SPECIFICATION Spec
CONSTANTS
    w1 = w1
    c1 = c1
    c2 = c2
    Workflow = {w1}
    Scanner = {c1, c2}
    Extra = {w1}
    Minute = 1
    Config = {0, 9}
    Default = 2
    Longest = 3
    Horizon = 3
    Patience = 1
    MaxRuns = 3
    MaxEdits = 1
    MaxFaults = 1
SYMMETRY ScansAndWorkflows
INVARIANTS
    TypeOK
    OneRunPerSlot
    RunsSpaced
CHECK_DEADLOCK FALSE
