SPECIFICATION Spec
CONSTANTS
    w1 = w1
    w2 = w2
    c1 = c1
    Workflow = {w1, w2}
    Scanner = {c1}
    Extra = {}
    Minute = 1
    Config = {1, 2}
    Default = 2
    Longest = 2
    Horizon = 5
    Patience = 0
    MaxRuns = 5
    MaxEdits = 1
    MaxFaults = 0
SYMMETRY ScansAndWorkflows
INVARIANTS
    NeverLate
CHECK_DEADLOCK FALSE
