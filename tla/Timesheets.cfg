SPECIFICATION Spec
CONSTANTS
    r1 = r1
    r2 = r2
    e1 = e1
    e2 = e2
    s1 = s1
    t1 = t1
    Nil = Nil
    Request = {r1, r2}
    Entry = {e1, e2}
    Sheet = {s1}
    Task = {t1}
    Minutes = {1}
    MaxTimers = 2
SYMMETRY RowsAndRequests
INVARIANTS
    TypeOK
    SheetsAgree
    TimersEndOnce
    ActualMinutes
