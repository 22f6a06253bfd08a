SPECIFICATION Spec
CONSTANTS
    a1 = a1
    d1 = d1
    r1 = r1
    r2 = r2
    r3 = r3
    Nil = Nil
    Approval = {a1}
    Definition = {d1}
    Order = {1, 2}
    Templates <- StepLists
    Request = {r1, r2, r3}
SYMMETRY Requests
INVARIANTS
    TypeOK
    DecidedOnGrounds
    StatusMatchesSteps
