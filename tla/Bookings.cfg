SPECIFICATION Spec
CONSTANTS
    b1 = b1
    b2 = b2
    r1 = r1
    r2 = r2
    h1 = h1
    h2 = h2
    p1 = p1
    Nobody = Nobody
    Booking = {b1, b2}
    Request = {r1, r2}
    Host = {h1, h2}
    Page = {p1}
    Time = {0, 1, 2}
    Hours <- OpenHours
    Moves <- Elsewhere
    Length <- One
    Before <- One
    After <- Zero
    Limit <- Limits
    Span <- Spans
    MaxEdits = 1
SYMMETRY Alike
CONSTRAINT SecondHostLater
INVARIANTS
    TypeOK
    NoDoubleBooking
    LimitKept
    RowsAgree
CHECK_DEADLOCK FALSE
