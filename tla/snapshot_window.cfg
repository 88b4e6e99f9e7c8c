SPECIFICATION Spec
CONSTANTS
    p1 = p1  p2 = p2
    Pages = {p1, p2}
    MaxPages = 1
    Absent = absent
    MaxWrites = 2
INVARIANTS
    TypeOK
    WindowPaused
    OneInstant
    NotLeftPaused
