SPECIFICATION Spec
CONSTANTS
    rv = rv  web = web  p1 = p1  p2 = p2
    Callers = {rv, web}
    Pids = {p1, p2}
    None = None
SYMMETRY Symmetry
INVARIANTS
    TypeOK
    Recorded
    StopStops
PROPERTIES
    AsCreated
