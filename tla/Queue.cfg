SPECIFICATION Spec
CONSTANTS
    p1 = p1
    p2 = p2
    p3 = p3
    r1 = r1
    r2 = r2
    m1 = m1
    Procs = {p1, p2, p3}
    Resources = {r1, r2}
    Members = {m1}
    MaxAttempts = 3
    MaxRequests = 6
SYMMETRY ProcsAlike
CHECK_DEADLOCK FALSE
INVARIANTS
    TypeOK
    ArrivalOrder
    RetriesHaveRivals
