SPECIFICATION Spec
CONSTANTS
    p1 = p1
    p2 = p2
    r1 = r1
    m1 = m1
    Procs = {p1, p2}
    Resources = {r1}
    Members = {m1}
    MaxAttempts = 5
    MaxRequests = 3
CHECK_DEADLOCK FALSE
PROPERTY PositionFreeToReuse
