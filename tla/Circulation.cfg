SPECIFICATION Spec
CONSTANTS
    p1 = p1
    p2 = p2
    q1 = q1
    q2 = q2
    b1 = b1
    m1 = m1
    m2 = m2
    nobody = nobody
    DeskProcs = {p1, p2}
    QueueProcs = {q1, q2}
    Nobody = nobody
    Books = {b1}
    Copies = {1}
    Members = {m1, m2}
    AskedDurations = {}
    MaxTime = 2
    MaxDeskRequests = 2
    MaxAttempts = 2
    MaxQueueRequests = 3
    BookOf <- OneBook
    LoanDuration <- OneTick
    MaxRenewals <- RenewOnce
SYMMETRY ProcsAlike
CHECK_DEADLOCK FALSE
INVARIANT AnnouncedOnce
PROPERTIES
    DeskImplemented
    ReservationMovesLegal
