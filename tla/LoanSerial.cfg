SPECIFICATION SerialSpec
CONSTANTS
    p1 = p1
    p2 = p2
    b1 = b1
    m1 = m1
    m2 = m2
    nobody = nobody
    Procs = {p1, p2}
    Nobody = nobody
    Books = {b1}
    Copies = {1, 2}
    Members = {m1, m2}
    Waiters = {m2}
    AskedDurations = {2}
    MaxTime = 3
    MaxRequests = 4
    BookOf <- OneBook
    LoanDuration <- OneTick
    MaxRenewals <- RenewOnce
SYMMETRY ProcsAlike
CHECK_DEADLOCK FALSE
INVARIANTS
    RenewalCap
    OverdueIsLate
    EachNoticeOnce
PROPERTIES
    LoanMovesLegal
    ImplementsDesk
