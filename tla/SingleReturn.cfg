SPECIFICATION Spec
CONSTANTS
    p1 = p1
    p2 = p2
    b1 = b1
    m1 = m1
    nobody = nobody
    Procs = {p1, p2}
    Nobody = nobody
    Books = {b1}
    Copies = {1}
    Members = {m1}
    Waiters = {}
    AskedDurations = {}
    MaxTime = 2
    MaxRequests = 3
    BookOf <- OneBook
    LoanDuration <- OneTick
    MaxRenewals <- RenewOnce
CHECK_DEADLOCK FALSE
PROPERTY SingleReturn
