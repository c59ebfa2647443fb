SPECIFICATION FairSpec
CONSTANTS
    p1 = p1
    p2 = p2
    p3 = p3
    b1 = b1
    m1 = m1
    nobody = nobody
    Procs = {p1, p2, p3}
    Nobody = nobody
    Books = {b1}
    Copies = {1, 2}
    Members = {m1}
    Waiters = {}
    AskedDurations = {}
    MaxTime = 2
    MaxRequests = 4
    BookOf <- OneBook
    LoanDuration <- OneTick
    MaxRenewals <- RenewOnce
CHECK_DEADLOCK FALSE
INVARIANTS
    TypeOK
    BorrowerHoldsCopy
    OnLoanBacked
    NoWaitCycle
PROPERTIES
    LentFromShelf
    ReturnOnReadVersion
    RequestsFinish
