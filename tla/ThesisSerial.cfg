SPECIFICATION SerialSpec
CONSTANTS
    p1 = p1
    p2 = p2
    s1 = s1
    t1 = t1
    c1 = c1
    NoFile = NoFile
    Procs = {p1, p2}
    Students = {s1}
    Staff = {t1}
    Contents = {c1}
    UrlLife = 1
    MaxSubmissions = 2
    MaxTime = 2
    MaxRequests = 6
SYMMETRY ProcsAlike
CHECK_DEADLOCK FALSE
INVARIANT
    TypeOK
PROPERTIES
    ImplementsReview
    UploadWindow
