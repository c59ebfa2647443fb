SPECIFICATION UploadSpec
CONSTANTS
    p1 = p1
    p2 = p2
    s1 = s1
    t1 = t1
    c1 = c1
    g1 = g1
    g2 = g2
    NoFile = NoFile
    NoCall = NoCall
    Procs = {p1, p2}
    Students = {s1}
    Staff = {t1}
    Contents = {c1}
    Pages = {g1, g2}
    UrlLife = 1
    MaxSubmissions = 1
    MaxTime = 1
    MaxRequests = 4
    MaxRuns = 2
SYMMETRY Alike
CHECK_DEADLOCK FALSE
INVARIANTS
    UploadTypeOK
    SubmittedHasFile
    ConfirmNamesStored
