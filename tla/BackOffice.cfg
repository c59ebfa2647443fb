\* Two librarians and three changes of one request, one notification, one crash, two fines.
SPECIFICATION Spec
CONSTANTS
    Ids = {r1}
    Librarians = {l1, l2}
    NoRow = NoRow
    MaxChanges = 3
    Events = {overdue}
    Policies <- MCPolicies
    NoLimit = NoLimit
    DayTicks = 2
    Lateness = {1, 3, 4, 8, 9}
    MaxFines = 2
    MaxCrashes = 1
INVARIANTS IllegalOnlyByRace TrailAccounts LogTellsTruth FinesFair
PROPERTY NothingVanishes
CONSTRAINT FinesByThemselves
CHECK_DEADLOCK FALSE
