\* Two tabs, two copies, one login, one hold; three loans and two moves by others,
\* so that copy 1 can go, come back and be lent in place of the copy 2 a page shows.
SPECIFICATION Spec
CONSTANTS
    Tabs = {t1, t2}
    Copies = {1, 2}
    None = None
    MaxMoves = 2
    MaxLoans = 3
    MaxHolds = 1
    MaxLogins = 1
SYMMETRY TabSymmetry
CONSTRAINT OneMatterAtATime
INVARIANTS LentAsShown ResubmitRefused RefusedOnlyAfterRace
