\* The portal's Next after a search by type.
SPECIFICATION Spec
CONSTANTS
    Null = Null
    Empty = Empty
    NotFinite = NotFinite
    Faculties = {"f1", "f2"}
    Departments = {"math", "law"}
    Dates = {0, 1}
    Years = {1999, 2026}
    YearText <- MCYearText
    parseInt <- MCParseInt
    CreatedYear = 2026
    Licenses <- MCLicenses
    DayLength = 2
    MaxPageSize = 2
    DefaultPageSize = 2
    Stock <- MCStock
    Inputs <- MCInputs
    MaxRows = 3
    MaxTime = 2
    MaxPages = 3
INVARIANT LinkKeepsSearch
