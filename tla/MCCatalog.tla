------------------------------- MODULE MCCatalog -------------------------------
(* Three resources out of seven, two days, and searches that page by one.  *)
EXTENDS CatalogSearch, TLC

Resource(type, department, contains, detail) ==
    [resourceType |-> type, department |-> department, contains |-> contains, detail |-> detail]

MCStock ==
    {Resource("PHYSICAL_BOOK", "math", "ranked", [publicationYear |-> 1999]),
     Resource("THESIS", Null, "unranked", [degreeType |-> "PHD", embargoUntil |-> 1]),
     Resource("THESIS", "math", "nowhere", [degreeType |-> "MASTER", embargoUntil |-> Empty]),
     Resource("JOURNAL_ARTICLE", "law", "unranked", [licenseId |-> 1]),
     Resource("RESEARCH_REPORT", "law", "ranked", [departmentScope |-> "f1", reportYear |-> Null]),
     Resource("RESEARCH_REPORT", Empty, "nowhere", [departmentScope |-> Empty, reportYear |-> 1999]),
     Resource("RARE_MATERIAL", "math", "nowhere", [readingRoomOnly |-> Null])}

MCLicenses == (1 :> [startsAt |-> 0, expiresAt |-> 0, facultyScopes |-> {"f1"}])

MCYearText == (1999 :> "1999") @@ (2026 :> "2026")
MCParseInt == ("1999" :> 1999) @@ ("2026" :> 2026) @@ ("2026x" :> 2026) @@ ("recent" :> Null)

PortalInput(q, type, department, page, size) ==
    [via |-> "portal", q |-> q, page |-> page, size |-> size,
     filters |-> [RESOURCE_TYPE |-> type, DEPARTMENT |-> department]]

ApiInput(dimension, value, page, size) ==
    [via |-> "api", q |-> Null, page |-> page, size |-> size,
     filters |-> [d \in FacetDimension |-> IF d = dimension THEN value ELSE Null]]

MCInputs ==
    {PortalInput("word", Null, Empty, Null, 1),
     PortalInput(Empty, "THESIS", Null, 1, 1),
     PortalInput(Null, Null, "math", -1, -1),
     PortalInput(Null, Null, Null, NotFinite, 0),
     ApiInput("ACCESS_STATUS", "AVAILABLE", Null, 1),
     ApiInput("ACCESS_STATUS", "EMBARGOED", 1, Null),
     ApiInput("YEAR", "2026", 0, 1),
     ApiInput("YEAR", "2026x", 1, 2),
     ApiInput("YEAR", "recent", 1, 2),
     PortalInput(Empty, "BOOK", Null, 1, 1)}
=============================================================================
