-------------------------------- MODULE Catalog --------------------------------
(***************************************************************************)
(* The rules of the catalogue, without state: what a resource is, who may  *)
(* use it (AccessPolicyResolver), what label it carries on a page and in a *)
(* list, what a search finds and counts (PostgresFtsSearchService), and    *)
(* what the second implementation of the search contract finds             *)
(* (InMemorySearchService).                                                *)
(*                                                                         *)
(* Only the columns some rule reads are here.  A search text is abstracted *)
(* to where a resource contains it: in the title or description, which are *)
(* ranked, in another searched field (author, ISBN, DOI), or nowhere.      *)
(***************************************************************************)
EXTENDS Integers, FiniteSets

CONSTANTS
    Null,          \* a NULL column; a parameter that is absent or not a number
    Empty,         \* the empty string, which the creation forms accept
    NotFinite,     \* an infinity, what parsing too long a number gives
    Faculties,     \* the values of Member.faculty and of a report's scope
    Departments, Dates, Years,
    YearText,      \* YearText[y]: year y in decimal digits, as ::text and String() write it
    parseInt,      \* parseInt[v]: what Number.parseInt(v, 10) reads of a year asked for;
                   \* Null is NaN, which reaches the database as NULL
    Licenses,      \* the license rows by id: startsAt, expiresAt, facultyScopes
    CreatedYear,   \* the year of createdAt
    DayLength,     \* ticks of the clock in a day; a date is its first tick, UTC
    MaxPageSize, DefaultPageSize

\* A date is numbered from a fixed day; an absent value and an infinity are no
\* integers.
ASSUME CatalogAssumption ==
    /\ DayLength \in Nat \ {0}
    /\ MaxPageSize \in Nat \ {0}
    /\ DefaultPageSize \in 1 .. MaxPageSize
    /\ Dates \subseteq Int
    /\ Null \notin Int /\ NotFinite \notin Int

\* A year is read back from its digits.  Other texts may be read as a year too:
\* parseInt stops at the first character that is no digit.
ASSUME YearAssumption ==
    /\ CreatedYear \in Years
    /\ Null \notin Years
    /\ \A y \in Years : parseInt[YearText[y]] = y /\ YearText[y] \notin {Null, Empty}

-----------------------------------------------------------------------------
(* Resources *)

ResourceType ==
    {"PHYSICAL_BOOK", "THESIS", "JOURNAL_ARTICLE", "RESEARCH_REPORT", "RARE_MATERIAL"}

ASSUME TypeNotNullAssumption == Null \notin ResourceType

DegreeType == {"BACHELOR", "MASTER", "PHD"}

\* The row of the subtype's own table.
Detail ==
    [PHYSICAL_BOOK   |-> [publicationYear : Years \cup {Null}],
     THESIS          |-> [degreeType : DegreeType \cup {Null}, embargoUntil : Dates \cup {Null}],
     JOURNAL_ARTICLE |-> [licenseId : DOMAIN Licenses \cup {Null}],
     RESEARCH_REPORT |-> [departmentScope : Faculties \cup {Empty, Null},
                          reportYear : Years \cup {Null}],
     RARE_MATERIAL   |-> [readingRoomOnly : BOOLEAN]]

\* The discriminated union: base columns and the detail of the resource's type.
ResourceEntity ==
    UNION {[resourceType : {t}, department : Departments \cup {Empty, Null},
            contains : {"ranked", "unranked", "nowhere"}, detail : Detail[t]]
              : t \in ResourceType}

\* What the five creation forms accept: every field but the title is optional,
\* and a string may be empty.
CreationForm ==
    LET detail == [Detail EXCEPT !.THESIS = [degreeType : DegreeType \cup {Null},
                                             embargoUntil : Dates \cup {Empty, Null}],
                                 !.RARE_MATERIAL = [readingRoomOnly : BOOLEAN \cup {Null}]]
    IN  UNION {[resourceType : {t}, department : Departments \cup {Empty, Null},
                contains : {"ranked", "unranked", "nowhere"}, detail : detail[t]]
                  : t \in ResourceType}

\* A column of the five LEFT JOINs: NULL unless the resource has that subtype.
Column(r, c) == IF c \in DOMAIN r.detail THEN r.detail[c] ELSE Null

-----------------------------------------------------------------------------
(* Access: a date is compared with the clock, at its first instant.        *)

Midnight(date) == date * DayLength
Today(now) == now \div DayLength

Grant == [allowed |-> TRUE, status |-> "AVAILABLE"]
Deny(status) == [allowed |-> FALSE, status |-> status]

resolveThesis(r, now) ==
    IF r.detail.embargoUntil # Null /\ Midnight(r.detail.embargoUntil) > now
    THEN Deny("EMBARGOED") ELSE Grant

LicenseCovers(l, faculty, now) ==
    /\ l.startsAt = Null \/ Midnight(l.startsAt) <= now
    /\ l.expiresAt = Null \/ Midnight(l.expiresAt) >= now
    /\ l.facultyScopes = {} \/ faculty \in l.facultyScopes

resolveJournalArticle(r, faculty, now) ==
    IF /\ r.detail.licenseId \in DOMAIN Licenses
       /\ LicenseCovers(Licenses[r.detail.licenseId], faculty, now)
    THEN Grant ELSE Deny("LICENSE_GATED")

resolveResearchReport(r, faculty) ==
    IF r.detail.departmentScope \in {Null, faculty} THEN Grant ELSE Deny("DEPARTMENT_SCOPED")

\* What one member, of that faculty (or Null), is told about one resource.
resolve(r, faculty, now) ==
    CASE r.resourceType = "PHYSICAL_BOOK"   -> Grant
      [] r.resourceType = "THESIS"          -> resolveThesis(r, now)
      [] r.resourceType = "JOURNAL_ARTICLE" -> resolveJournalArticle(r, faculty, now)
      [] r.resourceType = "RESEARCH_REPORT" -> resolveResearchReport(r, faculty)
      [] r.resourceType = "RARE_MATERIAL"   -> Deny("SUPERVISED_ONLY")

\* The two reads of one resource, which may find none, and the decision the API
\* answers with.
findById(rows, id) == {rows[i] : i \in {id} \cap DOMAIN rows}

getAccessDecision(rows, id, faculty, now) ==
    IF findById(rows, id) = {} THEN "NotFound"
    ELSE resolve(CHOOSE r \in findById(rows, id) : TRUE, faculty, now)

-----------------------------------------------------------------------------
(* Labels.  catalogAccessStatus tests the scope for truth, and so takes    *)
(* the empty string for no scope; resolve and the SQL test it for NULL.    *)

\* Mutant: a scoped report is labelled like any other.
LabelScopeForgotten(type, embargoUntil, departmentScope, now) ==
    CASE type = "THESIS" /\ embargoUntil # Null /\ Midnight(embargoUntil) > now -> "EMBARGOED"
      [] type = "JOURNAL_ARTICLE" -> "LICENSE_GATED"
      [] type = "RARE_MATERIAL" -> "SUPERVISED_ONLY"
      [] OTHER -> "AVAILABLE"

catalogAccessStatus(type, embargoUntil, departmentScope, now) ==
    CASE type = "PHYSICAL_BOOK" -> "AVAILABLE"
      [] type = "THESIS" ->
            IF embargoUntil # Null /\ Midnight(embargoUntil) > now
            THEN "EMBARGOED" ELSE "AVAILABLE"
      [] type = "JOURNAL_ARTICLE" -> "LICENSE_GATED"
      [] type = "RESEARCH_REPORT" ->
            IF departmentScope \in {Null, Empty} THEN "AVAILABLE" ELSE "DEPARTMENT_SCOPED"
      [] type = "RARE_MATERIAL" -> "SUPERVISED_ONLY"

toneForAccess(status) ==
    CASE status = "AVAILABLE" -> "ok"
      [] status \in {"LICENSE_GATED", "DEPARTMENT_SCOPED", "EMBARGOED"} -> "warn"
      [] OTHER -> "block"

\* The columns of its detail that a resource's card and page show.
ShownColumns ==
    [PHYSICAL_BOOK   |-> {"publicationYear"},
     THESIS          |-> {"degreeType", "embargoUntil"},
     JOURNAL_ARTICLE |-> {},
     RESEARCH_REPORT |-> {"departmentScope", "reportYear"},
     RARE_MATERIAL   |-> {"readingRoomOnly"}]

ViewModel(type, department, status, detail) ==
    [type |-> type, department |-> department,
     accessStatus |-> status, accessStatusTone |-> toneForAccess(status),
     canBorrow |-> type = "PHYSICAL_BOOK" /\ status = "AVAILABLE",
     detail |-> detail]

\* The resource's own page, from the entity.
toPageViewModel(r, now) ==
    ViewModel(r.resourceType, r.department,
        catalogAccessStatus(r.resourceType,
            IF r.resourceType = "THESIS" THEN r.detail.embargoUntil ELSE Null,
            IF r.resourceType = "RESEARCH_REPORT" THEN r.detail.departmentScope ELSE Null,
            now),
        [c \in ShownColumns[r.resourceType] |-> r.detail[c]])

\* The row of a search, and the card made of it.
toSummary(r, now) ==
    [type |-> r.resourceType, department |-> r.department,
     accessStatus |-> catalogAccessStatus(r.resourceType, Column(r, "embargoUntil"),
                                          Column(r, "departmentScope"), now),
     detail |-> [c \in ShownColumns[r.resourceType] |-> Column(r, c)]]

toSummaryViewModel(s) == ViewModel(s.type, s.department, s.accessStatus, s.detail)

-----------------------------------------------------------------------------
(* Search in SQL.  A filter is a dimension and a value.                    *)

FacetDimension ==
    {"RESOURCE_TYPE", "DEPARTMENT", "YEAR", "LANGUAGE", "DEGREE_TYPE", "ACCESS_STATUS"}

\* COALESCE(publicationYear, reportYear, year of createdAt)
YearColumn(r) ==
    IF Column(r, "publicationYear") # Null THEN Column(r, "publicationYear")
    ELSE IF Column(r, "reportYear") # Null THEN Column(r, "reportYear")
    ELSE CreatedYear

\* Mutant: the embargo ends a day late.
LapsedStrict(r, now) ==
    Column(r, "embargoUntil") = Null \/ Column(r, "embargoUntil") < Today(now)

Lapsed(r, now) ==
    Column(r, "embargoUntil") = Null \/ Column(r, "embargoUntil") <= Today(now)

accessStatusFilterSql(value, r, now) ==
    CASE value = "AVAILABLE" ->
            \/ r.resourceType = "PHYSICAL_BOOK"
            \/ r.resourceType = "THESIS" /\ Lapsed(r, now)
            \/ r.resourceType = "RESEARCH_REPORT" /\ Column(r, "departmentScope") = Null
      [] value = "EMBARGOED" -> r.resourceType = "THESIS" /\ ~Lapsed(r, now)
      [] value = "LICENSE_GATED" -> r.resourceType = "JOURNAL_ARTICLE"
      [] value = "DEPARTMENT_SCOPED" ->
            r.resourceType = "RESEARCH_REPORT" /\ Column(r, "departmentScope") # Null
      [] value = "SUPERVISED_ONLY" -> r.resourceType = "RARE_MATERIAL"
      [] OTHER -> FALSE

\* The values are cast to the enums of the schema; any other value is an error,
\* with which the whole statement fails.
Castable(filters) ==
    \A f \in filters : /\ f.dimension = "RESOURCE_TYPE" => f.value \in ResourceType
                       /\ f.dimension = "DEGREE_TYPE" => f.value \in DegreeType

\* For filters that can be cast; nothing equals a year that is NaN.
filterSql(f, r, now) ==
    CASE f.dimension = "RESOURCE_TYPE" -> r.resourceType = f.value
      [] f.dimension = "DEPARTMENT"    -> r.department = f.value /\ f.value # Null
      [] f.dimension = "YEAR"          -> YearColumn(r) = parseInt[f.value]
      [] f.dimension = "LANGUAGE"      -> f.value = "en"
      [] f.dimension = "DEGREE_TYPE"   -> Column(r, "degreeType") = f.value
      [] f.dimension = "ACCESS_STATUS" -> accessStatusFilterSql(f.value, r, now)

\* The value a resource is counted under, NULL to be left out.
facetValueExpr(dimension, r, now) ==
    CASE dimension = "RESOURCE_TYPE" -> r.resourceType
      [] dimension = "DEPARTMENT"    -> r.department
      [] dimension = "YEAR"          -> YearText[YearColumn(r)]
      [] dimension = "LANGUAGE"      -> "en"
      [] dimension = "DEGREE_TYPE"   -> Column(r, "degreeType")
      [] dimension = "ACCESS_STATUS" ->
            CASE r.resourceType = "THESIS" /\ ~Lapsed(r, now) -> "EMBARGOED"
              [] r.resourceType = "JOURNAL_ARTICLE" -> "LICENSE_GATED"
              [] r.resourceType = "RESEARCH_REPORT" /\ Column(r, "departmentScope") # Null
                    -> "DEPARTMENT_SCOPED"
              [] r.resourceType = "RARE_MATERIAL" -> "SUPERVISED_ONLY"
              [] OTHER -> "AVAILABLE"

buildWhereSql(text, filters, r, now) ==
    /\ text # Empty => r.contains # "nowhere"
    /\ \A f \in filters : filterSql(f, r, now)

Found(rows, text, filters, now) ==
    {i \in DOMAIN rows : buildWhereSql(text, filters, rows[i], now)}

\* Mutant: the filter on the counted dimension stays.
computeFacetsFiltered(rows, text, filters, dimension, value, now) ==
    {i \in Found(rows, text, filters, now) : facetValueExpr(dimension, rows[i], now) = value}

\* The rows counted under one value of a dimension: the filters on that
\* dimension are left out, the others stay.
computeFacets(rows, text, filters, dimension, value, now) ==
    {i \in Found(rows, text, {f \in filters : f.dimension # dimension}, now) :
        facetValueExpr(dimension, rows[i], now) = value}

\* The facet values a search lists.
FacetValues(rows, text, filters, dimension, now) ==
    {facetValueExpr(dimension, rows[i], now) :
        i \in Found(rows, text, {f \in filters : f.dimension # dimension}, now)} \ {Null}

-----------------------------------------------------------------------------
(* Requests and pages.  A request names a value for some dimensions.       *)

\* if (input.type) filters.push(...): absent and empty values do not filter.
Chosen(input) ==
    {[dimension |-> d, value |-> input.filters[d]] :
        d \in {e \in DOMAIN input.filters : input.filters[e] \notin {Null, Empty}}}

\* Mutant: no upper bound on the size.
clampUncapped(page, size) ==
    [page |-> IF page = NotFinite \/ page < 1 THEN 1 ELSE page,
     size |-> IF size = NotFinite THEN DefaultPageSize ELSE IF size < 1 THEN 1 ELSE size]

clampPagination(page, size) ==
    LET rawPage == IF page = NotFinite THEN 1 ELSE page
        rawSize == IF size = NotFinite THEN DefaultPageSize ELSE size
    IN  [page |-> IF rawPage < 1 THEN 1 ELSE rawPage,
         size |-> IF rawSize < 1 THEN 1
                  ELSE IF rawSize > MaxPageSize THEN MaxPageSize ELSE rawSize]

\* The portal: Number.parseInt(x, 10) || otherwise, which replaces zero too.
PortalNumber(raw, otherwise) == IF raw \in {Null, 0} THEN otherwise ELSE raw

PortalDefaultSize == 10

Query(input, page) ==
    [text |-> IF input.q = Null THEN Empty ELSE input.q, filters |-> Chosen(input), page |-> page]

portalQuery(input) ==
    Query(input, clampPagination(PortalNumber(input.page, 1),
                                 PortalNumber(input.size, PortalDefaultSize)))

\* The API refuses a page or a size that is not a positive integer.
SearchRequest(input) ==
    {input.page, input.size} \subseteq (Nat \ {0}) \cup {Null}

apiQuery(input) ==
    Query(input, clampPagination(IF input.page = Null THEN 1 ELSE input.page,
                                 IF input.size = Null THEN DefaultPageSize ELSE input.size))

\* The address behind the portal's Next: text, department and size are
\* carried over, the type is not.
NextLink(input, page) ==
    [input EXCEPT !.page = page + 1, !.filters.RESOURCE_TYPE = Null]

\* ORDER BY ts_rank DESC, updatedAt DESC, id DESC; a row's stamp is its place
\* in the order of the last two.
Precedes(rows, text, i, j) ==
    LET rank(k) == IF text # Empty /\ rows[k].contains = "ranked" THEN 1 ELSE 0
    IN  \/ rank(i) > rank(j)
        \/ rank(i) = rank(j) /\ rows[i].stamp > rows[j].stamp

\* Mutant: OFFSET page * size.
PageAfter(rows, text, found, page) ==
    {i \in found :
        LET before == Cardinality({j \in found : Precedes(rows, text, j, i)})
        IN  before \div page.size = page.page}

\* LIMIT size OFFSET (page - 1) * size
PageOf(rows, text, found, page) ==
    {i \in found :
        LET before == Cardinality({j \in found : Precedes(rows, text, j, i)})
        IN  before \div page.size = page.page - 1}

-----------------------------------------------------------------------------
(* The in-memory implementation works on summaries.                        *)

Document(r, now) ==
    [summary |-> toSummary(r, now), year |-> YearText[YearColumn(r)], language |-> "en",
     degreeType |-> Column(r, "degreeType")]

facetValue(doc, dimension) ==
    CASE dimension = "RESOURCE_TYPE" -> doc.summary.type
      [] dimension = "DEPARTMENT"    -> doc.summary.department
      [] dimension = "YEAR"          -> doc.year
      [] dimension = "LANGUAGE"      -> doc.language
      [] dimension = "DEGREE_TYPE"   -> doc.degreeType
      [] dimension = "ACCESS_STATUS" -> doc.summary.accessStatus

matchesFilter(doc, f) == facetValue(doc, f.dimension) = f.value

\* Without a text, which it matches in its own way.
searchInMemory(docs, filters) ==
    {i \in DOMAIN docs : \A f \in filters : matchesFilter(docs[i], f)}

computeFacetsInMemory(docs, filters, dimension, value) ==
    {i \in searchInMemory(docs, {f \in filters : f.dimension # dimension}) :
        facetValue(docs[i], dimension) = value}
=============================================================================
