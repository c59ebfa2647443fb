----------------------------- MODULE CatalogSearch -----------------------------
(***************************************************************************)
(* The catalogue while it is in use: librarians add resources, time        *)
(* passes, and one reader walks through the pages of a search.             *)
(*                                                                         *)
(* A resource is inserted by one transaction.  A search is not: the count, *)
(* the page and the facets are statements of their own, and each sees what *)
(* is committed when it runs.  No code changes or removes a resource.      *)
(***************************************************************************)
EXTENDS Catalog, Sequences

CONSTANTS
    Stock,         \* the resources that librarians may enter
    Inputs,        \* the searches: via "portal" or "api", q, filters, page, size
    MaxRows,       \* bound: resources ever created
    MaxTime,       \* bound: ticks of the clock
    MaxPages       \* bound: pages of one walk

\* What a form or an address can ask for.
InputOK(input) ==
    /\ DOMAIN input = {"via", "q", "filters", "page", "size"}
    /\ input.via \in {"portal", "api"}
    /\ {input.page, input.size} \subseteq {Null, NotFinite} \cup Int
    /\ DOMAIN input.filters \subseteq FacetDimension
    /\ "YEAR" \in DOMAIN input.filters =>
          input.filters.YEAR \in DOMAIN parseInt \cup {Null, Empty}

ASSUME InputsAssumption == \A input \in Inputs : InputOK(input)

ASSUME BoundsAssumption == MaxRows \in Nat /\ MaxTime \in Nat /\ MaxPages \in Nat

VARIABLES
    rows,          \* the table: entities with the place of their updatedAt
    now,
    walk           \* the search under way

vars == <<rows, now, walk>>

NoWalk == [step |-> "idle"]

QueryOf(input) == IF input.via = "portal" THEN portalQuery(input) ELSE apiQuery(input)

\* What the statements of the walk's current request find now.
Matches(text, filters) == Found(rows, text, filters, now)
FoundNow == Matches(walk.query.text, walk.query.filters)

Init == rows = <<>> /\ now = 0 /\ walk = NoWalk

-----------------------------------------------------------------------------
(* Librarians.  updatedAt is taken before the commit: a row may appear     *)
(* anywhere in the order of those that are there.                          *)

AsRow(entity, stamp) ==
    [c \in DOMAIN entity \cup {"stamp"} |-> IF c = "stamp" THEN stamp ELSE entity[c]]

Insert(entity) ==
    /\ Len(rows) < MaxRows
    /\ \E stamp \in 1 .. MaxRows :
        /\ \A i \in DOMAIN rows : rows[i].stamp # stamp
        /\ rows' = Append(rows, AsRow(entity, stamp))
    /\ UNCHANGED <<now, walk>>

Forms(type) == {e \in Stock \cap CreationForm : e.resourceType = type}

createPhysicalBook == \E e \in Forms("PHYSICAL_BOOK") : Insert(e)
createJournalArticle == \E e \in Forms("JOURNAL_ARTICLE") : Insert(e)
createResearchReport == \E e \in Forms("RESEARCH_REPORT") : Insert(e)

\* embargoUntil ? new Date(embargoUntil) : undefined
createThesis ==
    \E e \in Forms("THESIS") :
        Insert(IF e.detail.embargoUntil = Empty
               THEN [e EXCEPT !.detail.embargoUntil = Null] ELSE e)

\* readingRoomOnly ?? true
createRareMaterial ==
    \E e \in Forms("RARE_MATERIAL") :
        Insert(IF e.detail.readingRoomOnly = Null
               THEN [e EXCEPT !.detail.readingRoomOnly = TRUE] ELSE e)

Tick == now < MaxTime /\ now' = now + 1 /\ UNCHANGED <<rows, walk>>

-----------------------------------------------------------------------------
(* The reader.  step names the statement that comes next.                  *)

Open(input) ==
    LET q == QueryOf(input)
    IN  /\ walk.step = "idle"
        /\ input.via = "api" => SearchRequest(input)
        /\ walk' = [step |-> "count", input |-> input, query |-> q, asked |-> q.filters,
                    pages |-> 1, linked |-> FALSE, total |-> 0, items |-> {}, types |-> 0,
                    due |-> Matches(q.text, q.filters), seen |-> {},
                    atCount |-> {}, calm |-> FALSE]
        /\ UNCHANGED <<rows, now>>

\* Mutant: the count takes the text and leaves the filters out.
CountUnfiltered ==
    /\ walk.step = "count"
    /\ walk' = [walk EXCEPT !.step = "page", !.atCount = FoundNow,
                            !.total = Cardinality(Matches(walk.query.text, {}))]
    /\ UNCHANGED <<rows, now>>

\* COUNT over the same WHERE
Count ==
    /\ walk.step = "count"
    /\ Castable(walk.query.filters)
    /\ walk' = [walk EXCEPT !.step = "page", !.total = Cardinality(FoundNow), !.atCount = FoundNow]
    /\ UNCHANGED <<rows, now>>

\* The count is the first statement to fail; the reader is shown an error.
CountFails ==
    /\ walk.step = "count"
    /\ ~Castable(walk.query.filters)
    /\ walk' = NoWalk
    /\ UNCHANGED <<rows, now>>

\* calm: the count still holds when the page is read.
ReadPage ==
    /\ walk.step = "page"
    /\ LET items == PageOf(rows, walk.query.text, FoundNow, walk.query.page)
       IN  walk' = [walk EXCEPT !.step = "facets", !.items = items,
                                !.seen = @ \cup items, !.calm = FoundNow = walk.atCount]
    /\ UNCHANGED <<rows, now>>

\* types: the resources counted under some type
TypeFacets(q) ==
    LET Counted(t) == computeFacets(rows, q.text, q.filters, "RESOURCE_TYPE", t, now)
    IN  UNION {Counted(t) : t \in FacetValues(rows, q.text, q.filters, "RESOURCE_TYPE", now)}

ReadFacets ==
    /\ walk.step = "facets"
    /\ walk' = [walk EXCEPT !.step = "shown", !.types = Cardinality(TypeFacets(walk.query))]
    /\ UNCHANGED <<rows, now>>

\* Mutant: one link too many.
HasNextOrEqual == walk.query.page.page * walk.query.page.size <= walk.total

\* There is a next page as long as the count says so.
HasNext == walk.query.page.page * walk.query.page.size < walk.total

FollowNext ==
    /\ walk.step = "shown" /\ HasNext /\ walk.pages < MaxPages
    /\ LET page  == walk.query.page.page
           input == IF walk.input.via = "portal" THEN NextLink(walk.input, page)
                    ELSE [walk.input EXCEPT !.page = page + 1]
       IN  walk' = [walk EXCEPT !.step = "count", !.input = input, !.query = QueryOf(input),
                                !.pages = @ + 1, !.linked = TRUE, !.items = {}]
    /\ UNCHANGED <<rows, now>>

Leave == walk.step = "shown" /\ walk' = NoWalk /\ UNCHANGED <<rows, now>>

Next ==
    \/ createPhysicalBook \/ createThesis \/ createJournalArticle
    \/ createResearchReport \/ createRareMaterial
    \/ Tick
    \/ \E input \in Inputs : Open(input)
    \/ Count \/ CountFails \/ ReadPage \/ ReadFacets \/ FollowNext \/ Leave

Spec == Init /\ [][Next]_vars

-----------------------------------------------------------------------------
(* Properties *)

\* Rows are entities with distinct places in the order; what a walk shows
\* exists and fits a page.
TypeOK ==
    /\ now \in 0 .. MaxTime
    /\ \A i \in DOMAIN rows : [c \in DOMAIN rows[i] \ {"stamp"} |-> rows[i][c]] \in ResourceEntity
    /\ \A i, j \in DOMAIN rows : rows[i].stamp = rows[j].stamp => i = j
    /\ walk.step # "idle" =>
        /\ walk.query.page.page \in Nat \ {0}
        /\ walk.query.page.size \in 1 .. MaxPageSize
        /\ walk.items \subseteq DOMAIN rows
        /\ Cardinality(walk.items) <= walk.query.page.size

\* The rules below read the rows and the clock only.
Idle == walk.step = "idle"

\* The number beside a facet value is the number of resources the reader
\* finds on choosing it, whatever else is filtered, in every search that is
\* answered: computeFacets and filterSql are written apart, in SQL, for six
\* dimensions.  The empty department is excepted: the controllers do not take it
\* for a filter.
FacetsPromise ==
    Idle => \A input \in {i \in Inputs : Castable(QueryOf(i).filters)} : \A d \in FacetDimension :
        LET q == QueryOf(input)
            choose(v) == [input EXCEPT !.filters = [e \in DOMAIN @ \cup {d} |->
                                                       IF e = d THEN v ELSE @[e]]]
        IN  \A v \in FacetValues(rows, q.text, q.filters, d, now) \ {Empty} :
                computeFacets(rows, q.text, q.filters, d, v, now)
                    = Found(rows, q.text, Chosen(choose(v)), now)

\* A year is written as the catalogue writes it, or read as none of its years.
WrittenPlainly(filters) ==
    \A f \in filters : f.dimension = "YEAR" /\ parseInt[f.value] \in Years =>
                           YearText[parseInt[f.value]] = f.value

\* The SQL search and the in-memory one, which tests put in its place, find and
\* count the same for every filter there is a value for, and for the well-formed
\* filters of every request: one works on columns, the other on labels.  They part
\* on filters that are not well-formed: SQL fails on a type or a degree there is
\* not, where the other finds nothing, and takes the year 2026x for 2026, where the
\* other compares texts.  Reports whose scope is the empty string are excepted:
\* SQL calls them DEPARTMENT_SCOPED, catalogAccessStatus AVAILABLE.
EnginesAgree ==
    LET docs      == [i \in DOMAIN rows |-> Document(rows[i], now)]
        kept      == {i \in DOMAIN rows : Column(rows[i], "departmentScope") # Empty}
        values(d) == {facetValueExpr(d, rows[i], now) : i \in kept} \ {Null}
        single    == UNION {{{[dimension |-> d, value |-> v]} : v \in values(d)}
                               : d \in FacetDimension}
        asked     == {fs \in {Chosen(input) : input \in Inputs} :
                         Castable(fs) /\ WrittenPlainly(fs)}
    IN  Idle => \A filters \in single \cup asked :
            /\ Found(rows, Empty, filters, now) \cap kept = searchInMemory(docs, filters) \cap kept
            /\ \A d \in FacetDimension : \A v \in values(d) :
                computeFacets(rows, Empty, filters, d, v, now) \cap kept
                    = computeFacetsInMemory(docs, filters, d, v) \cap kept

\* The label a resource carries, on its page and on its card alike, keeps what
\* the access policy decides: AVAILABLE is open to every member, EMBARGOED and
\* SUPERVISED_ONLY to none, and a member who is refused is given the label as
\* the reason.  The three are written apart.  (Empty scopes excepted, as above.)
LabelPromisesAccess ==
    Idle => \A i \in DOMAIN rows : Column(rows[i], "departmentScope") # Empty =>
        LET page     == toPageViewModel(rows[i], now)
            label    == page.accessStatus
            told     == {getAccessDecision(rows, i, f, now) : f \in Faculties \cup {Null}}
        IN  /\ page = toSummaryViewModel(toSummary(rows[i], now))
            /\ label = "AVAILABLE" => \A d \in told : d.allowed
            /\ label \in {"EMBARGOED", "SUPERVISED_ONLY"} => \A d \in told : ~d.allowed
            /\ \A d \in told : ~d.allowed => d.status = label

\* Only an embargo ends a match: every other search finds what it found.
Lasting(q) == [dimension |-> "ACCESS_STATUS", value |-> "EMBARGOED"] \notin q.filters

\* A reader who goes from the first page to the last has seen every resource
\* that was there at the start, though rows are added in between and push
\* others on, provided no row came between the last page and its count and the
\* links kept the search (the portal's drop the type).
WalkSeesAll ==
    /\ walk.step \in {"facets", "shown"}
    /\ walk.pages = walk.query.page.page
    /\ ~HasNext /\ walk.calm
    /\ walk.query.filters = walk.asked /\ Lasting(walk.query)
    => walk.due \subseteq walk.seen

\* What one answer says fits together although its statements run apart: the
\* page holds all the count leaves for it, and the types add up to it where no
\* type is chosen.  More may have come in between, never less.
PageAddsUp ==
    /\ walk.step = "shown" /\ Lasting(walk.query)
    => LET page == walk.query.page
           left == walk.total - (page.page - 1) * page.size
       IN  /\ left > 0 => Cardinality(walk.items) >= IF left < page.size THEN left ELSE page.size
           /\ (\A f \in walk.query.filters : f.dimension # "RESOURCE_TYPE") => walk.types >= walk.total

\* A page reached by a link shows something, even when the link has lost the type.
LinkedPagesNotEmpty ==
    walk.step \in {"facets", "shown"} /\ walk.linked /\ Lasting(walk.query) => walk.items # {}

\* "URL-addressable facets and pagination": the next page belongs to the search
\* it was reached from.
LinkKeepsSearch == walk.step # "idle" => walk.query.filters = walk.asked
=============================================================================
