-------------------------- MODULE CatalogSearch_proofs --------------------------
(***************************************************************************)
(* Proofs about CatalogSearch, for any stock, any searches, any size of    *)
(* page and any number of rows.  First the rules, which are written apart  *)
(* for SQL, for labels and for the in-memory search; then the order of a   *)
(* search and its pages; then the walk of a reader while rows are added.   *)
(***************************************************************************)
EXTENDS CatalogSearch, FiniteSetTheorems, TLAPS

\* An entity with its place in the order.
Row == {AsRow(e, s) : e \in ResourceEntity, s \in Int}

LEMMA RowIs ==
    ASSUME NEW r \in Row
    PROVE  /\ r.resourceType \in ResourceType
           /\ r.detail \in Detail[r.resourceType]
           /\ r.stamp \in Int
           /\ [c \in DOMAIN r \ {"stamp"} |-> r[c]] \in ResourceEntity
<1>1. PICK e \in ResourceEntity, s \in Int : r = AsRow(e, s)
  BY DEF Row
<1>2. PICK t \in ResourceType :
        e \in [resourceType : {t}, department : Departments \cup {Empty, Null},
               contains : {"ranked", "unranked", "nowhere"}, detail : Detail[t]]
  BY DEF ResourceEntity
<1>3. DOMAIN r = {"resourceType", "department", "contains", "detail", "stamp"}
  BY <1>1, <1>2 DEF AsRow
<1>4. r.resourceType = e.resourceType /\ r.detail = e.detail /\ r.stamp = s
  BY <1>1, <1>2 DEF AsRow
<1>5. [c \in DOMAIN r \ {"stamp"} |-> r[c]] = e
  <2>1. DOMAIN r \ {"stamp"} = DOMAIN e
    BY <1>2, <1>3
  <2>2. \A c \in DOMAIN e : r[c] = e[c]
    BY <1>1, <1>2 DEF AsRow
  <2>3. e = [c \in DOMAIN e |-> e[c]]
    BY <1>2
  <2> QED
    BY <2>1, <2>2, <2>3
<1> QED
  BY <1>2, <1>4, <1>5

\* What a row carries in the columns the rules read.
LEMMA Columns ==
    ASSUME NEW r \in Row
    PROVE  /\ Column(r, "embargoUntil") =
                 IF r.resourceType = "THESIS" THEN r.detail.embargoUntil ELSE Null
           /\ Column(r, "departmentScope") =
                 IF r.resourceType = "RESEARCH_REPORT" THEN r.detail.departmentScope ELSE Null
           /\ r.resourceType = "THESIS" => r.detail.embargoUntil \in Dates \cup {Null}
           /\ \A c \in ShownColumns[r.resourceType] : Column(r, c) = r.detail[c]
<1> DEFINE t == r.resourceType
           D == r.detail
<1>0. t \in ResourceType /\ D \in Detail[t]
  BY RowIs
<1> HIDE DEF t, D
<1> SUFFICES /\ (IF "embargoUntil" \in DOMAIN D THEN D["embargoUntil"] ELSE Null)
                  = IF t = "THESIS" THEN D.embargoUntil ELSE Null
             /\ (IF "departmentScope" \in DOMAIN D THEN D["departmentScope"] ELSE Null)
                  = IF t = "RESEARCH_REPORT" THEN D.departmentScope ELSE Null
             /\ t = "THESIS" => D.embargoUntil \in Dates \cup {Null}
             /\ ShownColumns[t] \subseteq DOMAIN D
  BY DEF Column, t, D
<1>1. CASE t = "PHYSICAL_BOOK"
  <2>1. D \in [publicationYear : Years \cup {Null}]
    BY <1>0, <1>1 DEF Detail
  <2> QED
    BY <1>1, <2>1 DEF ShownColumns
<1>2. CASE t = "THESIS"
  <2>1. D \in [degreeType : DegreeType \cup {Null}, embargoUntil : Dates \cup {Null}]
    BY <1>0, <1>2 DEF Detail
  <2> QED
    BY <1>2, <2>1 DEF ShownColumns
<1>3. CASE t = "JOURNAL_ARTICLE"
  <2>1. D \in [licenseId : DOMAIN Licenses \cup {Null}]
    BY <1>0, <1>3 DEF Detail
  <2> QED
    BY <1>3, <2>1 DEF ShownColumns
<1>4. CASE t = "RESEARCH_REPORT"
  <2>1. D \in [departmentScope : Faculties \cup {Empty, Null},
                        reportYear : Years \cup {Null}]
    BY <1>0, <1>4 DEF Detail
  <2> QED
    BY <1>4, <2>1 DEF ShownColumns
<1>5. CASE t = "RARE_MATERIAL"
  <2>1. D \in [readingRoomOnly : BOOLEAN]
    BY <1>0, <1>5 DEF Detail
  <2> QED
    BY <1>5, <2>1 DEF ShownColumns
<1> QED
  BY <1>0, <1>1, <1>2, <1>3, <1>4, <1>5 DEF ResourceType

\* The year of a resource is one of the years, whichever column it is from.
LEMMA YearIs ==
    ASSUME NEW r \in Row
    PROVE  YearColumn(r) \in Years
<1> DEFINE t == r.resourceType
           D == r.detail
<1>0. t \in ResourceType /\ D \in Detail[t]
  BY RowIs
<1> HIDE DEF t, D
<1> SUFFICES /\ "publicationYear" \in DOMAIN D => D["publicationYear"] \in Years \cup {Null}
             /\ "reportYear" \in DOMAIN D => D["reportYear"] \in Years \cup {Null}
  BY YearAssumption DEF YearColumn, Column, D
<1>1. CASE t = "PHYSICAL_BOOK"
  <2>1. D \in [publicationYear : Years \cup {Null}]
    BY <1>0, <1>1 DEF Detail
  <2> QED
    BY <2>1
<1>2. CASE t = "THESIS"
  <2>1. D \in [degreeType : DegreeType \cup {Null}, embargoUntil : Dates \cup {Null}]
    BY <1>0, <1>2 DEF Detail
  <2> QED
    BY <2>1
<1>3. CASE t = "JOURNAL_ARTICLE"
  <2>1. D \in [licenseId : DOMAIN Licenses \cup {Null}]
    BY <1>0, <1>3 DEF Detail
  <2> QED
    BY <2>1
<1>4. CASE t = "RESEARCH_REPORT"
  <2>1. D \in [departmentScope : Faculties \cup {Empty, Null}, reportYear : Years \cup {Null}]
    BY <1>0, <1>4 DEF Detail
  <2> QED
    BY <2>1
<1>5. CASE t = "RARE_MATERIAL"
  <2>1. D \in [readingRoomOnly : BOOLEAN]
    BY <1>0, <1>5 DEF Detail
  <2> QED
    BY <2>1
<1> QED
  BY <1>0, <1>1, <1>2, <1>3, <1>4, <1>5 DEF ResourceType

\* A date has come when its first instant has: the two ways of asking agree.
LEMMA DateReached ==
    ASSUME NEW date \in Int, NEW n \in Nat
    PROVE  Midnight(date) > n <=> ~(date <= Today(n))
<1> DEFINE L == DayLength
           q == n \div L
           m == n % L
<1>1. L \in Nat /\ L > 0
  BY CatalogAssumption
<1>2. /\ q \in Int /\ m \in 0 .. (L - 1) /\ n = L * q + m
  BY <1>1, SMT
<1> SUFFICES date * L > n <=> ~(date <= q)
  BY DEF Midnight, Today
<1> HIDE DEF L, q, m
<1>3. CASE date <= q
  <2>1. L * (q - date) >= 0
    BY <1>1, <1>2, <1>3, SMT
  <2> QED
    BY <1>1, <1>2, <1>3, <2>1, SMT
<1>4. CASE date > q
  <2>1. L * (date - q - 1) >= 0
    BY <1>1, <1>2, <1>4, SMT
  <2> QED
    BY <1>1, <1>2, <1>4, <2>1, SMT
<1> QED
  BY <1>2, <1>3, <1>4, SMT

LEMMA LapsedIs ==
    ASSUME NEW r \in Row, r.resourceType = "THESIS", NEW n \in Nat
    PROVE  Lapsed(r, n) <=>
             ~(r.detail.embargoUntil # Null /\ Midnight(r.detail.embargoUntil) > n)
<1>1. Column(r, "embargoUntil") = r.detail.embargoUntil /\ r.detail.embargoUntil \in Dates \cup {Null}
  BY Columns
<1>2. CASE r.detail.embargoUntil = Null
  BY <1>1, <1>2 DEF Lapsed
<1>3. CASE r.detail.embargoUntil # Null
  <2>1. r.detail.embargoUntil \in Int
    BY <1>1, <1>3, CatalogAssumption
  <2>2. Midnight(r.detail.embargoUntil) > n <=> ~(r.detail.embargoUntil <= Today(n))
    BY <2>1, DateReached
  <2> QED
    BY <1>1, <1>3, <2>2 DEF Lapsed
<1> QED
  BY <1>2, <1>3

-----------------------------------------------------------------------------
(* The three ways to say who may use a resource. *)

Kept(r) == Column(r, "departmentScope") # Empty

LabelOf(r, n) ==
    catalogAccessStatus(r.resourceType, Column(r, "embargoUntil"), Column(r, "departmentScope"), n)

\* The label is the value the SQL counts the resource under.
LEMMA LabelIsFacet ==
    ASSUME NEW r \in Row, NEW n \in Nat, Kept(r)
    PROVE  LabelOf(r, n) = facetValueExpr("ACCESS_STATUS", r, n)
<1> USE RowIs, Columns DEF LabelOf, catalogAccessStatus, facetValueExpr, Kept
<1>1. CASE r.resourceType = "PHYSICAL_BOOK"
  BY <1>1
<1>2. CASE r.resourceType = "THESIS"
  BY <1>2, LapsedIs
<1>3. CASE r.resourceType = "JOURNAL_ARTICLE"
  BY <1>3
<1>4. CASE r.resourceType = "RESEARCH_REPORT"
  BY <1>4
<1>5. CASE r.resourceType = "RARE_MATERIAL"
  BY <1>5
<1> QED
  BY <1>1, <1>2, <1>3, <1>4, <1>5 DEF ResourceType

\* A filter finds what is counted under its value, if a year is written plainly.
LEMMA FilterIsFacet ==
    ASSUME NEW r \in Row, NEW n \in Nat, NEW f, f.dimension \in FacetDimension, f.value # Null,
           WrittenPlainly({f})
    PROVE  filterSql(f, r, n) <=> facetValueExpr(f.dimension, r, n) = f.value
<1>1. CASE f.dimension \notin {"ACCESS_STATUS", "YEAR"}
  BY <1>1 DEF filterSql, facetValueExpr, FacetDimension
<1>3. CASE f.dimension = "YEAR"
  <2> DEFINE y == YearColumn(r)
  <2>1. y \in Years
    BY YearIs
  <2> HIDE DEF y
  <2>2. y = parseInt[f.value] <=> YearText[y] = f.value
    BY <1>3, <2>1, YearAssumption DEF WrittenPlainly
  <2>3. filterSql(f, r, n) <=> y = parseInt[f.value]
    BY <1>3 DEF filterSql, y
  <2>4. facetValueExpr(f.dimension, r, n) = YearText[y]
    BY <1>3 DEF facetValueExpr, y
  <2> QED
    BY <2>2, <2>3, <2>4
<1>2. CASE f.dimension = "ACCESS_STATUS"
  <2> SUFFICES accessStatusFilterSql(f.value, r, n) <=> facetValueExpr("ACCESS_STATUS", r, n) = f.value
    BY <1>2 DEF filterSql
  <2> USE RowIs DEF accessStatusFilterSql, facetValueExpr
  <2>1. CASE r.resourceType = "PHYSICAL_BOOK"
    BY <2>1
  <2>2. CASE r.resourceType = "THESIS"
    BY <2>2
  <2>3. CASE r.resourceType = "JOURNAL_ARTICLE"
    BY <2>3
  <2>4. CASE r.resourceType = "RESEARCH_REPORT"
    BY <2>4
  <2>5. CASE r.resourceType = "RARE_MATERIAL"
    BY <2>5
  <2> QED
    BY <2>1, <2>2, <2>3, <2>4, <2>5 DEF ResourceType
<1> QED
  BY <1>1, <1>2, <1>3

\* A year that the catalogue lists is written plainly.
LEMMA ListedYear ==
    ASSUME NEW r \in Row, NEW n \in Nat, NEW f, f.value = facetValueExpr(f.dimension, r, n)
    PROVE  WrittenPlainly({f})
BY YearIs, YearAssumption DEF WrittenPlainly, facetValueExpr

\* What the in-memory search reads of a document is what the SQL counts.
LEMMA DocumentIsFacet ==
    ASSUME NEW r \in Row, NEW n \in Nat, Kept(r), NEW d \in FacetDimension
    PROVE  facetValue(Document(r, n), d) = facetValueExpr(d, r, n)
<1>1. Document(r, n).summary.accessStatus = LabelOf(r, n)
  BY DEF Document, toSummary, LabelOf
<1>2. /\ Document(r, n).summary.type = r.resourceType
      /\ Document(r, n).summary.department = r.department
      /\ Document(r, n).year = YearText[YearColumn(r)]
      /\ Document(r, n).language = "en"
      /\ Document(r, n).degreeType = Column(r, "degreeType")
  BY DEF Document, toSummary
<1>3. CASE d = "ACCESS_STATUS"
  BY <1>1, <1>3, LabelIsFacet DEF facetValue
<1>4. CASE d # "ACCESS_STATUS"
  BY <1>2, <1>4 DEF facetValue, facetValueExpr, FacetDimension
<1> QED
  BY <1>3, <1>4

-----------------------------------------------------------------------------
(* The rules, on any table and at any time *)

LEMMA ChosenIs ==
    ASSUME NEW input, InputOK(input)
    PROVE  /\ \A f \in Chosen(input) :
                 f = [dimension |-> f.dimension, value |-> f.value]
                 /\ f.dimension \in FacetDimension /\ f.value \notin {Null, Empty}
           /\ QueryOf(input).filters = Chosen(input)
BY DEF Chosen, InputOK, QueryOf, portalQuery, apiQuery, Query

LEMMA Promise ==
    ASSUME rows \in Seq(Row), now \in Nat, \A input \in Inputs : InputOK(input)
    PROVE  FacetsPromise
<1> SUFFICES ASSUME NEW input \in Inputs, NEW d \in FacetDimension,
                    NEW v \in FacetValues(rows, QueryOf(input).text, QueryOf(input).filters, d, now)
                                 \ {Empty}
             PROVE  LET q == QueryOf(input)
                        choose(w) == [input EXCEPT !.filters = [e \in DOMAIN @ \cup {d} |->
                                                       IF e = d THEN w ELSE @[e]]]
                    IN  computeFacets(rows, q.text, q.filters, d, v, now)
                            = Found(rows, q.text, Chosen(choose(v)), now)
  BY DEF FacetsPromise
<1>0. PICK k \in DOMAIN rows : v = facetValueExpr(d, rows[k], now)
  BY DEF FacetValues, Found
<1> v # Null /\ v # Empty
  BY DEF FacetValues
<1> DEFINE fs     == Chosen(input)
           others == {f \in fs : f.dimension # d}
           one    == [dimension |-> d, value |-> v]
           picked == [input EXCEPT !.filters = [e \in DOMAIN @ \cup {d} |->
                                                       IF e = d THEN v ELSE @[e]]]
           text   == QueryOf(input).text
<1>1. QueryOf(input).filters = fs
  BY ChosenIs
<1>2. Chosen(picked) = others \cup {one}
  <2>1. picked.filters = [e \in DOMAIN input.filters \cup {d} |-> IF e = d THEN v ELSE input.filters[e]]
    BY DEF InputOK
  <2>2. DOMAIN picked.filters = DOMAIN input.filters \cup {d}
    BY <2>1
  <2>3. \A e \in DOMAIN picked.filters : picked.filters[e] = IF e = d THEN v ELSE input.filters[e]
    BY <2>1
  <2> DEFINE chosenBy(g) == {[dimension |-> e, value |-> g[e]] :
                                 e \in {x \in DOMAIN g : g[x] \notin {Null, Empty}}}
  <2>4. Chosen(picked) = chosenBy(picked.filters) /\ fs = chosenBy(input.filters)
    BY DEF Chosen
  <2> HIDE DEF picked, fs
  <2>5. ASSUME NEW f \in Chosen(picked) PROVE f \in others \cup {one}
    <3>1. PICK e \in DOMAIN picked.filters : /\ picked.filters[e] \notin {Null, Empty}
                                             /\ f = [dimension |-> e, value |-> picked.filters[e]]
      BY <2>4, <2>5
    <3>2. CASE e = d
      BY <2>3, <3>1, <3>2
    <3>3. CASE e # d
      <4>1. e \in DOMAIN input.filters /\ picked.filters[e] = input.filters[e]
        BY <2>2, <2>3, <3>1, <3>3
      <4>2. f \in fs
        BY <2>4, <3>1, <4>1
      <4> QED
        BY <3>1, <3>3, <4>2
    <3> QED
      BY <3>2, <3>3
  <2>6. ASSUME NEW f \in others PROVE f \in Chosen(picked)
    <3>1. PICK e \in DOMAIN input.filters : /\ input.filters[e] \notin {Null, Empty}
                                            /\ f = [dimension |-> e, value |-> input.filters[e]]
      BY <2>4, <2>6
    <3>2. e # d
      BY <2>6, <3>1
    <3>3. e \in DOMAIN picked.filters /\ picked.filters[e] = input.filters[e]
      BY <2>2, <2>3, <3>1, <3>2
    <3> QED
      BY <2>4, <3>1, <3>3
  <2>7. one \in Chosen(picked)
    <3>1. d \in DOMAIN picked.filters /\ picked.filters[d] = v
      BY <2>2, <2>3
    <3> QED
      BY <2>4, <3>1
  <2> QED
    BY <2>5, <2>6, <2>7
<1>3. ASSUME NEW i \in DOMAIN rows
      PROVE  filterSql(one, rows[i], now) <=> facetValueExpr(d, rows[i], now) = v
  <2>1. rows[i] \in Row
    BY <1>3
  <2>2. one.dimension = d /\ one.value = v /\ rows[k] \in Row
    BY <1>0
  <2> HIDE DEF one
  <2>3. WrittenPlainly({one})
    BY <1>0, <2>2, ListedYear
  <2> QED
    BY <2>1, <2>2, <2>3, FilterIsFacet
<1> HIDE DEF one, others, picked, fs
<1>4. computeFacets(rows, text, fs, d, v, now) = Found(rows, text, others \cup {one}, now)
  BY <1>3 DEF computeFacets, Found, buildWhereSql, others
<1> QED
  BY <1>1, <1>2, <1>4 DEF picked

LEMMA Agreement ==
    ASSUME rows \in Seq(Row), now \in Nat, \A input \in Inputs : InputOK(input)
    PROVE  EnginesAgree
<1> DEFINE docs      == [i \in DOMAIN rows |-> Document(rows[i], now)]
           kept      == {i \in DOMAIN rows : Column(rows[i], "departmentScope") # Empty}
           values(d) == {facetValueExpr(d, rows[i], now) : i \in kept} \ {Null}
           single    == UNION {{{[dimension |-> d, value |-> v]} : v \in values(d)}
                                  : d \in FacetDimension}
           asked     == {fs \in {Chosen(input) : input \in Inputs} :
                            Castable(fs) /\ WrittenPlainly(fs)}
           sound(f)  == f.dimension \in FacetDimension /\ f.value # Null /\ WrittenPlainly({f})
<1>1. \A filters \in single \cup asked : \A f \in filters : sound(f)
  <2>1. ASSUME NEW filters \in asked, NEW f \in filters PROVE sound(f)
    <3>1. PICK input \in Inputs : filters = Chosen(input) /\ WrittenPlainly(filters)
      OBVIOUS
    <3> QED
      BY <2>1, <3>1, ChosenIs DEF WrittenPlainly
  <2>2. ASSUME NEW filters \in single, NEW f \in filters PROVE sound(f)
    <3>1. PICK d \in FacetDimension, i \in kept :
             /\ f = [dimension |-> d, value |-> facetValueExpr(d, rows[i], now)]
             /\ facetValueExpr(d, rows[i], now) # Null
      BY <2>2
    <3>2. f.dimension = d /\ f.value = facetValueExpr(d, rows[i], now) /\ rows[i] \in Row
      BY <3>1
    <3> QED
      BY <3>1, <3>2, ListedYear
  <2> QED
    BY <2>1, <2>2
<1>2. ASSUME NEW i \in kept, NEW d \in FacetDimension
      PROVE  facetValue(docs[i], d) = facetValueExpr(d, rows[i], now)
  BY <1>2, DocumentIsFacet DEF Kept
<1>3. ASSUME NEW i \in kept, NEW f, sound(f)
      PROVE  matchesFilter(docs[i], f) <=> filterSql(f, rows[i], now)
  <2>1. rows[i] \in Row
    OBVIOUS
  <2> QED
    BY <1>2, <1>3, <2>1, FilterIsFacet DEF matchesFilter
<1>4. DOMAIN docs = DOMAIN rows /\ kept \subseteq DOMAIN rows
  OBVIOUS
<1> SUFFICES ASSUME NEW filters \in single \cup asked
             PROVE  /\ Found(rows, Empty, filters, now) \cap kept = searchInMemory(docs, filters) \cap kept
                    /\ \A d \in FacetDimension : \A v \in values(d) :
                         computeFacets(rows, Empty, filters, d, v, now) \cap kept
                             = computeFacetsInMemory(docs, filters, d, v) \cap kept
  BY DEF EnginesAgree
<1>5. \A f \in filters : sound(f)
  BY <1>1
<1> HIDE DEF docs, kept, values, single, asked, sound
<1>6. ASSUME NEW gs \in SUBSET filters
      PROVE  Found(rows, Empty, gs, now) \cap kept = searchInMemory(docs, gs) \cap kept
  BY <1>3, <1>4, <1>5 DEF Found, buildWhereSql, searchInMemory
<1>7. ASSUME NEW d \in FacetDimension, NEW v \in values(d)
      PROVE  computeFacets(rows, Empty, filters, d, v, now) \cap kept
                 = computeFacetsInMemory(docs, filters, d, v) \cap kept
  <2> DEFINE gs == {f \in filters : f.dimension # d}
  <2>1. Found(rows, Empty, gs, now) \cap kept = searchInMemory(docs, gs) \cap kept
    BY <1>6
  <2> QED
    BY <1>2, <2>1 DEF computeFacets, computeFacetsInMemory
<1> QED
  BY <1>6, <1>7

\* The access policy and the label of one resource.
LEMMA LabelKept ==
    ASSUME NEW r \in Row, NEW n, Kept(r), NEW faculty
    PROVE  LET d == resolve(r, faculty, n)
               label == LabelOf(r, n)
           IN  /\ label = "AVAILABLE" => d.allowed
               /\ label \in {"EMBARGOED", "SUPERVISED_ONLY"} => ~d.allowed
               /\ ~d.allowed => d.status = label
<1> USE RowIs, Columns DEF LabelOf, catalogAccessStatus, resolve, Grant, Deny, Kept
<1>1. CASE r.resourceType = "PHYSICAL_BOOK"
  BY <1>1
<1>2. CASE r.resourceType = "THESIS"
  BY <1>2 DEF resolveThesis
<1>3. CASE r.resourceType = "JOURNAL_ARTICLE"
  BY <1>3 DEF resolveJournalArticle
<1>4. CASE r.resourceType = "RESEARCH_REPORT"
  BY <1>4 DEF resolveResearchReport
<1>5. CASE r.resourceType = "RARE_MATERIAL"
  BY <1>5
<1> QED
  BY <1>1, <1>2, <1>3, <1>4, <1>5 DEF ResourceType

LEMMA PageIsCard ==
    ASSUME NEW r \in Row, NEW n
    PROVE  /\ toPageViewModel(r, n) = toSummaryViewModel(toSummary(r, n))
           /\ toPageViewModel(r, n).accessStatus = LabelOf(r, n)
<1> DEFINE t == r.resourceType
           detail == [c \in ShownColumns[t] |-> r.detail[c]]
<1>1. [c \in ShownColumns[t] |-> Column(r, c)] = detail
  BY Columns
<1>2. catalogAccessStatus(t,
            IF t = "THESIS" THEN r.detail.embargoUntil ELSE Null,
            IF t = "RESEARCH_REPORT" THEN r.detail.departmentScope ELSE Null, n)
        = LabelOf(r, n)
  BY Columns DEF LabelOf
<1>3. toPageViewModel(r, n) = ViewModel(t, r.department, LabelOf(r, n), detail)
  BY <1>2 DEF toPageViewModel
<1>4. toSummaryViewModel(toSummary(r, n)) = ViewModel(t, r.department, LabelOf(r, n), detail)
  BY <1>1 DEF toSummaryViewModel, toSummary, LabelOf
<1> HIDE DEF detail
<1> QED
  BY <1>3, <1>4 DEF ViewModel

LEMMA LabelPromise ==
    ASSUME rows \in Seq(Row), now \in Nat
    PROVE  LabelPromisesAccess
<1> SUFFICES ASSUME NEW i \in DOMAIN rows, Kept(rows[i])
             PROVE  LET page  == toPageViewModel(rows[i], now)
                        label == page.accessStatus
                        told  == {getAccessDecision(rows, i, f, now) : f \in Faculties \cup {Null}}
                    IN  /\ page = toSummaryViewModel(toSummary(rows[i], now))
                        /\ label = "AVAILABLE" => \A d \in told : d.allowed
                        /\ label \in {"EMBARGOED", "SUPERVISED_ONLY"} => \A d \in told : ~d.allowed
                        /\ \A d \in told : ~d.allowed => d.status = label
  BY DEF LabelPromisesAccess, Kept
<1>1. rows[i] \in Row
  OBVIOUS
<1>2. findById(rows, i) = {rows[i]}
  BY DEF findById
<1>3. \A f : getAccessDecision(rows, i, f, now) = resolve(rows[i], f, now)
  BY <1>2 DEF getAccessDecision
<1> QED
  BY <1>1, <1>3, PageIsCard, LabelKept

-----------------------------------------------------------------------------
(* The order of a search and its pages *)

\* A table: rows, each with its own place in the order.
Table(t) ==
    /\ t \in Seq(Row)
    /\ \A i, j \in DOMAIN t : t[i].stamp = t[j].stamp => i = j

Before(t, text, found, i) == {j \in found : Precedes(t, text, j, i)}
Rank(t, text, found, i) == Cardinality(Before(t, text, found, i))

LEMMA PrecedesOrder ==
    ASSUME NEW t, Table(t), NEW text
    PROVE  \A i, j, k \in DOMAIN t :
             /\ ~Precedes(t, text, i, i)
             /\ Precedes(t, text, i, j) /\ Precedes(t, text, j, k) => Precedes(t, text, i, k)
             /\ i # j => Precedes(t, text, i, j) \/ Precedes(t, text, j, i)
<1> SUFFICES ASSUME NEW i \in DOMAIN t, NEW j \in DOMAIN t, NEW k \in DOMAIN t
             PROVE  /\ ~Precedes(t, text, i, i)
                    /\ Precedes(t, text, i, j) /\ Precedes(t, text, j, k) => Precedes(t, text, i, k)
                    /\ i # j => Precedes(t, text, i, j) \/ Precedes(t, text, j, i)
  OBVIOUS
<1>1. t[i].stamp \in Int /\ t[j].stamp \in Int /\ t[k].stamp \in Int
  <2>1. t[i] \in Row /\ t[j] \in Row /\ t[k] \in Row
    BY DEF Table
  <2> QED
    BY <2>1, RowIs
<1>2. i # j => t[i].stamp # t[j].stamp
  BY DEF Table
<1> QED
  BY <1>1, <1>2 DEF Precedes

\* The ranks of the n resources found are 0 to n - 1, each once.
LEMMA Ranks ==
    ASSUME NEW t, Table(t), NEW text, NEW found \in SUBSET DOMAIN t
    PROVE  /\ IsFiniteSet(found) /\ Cardinality(found) \in Nat
           /\ \A i \in found : Rank(t, text, found, i) \in 0 .. (Cardinality(found) - 1)
           /\ \A i, j \in found : Rank(t, text, found, i) = Rank(t, text, found, j) => i = j
           /\ \A k \in 0 .. (Cardinality(found) - 1) : \E i \in found : Rank(t, text, found, i) = k
<1> DEFINE n    == Cardinality(found)
           B(i) == Before(t, text, found, i)
           R(i) == Rank(t, text, found, i)
           rank == [i \in found |-> R(i)]
<1>1. IsFiniteSet(found) /\ n \in Nat
  <2>1. IsFiniteSet(DOMAIN t)
    <3>1. DOMAIN t = 1 .. Len(t) /\ Len(t) \in Nat
      BY DEF Table
    <3> QED
      BY <3>1, FS_Interval
  <2> QED
    BY <2>1, FS_Subset, FS_CardinalityType
<1>2. ASSUME NEW i \in found
      PROVE  IsFiniteSet(B(i)) /\ R(i) \in 0 .. (n - 1)
  <2>1. B(i) \subseteq found \ {i}
    BY PrecedesOrder DEF Before
  <2>2. IsFiniteSet(found \ {i}) /\ Cardinality(found \ {i}) = n - 1
    BY <1>1, FS_RemoveElement
  <2>3. IsFiniteSet(B(i)) /\ Cardinality(B(i)) <= n - 1
    BY <2>1, <2>2, FS_Subset
  <2>4. Cardinality(B(i)) \in Nat
    BY <2>3, FS_CardinalityType
  <2> QED
    BY <1>1, <2>3, <2>4 DEF Rank
<1>3. ASSUME NEW i \in found, NEW j \in found, Precedes(t, text, i, j)
      PROVE  R(i) # R(j)
  <2>1. B(i) \subseteq B(j)
    BY <1>3, PrecedesOrder DEF Before
  <2>2. i \in B(j) /\ i \notin B(i)
    BY <1>3, PrecedesOrder DEF Before
  <2>3. Cardinality(B(j)) = Cardinality(B(i)) => B(j) = B(i)
    BY <1>2, <2>1, FS_Subset
  <2> QED
    BY <2>2, <2>3 DEF Rank
<1>4. ASSUME NEW i \in found, NEW j \in found, R(i) = R(j)
      PROVE  i = j
  BY <1>3, <1>4, PrecedesOrder
<1>5. rank \in Injection(found, 0 .. (n - 1))
  <2>1. rank \in [found -> 0 .. (n - 1)]
    BY <1>2
  <2>2. IsInjective(rank)
    BY <1>4 DEF IsInjective
  <2> QED
    BY <2>1, <2>2 DEF Injection
<1>6. IsFiniteSet(0 .. (n - 1)) /\ Cardinality(0 .. (n - 1)) = n
  <2> HIDE DEF n
  <2>1. 0 \in Int /\ n - 1 \in Int
    BY <1>1
  <2>2. /\ IsFiniteSet(0 .. (n - 1))
        /\ Cardinality(0 .. (n - 1)) = IF 0 > n - 1 THEN 0 ELSE (n - 1) - 0 + 1
    BY <2>1, FS_Interval
  <2> QED
    BY <1>1, <2>2
<1>7. rank \in Surjection(found, 0 .. (n - 1))
  <2> HIDE DEF rank, n
  <2> QED
    BY <1>5, <1>6, FS_Injection DEF n
<1>8. \A k \in 0 .. (n - 1) : \E i \in found : R(i) = k
  BY <1>7 DEF Surjection
<1> QED
  BY <1>1, <1>2, <1>4, <1>8

\* No resource moves forward when others are added.
LEMMA RanksGrow ==
    ASSUME NEW t, Table(t), NEW u, Table(u), NEW text,
           DOMAIN t \subseteq DOMAIN u, \A i \in DOMAIN t : u[i] = t[i],
           NEW found \in SUBSET DOMAIN t, NEW more \in SUBSET DOMAIN u, found \subseteq more,
           NEW i \in found
    PROVE  Rank(t, text, found, i) <= Rank(u, text, more, i)
<1>1. Before(t, text, found, i) \subseteq Before(u, text, more, i)
  BY DEF Before, Precedes
<1>2. IsFiniteSet(Before(u, text, more, i))
  <2>1. IsFiniteSet(more)
    BY Ranks
  <2> QED
    BY <2>1, FS_Subset DEF Before
<1> QED
  BY <1>1, <1>2, FS_Subset DEF Rank

PageType == [page : Nat \ {0}, size : 1 .. MaxPageSize]

\* Where a page begins.
Offset(page) == (page.page - 1) * page.size

LEMMA OffsetIs ==
    ASSUME NEW page \in PageType
    PROVE  /\ page.page \in Nat /\ page.page >= 1
           /\ page.size \in Nat /\ page.size >= 1
           /\ Offset(page) \in Nat
           /\ page.page * page.size = Offset(page) + page.size
<1> DEFINE p == page.page
           s == page.size
<1>1. p \in Nat /\ p >= 1 /\ s \in Nat /\ s >= 1
  BY CatalogAssumption DEF PageType
<1> SUFFICES (p - 1) * s \in Nat /\ p * s = (p - 1) * s + s
  BY <1>1 DEF Offset
<1> HIDE DEF p, s
<1> QED
  BY <1>1, SMT

\* A page holds the resources whose rank is between its offset and the next.
LEMMA PageIs ==
    ASSUME NEW t, Table(t), NEW text, NEW found \in SUBSET DOMAIN t, NEW page \in PageType,
           NEW i \in found
    PROVE  i \in PageOf(t, text, found, page) <=>
             /\ Offset(page) <= Rank(t, text, found, i)
             /\ Rank(t, text, found, i) < Offset(page) + page.size
<1> DEFINE k == Rank(t, text, found, i)
           p == page.page - 1
           s == page.size
<1>1. k \in Nat /\ p \in Nat /\ s \in Nat /\ s > 0
  <2>1. k \in 0 .. (Cardinality(found) - 1)
    BY Ranks
  <2>2. k \in Nat
    BY <2>1
  <2> HIDE DEF k
  <2> QED
    BY <2>2, OffsetIs
<1>2. i \in PageOf(t, text, found, page) <=> k \div s = p
  BY DEF PageOf, Rank, Before
<1> HIDE DEF k, p, s
<1> DEFINE q == k \div s
           m == k % s
<1>3. q \in Int /\ m \in 0 .. (s - 1) /\ k = s * q + m
  BY <1>1, SMT
<1> HIDE DEF q, m
<1>4. CASE q = p
  <2>1. p * s <= k /\ k < p * s + s
    BY <1>1, <1>3, <1>4, SMT
  <2> QED
    BY <1>2, <1>4, <2>1 DEF q, k, p, s, Offset
<1>5. CASE q < p
  <2>1. s * (p - q - 1) >= 0
    BY <1>1, <1>3, <1>5, SMT
  <2>2. k < p * s
    BY <1>1, <1>3, <2>1, SMT
  <2>3. k < Offset(page)
    BY <2>2 DEF p, s, Offset
  <2>4. Offset(page) \in Int
    BY OffsetIs
  <2>5. ~(Offset(page) <= k)
    BY <1>1, <2>3, <2>4
  <2> QED
    BY <1>1, <1>2, <1>3, <1>5, <2>5 DEF q, k
<1>6. CASE q > p
  <2>1. s * (q - p - 1) >= 0
    BY <1>1, <1>3, <1>6, SMT
  <2>2. k >= p * s + s
    BY <1>1, <1>3, <2>1, SMT
  <2>3. k >= Offset(page) + page.size
    BY <2>2 DEF p, s, Offset
  <2>4. Offset(page) + page.size \in Int
    BY OffsetIs
  <2>5. ~(k < Offset(page) + page.size)
    BY <1>1, <2>3, <2>4
  <2> QED
    BY <1>1, <1>2, <1>3, <1>6, <2>5 DEF q, k
<1> QED
  BY <1>1, <1>3, <1>4, <1>5, <1>6

\* A page is full, or holds all that is left.
LEMMA PageHolds ==
    ASSUME NEW t, Table(t), NEW text, NEW found \in SUBSET DOMAIN t, NEW page \in PageType
    PROVE  LET items == PageOf(t, text, found, page)
               left  == Cardinality(found) - Offset(page)
           IN  /\ items \subseteq found /\ IsFiniteSet(items)
               /\ Cardinality(items) \in Nat
               /\ Cardinality(items) <= page.size
               /\ left > 0 => Cardinality(items) = IF left < page.size THEN left ELSE page.size
<1> DEFINE items == PageOf(t, text, found, page)
           n     == Cardinality(found)
           lo    == Offset(page)
           s     == page.size
           hi    == IF n < lo + s THEN n - 1 ELSE lo + s - 1
           R(i)  == Rank(t, text, found, i)
           rank  == [i \in items |-> R(i)]
<1>1. items \subseteq found
  BY DEF PageOf
<1>2. n \in Nat /\ lo \in Nat /\ s \in Nat /\ s >= 1
  BY Ranks, OffsetIs
<1>3. hi \in Int
  BY <1>2
<1>4. \A i \in found : R(i) \in 0 .. (n - 1)
  BY Ranks
<1>5. \A i \in found : i \in items <=> lo <= R(i) /\ R(i) < lo + s
  BY PageIs
<1> HIDE DEF items, n, lo, s, R
<1>6. \A i \in found : i \in items <=> R(i) \in lo .. hi
  BY <1>2, <1>4, <1>5
<1>7. rank \in Bijection(items, lo .. hi)
  <2>1. rank \in [items -> lo .. hi]
    BY <1>1, <1>6
  <2>2. IsInjective(rank)
    <3>1. \A i, j \in items : R(i) = R(j) => i = j
      BY <1>1, Ranks DEF R
    <3> QED
      BY <3>1 DEF IsInjective
  <2>3. ASSUME NEW k \in lo .. hi PROVE \E i \in items : rank[i] = k
    <3>1. k \in 0 .. (n - 1)
      BY <1>2, <1>3
    <3>2. PICK i \in found : R(i) = k
      BY <3>1, Ranks DEF R, n
    <3>3. i \in items
      BY <1>6, <3>2
    <3> QED
      BY <3>2, <3>3
  <2> QED
    BY <2>1, <2>2, <2>3 DEF Bijection, Injection, Surjection
<1>8. IsFiniteSet(items)
  BY <1>1, Ranks, FS_Subset
<1>9. Cardinality(items) = Cardinality(lo .. hi)
  <2>1. ExistsBijection(items, lo .. hi)
    BY <1>7 DEF ExistsBijection
  <2> QED
    BY <1>8, <2>1, FS_Bijection
<1>10. Cardinality(lo .. hi) = IF lo > hi THEN 0 ELSE hi - lo + 1
  <2> HIDE DEF hi
  <2> QED
    BY <1>2, <1>3, FS_Interval
<1>11. /\ Cardinality(items) \in Nat
       /\ Cardinality(items) <= s
       /\ n - lo > 0 => Cardinality(items) = IF n - lo < s THEN n - lo ELSE s
  BY <1>2, <1>9, <1>10
<1> QED
  BY <1>1, <1>8, <1>11 DEF items, n, lo, s

-----------------------------------------------------------------------------
(* The inductive invariant of the walk *)

Steps == {"idle", "count", "page", "facets", "shown"}
WalkFields == {"step", "input", "query", "asked", "pages", "linked", "total", "items", "types",
               "due", "seen", "atCount", "calm"}

\* An address a request can have: the API has looked at its numbers.
Askable(input) == InputOK(input) /\ (input.via = "api" => SearchRequest(input))

Walking == walk.step # "idle"
Answered == walk.step \in {"facets", "shown"}

WalkOK ==
    /\ walk.step \in Steps
    /\ Walking =>
        /\ DOMAIN walk = WalkFields
        /\ Askable(walk.input) /\ walk.query = QueryOf(walk.input)
        /\ walk.query.filters \subseteq walk.asked
        /\ walk.pages \in Nat
        /\ walk.items \subseteq DOMAIN rows /\ Cardinality(walk.items) <= walk.query.page.size
        /\ walk.atCount \subseteq DOMAIN rows

\* The count holds as a lower bound: what was found then is still found.
CountKept ==
    walk.step \in {"page", "facets", "shown"} =>
        /\ walk.total = Cardinality(walk.atCount)
        /\ Lasting(walk.query) => walk.atCount \subseteq FoundNow

\* A link leads to a page that begins within what is found.
LinkReaches ==
    Walking /\ walk.linked /\ Lasting(walk.query) => Offset(walk.query.page) < Cardinality(FoundNow)

PageFull ==
    Answered /\ Lasting(walk.query) =>
        LET page == walk.query.page
            left == walk.total - Offset(page)
        IN  left > 0 => Cardinality(walk.items) >= IF left < page.size THEN left ELSE page.size

TypesAdd ==
    /\ walk.step = "shown" /\ Lasting(walk.query)
    /\ \A f \in walk.query.filters : f.dimension # "RESOURCE_TYPE"
    => walk.types >= walk.total

\* The rank up to which the reader has been shown what there is.
Done == Offset(walk.query.page) + (IF Answered THEN walk.query.page.size ELSE 0)

\* The reader came from the first page and the links kept the search.
Straight ==
    /\ walk.pages = walk.query.page.page
    /\ walk.query.filters = walk.asked /\ Lasting(walk.query)

\* What was there at the start and now stands before that rank was seen: the
\* rows that came in between only move the others back.
SeenSoFar ==
    Walking /\ Straight =>
        \A i \in walk.due :
            /\ i \in FoundNow
            /\ Rank(rows, walk.query.text, FoundNow, i) < Done => i \in walk.seen

IInv ==
    /\ Table(rows) /\ now \in 0 .. MaxTime
    /\ WalkOK /\ CountKept /\ LinkReaches /\ LinkedPagesNotEmpty
    /\ PageFull /\ TypesAdd /\ SeenSoFar /\ WalkSeesAll

-----------------------------------------------------------------------------
(* What requests ask for *)

LEMMA Clamped ==
    ASSUME NEW p \in {NotFinite} \cup Int, NEW s \in {NotFinite} \cup Int
    PROVE  /\ clampPagination(p, s) \in PageType
           /\ p \in Nat \ {0} => clampPagination(p, s).page = p
BY CatalogAssumption DEF clampPagination, PageType

\* The numbers a request is clamped from.
PageAsked(input) ==
    IF input.via = "portal" THEN PortalNumber(input.page, 1)
    ELSE IF input.page = Null THEN 1 ELSE input.page
SizeAsked(input) ==
    IF input.via = "portal" THEN PortalNumber(input.size, PortalDefaultSize)
    ELSE IF input.size = Null THEN DefaultPageSize ELSE input.size

LEMMA QueryIs ==
    ASSUME NEW input, InputOK(input)
    PROVE  /\ QueryOf(input) = [text |-> IF input.q = Null THEN Empty ELSE input.q,
                                filters |-> Chosen(input),
                                page |-> clampPagination(PageAsked(input), SizeAsked(input))]
           /\ PageAsked(input) \in {NotFinite} \cup Int
           /\ SizeAsked(input) \in {NotFinite} \cup Int
<1>1. QueryOf(input) = Query(input, clampPagination(PageAsked(input), SizeAsked(input)))
  BY DEF QueryOf, portalQuery, apiQuery, PageAsked, SizeAsked
<1>2. PageAsked(input) \in {NotFinite} \cup Int /\ SizeAsked(input) \in {NotFinite} \cup Int
  BY CatalogAssumption DEF InputOK, PageAsked, SizeAsked, PortalNumber, PortalDefaultSize
<1> QED
  BY <1>1, <1>2 DEF Query

LEMMA QueryPage ==
    ASSUME NEW input, InputOK(input)
    PROVE  /\ QueryOf(input).page \in PageType
           /\ QueryOf(input).text = IF input.q = Null THEN Empty ELSE input.q
BY QueryIs, Clamped

\* A link asks for the next page of the same size and text, and drops no
\* filter but the type's.
LEMMA NextInput ==
    ASSUME NEW input, Askable(input), NEW p \in Nat,
           NEW next, next = IF input.via = "portal" THEN NextLink(input, p)
                            ELSE [input EXCEPT !.page = p + 1]
    PROVE  /\ Askable(next)
           /\ QueryOf(next).text = QueryOf(input).text
           /\ QueryOf(next).page.page = p + 1
           /\ QueryOf(next).page.size = QueryOf(input).page.size
           /\ QueryOf(next).filters \subseteq QueryOf(input).filters
           /\ \A f \in QueryOf(input).filters :
                 f.dimension # "RESOURCE_TYPE" => f \in QueryOf(next).filters
<1> USE DEF Askable
<1>1. /\ DOMAIN next = DOMAIN input
      /\ next.via = input.via /\ next.q = input.q /\ next.size = input.size
      /\ next.page = p + 1
      /\ DOMAIN next.filters = DOMAIN input.filters
      /\ \A d \in DOMAIN input.filters : \/ next.filters[d] = input.filters[d]
                                         \/ d = "RESOURCE_TYPE" /\ next.filters[d] = Null
  <2>1. CASE input.via = "portal"
    <3>1. next = [input EXCEPT !.page = p + 1,
                               !.filters = [input.filters EXCEPT !.RESOURCE_TYPE = Null]]
      BY <2>1 DEF NextLink, InputOK
    <3>2. next.filters = [input.filters EXCEPT !.RESOURCE_TYPE = Null]
      BY <3>1 DEF InputOK
    <3> QED
      BY <3>1, <3>2 DEF InputOK
  <2>2. CASE input.via # "portal"
    BY <2>2 DEF InputOK
  <2> QED
    BY <2>1, <2>2
<1>2. p + 1 \in Nat \ {0} /\ p + 1 \in Int /\ p + 1 # 0
  OBVIOUS
<1>3. InputOK(next)
  BY <1>1, <1>2 DEF InputOK
<1>4. Askable(next)
  BY <1>1, <1>2, <1>3 DEF SearchRequest
<1>5. PageAsked(next) = p + 1
  BY <1>1, <1>2, CatalogAssumption DEF PageAsked, PortalNumber
<1>6. SizeAsked(next) = SizeAsked(input)
  BY <1>1 DEF SizeAsked
<1>7. /\ QueryOf(next).text = QueryOf(input).text
      /\ QueryOf(next).page.page = p + 1
      /\ QueryOf(next).page.size = QueryOf(input).page.size
  <2>1. QueryOf(next).page = clampPagination(p + 1, SizeAsked(input))
    BY <1>3, <1>5, <1>6, QueryIs
  <2>2. QueryOf(input).page = clampPagination(PageAsked(input), SizeAsked(input))
    BY QueryIs
  <2>3. QueryOf(next).page.page = p + 1
    BY <1>2, <2>1, QueryIs, Clamped
  <2>4. QueryOf(next).page.size = QueryOf(input).page.size
    BY <2>1, <2>2 DEF clampPagination
  <2>5. QueryOf(next).text = IF next.q = Null THEN Empty ELSE next.q
    BY <1>3, QueryPage
  <2>6. QueryOf(input).text = IF input.q = Null THEN Empty ELSE input.q
    BY QueryPage
  <2> QED
    BY <1>1, <2>3, <2>4, <2>5, <2>6
<1>8. Chosen(next) \subseteq Chosen(input)
  BY <1>1 DEF Chosen
<1>9. \A f \in Chosen(input) : f.dimension # "RESOURCE_TYPE" => f \in Chosen(next)
  BY <1>1 DEF Chosen
<1> QED
  BY <1>3, <1>4, <1>7, <1>8, <1>9, QueryIs

-----------------------------------------------------------------------------
(* What is found, while rows are added and time passes *)

LEMMA TodayGrows ==
    ASSUME NEW n \in Nat, NEW m \in Nat, n <= m
    PROVE  Today(n) \in Int /\ Today(n) <= Today(m)
<1>1. Today(n) \in Int /\ Today(m) \in Int
  BY CatalogAssumption DEF Today
<1>2. Midnight(Today(n)) \in Int
  BY <1>1, CatalogAssumption DEF Midnight
<1>3. ~(Midnight(Today(n)) > n)
  BY <1>1, DateReached
<1>4. ~(Midnight(Today(n)) > m)
  BY <1>2, <1>3
<1> QED
  BY <1>1, <1>4, DateReached

LEMMA MatchLasts ==
    ASSUME NEW r \in Row, NEW n \in Nat, NEW m \in Nat, n <= m,
           NEW f, f = [dimension |-> f.dimension, value |-> f.value], f.dimension \in FacetDimension,
           f # [dimension |-> "ACCESS_STATUS", value |-> "EMBARGOED"],
           filterSql(f, r, n)
    PROVE  filterSql(f, r, m)
<1>1. CASE f.dimension # "ACCESS_STATUS"
  BY <1>1 DEF filterSql, FacetDimension
<1>2. CASE f.dimension = "ACCESS_STATUS"
  <2>1. f.value # "EMBARGOED"
    BY <1>2
  <2>2. Lapsed(r, n) => Lapsed(r, m)
    <3>1. Column(r, "embargoUntil") \in Dates \cup {Null}
      BY Columns
    <3>2. Today(n) \in Int /\ Today(m) \in Int /\ Today(n) <= Today(m)
      BY TodayGrows
    <3>3. CASE Column(r, "embargoUntil") = Null
      BY <3>3 DEF Lapsed
    <3>4. CASE Column(r, "embargoUntil") \in Int
      BY <3>2, <3>4 DEF Lapsed
    <3> QED
      BY <3>1, <3>3, <3>4, CatalogAssumption
  <2>3. accessStatusFilterSql(f.value, r, n) => accessStatusFilterSql(f.value, r, m)
    BY <2>1, <2>2 DEF accessStatusFilterSql
  <2> QED
    BY <1>2, <2>3 DEF filterSql
<1> QED
  BY <1>1, <1>2

LEMMA FoundGrows ==
    ASSUME NEW t, Table(t), NEW u, Table(u),
           DOMAIN t \subseteq DOMAIN u, \A i \in DOMAIN t : u[i] = t[i],
           NEW n \in Nat, NEW m \in Nat, n <= m,
           NEW input, InputOK(input), Lasting(QueryOf(input)), NEW text
    PROVE  Found(t, text, QueryOf(input).filters, n) \subseteq Found(u, text, QueryOf(input).filters, m)
<1> SUFFICES ASSUME NEW i \in Found(t, text, QueryOf(input).filters, n)
             PROVE  i \in Found(u, text, QueryOf(input).filters, m)
  OBVIOUS
<1>1. i \in DOMAIN t /\ i \in DOMAIN u /\ u[i] = t[i] /\ t[i] \in Row
  BY DEF Found, Table
<1>2. ASSUME NEW f \in QueryOf(input).filters
      PROVE  filterSql(f, t[i], m)
  <2>1. /\ f = [dimension |-> f.dimension, value |-> f.value] /\ f.dimension \in FacetDimension
        /\ f # [dimension |-> "ACCESS_STATUS", value |-> "EMBARGOED"]
    BY <1>2, ChosenIs DEF Lasting
  <2>2. filterSql(f, t[i], n)
    BY <1>2 DEF Found, buildWhereSql
  <2> QED
    BY <1>1, <2>1, <2>2, MatchLasts
<1> QED
  BY <1>1, <1>2 DEF Found, buildWhereSql

LEMMA FewerFilters ==
    ASSUME NEW t, NEW text, NEW n, NEW fs, NEW gs \in SUBSET fs
    PROVE  Found(t, text, fs, n) \subseteq Found(t, text, gs, n)
BY DEF Found, buildWhereSql

-----------------------------------------------------------------------------
(* Librarians and the clock *)

LEMMA FoundIn ==
    FoundNow \subseteq DOMAIN rows
BY DEF FoundNow, Matches, Found

\* Nothing a walk knows is lost when rows are added or time passes.
LEMMA AroundKeeps ==
    ASSUME IInv, Table(rows'),
           DOMAIN rows \subseteq DOMAIN rows', \A i \in DOMAIN rows : rows'[i] = rows[i],
           now' \in 0 .. MaxTime, now <= now', walk' = walk
    PROVE  IInv'
<1> USE DEF IInv
<1> DEFINE text == walk.query.text
<1>1. Walking' = Walking /\ Answered' = Answered /\ HasNext' = HasNext
  BY DEF Walking, Answered, HasNext
<1>2. FoundNow' \subseteq DOMAIN rows'
  BY DEF FoundNow, Matches, Found
<1>3. WalkOK'
  BY <1>1 DEF WalkOK, Walking
<1>4. ASSUME Walking, Lasting(walk.query)
      PROVE  FoundNow \subseteq FoundNow'
  <2>1. InputOK(walk.input) /\ walk.query = QueryOf(walk.input)
    BY <1>4 DEF WalkOK, Askable
  <2>2. now \in Nat /\ now' \in Nat
    BY BoundsAssumption
  <2>3. Found(rows, text, QueryOf(walk.input).filters, now)
          \subseteq Found(rows', text, QueryOf(walk.input).filters, now')
    BY <1>4, <2>1, <2>2, FoundGrows
  <2> QED
    BY <2>1, <2>3 DEF FoundNow, Matches
<1>5. ASSUME Walking, Lasting(walk.query)
      PROVE  /\ Cardinality(FoundNow) \in Nat /\ Cardinality(FoundNow') \in Nat
             /\ Cardinality(FoundNow) <= Cardinality(FoundNow')
  <2>1. /\ IsFiniteSet(FoundNow) /\ Cardinality(FoundNow) \in Nat
        /\ IsFiniteSet(FoundNow') /\ Cardinality(FoundNow') \in Nat
    BY <1>2, FoundIn, Ranks
  <2> QED
    BY <1>4, <1>5, <2>1, FS_Subset
<1>6. Walking => walk.query.page \in PageType
  BY QueryPage DEF WalkOK, Askable
<1>7. CountKept'
  BY <1>4 DEF CountKept, Walking, Lasting
<1>8. LinkReaches'
  <2> SUFFICES ASSUME Walking, walk.linked, Lasting(walk.query)
               PROVE  Offset(walk.query.page) < Cardinality(FoundNow')
    BY <1>1 DEF LinkReaches, Lasting, Offset
  <2>1. Offset(walk.query.page) < Cardinality(FoundNow) /\ Offset(walk.query.page) \in Nat
    BY <1>6, OffsetIs DEF LinkReaches
  <2> QED
    BY <1>5, <2>1
<1>9. LinkedPagesNotEmpty'
  BY DEF LinkedPagesNotEmpty, Lasting
<1>10. PageFull' /\ TypesAdd'
  BY <1>1 DEF PageFull, TypesAdd, Lasting, Offset
<1>11. SeenSoFar'
  <2> SUFFICES ASSUME Walking, Straight, NEW i \in walk.due
               PROVE  /\ i \in FoundNow'
                      /\ Rank(rows', text, FoundNow', i) < Done => i \in walk.seen
    BY <1>1 DEF SeenSoFar, Straight, Lasting, Done, Offset
  <2>1. /\ i \in FoundNow
        /\ Rank(rows, text, FoundNow, i) < Done => i \in walk.seen
    BY DEF SeenSoFar
  <2>2. i \in FoundNow'
    BY <1>4, <2>1 DEF Straight
  <2>3. Rank(rows, text, FoundNow, i) <= Rank(rows', text, FoundNow', i)
    BY <1>2, <1>4, <2>1, FoundIn, RanksGrow DEF Straight
  <2>4. /\ Rank(rows, text, FoundNow, i) \in Int /\ Rank(rows', text, FoundNow', i) \in Int
    <3>1. Rank(rows, text, FoundNow, i) \in 0 .. (Cardinality(FoundNow) - 1)
      BY <2>1, FoundIn, Ranks
    <3>2. Rank(rows', text, FoundNow', i) \in 0 .. (Cardinality(FoundNow') - 1)
      BY <1>2, <2>2, Ranks
    <3> QED
      BY <3>1, <3>2
  <2>5. Done \in Int
    <3>1. Offset(walk.query.page) \in Nat /\ walk.query.page.size \in Nat
      BY <1>6, OffsetIs
    <3> QED
      BY <3>1 DEF Done
  <2> QED
    BY <2>1, <2>2, <2>3, <2>4, <2>5
<1>12. WalkSeesAll'
  BY <1>1 DEF WalkSeesAll, Lasting
<1> QED
  BY <1>3, <1>7, <1>8, <1>9, <1>10, <1>11, <1>12

LEMMA InsertKeeps ==
    ASSUME IInv, NEW entity \in ResourceEntity, Insert(entity)
    PROVE  IInv'
<1>1. PICK stamp \in 1 .. MaxRows : /\ \A i \in DOMAIN rows : rows[i].stamp # stamp
                                    /\ rows' = Append(rows, AsRow(entity, stamp))
  BY DEF Insert
<1>2. rows \in Seq(Row) /\ now \in Nat /\ MaxRows \in Nat
  BY BoundsAssumption DEF IInv, Table
<1>3. AsRow(entity, stamp) \in Row
  BY <1>2 DEF Row
<1>4. /\ rows' \in Seq(Row) /\ Len(rows') = Len(rows) + 1
      /\ rows'[Len(rows) + 1] = AsRow(entity, stamp)
      /\ \A i \in DOMAIN rows : i \in DOMAIN rows' /\ rows'[i] = rows[i]
      /\ \A i \in DOMAIN rows' : i \in DOMAIN rows \/ i = Len(rows) + 1
  BY <1>1, <1>2, <1>3
<1>5. AsRow(entity, stamp).stamp = stamp
  BY DEF AsRow
<1>6. Table(rows')
  <2>1. \A i, j \in DOMAIN rows : rows[i].stamp = rows[j].stamp => i = j
    BY DEF IInv, Table
  <2> QED
    BY <1>1, <1>4, <1>5, <2>1 DEF Table
<1>7. now' = now /\ now \in 0 .. MaxTime /\ walk' = walk
  BY DEF Insert, IInv
<1> QED
  BY <1>2, <1>4, <1>6, <1>7, AroundKeeps

\* What a form enters is a resource.
LEMMA EntityOfForm ==
    ASSUME NEW e \in CreationForm
    PROVE  /\ e.resourceType \notin {"THESIS", "RARE_MATERIAL"} => e \in ResourceEntity
           /\ e.resourceType = "THESIS" =>
                (IF e.detail.embargoUntil = Empty THEN [e EXCEPT !.detail.embargoUntil = Null] ELSE e)
                    \in ResourceEntity
           /\ e.resourceType = "RARE_MATERIAL" =>
                (IF e.detail.readingRoomOnly = Null THEN [e EXCEPT !.detail.readingRoomOnly = TRUE] ELSE e)
                    \in ResourceEntity
<1> DEFINE forms == [Detail EXCEPT !.THESIS = [degreeType : DegreeType \cup {Null},
                                               embargoUntil : Dates \cup {Empty, Null}],
                                   !.RARE_MATERIAL = [readingRoomOnly : BOOLEAN \cup {Null}]]
           Entity(t, details) == [resourceType : {t}, department : Departments \cup {Empty, Null},
                                  contains : {"ranked", "unranked", "nowhere"}, detail : details]
<1>1. PICK t \in ResourceType : e \in Entity(t, forms[t])
  BY DEF CreationForm
<1>2. e.resourceType = t
  BY <1>1
<1>3. \A x : x \in Entity(t, Detail[t]) => x \in ResourceEntity
  BY <1>1 DEF ResourceEntity
<1>4. CASE t \notin {"THESIS", "RARE_MATERIAL"}
  <2>1. forms[t] = Detail[t]
    BY <1>1, <1>4 DEF Detail, ResourceType
  <2> QED
    BY <1>1, <1>2, <1>3, <1>4, <2>1
<1>5. CASE t = "THESIS"
  <2>1. forms[t] = [degreeType : DegreeType \cup {Null}, embargoUntil : Dates \cup {Empty, Null}]
    BY <1>5 DEF Detail
  <2>2. Detail[t] = [degreeType : DegreeType \cup {Null}, embargoUntil : Dates \cup {Null}]
    BY <1>5 DEF Detail
  <2> HIDE DEF forms
  <2>3. (IF e.detail.embargoUntil = Empty THEN [e EXCEPT !.detail.embargoUntil = Null] ELSE e)
            \in Entity(t, Detail[t])
    BY <1>1, <2>1, <2>2
  <2> QED
    BY <1>2, <1>3, <1>5, <2>3
<1>6. CASE t = "RARE_MATERIAL"
  <2>1. forms[t] = [readingRoomOnly : BOOLEAN \cup {Null}]
    BY <1>6 DEF Detail
  <2>2. Detail[t] = [readingRoomOnly : BOOLEAN]
    BY <1>6 DEF Detail
  <2> HIDE DEF forms
  <2>3. (IF e.detail.readingRoomOnly = Null THEN [e EXCEPT !.detail.readingRoomOnly = TRUE] ELSE e)
            \in Entity(t, Detail[t])
    <3>1. e \in Entity(t, [readingRoomOnly : BOOLEAN \cup {Null}])
      BY <1>1, <2>1
    <3>2. CASE e.detail.readingRoomOnly = Null
      <4>1. [e EXCEPT !.detail.readingRoomOnly = TRUE] \in Entity(t, [readingRoomOnly : BOOLEAN])
        BY <3>1
      <4> QED
        BY <2>2, <3>2, <4>1
    <3>3. CASE e.detail.readingRoomOnly # Null
      <4>1. e.detail \in [readingRoomOnly : BOOLEAN]
        BY <3>1, <3>3
      <4> QED
        BY <2>2, <3>1, <3>3, <4>1
    <3> QED
      BY <3>2, <3>3
  <2> QED
    BY <1>2, <1>3, <1>6, <2>3
<1> QED
  BY <1>4, <1>5, <1>6

LEMMA CreateKeeps ==
    ASSUME IInv,
           \/ createPhysicalBook \/ createThesis \/ createJournalArticle
           \/ createResearchReport \/ createRareMaterial
    PROVE  IInv'
<1>1. ASSUME NEW t, NEW e \in Forms(t)
      PROVE  e \in CreationForm /\ e.resourceType = t
  BY <1>1 DEF Forms
<1>2. CASE createPhysicalBook \/ createJournalArticle \/ createResearchReport
  <2>1. PICK t \in {"PHYSICAL_BOOK", "JOURNAL_ARTICLE", "RESEARCH_REPORT"}, e \in Stock :
            e \in Forms(t) /\ Insert(e)
    BY <1>2 DEF createPhysicalBook, createJournalArticle, createResearchReport, Forms
  <2>2. e \in ResourceEntity
    BY <1>1, <2>1, EntityOfForm
  <2> QED
    BY <2>1, <2>2, InsertKeeps
<1>3. CASE createThesis
  <2>1. PICK e \in Forms("THESIS") :
            Insert(IF e.detail.embargoUntil = Empty
                   THEN [e EXCEPT !.detail.embargoUntil = Null] ELSE e)
    BY <1>3 DEF createThesis
  <2> QED
    BY <1>1, <2>1, EntityOfForm, InsertKeeps
<1>4. CASE createRareMaterial
  <2>1. PICK e \in Forms("RARE_MATERIAL") :
            Insert(IF e.detail.readingRoomOnly = Null
                   THEN [e EXCEPT !.detail.readingRoomOnly = TRUE] ELSE e)
    BY <1>4 DEF createRareMaterial
  <2> QED
    BY <1>1, <2>1, EntityOfForm, InsertKeeps
<1> QED
  BY <1>2, <1>3, <1>4

LEMMA TickKeeps ==
    ASSUME IInv, Tick
    PROVE  IInv'
<1>1. now' \in 0 .. MaxTime /\ now <= now' /\ rows' = rows /\ walk' = walk
  BY BoundsAssumption DEF Tick, IInv
<1>2. Table(rows')
  BY <1>1 DEF IInv
<1> QED
  BY <1>1, <1>2, AroundKeeps

-----------------------------------------------------------------------------
(* The reader *)

LEMMA OpenKeeps ==
    ASSUME IInv, NEW input \in Inputs, Open(input)
    PROVE  IInv'
<1> DEFINE q == QueryOf(input)
<1>1. /\ rows' = rows /\ now' = now
      /\ walk' = [step |-> "count", input |-> input, query |-> q, asked |-> q.filters,
                  pages |-> 1, linked |-> FALSE, total |-> 0, items |-> {}, types |-> 0,
                  due |-> Matches(q.text, q.filters), seen |-> {}, atCount |-> {}, calm |-> FALSE]
  BY DEF Open
<1>2. /\ walk'.step = "count" /\ walk'.input = input /\ walk'.query = q /\ walk'.asked = q.filters
      /\ walk'.pages = 1 /\ walk'.linked = FALSE /\ walk'.items = {} /\ walk'.atCount = {}
      /\ walk'.due = Matches(q.text, q.filters) /\ DOMAIN walk' = WalkFields
  BY <1>1 DEF WalkFields
<1>3. Askable(input)
  BY InputsAssumption DEF Open, Askable
<1>4. q.page \in PageType
  BY <1>3, QueryPage DEF Askable
<1>5. FoundNow' = walk'.due /\ FoundNow' \subseteq DOMAIN rows
  BY <1>1, <1>2 DEF FoundNow, Matches, Found
<1> HIDE DEF q
<1>6. WalkOK'
  <2>1. Cardinality({}) = 0
    BY FS_EmptySet
  <2>2. q.page.size \in Nat
    BY <1>4, OffsetIs
  <2> QED
    BY <1>2, <1>3, <2>1, <2>2 DEF WalkOK, Walking, Steps, q
<1>7. SeenSoFar'
  <2> SUFFICES ASSUME Straight', NEW i \in walk'.due
               PROVE  i \in FoundNow' /\ ~(Rank(rows, q.text, FoundNow', i) < Done')
    BY <1>1, <1>2 DEF SeenSoFar
  <2>1. Done' = 0
    <3>1. q.page.page = 1
      BY <1>2 DEF Straight
    <3>2. q.page.size \in Nat
      BY <1>4, OffsetIs
    <3>3. Offset(q.page) = 0
      BY <3>1, <3>2 DEF Offset
    <3> QED
      BY <1>2, <3>3 DEF Done, Answered, Offset
  <2>2. Rank(rows, q.text, FoundNow', i) \in 0 .. (Cardinality(FoundNow') - 1)
    BY <1>5, Ranks DEF IInv
  <2>3. ~(Rank(rows, q.text, FoundNow', i) < 0)
    BY <2>2
  <2> QED
    BY <1>5, <2>1, <2>3
<1>8. /\ CountKept' /\ LinkReaches' /\ LinkedPagesNotEmpty' /\ PageFull' /\ TypesAdd' /\ WalkSeesAll'
  BY <1>2 DEF CountKept, LinkReaches, LinkedPagesNotEmpty, PageFull, TypesAdd, WalkSeesAll, Answered
<1> QED
  BY <1>1, <1>6, <1>7, <1>8 DEF IInv

LEMMA CountKeeps ==
    ASSUME IInv, Count
    PROVE  IInv'
<1> USE DEF IInv
<1>1. /\ rows' = rows /\ now' = now /\ walk.step = "count" /\ Walking
      /\ walk' = [walk EXCEPT !.step = "page", !.total = Cardinality(FoundNow), !.atCount = FoundNow]
  BY DEF Count, Walking
<1>2. DOMAIN walk = WalkFields
  BY <1>1 DEF WalkOK
<1>3. /\ walk'.step = "page" /\ walk'.total = Cardinality(FoundNow) /\ walk'.atCount = FoundNow
      /\ walk'.input = walk.input /\ walk'.query = walk.query /\ walk'.asked = walk.asked
      /\ walk'.pages = walk.pages /\ walk'.linked = walk.linked /\ walk'.items = walk.items
      /\ walk'.due = walk.due /\ walk'.seen = walk.seen
      /\ DOMAIN walk' = WalkFields
  BY <1>1, <1>2 DEF WalkFields
<1>4. FoundNow' = FoundNow
  BY <1>1, <1>3 DEF FoundNow, Matches
<1>5. WalkOK'
  BY <1>1, <1>3, FoundIn DEF WalkOK, Walking, Steps
<1>6. CountKept'
  BY <1>3, <1>4 DEF CountKept
<1>7. LinkReaches'
  BY <1>1, <1>3, <1>4 DEF LinkReaches, Walking, Lasting, Offset
<1>8. SeenSoFar'
  <2>1. Done' = Done /\ Straight' = Straight
    BY <1>1, <1>3 DEF Done, Straight, Answered, Offset, Lasting
  <2> QED
    BY <1>1, <1>3, <1>4, <2>1 DEF SeenSoFar
<1>9. LinkedPagesNotEmpty' /\ PageFull' /\ TypesAdd' /\ WalkSeesAll'
  BY <1>3 DEF LinkedPagesNotEmpty, PageFull, TypesAdd, WalkSeesAll, Answered
<1> QED
  BY <1>1, <1>5, <1>6, <1>7, <1>8, <1>9

\* The count of a walk is never more than is found now.
LEMMA TotalBelow ==
    ASSUME IInv, walk.step \in {"page", "facets", "shown"}, Lasting(walk.query)
    PROVE  walk.total \in Nat /\ walk.total <= Cardinality(FoundNow)
<1>1. walk.total = Cardinality(walk.atCount) /\ walk.atCount \subseteq FoundNow
  BY DEF IInv, CountKept
<1>2. IsFiniteSet(FoundNow)
  BY FoundIn, Ranks DEF IInv
<1> QED
  BY <1>1, <1>2, FS_Subset, FS_CardinalityType

LEMMA ReadPageKeeps ==
    ASSUME IInv, ReadPage
    PROVE  IInv'
<1> USE DEF IInv
<1> DEFINE items == PageOf(rows, walk.query.text, FoundNow, walk.query.page)
           page  == walk.query.page
           text  == walk.query.text
           n     == Cardinality(FoundNow)
<1>1. /\ rows' = rows /\ now' = now /\ walk.step = "page" /\ Walking
      /\ walk' = [walk EXCEPT !.step = "facets", !.items = items, !.seen = @ \cup items,
                              !.calm = FoundNow = walk.atCount]
  BY DEF ReadPage, Walking
<1>2. DOMAIN walk = WalkFields /\ page \in PageType
  BY <1>1, QueryPage DEF WalkOK, Askable
<1>3. /\ walk'.step = "facets" /\ walk'.items = items /\ walk'.seen = walk.seen \cup items
      /\ walk'.calm = (FoundNow = walk.atCount)
      /\ walk'.input = walk.input /\ walk'.query = walk.query /\ walk'.asked = walk.asked
      /\ walk'.pages = walk.pages /\ walk'.linked = walk.linked /\ walk'.due = walk.due
      /\ walk'.total = walk.total /\ walk'.atCount = walk.atCount
      /\ DOMAIN walk' = WalkFields
  BY <1>1, <1>2 DEF WalkFields
<1>4. FoundNow' = FoundNow
  BY <1>1, <1>3 DEF FoundNow, Matches
<1>5. IsFiniteSet(FoundNow) /\ n \in Nat
  BY FoundIn, Ranks
<1>6. /\ Offset(page) \in Nat /\ page.size \in Nat /\ page.page \in Nat
      /\ page.page * page.size = Offset(page) + page.size
  BY <1>2, OffsetIs
<1>7. /\ items \subseteq FoundNow
      /\ Cardinality(items) \in Nat
      /\ Cardinality(items) <= page.size
      /\ n - Offset(page) > 0 =>
           Cardinality(items) = IF n - Offset(page) < page.size THEN n - Offset(page) ELSE page.size
  BY <1>2, FoundIn, PageHolds
<1>8. Lasting(walk.query) => walk.total \in Nat /\ walk.total <= n
  BY <1>1, TotalBelow
<1> HIDE DEF items, n
<1>9. WalkOK'
  BY <1>1, <1>3, <1>7, FoundIn DEF WalkOK, Walking, Steps
<1>10. CountKept'
  BY <1>1, <1>3, <1>4 DEF CountKept, Lasting
<1>11. LinkReaches'
  BY <1>1, <1>3, <1>4 DEF LinkReaches, Walking, Lasting, Offset
<1>12. LinkedPagesNotEmpty'
  <2> SUFFICES ASSUME walk.linked, Lasting(walk.query)
               PROVE  items # {}
    BY <1>3 DEF LinkedPagesNotEmpty, Lasting
  <2>1. Offset(page) < n
    BY <1>1 DEF LinkReaches, n
  <2>2. Cardinality(items) >= 1
    BY <1>2, <1>5, <1>6, <1>7, <2>1, OffsetIs
  <2> QED
    BY <2>2, FS_EmptySet
<1>13. PageFull'
  <2> SUFFICES ASSUME Lasting(walk.query), walk.total - Offset(page) > 0
               PROVE  LET left == walk.total - Offset(page)
                      IN  Cardinality(items) >= IF left < page.size THEN left ELSE page.size
    BY <1>3 DEF PageFull, Lasting, Offset
  <2> HIDE DEF page
  <2> QED
    BY <1>5, <1>6, <1>7, <1>8
<1>14. SeenSoFar'
  <2> SUFFICES ASSUME Straight, NEW i \in walk.due
               PROVE  /\ i \in FoundNow
                      /\ Rank(rows, text, FoundNow, i) < Offset(page) + page.size
                           => i \in walk.seen \cup items
    BY <1>1, <1>3, <1>4 DEF SeenSoFar, Straight, Lasting, Done, Answered, Offset
  <2>1. /\ i \in FoundNow
        /\ Rank(rows, text, FoundNow, i) < Offset(page) => i \in walk.seen
    <3>1. Done = Offset(page)
      BY <1>1, <1>6 DEF Done, Answered
    <3> QED
      BY <1>1, <3>1 DEF SeenSoFar
  <2>2. Rank(rows, text, FoundNow, i) \in Nat
    <3>1. Rank(rows, text, FoundNow, i) \in 0 .. (Cardinality(FoundNow) - 1)
      BY <2>1, FoundIn, Ranks
    <3> QED
      BY <3>1
  <2>3. i \in items <=> /\ Offset(page) <= Rank(rows, text, FoundNow, i)
                        /\ Rank(rows, text, FoundNow, i) < Offset(page) + page.size
    BY <1>2, <2>1, FoundIn, PageIs DEF items
  <2> QED
    BY <1>6, <2>1, <2>2, <2>3
<1>15. WalkSeesAll'
  <2> SUFFICES ASSUME Straight, ~HasNext, FoundNow = walk.atCount, NEW i \in walk.due
               PROVE  i \in walk.seen \cup items
    BY <1>3 DEF WalkSeesAll, Straight, HasNext, Lasting
  <2>1. i \in FoundNow
    BY <1>1 DEF SeenSoFar
  <2>2. Rank(rows, text, FoundNow, i) \in 0 .. (n - 1)
    BY <2>1, FoundIn, Ranks DEF n
  <2>3. walk.total = n
    BY <1>1 DEF CountKept, n
  <2>4. n <= Offset(page) + page.size
    BY <1>5, <1>6, <2>3 DEF HasNext
  <2>5. Rank(rows, text, FoundNow, i) < Offset(page) + page.size
    BY <1>5, <1>6, <2>2, <2>4
  <2>6. Straight' /\ Walking' /\ Done' = Offset(page) + page.size
    BY <1>3 DEF Straight, Lasting, Walking, Done, Answered, Offset
  <2> QED
    BY <1>1, <1>3, <1>4, <1>14, <2>5, <2>6 DEF SeenSoFar
<1>16. TypesAdd'
  BY <1>3 DEF TypesAdd
<1> QED
  BY <1>1, <1>9, <1>10, <1>11, <1>12, <1>13, <1>14, <1>15, <1>16

LEMMA ReadFacetsKeeps ==
    ASSUME IInv, ReadFacets
    PROVE  IInv'
<1> USE DEF IInv
<1> DEFINE types == Cardinality(TypeFacets(walk.query))
<1>1. /\ rows' = rows /\ now' = now /\ walk.step = "facets" /\ Walking
      /\ walk' = [walk EXCEPT !.step = "shown", !.types = types]
  BY DEF ReadFacets, Walking
<1>2. DOMAIN walk = WalkFields
  BY <1>1 DEF WalkOK
<1> HIDE DEF types
<1>3. /\ walk'.step = "shown" /\ walk'.types = types /\ walk'.items = walk.items
      /\ walk'.input = walk.input /\ walk'.query = walk.query /\ walk'.asked = walk.asked
      /\ walk'.pages = walk.pages /\ walk'.linked = walk.linked /\ walk'.total = walk.total
      /\ walk'.due = walk.due /\ walk'.seen = walk.seen
      /\ walk'.atCount = walk.atCount /\ walk'.calm = walk.calm
      /\ DOMAIN walk' = WalkFields
  BY <1>1, <1>2 DEF WalkFields
<1>4. FoundNow' = FoundNow
  BY <1>1, <1>3 DEF FoundNow, Matches
<1>5. WalkOK'
  BY <1>1, <1>3 DEF WalkOK, Walking, Steps
<1>6. CountKept'
  BY <1>1, <1>3, <1>4 DEF CountKept, Lasting
<1>7. LinkReaches' /\ LinkedPagesNotEmpty'
  BY <1>1, <1>3, <1>4 DEF LinkReaches, LinkedPagesNotEmpty, Walking, Lasting, Offset
<1>8. PageFull'
  BY <1>1, <1>3 DEF PageFull, Answered, Lasting, Offset
<1>9. SeenSoFar'
  <2>1. Done' = Done /\ Straight' = Straight
    BY <1>1, <1>3 DEF Done, Straight, Answered, Offset, Lasting
  <2> QED
    BY <1>1, <1>3, <1>4, <2>1 DEF SeenSoFar
<1>10. WalkSeesAll'
  BY <1>1, <1>3 DEF WalkSeesAll, HasNext, Lasting
<1>11. TypesAdd'
  <2> SUFFICES ASSUME Lasting(walk.query),
                      \A f \in walk.query.filters : f.dimension # "RESOURCE_TYPE"
               PROVE  types >= walk.total
    BY <1>3 DEF TypesAdd, Lasting
  <2> DEFINE text == walk.query.text
             fs   == walk.query.filters
  <2>1. {f \in fs : f.dimension # "RESOURCE_TYPE"} = fs
    OBVIOUS
  <2>2. \A i \in FoundNow : /\ facetValueExpr("RESOURCE_TYPE", rows[i], now) = rows[i].resourceType
                            /\ rows[i].resourceType # Null
    <3> TAKE i \in FoundNow
    <3>1. rows[i] \in Row
      BY FoundIn DEF Table
    <3>2. rows[i].resourceType \in ResourceType
      BY <3>1, RowIs
    <3> QED
      BY <3>2, TypeNotNullAssumption DEF facetValueExpr
  <2>3. FacetValues(rows, text, fs, "RESOURCE_TYPE", now) = {rows[i].resourceType : i \in FoundNow}
    BY <2>1, <2>2 DEF FacetValues, FoundNow, Matches
  <2>4. \A t : computeFacets(rows, text, fs, "RESOURCE_TYPE", t, now)
                   = {i \in FoundNow : rows[i].resourceType = t}
    BY <2>1, <2>2 DEF computeFacets, FoundNow, Matches
  <2>5. TypeFacets(walk.query) = FoundNow
    BY <2>3, <2>4 DEF TypeFacets
  <2>6. Cardinality(FoundNow) \in Nat
    BY FoundIn, Ranks
  <2> QED
    BY <1>1, <2>5, <2>6, TotalBelow DEF types
<1> QED
  BY <1>1, <1>5, <1>6, <1>7, <1>8, <1>9, <1>10, <1>11

LEMMA FollowNextKeeps ==
    ASSUME IInv, FollowNext
    PROVE  IInv'
<1> USE DEF IInv
<1> DEFINE page == walk.query.page
<1>1. PICK input : /\ input = IF walk.input.via = "portal" THEN NextLink(walk.input, page.page)
                              ELSE [walk.input EXCEPT !.page = page.page + 1]
                   /\ walk' = [walk EXCEPT !.step = "count", !.input = input,
                                           !.query = QueryOf(input), !.pages = @ + 1,
                                           !.linked = TRUE, !.items = {}]
  BY DEF FollowNext
<1>2. rows' = rows /\ now' = now /\ walk.step = "shown" /\ HasNext /\ Walking /\ Answered
  BY DEF FollowNext, Walking, Answered
<1>3. /\ DOMAIN walk = WalkFields /\ Askable(walk.input) /\ walk.query = QueryOf(walk.input)
      /\ walk.query.filters \subseteq walk.asked /\ walk.pages \in Nat
  BY <1>2 DEF WalkOK
<1>4. page \in PageType
  BY <1>3, QueryPage DEF Askable
<1>5. /\ page.page \in Nat /\ page.size \in Nat /\ Offset(page) \in Nat
      /\ page.page * page.size = Offset(page) + page.size
  BY <1>4, OffsetIs
<1> DEFINE q == QueryOf(input)
<1>6. /\ Askable(input)
      /\ q.text = walk.query.text
      /\ q.page.page = page.page + 1 /\ q.page.size = page.size
      /\ q.filters \subseteq walk.query.filters
      /\ \A f \in walk.query.filters : f.dimension # "RESOURCE_TYPE" => f \in q.filters
  BY <1>1, <1>3, <1>5, NextInput
<1>7. /\ walk'.step = "count" /\ walk'.input = input /\ walk'.query = q
      /\ walk'.pages = walk.pages + 1 /\ walk'.linked = TRUE /\ walk'.items = {}
      /\ walk'.asked = walk.asked /\ walk'.due = walk.due /\ walk'.seen = walk.seen
      /\ walk'.atCount = walk.atCount
      /\ DOMAIN walk' = WalkFields
  BY <1>1, <1>3 DEF WalkFields
<1> HIDE DEF q, page
<1>8. Offset(q.page) = Offset(page) + page.size
  BY <1>5, <1>6 DEF Offset
<1>9. FoundNow = Found(rows, walk.query.text, walk.query.filters, now)
      /\ FoundNow' = Found(rows, walk.query.text, q.filters, now)
  BY <1>2, <1>6, <1>7 DEF FoundNow, Matches
<1>10. WalkOK'
  <2>1. Cardinality({}) = 0
    BY FS_EmptySet
  <2> QED
    BY <1>2, <1>3, <1>5, <1>6, <1>7, <2>1 DEF WalkOK, Walking, Steps, q
<1>11. LinkReaches'
  <2> SUFFICES ASSUME Lasting(q)
               PROVE  Offset(q.page) < Cardinality(FoundNow')
    BY <1>7 DEF LinkReaches, Lasting, Offset
  <2>1. Lasting(walk.query)
    BY <1>6 DEF Lasting
  <2>2. Offset(page) + page.size < walk.total
    BY <1>2, <1>5 DEF HasNext, page
  <2>3. walk.total \in Nat /\ walk.total <= Cardinality(FoundNow)
    BY <1>2, <2>1, TotalBelow
  <2>4. FoundNow \subseteq FoundNow'
    BY <1>6, <1>9, FewerFilters
  <2>5. IsFiniteSet(FoundNow') /\ Cardinality(FoundNow') \in Nat /\ Cardinality(FoundNow) \in Nat
    <3>1. FoundNow' \subseteq DOMAIN rows
      BY <1>9 DEF Found
    <3> QED
      BY <3>1, FoundIn, Ranks
  <2>6. Cardinality(FoundNow) <= Cardinality(FoundNow')
    BY <2>4, <2>5, FS_Subset
  <2> QED
    BY <1>5, <1>8, <2>2, <2>3, <2>5, <2>6
<1>12. SeenSoFar'
  <2> SUFFICES ASSUME Straight', NEW i \in walk.due
               PROVE  /\ i \in FoundNow'
                      /\ Rank(rows, walk.query.text, FoundNow', i) < Done' => i \in walk.seen
    BY <1>2, <1>6, <1>7 DEF SeenSoFar
  <2>1. q.filters = walk.query.filters /\ walk.query.filters = walk.asked
    BY <1>3, <1>6, <1>7 DEF Straight
  <2>2. Straight
    <3>1. walk.pages + 1 = page.page + 1
      BY <1>6, <1>7 DEF Straight
    <3>2. Lasting(walk.query)
      BY <1>7, <2>1 DEF Straight, Lasting
    <3>3. walk.pages = page.page
      BY <1>3, <1>5, <3>1
    <3> QED
      BY <2>1, <3>2, <3>3 DEF Straight, page
  <2>3. Done' = Done
    <3>1. Done' = Offset(q.page)
      <4>1. Offset(q.page) \in Nat
        BY <1>5, <1>8
      <4>2. ~Answered'
        BY <1>7 DEF Answered
      <4>3. Done' = Offset(q.page) + 0
        BY <1>7, <4>2 DEF Done, Offset
      <4> QED
        BY <4>1, <4>3
    <3>2. Done = Offset(page) + page.size
      BY <1>2 DEF Done, page
    <3> QED
      BY <1>8, <3>1, <3>2
  <2>4. FoundNow' = FoundNow
    BY <1>9, <2>1
  <2> QED
    BY <1>2, <2>2, <2>3, <2>4 DEF SeenSoFar
<1>13. CountKept' /\ LinkedPagesNotEmpty' /\ PageFull' /\ TypesAdd' /\ WalkSeesAll'
  BY <1>7 DEF CountKept, LinkedPagesNotEmpty, PageFull, TypesAdd, WalkSeesAll, Answered
<1> QED
  BY <1>2, <1>10, <1>11, <1>12, <1>13

LEMMA IdleHolds ==
    ASSUME Table(rows), now \in 0 .. MaxTime, walk = NoWalk
    PROVE  IInv
<1>1. walk.step = "idle"
  BY DEF NoWalk
<1> QED
  BY <1>1 DEF IInv, WalkOK, Steps, Walking, CountKept, LinkReaches, LinkedPagesNotEmpty,
              PageFull, TypesAdd, Answered, SeenSoFar, WalkSeesAll

LEMMA LeaveKeeps ==
    ASSUME IInv, Leave \/ CountFails
    PROVE  IInv'
<1>1. Table(rows') /\ now' \in 0 .. MaxTime /\ walk' = NoWalk
  BY DEF Leave, CountFails, IInv
<1>2. walk'.step = "idle"
  BY <1>1 DEF NoWalk
<1> QED
  BY <1>1, <1>2 DEF IInv, WalkOK, Steps, Walking, CountKept, LinkReaches, LinkedPagesNotEmpty,
                    PageFull, TypesAdd, Answered, SeenSoFar, WalkSeesAll

\* Whatever is added and however time passes between the statements of a search:
\* its count is a lower bound of what is found, a link leads into what is found,
\* and what was there at the start and now stands before the end of the pages
\* shown has been seen.
THEOREM Invariance == Spec => []IInv
<1>1. Init => IInv
  <2> SUFFICES ASSUME Init PROVE IInv
    OBVIOUS
  <2>1. Table(rows)
    BY DEF Init, Table
  <2> QED
    BY <2>1, IdleHolds, BoundsAssumption DEF Init
<1>2. IInv /\ [Next]_vars => IInv'
  <2> SUFFICES ASSUME IInv, [Next]_vars PROVE IInv'
    OBVIOUS
  <2>1. CASE \/ createPhysicalBook \/ createThesis \/ createJournalArticle
             \/ createResearchReport \/ createRareMaterial
    BY <2>1, CreateKeeps
  <2>2. CASE Tick
    BY <2>2, TickKeeps
  <2>3. CASE \E input \in Inputs : Open(input)
    BY <2>3, OpenKeeps
  <2>4. CASE Count
    BY <2>4, CountKeeps
  <2>5. CASE ReadPage
    BY <2>5, ReadPageKeeps
  <2>6. CASE ReadFacets
    BY <2>6, ReadFacetsKeeps
  <2>7. CASE FollowNext
    BY <2>7, FollowNextKeeps
  <2>8. CASE Leave \/ CountFails
    BY <2>8, LeaveKeeps
  <2>9. CASE UNCHANGED vars
    <3>1. Table(rows') /\ rows' = rows /\ now' = now /\ walk' = walk /\ now \in Int
      BY <2>9 DEF vars, IInv
    <3>2. now' \in 0 .. MaxTime /\ now <= now'
      BY <3>1 DEF IInv
    <3> QED
      BY <3>1, <3>2, AroundKeeps
  <2> QED
    BY <2>1, <2>2, <2>3, <2>4, <2>5, <2>6, <2>7, <2>8, <2>9 DEF Next
<1> QED
  BY <1>1, <1>2, PTL DEF Spec

-----------------------------------------------------------------------------
(* The properties *)

\* Rows are resources with distinct places; what a walk shows exists and fits
\* the size that was asked for.
THEOREM TypeCorrect == Spec => []TypeOK
<1>1. IInv => TypeOK
  <2> SUFFICES ASSUME IInv PROVE TypeOK
    OBVIOUS
  <2>1. \A i \in DOMAIN rows : [c \in DOMAIN rows[i] \ {"stamp"} |-> rows[i][c]] \in ResourceEntity
    <3> TAKE i \in DOMAIN rows
    <3>1. rows[i] \in Row
      BY DEF IInv, Table
    <3> QED
      BY <3>1, RowIs
  <2>2. Walking => walk.query.page \in PageType
    BY QueryPage DEF IInv, WalkOK, Askable
  <2> QED
    BY <2>1, <2>2 DEF TypeOK, IInv, Table, WalkOK, Walking, PageType
<1> QED
  BY <1>1, Invariance, PTL

\* In every search that is answered, the number beside a facet value is the number
\* found on choosing it.
THEOREM FacetsPromiseHolds == Spec => []FacetsPromise
<1>1. IInv => FacetsPromise
  BY Promise, BoundsAssumption, InputsAssumption DEF IInv, Table
<1> QED
  BY <1>1, Invariance, PTL

\* The SQL search and the in-memory search find and count the same for filters
\* that are well-formed: an existing type or degree, a year in plain digits.
THEOREM EnginesAgreeHolds == Spec => []EnginesAgree
<1>1. IInv => EnginesAgree
  BY Agreement, BoundsAssumption, InputsAssumption DEF IInv, Table
<1> QED
  BY <1>1, Invariance, PTL

\* A label says what the access policy decides.
THEOREM LabelPromisesAccessHolds == Spec => []LabelPromisesAccess
<1>1. IInv => LabelPromisesAccess
  BY LabelPromise, BoundsAssumption DEF IInv, Table
<1> QED
  BY <1>1, Invariance, PTL

\* A reader who goes through all pages sees all that was there at the start.
THEOREM WalkSeesAllHolds == Spec => []WalkSeesAll
<1>1. IInv => WalkSeesAll
  BY DEF IInv
<1> QED
  BY <1>1, Invariance, PTL

\* A page and the types hold what the count leaves for them.
THEOREM PageAddsUpHolds == Spec => []PageAddsUp
<1>1. IInv => PageAddsUp
  BY DEF IInv, PageFull, TypesAdd, PageAddsUp, Answered, Offset
<1> QED
  BY <1>1, Invariance, PTL

\* A page reached by a link shows something.
THEOREM LinkedPagesNotEmptyHolds == Spec => []LinkedPagesNotEmpty
<1>1. IInv => LinkedPagesNotEmpty
  BY DEF IInv
<1> QED
  BY <1>1, Invariance, PTL
=============================================================================
