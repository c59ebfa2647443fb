------------------------------ MODULE Portal_proofs ------------------------------
(***************************************************************************)
(* Theorems about Portal, for every number of tabs, copies, loans, holds,  *)
(* logins and moves by other members.                                      *)
(***************************************************************************)
EXTENDS Portal, FiniteSetTheorems, WellFoundedInduction, TLAPS

CopyRow == [status : {"AVAILABLE", "ON_LOAN"}, version : Nat]
Shelf == [Copies -> CopyRow]

\* The book as it was, and as it is: every move of a copy takes a version.
Since(old, new) == \A c \in Copies : old[c] = new[c] \/ old[c].version < new[c].version

\* Where an answer may lead: never to a form's address.
Follows == {None, "detail", "home", "deadEnd", "account"}

\* The cookies and the tokens there may be when n were made.
Known(cookie, n) == cookie = None \/ cookie \in 1 .. n

\* A form: its token, and the book its page was made from, of which it offers the
\* first copy that was AVAILABLE.
FormOK(f, n, book) ==
    /\ f.page # "blank" => f.token \in 1 .. n
    /\ f.next \in Follows
    /\ f.copy # None =>
          /\ f.copy \in Copies
          /\ f.version \in Nat
          /\ f.shelf \in Shelf
          /\ \A c \in Copies : c < f.copy => f.shelf[c].status # "AVAILABLE"
          /\ Since(f.shelf, book)

\* A check of a form that has passed, at a time when the loans were before many.
CheckOK(tab, book, lent) ==
    LET f == tab.form IN
    /\ f.copy # None
    /\ tab.seen \in Shelf
    /\ tab.seen[f.copy] = [status |-> "AVAILABLE", version |-> f.version]
    /\ Since(tab.seen, book)
    /\ tab.before \in 0 .. Len(lent)
    /\ \A m \in 1 .. tab.before :
          ~(/\ lent[m].shown = f.copy
            /\ lent[m].version = f.version
            /\ lent[m].copy = lent[m].shown)

TabOK(tab, n, book, lent) ==
    /\ tab.step \in {"page", "asked", "lend", "answered"}
    /\ tab.step = "page" => FormOK(tab.form, n, book) /\ tab.follow \in Follows
    /\ tab.step \in {"asked", "lend"} => FormOK(tab.form, n, book) /\ Known(tab.cookie, n)
    /\ tab.step = "asked" => /\ tab.kind \in Forms => tab.form.page # "blank"
                             /\ tab.kind = "borrow" => tab.form.copy # None
    /\ tab.step = "lend" => CheckOK(tab, book, lent)
    /\ tab.step = "answered" => /\ FormOK(tab.answer.form, n, book)
                                /\ tab.answer.follow \in Follows
                                /\ Known(tab.answer.cookie, n)

\* A copy that was lent as it was shown has left the version it was shown with.
Spent(l, book) == l.copy = l.shown => book[l.shown].version > l.version

Loan == [copy : Copies, shown : Copies, version : Nat, shelf : Shelf, seen : Shelf,
         found : Shelf, before : Nat]

\* The inductive invariant.
IInv ==
    /\ copies \in Shelf
    /\ minted \in Nat /\ blank = minted
    /\ Known(csrfCookie, minted)
    /\ DOMAIN tabs = Tabs
    /\ \A t \in Tabs : TabOK(tabs[t], minted, copies, loans)
    /\ loans \in Seq(Loan)
    /\ \A m \in DOMAIN loans : Spent(loans[m], copies)
    /\ LentAsShown
    /\ ResubmitRefused
    /\ RefusedOnlyAfterRace

-----------------------------------------------------------------------------
\* Copies and the first of them.

LEMMA CopyNumbers == \A c \in Copies : c \in Nat /\ c # None
  BY PortalAssumption

LEMMA RowFields ==
    ASSUME NEW book \in Shelf, NEW c \in Copies
    PROVE  book[c].status \in {"AVAILABLE", "ON_LOAN"} /\ book[c].version \in Nat
  <1>1. book[c] \in CopyRow
    BY DEF Shelf
  <1> QED
    BY <1>1 DEF CopyRow

LEMMA SinceSame == \A book : Since(book, book)
  BY DEF Since

LEMMA SinceTransitive ==
    ASSUME NEW a \in Shelf, NEW b \in Shelf, NEW c \in Shelf, Since(a, b), Since(b, c)
    PROVE  Since(a, c)
  <1> SUFFICES ASSUME NEW d \in Copies
               PROVE  a[d] = c[d] \/ a[d].version < c[d].version
    BY DEF Since
  <1>1. a[d].version \in Nat /\ b[d].version \in Nat /\ c[d].version \in Nat
    BY RowFields
  <1> QED
    BY <1>1 DEF Since

\* A set of copies that is not empty has a lowest one.
LEMMA LowestIs ==
    ASSUME NEW S \in SUBSET Copies, S # {}
    PROVE  Lowest(S) \in S /\ \A d \in S : Lowest(S) <= d
  <1> DEFINE Below(c) == {e \in S : e < c}
             F == {Below(c) : c \in S}
  <1>0. S \in SUBSET Nat /\ IsFiniteSet(S)
    BY PortalAssumption, FS_Subset
  <1>1. \E c \in S : \A d \in S : c <= d
    <2>1. SUFFICES ASSUME \A c \in S : \E d \in S : d < c PROVE FALSE
      BY <1>0
    <2>2. F \subseteq FiniteSubsetsOf(S) /\ F # {}
      <3>1. FiniteSubsetsOf(S) = SUBSET S
        BY <1>0, FS_FiniteSubsetsOfFinite
      <3>2. F \subseteq SUBSET S /\ F # {}
        OBVIOUS
      <3> QED
        BY <3>1, <3>2
    <2>3. IsWellFoundedOn(StrictSubsetOrdering(S), FiniteSubsetsOf(S))
      BY FS_StrictSubsetOrderingWellFounded
    <2> HIDE DEF F
    <2>4. PICK x \in F : \A y \in F : ~(<<y, x>> \in StrictSubsetOrdering(S))
      BY <2>2, <2>3, WFMin
    <2>5. PICK c \in S : x = Below(c)
      BY <2>4 DEF F
    <2>6. PICK d \in S : d < c
      BY <2>1
    <2>7. Below(d) \subseteq Below(c) /\ d \in Below(c) /\ d \notin Below(d)
      <3>1. c \in Nat /\ d \in Nat /\ ~(d < d)
        BY <1>0
      <3>2. \A e \in S : e < d => e < c
        BY <1>0, <2>6
      <3> QED
        BY <2>6, <3>1, <3>2
    <2>8. <<Below(d), x>> \in StrictSubsetOrdering(S)
      BY <2>5, <2>7 DEF StrictSubsetOrdering
    <2>9. Below(d) \in F
      BY DEF F
    <2> QED
      BY <2>4, <2>8, <2>9
  <1> QED
    BY <1>1 DEF Lowest

\* What a move does to the book.
LEMMA MoveIs ==
    ASSUME copies \in Shelf, NEW c \in Copies, NEW status \in {"AVAILABLE", "ON_LOAN"}
    PROVE  /\ Move(c, status) \in Shelf
           /\ Since(copies, Move(c, status))
           /\ Move(c, status)[c].version = copies[c].version + 1
  <1>1. copies[c].version \in Nat /\ copies[c].version < copies[c].version + 1
    BY RowFields
  <1>2. PICK row \in CopyRow :
            row = [status |-> status, version |-> copies[c].version + 1]
    <2>1. \A n \in Nat : [status |-> status, version |-> n] \in CopyRow
      BY DEF CopyRow
    <2>2. copies[c].version + 1 \in Nat
      BY <1>1
    <2> QED
      BY <2>1, <2>2
  <1>3. Move(c, status) = [copies EXCEPT ![c] = row]
    BY <1>2 DEF Move
  <1>4. /\ Move(c, status) \in Shelf
        /\ Move(c, status)[c] = row
        /\ \A d \in Copies : d # c => Move(c, status)[d] = copies[d]
    BY <1>3 DEF Shelf
  <1> QED
    BY <1>1, <1>2, <1>4 DEF Since

-----------------------------------------------------------------------------
\* What the invariant says of a form and of a tab stays true while tokens are
\* made, copies move and loans are added.

LEMMA KnownKept ==
    ASSUME NEW n \in Nat, NEW m \in Nat, n <= m, NEW k, Known(k, n)
    PROVE  Known(k, m)
  BY DEF Known

LEMMA FormKept ==
    ASSUME NEW n \in Nat, NEW m \in Nat, n <= m, NEW f,
           NEW a \in Shelf, NEW b \in Shelf, Since(a, b), FormOK(f, n, a)
    PROVE  FormOK(f, m, b)
  <1>1. f.page # "blank" => f.token \in 1 .. m
    BY DEF FormOK
  <1>2. f.copy # None => Since(f.shelf, b)
    BY SinceTransitive DEF FormOK
  <1> QED
    BY <1>1, <1>2 DEF FormOK

LEMMA CheckKept ==
    ASSUME NEW tab, NEW a \in Shelf, NEW b \in Shelf, Since(a, b),
           NEW old \in Seq(Loan), NEW new \in Seq(Loan), Len(old) <= Len(new),
           \A m \in 1 .. Len(old) : new[m] = old[m], CheckOK(tab, a, old)
    PROVE  CheckOK(tab, b, new)
  <1>1. Since(tab.seen, b)
    BY SinceTransitive DEF CheckOK
  <1>2. /\ tab.before \in 0 .. Len(new)
        /\ \A m \in 1 .. tab.before : new[m] = old[m]
    BY DEF CheckOK
  <1> QED
    BY <1>1, <1>2 DEF CheckOK

LEMMA TabKept ==
    ASSUME NEW n \in Nat, NEW m \in Nat, n <= m, NEW tab,
           NEW a \in Shelf, NEW b \in Shelf, Since(a, b),
           NEW old \in Seq(Loan), NEW new \in Seq(Loan), Len(old) <= Len(new),
           \A i \in 1 .. Len(old) : new[i] = old[i],
           TabOK(tab, n, a, old)
    PROVE  TabOK(tab, m, b, new)
  <1>1. \A f : FormOK(f, n, a) => FormOK(f, m, b)
    BY FormKept
  <1>2. \A k : Known(k, n) => Known(k, m)
    BY KnownKept
  <1>3. CheckOK(tab, a, old) => CheckOK(tab, b, new)
    BY CheckKept
  <1> QED
    BY <1>1, <1>2, <1>3 DEF TabOK

\* The tabs after a step that takes one of them on.
LEMMA TabTaken ==
    ASSUME IInv, NEW t \in Tabs, NEW tab, tabs' = [tabs EXCEPT ![t] = tab],
           minted' \in Nat, minted <= minted',
           copies' \in Shelf, Since(copies, copies'),
           loans' \in Seq(Loan), Len(loans) <= Len(loans'),
           \A m \in 1 .. Len(loans) : loans'[m] = loans[m],
           TabOK(tab, minted', copies', loans')
    PROVE  /\ DOMAIN tabs' = Tabs
           /\ \A u \in Tabs : TabOK(tabs'[u], minted', copies', loans')
  <1>1. /\ DOMAIN tabs' = Tabs
        /\ tabs'[t] = tab
        /\ \A u \in Tabs : u # t => tabs'[u] = tabs[u]
    BY DEF IInv
  <1>2. \A u \in Tabs : TabOK(tabs[u], minted', copies', loans')
    BY TabKept DEF IInv
  <1> QED
    BY <1>1, <1>2

-----------------------------------------------------------------------------
\* Answers.

\* A form the server makes has a token there is, and no book yet.
LEMMA FormMade ==
    ASSUME NEW n \in Nat, NEW k \in 1 .. n, NEW page, NEW book
    PROVE  FormOK(Form(page, k), n, book)
  BY DEF FormOK, Form, Follows

\* Every token is of the request's cookie or made for it, one for each request
\* that came without.
LEMMA TokenMade ==
    ASSUME IInv, NEW t \in Tabs, tabs[t].step \in {"asked", "lend"},
           NEW form, NEW follow, NEW signedIn, Answer(t, form, follow, signedIn)
    PROVE  /\ minted' \in Nat /\ minted <= minted' /\ blank' = minted'
           /\ Token(tabs[t]) \in 1 .. minted'
           /\ Known(tabs[t].cookie, minted)
           /\ minted' = IF tabs[t].cookie = None THEN minted + 1 ELSE minted
  <1>1. minted \in Nat /\ blank = minted /\ Known(tabs[t].cookie, minted)
    BY DEF IInv, TabOK
  <1>2. /\ minted' = IF Token(tabs[t]) > minted THEN Token(tabs[t]) ELSE minted
        /\ blank' = blank + (IF tabs[t].cookie = None THEN 1 ELSE 0)
    BY DEF Answer
  <1>3. CASE tabs[t].cookie = None
    <2>1. Token(tabs[t]) = minted + 1
      BY <1>3 DEF Token
    <2> QED
      BY <1>1, <1>2, <1>3, <2>1
  <1>4. CASE tabs[t].cookie # None
    <2>1. Token(tabs[t]) = tabs[t].cookie /\ Token(tabs[t]) \in 1 .. minted
      BY <1>1, <1>4 DEF Token, Known
    <2> QED
      BY <1>1, <1>2, <1>4, <2>1
  <1> QED
    BY <1>3, <1>4

\* The tab that waits for it has an answer on its way.
LEMMA AnswerTabs ==
    ASSUME IInv, NEW t \in Tabs, tabs[t].step \in {"asked", "lend"},
           NEW form, NEW follow \in Follows, NEW signedIn,
           Answer(t, form, follow, signedIn), FormOK(form, minted', copies'),
           copies' \in Shelf, Since(copies, copies'),
           loans' \in Seq(Loan), Len(loans) <= Len(loans'),
           \A m \in 1 .. Len(loans) : loans'[m] = loans[m]
    PROVE  /\ minted' \in Nat /\ blank' = minted'
           /\ Known(csrfCookie', minted')
           /\ DOMAIN tabs' = Tabs
           /\ \A u \in Tabs : TabOK(tabs'[u], minted', copies', loans')
  <1>1. /\ minted' \in Nat /\ minted <= minted' /\ blank' = minted'
        /\ Token(tabs[t]) \in 1 .. minted'
    BY TokenMade
  <1>2. Known(csrfCookie', minted')
    <2>1. csrfCookie' = csrfCookie
      BY DEF Answer, browserVars
    <2> QED
      BY <1>1, <2>1, KnownKept DEF IInv
  <1> DEFINE cookie == IF Token(tabs[t]) = tabs[t].cookie THEN None ELSE Token(tabs[t])
             tab == [step |-> "answered",
                     answer |-> [form |-> form, follow |-> follow, session |-> signedIn,
                                 cookie |-> cookie]]
  <1>3. tabs' = [tabs EXCEPT ![t] = tab]
    BY DEF Answer
  <1>4. Known(cookie, minted')
    BY <1>1 DEF Known
  <1>5. TabOK(tab, minted', copies', loans')
    BY <1>4 DEF TabOK
  <1> HIDE DEF tab
  <1> QED
    BY <1>1, <1>2, <1>3, <1>5, TabTaken

\* The rest of the invariant, when no copy is lent.
LEMMA HistoryKept ==
    ASSUME IInv, UNCHANGED loans, copies' \in Shelf, Since(copies, copies')
    PROVE  /\ loans' \in Seq(Loan)
           /\ \A m \in DOMAIN loans' : Spent(loans'[m], copies')
           /\ LentAsShown'
           /\ ResubmitRefused'
  <1>1. ASSUME NEW m \in DOMAIN loans PROVE Spent(loans[m], copies')
    <2>1. loans[m] \in Loan
      BY DEF IInv
    <2>2. loans[m].shown \in Copies /\ loans[m].version \in Nat
      BY <2>1 DEF Loan
    <2>3. copies[loans[m].shown].version \in Nat /\ copies'[loans[m].shown].version \in Nat
      BY <2>2, RowFields DEF IInv
    <2> QED
      BY <2>2, <2>3 DEF IInv, Spent, Since
  <1> QED
    BY <1>1 DEF IInv, LentAsShown, ResubmitRefused

\* An answer that lends nothing.
LEMMA AnswerKeeps ==
    ASSUME IInv, NEW t \in Tabs, tabs[t].step \in {"asked", "lend"},
           NEW form, NEW follow \in Follows, NEW signedIn,
           Answer(t, form, follow, signedIn), FormOK(form, minted', copies),
           UNCHANGED <<copies, loans>>, refused' => refused \/ blank' >= 2
    PROVE  IInv'
  <1>1. /\ copies' \in Shelf /\ Since(copies, copies')
        /\ loans' \in Seq(Loan) /\ Len(loans) <= Len(loans')
        /\ \A m \in 1 .. Len(loans) : loans'[m] = loans[m]
    BY SinceSame DEF IInv
  <1>2. /\ minted' \in Nat /\ blank' = minted'
        /\ Known(csrfCookie', minted')
        /\ DOMAIN tabs' = Tabs
        /\ \A u \in Tabs : TabOK(tabs'[u], minted', copies', loans')
    BY <1>1, AnswerTabs
  <1>3. /\ loans' \in Seq(Loan)
        /\ \A m \in DOMAIN loans' : Spent(loans'[m], copies')
        /\ LentAsShown'
        /\ ResubmitRefused'
    BY <1>1, HistoryKept
  <1>4. RefusedOnlyAfterRace'
    <2>1. minted <= minted' /\ blank = minted /\ minted \in Nat
      BY TokenMade DEF IInv
    <2> QED
      BY <1>2, <2>1 DEF IInv, RefusedOnlyAfterRace
  <1> QED
    BY <1>1, <1>2, <1>3, <1>4 DEF IInv

\* A page the tab has already, and a page the server makes without a book.
LEMMA SamePageKeeps ==
    ASSUME IInv, NEW t \in Tabs, tabs[t].step \in {"asked", "lend"},
           NEW follow \in Follows, NEW signedIn, Answer(t, tabs[t].form, follow, signedIn),
           UNCHANGED <<copies, loans>>, refused' => refused \/ blank' >= 2
    PROVE  IInv'
  <1>1. FormOK(tabs[t].form, minted, copies)
    BY DEF IInv, TabOK
  <1>2. minted' \in Nat /\ minted <= minted'
    BY TokenMade
  <1>3. FormOK(tabs[t].form, minted', copies)
    BY <1>1, <1>2, FormKept, SinceSame DEF IInv
  <1> QED
    BY <1>3, AnswerKeeps

LEMMA PlainPageKeeps ==
    ASSUME IInv, NEW t \in Tabs, tabs[t].step \in {"asked", "lend"}, NEW page,
           NEW follow \in Follows, NEW signedIn,
           Answer(t, Form(page, Token(tabs[t])), follow, signedIn),
           UNCHANGED <<copies, loans, refused>>
    PROVE  IInv'
  <1>1. FormOK(Form(page, Token(tabs[t])), minted', copies)
    BY TokenMade, FormMade
  <1> QED
    BY <1>1, AnswerKeeps

\* A login page that leads on.
LEMMA LoginPageKeeps ==
    ASSUME IInv, NEW t \in Tabs, tabs[t].step = "asked", NEW next \in Follows,
           Page(t, [Form("login", Token(tabs[t])) EXCEPT !.next = next]),
           UNCHANGED <<copies, loans, refused>>
    PROVE  IInv'
  <1> DEFINE f == [Form("login", Token(tabs[t])) EXCEPT !.next = next]
  <1>1. Token(tabs[t]) \in 1 .. minted'
    BY TokenMade DEF Page
  <1>2. /\ f.page = "login" /\ f.token = Token(tabs[t])
        /\ f.next = next /\ f.copy = None
    BY DEF Form
  <1> HIDE DEF f
  <1>3. FormOK(f, minted', copies)
    BY <1>1, <1>2 DEF FormOK
  <1> QED
    BY <1>3, AnswerKeeps DEF f, Page, Follows

-----------------------------------------------------------------------------
\* The page of the book offers the first copy that is AVAILABLE.
LEMMA DetailKeeps ==
    ASSUME IInv, NEW t \in Tabs, detail(t)
    PROVE  IInv'
  <1> DEFINE k == Token(tabs[t])
             book == [Form("book", k) EXCEPT !.shelf = copies]
             c == Lowest(Available)
             offer == [book EXCEPT !.copy = c, !.version = copies[c].version]
  <1>1. PICK f : f = (IF Available = {} THEN book ELSE offer) /\ Page(t, f)
    BY DEF detail
  <1>2. tabs[t].step = "asked" /\ UNCHANGED <<copies, loans, refused>>
    BY DEF detail, Served
  <1>3. k \in 1 .. minted'
    BY <1>1, <1>2, TokenMade DEF Page
  <1>4. /\ book.page = "book" /\ book.token = k /\ book.next = None
        /\ book.copy = None /\ book.shelf = copies
        /\ book = [page |-> "book", token |-> k, copy |-> None, version |-> None,
                   next |-> None, shelf |-> copies]
    BY DEF Form
  <1>5. FormOK(f, minted', copies)
    <2>1. CASE Available = {}
      <3>1. f = book
        BY <1>1, <2>1
      <3> HIDE DEF book, k
      <3> QED
        BY <1>3, <1>4, <3>1 DEF FormOK, Follows
    <2>2. CASE Available # {}
      <3>1. Available \in SUBSET Copies
        BY DEF Available
      <3>2. c \in Available /\ \A d \in Available : c <= d
        BY <2>2, <3>1, LowestIs
      <3>3. c \in Copies /\ c # None /\ copies[c].version \in Nat
        BY <3>1, <3>2, CopyNumbers, RowFields DEF IInv
      <3> HIDE DEF k, c
      <3>4. /\ f.page = "book" /\ f.token = k /\ f.next = None
            /\ f.copy = c /\ f.version = copies[c].version /\ f.shelf = copies
        <4>1. f = [[book EXCEPT !.copy = c] EXCEPT !.version = copies[c].version]
          BY <1>1, <2>2
        <4> HIDE DEF book
        <4>2. PICK g : g = [page |-> "book", token |-> k, copy |-> c, version |-> None,
                            next |-> None, shelf |-> copies]
          OBVIOUS
        <4>3. g = [book EXCEPT !.copy = c]
          BY <1>4, <4>2
        <4>4. f = [g EXCEPT !.version = copies[c].version]
          BY <4>1, <4>3
        <4> QED
          BY <4>2, <4>4
      <3>5. \A d \in Copies : d < c => copies[d].status # "AVAILABLE"
        <4> SUFFICES ASSUME NEW d \in Copies, d < c, copies[d].status = "AVAILABLE"
                     PROVE  FALSE
          OBVIOUS
        <4>1. d \in Available
          BY DEF Available
        <4>2. c <= d /\ d \in Nat /\ c \in Nat
          BY <3>2, <3>3, <4>1, CopyNumbers
        <4> QED
          BY <4>2
      <3>6. copies \in Shelf /\ Since(copies, copies)
        BY SinceSame DEF IInv
      <3> HIDE DEF book
      <3> QED
        BY <1>3, <3>3, <3>4, <3>5, <3>6 DEF FormOK, Follows
    <2> QED
      BY <2>1, <2>2
  <1> QED
    BY <1>1, <1>2, <1>5, AnswerKeeps DEF Page, Follows

\* The server's other answers, which move no copy.
LEMMA ServerKeeps ==
    ASSUME IInv, NEW t \in Tabs,
           \/ ToLogin(t) \/ loginForm(t) \/ login(t) \/ logout(t)
           \/ Plain(t) \/ reserve(t)
    PROVE  IInv'
  <1>0. {None, "detail", "home", "deadEnd", "account"} = Follows
    BY DEF Follows
  <1>1. CASE ToLogin(t)
    <2>1. tabs[t].kind = "borrow" \/ tabs[t].kind = "reserve" \/ tabs[t].kind = "account"
      BY <1>1 DEF ToLogin, GuardsPass, Guarded
    <2>2. PICK next \in Follows :
              next = IF tabs[t].kind \in Forms THEN "deadEnd" ELSE tabs[t].kind
      BY <2>1 DEF Forms, Follows
    <2> QED
      BY <1>1, <2>2, LoginPageKeeps DEF ToLogin
  <1>2. CASE loginForm(t)
    BY <1>0, <1>2, LoginPageKeeps DEF loginForm, Served
  <1>3. CASE login(t)
    <2>1. tabs[t].form.next \in Follows /\ tabs[t].step = "asked"
      BY <1>3 DEF login, Served, IInv, TabOK, FormOK
    <2> QED
      BY <1>3, <2>1, PlainPageKeeps DEF login
  <1>4. CASE logout(t)
    BY <1>0, <1>4, SamePageKeeps DEF logout, Served
  <1>5. CASE Plain(t)
    BY <1>0, <1>5, PlainPageKeeps DEF Plain, Served, Page
  <1>6. CASE reserve(t)
    BY <1>0, <1>6, PlainPageKeeps DEF reserve, Served, Redirect
  <1> QED
    BY <1>1, <1>2, <1>3, <1>4, <1>5, <1>6

\* A form is refused when the browser's token is another: two were made.
LEMMA RefuseKeeps ==
    ASSUME IInv, NEW t \in Tabs, Refuse(t)
    PROVE  IInv'
  <1>1. /\ tabs[t].step = "asked" /\ tabs[t].kind \in Forms
        /\ tabs[t].form.token # Token(tabs[t])
        /\ Page(t, tabs[t].form)
        /\ UNCHANGED <<copies, loans>>
    BY DEF Refuse, CsrfValid
  <1>2. tabs[t].form.token \in 1 .. minted
    BY <1>1 DEF IInv, TabOK, FormOK
  <1>3. /\ minted \in Nat /\ blank' = minted'
        /\ Known(tabs[t].cookie, minted)
        /\ minted' = IF tabs[t].cookie = None THEN minted + 1 ELSE minted
    BY <1>1, TokenMade DEF Page, IInv
  <1>4. blank' >= 2
    BY <1>1, <1>2, <1>3 DEF Known, Token
  <1> QED
    BY <1>1, <1>4, SamePageKeeps DEF Page, Follows

-----------------------------------------------------------------------------
\* A check that passes: no loan so far was made of what the form shows.
LEMMA CheckPasses ==
    ASSUME IInv, NEW t \in Tabs, Served(t, "borrow"), CheckCopy(tabs[t].form),
           NEW tab, tab.form = tabs[t].form, tab.seen = copies, tab.before = Len(loans)
    PROVE  CheckOK(tab, copies, loans)
  <1>1. PICK f : f = tabs[t].form /\ f = tab.form
    OBVIOUS
  <1>2. f.copy # None /\ FormOK(f, minted, copies)
    BY <1>1 DEF Served, IInv, TabOK, Forms
  <1>3. f.copy \in Copies /\ f.version \in Nat
    BY <1>2 DEF FormOK
  <1>4. copies[f.copy] = [status |-> "AVAILABLE", version |-> f.version]
    <2>1. copies[f.copy] \in CopyRow
      BY <1>3 DEF IInv, Shelf
    <2>2. copies[f.copy].version = f.version /\ copies[f.copy].status = "AVAILABLE"
      BY <1>1 DEF CheckCopy
    <2> QED
      BY <2>1, <2>2 DEF CopyRow
  <1>5. ASSUME NEW m \in 1 .. Len(loans), loans[m].shown = f.copy,
               loans[m].version = f.version, loans[m].copy = loans[m].shown
        PROVE  FALSE
    <2>1. m \in DOMAIN loans
      BY DEF IInv
    <2>2. copies[f.copy].version > f.version
      BY <1>5, <2>1 DEF IInv, Spent
    <2> QED
      BY <1>3, <1>4, <2>2
  <1>6. copies \in Shelf /\ Since(copies, copies) /\ Len(loans) \in 0 .. Len(loans)
    BY SinceSame DEF IInv
  <1> QED
    BY <1>1, <1>2, <1>4, <1>5, <1>6 DEF CheckOK

LEMMA BorrowKeeps ==
    ASSUME IInv, NEW t \in Tabs, borrow(t)
    PROVE  IInv'
  <1>1. Served(t, "borrow") /\ tabs[t].step = "asked"
        /\ UNCHANGED <<copies, loans, refused>>
    BY DEF borrow, Served
  <1>2. CASE CheckCopy(tabs[t].form)
    <2> DEFINE tab == [step |-> "lend", kind |-> "borrow", form |-> tabs[t].form,
                       cookie |-> tabs[t].cookie, session |-> tabs[t].session,
                       seen |-> copies, before |-> Len(loans)]
    <2>1. tabs' = [tabs EXCEPT ![t] = tab] /\ UNCHANGED <<minted, blank, csrfCookie>>
      BY <1>2 DEF borrow, browserVars
    <2>2. CheckOK(tab, copies, loans)
      BY <1>1, <1>2, CheckPasses
    <2>3. FormOK(tab.form, minted, copies) /\ Known(tab.cookie, minted)
      BY <1>1 DEF IInv, TabOK
    <2>4. TabOK(tab, minted, copies, loans)
      BY <2>2, <2>3 DEF TabOK
    <2> HIDE DEF tab
    <2>5. /\ copies' \in Shelf /\ Since(copies, copies') /\ minted \in Nat
          /\ loans' \in Seq(Loan) /\ Len(loans) <= Len(loans')
          /\ \A m \in 1 .. Len(loans) : loans'[m] = loans[m]
      BY <1>1, SinceSame DEF IInv
    <2>6. /\ DOMAIN tabs' = Tabs
          /\ \A u \in Tabs : TabOK(tabs'[u], minted', copies', loans')
      <3>1. TabOK(tab, minted', copies', loans')
        BY <1>1, <2>1, <2>4
      <3>2. minted' \in Nat /\ minted <= minted'
        BY <2>1, <2>5
      <3> QED
        BY <2>1, <2>5, <3>1, <3>2, TabTaken
    <2>7. /\ loans' \in Seq(Loan)
          /\ \A m \in DOMAIN loans' : Spent(loans'[m], copies')
          /\ LentAsShown'
          /\ ResubmitRefused'
      BY <1>1, <2>5, HistoryKept
    <2> QED
      BY <1>1, <2>1, <2>5, <2>6, <2>7 DEF IInv, RefusedOnlyAfterRace
  <1>3. CASE ~CheckCopy(tabs[t].form)
    BY <1>1, <1>3, SamePageKeeps DEF borrow, Page, Follows
  <1> QED
    BY <1>2, <1>3

\* What LentAsShown says of one loan.
AsShown(l) ==
    \/ l.copy = l.shown
    \/ /\ l.seen[l.shown] = [status |-> "AVAILABLE", version |-> l.version]
       /\ l.found[l.shown] # l.seen[l.shown]
    \/ l.copy < l.shown /\ l.found[l.copy].version > l.shelf[l.copy].version

LEMMA AsShownAll == LentAsShown <=> \A n \in DOMAIN loans : AsShown(loans[n])
  BY DEF LentAsShown, AsShown

\* The loan that borrowCopy makes of a form whose check has passed.
LEMMA LoanMade ==
    ASSUME IInv, NEW t \in Tabs, tabs[t].step = "lend", Available # {}, NEW l,
           l = [copy |-> Lowest(Available), shown |-> tabs[t].form.copy,
                version |-> tabs[t].form.version, shelf |-> tabs[t].form.shelf,
                seen |-> tabs[t].seen, found |-> copies, before |-> tabs[t].before]
    PROVE  /\ l \in Loan
           /\ l.copy = Lowest(Available) /\ l.copy \in Copies
           /\ AsShown(l)
           /\ Spent(l, Move(l.copy, "ON_LOAN"))
           /\ \A m \in 1 .. l.before :
                 ~(/\ loans[m].shown = l.shown
                   /\ loans[m].version = l.version
                   /\ loans[m].copy = loans[m].shown)
  <1>1. PICK tab : tab = tabs[t]
    OBVIOUS
  <1>2. PICK f : f = tab.form
    OBVIOUS
  <1>3. FormOK(f, minted, copies) /\ CheckOK(tab, copies, loans) /\ f.copy # None
    BY <1>1, <1>2 DEF IInv, TabOK, CheckOK
  <1>4. PICK c \in Available : c = Lowest(Available) /\ \A d \in Available : c <= d
    <2>1. Available \in SUBSET Copies
      BY DEF Available
    <2> QED
      BY <2>1, LowestIs
  <1>5. c \in Copies /\ copies[c].status = "AVAILABLE"
    BY <1>4 DEF Available
  <1>6. /\ l.copy = c /\ l.shown = f.copy /\ l.version = f.version /\ l.shelf = f.shelf
        /\ l.seen = tab.seen /\ l.found = copies /\ l.before = tab.before
    BY <1>1, <1>2, <1>4
  <1>7. /\ f.copy \in Copies /\ f.version \in Nat /\ f.shelf \in Shelf
        /\ \A d \in Copies : d < f.copy => f.shelf[d].status # "AVAILABLE"
        /\ Since(f.shelf, copies)
    BY <1>3 DEF FormOK
  <1>8. /\ tab.seen \in Shelf
        /\ tab.seen[f.copy] = [status |-> "AVAILABLE", version |-> f.version]
        /\ Since(tab.seen, copies)
        /\ tab.before \in Nat
    BY <1>2, <1>3 DEF CheckOK, IInv
  <1>9. l \in Loan
    BY <1>1, <1>2, <1>4, <1>5, <1>7, <1>8 DEF Loan, IInv
  <1>10. AsShown(l)
    <2> SUFFICES ASSUME c # f.copy, copies[f.copy] = tab.seen[f.copy]
                 PROVE  c < f.copy /\ copies[c].version > f.shelf[c].version
      BY <1>6, <1>8 DEF AsShown
    <2>1. f.copy \in Available
      BY <1>7, <1>8 DEF Available
    <2>2. c < f.copy
      BY <1>4, <1>5, <1>7, <2>1, CopyNumbers
    <2>3. f.shelf[c] # copies[c]
      BY <1>5, <1>7, <2>2
    <2>4. f.shelf[c].version \in Nat /\ copies[c].version \in Nat
      BY <1>5, <1>7, RowFields DEF IInv
    <2> QED
      BY <1>5, <1>7, <2>2, <2>3, <2>4 DEF Since
  <1>11. Spent(l, Move(c, "ON_LOAN"))
    <2> SUFFICES ASSUME c = f.copy PROVE Move(c, "ON_LOAN")[c].version > f.version
      BY <1>6 DEF Spent
    <2>1. Move(c, "ON_LOAN")[c].version = copies[c].version + 1
      BY <1>5, MoveIs DEF IInv
    <2>2. copies[c].version \in Nat /\ copies[c].version >= f.version
      <3>1. tab.seen[c].version = f.version
        BY <1>8
      <3> QED
        BY <1>5, <1>7, <1>8, <3>1, RowFields DEF IInv, Since
    <2> QED
      BY <1>7, <2>1, <2>2
  <1>12. \A m \in 1 .. tab.before : ~(/\ loans[m].shown = f.copy
                                      /\ loans[m].version = f.version
                                      /\ loans[m].copy = loans[m].shown)
    BY <1>2, <1>3 DEF CheckOK
  <1> HIDE DEF AsShown
  <1> QED
    BY <1>4, <1>5, <1>6, <1>9, <1>10, <1>11, <1>12

\* borrowCopy lends the lowest copy, or answers 409.
LEMMA BorrowCopyKeeps ==
    ASSUME IInv, NEW t \in Tabs, borrowCopy(t)
    PROVE  IInv'
  <1>1. tabs[t].step = "lend" /\ refused' = refused
    BY DEF borrowCopy
  <1>2. CASE Available = {}
    BY <1>1, <1>2, SamePageKeeps DEF borrowCopy, Page, Follows
  <1>3. CASE Available # {}
    <2>1. PICK l :
            l = [copy |-> Lowest(Available), shown |-> tabs[t].form.copy,
                 version |-> tabs[t].form.version, shelf |-> tabs[t].form.shelf,
                 seen |-> tabs[t].seen, found |-> copies, before |-> tabs[t].before]
      OBVIOUS
    <2>2. /\ l \in Loan
          /\ l.copy = Lowest(Available) /\ l.copy \in Copies
          /\ AsShown(l)
          /\ Spent(l, Move(l.copy, "ON_LOAN"))
          /\ \A m \in 1 .. l.before :
                ~(/\ loans[m].shown = l.shown
                  /\ loans[m].version = l.version
                  /\ loans[m].copy = loans[m].shown)
      BY <1>1, <1>3, <2>1, LoanMade
    <2>3. /\ copies' = Move(l.copy, "ON_LOAN")
          /\ loans' = Append(loans, l)
          /\ Answer(t, Form("other", Token(tabs[t])), "detail", None)
      BY <1>3, <2>1, <2>2 DEF borrowCopy, Redirect
    <2>4. /\ loans \in Seq(Loan) /\ Len(loans) \in Nat /\ DOMAIN loans = 1 .. Len(loans)
          /\ loans' \in Seq(Loan) /\ Len(loans') = Len(loans) + 1
          /\ DOMAIN loans' = 1 .. Len(loans) + 1
          /\ loans'[Len(loans) + 1] = l
          /\ \A m \in 1 .. Len(loans) : loans'[m] = loans[m]
      BY <2>2, <2>3 DEF IInv
    <2>5. copies' \in Shelf /\ Since(copies, copies')
      BY <2>2, <2>3, MoveIs DEF IInv
    <2>6. FormOK(Form("other", Token(tabs[t])), minted', copies')
      BY <1>1, <2>3, TokenMade, FormMade
    <2>7. /\ minted' \in Nat /\ blank' = minted'
          /\ Known(csrfCookie', minted')
          /\ DOMAIN tabs' = Tabs
          /\ \A u \in Tabs : TabOK(tabs'[u], minted', copies', loans')
      <3>1. "detail" \in Follows /\ Len(loans) <= Len(loans')
        BY <2>4 DEF Follows
      <3> QED
        BY <1>1, <2>3, <2>4, <2>5, <2>6, <3>1, AnswerTabs
    <2>8. ASSUME NEW m \in DOMAIN loans' PROVE Spent(loans'[m], copies')
      <3>1. CASE m = Len(loans) + 1
        BY <2>2, <2>3, <2>4, <3>1
      <3>2. CASE m \in DOMAIN loans
        <4>1. loans'[m] = loans[m] /\ loans[m] \in Loan
          BY <2>4, <3>2
        <4>2. loans[m].shown \in Copies /\ loans[m].version \in Nat
          BY <4>1 DEF Loan
        <4>3. /\ copies[loans[m].shown].version \in Nat
              /\ copies'[loans[m].shown].version \in Nat
          BY <2>5, <4>2, RowFields DEF IInv
        <4>4. Spent(loans[m], copies)
          BY <3>2 DEF IInv
        <4> QED
          BY <2>5, <4>1, <4>2, <4>3, <4>4 DEF Spent, Since
      <3> QED
        BY <2>4, <3>1, <3>2
    <2>9. LentAsShown'
      <3>1. \A m \in DOMAIN loans : AsShown(loans[m])
        BY AsShownAll DEF IInv
      <3>2. \A m \in DOMAIN loans' : AsShown(loans'[m])
        BY <2>2, <2>4, <3>1
      <3> QED
        BY <3>2 DEF LentAsShown, AsShown
    <2>10. ResubmitRefused'
      <3> SUFFICES ASSUME NEW m \in DOMAIN loans', NEW n \in DOMAIN loans', m < n,
                          loans'[m].shown = loans'[n].shown,
                          loans'[m].version = loans'[n].version,
                          loans'[m].copy = loans'[m].shown
                   PROVE  loans'[n].before < m
        BY DEF ResubmitRefused
      <3>1. m \in 1 .. Len(loans) /\ loans'[m] = loans[m]
        BY <2>4
      <3>2. CASE n \in DOMAIN loans
        BY <2>4, <3>1, <3>2 DEF IInv, ResubmitRefused
      <3>3. CASE n = Len(loans) + 1
        <4>1. l.before \in Nat
          BY <2>2 DEF Loan
        <4>2. m \notin 1 .. l.before
          BY <2>2, <2>4, <3>1, <3>3
        <4> QED
          BY <2>4, <3>1, <3>3, <4>1, <4>2
      <3> QED
        BY <2>4, <3>2, <3>3
    <2>11. RefusedOnlyAfterRace'
      <3>1. minted <= minted' /\ blank = minted /\ minted \in Nat
        BY <1>1, <2>3, TokenMade DEF IInv
      <3> QED
        BY <1>1, <2>7, <3>1 DEF IInv, RefusedOnlyAfterRace
    <2> QED
      BY <2>4, <2>5, <2>7, <2>8, <2>9, <2>10, <2>11 DEF IInv
  <1> QED
    BY <1>2, <1>3

-----------------------------------------------------------------------------
\* The browser and the other members.

\* A step that leaves the book, the loans and the server's counts alone.
LEMMA BrowserKeeps ==
    ASSUME IInv, NEW t \in Tabs, NEW tab, tabs' = [tabs EXCEPT ![t] = tab],
           TabOK(tab, minted, copies, loans), Known(csrfCookie', minted),
           UNCHANGED <<copies, loans, minted, blank, refused>>
    PROVE  IInv'
  <1>1. /\ minted' = minted /\ minted \in Nat
        /\ copies' \in Shelf /\ Since(copies, copies')
        /\ loans' \in Seq(Loan) /\ Len(loans) <= Len(loans')
        /\ \A m \in 1 .. Len(loans) : loans'[m] = loans[m]
    BY SinceSame DEF IInv
  <1>2. /\ DOMAIN tabs' = Tabs
        /\ \A u \in Tabs : TabOK(tabs'[u], minted', copies', loans')
    <2>1. TabOK(tab, minted', copies', loans')
      OBVIOUS
    <2>2. minted' \in Nat /\ minted <= minted'
      BY <1>1
    <2> QED
      BY <1>1, <2>1, <2>2, TabTaken
  <1>3. /\ loans' \in Seq(Loan)
        /\ \A m \in DOMAIN loans' : Spent(loans'[m], copies')
        /\ LentAsShown'
        /\ ResubmitRefused'
    BY <1>1, HistoryKept
  <1> QED
    BY <1>1, <1>2, <1>3 DEF IInv, RefusedOnlyAfterRace

\* A form is asked for from a page that has it.
LEMMA AskKeeps ==
    ASSUME IInv, NEW t \in Tabs, NEW kind, Ask(t, kind)
    PROVE  IInv'
  <1> DEFINE tab == [step |-> "asked", form |-> tabs[t].form, kind |-> kind,
                     cookie |-> csrfCookie, session |-> session]
  <1>1. /\ tabs[t].step = "page" /\ Offers(tabs[t], kind)
        /\ tabs' = [tabs EXCEPT ![t] = tab]
        /\ UNCHANGED <<copies, loans, minted, blank, refused, csrfCookie>>
    BY DEF Ask, browserVars
  <1>2. /\ FormOK(tabs[t].form, minted, copies) /\ tabs[t].follow \in Follows
        /\ Known(csrfCookie, minted)
    BY <1>1 DEF IInv, TabOK
  <1>3. /\ kind \in Forms => tabs[t].form.page # "blank"
        /\ kind = "borrow" => tabs[t].form.copy # None
    <2>1. CASE tabs[t].follow # None
      <3>1. kind \in {"detail", "home", "deadEnd", "account"}
        BY <1>1, <1>2, <2>1 DEF Offers, Follows
      <3> QED
        BY <3>1 DEF Forms
    <2>2. CASE tabs[t].follow = None
      <3>1. CASE kind = "borrow"
        BY <1>1, <2>2, <3>1 DEF Offers
      <3>2. CASE kind = "reserve"
        BY <1>1, <2>2, <3>2 DEF Offers
      <3>3. CASE kind = "login"
        BY <1>1, <2>2, <3>3 DEF Offers
      <3>4. CASE kind = "logout"
        BY <1>1, <2>2, <3>4 DEF Offers
      <3> QED
        BY <3>1, <3>2, <3>3, <3>4 DEF Forms
    <2> QED
      BY <2>1, <2>2
  <1>4. TabOK(tab, minted, copies, loans)
    BY <1>2, <1>3 DEF TabOK
  <1> HIDE DEF tab
  <1> QED
    BY <1>1, <1>2, <1>4, BrowserKeeps

LEMMA ReceiveKeeps ==
    ASSUME IInv, NEW t \in Tabs, Receive(t)
    PROVE  IInv'
  <1> DEFINE a == tabs[t].answer
             tab == Showing(a.form, a.follow)
  <1>1. /\ tabs[t].step = "answered"
        /\ csrfCookie' = IF a.cookie = None THEN csrfCookie ELSE a.cookie
        /\ tabs' = [tabs EXCEPT ![t] = tab]
        /\ UNCHANGED <<copies, loans, minted, blank, refused>>
    BY DEF Receive
  <1>2. /\ FormOK(a.form, minted, copies) /\ a.follow \in Follows
        /\ Known(a.cookie, minted) /\ Known(csrfCookie, minted)
    BY <1>1 DEF IInv, TabOK
  <1>3. TabOK(tab, minted, copies, loans)
    BY <1>2 DEF TabOK, Showing
  <1>4. Known(csrfCookie', minted)
    BY <1>1, <1>2
  <1> HIDE DEF tab
  <1> QED
    BY <1>1, <1>3, <1>4, BrowserKeeps

LEMMA OthersKeep ==
    ASSUME IInv, OthersMove
    PROVE  IInv'
  <1>1. /\ copies' \in Shelf /\ Since(copies, copies')
        /\ UNCHANGED <<tabs, csrfCookie, minted, loans, blank, refused>>
    <2>1. PICK c \in Copies, status \in {"AVAILABLE", "ON_LOAN"} : copies' = Move(c, status)
      BY DEF OthersMove
    <2> QED
      BY <2>1, MoveIs DEF OthersMove, IInv, browserVars
  <1>2. \A u \in Tabs : TabOK(tabs[u], minted, copies', loans)
    <2>1. /\ loans \in Seq(Loan) /\ Len(loans) <= Len(loans)
          /\ minted \in Nat /\ minted <= minted
      BY DEF IInv
    <2> QED
      BY <1>1, <2>1, TabKept DEF IInv
  <1>3. /\ loans' \in Seq(Loan)
        /\ \A m \in DOMAIN loans' : Spent(loans'[m], copies')
        /\ LentAsShown'
        /\ ResubmitRefused'
    BY <1>1, HistoryKept
  <1> QED
    BY <1>1, <1>2, <1>3 DEF IInv, RefusedOnlyAfterRace

LEMMA RestKeeps == IInv /\ (Expire \/ UNCHANGED vars) => IInv'
  BY DEF IInv, Expire, vars, browserVars, countVars, LentAsShown, ResubmitRefused,
         RefusedOnlyAfterRace

LEMMA InitInv == Init => IInv
  <1> SUFFICES ASSUME Init PROVE IInv
    OBVIOUS
  <1>1. copies \in Shelf
    BY DEF Init, Shelf, CopyRow
  <1>2. DOMAIN tabs = Tabs /\ \A t \in Tabs : TabOK(tabs[t], minted, copies, loans)
    <2> DEFINE f == Form("blank", None)
    <2>1. FormOK(f, 0, copies)
      BY DEF FormOK, Form, Follows
    <2>2. TabOK(Showing(f, None), 0, copies, loans)
      BY <2>1 DEF TabOK, Showing, Follows
    <2> QED
      BY <2>2 DEF Init
  <1>3. loans \in Seq(Loan) /\ DOMAIN loans = {}
    BY DEF Init
  <1> QED
    BY <1>1, <1>2, <1>3
       DEF Init, IInv, Known, LentAsShown, ResubmitRefused, RefusedOnlyAfterRace

-----------------------------------------------------------------------------
THEOREM Invariance == Spec => []IInv
  <1>1. IInv /\ [Next]_vars => IInv'
    <2> SUFFICES ASSUME IInv, [Next]_vars PROVE IInv'
      OBVIOUS
    <2>1. ASSUME NEW t \in Tabs, NEW kind, Ask(t, kind) PROVE IInv'
      BY <2>1, AskKeeps
    <2>2. ASSUME NEW t \in Tabs,
                 \/ Receive(t) \/ Refuse(t) \/ detail(t) \/ borrow(t) \/ borrowCopy(t)
                 \/ ToLogin(t) \/ loginForm(t) \/ login(t) \/ logout(t)
                 \/ Plain(t) \/ reserve(t)
          PROVE  IInv'
      BY <2>2, ReceiveKeeps, RefuseKeeps, DetailKeeps, BorrowKeeps, BorrowCopyKeeps,
         ServerKeeps
    <2>3. Expire \/ OthersMove \/ UNCHANGED vars => IInv'
      BY OthersKeep, RestKeeps
    <2> QED
      BY <2>1, <2>2, <2>3 DEF Next
  <1> QED
    BY InitInv, <1>1, PTL DEF Spec

\* However requests overlap, the member who presses Borrow gets the copy the
\* page showed, or it went to someone else after the check of its version, or a
\* copy with a lower id came back after the page was read.
THEOREM LentAsShownHolds == Spec => []LentAsShown
  BY Invariance, PTL DEF IInv

\* A form submitted again, from this tab or another, lends a second copy only if
\* its check ran before the first had lent, or the first had lent another copy
\* than the one shown.
THEOREM ResubmitRefusedHolds == Spec => []ResubmitRefused
  BY Invariance, PTL DEF IInv

\* A form of the book, login or account pages is refused for its CSRF token only
\* after two requests without a cookie.
THEOREM RefusedOnlyAfterRaceHolds == Spec => []RefusedOnlyAfterRace
  BY Invariance, PTL DEF IInv
=============================================================================
