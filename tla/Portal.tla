--------------------------------- MODULE Portal ---------------------------------
(***************************************************************************)
(* One member's browser, with several tabs on the page of one book, and    *)
(* the portal's server: CSRF middleware, guards, login, and the borrow and *)
(* reserve forms.  A request carries the cookies the browser has when it   *)
(* is asked and the form of the tab's page; the answer sets cookies when   *)
(* it arrives.  The server works on several requests at once.              *)
(*                                                                         *)
(* borrowCopy is one step here (LoanService has its locks), other members  *)
(* lend and give back by themselves, and reserve only counts the holds.    *)
(***************************************************************************)
EXTENDS Integers, Sequences, FiniteSets

CONSTANTS
    Tabs,
    Copies,        \* the copies of the book, by id
    None,          \* no cookie, no copy, nothing to follow
    MaxMoves,      \* bound: copies lent and given back by others
    MaxLoans,      \* bound: loans of the member
    MaxHolds, MaxLogins    \* bounds: holds and logins

ASSUME PortalAssumption == Copies \subseteq Nat /\ IsFiniteSet(Copies) /\ None \notin Nat

VARIABLES
    copies,        \* copies[c]: status and version
    tabs,          \* a tab: on a page, waiting, or with an answer on its way
    csrfCookie, session,   \* the browser's cookies: a token or None; signed in or not
    minted,        \* CSRF tokens made so far
    loans,         \* history: the member's loans, what was shown and what was seen
    holds, logins, moves,  \* counts
    blank, refused \* history: requests served without a CSRF cookie; a form was refused

browserVars == <<csrfCookie, session>>
countVars == <<holds, logins, moves>>
vars == <<copies, tabs, csrfCookie, session, minted, loans, countVars, blank, refused>>

Forms == {"borrow", "reserve", "login", "logout"}
Guarded == {"borrow", "reserve", "account"}

Form(page, token) == [page |-> page, token |-> token, copy |-> None, version |-> None, next |-> None,
                      shelf |-> None]

Showing(form, follow) == [step |-> "page", form |-> form, follow |-> follow]

Init ==
    /\ copies = [c \in Copies |-> [status |-> "AVAILABLE", version |-> 0]]
    /\ tabs = [t \in Tabs |-> Showing(Form("blank", None), None)]
    /\ csrfCookie = None /\ session = FALSE
    /\ minted = 0 /\ loans = <<>>
    /\ holds = 0 /\ logins = 0 /\ moves = 0
    /\ blank = 0 /\ refused = FALSE

-----------------------------------------------------------------------------
(* The browser *)

\* What the page lets the member do; a redirect leaves no choice.
Offers(tab, kind) ==
    IF tab.follow # None THEN kind = tab.follow
    ELSE CASE kind \in {"detail", "account", "loginForm"} -> TRUE
           [] kind = "borrow"  -> tab.form.page = "book" /\ tab.form.copy # None
           [] kind = "reserve" -> tab.form.page = "book"
           [] kind = "login"   -> tab.form.page = "login"
           [] kind = "logout"  -> tab.form.page = "other"
           [] OTHER -> FALSE

\* The bounds count what the server is working on.
InBounds(kind) ==
    LET pending == Cardinality({u \in Tabs : tabs[u].step \in {"asked", "lend"} /\ tabs[u].kind = kind})
    IN  /\ kind = "borrow"  => Len(loans) + pending < MaxLoans
        /\ kind = "reserve" => holds + pending < MaxHolds
        /\ kind = "login"   => logins + pending < MaxLogins

Ask(t, kind) ==
    /\ tabs[t].step = "page" /\ Offers(tabs[t], kind) /\ InBounds(kind)
    /\ tabs' = [tabs EXCEPT ![t] = [step |-> "asked", form |-> @.form, kind |-> kind,
                                    cookie |-> csrfCookie, session |-> session]]
    /\ UNCHANGED <<copies, browserVars, minted, loans, countVars, blank, refused>>

Receive(t) ==
    /\ tabs[t].step = "answered"
    /\ LET a == tabs[t].answer
       IN  /\ csrfCookie' = IF a.cookie = None THEN csrfCookie ELSE a.cookie
           /\ session' = IF a.session = None THEN session ELSE a.session = "in"
           /\ tabs' = [tabs EXCEPT ![t] = Showing(a.form, a.follow)]
    /\ UNCHANGED <<copies, minted, loans, countVars, blank, refused>>

\* The session cookie and its token are good for eight hours.
Expire ==
    /\ session /\ session' = FALSE
    /\ UNCHANGED <<copies, tabs, csrfCookie, minted, loans, countVars, blank, refused>>

-----------------------------------------------------------------------------
(* The server: middleware, then guards, then the handler. *)

\* Mutant: a new token with every page.
TokenRotated(tab) == IF tab.kind \in Forms /\ tab.cookie # None THEN tab.cookie ELSE minted + 1

\* The token of a request: its cookie, or a fresh one.
Token(tab) == IF tab.cookie = None THEN minted + 1 ELSE tab.cookie

CsrfValid(tab) == tab.kind \in Forms => tab.form.token = Token(tab)
GuardsPass(tab) == tab.kind \in Guarded => tab.session

\* An answer; the cookie is set when the token is fresh.
Answer(t, form, follow, signedIn) ==
    /\ tabs' = [tabs EXCEPT ![t] =
          [step |-> "answered",
           answer |-> [form |-> form, follow |-> follow, session |-> signedIn,
                       cookie |-> IF Token(@) = @.cookie THEN None ELSE Token(@)]]]
    /\ minted' = IF Token(tabs[t]) > minted THEN Token(tabs[t]) ELSE minted
    /\ blank' = blank + (IF tabs[t].cookie = None THEN 1 ELSE 0)
    /\ UNCHANGED browserVars

Page(t, form) == Answer(t, form, None, None)
Redirect(t, to) == Answer(t, Form("other", Token(tabs[t])), to, None)

\* 403, and the member can go back to the form.
Refuse(t) ==
    /\ tabs[t].step = "asked" /\ ~CsrfValid(tabs[t])
    /\ Page(t, tabs[t].form)
    /\ refused' = TRUE
    /\ UNCHANGED <<copies, loans, countVars>>

Served(t, kind) ==
    /\ tabs[t].step = "asked" /\ tabs[t].kind = kind
    /\ CsrfValid(tabs[t]) /\ GuardsPass(tabs[t])

\* Not signed in: to the login page, which leads back to the address asked for,
\* by a GET.  The address of a form has none.
ToLogin(t) ==
    /\ tabs[t].step = "asked" /\ CsrfValid(tabs[t]) /\ ~GuardsPass(tabs[t])
    /\ Page(t, [Form("login", Token(tabs[t])) EXCEPT !.next =
                    IF tabs[t].kind \in Forms THEN "deadEnd" ELSE tabs[t].kind])
    /\ UNCHANGED <<copies, loans, countVars, refused>>

\* The first AVAILABLE copy by id.
Available == {c \in Copies : copies[c].status = "AVAILABLE"}
Lowest(S) == CHOOSE c \in S : \A d \in S : c <= d

detail(t) ==
    /\ Served(t, "detail")
    /\ LET book == [Form("book", Token(tabs[t])) EXCEPT !.shelf = copies]
       IN  Page(t, IF Available = {} THEN book
                   ELSE [book EXCEPT !.copy = Lowest(Available),
                                     !.version = copies[Lowest(Available)].version])
    /\ UNCHANGED <<copies, loans, countVars, refused>>

loginForm(t) ==
    /\ Served(t, "loginForm")
    /\ Page(t, [Form("login", Token(tabs[t])) EXCEPT !.next = "home"])
    /\ UNCHANGED <<copies, loans, countVars, refused>>

login(t) ==
    /\ Served(t, "login")
    /\ logins' = logins + 1
    /\ Answer(t, Form("other", Token(tabs[t])), tabs[t].form.next, "in")
    /\ UNCHANGED <<copies, loans, holds, moves, refused>>

logout(t) ==
    /\ Served(t, "logout")
    /\ Answer(t, tabs[t].form, "home", "out")
    /\ UNCHANGED <<copies, loans, countVars, refused>>

\* home, account, and the 404 page
Plain(t) ==
    /\ \E kind \in {"home", "account", "deadEnd"} : Served(t, kind)
    /\ Page(t, Form("other", Token(tabs[t])))
    /\ UNCHANGED <<copies, loans, countVars, refused>>

\* Mutants: the form's version is not compared; the copy is not looked at.
CheckStatusOnly(f) == copies[f.copy].status = "AVAILABLE"
CheckNothing(f) == f.copy \in Copies

CheckCopy(f) == copies[f.copy].version = f.version /\ copies[f.copy].status = "AVAILABLE"

\* borrow up to the check of the copy; 409 otherwise.
borrow(t) ==
    /\ Served(t, "borrow")
    /\ IF CheckCopy(tabs[t].form)
       THEN /\ tabs' = [tabs EXCEPT ![t] = [step |-> "lend", kind |-> "borrow", form |-> @.form,
                                            cookie |-> @.cookie, session |-> @.session,
                                            seen |-> copies, before |-> Len(loans)]]
            /\ UNCHANGED <<minted, blank, browserVars>>
       ELSE Page(t, tabs[t].form)
    /\ UNCHANGED <<copies, loans, countVars, refused>>

Move(c, status) == [copies EXCEPT ![c] = [status |-> status, version |-> @.version + 1]]

\* borrowCopy: any copy, the lowest that is AVAILABLE by now; 409 without one.
borrowCopy(t) ==
    /\ tabs[t].step = "lend"
    /\ IF Available = {} THEN Page(t, tabs[t].form) /\ UNCHANGED <<copies, loans>>
       ELSE /\ copies' = Move(Lowest(Available), "ON_LOAN")
            /\ loans' = Append(loans, [copy |-> Lowest(Available), shown |-> tabs[t].form.copy,
                                       version |-> tabs[t].form.version, shelf |-> tabs[t].form.shelf,
                                       seen |-> tabs[t].seen, found |-> copies,
                                       before |-> tabs[t].before])
            /\ Redirect(t, "detail")
    /\ UNCHANGED <<countVars, refused>>

reserve(t) ==
    /\ Served(t, "reserve")
    /\ holds' = holds + 1
    /\ Redirect(t, "detail")
    /\ UNCHANGED <<copies, loans, logins, moves, refused>>

\* Other members, at the desk or over the API.
OthersMove ==
    /\ moves < MaxMoves
    /\ moves' = moves + 1
    /\ \E c \in Copies : copies' = Move(c, IF c \in Available THEN "ON_LOAN" ELSE "AVAILABLE")
    /\ UNCHANGED <<tabs, browserVars, minted, loans, holds, logins, blank, refused>>

Next ==
    \/ \E t \in Tabs :
        \/ \E kind \in {"detail", "account", "home", "deadEnd", "loginForm"} \cup Forms : Ask(t, kind)
        \/ Receive(t) \/ Refuse(t) \/ ToLogin(t)
        \/ detail(t) \/ loginForm(t) \/ login(t) \/ logout(t) \/ Plain(t)
        \/ borrow(t) \/ borrowCopy(t) \/ reserve(t)
    \/ Expire \/ OthersMove

Spec == Init /\ [][Next]_vars

-----------------------------------------------------------------------------
(* Properties *)

\* The member who presses Borrow gets the copy the page showed.  Another copy is
\* lent only if the one shown went to someone else after the check of its
\* version, or one with a lower id came back since the page was read: the check
\* and borrowCopy are two transactions, and borrowCopy chooses for itself.
LentAsShown ==
    \A n \in DOMAIN loans :
        LET l == loans[n]
        IN  \/ l.copy = l.shown
            \/ /\ l.seen[l.shown] = [status |-> "AVAILABLE", version |-> l.version]
               /\ l.found[l.shown] # l.seen[l.shown]
            \/ l.copy < l.shown /\ l.found[l.copy].version > l.shelf[l.copy].version

\* "a stale version cannot complete borrow": of two loans made from forms that
\* show one state of one copy, the later was checked before the earlier was made,
\* or the earlier had lent another copy than the one shown.  In that case the
\* copy shown has not changed and the form submitted again may well lend it.
ResubmitRefused ==
    \A m, n \in DOMAIN loans :
        /\ m < n /\ loans[m].shown = loans[n].shown /\ loans[m].version = loans[n].version
        /\ loans[m].copy = loans[m].shown
        => loans[n].before < m

\* A form of the book, login or account pages is refused for its CSRF token only
\* in a browser two of whose first requests overlapped, so that two tokens were
\* given out and one cookie kept.  (ThesisUpload has the upload page's confirm,
\* which is always refused.)
RefusedOnlyAfterRace == refused => blank >= 2
=============================================================================
