----------------------------- MODULE ThesisUpload -----------------------------
(***************************************************************************)
(* The upload pages of web/client/thesis-upload.ts in front of             *)
(* ThesisSubmission.  A run of the upload asks for a URL, PUTs the file    *)
(* there and confirms the key; the student may cancel it at any point and  *)
(* start again, in this page or in another one, while what a cancelled run *)
(* has sent is still under way or being served.  Other clients, such as    *)
(* the form posts of test/portal.e2e-spec.ts, make the same requests       *)
(* beside the pages, in any order.                                         *)
(***************************************************************************)
EXTENDS ThesisSubmission

CONSTANTS
    Pages,     \* the browser tabs that show a draft's upload form
    NoCall,    \* what a request serves that another client has sent
    MaxRuns    \* bound: how often the upload is started in one page

ASSUME ThesisUploadAssumption == MaxRuns \in Nat

VARIABLES
    page,      \* page[g]: what the upload of page g is waiting for
    wire,      \* the calls on their way to the server
    serving,   \* serving[p]: the call that request p serves
    answers    \* the answers on their way to the pages

uploadVars == <<page, wire, serving, answers>>
allVars == <<rows, urls, objects, now, req, requests, page, wire, serving, answers>>

-----------------------------------------------------------------------------
Step == {"url", "put", "confirm"}
Page == [at : {"closed", "ready"} \cup Step, sub : Nat, run : Nat,
         key : Key \cup {NoFile}]
Call == [page : Pages, run : Nat, step : Step, sub : Nat, key : Key \cup {NoFile}]

ASSUME NoCallAssumption == NoCall \notin Call

Busy(g) == page[g].at \in Step

\* The page goes on to a step of its upload: it is in that step, and calls.
Send(g, run, step, key) ==
    /\ page' = [page EXCEPT ![g].at = step, ![g].run = run, ![g].key = key]
    /\ wire' = wire \cup {[page |-> g, run |-> run, step |-> step,
                           sub |-> page[g].sub, key |-> key]}
    /\ UNCHANGED <<vars, serving>>

UploadInit ==
    /\ Init
    /\ page = [g \in Pages |-> [at |-> "closed", sub |-> 0, run |-> 0,
                             key |-> NoFile]]
    /\ wire = {}
    /\ serving = [p \in Procs |-> NoCall]
    /\ answers = {}

-----------------------------------------------------------------------------
\* The page.

\* GET /thesis-submissions/:id shows the upload form of a draft.
OpenPage(g, s) ==
    /\ page[g].at = "closed"
    /\ rows[s].status = "DRAFT"
    /\ page' = [page EXCEPT ![g].at = "ready", ![g].sub = s]
    /\ UNCHANGED <<vars, wire, serving, answers>>

\* The buttons Upload and Retry: not while an upload is going on.
ClickStart(g) ==
    /\ page[g].at = "ready"
    /\ page[g].run < MaxRuns
    /\ Send(g, page[g].run + 1, "url", NoFile)
    /\ UNCHANGED answers

\* Mutant: any answer to the step the page is in will do, an aborted run's too.
AwaitedAnyRun(g, a) == a.page = g /\ a.step = page[g].at

\* The answer a page waits for is that of its present run: an aborted fetch or
\* XMLHttpRequest delivers nothing.
Awaited(g, a) == a.page = g /\ a.run = page[g].run /\ a.step = page[g].at

StepAfter(step) == IF step = "url" THEN "put" ELSE "confirm"

\* intent.key
KeyFrom(g, a) == IF page[g].at = "url" THEN a.key ELSE page[g].key

Answered(g, a) ==
    /\ Awaited(g, a)
    /\ page[g].at \in {"url", "put"}
    /\ Send(g, page[g].run, StepAfter(page[g].at), KeyFrom(g, a))
    /\ answers' = answers \ {a}

\* The answer to a confirm is a 403 (RefuseConfirm): the run ends with an error
\* and a Retry, where the code means to go on to the detail page.
ConfirmRefused(g, a) ==
    /\ Awaited(g, a)
    /\ page[g].at = "confirm"
    /\ page' = [page EXCEPT ![g].at = "ready"]
    /\ answers' = answers \ {a}
    /\ UNCHANGED <<vars, wire, serving>>

\* Cancel, or any of the three calls failing: what was sent is not called back.
Stop(g) ==
    /\ Busy(g)
    /\ page' = [page EXCEPT ![g].at = "ready"]
    /\ UNCHANGED <<vars, wire, serving, answers>>

-----------------------------------------------------------------------------
\* The server.

\* Mutant: any signature will do, whatever key it was made for.
TakeAnySignature(p, c) ==
    /\ \/ c.step = "url" /\ AskUrl(p, rows[c.sub].author, c.sub)
       \/ c.step = "put" /\ \E u \in urls, b \in Contents : AcceptPut(p, u, b)
    /\ wire' = wire \ {c}
    /\ serving' = [serving EXCEPT ![p] = c]
    /\ UNCHANGED <<page, answers>>

\* Request p takes a call, if its checks let it.
Take(p, c) ==
    /\ \/ c.step = "url" /\ AskUrl(p, rows[c.sub].author, c.sub)
       \/ c.step = "put" /\ \E u \in urls, b \in Contents :
                                u.key = c.key /\ AcceptPut(p, u, b)
    /\ wire' = wire \ {c}
    /\ serving' = [serving EXCEPT ![p] = c]
    /\ UNCHANGED <<page, answers>>

\* A page's confirm is a multipart form without the header X-CSRF-Token.  Nothing
\* on the server parses one, so CsrfMiddleware finds no token and answers 403
\* before the controller is asked.
RefuseConfirm(c) ==
    /\ c.step = "confirm"
    /\ wire' = wire \ {c}
    /\ answers' = answers \cup {c}
    /\ UNCHANGED <<vars, page, serving>>

\* A call that is refused, aborted before it is sent or lost.
Lose(c) == wire' = wire \ {c} /\ UNCHANGED <<vars, page, serving, answers>>

\* The key in the answer to request p.
KeyAnswered(p) == IF req[p].op = "sign" THEN <<req[p].sub, now>> ELSE serving[p].key

Serve(p) ==
    /\ serving[p] # NoCall
    /\ IssueUrl(p) \/ StorePut(p)
    /\ serving' = [serving EXCEPT ![p] = NoCall]
    /\ answers' = answers \cup {[serving[p] EXCEPT !.key = KeyAnswered(p)]}
    /\ UNCHANGED <<page, wire>>

ServeFails(p) ==
    /\ serving[p] # NoCall
    /\ Abort(p)
    /\ serving' = [serving EXCEPT ![p] = NoCall]
    /\ UNCHANGED <<page, wire, answers>>

\* New drafts, the clock, and every request that no page's upload has sent: the
\* staff's moves, a submission, another client's URL, PUT or confirm of any key.
Elsewhere ==
    /\ \/ \E m \in Students : CreateDraft(m)
       \/ \E p \in Procs : serving[p] = NoCall /\ (Begin(p) \/ Continue(p) \/ Abort(p))
       \/ Tick
    /\ UNCHANGED uploadVars

-----------------------------------------------------------------------------
UploadNext ==
    \/ \E g \in Pages, s \in DOMAIN rows : OpenPage(g, s)
    \/ \E g \in Pages : ClickStart(g) \/ Stop(g)
    \/ \E g \in Pages, a \in answers : Answered(g, a) \/ ConfirmRefused(g, a)
    \/ \E c \in wire : Lose(c) \/ RefuseConfirm(c) \/ \E p \in Procs : Take(p, c)
    \/ \E p \in Procs : Serve(p) \/ ServeFails(p)
    \/ Elsewhere

UploadSpec == UploadInit /\ [][UploadNext]_allVars

-----------------------------------------------------------------------------
\* The request that serves a page's call is of the call's kind, and writes the key
\* that the call names.
ServesOwnCall(p) ==
    serving[p] # NoCall =>
        \/ req[p].op = "sign" /\ serving[p].step = "url"
        \/ req[p].op = "put" /\ serving[p].step = "put" /\ serving[p].key = req[p].key

\* Every variable has its type, and a request serves a call of its own kind: what
\* storage writes for a page goes to the key of that page's PUT.
UploadTypeOK ==
    /\ TypeOK
    /\ page \in [Pages -> Page]
    /\ wire \subseteq Call
    /\ answers \subseteq Call
    /\ serving \in [Procs -> Call \cup {NoCall}]
    /\ \A p \in Procs : ServesOwnCall(p)

\* A page confirms no key but one whose bytes are stored: it has waited for the PUT
\* of that very run, whatever was cancelled, lost, retried or late before.
ConfirmNamesStored ==
    \A c \in wire \cup answers : c.step = "confirm" => c.key \in DOMAIN objects
=============================================================================
