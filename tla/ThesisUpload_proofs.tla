-------------------------- MODULE ThesisUpload_proofs --------------------------
(***************************************************************************)
(* Theorems about ThesisUpload: for every number of pages, runs, requests  *)
(* and students, a page confirms only what is stored, although the server  *)
(* would not look; and with its pages the workflow does nothing it does    *)
(* not do without them.                                                    *)
(***************************************************************************)
EXTENDS ThesisUpload, ThesisSubmission_proofs

\* What holds of a call wherever it is: its submission exists; it is of no later
\* run than its page's; a PUT of the page's present run is the one the page
\* waits for; a confirmation names a stored file.
CallSound(c) ==
    /\ c.sub \in DOMAIN rows
    /\ c.run <= page[c.page].run
    /\ c.step = "put" /\ c.run = page[c.page].run =>
          /\ page[c.page].at # "url"
          /\ page[c.page].at = "put" => c.key = page[c.page].key
    /\ c.step = "confirm" => c.key \in DOMAIN objects

UploadInv ==
    /\ \A g \in Pages : page[g].at # "closed" => page[g].sub \in DOMAIN rows
    /\ \A c \in wire : CallSound(c)
    /\ \A a \in answers : CallSound(a) /\ (a.step = "put" => a.key \in DOMAIN objects)
    /\ \A p \in Procs : serving[p] # NoCall => CallSound(serving[p])
    /\ \A p \in Procs : ServesOwnCall(p)

\* The types of what ThesisUpload adds.
PagesTyped ==
    /\ page \in [Pages -> Page]
    /\ wire \subseteq Call
    /\ answers \subseteq Call
    /\ serving \in [Procs -> Call \cup {NoCall}]

UploadIInv == IInv /\ PagesTyped /\ UploadInv

-----------------------------------------------------------------------------
\* What a page does keeps the calls sound: it stays, starts a later run, goes
\* from its URL on to its PUT, or waits for neither.
PageMoves(g) ==
    \/ page'[g] = page[g]
    \/ page'[g].run > page[g].run
    \/ /\ page'[g].run = page[g].run
       /\ \/ page'[g].at \notin {"url", "put"}
          \/ page[g].at = "url" /\ page'[g].at = "put"

\* Nothing that is stored, and no submission, goes away.
Grows == /\ DOMAIN rows \subseteq DOMAIN rows'
         /\ DOMAIN objects \subseteq DOMAIN objects'

LEMMA CallKept ==
    ASSUME PagesTyped, PagesTyped', NEW c \in Call, CallSound(c), Grows,
           PageMoves(c.page)
    PROVE  CallSound(c)'
  <1> DEFINE g == c.page
  <1>1. c.page \in Pages /\ c.run \in Nat
    BY DEF Call
  <1>2. page[c.page] \in Page /\ page'[c.page] \in Page
    BY <1>1 DEF PagesTyped
  <1>3. page[c.page].run \in Nat /\ page'[c.page].run \in Nat
    BY <1>2 DEF Page
  <1>4. /\ c.sub \in DOMAIN rows /\ c.run <= page[c.page].run
        /\ c.step = "put" /\ c.run = page[c.page].run =>
              /\ page[c.page].at # "url"
              /\ page[c.page].at = "put" => c.key = page[c.page].key
        /\ c.step = "confirm" => c.key \in DOMAIN objects
    BY DEF CallSound
  <1>5. c.run <= page'[c.page].run
    BY <1>1, <1>3, <1>4 DEF PageMoves
  <1>6. ASSUME c.step = "put", c.run = page'[c.page].run
        PROVE  /\ page'[c.page].at # "url"
               /\ page'[c.page].at = "put" => c.key = page'[c.page].key
    <2>1. ~(page'[c.page].run > page[c.page].run)
      BY <1>1, <1>3, <1>4, <1>6
    <2>2. page'[c.page].run = page[c.page].run
      BY <2>1 DEF PageMoves
    <2>3. page[c.page].at # "url"
      BY <1>4, <1>6, <2>2
    <2> QED
      BY <1>4, <1>6, <2>1, <2>2, <2>3 DEF PageMoves
  <1> QED
    BY <1>4, <1>5, <1>6 DEF CallSound, Grows

\* A page's own step: the server stands still.
LEMMA PageStepKeeps ==
    ASSUME UploadIInv, PagesTyped', UNCHANGED <<vars, serving>>,
           \A g \in Pages : PageMoves(g),
           \A g \in Pages : page'[g].at # "closed" => page'[g].sub \in DOMAIN rows,
           answers' \subseteq answers,
           \A c \in wire' : c \in wire \/ CallSound(c)'
    PROVE  UploadIInv'
  <1>1. IInv'
    BY TickKeeps DEF UploadIInv
  <1>2. Grows /\ rows' = rows /\ objects' = objects /\ req' = req /\ serving' = serving
    BY DEF Grows, vars
  <1>3. ASSUME NEW c \in Call, CallSound(c) PROVE CallSound(c)'
    <2>1. c.page \in Pages
      BY DEF Call
    <2> QED
      BY <1>2, <1>3, <2>1, CallKept DEF UploadIInv
  <1>4. \A c \in wire' : CallSound(c)'
    BY <1>3 DEF UploadIInv, UploadInv, PagesTyped
  <1>5. \A a \in answers' : CallSound(a)' /\ (a.step = "put" => a.key \in DOMAIN objects')
    BY <1>2, <1>3 DEF UploadIInv, UploadInv, PagesTyped
  <1>6. ASSUME NEW p \in Procs, serving[p] # NoCall PROVE CallSound(serving[p])'
    <2>1. PICK c \in Call : c = serving[p] /\ CallSound(c)
      BY <1>6 DEF UploadIInv, UploadInv, PagesTyped
    <2>2. CallSound(c)' /\ serving'[p] = c
      BY <1>2, <1>3, <2>1
    <2> QED
      BY <2>2 DEF CallSound
  <1>7. \A p \in Procs : ServesOwnCall(p)'
    BY <1>2 DEF UploadIInv, UploadInv, ServesOwnCall
  <1>8. UploadInv'
    BY <1>2, <1>4, <1>5, <1>6, <1>7 DEF UploadInv
  <1> QED
    BY <1>1, <1>8 DEF UploadIInv

\* A step of the server: the pages stand still.
LEMMA ServerStepKeeps ==
    ASSUME UploadIInv, IInv', PagesTyped', UNCHANGED page, Grows, wire' \subseteq wire,
           \A a \in answers' :
              a \in answers \/ (CallSound(a)' /\ (a.step = "put" => a.key \in DOMAIN objects')),
           \A p \in Procs : serving'[p] \in {NoCall, serving[p]} \cup wire,
           \A p \in Procs : ServesOwnCall(p)'
    PROVE  UploadIInv'
  <1>1. ASSUME NEW c \in Call, CallSound(c) PROVE CallSound(c)'
    BY <1>1, CallKept DEF UploadIInv, PageMoves
  <1>2. \A c \in wire' : CallSound(c)'
    BY <1>1 DEF UploadIInv, UploadInv, PagesTyped
  <1>3. \A a \in answers' : CallSound(a)' /\ (a.step = "put" => a.key \in DOMAIN objects')
    BY <1>1 DEF UploadIInv, UploadInv, PagesTyped, Grows
  <1>4. ASSUME NEW p \in Procs, serving'[p] # NoCall PROVE CallSound(serving[p])'
    <2>1. PICK c \in Call : c = serving'[p] /\ CallSound(c)
      BY <1>4 DEF UploadIInv, UploadInv, PagesTyped
    <2>2. CallSound(c)'
      BY <1>1, <2>1
    <2> QED
      BY <2>1, <2>2 DEF CallSound
  <1>5. \A g \in Pages : page'[g].at # "closed" => page'[g].sub \in DOMAIN rows'
    BY DEF UploadIInv, UploadInv, Grows
  <1>6. UploadInv'
    BY <1>2, <1>3, <1>4, <1>5 DEF UploadInv
  <1> QED
    BY <1>6 DEF UploadIInv

-----------------------------------------------------------------------------
\* The steps of a page.

\* A page with one field written.
LEMMA PageFields ==
    ASSUME NEW r \in Page
    PROVE  /\ \A at \in {"closed", "ready"} \cup Step : LET q == [r EXCEPT !.at = at] IN
                 /\ q \in Page
                 /\ q.at = at /\ q.run = r.run /\ q.sub = r.sub /\ q.key = r.key
           /\ \A n \in Nat : LET q == [r EXCEPT !.run = n] IN
                 /\ q \in Page
                 /\ q.at = r.at /\ q.run = n /\ q.sub = r.sub /\ q.key = r.key
           /\ \A n \in Nat : LET q == [r EXCEPT !.sub = n] IN
                 /\ q \in Page
                 /\ q.at = r.at /\ q.run = r.run /\ q.sub = n /\ q.key = r.key
           /\ \A k \in Key \cup {NoFile} : LET q == [r EXCEPT !.key = k] IN
                 /\ q \in Page
                 /\ q.at = r.at /\ q.run = r.run /\ q.sub = r.sub /\ q.key = k
  BY DEF Page

\* The page and the call that Send leaves.
LEMMA Sent ==
    ASSUME PagesTyped, NEW g \in Pages, NEW n \in Nat, NEW step \in Step,
           NEW k \in Key \cup {NoFile}, Send(g, n, step, k)
    PROVE  /\ page' \in [Pages -> Page]
           /\ page'[g].at = step /\ page'[g].run = n /\ page'[g].key = k
           /\ page'[g].sub = page[g].sub
           /\ \A h \in Pages : h # g => page'[h] = page[h]
           /\ wire' \subseteq Call
           /\ \A c \in wire' : c \in wire \/ (c.page = g /\ c.run = n /\ c.step = step
                                              /\ c.sub = page[g].sub /\ c.key = k)
  <1>1. page \in [Pages -> Page] /\ page[g] \in Page
    BY DEF PagesTyped
  <1> DEFINE q1 == [page[g] EXCEPT !.at = step]
             q2 == [q1 EXCEPT !.run = n]
             new == [q2 EXCEPT !.key = k]
  <1>2. q1 \in Page /\ q1.at = step /\ q1.sub = page[g].sub
    BY <1>1, PageFields
  <1>3. page' = [page EXCEPT ![g] = new]
    BY <1>1 DEF Send
  <1> HIDE DEF q1
  <1>4. q2 \in Page /\ q2.at = step /\ q2.run = n /\ q2.sub = page[g].sub
    BY <1>2, PageFields
  <1> HIDE DEF q2
  <1>5. /\ new \in Page /\ new.at = step /\ new.run = n /\ new.key = k
        /\ new.sub = page[g].sub
    BY <1>4, PageFields
  <1> HIDE DEF new
  <1>6. page'[g] = new /\ page' \in [Pages -> Page]
        /\ \A h \in Pages : h # g => page'[h] = page[h]
    BY <1>1, <1>3, <1>5
  <1> DEFINE call == [page |-> g, run |-> n, step |-> step, sub |-> page[g].sub, key |-> k]
  <1>7. call \in Call /\ wire' = wire \cup {call}
    BY <1>1 DEF Send, Call, Page
  <1> QED
    BY <1>5, <1>6, <1>7 DEF PagesTyped

\* A page put in another place of its form.
LEMMA PagePut ==
    ASSUME PagesTyped, NEW g \in Pages, NEW at \in {"closed", "ready"},
           NEW s \in Nat, page' = [page EXCEPT ![g].at = at, ![g].sub = s]
    PROVE  /\ page' \in [Pages -> Page]
           /\ page'[g].at = at /\ page'[g].sub = s /\ page'[g].run = page[g].run
           /\ \A h \in Pages : h # g => page'[h] = page[h]
  <1>1. page \in [Pages -> Page] /\ page[g] \in Page
    BY DEF PagesTyped
  <1> DEFINE q == [page[g] EXCEPT !.at = at]
             new == [q EXCEPT !.sub = s]
  <1>2. q \in Page /\ q.at = at /\ q.run = page[g].run
    BY <1>1, PageFields
  <1>3. page' = [page EXCEPT ![g] = new]
    BY <1>1
  <1> HIDE DEF q
  <1>4. new \in Page /\ new.at = at /\ new.run = page[g].run /\ new.sub = s
    BY <1>2, PageFields
  <1> HIDE DEF new
  <1> QED
    BY <1>1, <1>3, <1>4

LEMMA PageAt ==
    ASSUME PagesTyped, NEW g \in Pages, NEW at \in {"closed", "ready"},
           page' = [page EXCEPT ![g].at = at]
    PROVE  /\ page' \in [Pages -> Page]
           /\ page'[g].at = at /\ page'[g].sub = page[g].sub /\ page'[g].run = page[g].run
           /\ \A h \in Pages : h # g => page'[h] = page[h]
  <1>1. page \in [Pages -> Page] /\ page[g] \in Page
    BY DEF PagesTyped
  <1> DEFINE new == [page[g] EXCEPT !.at = at]
  <1>2. /\ new \in Page /\ new.at = at /\ new.run = page[g].run /\ new.sub = page[g].sub
        /\ page' = [page EXCEPT ![g] = new]
    BY <1>1, PageFields
  <1> HIDE DEF new
  <1> QED
    BY <1>1, <1>2

LEMMA OpenPageKeeps ==
    ASSUME UploadIInv, NEW g \in Pages, NEW s \in DOMAIN rows, OpenPage(g, s)
    PROVE  UploadIInv'
  <1>1. s \in Nat /\ PagesTyped
    BY RowTyped DEF UploadIInv, IInv
  <1>2. /\ page' \in [Pages -> Page]
        /\ page'[g].at = "ready" /\ page'[g].sub = s /\ page'[g].run = page[g].run
        /\ \A h \in Pages : h # g => page'[h] = page[h]
    BY <1>1, PagePut DEF OpenPage
  <1>3. PagesTyped' /\ UNCHANGED <<vars, serving, wire, answers>>
    BY <1>1, <1>2 DEF OpenPage, PagesTyped
  <1>4. \A h \in Pages : PageMoves(h)
    BY <1>2 DEF PageMoves
  <1>5. \A h \in Pages : page'[h].at # "closed" => page'[h].sub \in DOMAIN rows
    BY <1>2 DEF UploadIInv, UploadInv
  <1> QED
    BY <1>3, <1>4, <1>5, PageStepKeeps

LEMMA StopKeeps ==
    ASSUME UploadIInv, NEW g \in Pages, Stop(g) \/ \E a \in answers : ConfirmRefused(g, a)
    PROVE  UploadIInv'
  <1>1. PICK at \in {"closed", "ready"} : page' = [page EXCEPT ![g].at = at]
    BY DEF Stop, ConfirmRefused
  <1>2. /\ page' \in [Pages -> Page]
        /\ page'[g].at = at /\ page'[g].sub = page[g].sub /\ page'[g].run = page[g].run
        /\ \A h \in Pages : h # g => page'[h] = page[h]
    BY <1>1, PageAt DEF UploadIInv
  <1>3. UNCHANGED <<vars, serving, wire>> /\ answers' \subseteq answers
    BY DEF Stop, ConfirmRefused
  <1>4. PagesTyped'
    BY <1>2, <1>3 DEF PagesTyped, UploadIInv
  <1>5. \A h \in Pages : PageMoves(h)
    BY <1>2 DEF PageMoves
  <1>6. page[g].at # "closed"
    BY DEF Stop, ConfirmRefused, Busy, Step
  <1>7. \A h \in Pages : page'[h].at # "closed" => page'[h].sub \in DOMAIN rows
    BY <1>2, <1>6 DEF UploadIInv, UploadInv
  <1> QED
    BY <1>3, <1>4, <1>5, <1>7, PageStepKeeps

\* A run that starts is later than every call there is.
LEMMA ClickStartKeeps ==
    ASSUME UploadIInv, NEW g \in Pages, ClickStart(g)
    PROVE  UploadIInv'
  <1>0. PagesTyped /\ page[g] \in Page /\ page[g].run \in Nat
    BY DEF UploadIInv, PagesTyped, Page
  <1>1. PICK n \in Nat : n = page[g].run + 1
    BY <1>0
  <1>2. Send(g, n, "url", NoFile) /\ page[g].at = "ready" /\ answers' = answers
    BY <1>1 DEF ClickStart
  <1>3. /\ page' \in [Pages -> Page]
        /\ page'[g].at = "url" /\ page'[g].run = n /\ page'[g].sub = page[g].sub
        /\ \A h \in Pages : h # g => page'[h] = page[h]
        /\ wire' \subseteq Call
        /\ \A c \in wire' : c \in wire \/ (c.page = g /\ c.run = n /\ c.step = "url"
                                           /\ c.sub = page[g].sub)
    BY <1>0, <1>2, Sent DEF Step
  <1>4. PagesTyped' /\ UNCHANGED <<vars, serving>>
    BY <1>0, <1>2, <1>3 DEF PagesTyped, Send
  <1>5. \A h \in Pages : PageMoves(h)
    BY <1>0, <1>1, <1>3 DEF PageMoves
  <1>6. page[g].sub \in DOMAIN rows
    BY <1>2 DEF UploadIInv, UploadInv
  <1>7. \A h \in Pages : page'[h].at # "closed" => page'[h].sub \in DOMAIN rows
    BY <1>3, <1>6 DEF UploadIInv, UploadInv
  <1>8. \A c \in wire' : c \in wire \/ CallSound(c)'
    BY <1>3, <1>4, <1>6 DEF CallSound, vars
  <1> QED
    BY <1>2, <1>4, <1>5, <1>7, <1>8, PageStepKeeps

\* A page goes on from its URL to the PUT of that key, and from the PUT to the
\* confirmation of what it has put.
LEMMA AnsweredKeeps ==
    ASSUME UploadIInv, NEW g \in Pages, NEW a \in answers, Answered(g, a)
    PROVE  UploadIInv'
  <1>0. /\ PagesTyped /\ page[g] \in Page /\ page[g].run \in Nat
        /\ page[g].key \in Key \cup {NoFile}
        /\ a \in Call /\ a.key \in Key \cup {NoFile}
    BY DEF UploadIInv, PagesTyped, Page, Call
  <1>1. /\ a.page = g /\ a.run = page[g].run /\ a.step = page[g].at
        /\ page[g].at \in {"url", "put"} /\ answers' \subseteq answers
    BY DEF Answered, Awaited
  <1>2. PICK step \in Step, k \in Key \cup {NoFile} :
           /\ step = StepAfter(page[g].at) /\ k = KeyFrom(g, a)
           /\ Send(g, page[g].run, step, k)
    BY <1>0 DEF Answered, StepAfter, KeyFrom, Step
  <1>3. /\ page' \in [Pages -> Page]
        /\ page'[g].at = step /\ page'[g].run = page[g].run /\ page'[g].sub = page[g].sub
        /\ page'[g].key = k
        /\ \A h \in Pages : h # g => page'[h] = page[h]
        /\ wire' \subseteq Call
        /\ \A c \in wire' : c \in wire \/ (c.page = g /\ c.run = page[g].run /\ c.step = step
                                           /\ c.sub = page[g].sub /\ c.key = k)
    BY <1>0, <1>2, Sent
  <1>4. PagesTyped' /\ UNCHANGED <<vars, serving>>
    BY <1>0, <1>1, <1>2, <1>3 DEF PagesTyped, Send
  <1>5. \A h \in Pages : PageMoves(h)
    BY <1>1, <1>2, <1>3 DEF PageMoves, StepAfter
  <1>6. page[g].sub \in DOMAIN rows
    BY <1>1 DEF UploadIInv, UploadInv
  <1>7. \A h \in Pages : page'[h].at # "closed" => page'[h].sub \in DOMAIN rows
    BY <1>3, <1>6 DEF UploadIInv, UploadInv
  <1>8. step = "confirm" => k \in DOMAIN objects
    <2> SUFFICES ASSUME page[g].at = "put" PROVE k \in DOMAIN objects
      BY <1>1, <1>2 DEF StepAfter
    <2>1. CallSound(a) /\ a.key \in DOMAIN objects
      BY <1>1 DEF UploadIInv, UploadInv
    <2>2. a.key = page[g].key /\ k = page[g].key
      BY <1>1, <1>2, <2>1 DEF CallSound, KeyFrom
    <2> QED
      BY <2>1, <2>2
  <1>9. ASSUME NEW c \in wire', c \notin wire PROVE CallSound(c)'
    <2>1. /\ c.page = g /\ c.run = page[g].run /\ c.step = step
          /\ c.sub = page[g].sub /\ c.key = k
      BY <1>3, <1>9
    <2>2. step \in {"put", "confirm"}
      BY <1>1, <1>2 DEF StepAfter
    <2> QED
      BY <1>0, <1>3, <1>4, <1>6, <1>8, <2>1, <2>2 DEF CallSound, vars
  <1> QED
    BY <1>1, <1>4, <1>5, <1>7, <1>9, PageStepKeeps

-----------------------------------------------------------------------------
\* The steps of the server.

LEMMA RequestServed ==
    ASSUME UploadIInv, NEW p \in Procs, serving[p] # NoCall
    PROVE  /\ serving[p] \in Call /\ CallSound(serving[p])
           /\ \/ req[p].op = "sign" /\ serving[p].step = "url"
              \/ req[p].op = "put" /\ serving[p].step = "put" /\ serving[p].key = req[p].key
  BY DEF UploadIInv, UploadInv, PagesTyped, ServesOwnCall

\* What every step of the workflow does to the rows and to the store.
LEMMA WorkGrows ==
    ASSUME TypeOK, NEW p \in Procs, Begin(p) \/ Continue(p) \/ Abort(p)
    PROVE  /\ Grows
           /\ \A q \in Procs : q # p => req'[q] = req[q]
           /\ req[p] = Idle \/ req'[p] = Idle
           /\ StorePut(p) => req[p].key \in DOMAIN objects'
  <1>1. CASE Begin(p)
    <2>1. PICK r : Start(p, r)
      BY <1>1 DEF Begin, AskUrl, AcceptPut, ReadForConfirm, MoveBegins, ReadForMove
    <2>2. req[p] = Idle /\ UNCHANGED <<rows, objects>> /\ Goto(p, r)
      BY <2>1 DEF Start
    <2> QED
      BY <2>2, GotoFrame DEF Grows, Idle, StorePut
  <1>2. CASE Continue(p) \/ Abort(p)
    <2>1. Goto(p, Idle)
      BY <1>2 DEF Continue, IssueUrl, StorePut, AttachFile, WriteStatus, Update, Abort
    <2>2. DOMAIN rows' = DOMAIN rows
      BY <1>2 DEF Continue, IssueUrl, StorePut, AttachFile, WriteStatus, Update, Abort
    <2>3. /\ DOMAIN objects \subseteq DOMAIN objects'
          /\ StorePut(p) => req[p].key \in DOMAIN objects'
      BY <1>2 DEF Continue, IssueUrl, StorePut, AttachFile, WriteStatus, Update, Abort
    <2> QED
      BY <2>1, <2>2, <2>3, GotoFrame DEF Grows
  <1> QED
    BY <1>1, <1>2

\* A request that begins, with the rows and the objects as they are.
LEMMA TakeKeeps ==
    ASSUME UploadIInv, NEW p \in Procs, NEW c \in wire, Take(p, c)
    PROVE  UploadIInv' /\ Begin(p)
  <1>0. /\ IInv /\ PagesTyped /\ c \in Call /\ CallSound(c)
        /\ c.sub \in DOMAIN rows /\ rows[c.sub].author \in Students
    <2>1. IInv /\ PagesTyped /\ c \in Call /\ CallSound(c) /\ c.sub \in DOMAIN rows
      BY DEF UploadIInv, UploadInv, PagesTyped, CallSound
    <2>2. rows[c.sub] \in Row
      BY <2>1, RowTyped DEF IInv
    <2> QED
      BY <2>1, <2>2 DEF Row
  <1>1. /\ Begin(p)
        /\ \E r : /\ Start(p, r)
                  /\ \/ r.op = "sign" /\ c.step = "url"
                     \/ r.op = "put" /\ c.step = "put" /\ r.key = c.key
    <2>1. CASE c.step = "url" /\ AskUrl(p, rows[c.sub].author, c.sub)
      <3>1. Begin(p)
        BY <1>0, <2>1 DEF Begin
      <3> QED
        BY <2>1, <3>1 DEF AskUrl, Signing
    <2>2. CASE c.step = "put" /\ \E u \in urls, b \in Contents :
                                    u.key = c.key /\ AcceptPut(p, u, b)
      <3>1. Begin(p)
        BY <1>0, <2>2 DEF Begin
      <3> QED
        BY <2>2, <3>1 DEF AcceptPut, Putting
    <2> QED
      BY <2>1, <2>2 DEF Take
  <1>2. PICK r : /\ Start(p, r)
                 /\ \/ r.op = "sign" /\ c.step = "url"
                    \/ r.op = "put" /\ c.step = "put" /\ r.key = c.key
    BY <1>1
  <1>3. /\ req'[p] = r /\ \A q \in Procs : q # p => req'[q] = req[q]
        /\ UNCHANGED <<rows, objects>>
    BY <1>0, <1>2, GotoFrame DEF Start, IInv
  <1>4. /\ wire' \subseteq wire /\ UNCHANGED <<page, answers>>
        /\ serving'[p] = c /\ \A q \in Procs : q # p => serving'[q] = serving[q]
        /\ serving' \in [Procs -> Call \cup {NoCall}]
    BY <1>0 DEF Take, PagesTyped
  <1>5. PagesTyped' /\ IInv'
    BY <1>0, <1>1, <1>4, BeginKeeps DEF PagesTyped
  <1>6. ServesOwnCall(p)'
    BY <1>2, <1>3, <1>4 DEF ServesOwnCall
  <1>7. \A q \in Procs : q # p => ServesOwnCall(q)'
    BY <1>3, <1>4 DEF ServesOwnCall, UploadIInv, UploadInv
  <1>8. Grows
    BY <1>3 DEF Grows
  <1> QED
    BY <1>1, <1>4, <1>5, <1>6, <1>7, <1>8, ServerStepKeeps

\* A call that leaves the wire without reaching a request, answered or not.
LEMMA LoseKeeps ==
    ASSUME UploadIInv, NEW c \in wire, Lose(c) \/ RefuseConfirm(c)
    PROVE  UploadIInv'
  <1>1. /\ IInv' /\ UNCHANGED <<rows, objects, req, serving, page>> /\ wire' \subseteq wire
        /\ answers' = answers \/ (c.step = "confirm" /\ answers' = answers \cup {c})
    BY TickKeeps DEF Lose, RefuseConfirm, UploadIInv, vars
  <1>2. PagesTyped' /\ Grows /\ c \in Call
    BY <1>1 DEF PagesTyped, UploadIInv, Grows
  <1>3. \A p \in Procs : ServesOwnCall(p)'
    BY <1>1 DEF ServesOwnCall, UploadIInv, UploadInv
  <1>4. CallSound(c)'
    BY <1>1, <1>2, CallKept DEF UploadIInv, UploadInv, PageMoves
  <1>5. \A a \in answers' :
           a \in answers \/ (CallSound(a)' /\ (a.step = "put" => a.key \in DOMAIN objects'))
    BY <1>1, <1>4
  <1> QED
    BY <1>1, <1>2, <1>3, <1>5, ServerStepKeeps

\* A request that ends, with or without an answer.
LEMMA EndsServing ==
    ASSUME UploadIInv, NEW p \in Procs, Goto(p, Idle),
           serving' = [serving EXCEPT ![p] = NoCall]
    PROVE  /\ serving' \in [Procs -> Call \cup {NoCall}]
           /\ \A q \in Procs : serving'[q] \in {NoCall, serving[q]}
           /\ \A q \in Procs : ServesOwnCall(q)'
  <1>1. \A q \in Procs : q # p => req'[q] = req[q]
    BY GotoFrame DEF UploadIInv, IInv
  <1>2. /\ serving' \in [Procs -> Call \cup {NoCall}]
        /\ serving'[p] = NoCall /\ \A q \in Procs : q # p => serving'[q] = serving[q]
    BY DEF UploadIInv, PagesTyped
  <1> QED
    BY <1>1, <1>2 DEF ServesOwnCall, UploadIInv, UploadInv

LEMMA ServeFailsKeeps ==
    ASSUME UploadIInv, NEW p \in Procs, ServeFails(p)
    PROVE  UploadIInv'
  <1>1. /\ IInv' /\ Goto(p, Idle) /\ UNCHANGED <<rows, objects, page, wire, answers>>
        /\ serving' = [serving EXCEPT ![p] = NoCall]
    BY ContinueKeeps DEF ServeFails, Abort, UploadIInv
  <1>2. PagesTyped' /\ Grows
    BY <1>1, EndsServing DEF PagesTyped, UploadIInv, Grows
  <1> QED
    BY <1>1, <1>2, EndsServing, ServerStepKeeps

\* A call with another key.
LEMMA KeyWritten ==
    ASSUME NEW c \in Call, NEW k \in Key \cup {NoFile}
    PROVE  LET a == [c EXCEPT !.key = k] IN
           /\ a \in Call /\ a.key = k
           /\ a.page = c.page /\ a.run = c.run /\ a.step = c.step /\ a.sub = c.sub
  BY DEF Call

\* An answered call was sound and is so with the key of the answer; a PUT that
\* is answered has been stored.
LEMMA ServeKeeps ==
    ASSUME UploadIInv, NEW p \in Procs, Serve(p)
    PROVE  UploadIInv'
  <1>1. /\ serving[p] # NoCall /\ (IssueUrl(p) \/ StorePut(p))
        /\ Goto(p, Idle) /\ UNCHANGED <<page, wire>>
        /\ serving' = [serving EXCEPT ![p] = NoCall]
        /\ answers' = answers \cup {[serving[p] EXCEPT !.key = KeyAnswered(p)]}
    BY DEF Serve, IssueUrl, StorePut
  <1>2. IInv'
    BY <1>1, ContinueKeeps DEF Continue, UploadIInv
  <1>3. Grows /\ (StorePut(p) => req[p].key \in DOMAIN objects')
    BY <1>1, WorkGrows DEF Continue, UploadIInv, IInv
  <1>5. PICK c \in Call : /\ c = serving[p] /\ CallSound(c)
                          /\ c.step = "put" => StorePut(p) /\ c.key = req[p].key
                          /\ c.step = "url" <=> req[p].op = "sign"
    BY <1>1, RequestServed DEF IssueUrl
  <1>6. PICK k \in Key \cup {NoFile} : /\ k = KeyAnswered(p)
                                       /\ c.step # "url" => k = c.key
    <2>1. CASE req[p].op = "sign"
      <3>1. req[p].sub \in Nat /\ now \in Nat
        BY <2>1, RowTyped, RequestFields DEF UploadIInv, IInv, TypeOK
      <3>2. <<req[p].sub, now>> \in Key
        BY <3>1 DEF Key
      <3> QED
        BY <1>5, <2>1, <3>2 DEF KeyAnswered
    <2>2. CASE req[p].op # "sign"
      BY <1>5, <2>2 DEF KeyAnswered, Call
    <2> QED
      BY <2>1, <2>2
  <1>7. PICK a \in Call : /\ a.key = k /\ answers' = answers \cup {a}
                          /\ a.page = c.page /\ a.run = c.run /\ a.step = c.step
                          /\ a.sub = c.sub
    <2> DEFINE b == [c EXCEPT !.key = k]
    <2>1. /\ b \in Call /\ b.key = k
          /\ b.page = c.page /\ b.run = c.run /\ b.step = c.step /\ b.sub = c.sub
      BY KeyWritten
    <2>2. answers' = answers \cup {b}
      <3>1. c = serving[p] /\ k = KeyAnswered(p)
        BY <1>5, <1>6
      <3> QED
        BY <1>1, <3>1
    <2> HIDE DEF b
    <2> QED
      BY <2>1, <2>2
  <1>8. PagesTyped'
    BY <1>1, <1>7, EndsServing DEF PagesTyped, UploadIInv
  <1>9. CallSound(c)'
    BY <1>1, <1>3, <1>5, <1>8, CallKept DEF UploadIInv, PageMoves
  <1>10. CallSound(a)'
    <2>1. a.step # "url" => a.key = c.key
      BY <1>6, <1>7
    <2> QED
      BY <1>7, <1>9, <2>1 DEF CallSound
  <1>11. a.step = "put" => a.key \in DOMAIN objects'
    BY <1>3, <1>5, <1>6, <1>7
  <1> QED
    BY <1>1, <1>11, <1>2, <1>3, <1>7, <1>8, <1>10, EndsServing, ServerStepKeeps

\* Drafts, the clock and the requests of other clients: they serve no page, and
\* take nothing away.
LEMMA ElsewhereKeeps ==
    ASSUME UploadIInv, Elsewhere
    PROVE  UploadIInv'
  <1>0. UNCHANGED <<page, wire, serving, answers>> /\ IInv /\ PagesTyped
    BY DEF Elsewhere, uploadVars, UploadIInv
  <1>1. PagesTyped'
    BY <1>0 DEF PagesTyped
  <1>2. ASSUME IInv', Grows,
               \A p \in Procs : req'[p] = req[p] \/ serving[p] = NoCall
        PROVE  UploadIInv'
    <2>1. \A p \in Procs : ServesOwnCall(p)'
      BY <1>0, <1>2 DEF ServesOwnCall, UploadIInv, UploadInv
    <2> QED
      BY <1>0, <1>1, <1>2, <2>1, ServerStepKeeps
  <1>3. ASSUME NEW m \in Students, CreateDraft(m) PROVE UploadIInv'
    <2>1. IInv' /\ UNCHANGED <<objects, req>>
      BY <1>0, <1>3, CreateDraftKeeps DEF CreateDraft
    <2>2. DOMAIN rows \subseteq DOMAIN rows'
      <3>1. Len(rows) \in Nat /\ DOMAIN rows = 1 .. Len(rows)
        BY <1>0, RowTyped DEF IInv
      <3>2. DOMAIN rows' = 1 .. (Len(rows) + 1)
        BY <1>0, <1>3 DEF CreateDraft, IInv, TypeOK
      <3> QED
        BY <3>1, <3>2
    <2> QED
      BY <1>2, <2>1, <2>2 DEF Grows
  <1>4. ASSUME NEW p \in Procs, serving[p] = NoCall, Begin(p) \/ Continue(p) \/ Abort(p)
        PROVE  UploadIInv'
    <2>1. IInv'
      BY <1>0, <1>4, BeginKeeps, ContinueKeeps
    <2>2. Grows /\ \A q \in Procs : q # p => req'[q] = req[q]
      BY <1>0, <1>4, WorkGrows DEF IInv
    <2> QED
      BY <1>2, <1>4, <2>1, <2>2
  <1>5. ASSUME Tick PROVE UploadIInv'
    <2>1. IInv' /\ UNCHANGED <<rows, objects, req>>
      BY <1>0, <1>5, TickKeeps DEF Tick
    <2> QED
      BY <1>2, <2>1 DEF Grows
  <1> QED
    BY <1>3, <1>4, <1>5 DEF Elsewhere

-----------------------------------------------------------------------------
LEMMA UploadInitInv == UploadInit => UploadIInv
  <1> SUFFICES ASSUME UploadInit PROVE UploadIInv
    OBVIOUS
  <1>1. IInv
    BY InitInv DEF UploadInit
  <1>2. PagesTyped
    BY DEF UploadInit, PagesTyped, Page
  <1>3. UploadInv
    BY DEF UploadInit, UploadInv, ServesOwnCall
  <1> QED
    BY <1>1, <1>2, <1>3 DEF UploadIInv

THEOREM UploadInvariance == UploadSpec => []UploadIInv
  <1>1. UploadIInv /\ [UploadNext]_allVars => UploadIInv'
    <2> SUFFICES ASSUME UploadIInv, [UploadNext]_allVars PROVE UploadIInv'
      OBVIOUS
    <2>1. CASE UNCHANGED allVars
      <3>1. UNCHANGED <<vars, page, wire, serving, answers>>
        BY <2>1 DEF allVars, vars
      <3>2. PagesTyped'
        BY <3>1 DEF UploadIInv, PagesTyped
      <3> QED
        BY <3>1, <3>2, PageStepKeeps DEF PageMoves, UploadIInv, UploadInv
    <2> QED
      BY <2>1, OpenPageKeeps, StopKeeps, ClickStartKeeps, AnsweredKeeps, TakeKeeps,
         LoseKeeps, ServeKeeps, ServeFailsKeeps, ElsewhereKeeps DEF UploadNext
  <1> QED
    BY UploadInitInv, <1>1, PTL DEF UploadSpec

\* Pages, calls and answers are always typed, and the request that serves a page's
\* PUT writes that PUT's key.
THEOREM UploadTypeCorrect == UploadSpec => []UploadTypeOK
  <1>1. UploadIInv => UploadTypeOK
    BY DEF UploadIInv, IInv, PagesTyped, UploadInv, UploadTypeOK
  <1> QED
    BY <1>1, UploadInvariance, PTL

\* In spite of cancelled runs, lost calls and late answers a page confirms only
\* what is stored.
THEOREM ConfirmNamesStoredHolds == UploadSpec => []ConfirmNamesStored
  <1>1. UploadIInv => ConfirmNamesStored
    BY DEF UploadIInv, UploadInv, CallSound, ConfirmNamesStored
  <1> QED
    BY <1>1, UploadInvariance, PTL

\* The pages are clients like any other: with them the workflow takes the steps of
\* ThesisSubmission and no others, so what is proved of those holds here.
THEOREM PagesAreClients == UploadSpec => Spec
  <1>1. UploadInit => Init
    BY DEF UploadInit
  <1>2. UploadIInv /\ [UploadNext]_allVars => [Next]_vars
    <2> SUFFICES ASSUME UploadIInv, [UploadNext]_allVars PROVE [Next]_vars
      OBVIOUS
    <2>1. CASE UNCHANGED allVars
      BY <2>1 DEF allVars, vars
    <2>2. ASSUME NEW g \in Pages,
                 \/ \E s \in DOMAIN rows : OpenPage(g, s)
                 \/ ClickStart(g) \/ Stop(g)
                 \/ \E a \in answers : Answered(g, a) \/ ConfirmRefused(g, a)
          PROVE  UNCHANGED vars
      BY <2>2 DEF OpenPage, ClickStart, Stop, Answered, ConfirmRefused, Send
    <2>3. ASSUME NEW c \in wire, Lose(c) \/ RefuseConfirm(c)
          PROVE  UNCHANGED vars
      BY <2>3 DEF Lose, RefuseConfirm
    <2>4. ASSUME NEW c \in wire, NEW p \in Procs, Take(p, c)
          PROVE  Next
      BY <2>4, TakeKeeps DEF Next
    <2>5. ASSUME NEW p \in Procs, Serve(p) \/ ServeFails(p)
          PROVE  Next
      BY <2>5 DEF Serve, ServeFails, Next, Continue
    <2>6. CASE Elsewhere
      BY <2>6 DEF Elsewhere, Next
    <2> QED
      BY <2>1, <2>2, <2>3, <2>4, <2>5, <2>6 DEF UploadNext
  <1> QED
    BY <1>1, <1>2, UploadInvariance, PTL DEF UploadSpec, Spec
=============================================================================
