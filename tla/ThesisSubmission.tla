--------------------------- MODULE ThesisSubmission ---------------------------
(***************************************************************************)
(* The thesis workflow of thesis/service and the object store the PDFs go  *)
(* to: createDraft, createUploadUrl, confirmUpload and transition, and the *)
(* PUT of a file to a signed URL.  Each operation reads a row, checks what *)
(* it read and later updates the row by its id: one action for the read    *)
(* and one for the write.  There is no transaction, and although the row   *)
(* has a version that every update increments, nothing compares it.        *)
(***************************************************************************)
EXTENDS Integers, Sequences, FiniteSets, StateTransitions

CONSTANTS
    Procs,          \* requests the server runs at the same time
    Students,       \* members who create drafts
    Staff,          \* members with role FACULTY, LIBRARIAN or ADMIN
    Contents,       \* what a stored PDF may contain
    NoFile,         \* a NULL filePath
    UrlLife,        \* the life of a signed URL: 900 seconds
    MaxSubmissions, \* bound: how many drafts are created
    MaxTime,        \* bound: the clock stops here
    MaxRequests     \* bound: how many other requests are ever made

ASSUME ThesisSubmissionAssumption ==
    /\ NoFile \notin Nat \X Nat
    /\ UrlLife \in Nat
    /\ MaxSubmissions \in Nat
    /\ MaxTime \in Nat
    /\ MaxRequests \in Nat

VARIABLES
    rows,        \* thesis_submission, in the order of creation
    urls,        \* the signed URLs handed out
    objects,     \* objects[k]: the bytes stored under key k
    now,         \* the wall clock
    req,         \* req[p]: what request p is doing and what it has read
    requests     \* how many requests were made

vars == <<rows, urls, objects, now, req, requests>>

-----------------------------------------------------------------------------
\* A key is theses/<submission>/<Date.now()>.pdf.
Key == Nat \X Nat
Never == -1

Row == [author : Students, status : SubmissionStatus, file : Key \cup {NoFile},
        submittedAt : Nat \cup {Never}, version : Nat]
Url == [key : Key, exp : Nat]

Idle == [op |-> "none"]
Signing(s) == [op |-> "sign", sub |-> s]
Confirming(s, k) == [op |-> "confirm", sub |-> s, file |-> k]
Moving(s, to, at) == [op |-> "move", sub |-> s, to |-> to, submittedAt |-> at]
Putting(k, c) == [op |-> "put", key |-> k, content |-> c]

\* The requests there may be while there are n submissions.
Request(n) == {Idle}
    \cup [op : {"sign"}, sub : 1 .. n]
    \cup [op : {"confirm"}, sub : 1 .. n, file : Key]
    \cup [op : {"move"}, sub : 1 .. n, to : SubmissionStatus,
          submittedAt : Nat \cup {Never}]
    \cup [op : {"put"}, key : Key, content : Contents]

\* The keys there can be within the bounds.
Keys == (1 .. MaxSubmissions) \X (0 .. MaxTime)

Goto(p, r) == req' = [req EXCEPT ![p] = r]

\* A request begins, having read what r says.
Start(p, r) ==
    /\ req[p] = Idle
    /\ requests < MaxRequests
    /\ requests' = requests + 1
    /\ Goto(p, r)
    /\ UNCHANGED <<rows, urls, objects, now>>

-----------------------------------------------------------------------------
Init ==
    /\ rows = << >>
    /\ urls = {}
    /\ objects = << >>
    /\ now = 0
    /\ req = [p \in Procs |-> Idle]
    /\ requests = 0

CreateDraft(m) ==
    /\ Len(rows) < MaxSubmissions
    /\ rows' = Append(rows, [author |-> m, status |-> "DRAFT", file |-> NoFile,
                             submittedAt |-> Never, version |-> 0])
    /\ UNCHANGED <<urls, objects, now, req, requests>>

-----------------------------------------------------------------------------
\* requireOwned, then requireDraft.
OwnDraft(m, s) == rows[s].author = m /\ rows[s].status = "DRAFT"

\* Mutant: a URL for any submission of the student, draft or not.
AskUrlAnyStatus(p, m, s) == rows[s].author = m /\ Start(p, Signing(s))

AskUrl(p, m, s) == OwnDraft(m, s) /\ Start(p, Signing(s))

\* The key is of this millisecond, and so is the expiry.
IssueUrl(p) ==
    /\ req[p].op = "sign"
    /\ urls' = urls \cup {[key |-> <<req[p].sub, now>>, exp |-> now + UrlLife]}
    /\ Goto(p, Idle)
    /\ UNCHANGED <<rows, objects, now, requests>>

\* The signature and the expiry are checked when the PUT arrives ...
AcceptPut(p, u, c) ==
    /\ u \in urls
    /\ now <= u.exp
    /\ Start(p, Putting(u.key, c))

\* ... and the bytes are stored once the body has been read.
StorePut(p) ==
    /\ req[p].op = "put"
    /\ objects' = [k \in DOMAIN objects \cup {req[p].key} |->
                      IF k = req[p].key THEN req[p].content ELSE objects[k]]
    /\ Goto(p, Idle)
    /\ UNCHANGED <<rows, urls, now, requests>>

\* Any key with the prefix of this submission will do, stored or not.
ReadForConfirm(p, m, s, k) ==
    /\ OwnDraft(m, s)
    /\ k[1] = s
    /\ Start(p, Confirming(s, k))

Update(p, row) ==
    /\ rows' = [rows EXCEPT ![req[p].sub] = row]
    /\ Goto(p, Idle)
    /\ UNCHANGED <<urls, objects, now, requests>>

\* Mutant: version: { decrement: 1 }.
AttachFileDecrements(p) ==
    LET row == rows[req[p].sub] IN
    /\ req[p].op = "confirm"
    /\ Update(p, [row EXCEPT !.file = req[p].file, !.version = @ - 1])

AttachFile(p) ==
    LET row == rows[req[p].sub] IN
    /\ req[p].op = "confirm"
    /\ Update(p, [row EXCEPT !.file = req[p].file, !.version = @ + 1])

-----------------------------------------------------------------------------
\* Submitting is the author's own move, every other one the staff's.
MayMove(m, s, to) == IF to = "SUBMITTED" THEN m = rows[s].author ELSE m \in Staff

\* Mutant: submitting without a file.
ReadForMoveNoFile(p, m, s, to) ==
    /\ MayMove(m, s, to)
    /\ IsLegal(SubmissionTransitions, rows[s].status, to)
    /\ Start(p, Moving(s, to, rows[s].submittedAt))

ReadForMove(p, m, s, to) ==
    /\ MayMove(m, s, to)
    /\ to = "SUBMITTED" => rows[s].file # NoFile
    /\ IsLegal(SubmissionTransitions, rows[s].status, to)
    /\ Start(p, Moving(s, to, rows[s].submittedAt))

\* Mutant: every move stamps the time.
WriteStatusStamped(p) ==
    LET row == rows[req[p].sub] IN
    /\ req[p].op = "move"
    /\ Update(p, [row EXCEPT !.status = req[p].to, !.submittedAt = now, !.version = @ + 1])

WriteStatus(p) ==
    LET row == rows[req[p].sub]
        at == IF req[p].to = "SUBMITTED" THEN now ELSE req[p].submittedAt IN
    /\ req[p].op = "move"
    /\ Update(p, [row EXCEPT !.status = req[p].to, !.submittedAt = at, !.version = @ + 1])

\* A failed statement, a body that breaks off, a server that stops.
Abort(p) ==
    /\ req[p] # Idle
    /\ Goto(p, Idle)
    /\ UNCHANGED <<rows, urls, objects, now, requests>>

Tick ==
    /\ now < MaxTime
    /\ now' = now + 1
    /\ UNCHANGED <<rows, urls, objects, req, requests>>

-----------------------------------------------------------------------------
MoveBegins(p) ==
    \E s \in DOMAIN rows, m \in Students \cup Staff, to \in SubmissionStatus :
        ReadForMove(p, m, s, to)

Begin(p) ==
    \/ \E s \in DOMAIN rows, m \in Students : AskUrl(p, m, s)
    \/ \E u \in urls, c \in Contents : AcceptPut(p, u, c)
    \/ \E s \in DOMAIN rows, m \in Students, k \in Keys : ReadForConfirm(p, m, s, k)
    \/ MoveBegins(p)

Continue(p) == IssueUrl(p) \/ StorePut(p) \/ AttachFile(p) \/ WriteStatus(p)

Next ==
    \/ \E m \in Students : CreateDraft(m)
    \/ \E p \in Procs : Begin(p) \/ Continue(p) \/ Abort(p)
    \/ Tick

Spec == Init /\ [][Next]_vars

\* The same service when the requests about one submission do not overlap.
Serialised ==
    \A p, q \in Procs :
        (p # q /\ {req[p].op, req[q].op} \subseteq {"sign", "confirm", "move"}) =>
            req[p].sub # req[q].sub

SerialNext ==
    \/ \E m \in Students : CreateDraft(m)
    \/ \E p \in Procs : \/ Begin(p) /\ Serialised'
                        \/ Continue(p) \/ Abort(p)
    \/ Tick

SerialSpec == Init /\ [][SerialNext]_vars

-----------------------------------------------------------------------------
\* Properties that hold of Spec.

\* Every variable has its type.
TypeOK ==
    /\ rows \in Seq(Row)
    /\ urls \in SUBSET Url
    /\ DOMAIN objects \subseteq Key
    /\ \A k \in DOMAIN objects : objects[k] \in Contents
    /\ now \in Nat
    /\ req \in [Procs -> Request(Len(rows))]
    /\ requests \in Nat

\* Whatever overlaps, a submission that has left DRAFT has a file and a time of
\* submission: no stale read lets one through or takes them away again.
SubmittedHasFile ==
    \A s \in DOMAIN rows : rows[s].status # "DRAFT" =>
        rows[s].file # NoFile /\ rows[s].submittedAt # Never

-----------------------------------------------------------------------------
\* Properties that hold of SerialSpec only.

Review == INSTANCE ThesisReview WITH
    subs <- [s \in DOMAIN rows |-> [status      |-> rows[s].status,
                                    file        |-> rows[s].file,
                                    submittedAt |-> rows[s].submittedAt]],
    Files <- Keys,
    Times <- 0 .. MaxTime

\* The service does what ThesisReview promises: what is judged is the file that
\* was submitted, at the time it was submitted, along SUBMISSION_TRANSITIONS.
ImplementsReview == Review!Spec

\* A PUT is accepted for a thesis that is no longer a draft only within the life
\* of a URL after its submission: createUploadUrl gives none out later.
UploadWindow ==
    [][\A p \in Procs, u \in urls, c \in Contents : AcceptPut(p, u, c) =>
          LET row == rows[u.key[1]] IN
          row.status # "DRAFT" => now <= row.submittedAt + UrlLife]_vars
=============================================================================
