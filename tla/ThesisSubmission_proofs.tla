------------------------ MODULE ThesisSubmission_proofs ------------------------
(***************************************************************************)
(* Theorems about ThesisSubmission, for every number of requests, members, *)
(* submissions and clock ticks.                                            *)
(***************************************************************************)
EXTENDS ThesisSubmission, TLAPS

\* A row that has left DRAFT has what it was submitted with.
Complete(row) ==
    row.status # "DRAFT" => row.file # NoFile /\ row.submittedAt # Never

\* What an update never takes from a row: its file, once it has one, and its
\* having left DRAFT.
Kept(old, new) ==
    /\ old.file # NoFile => new.file # NoFile
    /\ old.status # "DRAFT" => new.status # "DRAFT"

\* What a request r that is about to write a status knows of its row in table t:
\* stale as the row it read may be, this of it is still true.
Backed(r, t) ==
    r.op = "move" =>
        /\ r.to # "DRAFT"
        /\ r.to = "SUBMITTED" => t[r.sub].file # NoFile
        /\ r.to # "SUBMITTED" => t[r.sub].status # "DRAFT" /\ r.submittedAt # Never

\* The inductive invariant.
IInv == /\ TypeOK
        /\ SubmittedHasFile
        /\ \A p \in Procs : Backed(req[p], rows)

-----------------------------------------------------------------------------
\* The fields of a well-typed request that is doing something.
LEMMA RequestFields ==
    ASSUME NEW n \in Nat, NEW r \in Request(n)
    PROVE  /\ r.op \in {"none", "sign", "confirm", "move", "put"}
           /\ r.op \in {"sign", "confirm", "move"} => r.sub \in 1 .. n
           /\ r.op = "confirm" => r.file \in Key
           /\ r.op = "move" => r.to \in SubmissionStatus /\ r.submittedAt \in Nat \cup {Never}
           /\ r.op = "put" => r.key \in Key /\ r.content \in Contents
  BY DEF Request, Idle

\* A request stays well-typed while submissions are added.
LEMMA RequestsGrow ==
    ASSUME NEW n \in Nat, NEW m \in Nat, n <= m
    PROVE  Request(n) \subseteq Request(m)
  <1>1. 1 .. n \subseteq 1 .. m
    OBVIOUS
  <1> QED
    BY <1>1 DEF Request

\* The submissions there are have rows.
LEMMA RowTyped ==
    ASSUME TypeOK
    PROVE  /\ Len(rows) \in Nat
           /\ DOMAIN rows = 1 .. Len(rows)
           /\ \A s \in DOMAIN rows : rows[s] \in Row
  BY DEF TypeOK

\* A request goes on to r, the others stay where they are.
LEMMA GotoFrame ==
    ASSUME TypeOK, NEW p \in Procs, NEW r, Goto(p, r)
    PROVE  /\ req'[p] = r
           /\ \A q \in Procs : q # p => req'[q] = req[q]
           /\ r \in Request(Len(rows)) => req' \in [Procs -> Request(Len(rows))]
  BY DEF TypeOK, Goto

-----------------------------------------------------------------------------
\* The steps that leave every row alone.

\* A request that begins has been read from the table as it is.
LEMMA StartKeeps ==
    ASSUME IInv, NEW p \in Procs, NEW r \in Request(Len(rows)), Backed(r, rows),
           Start(p, r)
    PROVE  IInv'
  <1>1. /\ req'[p] = r
        /\ \A q \in Procs : q # p => req'[q] = req[q]
        /\ req' \in [Procs -> Request(Len(rows))]
    BY GotoFrame DEF IInv, Start
  <1>2. UNCHANGED <<rows, urls, objects, now>> /\ requests' = requests + 1
    BY DEF Start
  <1>3. TypeOK'
    BY <1>1, <1>2 DEF IInv, TypeOK
  <1>4. SubmittedHasFile'
    BY <1>2 DEF IInv, SubmittedHasFile
  <1>5. \A q \in Procs : Backed(req'[q], rows')
    BY <1>1, <1>2 DEF IInv
  <1> QED
    BY <1>3, <1>4, <1>5 DEF IInv

\* A request ends with the rows as they were.
LEMMA EndKeeps ==
    ASSUME IInv, NEW p \in Procs, Goto(p, Idle), rows' = rows, requests' = requests,
           now' = now, urls' \in SUBSET Url, DOMAIN objects' \subseteq Key,
           \A k \in DOMAIN objects' : objects'[k] \in Contents
    PROVE  IInv'
  <1>0. Idle \in Request(Len(rows)) /\ Idle.op = "none"
    BY DEF Request, Idle
  <1>1. /\ req'[p] = Idle
        /\ \A q \in Procs : q # p => req'[q] = req[q]
        /\ req' \in [Procs -> Request(Len(rows))]
    BY <1>0, GotoFrame DEF IInv
  <1>2. TypeOK'
    BY <1>1 DEF IInv, TypeOK
  <1>3. SubmittedHasFile'
    BY DEF IInv, SubmittedHasFile
  <1>4. \A q \in Procs : Backed(req'[q], rows')
    BY <1>0, <1>1 DEF IInv, Backed
  <1> QED
    BY <1>2, <1>3, <1>4 DEF IInv

-----------------------------------------------------------------------------
\* The steps that write a row.

\* A row that keeps what Kept says takes nothing from what requests know.
LEMMA BackedKept ==
    ASSUME NEW t, NEW u, NEW n \in Nat, NEW r \in Request(n), Backed(r, t),
           \A s \in 1 .. n : Kept(t[s], u[s])
    PROVE  Backed(r, u)
  <1> SUFFICES ASSUME r.op = "move" PROVE Backed(r, u)
    BY DEF Backed
  <1>1. r.sub \in 1 .. n
    BY RequestFields
  <1>2. Kept(t[r.sub], u[r.sub])
    BY <1>1
  <1> QED
    BY <1>2 DEF Backed, Kept

LEMMA UpdateKeeps ==
    ASSUME IInv, NEW p \in Procs, req[p].op \in {"confirm", "move"}, NEW row \in Row,
           Complete(row), Kept(rows[req[p].sub], row), Update(p, row)
    PROVE  IInv'
  <1> DEFINE s == req[p].sub
  <1>0. Idle \in Request(Len(rows)) /\ Idle.op = "none"
    BY DEF Request, Idle
  <1>1. /\ Len(rows) \in Nat
        /\ DOMAIN rows = 1 .. Len(rows)
        /\ \A i \in DOMAIN rows : rows[i] \in Row
    BY RowTyped DEF IInv
  <1>2. s \in DOMAIN rows
    BY <1>1, RequestFields DEF IInv, TypeOK
  <1>3. /\ rows' \in Seq(Row)
        /\ DOMAIN rows' = DOMAIN rows
        /\ Len(rows') = Len(rows)
        /\ rows'[s] = row
        /\ \A i \in DOMAIN rows : i # s => rows'[i] = rows[i]
    BY <1>2 DEF IInv, TypeOK, Update
  <1>4. /\ req'[p] = Idle
        /\ \A q \in Procs : q # p => req'[q] = req[q]
        /\ req' \in [Procs -> Request(Len(rows))]
    BY <1>0, GotoFrame DEF IInv, Update
  <1>5. TypeOK'
    BY <1>3, <1>4 DEF IInv, TypeOK, Update
  <1>6. SubmittedHasFile'
    BY <1>3 DEF IInv, SubmittedHasFile, Complete
  <1>7. \A i \in 1 .. Len(rows) : Kept(rows[i], rows'[i])
    BY <1>1, <1>3 DEF Kept
  <1>8. \A q \in Procs : Backed(req'[q], rows')
    <2> TAKE q \in Procs
    <2>1. CASE q = p
      BY <2>1, <1>0, <1>4 DEF Backed
    <2>2. CASE q # p
      <3>1. req[q] \in Request(Len(rows)) /\ Backed(req[q], rows)
        BY DEF IInv, TypeOK
      <3>2. Backed(req[q], rows')
        BY <3>1, <1>1, <1>7, BackedKept
      <3> QED
        BY <3>2, <2>2, <1>4
    <2> QED
      BY <2>1, <2>2
  <1> QED
    BY <1>5, <1>6, <1>8 DEF IInv

\* The row confirmUpload writes, and the row transition writes.
LEMMA RowAttached ==
    ASSUME NEW old \in Row, NEW k \in Key
    PROVE  LET row == [old EXCEPT !.file = k, !.version = @ + 1] IN
           /\ row \in Row
           /\ row.file = k
           /\ row.status = old.status
           /\ row.submittedAt = old.submittedAt
  <1> DEFINE mid == [old EXCEPT !.file = k]
             row == [mid EXCEPT !.version = @ + 1]
  <1>1. /\ mid \in Row
        /\ mid.file = k
        /\ mid.status = old.status
        /\ mid.submittedAt = old.submittedAt
        /\ mid.version = old.version
    BY DEF Row
  <1>2. [old EXCEPT !.file = k, !.version = @ + 1] = row
    BY <1>1 DEF Row
  <1> HIDE DEF mid
  <1>3. /\ row \in Row
        /\ row.file = mid.file
        /\ row.status = mid.status
        /\ row.submittedAt = mid.submittedAt
    BY <1>1 DEF Row
  <1> QED
    BY <1>1, <1>2, <1>3

Moved(old, to, at) == [old EXCEPT !.status = to, !.submittedAt = at, !.version = @ + 1]

LEMMA RowMoved ==
    ASSUME NEW old \in Row, NEW to \in SubmissionStatus, NEW at \in Nat \cup {Never}
    PROVE  /\ Moved(old, to, at) \in Row
           /\ Moved(old, to, at).file = old.file
           /\ Moved(old, to, at).status = to
           /\ Moved(old, to, at).submittedAt = at
  <1> DEFINE mid == [old EXCEPT !.status = to]
             end == [mid EXCEPT !.submittedAt = at]
             row == [end EXCEPT !.version = @ + 1]
  <1>1. /\ mid \in Row
        /\ mid.file = old.file
        /\ mid.status = to
    BY DEF Row
  <1>2. Moved(old, to, at) = row
    BY <1>1 DEF Row, Moved
  <1> HIDE DEF mid
  <1>3. /\ end \in Row
        /\ end.file = mid.file
        /\ end.status = mid.status
        /\ end.submittedAt = at
    BY <1>1 DEF Row
  <1> HIDE DEF end
  <1>4. /\ row \in Row
        /\ row.file = end.file
        /\ row.status = end.status
        /\ row.submittedAt = end.submittedAt
    BY <1>3 DEF Row
  <1> QED
    BY <1>1, <1>2, <1>3, <1>4

\* A file is attached to a row, submitted or not.
LEMMA AttachFileKeeps ==
    ASSUME IInv, NEW p \in Procs, AttachFile(p)
    PROVE  IInv'
  <1> DEFINE s == req[p].sub
             row == [rows[s] EXCEPT !.file = req[p].file, !.version = @ + 1]
  <1>1. req[p].op = "confirm" /\ Update(p, row)
    BY DEF AttachFile
  <1>2. s \in DOMAIN rows /\ rows[s] \in Row /\ req[p].file \in Key
    BY <1>1, RowTyped, RequestFields DEF IInv, TypeOK
  <1>3. /\ row \in Row
        /\ row.file = req[p].file
        /\ row.status = rows[s].status
        /\ row.submittedAt = rows[s].submittedAt
    BY <1>2, RowAttached
  <1>4. row.file # NoFile
    BY <1>2, <1>3, ThesisSubmissionAssumption DEF Key
  <1>5. Complete(row) /\ Kept(rows[s], row)
    BY <1>2, <1>3, <1>4 DEF IInv, SubmittedHasFile, Complete, Kept
  <1> QED
    BY <1>1, <1>3, <1>5, UpdateKeeps

\* A status is written: the row has a file still, and the time is that of now or
\* one that was read from a submitted row.
LEMMA WriteStatusKeeps ==
    ASSUME IInv, NEW p \in Procs, WriteStatus(p)
    PROVE  IInv'
  <1> DEFINE s == req[p].sub
             to == req[p].to
             at == IF to = "SUBMITTED" THEN now ELSE req[p].submittedAt
             row == Moved(rows[s], to, at)
  <1>1. req[p].op = "move" /\ Update(p, row)
    BY DEF WriteStatus, Moved
  <1>2. /\ s \in DOMAIN rows /\ rows[s] \in Row
        /\ to \in SubmissionStatus /\ req[p].submittedAt \in Nat \cup {Never}
        /\ now \in Nat
    BY <1>1, RowTyped, RequestFields DEF IInv, TypeOK
  <1>3. row \in Row /\ row.file = rows[s].file /\ row.status = to /\ row.submittedAt = at
    <2>1. at \in Nat \cup {Never}
      BY <1>2
    <2>2. rows[s] \in Row /\ to \in SubmissionStatus
      BY <1>2
    <2> HIDE DEF s, to, at
    <2> QED
      BY <2>1, <2>2, RowMoved
  <1>4. /\ to # "DRAFT"
        /\ to = "SUBMITTED" => rows[s].file # NoFile
        /\ to # "SUBMITTED" => rows[s].status # "DRAFT" /\ req[p].submittedAt # Never
    BY <1>1 DEF IInv, Backed
  <1>5. rows[s].status # "DRAFT" => rows[s].file # NoFile
    BY <1>2 DEF IInv, SubmittedHasFile
  <1>6. at # Never
    BY <1>2, <1>4 DEF Never
  <1>7. Complete(row) /\ Kept(rows[s], row)
    BY <1>3, <1>4, <1>5, <1>6 DEF Complete, Kept
  <1> QED
    BY <1>1, <1>3, <1>7, UpdateKeeps

\* A draft is added below the rows there are.
LEMMA CreateDraftKeeps ==
    ASSUME IInv, NEW m \in Students, CreateDraft(m)
    PROVE  IInv'
  <1> DEFINE row == [author |-> m, status |-> "DRAFT", file |-> NoFile,
                     submittedAt |-> Never, version |-> 0]
  <1>1. /\ Len(rows) \in Nat
        /\ DOMAIN rows = 1 .. Len(rows)
        /\ rows \in Seq(Row)
    BY RowTyped DEF IInv, TypeOK
  <1>2. row \in Row
    BY DEF Row, SubmissionStatus
  <1>3. /\ rows' \in Seq(Row)
        /\ Len(rows') = Len(rows) + 1
        /\ DOMAIN rows' = 1 .. Len(rows) + 1
        /\ rows'[Len(rows) + 1] = row
        /\ \A i \in DOMAIN rows : rows'[i] = rows[i]
    BY <1>1, <1>2 DEF CreateDraft
  <1>4. UNCHANGED <<urls, objects, now, req, requests>>
    BY DEF CreateDraft
  <1>5. Request(Len(rows)) \subseteq Request(Len(rows'))
    BY <1>1, <1>3, RequestsGrow
  <1>6. TypeOK'
    BY <1>3, <1>4, <1>5 DEF IInv, TypeOK
  <1>7. SubmittedHasFile'
    BY <1>1, <1>3 DEF IInv, SubmittedHasFile
  <1>8. \A i \in 1 .. Len(rows) : Kept(rows[i], rows'[i])
    BY <1>1, <1>3 DEF Kept
  <1>9. \A q \in Procs : Backed(req'[q], rows')
    <2> TAKE q \in Procs
    <2>1. req[q] \in Request(Len(rows)) /\ Backed(req[q], rows)
      BY DEF IInv, TypeOK
    <2>2. Backed(req[q], rows')
      BY <2>1, <1>1, <1>8, BackedKept
    <2> QED
      BY <2>2, <1>4
  <1> QED
    BY <1>6, <1>7, <1>9 DEF IInv

-----------------------------------------------------------------------------
\* What transition has read is true when it has read it.
LEMMA MoveBacked ==
    ASSUME IInv, NEW p \in Procs, NEW m, NEW s \in DOMAIN rows,
           NEW to \in SubmissionStatus, ReadForMove(p, m, s, to)
    PROVE  IInv'
  <1> DEFINE r == Moving(s, to, rows[s].submittedAt)
  <1>1. rows[s] \in Row /\ s \in 1 .. Len(rows)
    BY RowTyped DEF IInv
  <1>2. r \in Request(Len(rows))
    BY <1>1 DEF Moving, Request, Row
  <1>3. /\ to = "SUBMITTED" => rows[s].file # NoFile
        /\ to \in SubmissionTransitions[rows[s].status]
        /\ Start(p, r)
    BY DEF ReadForMove, IsLegal
  <1>4. to # "DRAFT" /\ (to # "SUBMITTED" => rows[s].status # "DRAFT")
    BY <1>1, <1>3 DEF SubmissionTransitions, Row, SubmissionStatus
  <1>5. to # "SUBMITTED" => rows[s].submittedAt # Never
    BY <1>4 DEF IInv, SubmittedHasFile
  <1>6. Backed(r, rows)
    BY <1>3, <1>4, <1>5 DEF Backed, Moving
  <1> QED
    BY <1>2, <1>3, <1>6, StartKeeps

\* confirmUpload takes any key, and reads the row as it is.
LEMMA ConfirmKeeps ==
    ASSUME IInv, NEW p \in Procs, NEW s \in DOMAIN rows, NEW m, NEW k \in Key,
           ReadForConfirm(p, m, s, k)
    PROVE  IInv'
  <1>1. Confirming(s, k) \in Request(Len(rows)) /\ Backed(Confirming(s, k), rows)
    BY RowTyped DEF IInv, Confirming, Request, Backed
  <1> QED
    BY <1>1, StartKeeps DEF ReadForConfirm

LEMMA BeginKeeps ==
    ASSUME IInv, NEW p \in Procs, Begin(p)
    PROVE  IInv'
  <1>1. /\ Len(rows) \in Nat
        /\ DOMAIN rows = 1 .. Len(rows)
    BY RowTyped DEF IInv
  <1>2. ASSUME NEW s \in DOMAIN rows, NEW m \in Students, AskUrl(p, m, s)
        PROVE  IInv'
    <2>1. Signing(s) \in Request(Len(rows)) /\ Backed(Signing(s), rows)
      BY <1>1 DEF Signing, Request, Backed
    <2> QED
      BY <1>2, <2>1, StartKeeps DEF AskUrl
  <1>3. ASSUME NEW u \in urls, NEW c \in Contents, AcceptPut(p, u, c)
        PROVE  IInv'
    <2>1. u.key \in Key
      BY DEF IInv, TypeOK, Url
    <2>2. Putting(u.key, c) \in Request(Len(rows)) /\ Backed(Putting(u.key, c), rows)
      BY <2>1 DEF Putting, Request, Backed
    <2> QED
      BY <1>3, <2>2, StartKeeps DEF AcceptPut
  <1>4. ASSUME NEW s \in DOMAIN rows, NEW m \in Students, NEW k \in Keys,
               ReadForConfirm(p, m, s, k)
        PROVE  IInv'
    <2>1. k \in Key
      BY ThesisSubmissionAssumption DEF Keys, Key
    <2> QED
      BY <1>4, <2>1, ConfirmKeeps
  <1>5. ASSUME MoveBegins(p) PROVE IInv'
    BY <1>5, MoveBacked DEF MoveBegins
  <1> QED
    BY <1>2, <1>3, <1>4, <1>5 DEF Begin

LEMMA ContinueKeeps ==
    ASSUME IInv, NEW p \in Procs, Continue(p) \/ Abort(p)
    PROVE  IInv'
  <1>0. /\ req[p] \in Request(Len(rows))
        /\ Len(rows) \in Nat
        /\ urls \in SUBSET Url /\ now \in Nat
        /\ DOMAIN objects \subseteq Key
        /\ \A k \in DOMAIN objects : objects[k] \in Contents
    BY RowTyped DEF IInv, TypeOK
  <1>1. CASE IssueUrl(p)
    <2>1. req[p].sub \in Nat
      BY <1>0, <1>1, RequestFields DEF IssueUrl
    <2>2. now + UrlLife \in Nat
      BY <1>0, ThesisSubmissionAssumption
    <2>3. [key |-> <<req[p].sub, now>>, exp |-> now + UrlLife] \in Url
      BY <1>0, <2>1, <2>2 DEF Url, Key
    <2>4. urls' \in SUBSET Url
      BY <1>0, <1>1, <2>3 DEF IssueUrl
    <2> QED
      BY <1>0, <1>1, <2>4, EndKeeps DEF IssueUrl
  <1>2. CASE StorePut(p)
    <2>1. req[p].key \in Key /\ req[p].content \in Contents
      BY <1>0, <1>2, RequestFields DEF StorePut
    <2>2. /\ DOMAIN objects' \subseteq Key
          /\ \A k \in DOMAIN objects' : objects'[k] \in Contents
      BY <1>0, <1>2, <2>1 DEF StorePut
    <2> QED
      BY <1>0, <1>2, <2>2, EndKeeps DEF StorePut
  <1>3. CASE AttachFile(p)
    BY <1>3, AttachFileKeeps
  <1>4. CASE WriteStatus(p)
    BY <1>4, WriteStatusKeeps
  <1>5. CASE Abort(p)
    BY <1>0, <1>5, EndKeeps DEF Abort
  <1> QED
    BY <1>1, <1>2, <1>3, <1>4, <1>5 DEF Continue

LEMMA TickKeeps == IInv /\ (Tick \/ UNCHANGED vars) => IInv'
  BY DEF IInv, TypeOK, SubmittedHasFile, Tick, vars

LEMMA InitInv == Init => IInv
  BY DEF Init, IInv, TypeOK, SubmittedHasFile, Backed, Request, Idle

-----------------------------------------------------------------------------
THEOREM Invariance == Spec => []IInv
  <1>1. IInv /\ [Next]_vars => IInv'
    <2> SUFFICES ASSUME IInv, [Next]_vars PROVE IInv'
      OBVIOUS
    <2>1. ASSUME NEW m \in Students, CreateDraft(m) PROVE IInv'
      BY <2>1, CreateDraftKeeps
    <2>2. ASSUME NEW p \in Procs, Begin(p) \/ Continue(p) \/ Abort(p) PROVE IInv'
      BY <2>2, BeginKeeps, ContinueKeeps
    <2>3. CASE Tick \/ UNCHANGED vars
      BY <2>3, TickKeeps
    <2> QED
      BY <2>1, <2>2, <2>3 DEF Next
  <1> QED
    BY InitInv, <1>1, PTL DEF Spec

\* The thesis service keeps every variable in its type.
THEOREM TypeCorrect == Spec => []TypeOK
  BY Invariance, PTL DEF IInv

\* However the requests of students and staff overlap, a submission that has left
\* DRAFT has a file and a time of submission.
THEOREM SubmittedHasFileHolds == Spec => []SubmittedHasFile
  BY Invariance, PTL DEF IInv

-----------------------------------------------------------------------------
\* The service when the requests about one submission take turns.

\* What request r has read of its submission is so in table t: no other request
\* works on it.
ReadOf(r, t) ==
    LET row == t[r.sub] IN
    /\ r.op \in {"sign", "confirm"} => row.status = "DRAFT"
    /\ r.op = "confirm" => r.file \in Keys
    /\ r.op = "move" => /\ r.to \in SubmissionTransitions[row.status]
                        /\ r.to = "SUBMITTED" => row.file # NoFile
                        /\ r.submittedAt = row.submittedAt

\* A URL is of a submission in table t, and lasts UrlLife at most from time n on
\* and from the submission of the thesis on.
Expires(u, t, n) ==
    /\ u.key[1] \in DOMAIN t
    /\ u.exp <= n + UrlLife
    /\ t[u.key[1]].status # "DRAFT" => u.exp <= t[u.key[1]].submittedAt + UrlLife

TurnsTaken ==
    /\ Serialised
    /\ \A p \in Procs : ReadOf(req[p], rows)
    /\ \A u \in urls : Expires(u, rows, now)
    /\ now <= MaxTime

SerialInv == IInv /\ TurnsTaken

\* A request that ends leaves the others to take their turns.
LEMMA EndSerialised ==
    ASSUME IInv, Serialised, NEW p \in Procs, Goto(p, Idle)
    PROVE  /\ Serialised'
           /\ req'[p] = Idle
           /\ \A q \in Procs : q # p => req'[q] = req[q]
  <1>1. req'[p] = Idle /\ Idle.op = "none"
    BY GotoFrame DEF IInv, Idle
  <1>2. \A q \in Procs : q # p => req'[q] = req[q]
    BY GotoFrame DEF IInv
  <1>3. ASSUME NEW q \in Procs, NEW r \in Procs, q # r,
               {req'[q].op, req'[r].op} \subseteq {"sign", "confirm", "move"}
        PROVE  req'[q].sub # req'[r].sub
    <2>1. q # p /\ r # p
      BY <1>1, <1>3
    <2> QED
      BY <1>2, <1>3, <2>1 DEF Serialised
  <1> QED
    BY <1>1, <1>2, <1>3 DEF Serialised

LEMMA IdleReads == \A t : ReadOf(Idle, t)
  BY DEF ReadOf, Idle

\* A request that begins has read the row as it is.
LEMMA StartTurn ==
    ASSUME IInv, TurnsTaken, NEW p \in Procs, NEW r, Start(p, r), ReadOf(r, rows),
           Serialised'
    PROVE  TurnsTaken'
  <1>1. req'[p] = r /\ \A q \in Procs : q # p => req'[q] = req[q]
    BY GotoFrame DEF IInv, Start
  <1>2. UNCHANGED <<rows, urls, now>>
    BY DEF Start
  <1>3. \A q \in Procs : ReadOf(req'[q], rows')
    BY <1>1, <1>2 DEF TurnsTaken
  <1> QED
    BY <1>2, <1>3 DEF TurnsTaken

LEMMA BeginTurn ==
    ASSUME IInv, TurnsTaken, NEW p \in Procs, Begin(p), Serialised'
    PROVE  TurnsTaken'
  <1>1. ASSUME NEW s \in DOMAIN rows, NEW m \in Students, AskUrl(p, m, s)
        PROVE  TurnsTaken'
    <2>1. ReadOf(Signing(s), rows)
      BY <1>1 DEF AskUrl, OwnDraft, ReadOf, Signing
    <2> QED
      BY <1>1, <2>1, StartTurn DEF AskUrl
  <1>2. ASSUME NEW u \in urls, NEW c \in Contents, AcceptPut(p, u, c)
        PROVE  TurnsTaken'
    <2>1. ReadOf(Putting(u.key, c), rows)
      BY DEF ReadOf, Putting
    <2> QED
      BY <1>2, <2>1, StartTurn DEF AcceptPut
  <1>3. ASSUME NEW s \in DOMAIN rows, NEW m \in Students, NEW k \in Keys,
               ReadForConfirm(p, m, s, k)
        PROVE  TurnsTaken'
    <2>1. ReadOf(Confirming(s, k), rows)
      BY <1>3 DEF ReadForConfirm, OwnDraft, ReadOf, Confirming
    <2> QED
      BY <1>3, <2>1, StartTurn DEF ReadForConfirm
  <1>4. ASSUME NEW s \in DOMAIN rows, NEW m, NEW to \in SubmissionStatus,
               ReadForMove(p, m, s, to)
        PROVE  TurnsTaken'
    <2>1. ReadOf(Moving(s, to, rows[s].submittedAt), rows)
      BY <1>4 DEF ReadForMove, IsLegal, ReadOf, Moving
    <2> QED
      BY <1>4, <2>1, StartTurn DEF ReadForMove
  <1> QED
    BY <1>1, <1>2, <1>3, <1>4 DEF Begin, MoveBegins

\* The row of a request that updates is the row of no other.
LEMMA UpdateTurn ==
    ASSUME IInv, TurnsTaken, NEW p \in Procs, req[p].op \in {"confirm", "move"},
           NEW row, Update(p, row),
           \A u \in urls : u.key[1] = req[p].sub /\ row.status # "DRAFT" =>
                               u.exp <= row.submittedAt + UrlLife
    PROVE  TurnsTaken'
  <1>1. /\ DOMAIN rows' = DOMAIN rows
        /\ req[p].sub \in DOMAIN rows => rows'[req[p].sub] = row
        /\ \A i \in DOMAIN rows : i # req[p].sub => rows'[i] = rows[i]
        /\ Goto(p, Idle)
        /\ UNCHANGED <<urls, now>>
    BY DEF Update
  <1>2. /\ Serialised'
        /\ req'[p] = Idle
        /\ \A q \in Procs : q # p => req'[q] = req[q]
    BY <1>1, EndSerialised DEF TurnsTaken
  <1>3. ASSUME NEW q \in Procs PROVE ReadOf(req'[q], rows')
    <2>1. CASE q = p
      BY <1>2, <2>1, IdleReads
    <2>2. CASE q # p /\ req[q].op \in {"sign", "confirm", "move"}
      <3>1. req[q].sub # req[p].sub
        BY <2>2 DEF TurnsTaken, Serialised
      <3>2. req[q].sub \in DOMAIN rows
        BY <2>2, RowTyped, RequestFields DEF IInv, TypeOK
      <3>3. rows'[req[q].sub] = rows[req[q].sub]
        BY <1>1, <3>1, <3>2
      <3>4. ReadOf(req[q], rows)
        BY DEF TurnsTaken
      <3>5. ReadOf(req[q], rows')
        BY <3>3, <3>4 DEF ReadOf
      <3> QED
        BY <1>2, <2>2, <3>5
    <2>3. CASE q # p /\ req[q].op \notin {"sign", "confirm", "move"}
      <3>1. ReadOf(req[q], rows')
        BY <2>3 DEF ReadOf
      <3> QED
        BY <1>2, <2>3, <3>1
    <2> QED
      BY <2>1, <2>2, <2>3
  <1>4. ASSUME NEW u \in urls PROVE Expires(u, rows', now)
    <2>1. Expires(u, rows, now)
      BY DEF TurnsTaken
    <2>2. CASE u.key[1] = req[p].sub
      BY <1>1, <2>1, <2>2 DEF Expires
    <2>3. CASE u.key[1] # req[p].sub
      BY <1>1, <2>1, <2>3 DEF Expires
    <2> QED
      BY <2>2, <2>3
  <1> QED
    BY <1>1, <1>2, <1>3, <1>4 DEF TurnsTaken

\* A file is attached to a draft: the row is the draft it was, with a file.
LEMMA AttachTurn ==
    ASSUME IInv, TurnsTaken, NEW p \in Procs, AttachFile(p)
    PROVE  /\ TurnsTaken'
           /\ \E s \in DOMAIN rows, k \in Keys, row \in Row :
                 /\ rows[s].status = "DRAFT"
                 /\ row.status = "DRAFT"
                 /\ row.file = k
                 /\ row.submittedAt = rows[s].submittedAt
                 /\ rows' = [rows EXCEPT ![s] = row]
  <1>1. req[p].op = "confirm"
    BY DEF AttachFile
  <1>2. PICK s \in DOMAIN rows : s = req[p].sub /\ rows[s] \in Row
    BY <1>1, RowTyped, RequestFields DEF IInv, TypeOK
  <1>3. PICK k \in Keys : k = req[p].file /\ rows[s].status = "DRAFT"
    BY <1>1, <1>2 DEF TurnsTaken, ReadOf
  <1>4. k \in Key
    BY ThesisSubmissionAssumption DEF Keys, Key
  <1>5. PICK row \in Row :
            /\ row = [rows[s] EXCEPT !.file = k, !.version = @ + 1]
            /\ row.file = k
            /\ row.status = rows[s].status
            /\ row.submittedAt = rows[s].submittedAt
    BY <1>2, <1>4, RowAttached
  <1>6. Update(p, row)
    BY <1>2, <1>3, <1>5 DEF AttachFile
  <1>7. TurnsTaken'
    BY <1>1, <1>3, <1>5, <1>6, UpdateTurn
  <1>8. rows' = [rows EXCEPT ![s] = row]
    BY <1>2, <1>6 DEF Update
  <1> QED
    BY <1>3, <1>5, <1>7, <1>8

\* A status is written: the row keeps its file, and its time of submission unless
\* it is submitted now.
LEMMA WriteTurn ==
    ASSUME IInv, TurnsTaken, NEW p \in Procs, WriteStatus(p)
    PROVE  /\ TurnsTaken'
           /\ \E s \in DOMAIN rows, row \in Row :
                 /\ row.status \in SubmissionTransitions[rows[s].status]
                 /\ row.file = rows[s].file
                 /\ IF row.status = "SUBMITTED"
                    THEN rows[s].file # NoFile /\ row.submittedAt = now
                    ELSE row.submittedAt = rows[s].submittedAt
                 /\ rows' = [rows EXCEPT ![s] = row]
  <1>1. req[p].op = "move"
    BY DEF WriteStatus
  <1>2. PICK s \in DOMAIN rows : s = req[p].sub /\ rows[s] \in Row
    BY <1>1, RowTyped, RequestFields DEF IInv, TypeOK
  <1>3. PICK to \in SubmissionStatus : to = req[p].to
    BY <1>1, RequestFields DEF IInv, TypeOK
  <1>4. /\ to \in SubmissionTransitions[rows[s].status]
        /\ to = "SUBMITTED" => rows[s].file # NoFile
        /\ req[p].submittedAt = rows[s].submittedAt
    BY <1>1, <1>2, <1>3 DEF TurnsTaken, ReadOf
  <1>5. now \in Nat
    BY DEF IInv, TypeOK
  <1>6. PICK at \in Nat \cup {Never} :
            at = IF to = "SUBMITTED" THEN now ELSE rows[s].submittedAt
    BY <1>2, <1>5 DEF Row
  <1>7. PICK row \in Row : /\ row = Moved(rows[s], to, at)
                           /\ row.file = rows[s].file
                           /\ row.status = to
                           /\ row.submittedAt = at
    BY <1>2, <1>3, RowMoved
  <1>8. Update(p, row)
    BY <1>2, <1>3, <1>4, <1>6, <1>7 DEF WriteStatus, Moved
  <1>9. to # "SUBMITTED" => rows[s].status # "DRAFT"
    BY <1>2, <1>4 DEF SubmissionTransitions
  <1>10. ASSUME NEW u \in urls, u.key[1] = s
         PROVE  u.exp <= row.submittedAt + UrlLife
    <2>1. Expires(u, rows, now)
      BY DEF TurnsTaken
    <2> QED
      BY <1>6, <1>7, <1>9, <1>10, <2>1 DEF Expires
  <1>11. TurnsTaken'
    BY <1>1, <1>2, <1>8, <1>10, UpdateTurn
  <1>12. rows' = [rows EXCEPT ![s] = row]
    BY <1>2, <1>8 DEF Update
  <1> QED
    BY <1>4, <1>6, <1>7, <1>11, <1>12

\* A draft, and no URL of it yet.
LEMMA DraftTurn ==
    ASSUME IInv, TurnsTaken, NEW m \in Students, CreateDraft(m)
    PROVE  TurnsTaken'
  <1>1. /\ Len(rows) \in Nat
        /\ DOMAIN rows = 1 .. Len(rows)
        /\ rows \in Seq(Row)
    BY RowTyped DEF IInv, TypeOK
  <1>2. /\ DOMAIN rows \subseteq DOMAIN rows'
        /\ \A i \in DOMAIN rows : rows'[i] = rows[i]
    BY <1>1 DEF CreateDraft
  <1>3. UNCHANGED <<urls, now, req>>
    BY DEF CreateDraft
  <1>4. Serialised'
    BY <1>3 DEF TurnsTaken, Serialised
  <1>5. ASSUME NEW q \in Procs PROVE ReadOf(req[q], rows')
    <2>1. ReadOf(req[q], rows)
      BY DEF TurnsTaken
    <2>2. req[q].op \in {"sign", "confirm", "move"} => req[q].sub \in DOMAIN rows
      BY <1>1, RequestFields DEF IInv, TypeOK
    <2> QED
      BY <1>2, <2>1, <2>2 DEF ReadOf
  <1>6. \A u \in urls : Expires(u, rows', now)
    BY <1>2 DEF TurnsTaken, Expires
  <1> QED
    BY <1>3, <1>4, <1>5, <1>6 DEF TurnsTaken

\* The other ways a request ends; a URL is signed for a draft.
LEMMA EndTurn ==
    ASSUME IInv, TurnsTaken, NEW p \in Procs, IssueUrl(p) \/ StorePut(p) \/ Abort(p)
    PROVE  TurnsTaken'
  <1>1. Goto(p, Idle) /\ UNCHANGED <<rows, now>>
    BY DEF IssueUrl, StorePut, Abort
  <1>2. /\ Serialised'
        /\ req'[p] = Idle
        /\ \A q \in Procs : q # p => req'[q] = req[q]
    BY <1>1, EndSerialised DEF TurnsTaken
  <1>3. \A q \in Procs : ReadOf(req'[q], rows)
    BY <1>2, IdleReads DEF TurnsTaken
  <1>4. ASSUME NEW u \in urls' PROVE Expires(u, rows, now)
    <2>1. CASE u \in urls
      BY <2>1 DEF TurnsTaken
    <2>2. CASE u \notin urls
      <3>1. /\ req[p].op = "sign"
            /\ u = [key |-> <<req[p].sub, now>>, exp |-> now + UrlLife]
        BY <2>2 DEF IssueUrl, StorePut, Abort
      <3>2. req[p].sub \in DOMAIN rows /\ rows[req[p].sub].status = "DRAFT"
        BY <3>1, RowTyped, RequestFields DEF IInv, TypeOK, TurnsTaken, ReadOf
      <3>3. now + UrlLife \in Int
        BY ThesisSubmissionAssumption DEF IInv, TypeOK
      <3> QED
        BY <3>1, <3>2, <3>3 DEF Expires
    <2> QED
      BY <2>1, <2>2
  <1> QED
    BY <1>1, <1>2, <1>3, <1>4 DEF TurnsTaken

LEMMA TickTurn ==
    ASSUME IInv, TurnsTaken, Tick
    PROVE  TurnsTaken'
  <1>1. now \in Nat /\ now' = now + 1 /\ now' <= MaxTime /\ UNCHANGED <<rows, urls, req>>
    BY ThesisSubmissionAssumption DEF Tick, IInv, TypeOK
  <1>2. Serialised'
    BY <1>1 DEF TurnsTaken, Serialised
  <1>3. ASSUME NEW u \in urls PROVE Expires(u, rows, now')
    <2>1. u.exp \in Nat /\ u.exp <= now + UrlLife
      BY DEF IInv, TypeOK, Url, TurnsTaken, Expires
    <2> QED
      BY <1>1, <2>1, ThesisSubmissionAssumption DEF TurnsTaken, Expires
  <1> QED
    BY <1>1, <1>2, <1>3 DEF TurnsTaken

LEMMA SerialStep == SerialInv /\ [SerialNext]_vars => SerialInv'
  <1> SUFFICES ASSUME IInv, TurnsTaken, [SerialNext]_vars PROVE IInv' /\ TurnsTaken'
    BY DEF SerialInv
  <1>1. ASSUME NEW m \in Students, CreateDraft(m) PROVE IInv' /\ TurnsTaken'
    BY <1>1, CreateDraftKeeps, DraftTurn
  <1>2. ASSUME NEW p \in Procs, Begin(p), Serialised' PROVE IInv' /\ TurnsTaken'
    BY <1>2, BeginKeeps, BeginTurn
  <1>3. ASSUME NEW p \in Procs, Continue(p) \/ Abort(p) PROVE IInv' /\ TurnsTaken'
    BY <1>3, ContinueKeeps, AttachTurn, WriteTurn, EndTurn DEF Continue
  <1>4. CASE Tick
    BY <1>4, TickKeeps, TickTurn
  <1>5. CASE UNCHANGED vars
    BY <1>5, TickKeeps DEF vars, TurnsTaken, Serialised
  <1> QED
    BY <1>1, <1>2, <1>3, <1>4, <1>5 DEF SerialNext

THEOREM SerialInvariance == SerialSpec => []SerialInv
  <1>1. Init => SerialInv
    BY InitInv, ThesisSubmissionAssumption
       DEF Init, SerialInv, TurnsTaken, Serialised, ReadOf, Idle
  <1> QED
    BY <1>1, SerialStep, PTL DEF SerialSpec

\* When the requests about one submission take turns, a PUT is accepted for a
\* thesis that is no longer a draft only within the life of a URL after its
\* submission.
THEOREM UploadWindowHolds == SerialSpec => UploadWindow
  <1>1. SerialInv =>
            \A p \in Procs, u \in urls, c \in Contents : AcceptPut(p, u, c) =>
                LET row == rows[u.key[1]] IN
                row.status # "DRAFT" => now <= row.submittedAt + UrlLife
    <2> SUFFICES ASSUME SerialInv, NEW p \in Procs, NEW u \in urls, NEW c \in Contents,
                        AcceptPut(p, u, c), rows[u.key[1]].status # "DRAFT"
                 PROVE  now <= rows[u.key[1]].submittedAt + UrlLife
      OBVIOUS
    <2>1. u.exp <= rows[u.key[1]].submittedAt + UrlLife /\ u.key[1] \in DOMAIN rows
      BY DEF SerialInv, TurnsTaken, Expires
    <2>2. rows[u.key[1]] \in Row /\ now \in Nat /\ u.exp \in Nat
      BY <2>1, RowTyped DEF SerialInv, IInv, TypeOK, Url
    <2>3. rows[u.key[1]].submittedAt \in Int
      BY <2>2 DEF Row, Never
    <2> QED
      BY <2>1, <2>2, <2>3, ThesisSubmissionAssumption DEF AcceptPut
  <1> QED
    BY <1>1, SerialInvariance, PTL DEF UploadWindow

-----------------------------------------------------------------------------
\* What ThesisReview sees of a row, and of all of them.
Seen(row) == [status      |-> row.status,
              file        |-> row.file,
              submittedAt |-> row.submittedAt]

Subs == [s \in DOMAIN rows |-> [status      |-> rows[s].status,
                                file        |-> rows[s].file,
                                submittedAt |-> rows[s].submittedAt]]

\* Subs is a function of the rows, before a step and after it.
SubsSeen == /\ Subs = [s \in DOMAIN Subs |-> Subs[s]]
            /\ DOMAIN Subs = DOMAIN rows
            /\ \A s \in DOMAIN rows : Subs[s] = Seen(rows[s])

LEMMA SubsIs == SubsSeen
  BY DEF SubsSeen, Subs, Seen

\* A row that is written is seen to be, and no other.
LEMMA SubsWritten ==
    ASSUME NEW s \in DOMAIN rows, NEW row, rows' = [rows EXCEPT ![s] = row]
    PROVE  Subs' = [Subs EXCEPT ![s] = Seen(row)]
  <1>1. /\ DOMAIN rows' = DOMAIN rows
        /\ rows'[s] = row
        /\ \A i \in DOMAIN rows : i # s => rows'[i] = rows[i]
    OBVIOUS
  <1>2. SubsSeen /\ SubsSeen'
    BY SubsIs, PTL
  <1>3. /\ DOMAIN Subs' = DOMAIN Subs
        /\ Subs' = [i \in DOMAIN Subs |-> Subs'[i]]
    BY <1>1, <1>2 DEF SubsSeen
  <1>4. \A i \in DOMAIN Subs : Subs'[i] = IF i = s THEN Seen(row) ELSE Subs[i]
    BY <1>1, <1>2 DEF SubsSeen
  <1>5. PICK F : F = Subs
    OBVIOUS
  <1>6. PICK G : G = Subs'
    OBVIOUS
  <1>7. F = [i \in DOMAIN F |-> F[i]] /\ G = [i \in DOMAIN F |-> G[i]]
    BY <1>2, <1>3, <1>5, <1>6 DEF SubsSeen
  <1>8. \A i \in DOMAIN F : G[i] = IF i = s THEN Seen(row) ELSE F[i]
    BY <1>4, <1>5, <1>6
  <1>9. G = [F EXCEPT ![s] = Seen(row)]
    BY <1>7, <1>8
  <1> QED
    BY <1>5, <1>6, <1>9

\* A function that adds one element to a sequence is that sequence, appended to.
LEMMA AppendIs ==
    ASSUME NEW S, NEW f \in Seq(S), NEW e, NEW g,
           g = [i \in 1 .. Len(f) + 1 |-> g[i]],
           g[Len(f) + 1] = e, \A i \in 1 .. Len(f) : g[i] = f[i]
    PROVE  g = Append(f, e)
  <1> DEFINE T == S \cup {e}
             a == Append(f, e)
  <1>1. f \in Seq(T) /\ e \in T
    OBVIOUS
  <1>2. a \in Seq(T) /\ Len(a) = Len(f) + 1
    BY <1>1
  <1>3. a[Len(f) + 1] = e /\ \A i \in 1 .. Len(f) : a[i] = f[i]
    BY <1>1
  <1> HIDE DEF a
  <1>4. a = [i \in 1 .. Len(f) + 1 |-> a[i]]
    BY <1>2
  <1>5. \A i \in 1 .. Len(f) + 1 : i = Len(f) + 1 \/ i \in 1 .. Len(f)
    BY <1>1
  <1>6. \A i \in 1 .. Len(f) + 1 : a[i] = g[i]
    BY <1>3, <1>5
  <1> QED
    BY <1>4, <1>6 DEF a

\* A draft is added below the submissions seen.
LEMMA DraftOpens ==
    ASSUME IInv, NEW m \in Students, CreateDraft(m)
    PROVE  Review!Open
  <1>1. /\ Len(rows) \in Nat
        /\ DOMAIN rows = 1 .. Len(rows)
        /\ rows \in Seq(Row)
    BY RowTyped DEF IInv, TypeOK
  <1>2. PICK row : row = [author |-> m, status |-> "DRAFT", file |-> NoFile,
                          submittedAt |-> Never, version |-> 0]
    OBVIOUS
  <1>3. /\ DOMAIN rows' = 1 .. Len(rows) + 1
        /\ rows'[Len(rows) + 1] = row
        /\ \A i \in DOMAIN rows : rows'[i] = rows[i]
    BY <1>1, <1>2 DEF CreateDraft
  <1>4. Seen(row) = [status |-> "DRAFT", file |-> NoFile, submittedAt |-> Never]
    BY <1>2 DEF Seen
  <1>5. SubsSeen /\ SubsSeen'
    BY SubsIs, PTL
  <1>6. PICK F : F = Subs
    OBVIOUS
  <1>7. PICK G : G = Subs'
    OBVIOUS
  <1>8. /\ F = [i \in 1 .. Len(rows) |-> F[i]]
        /\ G = [i \in 1 .. Len(rows) + 1 |-> G[i]]
        /\ G[Len(rows) + 1] = Seen(row)
        /\ \A i \in 1 .. Len(rows) : G[i] = F[i]
    BY <1>1, <1>3, <1>5, <1>6, <1>7 DEF SubsSeen
  <1>9. F \in Seq({F[i] : i \in 1 .. Len(rows)}) /\ Len(F) = Len(rows)
    BY <1>1, <1>8
  <1>10. G = Append(F, Seen(row))
    <2>1. G = [i \in 1 .. Len(F) + 1 |-> G[i]] /\ G[Len(F) + 1] = Seen(row)
      BY <1>8, <1>9
    <2>2. \A i \in 1 .. Len(F) : G[i] = F[i]
      BY <1>8, <1>9
    <2> QED
      BY <1>9, <2>1, <2>2, AppendIs
  <1> QED
    BY <1>4, <1>6, <1>7, <1>10 DEF Subs, Review!Open

\* A file is attached to the draft it was uploaded for.
LEMMA AttachIsAttach ==
    ASSUME NEW s \in DOMAIN rows, NEW k \in Keys, NEW row,
           rows[s].status = "DRAFT", row.status = "DRAFT", row.file = k,
           row.submittedAt = rows[s].submittedAt, rows' = [rows EXCEPT ![s] = row]
    PROVE  Review!Attach(s)
  <1>1. Subs[s] = Seen(rows[s]) /\ s \in DOMAIN Subs
    BY SubsIs DEF SubsSeen
  <1>2. [Subs[s] EXCEPT !.file = k] = Seen(row)
    BY <1>1 DEF Seen
  <1>3. Subs' = [Subs EXCEPT ![s].file = k]
    BY <1>1, <1>2, SubsWritten
  <1>4. Subs[s].status = "DRAFT"
    BY <1>1 DEF Seen
  <1> QED
    BY <1>3, <1>4 DEF Subs, Review!Attach

\* A draft that has a file is submitted now, or what was submitted is judged.
LEMMA WriteIsMove ==
    ASSUME NEW s \in DOMAIN rows, NEW row, rows[s] \in Row, now \in 0 .. MaxTime,
           row.status \in SubmissionTransitions[rows[s].status],
           row.file = rows[s].file,
           IF row.status = "SUBMITTED"
           THEN rows[s].file # NoFile /\ row.submittedAt = now
           ELSE row.submittedAt = rows[s].submittedAt,
           rows' = [rows EXCEPT ![s] = row]
    PROVE  Review!Submit(s) \/ Review!Judge(s)
  <1>1. Subs[s] = Seen(rows[s]) /\ s \in DOMAIN Subs
    BY SubsIs DEF SubsSeen
  <1>2. Subs' = [Subs EXCEPT ![s] = Seen(row)]
    BY SubsWritten
  <1>3. /\ Subs[s].status = rows[s].status
        /\ Subs[s].file = rows[s].file
    BY <1>1 DEF Seen
  <1>4. rows[s].status = "DRAFT" <=> row.status = "SUBMITTED"
    BY DEF SubmissionTransitions, Row, SubmissionStatus
  <1>5. CASE row.status = "SUBMITTED"
    <2>1. PICK mid : mid = [status |-> "SUBMITTED", file |-> rows[s].file,
                            submittedAt |-> rows[s].submittedAt]
      OBVIOUS
    <2>2. /\ mid = [Subs[s] EXCEPT !.status = "SUBMITTED"]
          /\ Seen(row) = [mid EXCEPT !.submittedAt = now]
      BY <1>1, <1>5, <2>1 DEF Seen
    <2>3. PICK F : F = Subs
      OBVIOUS
    <2>4. [F EXCEPT ![s].status = "SUBMITTED", ![s].submittedAt = now]
              = [F EXCEPT ![s] = Seen(row)]
      BY <1>1, <2>2, <2>3
    <2>5. Subs' = [Subs EXCEPT ![s].status = "SUBMITTED", ![s].submittedAt = now]
      BY <1>2, <2>3, <2>4
    <2>6. Subs[s].status = "DRAFT" /\ Subs[s].file # NoFile
      BY <1>3, <1>4, <1>5
    <2> QED
      BY <2>5, <2>6 DEF Subs, Review!Submit
  <1>6. CASE row.status # "SUBMITTED"
    <2>1. Seen(row) = [Seen(rows[s]) EXCEPT !.status = row.status]
      BY <1>6 DEF Seen
    <2>2. Subs' = [Subs EXCEPT ![s].status = row.status]
      BY <1>1, <1>2, <2>1
    <2>3. /\ Subs[s].status # "DRAFT"
          /\ row.status \in SubmissionTransitions[Subs[s].status]
      BY <1>3, <1>4, <1>6
    <2>4. row.status \in Review!SubmissionTransitions[Subs[s].status]
      BY <2>3 DEF SubmissionTransitions, Review!SubmissionTransitions
    <2> QED
      BY <2>2, <2>3, <2>4 DEF Subs, Review!Judge
  <1> QED
    BY <1>5, <1>6

\* Every step of the service is one of the review, or none.
LEMMA ReviewStep == SerialInv /\ [SerialNext]_vars => [Review!Next]_Subs
  <1> SUFFICES ASSUME IInv, TurnsTaken, [SerialNext]_vars PROVE [Review!Next]_Subs
    BY DEF SerialInv
  <1>0. DOMAIN Subs = DOMAIN rows
    BY SubsIs DEF SubsSeen
  <1>1. rows' = rows => Subs' = Subs
    BY DEF Subs
  <1>2. ASSUME NEW s \in DOMAIN rows, Review!Attach(s) \/ Review!Submit(s) \/ Review!Judge(s)
        PROVE  Review!Next
    BY <1>0, <1>2 DEF Subs, Review!Next
  <1>3. ASSUME NEW m \in Students, CreateDraft(m) PROVE Review!Next
    BY <1>3, DraftOpens DEF Review!Next
  <1>4. ASSUME NEW p \in Procs, AttachFile(p) PROVE Review!Next
    BY <1>2, <1>4, AttachTurn, AttachIsAttach
  <1>5. ASSUME NEW p \in Procs, WriteStatus(p) PROVE Review!Next
    <2>1. now \in 0 .. MaxTime
      BY ThesisSubmissionAssumption DEF IInv, TypeOK, TurnsTaken
    <2>2. \A s \in DOMAIN rows : rows[s] \in Row
      BY RowTyped DEF IInv
    <2> QED
      BY <1>2, <1>5, <2>1, <2>2, WriteTurn, WriteIsMove
  <1>6. ASSUME NEW p \in Procs, Begin(p) PROVE rows' = rows
    BY <1>6 DEF Begin, MoveBegins, AskUrl, AcceptPut, ReadForConfirm, ReadForMove, Start
  <1>7. ASSUME NEW p \in Procs, IssueUrl(p) \/ StorePut(p) \/ Abort(p) PROVE rows' = rows
    BY <1>7 DEF IssueUrl, StorePut, Abort
  <1>8. Tick \/ UNCHANGED vars => rows' = rows
    BY DEF Tick, vars
  <1> QED
    BY <1>1, <1>3, <1>4, <1>5, <1>6, <1>7, <1>8 DEF SerialNext, Continue

\* When the requests about one submission take turns, the service does what
\* ThesisReview promises: what is judged is the file that was submitted, at the
\* time it was submitted, along SUBMISSION_TRANSITIONS.
THEOREM ImplementsReviewHolds == SerialSpec => ImplementsReview
  <1>1. Init => Subs = << >>
    BY DEF Init, Subs
  <1>2. Init /\ []SerialInv /\ [][SerialNext]_vars => Subs = << >> /\ [][Review!Next]_Subs
    BY <1>1, ReviewStep, PTL
  <1>3. Subs = << >> /\ [][Review!Next]_Subs => ImplementsReview
    BY DEF ImplementsReview, Subs, Review!Spec
  <1> QED
    BY <1>2, <1>3, SerialInvariance, PTL DEF SerialSpec
=============================================================================
