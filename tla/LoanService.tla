------------------------------ MODULE LoanService ------------------------------
(***************************************************************************)
(* The concurrency-critical paths of the physical-book lifecycle:          *)
(* borrowCopy, returnLoan, renewLoan and markOverdueLoans of               *)
(* loan/service/loan.service.ts, run by any number of requests at once     *)
(* against one PostgreSQL database at READ COMMITTED.                      *)
(*                                                                         *)
(* An action is one SQL statement, or a run of statements of one           *)
(* transaction that no other request can tell from a single one.  What a   *)
(* transaction writes is visible to others when it commits, so the writes  *)
(* of a transaction are the action that commits it; the row locks it takes *)
(* before are state of their own.                                          *)
(***************************************************************************)
EXTENDS Integers, Sequences, FiniteSets, StateTransitions

CONSTANTS
    Procs,         \* requests the server runs at the same time
    Nobody,        \* the holder of a free row lock
    Books,         \* books, the resources that have copies
    Copies,        \* copies, named by their primary key
    BookOf,        \* BookOf[c]: the book c is a copy of
    Members,       \* members who borrow
    Waiters,       \* members who may place holds
    LoanDuration,  \* LoanDuration[m], MaxRenewals[m]: the loan policy of
    MaxRenewals,   \*   member m's type, a loan's length in clock ticks
    AskedDurations, \* loan lengths a client may ask for instead of the policy's
    MaxTime,       \* bound: the clock stops here
    MaxRequests    \* bound: how many requests are ever made

ASSUME LoanServiceAssumption ==
    /\ Nobody \notin Procs
    /\ Copies \subseteq Nat
    /\ BookOf \in [Copies -> Books]
    /\ Waiters \subseteq Members
    /\ LoanDuration \in [Members -> Nat]
    /\ MaxRenewals \in [Members -> Nat]
    /\ AskedDurations \subseteq Nat
    /\ MaxTime \in Nat
    /\ MaxRequests \in Nat

\* Every policy lends for some time: the rows of loan_policy are those of the
\* seed migration, and no code writes others.
ASSUME LoanPolicyAssumption == \A m \in Members : LoanDuration[m] > 0

VARIABLES
    copies,        \* resource_copy: status and version of each copy, committed
    loans,         \* loan: the committed rows, in the order they were committed
    lockedBy,      \* lockedBy[c]: the transaction holding the row lock of c
    holds,         \* <<b, m>>: m has a QUEUED or READY_FOR_PICKUP hold on b
    now,           \* the wall clock
    events,        \* the LOAN_OVERDUE events emitted, in order
    req,           \* req[p]: what request p is doing and what it has read
    requests       \* how many requests were made

vars == <<copies, loans, lockedBy, holds, now, events, req, requests>>

-----------------------------------------------------------------------------
\* Rows and requests.

CopyStatus == {"AVAILABLE", "ON_LOAN", "RESERVED", "LOST"}
CopyRow == [status : CopyStatus, version : Nat]
LoanRow == [copy : Copies, member : Members, status : LoanStatus,
            renewalCount : Nat, dueAt : Nat, returned : BOOLEAN]

Idle == [op |-> "none"]
Borrowing(at, m, due, cs) ==
    [op |-> "borrow", at |-> at, member |-> m, dueAt |-> due, candidates |-> cs]
Returning(at, l, v) == [op |-> "return", at |-> at, loan |-> l, version |-> v]
Renewing(at, l, due) == [op |-> "renew", at |-> at, loan |-> l, dueAt |-> due]
Sweeping(es) == [op |-> "sweep", at |-> "mark", batch |-> es]

\* The events and the requests there may be while there are n loans.
OverdueEvent(n) == [loan : 1 .. n, dueAt : Nat]
BorrowRequest == [op : {"borrow"}, at : {"lock", "commit"}, member : Members,
                  dueAt : Nat, candidates : SUBSET Copies]
ReturnRequest(n) == [op : {"return"}, at : {"readCopy", "update", "commit"},
                     loan : 1 .. n, version : Nat]
RenewRequest(n) == [op : {"renew"}, at : {"checkHold", "write"},
                    loan : 1 .. n, dueAt : Nat]
SweepRequest(n) == [op : {"sweep"}, at : {"mark"}, batch : SUBSET OverdueEvent(n)]
Request(n) == {Idle} \cup BorrowRequest \cup ReturnRequest(n)
                     \cup RenewRequest(n) \cup SweepRequest(n)

At(p, op, at) == req[p].op = op /\ req[p].at = at

\* A loan the library still counts as out.
Open(l) == loans[l].status \in {"ACTIVE", "OVERDUE"}

\* The copy request p, which is returning a loan, is about.
CopyReturned(p) == loans[req[p].loan].copy

\* Mutant: no ORDER BY "id", the scan may take the rows in any order.
CandidateInAnyOrder(p, c) == c \in req[p].candidates

\* The lowest copy that borrow request p has not yet looked at: the row that
\* ORDER BY "id" ... FOR UPDATE locks next, or has locked and found AVAILABLE.
Candidate(p, c) ==
    /\ c \in req[p].candidates
    /\ \A d \in req[p].candidates : c <= d

\* Mutant: the transaction is left open, its locks with it.
LocksKept(p) == lockedBy

\* The row locks once request p has ended.
Locks(p) == [c \in Copies |-> IF lockedBy[c] = p THEN Nobody ELSE lockedBy[c]]

Goto(p, r) == req' = [req EXCEPT ![p] = r]

\* The end of a request, committed or rolled back: its row locks are freed.
Finish(p) == Goto(p, Idle) /\ lockedBy' = Locks(p)

\* The four ways of a step that writes no row: a request begins, having read
\* what r says; it reads on; it locks the row of copy c, once it is free; it is
\* rolled back.
Start(p, r) ==
    /\ req[p] = Idle
    /\ requests < MaxRequests
    /\ requests' = requests + 1
    /\ Goto(p, r)
    /\ UNCHANGED <<copies, loans, lockedBy, holds, now, events>>

ReadOn(p, r) ==
    /\ Goto(p, r)
    /\ UNCHANGED <<copies, loans, lockedBy, holds, now, events, requests>>

LockRow(p, c, r) ==
    /\ lockedBy[c] = Nobody
    /\ lockedBy' = [lockedBy EXCEPT ![c] = p]
    /\ Goto(p, r)
    /\ UNCHANGED <<copies, loans, holds, now, events, requests>>

RollBack(p) == Finish(p) /\ UNCHANGED <<copies, loans, holds, now, events, requests>>

-----------------------------------------------------------------------------
Init ==
    /\ copies = [c \in Copies |-> [status |-> "AVAILABLE", version |-> 0]]
    /\ loans = << >>
    /\ lockedBy = [c \in Copies |-> Nobody]
    /\ holds = {}
    /\ now = 0
    /\ events = << >>
    /\ req = [p \in Procs |-> Idle]
    /\ requests = 0

-----------------------------------------------------------------------------
(***************************************************************************)
(* borrowCopy.  SELECT ... WHERE status = 'AVAILABLE' ORDER BY id LIMIT 1  *)
(* FOR UPDATE takes its snapshot when it starts, then locks the candidates *)
(* of the snapshot in ascending order, waiting for a row that another      *)
(* transaction has locked.  A row that is no longer AVAILABLE once locked  *)
(* is passed over, its lock kept; the first one that is ends the scan.     *)
(* The due date is the controller's, fixed before the transaction begins.  *)
(***************************************************************************)
BorrowSelect(p, b, m, duration) ==
    Start(p, Borrowing("lock", m, now + duration,
                       {c \in Copies : /\ BookOf[c] = b
                                       /\ copies[c].status = "AVAILABLE"}))

\* The copy has been chosen, or passed over.
Chosen(p) == Borrowing("commit", req[p].member, req[p].dueAt, req[p].candidates)
PassedOver(p, c) ==
    Borrowing("lock", req[p].member, req[p].dueAt, req[p].candidates \ {c})

\* Mutant: the SELECT without FOR UPDATE.
BorrowWithoutLock(p, c) ==
    /\ At(p, "borrow", "lock")
    /\ Candidate(p, c)
    /\ copies[c].status = "AVAILABLE"
    /\ ReadOn(p, Chosen(p))

\* Mutant: the status is not looked at again once the row is locked.
BorrowLockUnchecked(p, c) ==
    /\ At(p, "borrow", "lock")
    /\ Candidate(p, c)
    /\ LockRow(p, c, Chosen(p))

BorrowLock(p, c) ==
    /\ At(p, "borrow", "lock")
    /\ Candidate(p, c)
    /\ copies[c].status = "AVAILABLE"
    /\ LockRow(p, c, Chosen(p))

BorrowPassOver(p, c) ==
    /\ At(p, "borrow", "lock")
    /\ Candidate(p, c)
    /\ copies[c].status # "AVAILABLE"
    /\ LockRow(p, c, PassedOver(p, c))

\* NoAvailableCopyException.
BorrowRefused(p) ==
    /\ At(p, "borrow", "lock")
    /\ req[p].candidates = {}
    /\ RollBack(p)

\* Mutant: the loan is given the status of its copy.
NewLoanOnLoan(c, m, due) ==
    [copy |-> c, member |-> m, status |-> "ON_LOAN",
     renewalCount |-> 0, dueAt |-> due, returned |-> FALSE]

NewLoan(c, m, due) ==
    [copy |-> c, member |-> m, status |-> "ACTIVE",
     renewalCount |-> 0, dueAt |-> due, returned |-> FALSE]

\* The loan row after a return, a renewal and the overdue sweep.
Returned(row) == [row EXCEPT !.status = "RETURNED", !.returned = TRUE]
Renewed(row, due) ==
    [row EXCEPT !.renewalCount = @ + 1, !.dueAt = due, !.status = "ACTIVE"]
Overdue(row) == [row EXCEPT !.status = "OVERDUE"]

\* UPDATE resource_copy, INSERT INTO loan, COMMIT.
BorrowCommit(p, c) ==
    /\ At(p, "borrow", "commit")
    /\ Candidate(p, c)
    /\ copies' = [copies EXCEPT ![c] = [status |-> "ON_LOAN", version |-> @.version + 1]]
    /\ loans' = Append(loans, NewLoan(c, req[p].member, req[p].dueAt))
    /\ Finish(p)
    /\ UNCHANGED <<holds, now, events, requests>>

-----------------------------------------------------------------------------
(***************************************************************************)
(* returnLoan.  The loan row and the copy row are read by two statements,  *)
(* each with a snapshot of its own; the update of the copy names the       *)
(* version read.                                                           *)
(***************************************************************************)
\* Mutant: without assertLegal.
ReturnAnyLoan(p, l) == Start(p, Returning("readCopy", l, 0))

ReturnReadLoan(p, l) ==
    /\ IsLegal(LoanTransitions, loans[l].status, "RETURNED")
    /\ Start(p, Returning("readCopy", l, 0))

ReturnReadCopy(p) ==
    /\ At(p, "return", "readCopy")
    /\ ReadOn(p, Returning("update", req[p].loan, copies[CopyReturned(p)].version))

\* Mutant: the update names the copy and not its version.
ReturnUpdateAnyVersion(p) ==
    /\ At(p, "return", "update")
    /\ LockRow(p, CopyReturned(p), Returning("commit", req[p].loan, req[p].version))

\* The update waits for the row lock and then finds the version it read.
ReturnUpdateCopy(p) ==
    /\ At(p, "return", "update")
    /\ copies[CopyReturned(p)].version = req[p].version
    /\ LockRow(p, CopyReturned(p), Returning("commit", req[p].loan, req[p].version))

\* ConcurrentModificationException: no row with that version.
ReturnConflict(p) ==
    /\ At(p, "return", "update")
    /\ copies[CopyReturned(p)].version # req[p].version
    /\ RollBack(p)

\* Mutant: the loan is closed and its copy is not put back.
ReturnLoanOnly(p) ==
    LET l == req[p].loan IN
    /\ At(p, "return", "commit")
    /\ loans' = [loans EXCEPT ![l] = Returned(@)]
    /\ Finish(p)
    /\ UNCHANGED <<copies, holds, now, events, requests>>

\* UPDATE loan, whatever its status is by now; COMMIT.
ReturnCommit(p) ==
    LET l == req[p].loan IN
    /\ At(p, "return", "commit")
    /\ copies' = [copies EXCEPT ![loans[l].copy] =
                      [status |-> "AVAILABLE", version |-> @.version + 1]]
    /\ loans' = [loans EXCEPT ![l] = Returned(@)]
    /\ Finish(p)
    /\ UNCHANGED <<holds, now, events, requests>>

-----------------------------------------------------------------------------
(***************************************************************************)
(* renewLoan: no transaction, three statements of their own.               *)
(***************************************************************************)
StartRenewal(p, l) ==
    Start(p, Renewing("checkHold", l, loans[l].dueAt + LoanDuration[loans[l].member]))

\* Mutant: the cap compared with > where the code has >=.
RenewOnceTooOften(p, l) ==
    /\ Open(l)
    /\ loans[l].renewalCount <= MaxRenewals[loans[l].member]
    /\ StartRenewal(p, l)

\* Mutant: any loan may be renewed.
RenewAnyStatus(p, l) ==
    /\ loans[l].renewalCount < MaxRenewals[loans[l].member]
    /\ StartRenewal(p, l)

RenewRead(p, l) ==
    /\ Open(l)
    /\ loans[l].renewalCount < MaxRenewals[loans[l].member]
    /\ StartRenewal(p, l)

\* Another member has an active hold on the book of loan l.
HeldByAnother(l) ==
    \E m \in Members \ {loans[l].member} : <<BookOf[loans[l].copy], m>> \in holds

RenewCheckHold(p) ==
    /\ At(p, "renew", "checkHold")
    /\ ~HeldByAnother(req[p].loan)
    /\ ReadOn(p, Renewing("write", req[p].loan, req[p].dueAt))

RenewBlocked(p) ==
    /\ At(p, "renew", "checkHold")
    /\ HeldByAnother(req[p].loan)
    /\ RollBack(p)

\* Mutant: an overdue loan stays OVERDUE when it is renewed.
RenewKeepsStatus(p) ==
    /\ At(p, "renew", "write")
    /\ loans' = [loans EXCEPT ![req[p].loan] =
                     [Renewed(@, req[p].dueAt) EXCEPT !.status = loans[req[p].loan].status]]
    /\ Finish(p)
    /\ UNCHANGED <<copies, holds, now, events, requests>>

\* The count is incremented by the database, the due date and the status
\* come from the request.
RenewWrite(p) ==
    /\ At(p, "renew", "write")
    /\ loans' = [loans EXCEPT ![req[p].loan] = Renewed(@, req[p].dueAt)]
    /\ Finish(p)
    /\ UNCHANGED <<copies, holds, now, events, requests>>

-----------------------------------------------------------------------------
(***************************************************************************)
(* markOverdueLoans: one read, then one write per row of the result, in    *)
(* the order the database returned them.  assertLegal looks at the status  *)
(* that was read, which the read's filter makes ACTIVE.                    *)
(***************************************************************************)
\* Mutant: loans already marked are found again.
LateAgain(l) ==
    /\ loans[l].status \in {"ACTIVE", "OVERDUE"}
    /\ loans[l].dueAt < now
    /\ ~loans[l].returned

Late(l) ==
    /\ loans[l].status = "ACTIVE"
    /\ loans[l].dueAt < now
    /\ ~loans[l].returned

SweepRead(p) ==
    LET late == {l \in DOMAIN loans : Late(l)} IN
    /\ late # {}
    /\ Start(p, Sweeping({[loan |-> l, dueAt |-> loans[l].dueAt] : l \in late}))

MarkOverdue(p, e) ==
    /\ At(p, "sweep", "mark")
    /\ e \in req[p].batch
    /\ IsLegal(LoanTransitions, "ACTIVE", "OVERDUE")
    /\ loans' = [loans EXCEPT ![e.loan] = Overdue(@)]
    /\ UNCHANGED <<copies, lockedBy, holds, now, requests>>

SweepMark(p, e) ==
    LET rest == req[p].batch \ {e} IN
    /\ MarkOverdue(p, e)
    /\ events' = Append(events, e)
    /\ Goto(p, IF rest = {} THEN Idle ELSE Sweeping(rest))

\* The server stops after the update and before the event.
SweepDies(p, e) ==
    /\ MarkOverdue(p, e)
    /\ Goto(p, Idle)
    /\ UNCHANGED events

-----------------------------------------------------------------------------
\* A transaction that times out, a statement that fails or a server that
\* stops: what was not committed is gone and the row locks are freed.
Abort(p) == req[p] # Idle /\ RollBack(p)

\* The reservation queue and the clock, which the requests only read.
PlaceHold(b, m) ==
    /\ <<b, m>> \notin holds
    /\ holds' = holds \cup {<<b, m>>}
    /\ UNCHANGED <<copies, loans, lockedBy, now, events, req, requests>>

DropHold(b, m) ==
    /\ <<b, m>> \in holds
    /\ holds' = holds \ {<<b, m>>}
    /\ UNCHANGED <<copies, loans, lockedBy, now, events, req, requests>>

Tick ==
    /\ now < MaxTime
    /\ now' = now + 1
    /\ UNCHANGED <<copies, loans, lockedBy, holds, events, req, requests>>

-----------------------------------------------------------------------------
Begin(p) ==
    \/ \E b \in Books, m \in Members :
          \E duration \in {LoanDuration[m]} \cup AskedDurations :
              BorrowSelect(p, b, m, duration)
    \/ \E l \in DOMAIN loans : ReturnReadLoan(p, l)
    \/ \E l \in DOMAIN loans : RenewRead(p, l)
    \/ SweepRead(p)

Continue(p) ==
    \/ \E c \in Copies : BorrowLock(p, c)
    \/ \E c \in Copies : BorrowPassOver(p, c)
    \/ BorrowRefused(p)
    \/ \E c \in Copies : BorrowCommit(p, c)
    \/ ReturnReadCopy(p)
    \/ ReturnUpdateCopy(p)
    \/ ReturnConflict(p)
    \/ ReturnCommit(p)
    \/ RenewCheckHold(p)
    \/ RenewBlocked(p)
    \/ RenewWrite(p)
    \/ req[p].op = "sweep" /\ \E e \in req[p].batch : SweepMark(p, e)

Fail(p) ==
    \/ Abort(p)
    \/ req[p].op = "sweep" /\ \E e \in req[p].batch : SweepDies(p, e)

Environment ==
    \/ \E b \in Books, m \in Waiters : PlaceHold(b, m)
    \/ \E b \in Books, m \in Waiters : DropHold(b, m)
    \/ Tick

Next ==
    \/ \E p \in Procs : Begin(p) \/ Continue(p) \/ Fail(p)
    \/ Environment

Spec == Init /\ [][Next]_vars

\* A request that has begun goes on: the event loop serves every pending
\* database answer.  Nobody owes the library a new request, and none is owed
\* a failure.
Fairness == \A p \in Procs : WF_vars(Continue(p))

FairSpec == Spec /\ Fairness

-----------------------------------------------------------------------------
(***************************************************************************)
(* The same service when no two requests work on one loan at a time, the   *)
(* overdue sweep included.  Nothing in the code imposes it; it separates   *)
(* what the locks alone give from what they leave to the callers.          *)
(***************************************************************************)
Claims(p) ==
    CASE req[p].op \in {"return", "renew"} -> {req[p].loan}
      [] req[p].op = "sweep"               -> {e.loan : e \in req[p].batch}
      [] OTHER                             -> {}

Serialised == \A p, q \in Procs : p # q => Claims(p) \cap Claims(q) = {}

\* Only a request that begins claims a loan; the later steps give claims up.
SerialNext ==
    \/ \E p \in Procs : (Begin(p) /\ Serialised') \/ Continue(p) \/ Fail(p)
    \/ Environment

SerialSpec == Init /\ [][SerialNext]_vars

-----------------------------------------------------------------------------
\* Properties.  Those of the first group hold of Spec, whatever overlaps.

\* Every variable has its type; a request names loans that exist.
TypeOK ==
    /\ copies \in [Copies -> CopyRow]
    /\ loans \in Seq(LoanRow)
    /\ lockedBy \in [Copies -> Procs \cup {Nobody}]
    /\ holds \subseteq Books \X Waiters
    /\ now \in Nat
    /\ events \in Seq(OverdueEvent(Len(loans)))
    /\ req \in [Procs -> Request(Len(loans))]
    /\ requests \in Nat

\* Loan l is the last one made of its copy.
Newest(l) == \A k \in DOMAIN loans : k > l => loans[k].copy # loans[l].copy

\* Whoever is about to commit a borrow holds the row lock of the copy it
\* chose, and that copy is still AVAILABLE: the lock of borrowCopy's SELECT
\* does what its version column is not used for.
BorrowerHoldsCopy ==
    \A p \in Procs : At(p, "borrow", "commit") =>
        \E c \in Copies : /\ Candidate(p, c)
                          /\ lockedBy[c] = p
                          /\ copies[c].status = "AVAILABLE"

\* Two borrowers never get the same copy: a loan is only ever made of a copy
\* that was AVAILABLE, which the same step puts ON_LOAN.
LentFromShelf ==
    [][Len(loans') > Len(loans) =>
          LET c == loans'[Len(loans')].copy IN
          /\ copies[c].status = "AVAILABLE"
          /\ copies'[c].status = "ON_LOAN"]_vars

\* A copy that is ON_LOAN is out on its newest loan, which is open and was
\* never given back: no overlap of borrows, returns, renewals and sweeps
\* strands a copy.
OnLoanBacked ==
    \A c \in Copies : copies[c].status = "ON_LOAN" =>
        \E l \in DOMAIN loans :
            loans[l].copy = c /\ Newest(l) /\ Open(l) /\ ~loans[l].returned

\* A return that commits found the copy as it read it: nobody wrote the copy
\* between returnLoan's read of the version and its commit.
ReturnOnReadVersion ==
    [][\A p \in Procs : ReturnCommit(p) =>
          copies[CopyReturned(p)].version = req[p].version]_vars

\* p waits for the row lock of c.
Awaits(p, c) ==
    \/ At(p, "borrow", "lock") /\ Candidate(p, c)
    \/ /\ At(p, "return", "update")
       /\ c = CopyReturned(p)
       /\ copies[c].version = req[p].version

WaitsFor(p, q) == \E c \in Copies : Awaits(p, c) /\ lockedBy[c] = q

\* No deadlock between transactions: in every set of requests one waits for
\* none of the others.  A scan that passed over a row still holds its lock,
\* so this rests on ORDER BY "id".
NoWaitCycle ==
    \A S \in (SUBSET Procs) \ {{}} : \E p \in S : \A q \in S : ~WaitsFor(p, q)

\* Every request that begins ends, waiting for locks included.
RequestsFinish == \A p \in Procs : req[p] # Idle ~> req[p] = Idle

-----------------------------------------------------------------------------
\* The second group holds of SerialSpec only.

\* A member's renewals stay within the policy of the member's type.
RenewalCap ==
    \A l \in DOMAIN loans : loans[l].renewalCount <= MaxRenewals[loans[l].member]

\* A loan marked OVERDUE is past its due date.
OverdueIsLate ==
    \A l \in DOMAIN loans : loans[l].status = "OVERDUE" => loans[l].dueAt < now

\* A member is told at most once that a loan passed a given due date.
EachNoticeOnce ==
    \A i, j \in DOMAIN events : i # j => events[i] # events[j]

\* Every change of a loan's status is one LOAN_TRANSITIONS has, or the
\* renewal of an overdue loan, which renewLoan allows and the table does not.
LoanMovesLegal ==
    [][\A l \in DOMAIN loans : loans'[l].status # loans[l].status =>
          \/ IsLegal(LoanTransitions, loans[l].status, loans'[l].status)
          \/ loans[l].status = "OVERDUE" /\ loans'[l].status = "ACTIVE"]_vars

\* The abstract desk: a copy is out on its newest loan while it is ON_LOAN.
OutOn == [c \in Copies |->
            IF copies[c].status = "ON_LOAN"
            THEN CHOOSE l \in DOMAIN loans : loans[l].copy = c /\ Newest(l)
            ELSE 0]
Closed == {l \in DOMAIN loans : loans[l].status = "RETURNED"}

Desk == INSTANCE LendingDesk WITH outOn <- OutOn, lent <- Len(loans), closed <- Closed

\* The service lends and takes back copies as LendingDesk says.
ImplementsDesk == Desk!DeskSpec

-----------------------------------------------------------------------------
\* What the repository says and Spec does not do.

\* loan-concurrency.integration-spec.ts:79 "two simultaneous returns of the
\* same loan: exactly one succeeds": no return commits on a returned loan.
SingleReturn ==
    [][\A p \in Procs : ReturnCommit(p) =>
          loans[req[p].loan].status # "RETURNED"]_vars
=============================================================================
