-------------------------- MODULE LoanService_proofs --------------------------
(***************************************************************************)
(* Theorems about LoanService, for any number of requests, copies, books,  *)
(* members and any loan policy.                                            *)
(***************************************************************************)
EXTENDS LoanService, FiniteSetTheorems, WellFoundedInduction, TLAPS

\* A return about to commit holds the row lock of its copy, whose version is
\* still the one it read.
ReturnerHoldsCopy ==
    \A p \in Procs : At(p, "return", "commit") =>
        /\ lockedBy[CopyReturned(p)] = p
        /\ copies[CopyReturned(p)].version = req[p].version

\* The inductive invariant.
IInv == /\ TypeOK
        /\ BorrowerHoldsCopy
        /\ ReturnerHoldsCopy
        /\ OnLoanBacked

-----------------------------------------------------------------------------
\* What a well-typed request record gives: which kind it is and its fields.
LEMMA RequestFields ==
    ASSUME NEW n \in Nat, NEW q \in Request(n)
    PROVE  /\ q.op \in {"none", "borrow", "return", "renew", "sweep"}
           /\ q.op = "none" => q = Idle
           /\ q.op = "borrow" =>
                /\ q.at \in {"lock", "commit"}
                /\ q.member \in Members
                /\ q.dueAt \in Nat
                /\ q.candidates \subseteq Copies
           /\ q.op = "return" =>
                /\ q.at \in {"readCopy", "update", "commit"}
                /\ q.loan \in 1 .. n
                /\ q.version \in Nat
           /\ q.op = "renew" =>
                /\ q.at \in {"checkHold", "write"}
                /\ q.loan \in 1 .. n
                /\ q.dueAt \in Nat
           /\ q.op = "sweep" =>
                /\ q.at = "mark"
                /\ q.batch \subseteq OverdueEvent(n)
  <1>1. q = Idle \/ q \in BorrowRequest \/ q \in ReturnRequest(n)
          \/ q \in RenewRequest(n) \/ q \in SweepRequest(n)
    BY DEF Request
  <1>2. CASE q = Idle
    BY <1>2 DEF Idle
  <1>3. CASE q \in BorrowRequest
    BY <1>3 DEF BorrowRequest
  <1>4. CASE q \in ReturnRequest(n)
    BY <1>4 DEF ReturnRequest
  <1>5. CASE q \in RenewRequest(n)
    BY <1>5 DEF RenewRequest
  <1>6. CASE q \in SweepRequest(n)
    BY <1>6 DEF SweepRequest
  <1> QED
    BY <1>1, <1>2, <1>3, <1>4, <1>5, <1>6

\* The requests of the operations are requests.
LEMMA RequestTypes ==
    ASSUME NEW n \in Nat
    PROVE  /\ Idle \in Request(n) /\ Idle.op = "none"
           /\ \A at \in {"lock", "commit"}, m \in Members, d \in Nat, cs \in SUBSET Copies :
                 Borrowing(at, m, d, cs) \in Request(n)
           /\ \A at \in {"readCopy", "update", "commit"}, l \in 1 .. n, v \in Nat :
                 Returning(at, l, v) \in Request(n)
           /\ \A at \in {"checkHold", "write"}, l \in 1 .. n, d \in Nat :
                 Renewing(at, l, d) \in Request(n)
           /\ \A es \in SUBSET OverdueEvent(n) : Sweeping(es) \in Request(n)
  <1>1. Idle \in Request(n) /\ Idle.op = "none"
    BY DEF Request, Idle
  <1>2. \A at \in {"lock", "commit"}, m \in Members, d \in Nat, cs \in SUBSET Copies :
           Borrowing(at, m, d, cs) \in Request(n)
    BY DEF Request, Borrowing, BorrowRequest
  <1>3. \A at \in {"readCopy", "update", "commit"}, l \in 1 .. n, v \in Nat :
           Returning(at, l, v) \in Request(n)
    BY DEF Request, Returning, ReturnRequest
  <1>4. \A at \in {"checkHold", "write"}, l \in 1 .. n, d \in Nat :
           Renewing(at, l, d) \in Request(n)
    BY DEF Request, Renewing, RenewRequest
  <1>5. \A es \in SUBSET OverdueEvent(n) : Sweeping(es) \in Request(n)
    BY DEF Request, Sweeping, SweepRequest
  <1> QED
    BY <1>1, <1>2, <1>3, <1>4, <1>5

\* Loans are never deleted: what is typed while there are n loans stays so.
LEMMA RequestGrows ==
    ASSUME NEW n \in Nat, NEW m \in Nat, n <= m
    PROVE  /\ OverdueEvent(n) \subseteq OverdueEvent(m)
           /\ Request(n) \subseteq Request(m)
  <1>1. 1 .. n \subseteq 1 .. m
    OBVIOUS
  <1>2. OverdueEvent(n) \subseteq OverdueEvent(m)
    BY <1>1 DEF OverdueEvent
  <1>3. SweepRequest(n) \subseteq SweepRequest(m)
    BY <1>2 DEF SweepRequest
  <1>4. ReturnRequest(n) \subseteq ReturnRequest(m) /\ RenewRequest(n) \subseteq RenewRequest(m)
    BY <1>1 DEF ReturnRequest, RenewRequest
  <1> QED
    BY <1>2, <1>3, <1>4 DEF Request

LEMMA SeqGrows ==
    ASSUME NEW S, NEW T, S \subseteq T, NEW s \in Seq(S)
    PROVE  s \in Seq(T)
  OBVIOUS

LEMMA AppendTyped ==
    ASSUME NEW S, NEW s \in Seq(S), NEW e \in S
    PROVE  Append(s, e) \in Seq(S)
  OBVIOUS

\* TypeOK is kept by a step that sends request p to r, provided that no loan
\* is lost.
LEMMA TypeKept ==
    ASSUME TypeOK, NEW p \in Procs, NEW r \in Request(Len(loans')), Goto(p, r),
           loans' \in Seq(LoanRow), Len(loans) <= Len(loans'),
           copies' \in [Copies -> CopyRow],
           lockedBy' \in [Copies -> Procs \cup {Nobody}],
           holds' \subseteq Books \X Waiters,
           now' \in Nat, requests' \in Nat,
           events' \in Seq(OverdueEvent(Len(loans')))
    PROVE  TypeOK'
  <1>1. Len(loans) \in Nat /\ Len(loans') \in Nat
    BY DEF TypeOK
  <1>2. Request(Len(loans)) \subseteq Request(Len(loans'))
    BY <1>1, RequestGrows
  <1>3. req' \in [Procs -> Request(Len(loans'))]
    BY <1>2 DEF TypeOK, Goto
  <1> QED
    BY <1>3 DEF TypeOK

\* Where a request goes, the others stay where they are.
LEMMA GotoFrame ==
    ASSUME TypeOK, NEW p \in Procs, NEW r, Goto(p, r)
    PROVE  /\ req'[p] = r
           /\ \A q \in Procs : q # p => req'[q] = req[q]
  BY DEF TypeOK, Goto

LEMMA LocksTyped ==
    ASSUME TypeOK, NEW p \in Procs
    PROVE  /\ Locks(p) \in [Copies -> Procs \cup {Nobody}]
           /\ \A c \in Copies : lockedBy[c] # p => Locks(p)[c] = lockedBy[c]
           /\ \A c \in Copies : Locks(p)[c] # p \/ p = Nobody
  BY DEF TypeOK, Locks

\* The effect of a write on one copy row and on one loan row.
LEMMA CopyWritten ==
    ASSUME TypeOK, NEW c \in Copies, NEW st \in CopyStatus,
           copies' = [copies EXCEPT ![c] = [status |-> st, version |-> @.version + 1]]
    PROVE  /\ copies' \in [Copies -> CopyRow]
           /\ copies'[c].status = st
           /\ \A d \in Copies : d # c => copies'[d] = copies[d]
  BY DEF TypeOK, CopyRow

LEMMA LoanWritten ==
    ASSUME TypeOK, NEW l \in DOMAIN loans, NEW row \in LoanRow,
           row.copy = loans[l].copy,
           loans' = [loans EXCEPT ![l] = row]
    PROVE  /\ loans' \in Seq(LoanRow)
           /\ Len(loans') = Len(loans)
           /\ DOMAIN loans' = DOMAIN loans
           /\ loans'[l] = row
           /\ \A k \in DOMAIN loans : k # l => loans'[k] = loans[k]
           /\ \A k \in DOMAIN loans : loans'[k].copy = loans[k].copy
  <1>1. loans \in Seq(LoanRow)
    BY DEF TypeOK
  <1>2. /\ loans' \in Seq(LoanRow)
        /\ Len(loans') = Len(loans)
        /\ DOMAIN loans' = DOMAIN loans
        /\ loans'[l] = row
        /\ \A k \in DOMAIN loans : k # l => loans'[k] = loans[k]
    BY <1>1
  <1> QED
    BY <1>2

\* The rows the three writers of a loan leave.
LEMMA LoanRows ==
    ASSUME NEW row \in LoanRow, NEW d \in Nat
    PROVE  /\ Returned(row) \in LoanRow /\ Returned(row).copy = row.copy
           /\ Renewed(row, d) \in LoanRow /\ Renewed(row, d).copy = row.copy
           /\ Renewed(row, d).status = "ACTIVE" /\ Renewed(row, d).returned = row.returned
           /\ Overdue(row) \in LoanRow /\ Overdue(row).copy = row.copy
           /\ Overdue(row).status = "OVERDUE" /\ Overdue(row).returned = row.returned
  <1>1. row.renewalCount + 1 \in Nat
    BY DEF LoanRow
  <1>2. Returned(row) \in LoanRow /\ Returned(row).copy = row.copy
    BY DEF Returned, LoanRow, LoanStatus
  <1>3. Renewed(row, d) \in LoanRow
    BY <1>1 DEF Renewed, LoanRow, LoanStatus
  <1>4. /\ Renewed(row, d).copy = row.copy
        /\ Renewed(row, d).status = "ACTIVE"
        /\ Renewed(row, d).returned = row.returned
    BY DEF Renewed, LoanRow
  <1>5. Overdue(row) \in LoanRow /\ Overdue(row).copy = row.copy
    BY DEF Overdue, LoanRow, LoanStatus
  <1>6. Overdue(row).status = "OVERDUE" /\ Overdue(row).returned = row.returned
    BY DEF Overdue, LoanRow
  <1> QED
    BY <1>2, <1>3, <1>4, <1>5, <1>6

-----------------------------------------------------------------------------
LEMMA TypeInit == Init => TypeOK
  BY LoanServiceAssumption, RequestTypes
  DEF Init, TypeOK, CopyRow, CopyStatus

\* Each step keeps every variable in its type; the actions are grouped by what
\* they write.
LEMMA TypeStep == TypeOK /\ [Next]_vars => TypeOK'
  <1> SUFFICES ASSUME TypeOK, [Next]_vars PROVE TypeOK'
    OBVIOUS
  <1> DEFINE n == Len(loans)
  <1>0. /\ n \in Nat /\ n <= n /\ DOMAIN loans = 1 .. n
        /\ \A l \in DOMAIN loans : loans[l] \in LoanRow
        /\ \A c \in Copies : copies[c] \in CopyRow
        /\ \A p \in Procs : req[p] \in Request(n)
    BY DEF TypeOK
  <1>1. ASSUME NEW p \in Procs, NEW b \in Books, NEW m \in Members,
               NEW d \in {LoanDuration[m]} \cup AskedDurations, BorrowSelect(p, b, m, d)
        PROVE  TypeOK'
    <2> DEFINE cs == {c \in Copies : BookOf[c] = b /\ copies[c].status = "AVAILABLE"}
               r == Borrowing("lock", m, now + d, cs)
    <2>1. now + d \in Nat /\ cs \in SUBSET Copies
      BY LoanServiceAssumption DEF TypeOK
    <2>2. r \in Request(n)
      BY <1>0, <2>1, RequestTypes
    <2>3. Goto(p, r) /\ requests' \in Nat
          /\ UNCHANGED <<copies, loans, lockedBy, holds, now, events>>
      BY <1>1 DEF BorrowSelect, Start, TypeOK
    <2> QED
      BY <1>0, <2>2, <2>3, TypeKept DEF TypeOK
  <1>2. ASSUME NEW p \in Procs, NEW c \in Copies,
               BorrowLock(p, c) \/ BorrowPassOver(p, c)
        PROVE  TypeOK'
    <2>1. req[p].op = "borrow" /\ req[p] \in Request(n)
      BY <1>0, <1>2 DEF BorrowLock, BorrowPassOver, At, LockRow, Chosen, PassedOver
    <2>2. /\ req[p].member \in Members /\ req[p].dueAt \in Nat
          /\ req[p].candidates \in SUBSET Copies
          /\ req[p].candidates \ {c} \in SUBSET Copies
      BY <1>0, <2>1, RequestFields
    <2>3. PICK r \in Request(n) : Goto(p, r)
      BY <1>0, <1>2, <2>2, RequestTypes DEF BorrowLock, BorrowPassOver,
         LockRow, Chosen, PassedOver
    <2>4. UNCHANGED <<copies, loans, holds, now, events, requests>>
          /\ lockedBy' \in [Copies -> Procs \cup {Nobody}]
      BY <1>2 DEF BorrowLock, BorrowPassOver, TypeOK, LockRow, Chosen, PassedOver
    <2> QED
      BY <1>0, <2>3, <2>4, TypeKept DEF TypeOK
  <1>3. ASSUME NEW p \in Procs, Finish(p),
               UNCHANGED <<copies, loans, holds, now, events, requests>>
        PROVE  TypeOK'
    BY <1>0, <1>3, RequestTypes, LocksTyped, TypeKept DEF Finish, TypeOK
  <1>4. ASSUME NEW p \in Procs, NEW c \in Copies, BorrowCommit(p, c)
        PROVE  TypeOK'
    <2> DEFINE row == NewLoan(c, req[p].member, req[p].dueAt)
    <2>1. req[p].member \in Members /\ req[p].dueAt \in Nat
      BY <1>0, <1>4, RequestFields DEF BorrowCommit, At
    <2>2. row \in LoanRow
      BY <2>1 DEF NewLoan, LoanRow, LoanStatus
    <2>3. loans' = Append(loans, row) /\ loans \in Seq(LoanRow)
      BY <1>4 DEF BorrowCommit, TypeOK
    <2>4. loans' \in Seq(LoanRow) /\ Len(loans') = n + 1
      BY <2>2, <2>3
    <2>5. copies' \in [Copies -> CopyRow]
      BY <1>4, CopyWritten DEF BorrowCommit, CopyStatus
    <2>6. events' \in Seq(OverdueEvent(n + 1))
      BY <1>0, <1>4, RequestGrows, SeqGrows DEF BorrowCommit, TypeOK
    <2>7. Idle \in Request(Len(loans'))
      BY <1>0, <2>4, RequestTypes
    <2> QED
      BY <1>0, <1>4, <2>4, <2>5, <2>6, <2>7, LocksTyped, TypeKept
      DEF BorrowCommit, Finish, TypeOK
  <1>5. ASSUME NEW p \in Procs, NEW l \in DOMAIN loans, ReturnReadLoan(p, l)
        PROVE  TypeOK'
    <2>1. Returning("readCopy", l, 0) \in Request(n)
      BY <1>0, RequestTypes
    <2> QED
      BY <1>0, <1>5, <2>1, TypeKept DEF ReturnReadLoan, Start, TypeOK
  <1>6. ASSUME NEW p \in Procs, ReturnReadCopy(p)
        PROVE  TypeOK'
    <2>1. req[p].loan \in 1 .. n
      BY <1>0, <1>6, RequestFields DEF ReturnReadCopy, At, ReadOn
    <2>2. copies[CopyReturned(p)].version \in Nat
      BY <1>0, <2>1 DEF CopyReturned, LoanRow, CopyRow
    <2>3. Returning("update", req[p].loan, copies[CopyReturned(p)].version) \in Request(n)
      BY <1>0, <2>1, <2>2, RequestTypes
    <2> QED
      BY <1>0, <1>6, <2>3, TypeKept DEF ReturnReadCopy, TypeOK, ReadOn
  <1>7. ASSUME NEW p \in Procs, ReturnUpdateCopy(p)
        PROVE  TypeOK'
    <2>1. req[p].loan \in 1 .. n /\ req[p].version \in Nat
      BY <1>0, <1>7, RequestFields DEF ReturnUpdateCopy, At, LockRow
    <2>2. Returning("commit", req[p].loan, req[p].version) \in Request(n)
      BY <1>0, <2>1, RequestTypes
    <2>3. lockedBy' \in [Copies -> Procs \cup {Nobody}]
      BY <1>7 DEF ReturnUpdateCopy, TypeOK, LockRow
    <2> QED
      BY <1>0, <1>7, <2>2, <2>3, TypeKept DEF ReturnUpdateCopy, TypeOK, LockRow
  <1>8. ASSUME NEW p \in Procs, ReturnCommit(p)
        PROVE  TypeOK'
    <2> DEFINE l == req[p].loan
               row == Returned(loans[l])
    <2>1. l \in DOMAIN loans /\ loans[l] \in LoanRow
      BY <1>0, <1>8, RequestFields DEF ReturnCommit, At
    <2>2. row \in LoanRow /\ row.copy = loans[l].copy /\ row.copy \in Copies
      BY <2>1, LoanRows DEF LoanRow
    <2>3. loans' = [loans EXCEPT ![l] = row]
      BY <1>8 DEF ReturnCommit
    <2>4. loans' \in Seq(LoanRow) /\ Len(loans') = n
      BY <2>1, <2>2, <2>3, LoanWritten
    <2>5. copies' \in [Copies -> CopyRow]
      BY <1>8, <2>2, CopyWritten DEF ReturnCommit, CopyStatus
    <2> QED
      BY <1>0, <1>8, <2>4, <2>5, RequestTypes, LocksTyped, TypeKept
      DEF ReturnCommit, Finish, TypeOK
  <1>9. ASSUME NEW p \in Procs, NEW l \in DOMAIN loans, RenewRead(p, l)
        PROVE  TypeOK'
    <2>1. loans[l].dueAt + LoanDuration[loans[l].member] \in Nat
      BY <1>0, LoanServiceAssumption DEF LoanRow
    <2>2. Renewing("checkHold", l, loans[l].dueAt + LoanDuration[loans[l].member]) \in Request(n)
      BY <1>0, <2>1, RequestTypes
    <2> QED
      BY <1>0, <1>9, <2>2, TypeKept DEF RenewRead, Start, TypeOK, StartRenewal
  <1>10. ASSUME NEW p \in Procs, RenewCheckHold(p)
         PROVE  TypeOK'
    <2>1. req[p].loan \in 1 .. n /\ req[p].dueAt \in Nat
      BY <1>0, <1>10, RequestFields DEF RenewCheckHold, At, ReadOn
    <2>2. Renewing("write", req[p].loan, req[p].dueAt) \in Request(n)
      BY <1>0, <2>1, RequestTypes
    <2> QED
      BY <1>0, <1>10, <2>2, TypeKept DEF RenewCheckHold, TypeOK, ReadOn
  <1>11. ASSUME NEW p \in Procs, RenewWrite(p)
         PROVE  TypeOK'
    <2> DEFINE l == req[p].loan
               row == Renewed(loans[l], req[p].dueAt)
    <2>1. l \in DOMAIN loans /\ loans[l] \in LoanRow /\ req[p].dueAt \in Nat
      BY <1>0, <1>11, RequestFields DEF RenewWrite, At
    <2>2. row \in LoanRow /\ row.copy = loans[l].copy
      BY <2>1, LoanRows
    <2>3. loans' = [loans EXCEPT ![l] = row]
      BY <1>11 DEF RenewWrite
    <2>4. loans' \in Seq(LoanRow) /\ Len(loans') = n
      BY <2>1, <2>2, <2>3, LoanWritten
    <2> QED
      BY <1>0, <1>11, <2>4, RequestTypes, LocksTyped, TypeKept
      DEF RenewWrite, Finish, TypeOK
  <1>12. ASSUME NEW p \in Procs, SweepRead(p)
         PROVE  TypeOK'
    <2> DEFINE es == {[loan |-> l, dueAt |-> loans[l].dueAt] : l \in {k \in DOMAIN loans : Late(k)}}
    <2>1. es \in SUBSET OverdueEvent(n)
      BY <1>0 DEF OverdueEvent, LoanRow
    <2>2. Sweeping(es) \in Request(n)
      BY <1>0, <2>1, RequestTypes
    <2> QED
      BY <1>0, <1>12, <2>2, TypeKept DEF SweepRead, Start, TypeOK
  <1>13. ASSUME NEW p \in Procs, NEW e \in req[p].batch, SweepMark(p, e) \/ SweepDies(p, e)
         PROVE  TypeOK'
    <2> DEFINE row == Overdue(loans[e.loan])
    <2>1. MarkOverdue(p, e) /\ req[p].op = "sweep"
      BY <1>13 DEF SweepMark, SweepDies, MarkOverdue, At
    <2>2. req[p].batch \subseteq OverdueEvent(n)
      BY <1>0, <2>1, RequestFields
    <2>3. e \in OverdueEvent(n) /\ e.loan \in DOMAIN loans /\ loans[e.loan] \in LoanRow
      BY <1>0, <2>2 DEF OverdueEvent
    <2>4. row \in LoanRow /\ row.copy = loans[e.loan].copy
      BY <2>3, LoanRows
    <2>5. loans' = [loans EXCEPT ![e.loan] = row]
      BY <2>1 DEF MarkOverdue
    <2>6. loans' \in Seq(LoanRow) /\ Len(loans') = n
      BY <2>3, <2>4, <2>5, LoanWritten
    <2>7. req[p].batch \ {e} \in SUBSET OverdueEvent(n)
      BY <2>2
    <2>8. Sweeping(req[p].batch \ {e}) \in Request(n) /\ Idle \in Request(n)
      BY <1>0, <2>7, RequestTypes
    <2>9. PICK r \in Request(n) : Goto(p, r)
      BY <1>13, <2>8 DEF SweepMark, SweepDies
    <2>10. events' \in Seq(OverdueEvent(n))
      <3>1. events \in Seq(OverdueEvent(n))
        BY DEF TypeOK
      <3>2. events' = events \/ events' = Append(events, e)
        BY <1>13 DEF SweepMark, SweepDies
      <3> QED
        BY <2>3, <3>1, <3>2, AppendTyped
    <2> QED
      BY <1>0, <2>1, <2>6, <2>9, <2>10, TypeKept DEF MarkOverdue, TypeOK
  <1>14. CASE Environment
    <2>1. UNCHANGED <<copies, loans, lockedBy, events, req, requests>>
      BY <1>14 DEF Environment, PlaceHold, DropHold, Tick
    <2>2. holds \subseteq Books \X Waiters /\ now \in Nat
      BY DEF TypeOK
    <2>3. ASSUME NEW b \in Books, NEW m \in Waiters, PlaceHold(b, m) \/ DropHold(b, m)
          PROVE  holds' \subseteq Books \X Waiters /\ now' \in Nat
      BY <2>2, <2>3 DEF PlaceHold, DropHold
    <2>4. ASSUME Tick PROVE holds' \subseteq Books \X Waiters /\ now' \in Nat
      BY <2>2, <2>4 DEF Tick
    <2>5. holds' \subseteq Books \X Waiters /\ now' \in Nat
      BY <1>14, <2>3, <2>4 DEF Environment
    <2> QED
      BY <2>1, <2>5 DEF TypeOK
  <1>15. CASE UNCHANGED vars
    BY <1>15 DEF vars, TypeOK
  <1>16. ASSUME NEW p \in Procs,
                BorrowRefused(p) \/ ReturnConflict(p) \/ RenewBlocked(p) \/ Abort(p)
         PROVE  TypeOK'
    BY <1>3, <1>16 DEF BorrowRefused, ReturnConflict, RenewBlocked, Abort, RollBack
  <1> QED
    BY <1>1, <1>2, <1>4, <1>5, <1>6, <1>7, <1>8, <1>9, <1>10, <1>11, <1>12, <1>13,
       <1>14, <1>15, <1>16
    DEF Next, Begin, Continue, Fail

\* Every variable keeps its type; no request ever names a loan that is not there.
THEOREM TypeCorrect == Spec => []TypeOK
  <1> QED
    BY TypeInit, TypeStep, PTL DEF Spec

-----------------------------------------------------------------------------
\* What a step of request p leaves alone: the other requests, the copies they
\* have locked with those locks, and which copy a loan is of.
Frame(p) ==
    /\ \A q \in Procs : q # p => req'[q] = req[q]
    /\ \A q \in Procs, c \in Copies :
          (q # p /\ lockedBy[c] = q) => (lockedBy'[c] = q /\ copies'[c] = copies[c])
    /\ \A l \in DOMAIN loans : l \in DOMAIN loans' /\ loans'[l].copy = loans[l].copy

\* The two places where a request relies on a row lock.
BorrowerSafe(p) ==
    At(p, "borrow", "commit") =>
        \E c \in Copies : /\ Candidate(p, c)
                          /\ lockedBy[c] = p
                          /\ copies[c].status = "AVAILABLE"
ReturnerSafe(p) ==
    At(p, "return", "commit") =>
        /\ lockedBy[CopyReturned(p)] = p
        /\ copies[CopyReturned(p)].version = req[p].version

\* A request is in no place that relies on a lock.
NotCommitting(p) == ~At(p, "borrow", "commit") /\ ~At(p, "return", "commit")

\* There is one lowest candidate.
LEMMA CandidateUnique ==
    ASSUME TypeOK, NEW p \in Procs, req[p].op = "borrow",
           NEW c \in Copies, NEW d \in Copies, Candidate(p, c), Candidate(p, d)
    PROVE  c = d
  <1>1. c \in Nat /\ d \in Nat
    BY LoanServiceAssumption
  <1>2. c <= d /\ d <= c
    BY DEF Candidate
  <1> QED
    BY <1>1, <1>2

\* The copy a borrow request commits is its own and AVAILABLE.
LEMMA BorrowCommitOwns ==
    ASSUME TypeOK, BorrowerHoldsCopy, NEW p \in Procs, NEW c \in Copies, BorrowCommit(p, c)
    PROVE  lockedBy[c] = p /\ copies[c].status = "AVAILABLE"
  <1>1. PICK d \in Copies : /\ Candidate(p, d)
                            /\ lockedBy[d] = p
                            /\ copies[d].status = "AVAILABLE"
    BY DEF BorrowCommit, BorrowerHoldsCopy
  <1>2. d = c
    BY <1>1, CandidateUnique DEF BorrowCommit, At
  <1> QED
    BY <1>1, <1>2

\* The copy a return request is about.
LEMMA CopyReturnedTyped ==
    ASSUME TypeOK, NEW p \in Procs, req[p].op = "return"
    PROVE  req[p].loan \in DOMAIN loans /\ CopyReturned(p) \in Copies
  <1>1. req[p] \in Request(Len(loans)) /\ Len(loans) \in Nat /\ loans \in Seq(LoanRow)
    BY DEF TypeOK
  <1>2. req[p].loan \in DOMAIN loans
    BY <1>1, RequestFields
  <1>3. loans[req[p].loan] \in LoanRow
    BY <1>1, <1>2
  <1> QED
    BY <1>2, <1>3 DEF CopyReturned, LoanRow

\* The loan that a renewal or an overdue mark is about.
LEMMA LoanNamed ==
    ASSUME TypeOK, NEW p \in Procs
    PROVE  /\ req[p].op = "renew" => req[p].loan \in DOMAIN loans /\ req[p].dueAt \in Nat
           /\ req[p].op = "sweep" => \A e \in req[p].batch : e.loan \in DOMAIN loans
  <1>1. req[p] \in Request(Len(loans)) /\ Len(loans) \in Nat /\ loans \in Seq(LoanRow)
    BY DEF TypeOK
  <1> QED
    BY <1>1, RequestFields DEF OverdueEvent

\* A step of p that respects the locks of the others, and leaves p itself
\* safe, keeps both lock invariants.
LEMMA LocksRespected ==
    ASSUME IInv, NEW p \in Procs, Frame(p), BorrowerSafe(p)', ReturnerSafe(p)'
    PROVE  BorrowerHoldsCopy' /\ ReturnerHoldsCopy'
  <1>1. ASSUME NEW q \in Procs, q # p PROVE BorrowerSafe(q)'
    <2>1. req'[q] = req[q]
      BY <1>1 DEF Frame
    <2>2. CASE ~At(q, "borrow", "commit")
      BY <2>1, <2>2 DEF BorrowerSafe, At
    <2>3. CASE At(q, "borrow", "commit")
      <3>1. PICK c \in Copies : /\ Candidate(q, c)
                                /\ lockedBy[c] = q
                                /\ copies[c].status = "AVAILABLE"
        BY <2>3 DEF IInv, BorrowerHoldsCopy
      <3>2. lockedBy'[c] = q /\ copies'[c] = copies[c]
        BY <1>1, <3>1 DEF Frame
      <3> QED
        BY <2>1, <3>1, <3>2 DEF BorrowerSafe, Candidate
    <2> QED
      BY <2>2, <2>3
  <1>2. ASSUME NEW q \in Procs, q # p PROVE ReturnerSafe(q)'
    <2>1. req'[q] = req[q]
      BY <1>2 DEF Frame
    <2>2. CASE ~At(q, "return", "commit")
      BY <2>1, <2>2 DEF ReturnerSafe, At
    <2>3. CASE At(q, "return", "commit")
      <3>1. req[q].loan \in DOMAIN loans /\ CopyReturned(q) \in Copies
        BY <2>3, CopyReturnedTyped DEF IInv, At
      <3>2. loans'[req'[q].loan].copy = CopyReturned(q)
        BY <2>1, <3>1 DEF Frame, CopyReturned
      <3>3. /\ lockedBy[CopyReturned(q)] = q
            /\ copies[CopyReturned(q)].version = req[q].version
        BY <2>3 DEF IInv, ReturnerHoldsCopy
      <3>4. lockedBy'[CopyReturned(q)] = q /\ copies'[CopyReturned(q)] = copies[CopyReturned(q)]
        BY <1>2, <3>1, <3>3 DEF Frame
      <3>5. CopyReturned(q)' = CopyReturned(q)
        BY <3>2 DEF CopyReturned
      <3> QED
        BY <2>1, <3>3, <3>4, <3>5 DEF ReturnerSafe
    <2> QED
      BY <2>2, <2>3
  <1>3. \A q \in Procs : BorrowerSafe(q)' /\ ReturnerSafe(q)'
    BY <1>1, <1>2
  <1>4. BorrowerHoldsCopy'
    BY <1>3 DEF BorrowerHoldsCopy, BorrowerSafe
  <1>5. ReturnerHoldsCopy'
    BY <1>3 DEF ReturnerHoldsCopy, ReturnerSafe
  <1> QED
    BY <1>4, <1>5

\* A request that ends frees its own locks and nobody else's.
LEMMA FinishFrame ==
    ASSUME TypeOK, NEW p \in Procs, Finish(p)
    PROVE  /\ req'[p] = Idle
           /\ \A q \in Procs : q # p => req'[q] = req[q]
           /\ \A q \in Procs, c \in Copies : (q # p /\ lockedBy[c] = q) => lockedBy'[c] = q
           /\ NotCommitting(p)'
  <1>1. req'[p] = Idle /\ \A q \in Procs : q # p => req'[q] = req[q]
    BY GotoFrame DEF Finish
  <1>2. \A q \in Procs, c \in Copies : (q # p /\ lockedBy[c] = q) => lockedBy'[c] = q
    BY LocksTyped DEF Finish
  <1> QED
    BY <1>1, <1>2 DEF NotCommitting, At, Idle

\* A free row lock taken by p is no other request's.
LEMMA LockTaken ==
    ASSUME TypeOK, NEW p \in Procs, NEW c \in Copies, lockedBy[c] = Nobody,
           lockedBy' = [lockedBy EXCEPT ![c] = p]
    PROVE  /\ lockedBy'[c] = p
           /\ \A q \in Procs, d \in Copies : (q # p /\ lockedBy[d] = q) => lockedBy'[d] = q
  BY LoanServiceAssumption DEF TypeOK

LEMMA SameLoans ==
    ASSUME TypeOK, UNCHANGED loans
    PROVE  \A l \in DOMAIN loans : l \in DOMAIN loans' /\ loans'[l].copy = loans[l].copy
  OBVIOUS

\* Every step of a request is framed and leaves the request safe.
LEMMA StepFramed ==
    ASSUME IInv, NEW p \in Procs, Begin(p) \/ Continue(p) \/ Fail(p)
    PROVE  Frame(p) /\ BorrowerSafe(p)' /\ ReturnerSafe(p)'
  <1> USE DEF IInv
  <1>0. NotCommitting(p)' => BorrowerSafe(p)' /\ ReturnerSafe(p)'
    BY DEF NotCommitting, BorrowerSafe, ReturnerSafe
  <1> DEFINE LoansFramed == \A l \in DOMAIN loans :
                              l \in DOMAIN loans' /\ loans'[l].copy = loans[l].copy
  \* Steps that write nothing and go to a place without a lock.
  <1>1. ASSUME NEW r, Goto(p, r), UNCHANGED <<copies, loans, lockedBy>>,
               ~(r.op = "borrow" /\ r.at = "commit"), ~(r.op = "return" /\ r.at = "commit")
        PROVE  Frame(p) /\ BorrowerSafe(p)' /\ ReturnerSafe(p)'
    <2>1. req'[p] = r /\ \A q \in Procs : q # p => req'[q] = req[q]
      BY <1>1, GotoFrame
    <2>2. NotCommitting(p)'
      BY <1>1, <2>1 DEF NotCommitting, At
    <2> QED
      BY <1>0, <1>1, <2>1, <2>2, SameLoans DEF Frame
  \* Steps that end the request and write no copy.
  <1>2. ASSUME Finish(p), UNCHANGED copies, LoansFramed
        PROVE  Frame(p) /\ BorrowerSafe(p)' /\ ReturnerSafe(p)'
    BY <1>0, <1>2, FinishFrame DEF Frame
  <1>3. ASSUME NEW b \in Books, NEW m \in Members, NEW d, BorrowSelect(p, b, m, d)
        PROVE  Frame(p) /\ BorrowerSafe(p)' /\ ReturnerSafe(p)'
    BY <1>1, <1>3 DEF BorrowSelect, Borrowing, Start
  <1>4. ASSUME NEW c \in Copies, BorrowLock(p, c)
        PROVE  Frame(p) /\ BorrowerSafe(p)' /\ ReturnerSafe(p)'
    <2> DEFINE r == Borrowing("commit", req[p].member, req[p].dueAt, req[p].candidates)
    <2>1. req'[p] = r /\ \A q \in Procs : q # p => req'[q] = req[q]
      BY <1>4, GotoFrame DEF BorrowLock, LockRow, Chosen
    <2>2. /\ lockedBy'[c] = p
          /\ \A q \in Procs, d \in Copies : (q # p /\ lockedBy[d] = q) => lockedBy'[d] = q
      BY <1>4, LockTaken DEF BorrowLock, LockRow, Chosen
    <2>3. UNCHANGED copies /\ UNCHANGED loans /\ copies[c].status = "AVAILABLE"
      BY <1>4 DEF BorrowLock, LockRow, Chosen
    <2>4. Candidate(p, c)'
      BY <1>4, <2>1 DEF BorrowLock, Candidate, Borrowing, LockRow, Chosen
    <2>5. ~At(p, "return", "commit")'
      BY <2>1 DEF At, Borrowing
    <2>6. BorrowerSafe(p)' /\ ReturnerSafe(p)'
      BY <2>2, <2>3, <2>4, <2>5 DEF BorrowerSafe, ReturnerSafe
    <2> QED
      BY <2>1, <2>2, <2>3, <2>6, SameLoans DEF Frame
  <1>5. ASSUME NEW c \in Copies, BorrowPassOver(p, c)
        PROVE  Frame(p) /\ BorrowerSafe(p)' /\ ReturnerSafe(p)'
    <2>1. /\ req'[p] = Borrowing("lock", req[p].member, req[p].dueAt, req[p].candidates \ {c})
          /\ \A q \in Procs : q # p => req'[q] = req[q]
      BY <1>5, GotoFrame DEF BorrowPassOver, LockRow, PassedOver
    <2>2. \A q \in Procs, d \in Copies : (q # p /\ lockedBy[d] = q) => lockedBy'[d] = q
      BY <1>5, LockTaken DEF BorrowPassOver, LockRow, PassedOver
    <2>3. UNCHANGED copies /\ UNCHANGED loans
      BY <1>5 DEF BorrowPassOver, LockRow, PassedOver
    <2>4. NotCommitting(p)'
      BY <2>1 DEF NotCommitting, At, Borrowing
    <2> QED
      BY <1>0, <2>1, <2>2, <2>3, <2>4, SameLoans DEF Frame
  <1>6. ASSUME BorrowRefused(p) \/ ReturnConflict(p) \/ RenewBlocked(p) \/ Abort(p)
        PROVE  Frame(p) /\ BorrowerSafe(p)' /\ ReturnerSafe(p)'
    <2>1. Finish(p) /\ UNCHANGED <<copies, loans>>
      BY <1>6 DEF BorrowRefused, ReturnConflict, RenewBlocked, Abort, RollBack
    <2> QED
      BY <1>2, <2>1, SameLoans
  <1>7. ASSUME NEW c \in Copies, BorrowCommit(p, c)
        PROVE  Frame(p) /\ BorrowerSafe(p)' /\ ReturnerSafe(p)'
    <2>1. lockedBy[c] = p
      BY <1>7, BorrowCommitOwns
    <2>2. \A d \in Copies : d # c => copies'[d] = copies[d]
      BY <1>7, CopyWritten DEF BorrowCommit, CopyStatus
    <2>3. LoansFramed
      <3>1. /\ loans \in Seq(LoanRow)
            /\ loans' = Append(loans, NewLoan(c, req[p].member, req[p].dueAt))
        BY <1>7 DEF BorrowCommit, TypeOK
      <3> QED
        BY <3>1
    <2>4. Finish(p)
      BY <1>7 DEF BorrowCommit
    <2> QED
      BY <1>0, <2>1, <2>2, <2>3, <2>4, FinishFrame DEF Frame
  <1>8. ASSUME NEW l \in DOMAIN loans, ReturnReadLoan(p, l) \/ RenewRead(p, l)
        PROVE  Frame(p) /\ BorrowerSafe(p)' /\ ReturnerSafe(p)'
    BY <1>1, <1>8 DEF ReturnReadLoan, RenewRead, Returning, Renewing, Start,
       StartRenewal
  <1>9. ASSUME ReturnReadCopy(p) \/ RenewCheckHold(p)
        PROVE  Frame(p) /\ BorrowerSafe(p)' /\ ReturnerSafe(p)'
    BY <1>1, <1>9 DEF ReturnReadCopy, RenewCheckHold, Returning, Renewing, ReadOn
  <1>10. ASSUME ReturnUpdateCopy(p)
         PROVE  Frame(p) /\ BorrowerSafe(p)' /\ ReturnerSafe(p)'
    <2> DEFINE c == CopyReturned(p)
    <2>1. req[p].loan \in DOMAIN loans /\ c \in Copies
      BY <1>10, CopyReturnedTyped DEF ReturnUpdateCopy, At, LockRow
    <2>2. /\ req'[p] = Returning("commit", req[p].loan, req[p].version)
          /\ \A q \in Procs : q # p => req'[q] = req[q]
      BY <1>10, GotoFrame DEF ReturnUpdateCopy, LockRow
    <2>3. /\ lockedBy'[c] = p
          /\ \A q \in Procs, d \in Copies : (q # p /\ lockedBy[d] = q) => lockedBy'[d] = q
      BY <1>10, <2>1, LockTaken DEF ReturnUpdateCopy, LockRow
    <2>4. UNCHANGED copies /\ UNCHANGED loans /\ copies[c].version = req[p].version
      BY <1>10 DEF ReturnUpdateCopy, LockRow
    <2>5. req'[p].op = "return" /\ req'[p].loan = req[p].loan /\ req'[p].version = req[p].version
      BY <2>2 DEF Returning
    <2>6. CopyReturned(p)' = c
      BY <2>4, <2>5 DEF CopyReturned
    <2>7. BorrowerSafe(p)' /\ ReturnerSafe(p)'
      BY <2>3, <2>4, <2>5, <2>6 DEF BorrowerSafe, ReturnerSafe, At
    <2> QED
      BY <2>2, <2>3, <2>4, <2>7, SameLoans DEF Frame
  <1>11. ASSUME ReturnCommit(p)
         PROVE  Frame(p) /\ BorrowerSafe(p)' /\ ReturnerSafe(p)'
    <2> DEFINE l == req[p].loan
               c == CopyReturned(p)
    <2>1. l \in DOMAIN loans /\ c \in Copies /\ loans[l] \in LoanRow
      BY <1>11, CopyReturnedTyped DEF ReturnCommit, At, TypeOK
    <2>2. lockedBy[c] = p
      BY <1>11 DEF ReturnCommit, ReturnerHoldsCopy
    <2>3. \A d \in Copies : d # c => copies'[d] = copies[d]
      BY <1>11, <2>1, CopyWritten DEF ReturnCommit, CopyStatus, CopyReturned
    <2>4. Returned(loans[l]) \in LoanRow /\ Returned(loans[l]).copy = loans[l].copy
      BY <2>1, LoanRows
    <2>5. loans' = [loans EXCEPT ![l] = Returned(loans[l])]
      BY <1>11 DEF ReturnCommit
    <2>6. LoansFramed
      BY <2>1, <2>4, <2>5, LoanWritten
    <2>7. Finish(p)
      BY <1>11 DEF ReturnCommit
    <2> QED
      BY <1>0, <2>2, <2>3, <2>6, <2>7, FinishFrame DEF Frame
  <1>12. ASSUME RenewWrite(p)
         PROVE  Frame(p) /\ BorrowerSafe(p)' /\ ReturnerSafe(p)'
    <2>1. req[p].loan \in DOMAIN loans /\ req[p].dueAt \in Nat /\ loans[req[p].loan] \in LoanRow
      BY <1>12, LoanNamed DEF RenewWrite, At, TypeOK
    <2> DEFINE row == Renewed(loans[req[p].loan], req[p].dueAt)
    <2>2. row \in LoanRow /\ row.copy = loans[req[p].loan].copy
      BY <2>1, LoanRows
    <2>3. loans' = [loans EXCEPT ![req[p].loan] = row]
      BY <1>12 DEF RenewWrite
    <2> HIDE DEF row
    <2>4. LoansFramed
      BY <2>1, <2>2, <2>3, LoanWritten
    <2> QED
      BY <1>2, <1>12, <2>4 DEF RenewWrite
  <1>13. ASSUME SweepRead(p)
         PROVE  Frame(p) /\ BorrowerSafe(p)' /\ ReturnerSafe(p)'
    BY <1>1, <1>13 DEF SweepRead, Sweeping, Start
  <1>14. ASSUME NEW e \in req[p].batch, SweepMark(p, e) \/ SweepDies(p, e)
         PROVE  Frame(p) /\ BorrowerSafe(p)' /\ ReturnerSafe(p)'
    <2>1. MarkOverdue(p, e)
      BY <1>14 DEF SweepMark, SweepDies
    <2>2. e.loan \in DOMAIN loans /\ loans[e.loan] \in LoanRow
      BY <2>1, LoanNamed DEF MarkOverdue, At, TypeOK
    <2> DEFINE row == Overdue(loans[e.loan])
    <2>3. row \in LoanRow /\ row.copy = loans[e.loan].copy
      BY <2>2, LoanRows
    <2>4. loans' = [loans EXCEPT ![e.loan] = row]
      BY <2>1 DEF MarkOverdue
    <2> HIDE DEF row
    <2>5. LoansFramed
      BY <2>2, <2>3, <2>4, LoanWritten
    <2>6. UNCHANGED copies /\ UNCHANGED lockedBy
      BY <2>1 DEF MarkOverdue
    <2>7. PICK r : Goto(p, r) /\ r.op # "borrow" /\ r.op # "return"
      BY <1>14 DEF SweepMark, SweepDies, Sweeping, Idle
    <2>8. req'[p] = r /\ \A q \in Procs : q # p => req'[q] = req[q]
      BY <2>7, GotoFrame
    <2>9. NotCommitting(p)'
      BY <2>7, <2>8 DEF NotCommitting, At
    <2> QED
      BY <1>0, <2>5, <2>6, <2>8, <2>9 DEF Frame
  <1> QED
    BY <1>3, <1>4, <1>5, <1>6, <1>7, <1>8, <1>9, <1>10, <1>11, <1>12, <1>13, <1>14
    DEF Begin, Continue, Fail

-----------------------------------------------------------------------------
\* Sequence ls of loan rows has an open loan of copy c, the last one of c.
Backed(ls, c) ==
    \E l \in DOMAIN ls :
        /\ ls[l].copy = c
        /\ \A k \in DOMAIN ls : k > l => ls[k].copy # ls[l].copy
        /\ ls[l].status \in {"ACTIVE", "OVERDUE"}
        /\ ls[l].returned = FALSE

LEMMA BackedIs ==
    ASSUME TypeOK
    PROVE  OnLoanBacked <=> \A c \in Copies : copies[c].status = "ON_LOAN" => Backed(loans, c)
  <1>0. loans \in Seq(LoanRow)
    BY DEF TypeOK
  <1>1. ASSUME NEW l \in DOMAIN loans
        PROVE  loans[l].returned = TRUE \/ loans[l].returned = FALSE
    <2>1. loans[l] \in LoanRow
      BY <1>0
    <2> QED
      BY <2>1 DEF LoanRow
  <1> QED
    BY <1>1 DEF OnLoanBacked, Backed, Newest, Open

\* A loan row written leaves the copies backed, if it keeps what was open open
\* and what was not returned not returned.
LEMMA BackedWritten ==
    ASSUME NEW ls \in Seq(LoanRow), NEW ms \in Seq(LoanRow), DOMAIN ms = DOMAIN ls,
           \A l \in DOMAIN ls : ms[l].copy = ls[l].copy,
           NEW c \in Copies, Backed(ls, c),
           \A l \in DOMAIN ls : ls[l].copy = c =>
               \/ ms[l] = ls[l]
               \/ /\ ms[l].status \in {"ACTIVE", "OVERDUE"}
                  /\ ms[l].returned = ls[l].returned
    PROVE  Backed(ms, c)
  <1>1. PICK l \in DOMAIN ls : /\ ls[l].copy = c
                               /\ \A k \in DOMAIN ls : k > l => ls[k].copy # ls[l].copy
                               /\ ls[l].status \in {"ACTIVE", "OVERDUE"}
                               /\ ls[l].returned = FALSE
    BY DEF Backed
  <1>2. \A k \in DOMAIN ms : k > l => ms[k].copy # ms[l].copy
    BY <1>1
  <1>3. ms[l].status \in {"ACTIVE", "OVERDUE"} /\ ms[l].returned = FALSE
    BY <1>1
  <1> QED
    BY <1>1, <1>2, <1>3 DEF Backed

\* A new loan backs its copy and leaves the other copies backed.
LEMMA BackedAppended ==
    ASSUME NEW ls \in Seq(LoanRow), NEW row \in LoanRow,
           row.status = "ACTIVE", row.returned = FALSE, NEW d \in Copies,
           d = row.copy \/ Backed(ls, d)
    PROVE  Backed(Append(ls, row), d)
  <1> DEFINE ms == Append(ls, row)
             n == Len(ls) + 1
  <1>1. /\ Len(ls) \in Nat
        /\ DOMAIN ls = 1 .. Len(ls)
        /\ DOMAIN ms = 1 .. n
        /\ ms[n] = row
        /\ \A k \in DOMAIN ls : k \in DOMAIN ms /\ k # n /\ ms[k] = ls[k]
    OBVIOUS
  <1>2. CASE d = row.copy
    <2>1. n \in DOMAIN ms
      BY <1>1
    <2>2. ms[n].copy = d /\ ms[n].status = "ACTIVE" /\ ms[n].returned = FALSE
      BY <1>1, <1>2
    <2>3. \A k \in DOMAIN ms : k > n => ms[k].copy # ms[n].copy
      BY <1>1
    <2> HIDE DEF ms, n
    <2>4. Backed(ms, d)
      BY <2>1, <2>2, <2>3 DEF Backed
    <2> QED
      BY <2>4 DEF ms
  <1>3. CASE d # row.copy
    <2>1. PICK l \in DOMAIN ls : /\ ls[l].copy = d
                                 /\ \A k \in DOMAIN ls : k > l => ls[k].copy # ls[l].copy
                                 /\ ls[l].status \in {"ACTIVE", "OVERDUE"}
                                 /\ ls[l].returned = FALSE
      BY <1>3 DEF Backed
    <2>2. \A k \in DOMAIN ms : k \in DOMAIN ls \/ k = n
      BY <1>1
    <2> HIDE DEF ms, n
    <2>3. \A k \in DOMAIN ms : k > l => ms[k].copy # ms[l].copy
      BY <1>1, <1>3, <2>1, <2>2
    <2> QED
      BY <1>1, <2>1, <2>3 DEF Backed
  <1> QED
    BY <1>2, <1>3

\* Every step of a request keeps ON_LOAN copies backed.
LEMMA BackedStep ==
    ASSUME IInv, NEW p \in Procs, Begin(p) \/ Continue(p) \/ Fail(p), TypeOK'
    PROVE  OnLoanBacked'
  <1> USE DEF IInv
  <1> DEFINE Goal == \A c \in Copies : copies'[c].status = "ON_LOAN" => Backed(loans', c)
  <1>0. /\ loans \in Seq(LoanRow)
        /\ loans' \in Seq(LoanRow)
        /\ \A c \in Copies : copies[c].status = "ON_LOAN" => Backed(loans, c)
    BY BackedIs DEF TypeOK
  \* A step that writes neither copies nor loans.
  <1>1. ASSUME UNCHANGED copies, UNCHANGED loans PROVE Goal
    BY <1>0, <1>1
  \* A step that writes one loan row, and no copy to ON_LOAN.
  <1>2. ASSUME NEW l \in DOMAIN loans, NEW row \in LoanRow, row.copy = loans[l].copy,
               loans' = [loans EXCEPT ![l] = row],
               NEW c \in Copies, Backed(loans, c),
               \/ loans[l].copy # c
               \/ row.status \in {"ACTIVE", "OVERDUE"} /\ row.returned = loans[l].returned
        PROVE  Backed(loans', c)
    <2>1. /\ DOMAIN loans' = DOMAIN loans
          /\ loans'[l] = row
          /\ \A k \in DOMAIN loans : k # l => loans'[k] = loans[k]
          /\ \A k \in DOMAIN loans : loans'[k].copy = loans[k].copy
      BY <1>2, LoanWritten
    <2>2. \A k \in DOMAIN loans : loans[k].copy = c =>
               \/ loans'[k] = loans[k]
               \/ /\ loans'[k].status \in {"ACTIVE", "OVERDUE"}
                  /\ loans'[k].returned = loans[k].returned
      BY <1>2, <2>1
    <2> QED
      BY <1>0, <1>2, <2>1, <2>2, BackedWritten
  <1>3. ASSUME NEW c \in Copies, BorrowCommit(p, c) PROVE Goal
    <2> DEFINE row == NewLoan(c, req[p].member, req[p].dueAt)
    <2>1. req[p].member \in Members /\ req[p].dueAt \in Nat
      <3>1. req[p] \in Request(Len(loans)) /\ Len(loans) \in Nat
        BY DEF TypeOK
      <3> QED
        BY <1>3, <3>1, RequestFields DEF BorrowCommit, At
    <2>2. row \in LoanRow /\ row.copy = c /\ row.status = "ACTIVE" /\ row.returned = FALSE
      BY <2>1 DEF NewLoan, LoanRow, LoanStatus
    <2>3. loans' = Append(loans, row)
      BY <1>3 DEF BorrowCommit
    <2>4. \A d \in Copies : d # c => copies'[d] = copies[d]
      BY <1>3, CopyWritten DEF BorrowCommit, CopyStatus
    <2>5. ASSUME NEW d \in Copies, copies'[d].status = "ON_LOAN" PROVE Backed(loans', d)
      <3>1. d = row.copy \/ Backed(loans, d)
        BY <1>0, <2>2, <2>4, <2>5
      <3> HIDE DEF row
      <3> QED
        BY <1>0, <2>2, <2>3, <3>1, BackedAppended
    <2> QED
      BY <2>5
  <1>4. ASSUME ReturnCommit(p) PROVE Goal
    <2> DEFINE l == req[p].loan
               c == CopyReturned(p)
    <2>1. l \in DOMAIN loans /\ c \in Copies /\ loans[l] \in LoanRow /\ c = loans[l].copy
      BY <1>0, <1>4, CopyReturnedTyped DEF ReturnCommit, At, CopyReturned
    <2>2. /\ copies'[c].status = "AVAILABLE"
          /\ \A d \in Copies : d # c => copies'[d] = copies[d]
      BY <1>4, <2>1, CopyWritten DEF ReturnCommit, CopyStatus
    <2>3. loans' = [loans EXCEPT ![l] = Returned(loans[l])]
      BY <1>4 DEF ReturnCommit
    <2>4. Returned(loans[l]) \in LoanRow /\ Returned(loans[l]).copy = loans[l].copy
      BY <2>1, LoanRows
    <2>5. ASSUME NEW d \in Copies, copies'[d].status = "ON_LOAN" PROVE Backed(loans', d)
      <3>1. d # c /\ Backed(loans, d)
        BY <1>0, <2>2, <2>5
      <3> HIDE DEF l, c
      <3> QED
        BY <1>2, <2>1, <2>3, <2>4, <3>1
    <2> QED
      BY <2>5
  <1>5. ASSUME NEW l \in DOMAIN loans, NEW row \in LoanRow, row.copy = loans[l].copy,
               row.status \in {"ACTIVE", "OVERDUE"}, row.returned = loans[l].returned,
               loans' = [loans EXCEPT ![l] = row], UNCHANGED copies
        PROVE  Goal
    BY <1>0, <1>2, <1>5
  <1>6. ASSUME RenewWrite(p) PROVE Goal
    <2> DEFINE row == Renewed(loans[req[p].loan], req[p].dueAt)
    <2>1. req[p].loan \in DOMAIN loans /\ req[p].dueAt \in Nat /\ loans[req[p].loan] \in LoanRow
      BY <1>0, <1>6, LoanNamed DEF RenewWrite, At
    <2>2. /\ row \in LoanRow /\ row.copy = loans[req[p].loan].copy
          /\ row.status \in {"ACTIVE", "OVERDUE"} /\ row.returned = loans[req[p].loan].returned
      BY <2>1, LoanRows
    <2>3. loans' = [loans EXCEPT ![req[p].loan] = row] /\ UNCHANGED copies
      BY <1>6 DEF RenewWrite
    <2> HIDE DEF row
    <2> QED
      BY <1>5, <2>1, <2>2, <2>3
  <1>7. ASSUME NEW e \in req[p].batch, MarkOverdue(p, e) PROVE Goal
    <2> DEFINE row == Overdue(loans[e.loan])
    <2>1. e.loan \in DOMAIN loans /\ loans[e.loan] \in LoanRow
      BY <1>0, <1>7, LoanNamed DEF MarkOverdue, At
    <2>2. /\ row \in LoanRow /\ row.copy = loans[e.loan].copy
          /\ row.status \in {"ACTIVE", "OVERDUE"} /\ row.returned = loans[e.loan].returned
      BY <2>1, LoanRows
    <2>3. loans' = [loans EXCEPT ![e.loan] = row] /\ UNCHANGED copies
      BY <1>7 DEF MarkOverdue
    <2> HIDE DEF row
    <2> QED
      BY <1>5, <2>1, <2>2, <2>3
  <1>8. ASSUME NEW b \in Books, NEW m \in Members, NEW d, BorrowSelect(p, b, m, d)
        PROVE  Goal
    BY <1>1, <1>8 DEF BorrowSelect, Start
  <1>9. ASSUME NEW c \in Copies, BorrowLock(p, c) \/ BorrowPassOver(p, c) PROVE Goal
    BY <1>1, <1>9 DEF BorrowLock, BorrowPassOver, LockRow, Chosen, PassedOver
  <1>10. ASSUME NEW l \in DOMAIN loans, ReturnReadLoan(p, l) \/ RenewRead(p, l) PROVE Goal
    BY <1>1, <1>10 DEF ReturnReadLoan, RenewRead, Start, StartRenewal
  <1>11. ASSUME \/ BorrowRefused(p) \/ ReturnReadCopy(p) \/ ReturnUpdateCopy(p)
                \/ ReturnConflict(p) \/ RenewCheckHold(p) \/ RenewBlocked(p)
                \/ SweepRead(p) \/ Abort(p)
         PROVE  Goal
    BY <1>1, <1>11
    DEF BorrowRefused, ReturnReadCopy, ReturnUpdateCopy, ReturnConflict,
        RenewCheckHold, RenewBlocked, SweepRead, Abort, RollBack, ReadOn, LockRow, Start
  <1>12. Goal
    BY <1>3, <1>4, <1>6, <1>7, <1>8, <1>9, <1>10, <1>11
    DEF Begin, Continue, Fail, SweepMark, SweepDies
  <1>13. (\A c \in Copies : copies[c].status = "ON_LOAN" => Backed(loans, c))'
    BY <1>12
  <1>14. TypeOK' => (OnLoanBacked' <=>
             (\A c \in Copies : copies[c].status = "ON_LOAN" => Backed(loans, c))')
    BY BackedIs, PTL
  <1> QED
    BY <1>13, <1>14

-----------------------------------------------------------------------------
LEMMA SafeAll ==
    /\ BorrowerHoldsCopy <=> \A p \in Procs : BorrowerSafe(p)
    /\ ReturnerHoldsCopy <=> \A p \in Procs : ReturnerSafe(p)
  BY DEF BorrowerHoldsCopy, BorrowerSafe, ReturnerHoldsCopy, ReturnerSafe

LEMMA InvInit == Init => IInv
  <1> SUFFICES ASSUME Init PROVE IInv
    OBVIOUS
  <1>1. TypeOK
    BY TypeInit
  <1>2. \A p \in Procs : ~At(p, "borrow", "commit") /\ ~At(p, "return", "commit")
    BY DEF Init, At, Idle
  <1>3. \A c \in Copies : copies[c].status # "ON_LOAN"
    BY DEF Init
  <1> QED
    BY <1>1, <1>2, <1>3 DEF IInv, BorrowerHoldsCopy, ReturnerHoldsCopy, OnLoanBacked

LEMMA InvStep == IInv /\ [Next]_vars => IInv'
  <1> SUFFICES ASSUME IInv, [Next]_vars PROVE IInv'
    OBVIOUS
  <1>1. TypeOK'
    BY TypeStep DEF IInv
  <1>2. ASSUME NEW p \in Procs, Begin(p) \/ Continue(p) \/ Fail(p) PROVE IInv'
    <2>1. BorrowerHoldsCopy' /\ ReturnerHoldsCopy'
      BY <1>2, StepFramed, LocksRespected
    <2>2. OnLoanBacked'
      BY <1>1, <1>2, BackedStep
    <2> QED
      BY <1>1, <2>1, <2>2 DEF IInv
  <1>3. ASSUME UNCHANGED <<copies, loans, lockedBy, req>> PROVE IInv'
    BY <1>1, <1>3
    DEF IInv, BorrowerHoldsCopy, ReturnerHoldsCopy, OnLoanBacked, At, Candidate,
        CopyReturned, Newest, Open
  <1>4. Environment => UNCHANGED <<copies, loans, lockedBy, req>>
    BY DEF Environment, PlaceHold, DropHold, Tick
  <1> QED
    BY <1>2, <1>3, <1>4 DEF Next, vars

THEOREM Invariance == Spec => []IInv
  <1> QED
    BY InvInit, InvStep, PTL DEF Spec

\* The row lock of SELECT ... FOR UPDATE keeps the copy a borrower chose
\* AVAILABLE until the borrower commits.
THEOREM BorrowerHoldsCopyHolds == Spec => []BorrowerHoldsCopy
  <1>1. IInv => BorrowerHoldsCopy
    BY DEF IInv
  <1> QED
    BY <1>1, Invariance, PTL

\* Every copy that is ON_LOAN is out on an open loan, its newest.
THEOREM OnLoanBackedHolds == Spec => []OnLoanBacked
  <1>1. IInv => OnLoanBacked
    BY DEF IInv
  <1> QED
    BY <1>1, Invariance, PTL

\* A loan is only ever made of a copy that was AVAILABLE.
LEMMA LentStep ==
    ASSUME IInv, NEW p \in Procs, Begin(p) \/ Continue(p) \/ Fail(p),
           Len(loans') > Len(loans)
    PROVE  LET c == loans'[Len(loans')].copy IN
           copies[c].status = "AVAILABLE" /\ copies'[c].status = "ON_LOAN"
  <1> USE DEF IInv
  <1>0. loans \in Seq(LoanRow) /\ Len(loans) \in Nat
    BY DEF TypeOK
  <1>1. ASSUME NEW c \in Copies, BorrowCommit(p, c)
        PROVE  LET d == loans'[Len(loans')].copy IN
               copies[d].status = "AVAILABLE" /\ copies'[d].status = "ON_LOAN"
    <2> DEFINE row == NewLoan(c, req[p].member, req[p].dueAt)
    <2>1. loans' = Append(loans, row) /\ row.copy = c
      BY <1>1 DEF BorrowCommit, NewLoan
    <2> HIDE DEF row
    <2>2. loans'[Len(loans')] = row
      BY <1>0, <2>1
    <2>3. copies[c].status = "AVAILABLE"
      BY <1>1, BorrowCommitOwns
    <2>4. copies'[c].status = "ON_LOAN"
      BY <1>1, CopyWritten DEF BorrowCommit, CopyStatus
    <2> QED
      BY <2>1, <2>2, <2>3, <2>4
  <1>2. ASSUME NEW l, NEW row, loans' = [loans EXCEPT ![l] = row] PROVE FALSE
    <2>1. Len(loans') = Len(loans)
      BY <1>0, <1>2
    <2> QED
      BY <1>0, <2>1
  <1>3. UNCHANGED loans => FALSE
    BY <1>0
  <1>4. ~ReturnCommit(p) /\ ~RenewWrite(p) /\ \A e \in req[p].batch : ~MarkOverdue(p, e)
    BY <1>2 DEF ReturnCommit, RenewWrite, MarkOverdue
  <1>5. Continue(p) /\ ~ReturnCommit(p) /\ ~RenewWrite(p)
           /\ (\A e \in req[p].batch : ~MarkOverdue(p, e))
           => \E c \in Copies : BorrowCommit(p, c)
    BY <1>3
    DEF Continue, BorrowLock, BorrowPassOver, BorrowRefused, ReturnReadCopy,
        ReturnUpdateCopy, ReturnConflict, RenewCheckHold, RenewBlocked,
        SweepMark, LockRow, Chosen, PassedOver, RollBack, ReadOn
  <1>6. ~Begin(p)
    BY <1>3 DEF Begin, BorrowSelect, ReturnReadLoan, RenewRead, SweepRead,
       Start, StartRenewal
  <1>7. (\A e \in req[p].batch : ~MarkOverdue(p, e)) => ~Fail(p)
    BY <1>3 DEF Fail, Abort, SweepDies, RollBack
  <1> QED
    BY <1>1, <1>4, <1>5, <1>6, <1>7

\* Two borrowers never get the same copy, however many run at once.
THEOREM LentFromShelfHolds == Spec => LentFromShelf
  <1> DEFINE A == Len(loans') > Len(loans) =>
                    LET c == loans'[Len(loans')].copy IN
                    /\ copies[c].status = "AVAILABLE"
                    /\ copies'[c].status = "ON_LOAN"
  <1>1. IInv /\ [Next]_vars => [A]_vars
    <2> SUFFICES ASSUME IInv, Next, Len(loans') > Len(loans)
                 PROVE  LET c == loans'[Len(loans')].copy IN
                        /\ copies[c].status = "AVAILABLE"
                        /\ copies'[c].status = "ON_LOAN"
      OBVIOUS
    <2>1. ~(Len(loans) > Len(loans))
      BY DEF IInv, TypeOK
    <2>2. ~Environment
      BY <2>1 DEF Environment, PlaceHold, DropHold, Tick
    <2> QED
      BY <2>2, LentStep DEF Next
  <1>2. []IInv /\ [][Next]_vars => [][A]_vars
    BY <1>1, PTL
  <1> QED
    BY <1>2, Invariance DEF Spec, LentFromShelf

\* Nobody wrote the copy between a return's read of its version and its commit.
THEOREM ReturnOnReadVersionHolds == Spec => ReturnOnReadVersion
  <1> DEFINE A == \A p \in Procs : ReturnCommit(p) =>
                    copies[CopyReturned(p)].version = req[p].version
  <1>1. IInv => A
    BY DEF IInv, ReturnerHoldsCopy, ReturnCommit
  <1>2. IInv /\ [Next]_vars => [A]_vars
    BY <1>1
  <1>3. []IInv /\ [][Next]_vars => [][A]_vars
    BY <1>2, PTL
  <1> QED
    BY <1>3, Invariance DEF Spec, ReturnOnReadVersion
-----------------------------------------------------------------------------
\* Who holds a row lock is about to commit, or scans for rows above it: the
\* lower half of ORDER BY "id".
LocksAscend ==
    \A p \in Procs, c \in Copies : lockedBy[c] = p =>
        \/ At(p, "borrow", "commit")
        \/ At(p, "return", "commit")
        \/ At(p, "borrow", "lock") /\ \A d \in req[p].candidates : c < d

\* The rows that are locked: finitely many, since a step locks at most one.
LockedRows == {c \in Copies : lockedBy[c] # Nobody}

WaitInv == LocksAscend /\ IsFiniteSet(LockedRows)

\* A finite set of row ids has a highest one.
LEMMA HighestRow ==
    ASSUME NEW W \in SUBSET Nat, IsFiniteSet(W), W # {}
    PROVE  \E c \in W : \A d \in W : d <= c
  <1> DEFINE Above(c) == {e \in W : e > c}
             F == {Above(c) : c \in W}
  <1>1. SUFFICES ASSUME \A c \in W : \E d \in W : d > c PROVE FALSE
    OBVIOUS
  <1>2. F \subseteq FiniteSubsetsOf(W) /\ F # {}
    <2>1. FiniteSubsetsOf(W) = SUBSET W
      BY FS_FiniteSubsetsOfFinite
    <2>2. F \subseteq SUBSET W /\ F # {}
      OBVIOUS
    <2> QED
      BY <2>1, <2>2
  <1>3. IsWellFoundedOn(StrictSubsetOrdering(W), FiniteSubsetsOf(W))
    BY FS_StrictSubsetOrderingWellFounded
  <1> HIDE DEF F
  <1>4. PICK x \in F : \A y \in F : ~(<<y, x>> \in StrictSubsetOrdering(W))
    BY <1>2, <1>3, WFMin
  <1>5. PICK c \in W : x = Above(c)
    BY <1>4 DEF F
  <1>6. PICK d \in W : d > c
    BY <1>1
  <1>7. Above(d) \subseteq Above(c) /\ d \in Above(c) /\ d \notin Above(d)
    <2>1. c \in Nat /\ d \in Nat /\ ~(d > d)
      OBVIOUS
    <2>2. \A e \in W : e > d => e > c
      BY <1>6
    <2> QED
      BY <1>6, <2>1, <2>2
  <1>8. <<Above(d), x>> \in StrictSubsetOrdering(W)
    BY <1>5, <1>7 DEF StrictSubsetOrdering
  <1>9. Above(d) \in F
    BY DEF F
  <1> QED
    BY <1>4, <1>8, <1>9

\* What a step of p does to the locks: it takes a row, frees its own or leaves
\* them as they are.
LEMMA LocksStep ==
    ASSUME TypeOK, LocksAscend, NEW p \in Procs, Begin(p) \/ Continue(p) \/ Fail(p)
    PROVE  /\ \A q \in Procs : q # p => req'[q] = req[q]
           /\ \/ /\ lockedBy' = lockedBy
                 /\ \A c \in Copies : lockedBy[c] # p
              \/ Finish(p)
              \/ \E c \in Copies : /\ lockedBy[c] = Nobody
                                   /\ lockedBy' = [lockedBy EXCEPT ![c] = p]
                                   /\ \/ At(p, "borrow", "commit")'
                                      \/ At(p, "return", "commit")'
                                      \/ BorrowPassOver(p, c)
  <1> DEFINE Goal == /\ \A q \in Procs : q # p => req'[q] = req[q]
                     /\ \/ /\ lockedBy' = lockedBy
                           /\ \A c \in Copies : lockedBy[c] # p
                        \/ Finish(p)
                        \/ \E c \in Copies : /\ lockedBy[c] = Nobody
                                             /\ lockedBy' = [lockedBy EXCEPT ![c] = p]
                                             /\ \/ At(p, "borrow", "commit")'
                                                \/ At(p, "return", "commit")'
                                                \/ BorrowPassOver(p, c)
  \* Steps of a request that holds no lock and takes none.
  <1>1. ASSUME NEW r, Goto(p, r), UNCHANGED lockedBy,
               req[p].op # "borrow", ~At(p, "return", "commit")
        PROVE  Goal
    BY <1>1, GotoFrame DEF LocksAscend, At
  <1>2. ASSUME Finish(p) PROVE Goal
    BY <1>2, GotoFrame DEF Finish
  <1>3. ASSUME NEW c \in Copies, BorrowLock(p, c) PROVE Goal
    <2>1. At(p, "borrow", "commit")'
      BY <1>3, GotoFrame DEF BorrowLock, LockRow, Chosen, Borrowing, At
    <2> QED
      BY <1>3, <2>1, GotoFrame DEF BorrowLock, LockRow
  <1>4. ASSUME NEW c \in Copies, BorrowPassOver(p, c) PROVE Goal
    <2>1. LockRow(p, c, PassedOver(p, c))
      BY <1>4 DEF BorrowPassOver
    <2> QED
      BY <1>4, <2>1, GotoFrame DEF LockRow
  <1>5. ASSUME ReturnUpdateCopy(p) PROVE Goal
    <2>1. CopyReturned(p) \in Copies
      BY <1>5, CopyReturnedTyped DEF ReturnUpdateCopy, At
    <2>2. At(p, "return", "commit")'
      BY <1>5, GotoFrame DEF ReturnUpdateCopy, LockRow, Returning, At
    <2> QED
      BY <1>5, <2>1, <2>2, GotoFrame DEF ReturnUpdateCopy, LockRow
  <1>6. Begin(p) => Goal
    <2>1. \A r : Start(p, r) => Goal
      BY <1>1 DEF Start, Idle, At
    <2> QED
      BY <2>1 DEF Begin, BorrowSelect, ReturnReadLoan, RenewRead, StartRenewal, SweepRead
  <1>7. ReturnReadCopy(p) \/ RenewCheckHold(p) => Goal
    BY <1>1 DEF ReturnReadCopy, RenewCheckHold, ReadOn, At
  <1>8. \A e : SweepMark(p, e) \/ SweepDies(p, e) => Goal
    BY <1>1 DEF SweepMark, SweepDies, MarkOverdue, At
  <1>9. \/ BorrowRefused(p) \/ ReturnConflict(p) \/ ReturnCommit(p) \/ RenewBlocked(p)
        \/ RenewWrite(p) \/ Abort(p) \/ \E c \in Copies : BorrowCommit(p, c)
        => Finish(p)
    BY DEF BorrowRefused, ReturnConflict, ReturnCommit, RenewBlocked, RenewWrite, Abort,
       BorrowCommit, RollBack
  <1> HIDE DEF Goal
  <1>10. Goal
    BY <1>2, <1>3, <1>4, <1>5, <1>6, <1>7, <1>8, <1>9 DEF Continue, Fail
  <1> QED
    BY <1>10 DEF Goal

\* A row that is passed over is below the ones that are left.
LEMMA ScanAscends ==
    ASSUME TypeOK, LocksAscend, NEW p \in Procs, NEW c \in Copies, BorrowPassOver(p, c),
           NEW d \in Copies, lockedBy'[d] = p
    PROVE  At(p, "borrow", "lock")' /\ \A e \in req'[p].candidates : d < e
  <1>1. /\ req'[p].op = "borrow" /\ req'[p].at = "lock"
        /\ req'[p].candidates = req[p].candidates \ {c}
    BY GotoFrame DEF BorrowPassOver, LockRow, PassedOver, Borrowing
  <1>2. req[p].candidates \subseteq Nat /\ c \in Nat
    <2>1. req[p] \in Request(Len(loans)) /\ Len(loans) \in Nat
      BY DEF TypeOK
    <2> QED
      BY <2>1, RequestFields, LoanServiceAssumption DEF BorrowPassOver, At
  <1>3. \A e \in req[p].candidates : c <= e
    BY DEF BorrowPassOver, Candidate
  <1>4. d = c \/ lockedBy[d] = p
    BY DEF BorrowPassOver, LockRow, TypeOK
  <1>5. lockedBy[d] = p => \A e \in req[p].candidates : d < e
    BY DEF LocksAscend, BorrowPassOver, At
  <1> QED
    BY <1>1, <1>2, <1>3, <1>4, <1>5 DEF At

LEMMA WaitStep == TypeOK /\ WaitInv /\ [Next]_vars => WaitInv'
  <1> SUFFICES ASSUME TypeOK, WaitInv, [Next]_vars PROVE WaitInv'
    OBVIOUS
  <1> USE DEF WaitInv
  <1>1. ASSUME NEW p \in Procs, Begin(p) \/ Continue(p) \/ Fail(p) PROVE WaitInv'
    <2>0. \A q \in Procs : q # p => req'[q] = req[q]
      BY <1>1, LocksStep
    <2> DEFINE Ascends(q, c) == \/ At(q, "borrow", "commit")
                                \/ At(q, "return", "commit")
                                \/ /\ At(q, "borrow", "lock")
                                   /\ \A d \in req[q].candidates : c < d
    <2>1. CASE lockedBy' = lockedBy /\ \A c \in Copies : lockedBy[c] # p
      <3>1. LocksAscend'
        BY <2>0, <2>1 DEF LocksAscend, At
      <3>2. LockedRows' = LockedRows
        BY <2>1 DEF LockedRows
      <3> QED
        BY <3>1, <3>2
    <2>2. CASE Finish(p)
      <3>1. \A c \in Copies : lockedBy'[c] \in {lockedBy[c], Nobody} /\ lockedBy'[c] # p
        BY <2>2, LoanServiceAssumption DEF Finish, Locks, TypeOK
      <3>2. LocksAscend'
        BY <2>0, <3>1, LoanServiceAssumption DEF LocksAscend, At
      <3>3. LockedRows' \subseteq LockedRows
        BY <3>1 DEF LockedRows
      <3> QED
        BY <3>2, <3>3, FS_Subset
    <2>3. ASSUME NEW c \in Copies, lockedBy[c] = Nobody,
                 lockedBy' = [lockedBy EXCEPT ![c] = p],
                 \/ At(p, "borrow", "commit")' \/ At(p, "return", "commit")'
                 \/ BorrowPassOver(p, c)
          PROVE  WaitInv'
      <3>1. \A d \in Copies, q \in Procs : lockedBy'[d] = q /\ q # p => lockedBy[d] = q
        BY <2>3 DEF TypeOK
      <3>2. \A d \in Copies : lockedBy'[d] = p => Ascends(p, d)'
        BY <2>3, ScanAscends
      <3>3. LocksAscend'
        BY <2>0, <3>1, <3>2 DEF LocksAscend, At
      <3>4. LockedRows' \subseteq LockedRows \cup {c}
        BY <2>3 DEF LockedRows, TypeOK
      <3>5. IsFiniteSet(LockedRows \cup {c})
        BY FS_AddElement
      <3> QED
        BY <3>3, <3>4, <3>5, FS_Subset
    <2> QED
      BY <1>1, <2>1, <2>2, <2>3, LocksStep
  <1>2. ASSUME UNCHANGED <<lockedBy, req>> PROVE WaitInv'
    BY <1>2 DEF LocksAscend, LockedRows, At
  <1>3. Environment => UNCHANGED <<lockedBy, req>>
    BY DEF Environment, PlaceHold, DropHold, Tick
  <1> QED
    BY <1>1, <1>2, <1>3 DEF Next, vars

\* Of the requests in a set, the one with the highest lock waits for no other.
LEMMA HighestWaitsForNone == TypeOK /\ WaitInv => NoWaitCycle
  <1> SUFFICES ASSUME TypeOK, WaitInv, NEW S \in (SUBSET Procs) \ {{}},
                      \A p \in S : \E q \in S : WaitsFor(p, q)
               PROVE  FALSE
    BY DEF NoWaitCycle
  <1> DEFINE W == {c \in Copies : lockedBy[c] \in S}
  <1>1. W \subseteq LockedRows
    BY LoanServiceAssumption DEF LockedRows
  <1>2. W \in SUBSET Nat /\ IsFiniteSet(W)
    BY <1>1, FS_Subset, LoanServiceAssumption DEF WaitInv
  <1>3. \A p \in S : \E d \in W : Awaits(p, d)
    BY DEF WaitsFor
  <1>4. PICK c \in W : \A d \in W : d <= c
    <2>1. W # {}
      <3>1. PICK p \in S : TRUE
        OBVIOUS
      <3>2. \E d \in W : Awaits(p, d)
        BY <1>3
      <3> HIDE DEF W
      <3> QED
        BY <3>2
    <2> HIDE DEF W
    <2> QED
      BY <1>2, <2>1, HighestRow
  <1> DEFINE p == lockedBy[c]
  <1>5. PICK d \in W : Awaits(p, d)
    BY <1>3
  <1>6. At(p, "borrow", "lock") /\ Candidate(p, d) /\ \A e \in req[p].candidates : c < e
    BY <1>5 DEF WaitInv, LocksAscend, Awaits, At
  <1>7. c < d /\ d <= c /\ c \in Nat /\ d \in Nat
    BY <1>2, <1>4, <1>6 DEF Candidate
  <1> QED
    BY <1>7

\* Transactions of the loan desk never deadlock: whatever set of requests one
\* looks at, one of them waits for none of the others, because the scan of
\* borrowCopy locks in the order of ids and returns lock one row.
THEOREM NoWaitCycleHolds == Spec => []NoWaitCycle
  <1>1. Init => WaitInv
    <2> SUFFICES ASSUME Init PROVE WaitInv
      OBVIOUS
    <2>1. LocksAscend
      BY LoanServiceAssumption DEF Init, LocksAscend
    <2>2. LockedRows = {}
      BY DEF Init, LockedRows
    <2> QED
      BY <2>1, <2>2, FS_EmptySet DEF WaitInv
  <1> QED
    BY <1>1, TypeCorrect, WaitStep, HighestWaitsForNone, PTL DEF Spec

-----------------------------------------------------------------------------
(***************************************************************************)
(* The service when no two requests work on one loan at a time: what       *)
(* callers who take turns get on top of the row locks, and that it then    *)
(* implements LendingDesk.                                                 *)
(***************************************************************************)

\* What request p has read of its loans is still so, as nobody else works on
\* them.
StillTrue(p) ==
    /\ req[p].op = "return" => Open(req[p].loan)
    /\ req[p].op = "renew" =>
          LET l == req[p].loan IN
          /\ Open(l)
          /\ loans[l].renewalCount < MaxRenewals[loans[l].member]
          /\ req[p].dueAt = loans[l].dueAt + LoanDuration[loans[l].member]
    /\ req[p].op = "sweep" =>
          \A e \in req[p].batch : /\ loans[e.loan].status = "ACTIVE"
                                  /\ loans[e.loan].dueAt = e.dueAt
                                  /\ e.dueAt < now

TurnsTaken == /\ Serialised
              /\ \A p \in Procs : StillTrue(p)

\* The four ways of a loan row when requests take turns.
RowStep(old, new) ==
    \/ new = old
    \/ old.status \in {"ACTIVE", "OVERDUE"} /\ new = Returned(old)
    \/ /\ old.status \in {"ACTIVE", "OVERDUE"}
       /\ old.renewalCount < MaxRenewals[old.member]
       /\ new = Renewed(old, old.dueAt + LoanDuration[old.member])
    \/ /\ old.status = "ACTIVE"
       /\ old.dueAt < now
       /\ new = Overdue(old)

-----------------------------------------------------------------------------
LEMMA ClaimsAre ==
    ASSUME NEW p \in Procs
    PROVE  /\ req[p].op \in {"return", "renew"} => Claims(p) = {req[p].loan}
           /\ req[p].op = "sweep" => Claims(p) = {e.loan : e \in req[p].batch}
           /\ req[p].op \in {"none", "borrow"} => Claims(p) = {}
  BY DEF Claims

LEMMA ClaimsNamed ==
    ASSUME TypeOK, NEW p \in Procs
    PROVE  Claims(p) \subseteq DOMAIN loans
  <1>1. req[p] \in Request(Len(loans)) /\ Len(loans) \in Nat /\ loans \in Seq(LoanRow)
    BY DEF TypeOK
  <1>2. req[p].op \in {"none", "borrow", "return", "renew", "sweep"}
    BY <1>1, RequestFields
  <1>3. CASE req[p].op \in {"none", "borrow"}
    BY <1>3, ClaimsAre
  <1>4. CASE req[p].op = "return"
    BY <1>4, ClaimsAre, CopyReturnedTyped
  <1>5. CASE req[p].op = "renew"
    BY <1>5, ClaimsAre, LoanNamed
  <1>6. CASE req[p].op = "sweep"
    BY <1>6, ClaimsAre, LoanNamed
  <1> QED
    BY <1>2, <1>3, <1>4, <1>5, <1>6

\* What p read stays so while p stands still and its loans do.
LEMMA StillKept ==
    ASSUME TypeOK, NEW p \in Procs, StillTrue(p), req'[p] = req[p],
           now' \in Nat, now <= now',
           \A l \in Claims(p) : loans'[l] = loans[l]
    PROVE  StillTrue(p)'
  <1>1. ASSUME req[p].op = "return"
        PROVE  loans'[req[p].loan].status \in {"ACTIVE", "OVERDUE"}
    <2>1. loans'[req[p].loan] = loans[req[p].loan]
      BY <1>1, ClaimsAre
    <2> QED
      BY <1>1, <2>1 DEF StillTrue, Open
  <1>2. ASSUME req[p].op = "renew"
        PROVE  /\ loans'[req[p].loan].status \in {"ACTIVE", "OVERDUE"}
               /\ loans'[req[p].loan].renewalCount
                     < MaxRenewals[loans'[req[p].loan].member]
               /\ req[p].dueAt = loans'[req[p].loan].dueAt
                                   + LoanDuration[loans'[req[p].loan].member]
    <2>1. loans'[req[p].loan] = loans[req[p].loan]
      BY <1>2, ClaimsAre
    <2> QED
      BY <1>2, <2>1 DEF StillTrue, Open
  <1>3. ASSUME req[p].op = "sweep", NEW e \in req[p].batch
        PROVE  /\ loans'[e.loan].status = "ACTIVE"
               /\ loans'[e.loan].dueAt = e.dueAt
               /\ e.dueAt < now'
    <2>1. loans'[e.loan] = loans[e.loan]
      BY <1>3, ClaimsAre
    <2>2. loans[e.loan].status = "ACTIVE" /\ loans[e.loan].dueAt = e.dueAt /\ e.dueAt < now
      BY <1>3 DEF StillTrue
    <2>3. e.dueAt \in Nat /\ now \in Nat
      <3>1. req[p] \in Request(Len(loans)) /\ Len(loans) \in Nat /\ now \in Nat
        BY DEF TypeOK
      <3> QED
        BY <1>3, <3>1, RequestFields DEF OverdueEvent
    <2> QED
      BY <2>1, <2>2, <2>3
  <1> QED
    BY <1>1, <1>2, <1>3 DEF StillTrue, Open

-----------------------------------------------------------------------------
\* How a request that begins or goes on writes the loans: only rows it claims,
\* each in one of the four ways; what it adds is a fresh ACTIVE loan.
LoansMove(p) ==
    /\ now' = now
    /\ \A l \in DOMAIN loans :
          /\ l \in DOMAIN loans'
          /\ l \notin Claims(p) => loans'[l] = loans[l]
          /\ RowStep(loans[l], loans'[l])
    /\ \A l \in DOMAIN loans' \ DOMAIN loans :
          loans'[l].status = "ACTIVE" /\ loans'[l].renewalCount = 0

LEMMA LoansStill ==
    ASSUME TypeOK, NEW p \in Procs, UNCHANGED <<loans, now>>
    PROVE  LoansMove(p)
  BY DEF LoansMove, RowStep

\* A step that writes one row that p claims.
LEMMA OneRowMoves ==
    ASSUME TypeOK, NEW p \in Procs, NEW l \in Claims(p), NEW row \in LoanRow,
           row.copy = loans[l].copy, RowStep(loans[l], row),
           loans' = [loans EXCEPT ![l] = row], now' = now
    PROVE  LoansMove(p)
  <1>1. l \in DOMAIN loans
    BY ClaimsNamed
  <1>2. /\ DOMAIN loans' = DOMAIN loans
        /\ loans'[l] = row
        /\ \A k \in DOMAIN loans : k # l => loans'[k] = loans[k]
    BY <1>1, LoanWritten
  <1>3. \A k \in DOMAIN loans : RowStep(loans[k], loans'[k])
    BY <1>2 DEF RowStep
  <1> QED
    BY <1>2, <1>3 DEF LoansMove

LEMMA LoanAppended ==
    ASSUME TypeOK, NEW p \in Procs, NEW row,
           row.status = "ACTIVE", row.renewalCount = 0,
           loans' = Append(loans, row), now' = now
    PROVE  LoansMove(p)
  <1>1. loans \in Seq(LoanRow) /\ Len(loans) \in Nat
    BY DEF TypeOK
  <1>2. /\ DOMAIN loans' = 1 .. (Len(loans) + 1)
        /\ DOMAIN loans = 1 .. Len(loans)
        /\ loans'[Len(loans) + 1] = row
        /\ \A k \in DOMAIN loans : loans'[k] = loans[k]
    BY <1>1
  <1>3. \A k \in DOMAIN loans' \ DOMAIN loans : k = Len(loans) + 1
    BY <1>1, <1>2
  <1>4. \A k \in DOMAIN loans : k \in DOMAIN loans'
    BY <1>1, <1>2
  <1> QED
    BY <1>2, <1>3, <1>4 DEF LoansMove, RowStep

LEMMA LoansStep ==
    ASSUME TypeOK, NEW p \in Procs, StillTrue(p), Begin(p) \/ Continue(p) \/ Fail(p)
    PROVE  LoansMove(p)
  <1>0. loans \in Seq(LoanRow) /\ Len(loans) \in Nat
    BY DEF TypeOK
  <1>1. ASSUME NEW c \in Copies, BorrowCommit(p, c) PROVE LoansMove(p)
    <2> DEFINE row == NewLoan(c, req[p].member, req[p].dueAt)
    <2>1. loans' = Append(loans, row) /\ now' = now
      BY <1>1 DEF BorrowCommit
    <2>2. row.status = "ACTIVE" /\ row.renewalCount = 0
      BY DEF NewLoan
    <2> HIDE DEF row
    <2> QED
      BY <2>1, <2>2, LoanAppended
  <1>2. ASSUME ReturnCommit(p) PROVE LoansMove(p)
    <2> DEFINE l == req[p].loan
               row == Returned(loans[l])
    <2>1. req[p].op = "return"
      BY <1>2 DEF ReturnCommit, At
    <2>2. l \in DOMAIN loans /\ l \in Claims(p)
      BY <2>1, CopyReturnedTyped, ClaimsAre
    <2>3. row \in LoanRow /\ row.copy = loans[l].copy
      BY <1>0, <2>2, LoanRows
    <2>4. RowStep(loans[l], row)
      BY <2>1 DEF StillTrue, Open, RowStep
    <2>5. loans' = [loans EXCEPT ![l] = row] /\ now' = now
      BY <1>2 DEF ReturnCommit
    <2> HIDE DEF row
    <2> QED
      BY <2>2, <2>3, <2>4, <2>5, OneRowMoves
  <1>3. ASSUME RenewWrite(p) PROVE LoansMove(p)
    <2> DEFINE l == req[p].loan
               row == Renewed(loans[l], req[p].dueAt)
    <2>1. req[p].op = "renew"
      BY <1>3 DEF RenewWrite, At
    <2>2. l \in DOMAIN loans /\ l \in Claims(p) /\ req[p].dueAt \in Nat
      BY <2>1, LoanNamed, ClaimsAre
    <2>3. row \in LoanRow /\ row.copy = loans[l].copy
      <3>1. loans[l] \in LoanRow
        BY <1>0, <2>2
      <3> QED
        BY <2>2, <3>1, LoanRows
    <2>4. RowStep(loans[l], row)
      BY <2>1 DEF StillTrue, Open, RowStep
    <2>5. loans' = [loans EXCEPT ![l] = row] /\ now' = now
      BY <1>3 DEF RenewWrite
    <2> HIDE DEF row
    <2> QED
      BY <2>2, <2>3, <2>4, <2>5, OneRowMoves
  <1>4. ASSUME NEW e \in req[p].batch, MarkOverdue(p, e) PROVE LoansMove(p)
    <2> DEFINE row == Overdue(loans[e.loan])
    <2>1. req[p].op = "sweep"
      BY <1>4 DEF MarkOverdue, At
    <2>2. e.loan \in DOMAIN loans /\ e.loan \in Claims(p)
      BY <2>1, LoanNamed, ClaimsAre
    <2>3. row \in LoanRow /\ row.copy = loans[e.loan].copy
      BY <1>0, <2>2, LoanRows
    <2>4. RowStep(loans[e.loan], row)
      BY <2>1 DEF StillTrue, RowStep
    <2>5. loans' = [loans EXCEPT ![e.loan] = row] /\ now' = now
      BY <1>4 DEF MarkOverdue
    <2> HIDE DEF row
    <2> QED
      BY <2>2, <2>3, <2>4, <2>5, OneRowMoves
  <1>5. Begin(p) => UNCHANGED <<loans, now>>
    BY DEF Begin, BorrowSelect, ReturnReadLoan, RenewRead, StartRenewal, SweepRead, Start
  <1>6. \/ BorrowRefused(p) \/ ReturnReadCopy(p) \/ ReturnUpdateCopy(p) \/ ReturnConflict(p)
        \/ RenewCheckHold(p) \/ RenewBlocked(p) \/ Abort(p)
        \/ \E c \in Copies : BorrowLock(p, c) \/ BorrowPassOver(p, c)
        => UNCHANGED <<loans, now>>
    BY DEF BorrowRefused, ReturnReadCopy, ReturnUpdateCopy, ReturnConflict, RenewCheckHold,
       RenewBlocked, Abort, BorrowLock, BorrowPassOver, RollBack, ReadOn, LockRow
  <1> QED
    BY <1>1, <1>2, <1>3, <1>4, <1>5, <1>6, LoansStill
    DEF Continue, Fail, SweepMark, SweepDies

-----------------------------------------------------------------------------
\* What a request has read when it begins is so.
LEMMA BeginsTrue ==
    ASSUME TypeOK, NEW p \in Procs, Begin(p)
    PROVE  StillTrue(p)'
  <1>0. loans \in Seq(LoanRow) /\ UNCHANGED <<loans, now>>
    BY DEF TypeOK, Begin, BorrowSelect, ReturnReadLoan, RenewRead, StartRenewal, SweepRead,
       Start
  <1>1. ASSUME NEW r, Start(p, r) PROVE req'[p] = r
    BY <1>1, GotoFrame DEF Start
  <1>2. ASSUME NEW b \in Books, NEW m \in Members, NEW d, BorrowSelect(p, b, m, d)
        PROVE  StillTrue(p)'
    <2>1. req'[p].op = "borrow"
      BY <1>1, <1>2 DEF BorrowSelect, Borrowing
    <2> QED
      BY <2>1 DEF StillTrue
  <1>3. ASSUME NEW l \in DOMAIN loans, ReturnReadLoan(p, l) PROVE StillTrue(p)'
    <2>1. req'[p] = Returning("readCopy", l, 0)
      BY <1>1, <1>3 DEF ReturnReadLoan
    <2>2. loans[l].status \in LoanStatus
      <3>1. loans[l] \in LoanRow
        BY <1>0
      <3> QED
        BY <3>1 DEF LoanRow
    <2>3. loans[l].status \in {"ACTIVE", "OVERDUE"}
      BY <1>3, <2>2 DEF ReturnReadLoan, IsLegal, LoanTransitions, LoanStatus
    <2> QED
      BY <1>0, <2>1, <2>3 DEF StillTrue, Open, Returning
  <1>4. ASSUME NEW l \in DOMAIN loans, RenewRead(p, l) PROVE StillTrue(p)'
    <2>1. req'[p] = Renewing("checkHold", l, loans[l].dueAt + LoanDuration[loans[l].member])
      BY <1>1, <1>4 DEF RenewRead, StartRenewal
    <2> QED
      BY <1>0, <1>4, <2>1 DEF StillTrue, RenewRead, Open, Renewing
  <1>5. ASSUME SweepRead(p) PROVE StillTrue(p)'
    <2> DEFINE es == {[loan |-> l, dueAt |-> loans[l].dueAt] : l \in {k \in DOMAIN loans : Late(k)}}
    <2>1. req'[p] = Sweeping(es)
      BY <1>1, <1>5 DEF SweepRead
    <2>2. \A e \in es : /\ loans[e.loan].status = "ACTIVE"
                        /\ loans[e.loan].dueAt = e.dueAt
                        /\ e.dueAt < now
      BY DEF Late
    <2> HIDE DEF es
    <2> QED
      BY <1>0, <2>1, <2>2 DEF StillTrue, Sweeping
  <1> QED
    BY <1>2, <1>3, <1>4, <1>5 DEF Begin

\* A request that goes on, or is cut short, claims no more than before, and
\* what it read of what it still claims is so.
LEMMA GoesOnTrue ==
    ASSUME TypeOK, NEW p \in Procs, StillTrue(p), Continue(p) \/ Fail(p)
    PROVE  StillTrue(p)' /\ Claims(p)' \subseteq Claims(p)
  <1> DEFINE Goal == StillTrue(p)' /\ Claims(p)' \subseteq Claims(p)
  <1>1. ASSUME req'[p] = Idle PROVE Goal
    BY <1>1 DEF StillTrue, Claims, Idle
  <1>2. ASSUME NEW at, NEW m, NEW d, NEW cs, req'[p] = Borrowing(at, m, d, cs) PROVE Goal
    BY <1>2 DEF StillTrue, Claims, Borrowing
  <1>3. ASSUME req[p].op = "return", NEW at, NEW v, UNCHANGED loans,
               req'[p] = Returning(at, req[p].loan, v)
        PROVE  Goal
    BY <1>3 DEF StillTrue, Claims, Returning, Open
  <1>4. ASSUME RenewCheckHold(p) PROVE Goal
    <2>1. req'[p] = Renewing("write", req[p].loan, req[p].dueAt) /\ UNCHANGED loans
      BY <1>4, GotoFrame DEF RenewCheckHold, ReadOn
    <2>2. req[p].op = "renew"
      BY <1>4 DEF RenewCheckHold, At
    <2> QED
      BY <2>1, <2>2 DEF StillTrue, Claims, Renewing, Open
  <1>5. ASSUME NEW e \in req[p].batch, MarkOverdue(p, e),
               Goto(p, Sweeping(req[p].batch \ {e}))
        PROVE  Goal
    <2>1. req'[p] = Sweeping(req[p].batch \ {e}) /\ now' = now
      BY <1>5, GotoFrame DEF MarkOverdue
    <2>2. req[p].op = "sweep" /\ loans' = [loans EXCEPT ![e.loan] = Overdue(@)]
      BY <1>5 DEF MarkOverdue, At
    <2>3. req[p].batch \subseteq OverdueEvent(Len(loans))
      BY <2>2, RequestFields DEF TypeOK
    <2>4. ASSUME NEW f \in req[p].batch, f # e
          PROVE  f.loan # e.loan /\ loans'[f.loan] = loans[f.loan]
      <3>1. loans[f.loan].dueAt = f.dueAt /\ loans[e.loan].dueAt = e.dueAt
        BY <2>2 DEF StillTrue
      <3>2. f.loan # e.loan
        BY <2>3, <2>4, <3>1 DEF OverdueEvent
      <3>3. f.loan \in DOMAIN loans
        BY <2>2, LoanNamed
      <3> QED
        BY <2>2, <3>2, <3>3 DEF TypeOK
    <2>5. StillTrue(p)'
      BY <2>1, <2>2, <2>4 DEF StillTrue, Sweeping
    <2>6. Claims(p)' \subseteq Claims(p)
      BY <2>1, <2>2 DEF Claims, Sweeping
    <2> QED
      BY <2>5, <2>6
  <1>6. ASSUME NEW e \in req[p].batch, SweepMark(p, e) \/ SweepDies(p, e) PROVE Goal
    <2>1. \/ Goto(p, Idle)
          \/ MarkOverdue(p, e) /\ Goto(p, Sweeping(req[p].batch \ {e}))
      BY <1>6 DEF SweepMark, SweepDies
    <2> QED
      BY <1>1, <1>5, <2>1, GotoFrame
  <1>7. \/ BorrowRefused(p) \/ ReturnConflict(p) \/ ReturnCommit(p) \/ RenewBlocked(p)
        \/ RenewWrite(p) \/ Abort(p) \/ \E c \in Copies : BorrowCommit(p, c)
        => req'[p] = Idle
    BY FinishFrame DEF BorrowRefused, ReturnConflict, ReturnCommit, RenewBlocked, RenewWrite,
       Abort, BorrowCommit, RollBack
  <1>8. ASSUME NEW c \in Copies, BorrowLock(p, c) \/ BorrowPassOver(p, c) PROVE Goal
    BY <1>2, <1>8, GotoFrame DEF BorrowLock, BorrowPassOver, LockRow, Chosen, PassedOver
  <1>9. ASSUME ReturnReadCopy(p) \/ ReturnUpdateCopy(p) PROVE Goal
    BY <1>3, <1>9, GotoFrame DEF ReturnReadCopy, ReturnUpdateCopy, ReadOn, LockRow, At
  <1> HIDE DEF Goal
  <1>10. Goal
    BY <1>1, <1>4, <1>6, <1>7, <1>8, <1>9 DEF Continue, Fail
  <1> QED
    BY <1>10 DEF Goal

\* A step of one request moves no other.
LEMMA OthersStand ==
    ASSUME TypeOK, NEW p \in Procs, Begin(p) \/ Continue(p) \/ Fail(p)
    PROVE  \A q \in Procs : q # p => req'[q] = req[q]
  <1>1. \A r : Goto(p, r) => \A q \in Procs : q # p => req'[q] = req[q]
    BY GotoFrame
  <1>2. Begin(p) => \E r : Goto(p, r)
    BY DEF Begin, BorrowSelect, ReturnReadLoan, RenewRead, StartRenewal, SweepRead, Start
  <1>3. Continue(p) => \E r : Goto(p, r)
    BY DEF Continue, BorrowLock, BorrowPassOver, BorrowRefused, BorrowCommit, ReturnReadCopy,
       ReturnUpdateCopy, ReturnConflict, ReturnCommit, RenewCheckHold, RenewBlocked,
       RenewWrite, SweepMark, RollBack, ReadOn, LockRow, Finish
  <1>4. Fail(p) => \E r : Goto(p, r)
    BY DEF Fail, Abort, SweepDies, RollBack, Finish
  <1> QED
    BY <1>1, <1>2, <1>3, <1>4

\* The rest of the world writes no loan and the clock does not go back.
LEMMA ClockAscends ==
    TypeOK /\ (Environment \/ UNCHANGED vars) => UNCHANGED <<loans, req>> /\ now <= now'
  <1> SUFFICES ASSUME TypeOK, Environment \/ UNCHANGED vars
               PROVE  UNCHANGED <<loans, req>> /\ now <= now'
    OBVIOUS
  <1>0. now \in Nat
    BY DEF TypeOK
  <1>1. Tick => UNCHANGED <<loans, req>> /\ now <= now'
    BY <1>0 DEF Tick
  <1>2. \A b, m : PlaceHold(b, m) \/ DropHold(b, m) => UNCHANGED <<loans, req, now>>
    BY DEF PlaceHold, DropHold
  <1>3. UNCHANGED vars => UNCHANGED <<loans, req, now>>
    BY DEF vars
  <1> QED
    BY <1>0, <1>1, <1>2, <1>3 DEF Environment

\* Requests that take turns go on taking turns.
LEMMA TurnsStep ==
    ASSUME TypeOK, TypeOK', TurnsTaken, [SerialNext]_vars
    PROVE  TurnsTaken'
  <1> USE DEF TurnsTaken
  <1>0. now \in Nat /\ now' \in Nat
    BY DEF TypeOK
  <1>1. ASSUME NEW p \in Procs, \/ Begin(p) /\ Serialised'
                                \/ Continue(p) \/ Fail(p)
        PROVE  TurnsTaken'
    <2>1. \A q \in Procs : q # p => req'[q] = req[q]
      BY <1>1, OthersStand
    <2>2. LoansMove(p)
      BY <1>1, LoansStep
    <2>3. ASSUME NEW q \in Procs, q # p PROVE StillTrue(q)'
      <3>1. Claims(q) \subseteq DOMAIN loans /\ Claims(p) \cap Claims(q) = {}
        BY <2>3, ClaimsNamed DEF Serialised
      <3>2. \A l \in Claims(q) : loans'[l] = loans[l]
        BY <2>2, <3>1 DEF LoansMove
      <3> QED
        BY <1>0, <2>1, <2>2, <2>3, <3>2, StillKept DEF LoansMove
    <2>4. StillTrue(p)'
      BY <1>1, BeginsTrue, GoesOnTrue
    <2>5. Serialised'
      <3>1. \A q \in Procs : q # p => Claims(q)' = Claims(q)
        BY <2>1 DEF Claims
      <3>2. CASE Continue(p) \/ Fail(p)
        <4>1. Claims(p)' \subseteq Claims(p)
          BY <3>2, GoesOnTrue
        <4> QED
          BY <3>1, <4>1 DEF Serialised
      <3> QED
        BY <1>1, <3>2
    <2> QED
      BY <2>3, <2>4, <2>5
  <1>2. ASSUME UNCHANGED <<loans, req>>, now <= now' PROVE TurnsTaken'
    <2>1. \A p \in Procs : StillTrue(p)'
      BY <1>0, <1>2, StillKept
    <2>2. Serialised'
      BY <1>2 DEF Serialised, Claims
    <2> QED
      BY <2>1, <2>2
  <1> QED
    BY <1>1, <1>2, ClockAscends DEF SerialNext

-----------------------------------------------------------------------------
\* The inductive invariant of SerialSpec.
SerialInv == /\ IInv
             /\ TurnsTaken
             /\ RenewalCap
             /\ OverdueIsLate

\* What RowStep says of the fields the properties are about.
LEMMA RowStepFields ==
    ASSUME NEW old \in LoanRow, NEW new, RowStep(old, new)
    PROVE  /\ new.copy = old.copy /\ new.member = old.member
           /\ \/ new = old
              \/ /\ old.status \in {"ACTIVE", "OVERDUE"} /\ new.status = "RETURNED"
                 /\ new.renewalCount = old.renewalCount /\ new.dueAt = old.dueAt
              \/ /\ old.status \in {"ACTIVE", "OVERDUE"} /\ new.status = "ACTIVE"
                 /\ old.renewalCount < MaxRenewals[old.member]
                 /\ new.renewalCount = old.renewalCount + 1
                 /\ new.dueAt = old.dueAt + LoanDuration[old.member]
              \/ /\ old.status = "ACTIVE" /\ new.status = "OVERDUE"
                 /\ new.renewalCount = old.renewalCount /\ new.dueAt = old.dueAt
                 /\ old.dueAt < now
  <1>1. CASE new = old
    BY <1>1
  <1>2. CASE old.status \in {"ACTIVE", "OVERDUE"} /\ new = Returned(old)
    BY <1>2 DEF Returned, LoanRow
  <1>3. CASE /\ old.status \in {"ACTIVE", "OVERDUE"}
             /\ old.renewalCount < MaxRenewals[old.member]
             /\ new = Renewed(old, old.dueAt + LoanDuration[old.member])
    BY <1>3 DEF Renewed, LoanRow
  <1>4. CASE old.status = "ACTIVE" /\ old.dueAt < now /\ new = Overdue(old)
    BY <1>4 DEF Overdue, LoanRow
  <1> QED
    BY <1>1, <1>2, <1>3, <1>4 DEF RowStep

\* A row that moves keeps within the cap and is late when it is OVERDUE.
LEMMA RowsKeptInOrder ==
    ASSUME TypeOK, TypeOK', RenewalCap, OverdueIsLate, NEW p \in Procs, LoansMove(p)
    PROVE  RenewalCap' /\ OverdueIsLate'
  <1>0. /\ \A l \in DOMAIN loans : loans[l] \in LoanRow
        /\ \A l \in DOMAIN loans' : loans'[l] \in LoanRow
        /\ now' = now
    BY DEF TypeOK, LoansMove
  <1>1. ASSUME NEW l \in DOMAIN loans', l \notin DOMAIN loans
        PROVE  /\ loans'[l].renewalCount <= MaxRenewals[loans'[l].member]
               /\ loans'[l].status # "OVERDUE"
    <2>1. loans'[l].renewalCount = 0 /\ loans'[l].status = "ACTIVE"
      BY <1>1 DEF LoansMove
    <2>2. MaxRenewals[loans'[l].member] \in Nat
      <3>1. loans'[l] \in LoanRow
        BY <1>0
      <3> QED
        BY <3>1, LoanServiceAssumption DEF LoanRow
    <2> QED
      BY <2>1, <2>2
  <1>2. ASSUME NEW l \in DOMAIN loans
        PROVE  /\ loans'[l].renewalCount <= MaxRenewals[loans'[l].member]
               /\ loans'[l].status = "OVERDUE" => loans'[l].dueAt < now
    <2> DEFINE old == loans[l]
               new == loans'[l]
    <2>1. old \in LoanRow /\ RowStep(old, new)
      BY <1>0 DEF LoansMove
    <2>2. old.renewalCount \in Nat /\ MaxRenewals[old.member] \in Nat
      BY <2>1, LoanServiceAssumption DEF LoanRow
    <2>3. /\ old.renewalCount <= MaxRenewals[old.member]
          /\ old.status = "OVERDUE" => old.dueAt < now
      BY DEF RenewalCap, OverdueIsLate
    <2> HIDE DEF old, new
    <2>4. /\ new.renewalCount <= MaxRenewals[new.member]
          /\ new.status = "OVERDUE" => new.dueAt < now
      BY <2>1, <2>2, <2>3, RowStepFields
    <2> QED
      BY <2>4 DEF new
  <1> QED
    BY <1>0, <1>1, <1>2 DEF RenewalCap, OverdueIsLate

LEMMA SerialIsNext == [SerialNext]_vars => [Next]_vars
  BY DEF SerialNext, Next

LEMMA SerialInit == Init => SerialInv
  <1> SUFFICES ASSUME Init PROVE SerialInv
    OBVIOUS
  <1>1. \A p \in Procs : req[p] = Idle
    BY DEF Init
  <1>2. TurnsTaken
    BY <1>1 DEF TurnsTaken, Serialised, Claims, StillTrue, Idle
  <1>3. DOMAIN loans = {}
    BY DEF Init
  <1> QED
    BY <1>2, <1>3, InvInit DEF SerialInv, RenewalCap, OverdueIsLate

LEMMA SerialStep == SerialInv /\ [SerialNext]_vars => SerialInv'
  <1> SUFFICES ASSUME SerialInv, [SerialNext]_vars PROVE SerialInv'
    OBVIOUS
  <1> USE DEF SerialInv
  <1>1. IInv' /\ TypeOK /\ TypeOK'
    BY SerialIsNext, InvStep DEF IInv
  <1>2. TurnsTaken'
    BY <1>1, TurnsStep
  <1>3. ASSUME NEW p \in Procs, Begin(p) \/ Continue(p) \/ Fail(p)
        PROVE  RenewalCap' /\ OverdueIsLate'
    BY <1>1, <1>3, LoansStep, RowsKeptInOrder DEF TurnsTaken
  <1>4. ASSUME UNCHANGED loans, now <= now' PROVE RenewalCap' /\ OverdueIsLate'
    <2>1. RenewalCap'
      BY <1>4 DEF RenewalCap
    <2>2. ASSUME NEW l \in DOMAIN loans, loans[l].status = "OVERDUE"
          PROVE  loans[l].dueAt < now'
      <3>1. loans[l] \in LoanRow /\ now \in Nat /\ now' \in Nat
        BY <1>1 DEF TypeOK
      <3>2. loans[l].dueAt \in Nat
        BY <3>1 DEF LoanRow
      <3>3. loans[l].dueAt < now
        BY <2>2 DEF OverdueIsLate
      <3> QED
        BY <1>4, <3>1, <3>2, <3>3
    <2> QED
      BY <1>4, <2>1, <2>2 DEF OverdueIsLate
  <1>5. Environment \/ UNCHANGED vars => UNCHANGED loans /\ now <= now'
    BY <1>1, ClockAscends
  <1> QED
    BY <1>1, <1>2, <1>3, <1>4, <1>5 DEF SerialNext

THEOREM SerialInvariance == SerialSpec => []SerialInv
  <1> QED
    BY SerialInit, SerialStep, PTL DEF SerialSpec

\* Requests that take turns never renew a loan beyond the member's cap: the
\* count that renewLoan checked is the count its UPDATE increments.
THEOREM RenewalCapHolds == SerialSpec => []RenewalCap
  <1>1. SerialInv => RenewalCap
    BY DEF SerialInv
  <1> QED
    BY <1>1, SerialInvariance, PTL

\* The sweep's mark never lands on a loan that was renewed since it was read.
THEOREM OverdueIsLateHolds == SerialSpec => []OverdueIsLate
  <1>1. SerialInv => OverdueIsLate
    BY DEF SerialInv
  <1> QED
    BY <1>1, SerialInvariance, PTL

\* The status of a loan only moves as LOAN_TRANSITIONS allows, or from OVERDUE
\* back to ACTIVE by a renewal.
THEOREM LoanMovesLegalHolds == SerialSpec => LoanMovesLegal
  <1> DEFINE Legal(l) == loans'[l].status # loans[l].status =>
                 \/ IsLegal(LoanTransitions, loans[l].status, loans'[l].status)
                 \/ loans[l].status = "OVERDUE" /\ loans'[l].status = "ACTIVE"
             A == \A l \in DOMAIN loans : Legal(l)
  <1>1. SerialInv /\ [SerialNext]_vars => [A]_vars
    <2> SUFFICES ASSUME SerialInv, SerialNext, NEW l \in DOMAIN loans PROVE Legal(l)
      OBVIOUS
    <2>1. ASSUME NEW p \in Procs, Begin(p) \/ Continue(p) \/ Fail(p) PROVE Legal(l)
      <3>1. loans[l] \in LoanRow /\ RowStep(loans[l], loans'[l])
        BY <2>1, LoansStep DEF SerialInv, IInv, TypeOK, TurnsTaken, LoansMove
      <3> QED
        BY <3>1, RowStepFields DEF IsLegal, LoanTransitions
    <2>2. UNCHANGED loans => Legal(l)
      OBVIOUS
    <2> QED
      BY <2>1, <2>2, ClockAscends DEF SerialNext, SerialInv, IInv
  <1>2. []SerialInv /\ [][SerialNext]_vars => [][A]_vars
    BY <1>1, PTL
  <1> QED
    BY <1>2, SerialInvariance DEF SerialSpec, LoanMovesLegal

-----------------------------------------------------------------------------
\* A due date that was announced as passed is behind its loan: the loan has a
\* later one by now, or is no longer ACTIVE.
ToldOf(e, ls) ==
    \/ e.dueAt < ls[e.loan].dueAt
    \/ e.dueAt = ls[e.loan].dueAt /\ ls[e.loan].status # "ACTIVE"

NoticeInv == /\ \A i \in DOMAIN events : ToldOf(events[i], loans)
             /\ EachNoticeOnce

\* However its row moves, a loan stays ahead of what was told of it.
LEMMA ToldKept ==
    ASSUME TypeOK, NEW e \in OverdueEvent(Len(loans)), ToldOf(e, loans),
           RowStep(loans[e.loan], loans'[e.loan])
    PROVE  ToldOf(e, loans')
  <1> DEFINE old == loans[e.loan]
             new == loans'[e.loan]
  <1>1. old \in LoanRow /\ e.dueAt \in Nat
    BY DEF TypeOK, OverdueEvent
  <1>2. old.dueAt \in Nat /\ LoanDuration[old.member] \in Nat /\ LoanDuration[old.member] > 0
    BY <1>1, LoanServiceAssumption, LoanPolicyAssumption DEF LoanRow
  <1>3. \/ e.dueAt < old.dueAt
        \/ e.dueAt = old.dueAt /\ old.status # "ACTIVE"
    BY DEF ToldOf
  <1>4. RowStep(old, new)
    OBVIOUS
  <1> HIDE DEF old, new
  <1>5. \/ e.dueAt < new.dueAt
        \/ e.dueAt = new.dueAt /\ new.status # "ACTIVE"
    BY <1>1, <1>2, <1>3, <1>4, RowStepFields
  <1> QED
    BY <1>5 DEF ToldOf, new

\* What is announced is news, and told from then on.
LEMMA Announced ==
    ASSUME TypeOK, TypeOK', TurnsTaken, NoticeInv, NEW p \in Procs, NEW e \in req[p].batch,
           SweepMark(p, e)
    PROVE  NoticeInv'
  <1>1. /\ events \in Seq(OverdueEvent(Len(loans))) /\ Len(events) \in Nat
        /\ events' = Append(events, e) /\ req[p].op = "sweep"
        /\ loans' = [loans EXCEPT ![e.loan] = Overdue(@)]
    BY DEF TypeOK, SweepMark, MarkOverdue, At
  <1>2. /\ DOMAIN events' = 1 .. (Len(events) + 1)
        /\ DOMAIN events = 1 .. Len(events)
        /\ events'[Len(events) + 1] = e
        /\ \A i \in DOMAIN events : events'[i] = events[i]
    BY <1>1
  <1>3. loans[e.loan].status = "ACTIVE" /\ loans[e.loan].dueAt = e.dueAt
    BY <1>1 DEF TurnsTaken, StillTrue
  <1>4. e \in OverdueEvent(Len(loans)) /\ e.loan \in DOMAIN loans /\ loans[e.loan] \in LoanRow
    <2>1. req[p].batch \subseteq OverdueEvent(Len(loans))
      BY <1>1, RequestFields DEF TypeOK
    <2> QED
      BY <1>1, <2>1, LoanNamed DEF TypeOK
  <1>5. loans'[e.loan] = Overdue(loans[e.loan])
    BY <1>1, <1>4 DEF TypeOK
  <1>6. ToldOf(e, loans')
    BY <1>3, <1>4, <1>5 DEF ToldOf, Overdue, LoanRow
  <1>7. \A i \in DOMAIN events : events[i] # e
    <2> SUFFICES ASSUME NEW i \in DOMAIN events, events[i] = e PROVE FALSE
      OBVIOUS
    <2>1. ToldOf(e, loans)
      BY DEF NoticeInv
    <2>2. e.dueAt \in Nat
      BY <1>4 DEF OverdueEvent
    <2> QED
      BY <1>3, <2>1, <2>2 DEF ToldOf
  <1>8. ASSUME NEW i \in DOMAIN events PROVE ToldOf(events'[i], loans')
    <2>1. events[i] \in OverdueEvent(Len(loans)) /\ ToldOf(events[i], loans)
      BY <1>1 DEF NoticeInv
    <2>2. RowStep(loans[events[i].loan], loans'[events[i].loan])
      <3>1. events[i].loan \in DOMAIN loans
        BY <2>1 DEF OverdueEvent, TypeOK
      <3>2. LoansMove(p)
        BY LoansStep DEF TurnsTaken, Continue, SweepMark, MarkOverdue, At
      <3> QED
        BY <3>1, <3>2 DEF LoansMove
    <2> QED
      BY <1>2, <2>1, <2>2, ToldKept
  <1>9. \A i \in DOMAIN events' : i \in DOMAIN events \/ i = Len(events) + 1
    BY <1>1, <1>2
  <1>10. \A i \in DOMAIN events' : ToldOf(events'[i], loans')
    BY <1>2, <1>6, <1>8, <1>9
  <1>11. \A i, j \in DOMAIN events' : i # j => events'[i] # events'[j]
    BY <1>2, <1>7, <1>9 DEF NoticeInv, EachNoticeOnce
  <1> QED
    BY <1>10, <1>11 DEF NoticeInv, EachNoticeOnce

LEMMA NoticeStep == SerialInv /\ NoticeInv /\ [SerialNext]_vars => NoticeInv'
  <1> SUFFICES ASSUME SerialInv, NoticeInv, [SerialNext]_vars PROVE NoticeInv'
    OBVIOUS
  <1>0. TypeOK /\ TypeOK' /\ TurnsTaken
    BY SerialStep DEF SerialInv, IInv
  <1>1. ASSUME events' = events,
               \A l \in DOMAIN loans : RowStep(loans[l], loans'[l])
        PROVE  NoticeInv'
    <2>1. ASSUME NEW i \in DOMAIN events PROVE ToldOf(events[i], loans')
      <3>1. events[i] \in OverdueEvent(Len(loans)) /\ ToldOf(events[i], loans)
        BY <1>0 DEF TypeOK, NoticeInv
      <3>2. events[i].loan \in DOMAIN loans
        BY <1>0, <3>1 DEF OverdueEvent, TypeOK
      <3> QED
        BY <1>0, <1>1, <3>1, <3>2, ToldKept
    <2> QED
      BY <1>1, <2>1 DEF NoticeInv, EachNoticeOnce
  <1>2. ASSUME NEW p \in Procs, Begin(p) \/ Continue(p) \/ Fail(p), events' = events
        PROVE  NoticeInv'
    BY <1>0, <1>1, <1>2, LoansStep DEF TurnsTaken, LoansMove
  <1>3. ASSUME NEW p \in Procs, Begin(p) \/ Fail(p) PROVE events' = events
    BY <1>3 DEF Begin, BorrowSelect, ReturnReadLoan, RenewRead, StartRenewal, SweepRead,
       Start, Fail, Abort, SweepDies, RollBack
  <1>4. ASSUME NEW p \in Procs, Continue(p)
        PROVE  events' = events \/ \E e \in req[p].batch : SweepMark(p, e)
    BY <1>4 DEF Continue, BorrowLock, BorrowPassOver, BorrowRefused, BorrowCommit,
       ReturnReadCopy, ReturnUpdateCopy, ReturnConflict, ReturnCommit, RenewCheckHold,
       RenewBlocked, RenewWrite, RollBack, ReadOn, LockRow
  <1>5. ASSUME Environment \/ UNCHANGED vars PROVE NoticeInv'
    <2>1. UNCHANGED loans
      BY <1>0, <1>5, ClockAscends
    <2>2. events' = events
      BY <1>5 DEF Environment, PlaceHold, DropHold, Tick, vars
    <2> QED
      BY <1>1, <2>1, <2>2 DEF RowStep
  <1> QED
    BY <1>0, <1>2, <1>3, <1>4, <1>5, Announced DEF SerialNext

\* No due date of a loan is announced twice, over any number of nightly sweeps
\* and renewals in between: an announced loan is not ACTIVE, and a renewal that
\* makes it so moves its due date on.
THEOREM EachNoticeOnceHolds == SerialSpec => []EachNoticeOnce
  <1>1. Init => NoticeInv
    BY DEF Init, NoticeInv, EachNoticeOnce
  <1>2. NoticeInv => EachNoticeOnce
    BY DEF NoticeInv
  <1> QED
    BY <1>1, <1>2, NoticeStep, SerialInvariance, PTL DEF SerialSpec

-----------------------------------------------------------------------------
\* An open loan is the newest of its copy, and the copy is out.
OpenIsOut ==
    \A l \in DOMAIN loans : Open(l) =>
        copies[loans[l].copy].status = "ON_LOAN" /\ Newest(l)

LEMMA NewestUnique ==
    ASSUME TypeOK, NEW k \in DOMAIN loans, NEW l \in DOMAIN loans,
           loans[k].copy = loans[l].copy, Newest(k), Newest(l)
    PROVE  k = l
  <1>1. k \in Nat /\ l \in Nat
    BY DEF TypeOK
  <1>2. ~(k > l) /\ ~(l > k)
    BY DEF Newest
  <1> QED
    BY <1>1, <1>2

\* The loan a copy is out on is its newest one.
OutOnNewest ==
    \A c \in Copies :
        /\ copies[c].status # "ON_LOAN" => OutOn[c] = 0
        /\ copies[c].status = "ON_LOAN" =>
              \A l \in DOMAIN loans : loans[l].copy = c /\ Newest(l) => OutOn[c] = l

LEMMA OutOnIs == TypeOK => OutOnNewest
  <1>1. \A c \in Copies : copies[c].status # "ON_LOAN" => OutOn[c] = 0
    BY DEF OutOn
  <1>2. ASSUME TypeOK, NEW c \in Copies, NEW l \in DOMAIN loans,
               copies[c].status = "ON_LOAN", loans[l].copy = c, Newest(l)
        PROVE  OutOn[c] = l
    <2> DEFINE k == CHOOSE k \in DOMAIN loans : loans[k].copy = c /\ Newest(k)
    <2>1. k \in DOMAIN loans /\ loans[k].copy = c /\ Newest(k)
      BY <1>2
    <2>2. OutOn[c] = k
      BY <1>2 DEF OutOn
    <2> HIDE DEF k
    <2> QED
      BY <1>2, <2>1, <2>2, NewestUnique
  <1> QED
    BY <1>1, <1>2 DEF OutOnNewest

LEMMA OutOnFunction ==
    /\ OutOn = [c \in Copies |-> OutOn[c]]
    /\ OutOn' = [c \in Copies |-> OutOn'[c]]
  BY DEF OutOn

\* The last of a copy's loans stays its last while no loan of it is added.
LEMMA NewestKept ==
    ASSUME NEW l \in DOMAIN loans, l \in DOMAIN loans',
           \A k \in DOMAIN loans : loans'[k].copy = loans[k].copy,
           \A k \in DOMAIN loans' \ DOMAIN loans : loans'[k].copy # loans[l].copy
    PROVE  Newest(l) => Newest(l)'
  BY DEF Newest

\* A copy that is not written, and of which no loan is added, is out on what it
\* was out on.
LEMMA OutOnKept ==
    ASSUME TypeOK, TypeOK', OnLoanBacked, NEW c \in Copies, copies'[c] = copies[c],
           \A l \in DOMAIN loans : l \in DOMAIN loans' /\ loans'[l].copy = loans[l].copy,
           \A l \in DOMAIN loans' \ DOMAIN loans : loans'[l].copy # c
    PROVE  OutOn'[c] = OutOn[c]
  <1>0. OutOnNewest /\ OutOnNewest'
    BY OutOnIs, PTL
  <1>1. CASE copies[c].status # "ON_LOAN"
    BY <1>0, <1>1 DEF OutOnNewest
  <1>2. CASE copies[c].status = "ON_LOAN"
    <2>1. PICK l \in DOMAIN loans : loans[l].copy = c /\ Newest(l)
      BY <1>2 DEF OnLoanBacked
    <2>2. Newest(l)' /\ loans'[l].copy = c /\ l \in DOMAIN loans'
      BY <2>1, NewestKept
    <2>3. OutOn[c] = l
      BY <1>0, <1>2, <2>1 DEF OutOnNewest
    <2> QED
      BY <1>0, <1>2, <2>2, <2>3 DEF OutOnNewest
  <1> QED
    BY <1>1, <1>2

\* What a step of a request does to the rows: it lends, it takes back, it
\* writes an open loan that stays open, or it writes none.
LEMMA StepKinds ==
    ASSUME TypeOK, NEW p \in Procs, StillTrue(p), Begin(p) \/ Continue(p) \/ Fail(p)
    PROVE  \/ \E c \in Copies : BorrowCommit(p, c)
           \/ ReturnCommit(p)
           \/ /\ UNCHANGED copies
              /\ \E l \in DOMAIN loans, row \in LoanRow :
                    /\ loans' = [loans EXCEPT ![l] = row]
                    /\ row.copy = loans[l].copy
                    /\ Open(l) /\ row.status \in {"ACTIVE", "OVERDUE"}
           \/ UNCHANGED <<copies, loans>>
  <1> DEFINE Stays == /\ UNCHANGED copies
                      /\ \E l \in DOMAIN loans, row \in LoanRow :
                            /\ loans' = [loans EXCEPT ![l] = row]
                            /\ row.copy = loans[l].copy
                            /\ Open(l) /\ row.status \in {"ACTIVE", "OVERDUE"}
  <1>0. \A l \in DOMAIN loans : loans[l] \in LoanRow
    BY DEF TypeOK
  <1>1. RenewWrite(p) => Stays
    <2> SUFFICES ASSUME RenewWrite(p) PROVE Stays
      OBVIOUS
    <2>1. req[p].op = "renew"
      BY DEF RenewWrite, At
    <2>2. /\ req[p].loan \in DOMAIN loans /\ req[p].dueAt \in Nat /\ Open(req[p].loan)
          /\ loans[req[p].loan] \in LoanRow
      BY <1>0, <2>1, LoanNamed DEF StillTrue
    <2>3. PICK row \in LoanRow : /\ row = Renewed(loans[req[p].loan], req[p].dueAt)
                                 /\ row.copy = loans[req[p].loan].copy
                                 /\ row.status = "ACTIVE"
      BY <2>2, LoanRows
    <2>4. loans' = [loans EXCEPT ![req[p].loan] = row] /\ UNCHANGED copies
      BY <2>3 DEF RenewWrite
    <2> QED
      BY <2>2, <2>3, <2>4
  <1>2. ASSUME NEW e \in req[p].batch, MarkOverdue(p, e) PROVE Stays
    <2>1. req[p].op = "sweep"
      BY <1>2 DEF MarkOverdue, At
    <2>2. e.loan \in DOMAIN loans /\ loans[e.loan] \in LoanRow /\ Open(e.loan)
      BY <1>0, <2>1, LoanNamed DEF StillTrue, Open
    <2>3. PICK row \in LoanRow : /\ row = Overdue(loans[e.loan])
                                 /\ row.copy = loans[e.loan].copy
                                 /\ row.status = "OVERDUE"
      BY <2>2, LoanRows
    <2>4. loans' = [loans EXCEPT ![e.loan] = row] /\ UNCHANGED copies
      BY <1>2, <2>3 DEF MarkOverdue
    <2> QED
      BY <2>2, <2>3, <2>4
  <1> HIDE DEF Stays
  <1>3. Begin(p) => UNCHANGED <<copies, loans>>
    BY DEF Begin, BorrowSelect, ReturnReadLoan, RenewRead, StartRenewal, SweepRead, Start
  <1>4. \/ BorrowRefused(p) \/ ReturnReadCopy(p) \/ ReturnUpdateCopy(p) \/ ReturnConflict(p)
        \/ RenewCheckHold(p) \/ RenewBlocked(p) \/ Abort(p)
        \/ \E c \in Copies : BorrowLock(p, c) \/ BorrowPassOver(p, c)
        => UNCHANGED <<copies, loans>>
    BY DEF BorrowRefused, ReturnReadCopy, ReturnUpdateCopy, ReturnConflict, RenewCheckHold,
       RenewBlocked, Abort, BorrowLock, BorrowPassOver, RollBack, ReadOn, LockRow
  <1>5. \/ \E c \in Copies : BorrowCommit(p, c)
        \/ ReturnCommit(p) \/ Stays \/ UNCHANGED <<copies, loans>>
    BY <1>1, <1>2, <1>3, <1>4 DEF Continue, Fail, SweepMark, SweepDies
  <1> QED
    BY <1>5 DEF Stays

-----------------------------------------------------------------------------
\* The three steps that write rows, as the desk sees them.
DeskStill == UNCHANGED <<OutOn, Len(loans), Closed>>

\* A loan that stays open, or no row at all: the desk sees nothing.
LEMMA RowWrittenUnseen ==
    ASSUME TypeOK, TypeOK', OnLoanBacked, OpenIsOut, UNCHANGED copies,
           NEW l \in DOMAIN loans, NEW row \in LoanRow, row.copy = loans[l].copy,
           Open(l), row.status \in {"ACTIVE", "OVERDUE"},
           loans' = [loans EXCEPT ![l] = row]
    PROVE  DeskStill /\ OpenIsOut'
  <1>1. /\ DOMAIN loans' = DOMAIN loans /\ Len(loans') = Len(loans)
        /\ loans'[l] = row
        /\ \A k \in DOMAIN loans : k # l => loans'[k] = loans[k]
        /\ \A k \in DOMAIN loans : loans'[k].copy = loans[k].copy
    BY LoanWritten
  <1>2. \A c \in Copies : OutOn'[c] = OutOn[c]
    BY <1>1, OutOnKept
  <1>3. OutOn' = OutOn
    BY <1>2 DEF OutOn
  <1>4. \A k \in DOMAIN loans : loans'[k].status = "RETURNED" <=> loans[k].status = "RETURNED"
    BY <1>1 DEF Open
  <1>5. Closed' = Closed
    BY <1>1, <1>4 DEF Closed
  <1>6. ASSUME NEW k \in DOMAIN loans, Open(k)'
        PROVE  copies[loans[k].copy].status = "ON_LOAN" /\ Newest(k)'
    <2>1. Open(k)
      BY <1>1, <1>6 DEF Open
    <2>2. copies[loans[k].copy].status = "ON_LOAN" /\ Newest(k)
      BY <2>1 DEF OpenIsOut
    <2> QED
      BY <1>1, <2>2, NewestKept
  <1>7. OpenIsOut'
    BY <1>1, <1>6 DEF OpenIsOut
  <1> QED
    BY <1>1, <1>3, <1>5, <1>7 DEF DeskStill

LEMMA NoRowUnseen ==
    ASSUME UNCHANGED <<copies, loans>>
    PROVE  DeskStill /\ (OpenIsOut => OpenIsOut')
  BY DEF DeskStill, OutOn, Closed, Newest, OpenIsOut, Open

\* A borrow that commits is the desk lending a copy from the shelf.
LEMMA BorrowLends ==
    ASSUME IInv, TypeOK', OpenIsOut, NEW p \in Procs, NEW c \in Copies, BorrowCommit(p, c)
    PROVE  /\ OutOn[c] = 0
           /\ Len(loans') = Len(loans) + 1
           /\ OutOn' = [OutOn EXCEPT ![c] = Len(loans) + 1]
           /\ Closed' = Closed
           /\ OpenIsOut'
  <1> USE DEF IInv
  <1>0. PICK n : n = Len(loans) + 1
    OBVIOUS
  <1>1. /\ copies[c].status = "AVAILABLE" /\ copies'[c].status = "ON_LOAN"
        /\ \A d \in Copies : d # c => copies'[d] = copies[d]
    BY BorrowCommitOwns, CopyWritten DEF BorrowCommit, CopyStatus
  <1>2. PICK row : loans' = Append(loans, row) /\ row.copy = c /\ row.status = "ACTIVE"
    BY DEF BorrowCommit, NewLoan
  <1>3. /\ Len(loans) \in Nat /\ Len(loans') = n
        /\ DOMAIN loans = 1 .. Len(loans) /\ DOMAIN loans' = 1 .. n
        /\ loans'[n] = row
        /\ \A k \in DOMAIN loans : loans'[k] = loans[k]
    BY <1>0, <1>2 DEF TypeOK
  <1>4. /\ \A k \in DOMAIN loans : k \in DOMAIN loans' /\ k # n
        /\ \A k \in DOMAIN loans' : k \in DOMAIN loans \/ k = n
        /\ n \in DOMAIN loans' /\ n \notin DOMAIN loans /\ n \in Nat
        /\ \A k \in DOMAIN loans' : ~(k > n)
    BY <1>0, <1>3
  <1>5. OutOnNewest /\ OutOnNewest'
    BY OutOnIs, PTL
  <1>6. OutOn[c] = 0
    BY <1>1, <1>5 DEF OutOnNewest
  <1>7. Newest(n)'
    BY <1>4 DEF Newest
  <1>8. OutOn'[c] = n
    BY <1>1, <1>2, <1>3, <1>4, <1>5, <1>7 DEF OutOnNewest
  <1>9. ASSUME NEW d \in Copies, d # c PROVE OutOn'[d] = OutOn[d]
    <2>1. \A k \in DOMAIN loans' \ DOMAIN loans : loans'[k].copy # d
      BY <1>2, <1>3, <1>4, <1>9
    <2>2. \A k \in DOMAIN loans : k \in DOMAIN loans' /\ loans'[k].copy = loans[k].copy
      BY <1>3, <1>4
    <2> QED
      BY <1>1, <1>9, <2>1, <2>2, OutOnKept
  <1>10. OutOn' = [OutOn EXCEPT ![c] = n]
    BY <1>8, <1>9, OutOnFunction
  <1>11. Closed' = Closed
    BY <1>2, <1>3, <1>4 DEF Closed
  <1>12. ASSUME NEW k \in DOMAIN loans, Open(k)'
         PROVE  copies'[loans'[k].copy].status = "ON_LOAN" /\ Newest(k)'
    <2>1. Open(k) /\ loans'[k] = loans[k]
      BY <1>3, <1>12 DEF Open
    <2>2. copies[loans[k].copy].status = "ON_LOAN" /\ Newest(k)
      BY <2>1 DEF OpenIsOut
    <2>3. loans[k].copy \in Copies
      <3>1. loans[k] \in LoanRow
        BY DEF TypeOK
      <3> QED
        BY <3>1 DEF LoanRow
    <2>4. loans[k].copy # c
      BY <1>1, <2>2
    <2>5. \A j \in DOMAIN loans' \ DOMAIN loans : loans'[j].copy # loans[k].copy
      BY <1>2, <1>3, <1>4, <2>4
    <2>6. Newest(k)'
      BY <1>3, <1>4, <2>2, <2>5, NewestKept
    <2> QED
      BY <1>1, <2>1, <2>2, <2>3, <2>4, <2>6
  <1>13. OpenIsOut'
    BY <1>1, <1>2, <1>3, <1>4, <1>7, <1>12 DEF OpenIsOut
  <1> QED
    BY <1>0, <1>3, <1>6, <1>10, <1>11, <1>13

\* A return that commits is the desk taking back the loan its copy is out on.
LEMMA ReturnGivesBack ==
    ASSUME IInv, TypeOK', OpenIsOut, NEW p \in Procs, StillTrue(p), ReturnCommit(p)
    PROVE  /\ CopyReturned(p) \in Copies
           /\ OutOn[CopyReturned(p)] # 0
           /\ Len(loans') = Len(loans)
           /\ Closed' = Closed \cup {OutOn[CopyReturned(p)]}
           /\ OutOn' = [OutOn EXCEPT ![CopyReturned(p)] = 0]
           /\ OpenIsOut'
  <1> USE DEF IInv
  <1>1. PICK l \in DOMAIN loans : l = req[p].loan /\ Open(l)
    BY CopyReturnedTyped DEF ReturnCommit, At, StillTrue
  <1>2. PICK c \in Copies : c = CopyReturned(p) /\ c = loans[l].copy
    BY <1>1, CopyReturnedTyped DEF ReturnCommit, At, CopyReturned
  <1>3. loans[l] \in LoanRow
    BY DEF TypeOK
  <1>4. PICK row \in LoanRow : /\ row = Returned(loans[l])
                               /\ row.copy = loans[l].copy
                               /\ row.status = "RETURNED"
    <2>1. /\ Returned(loans[l]) \in LoanRow
          /\ Returned(loans[l]).copy = loans[l].copy
      BY <1>3, LoanRows
    <2>2. Returned(loans[l]).status = "RETURNED"
      BY <1>3 DEF Returned, LoanRow
    <2> QED
      BY <2>1, <2>2
  <1>5. /\ DOMAIN loans' = DOMAIN loans /\ Len(loans') = Len(loans)
        /\ loans'[l] = row
        /\ \A k \in DOMAIN loans : k # l => loans'[k] = loans[k]
        /\ \A k \in DOMAIN loans : loans'[k].copy = loans[k].copy
    <2>1. loans' = [loans EXCEPT ![l] = row]
      BY <1>1, <1>4 DEF ReturnCommit
    <2> QED
      BY <1>4, <2>1, LoanWritten
  <1>6. /\ copies'[c].status = "AVAILABLE"
        /\ \A d \in Copies : d # c => copies'[d] = copies[d]
    BY <1>1, <1>2, CopyWritten DEF ReturnCommit, CopyStatus
  <1>7. copies[c].status = "ON_LOAN" /\ Newest(l)
    BY <1>1, <1>2 DEF OpenIsOut
  <1>8. OutOnNewest /\ OutOnNewest'
    BY OutOnIs, PTL
  <1>9. OutOn[c] = l /\ OutOn'[c] = 0 /\ l # 0
    BY <1>2, <1>6, <1>7, <1>8 DEF OutOnNewest, TypeOK
  <1>10. \A d \in Copies : d # c => OutOn'[d] = OutOn[d]
    BY <1>5, <1>6, OutOnKept
  <1>11. OutOn' = [OutOn EXCEPT ![c] = 0]
    BY <1>9, <1>10, OutOnFunction
  <1>12. Closed' = Closed \cup {l}
    BY <1>4, <1>5 DEF Closed
  <1>13. ASSUME NEW k \in DOMAIN loans, Open(k)'
         PROVE  copies'[loans[k].copy].status = "ON_LOAN" /\ Newest(k)'
    <2>1. k # l
      BY <1>4, <1>5, <1>13 DEF Open
    <2>2. Open(k)
      BY <1>5, <1>13, <2>1 DEF Open
    <2>3. copies[loans[k].copy].status = "ON_LOAN" /\ Newest(k)
      BY <2>2 DEF OpenIsOut
    <2>4. loans[k].copy # c
      BY <1>2, <1>7, <2>1, <2>3, NewestUnique
    <2>5. loans[k].copy \in Copies
      <3>1. loans[k] \in LoanRow
        BY DEF TypeOK
      <3> QED
        BY <3>1 DEF LoanRow
    <2> QED
      BY <1>5, <1>6, <2>3, <2>4, <2>5, NewestKept
  <1>14. OpenIsOut'
    BY <1>5, <1>13 DEF OpenIsOut
  <1> QED
    BY <1>2, <1>5, <1>9, <1>11, <1>12, <1>14

\* Every step of the service is one of the desk, or none.
LEMMA DeskStep ==
    SerialInv /\ OpenIsOut /\ [SerialNext]_vars
        => OpenIsOut' /\ [Desk!DeskNext]_(Desk!deskVars)
  <1> SUFFICES ASSUME SerialInv, OpenIsOut, [SerialNext]_vars
               PROVE  OpenIsOut' /\ [Desk!DeskNext]_(Desk!deskVars)
    OBVIOUS
  <1>0. IInv /\ TypeOK /\ TypeOK' /\ TurnsTaken /\ OnLoanBacked
    BY SerialStep DEF SerialInv, IInv
  <1>1. DeskStill => [Desk!DeskNext]_(Desk!deskVars)
    BY DEF DeskStill, Desk!deskVars
  <1>2. ASSUME NEW p \in Procs, NEW c \in Copies, BorrowCommit(p, c)
        PROVE  OpenIsOut' /\ Desk!DeskNext
    <2>1. Desk!Lend(c) /\ OpenIsOut'
      BY <1>0, <1>2, BorrowLends DEF Desk!Lend, Desk!OnShelf
    <2> QED
      BY <2>1 DEF Desk!DeskNext
  <1>3. ASSUME NEW p \in Procs, ReturnCommit(p)
        PROVE  OpenIsOut' /\ Desk!DeskNext
    <2>1. /\ CopyReturned(p) \in Copies /\ OpenIsOut'
          /\ Desk!GiveBack(CopyReturned(p))
      BY <1>0, <1>3, ReturnGivesBack DEF Desk!GiveBack, Desk!OnShelf, TurnsTaken
    <2> QED
      BY <2>1 DEF Desk!DeskNext
  <1>4. ASSUME NEW p \in Procs, Begin(p) \/ Continue(p) \/ Fail(p)
        PROVE  OpenIsOut' /\ [Desk!DeskNext]_(Desk!deskVars)
    BY <1>0, <1>1, <1>2, <1>3, <1>4, StepKinds, RowWrittenUnseen, NoRowUnseen DEF TurnsTaken
  <1>5. Environment \/ UNCHANGED vars => UNCHANGED <<copies, loans>>
    BY DEF Environment, PlaceHold, DropHold, Tick, vars
  <1> QED
    BY <1>1, <1>4, <1>5, NoRowUnseen DEF SerialNext

\* LoanService implements LendingDesk when requests take turns: borrowCopy's
\* commit lends, returnLoan's commit takes back, and nothing else moves a copy.
THEOREM ImplementsDeskHolds == SerialSpec => ImplementsDesk
  <1>1. Init => OpenIsOut /\ Desk!DeskInit
    <2> SUFFICES ASSUME Init PROVE OpenIsOut /\ Desk!DeskInit
      OBVIOUS
    <2>1. DOMAIN loans = {} /\ Len(loans) = 0
      BY DEF Init
    <2>2. OutOn = [c \in Copies |-> 0]
      BY DEF Init, OutOn
    <2> QED
      BY <2>1, <2>2 DEF OpenIsOut, Closed, Desk!DeskInit, Desk!OnShelf
  <1>2. Init /\ []SerialInv /\ [][SerialNext]_vars
            => Desk!DeskInit /\ [][Desk!DeskNext]_(Desk!deskVars)
    BY <1>1, DeskStep, PTL
  <1> QED
    BY <1>2, SerialInvariance DEF SerialSpec, ImplementsDesk, Desk!DeskSpec
=============================================================================
