--------------------------- MODULE Circulation_proofs ---------------------------
(***************************************************************************)
(* Proofs about Circulation, from what is proved of LoanService and of     *)
(* ReservationQueue apart.                                                 *)
(***************************************************************************)
EXTENDS Circulation, TLAPS

\* What is proved of the queue and of the desk, of those here.
QueueTheory == INSTANCE ReservationQueue_proofs WITH
    Procs <- QueueProcs, Resources <- Books, MaxRequests <- MaxQueueRequests,
    events <- readyEvents, req <- queueReq, requests <- queueRequests

DeskTheory == INSTANCE LoanService_proofs WITH
    Procs <- DeskProcs, Waiters <- Members, MaxRequests <- MaxDeskRequests,
    holds <- ActiveHolds, events <- overdueEvents,
    req <- deskReq, requests <- deskRequests

\* Queue and QueueTheory are two instances of one module, Desk and DeskTheory of
\* another: with every definition expanded their steps are the same formulas.
LEMMA SameStep == Queue!SerialNext => QueueTheory!SerialNext
BY DEF Queue!SerialNext, QueueTheory!SerialNext, Queue!Begin, QueueTheory!Begin,
       Queue!Continue, QueueTheory!Continue, Queue!MarkReadyDies, QueueTheory!MarkReadyDies,
       Queue!Abort, QueueTheory!Abort, Queue!Serialised, QueueTheory!Serialised,
       Queue!EnqueueBegin, QueueTheory!EnqueueBegin, Queue!ReadRow, QueueTheory!ReadRow,
       Queue!EnqueueRead, QueueTheory!EnqueueRead, Queue!EnqueueInsert,
       QueueTheory!EnqueueInsert, Queue!Insert, QueueTheory!Insert, Queue!EnqueueRetry,
       QueueTheory!EnqueueRetry, Queue!MayRetry, QueueTheory!MayRetry, Queue!EnqueueGiveUp,
       QueueTheory!EnqueueGiveUp, Queue!Cancel, QueueTheory!Cancel, Queue!MarkReady,
       QueueTheory!MarkReady, Queue!WriteRow, QueueTheory!WriteRow, Queue!UpdateTo,
       QueueTheory!UpdateTo, Queue!Start, QueueTheory!Start, Queue!ReadOn, QueueTheory!ReadOn,
       Queue!Goto, QueueTheory!Goto, Queue!At, QueueTheory!At, Queue!Collides,
       QueueTheory!Collides, Queue!ActivePositions, QueueTheory!ActivePositions, Queue!Active,
       QueueTheory!Active, Queue!IsLegal, QueueTheory!IsLegal, Queue!ReservationTransitions,
       QueueTheory!ReservationTransitions, Queue!Idle, QueueTheory!Idle, Queue!Enqueuing,
       QueueTheory!Enqueuing, Queue!Updating, QueueTheory!Updating

LEMMA SameQueue ==
    /\ Queue!Init => QueueTheory!Init
    /\ QueueTheory!vars = queueVars
    /\ ActiveHolds = QueueTheory!Waiting
BY DEF Queue!Init, QueueTheory!Init, Queue!Idle, QueueTheory!Idle, QueueTheory!vars, queueVars,
       ActiveHolds, QueueTheory!Waiting, Queue!Active, QueueTheory!Active

LEMMA SameDesk ==
    /\ Desk!Init => DeskTheory!Init
    /\ Desk!Next => DeskTheory!Next
    /\ Desk!vars = DeskTheory!vars
BY DEF Desk!vars, DeskTheory!vars, Desk!Idle, DeskTheory!Idle, Desk!Borrowing,
       DeskTheory!Borrowing, Desk!Returning, DeskTheory!Returning, Desk!Renewing,
       DeskTheory!Renewing, Desk!Sweeping, DeskTheory!Sweeping, Desk!At, DeskTheory!At,
       Desk!Open, DeskTheory!Open, Desk!CopyReturned, DeskTheory!CopyReturned, Desk!Candidate,
       DeskTheory!Candidate, Desk!Locks, DeskTheory!Locks, Desk!Goto, DeskTheory!Goto,
       Desk!Finish, DeskTheory!Finish, Desk!Start, DeskTheory!Start, Desk!ReadOn,
       DeskTheory!ReadOn, Desk!LockRow, DeskTheory!LockRow, Desk!RollBack, DeskTheory!RollBack,
       Desk!Init, DeskTheory!Init, Desk!BorrowSelect, DeskTheory!BorrowSelect, Desk!Chosen,
       DeskTheory!Chosen, Desk!PassedOver, DeskTheory!PassedOver, Desk!BorrowLock,
       DeskTheory!BorrowLock, Desk!BorrowPassOver, DeskTheory!BorrowPassOver,
       Desk!BorrowRefused, DeskTheory!BorrowRefused, Desk!NewLoan, DeskTheory!NewLoan,
       Desk!Returned, DeskTheory!Returned, Desk!Renewed, DeskTheory!Renewed, Desk!Overdue,
       DeskTheory!Overdue, Desk!BorrowCommit, DeskTheory!BorrowCommit, Desk!ReturnReadLoan,
       DeskTheory!ReturnReadLoan, Desk!ReturnReadCopy, DeskTheory!ReturnReadCopy,
       Desk!ReturnUpdateCopy, DeskTheory!ReturnUpdateCopy, Desk!ReturnConflict,
       DeskTheory!ReturnConflict, Desk!ReturnCommit, DeskTheory!ReturnCommit,
       Desk!StartRenewal, DeskTheory!StartRenewal, Desk!RenewRead, DeskTheory!RenewRead,
       Desk!HeldByAnother, DeskTheory!HeldByAnother, Desk!RenewCheckHold,
       DeskTheory!RenewCheckHold, Desk!RenewBlocked, DeskTheory!RenewBlocked, Desk!RenewWrite,
       DeskTheory!RenewWrite, Desk!Late, DeskTheory!Late, Desk!SweepRead, DeskTheory!SweepRead,
       Desk!MarkOverdue, DeskTheory!MarkOverdue, Desk!SweepMark, DeskTheory!SweepMark,
       Desk!SweepDies, DeskTheory!SweepDies, Desk!Abort, DeskTheory!Abort, Desk!PlaceHold,
       DeskTheory!PlaceHold, Desk!DropHold, DeskTheory!DropHold, Desk!Tick, DeskTheory!Tick,
       Desk!Begin, DeskTheory!Begin, Desk!Continue, DeskTheory!Continue, Desk!Fail,
       DeskTheory!Fail, Desk!Environment, DeskTheory!Environment, Desk!Next, DeskTheory!Next,
       Desk!IsLegal, DeskTheory!IsLegal, Desk!LoanTransitions, DeskTheory!LoanTransitions

-----------------------------------------------------------------------------
(* The queue keeps its promises next to the desk. *)

LEMMA QueueServed == Spec => QueueTheory!SerialSpec
<1>1. Init => QueueTheory!Init
  BY SameQueue DEF Init
<1>2. [Next]_vars => [QueueTheory!SerialNext]_(QueueTheory!vars)
  <2> SUFFICES ASSUME [Next]_vars PROVE [QueueTheory!SerialNext]_(QueueTheory!vars)
    OBVIOUS
  <2>1. CASE DeskStep
    BY <2>1 DEF DeskStep, queueVars, QueueTheory!vars
  <2>2. CASE QueueStep
    BY <2>2, SameStep DEF QueueStep
  <2>3. CASE UNCHANGED vars
    BY <2>3 DEF vars, queueVars, QueueTheory!vars
  <2> QED
    BY <2>1, <2>2, <2>3 DEF Next
<1> QED
  BY <1>1, <1>2, PTL DEF Spec, QueueTheory!SerialSpec

LEMMA QueueInvariance == Spec => []QueueTheory!SerialInv
BY QueueServed, CirculationAssumption, QueueTheory!SerialInvariance DEF QueueTheory!SerialInvariance

\* A reservation is announced as ready at most once.
THEOREM AnnouncedOnceHolds == Spec => []AnnouncedOnce
<1>1. QueueTheory!SerialInv => AnnouncedOnce
  BY DEF QueueTheory!SerialInv, QueueTheory!AnnouncedOnce, AnnouncedOnce, Queue!AnnouncedOnce
<1> QED
  BY <1>1, QueueInvariance, PTL

\* A reservation changes status as RESERVATION_TRANSITIONS allows.
THEOREM ReservationMovesLegalHolds == Spec => ReservationMovesLegal
<1>1. Spec => QueueTheory!ReservationMovesLegal
  BY QueueServed, CirculationAssumption, QueueTheory!ReservationMovesLegalHolds
     DEF QueueTheory!ReservationMovesLegalHolds
<1>2. QueueTheory!ReservationMovesLegal => ReservationMovesLegal
  BY DEF ReservationMovesLegal, Queue!ReservationMovesLegal, QueueTheory!ReservationMovesLegal,
         Queue!vars, QueueTheory!vars, Queue!IsLegal, QueueTheory!IsLegal,
         Queue!ReservationTransitions, QueueTheory!ReservationTransitions
<1> QED
  BY <1>1, <1>2

-----------------------------------------------------------------------------
(* The queue is an environment of LoanService. *)

\* Whatever the queue does is, to the desk, a hold placed, a hold dropped or
\* nothing; so every property of LoanService's Spec holds next to the queue.
THEOREM DeskImplementedHolds == Spec => DeskImplemented
<1>1. Init => Desk!Init
  <2> SUFFICES ASSUME Init PROVE Desk!Init
    OBVIOUS
  <2>1. \A b \in Books : rows[b] = << >>
    BY DEF Init, Queue!Init
  <2>2. ActiveHolds = {}
    BY <2>1 DEF ActiveHolds
  <2> QED
    BY <2>2 DEF Init, Desk!Init
<1>2. QueueTheory!SerialInv /\ [Next]_vars => [Desk!Next]_(Desk!vars)
  <2> SUFFICES ASSUME QueueTheory!SerialInv, [Next]_vars
               PROVE  [Desk!Next]_(Desk!vars)
    OBVIOUS
  <2>1. CASE DeskStep
    BY <2>1 DEF DeskStep, Desk!Next, Desk!Environment
  <2>2. CASE QueueStep
    <3>1. [QueueTheory!Next]_(QueueTheory!vars) /\ UNCHANGED deskVars
      BY <2>2, SameStep DEF QueueStep, QueueTheory!SerialNext, QueueTheory!Next
    <3>2. QueueTheory!OneApart(ActiveHolds, ActiveHolds')
      <4>1. QueueTheory!TypeOK
        BY DEF QueueTheory!SerialInv
      <4>2. QueueTheory!OneApart(QueueTheory!Waiting, QueueTheory!Waiting')
        BY <3>1, <4>1, CirculationAssumption, QueueTheory!WaitingStep DEF QueueTheory!WaitingStep
      <4>3. ActiveHolds = QueueTheory!Waiting /\ ActiveHolds' = QueueTheory!Waiting'
        BY SameQueue DEF ActiveHolds, QueueTheory!Waiting, Queue!Active, QueueTheory!Active
      <4> QED
        BY <4>2, <4>3
    <3>3. CASE ActiveHolds' = ActiveHolds
      BY <3>1, <3>3 DEF deskVars, Desk!vars
    <3>4. CASE \E b \in Books, m \in Members :
                  <<b, m>> \notin ActiveHolds /\ ActiveHolds' = ActiveHolds \cup {<<b, m>>}
      BY <3>1, <3>4 DEF deskVars, Desk!Next, Desk!Environment, Desk!PlaceHold
    <3>5. CASE \E b \in Books, m \in Members :
                  <<b, m>> \in ActiveHolds /\ ActiveHolds' = ActiveHolds \ {<<b, m>>}
      BY <3>1, <3>5 DEF deskVars, Desk!Next, Desk!Environment, Desk!DropHold
    <3> QED
      BY <3>2, <3>3, <3>4, <3>5 DEF QueueTheory!OneApart
  <2>3. CASE UNCHANGED vars
    BY <2>3 DEF vars, deskVars, queueVars, Desk!vars, ActiveHolds, Queue!Active
  <2> QED
    BY <2>1, <2>2, <2>3 DEF Next
<1>3. Init /\ [][Next]_vars /\ []QueueTheory!SerialInv => DeskImplemented
  <2>1. Desk!Init /\ [][Desk!Next]_(Desk!vars) => DeskImplemented
    BY DEF DeskImplemented, Desk!Spec
  <2> QED
    BY <1>1, <1>2, <2>1, PTL
<1> QED
  BY <1>3, QueueInvariance DEF Spec

\* And so, while members place and drop holds through the queue, no copy is lent
\* to two borrowers, none is stranded ON_LOAN, and no ring of row locks arises.
THEOREM DeskSafe ==
    Spec => /\ Desk!LentFromShelf
            /\ []Desk!OnLoanBacked
            /\ []Desk!NoWaitCycle
<1>1. Spec => DeskTheory!Spec
  <2>1. Desk!Init => DeskTheory!Init
    BY SameDesk
  <2>2. [Desk!Next]_(Desk!vars) => [DeskTheory!Next]_(DeskTheory!vars)
    BY SameDesk DEF Desk!vars, DeskTheory!vars
  <2>3. Desk!Spec => DeskTheory!Spec
    BY <2>1, <2>2, PTL DEF Desk!Spec, DeskTheory!Spec
  <2> QED
    BY <2>3, DeskImplementedHolds DEF DeskImplemented
<1>2. /\ Nobody \notin DeskProcs /\ Copies \subseteq Nat /\ BookOf \in [Copies -> Books]
      /\ Members \subseteq Members
      /\ LoanDuration \in [Members -> Nat] /\ MaxRenewals \in [Members -> Nat]
      /\ AskedDurations \subseteq Nat /\ MaxTime \in Nat /\ MaxDeskRequests \in Nat
      /\ \A m \in Members : LoanDuration[m] > 0
  BY CirculationAssumption
<1>3. DeskTheory!Spec => /\ DeskTheory!LentFromShelf
                         /\ []DeskTheory!OnLoanBacked
                         /\ []DeskTheory!NoWaitCycle
  BY <1>2, DeskTheory!LentFromShelfHolds, DeskTheory!OnLoanBackedHolds, DeskTheory!NoWaitCycleHolds
     DEF DeskTheory!LentFromShelfHolds, DeskTheory!OnLoanBackedHolds, DeskTheory!NoWaitCycleHolds
<1>4. DeskTheory!LentFromShelf => Desk!LentFromShelf
  BY DEF DeskTheory!LentFromShelf, Desk!LentFromShelf, DeskTheory!vars, Desk!vars
<1>5. DeskTheory!OnLoanBacked => Desk!OnLoanBacked
  BY DEF DeskTheory!OnLoanBacked, Desk!OnLoanBacked, DeskTheory!Newest, Desk!Newest,
         DeskTheory!Open, Desk!Open
<1>6. DeskTheory!NoWaitCycle => Desk!NoWaitCycle
  BY DEF DeskTheory!NoWaitCycle, Desk!NoWaitCycle, DeskTheory!WaitsFor, Desk!WaitsFor,
         DeskTheory!Awaits, Desk!Awaits, DeskTheory!At, Desk!At,
         DeskTheory!Candidate, Desk!Candidate, DeskTheory!CopyReturned, Desk!CopyReturned
<1> QED
  BY <1>1, <1>3, <1>4, <1>5, <1>6, PTL
=============================================================================
