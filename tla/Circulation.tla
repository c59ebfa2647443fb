------------------------------ MODULE Circulation ------------------------------
(***************************************************************************)
(* The loan desk and the hold queue of the physical books, on one database.*)
(* They meet in one place: renewLoan reads the reservation table, whose    *)
(* rows ReservationQueueService writes.  The holds that LoanService takes  *)
(* from its environment are here the active reservations.                  *)
(***************************************************************************)
EXTENDS Integers, Sequences, FiniteSets

CONSTANTS
    DeskProcs, QueueProcs,        \* requests on loans and on reservations
    Nobody, Books, Copies, BookOf, Members, LoanDuration, MaxRenewals,
    AskedDurations, MaxTime,
    MaxDeskRequests,              \* bound: requests made of LoanService
    MaxAttempts,
    MaxQueueRequests              \* bound: requests made of ReservationQueue

ASSUME CirculationAssumption ==
    /\ Nobody \notin DeskProcs
    /\ Copies \subseteq Nat /\ BookOf \in [Copies -> Books]
    /\ LoanDuration \in [Members -> Nat \ {0}] /\ MaxRenewals \in [Members -> Nat]
    /\ AskedDurations \subseteq Nat
    /\ MaxAttempts \in Nat \ {0}
    /\ {MaxTime, MaxDeskRequests, MaxQueueRequests} \subseteq Nat

VARIABLES
    copies, loans, lockedBy, now, overdueEvents, deskReq, deskRequests,
    rows, readyEvents, queueReq, queueRequests

deskVars == <<copies, loans, lockedBy, now, overdueEvents, deskReq, deskRequests>>
queueVars == <<rows, readyEvents, queueReq, queueRequests>>
vars == <<deskVars, queueVars>>

Queue == INSTANCE ReservationQueue WITH
    Procs <- QueueProcs, Resources <- Books, MaxRequests <- MaxQueueRequests,
    events <- readyEvents, req <- queueReq, requests <- queueRequests

\* What blockingHold looks for: the members with an active reservation.
ActiveHolds ==
    {hold \in Books \X Members :
        \E i \in DOMAIN rows[hold[1]] : /\ rows[hold[1]][i].member = hold[2]
                                        /\ Queue!Active(rows[hold[1]][i].status)}

Desk == INSTANCE LoanService WITH
    Procs <- DeskProcs, Waiters <- Members, MaxRequests <- MaxDeskRequests,
    holds <- ActiveHolds, events <- overdueEvents,
    req <- deskReq, requests <- deskRequests

-----------------------------------------------------------------------------
Init ==
    /\ copies = [c \in Copies |-> [status |-> "AVAILABLE", version |-> 0]]
    /\ loans = << >>
    /\ lockedBy = [c \in Copies |-> Nobody]
    /\ now = 0
    /\ overdueEvents = << >>
    /\ deskReq = [p \in DeskProcs |-> Desk!Idle]
    /\ deskRequests = 0
    /\ Queue!Init

DeskStep ==
    /\ UNCHANGED queueVars
    /\ \/ \E p \in DeskProcs : Desk!Begin(p) \/ Desk!Continue(p) \/ Desk!Fail(p)
       \/ Desk!Tick

\* No two requests work on one reservation at a time.
QueueStep == Queue!SerialNext /\ UNCHANGED deskVars

Next == DeskStep \/ QueueStep

Spec == Init /\ [][Next]_vars

-----------------------------------------------------------------------------
\* The queue is an environment LoanService was specified for: whatever the
\* queue does is, to the desk, a hold placed, a hold dropped or nothing, so
\* every property of LoanService's Spec holds of the composition.
DeskImplemented == Desk!Spec

\* A reservation changes status as RESERVATION_TRANSITIONS allows, and is
\* announced as ready at most once.
ReservationMovesLegal == Queue!ReservationMovesLegal
AnnouncedOnce == Queue!AnnouncedOnce
=============================================================================
