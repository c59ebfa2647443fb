---------------------------- MODULE StateTransitions ----------------------------
(***************************************************************************)
(* The legal-transition tables of the four status columns and the one      *)
(* question the services ask of them (common/statemachine).  A table maps  *)
(* a status to the set of statuses it may be moved to.                     *)
(***************************************************************************)

LoanTransitions ==
    [ACTIVE   |-> {"RETURNED", "OVERDUE", "LOST"},
     OVERDUE  |-> {"RETURNED", "LOST"},
     RETURNED |-> {},
     LOST     |-> {}]

ReservationTransitions ==
    [QUEUED           |-> {"READY_FOR_PICKUP", "CANCELLED"},
     READY_FOR_PICKUP |-> {"FULFILLED", "EXPIRED", "CANCELLED"},
     EXPIRED          |-> {},
     FULFILLED        |-> {},
     CANCELLED        |-> {}]

SubmissionTransitions ==
    [DRAFT        |-> {"SUBMITTED"},
     SUBMITTED    |-> {"UNDER_REVIEW"},
     UNDER_REVIEW |-> {"APPROVED", "REJECTED"},
     APPROVED     |-> {"EMBARGOED", "PUBLISHED"},
     EMBARGOED    |-> {"PUBLISHED"},
     REJECTED     |-> {},
     PUBLISHED    |-> {}]

IllTransitions ==
    [SUBMITTED            |-> {"UNDER_REVIEW", "CANCELLED"},
     UNDER_REVIEW         |-> {"REQUESTED_EXTERNALLY", "CANCELLED"},
     REQUESTED_EXTERNALLY |-> {"FULFILLED", "CANCELLED"},
     FULFILLED            |-> {"DELIVERED"},
     DELIVERED            |-> {"RETURN_DUE"},
     RETURN_DUE           |-> {"RETURNED"},
     RETURNED             |-> {},
     CANCELLED            |-> {}]

LoanStatus == {"ACTIVE", "OVERDUE", "RETURNED", "LOST"}
ReservationStatus ==
    {"QUEUED", "READY_FOR_PICKUP", "EXPIRED", "FULFILLED", "CANCELLED"}

SubmissionStatus ==
    {"DRAFT", "SUBMITTED", "UNDER_REVIEW", "APPROVED", "REJECTED", "EMBARGOED",
     "PUBLISHED"}

IllRequestStatus ==
    {"SUBMITTED", "UNDER_REVIEW", "REQUESTED_EXTERNALLY", "FULFILLED", "DELIVERED",
     "RETURN_DUE", "RETURNED", "CANCELLED"}

\* assertLegal lets the caller go on exactly when this holds; otherwise it
\* throws and the caller changes nothing.
IsLegal(table, from, to) == to \in table[from]
=============================================================================
