--------------------------- MODULE ReservationQueue ---------------------------
(***************************************************************************)
(* The hold queue of a resource: enqueue, cancel and markReadyForPickup of *)
(* reservation/service/reservation-queue.service.ts.  There is no          *)
(* transaction and no row lock: every statement commits on its own, and    *)
(* what keeps two enqueues from taking one position is a unique index of   *)
(* the database, over the rows of every status.                            *)
(***************************************************************************)
EXTENDS Integers, Sequences, FiniteSets, StateTransitions

CONSTANTS
    Procs,        \* requests the server runs at the same time
    Resources,    \* resources that can be reserved
    Members,      \* members who reserve
    MaxAttempts,  \* MAX_ENQUEUE_ATTEMPTS
    MaxRequests   \* bound: how many requests are ever made

ASSUME ReservationQueueAssumption ==
    /\ MaxAttempts \in Nat \ {0}
    /\ MaxRequests \in Nat

VARIABLES
    rows,         \* rows[r]: the reservations of r, in the order of insertion
    events,       \* the RESERVATION_READY events emitted, in order
    req,          \* req[p]: what request p is doing and what it has read
    requests      \* how many requests were made

vars == <<rows, events, req, requests>>

-----------------------------------------------------------------------------
Row == [member : Members, position : Nat, status : ReservationStatus]

Idle == [op |-> "none"]
Enqueuing(at, r, m, pos, n) ==
    [op |-> "enqueue", at |-> at, resource |-> r, member |-> m,
     position |-> pos, attempt |-> n]
Updating(op, r, i) == [op |-> op, at |-> "write", resource |-> r, row |-> i]

EnqueueRequest == [op : {"enqueue"}, at : {"read", "insert"}, resource : Resources,
                   member : Members, position : Nat, attempt : Nat]
UpdateRequest == [op : {"cancel", "ready"}, at : {"write"}, resource : Resources,
                  row : Nat]
Request == {Idle} \cup EnqueueRequest \cup UpdateRequest

At(p, op, at) == req[p].op = op /\ req[p].at = at
Goto(p, r) == req' = [req EXCEPT ![p] = r]

\* A request begins, having read what r says, or reads on: no row is written.
Start(p, r) ==
    /\ req[p] = Idle
    /\ requests < MaxRequests
    /\ requests' = requests + 1
    /\ Goto(p, r)
    /\ UNCHANGED <<rows, events>>

ReadOn(p, r) == Goto(p, r) /\ UNCHANGED <<rows, events, requests>>

\* ACTIVE_QUEUE_STATUSES
Active(status) == status \in {"QUEUED", "READY_FOR_PICKUP"}

ActivePositions(r) ==
    {rows[r][i].position : i \in {j \in DOMAIN rows[r] : Active(rows[r][j].status)}}

\* The unique index on (resourceId, queuePosition): P2002.
Collides(r, pos) == \E i \in DOMAIN rows[r] : rows[r][i].position = pos

-----------------------------------------------------------------------------
Init ==
    /\ rows = [r \in Resources |-> << >>]
    /\ events = << >>
    /\ req = [p \in Procs |-> Idle]
    /\ requests = 0

-----------------------------------------------------------------------------
EnqueueBegin(p, r, m) == Start(p, Enqueuing("read", r, m, 0, 1))

\* Mutant: the new row goes before the first one.
EnqueueReadFront(p) ==
    LET q == req[p] IN
    /\ At(p, "enqueue", "read")
    /\ \E first \in ActivePositions(q.resource) \cup {0} :
          /\ \A pos \in ActivePositions(q.resource) : first <= pos
          /\ ReadOn(p, Enqueuing("insert", q.resource, q.member, first - 1, q.attempt))

\* One past the highest position of the active rows, 1 when there is none.
EnqueueRead(p) ==
    LET q == req[p] IN
    /\ At(p, "enqueue", "read")
    /\ \E top \in ActivePositions(q.resource) \cup {0} :
          /\ \A pos \in ActivePositions(q.resource) : pos <= top
          /\ ReadOn(p, Enqueuing("insert", q.resource, q.member, top + 1, q.attempt))

\* INSERT INTO reservation, as request p has prepared it.
Insert(p) ==
    LET q == req[p] IN
    /\ rows' = [rows EXCEPT ![q.resource] =
                    Append(@, [member |-> q.member, position |-> q.position,
                               status |-> "QUEUED"])]
    /\ Goto(p, Idle)
    /\ UNCHANGED <<events, requests>>

\* Mutant: no unique index.
EnqueueInsertUnindexed(p) == At(p, "enqueue", "insert") /\ Insert(p)

EnqueueInsert(p) ==
    /\ At(p, "enqueue", "insert")
    /\ ~Collides(req[p].resource, req[p].position)
    /\ Insert(p)

\* P2002, with an attempt left.
MayRetry(p) ==
    /\ At(p, "enqueue", "insert")
    /\ Collides(req[p].resource, req[p].position)
    /\ req[p].attempt < MaxAttempts

\* Mutant: the position is not read again before the next attempt.
EnqueueRetryStale(p) ==
    LET q == req[p] IN
    /\ MayRetry(p)
    /\ ReadOn(p, Enqueuing("insert", q.resource, q.member, q.position, q.attempt + 1))

EnqueueRetry(p) ==
    LET q == req[p] IN
    /\ MayRetry(p)
    /\ ReadOn(p, Enqueuing("read", q.resource, q.member, 0, q.attempt + 1))

\* "Failed to enqueue reservation ... after 5 attempts": a plain Error.
EnqueueGiveUp(p) ==
    /\ At(p, "enqueue", "insert")
    /\ Collides(req[p].resource, req[p].position)
    /\ req[p].attempt = MaxAttempts
    /\ ReadOn(p, Idle)

-----------------------------------------------------------------------------
\* cancel and markReadyForPickup read the row, ask assertLegal about what
\* they read, and update the row by its id alone.
UpdateTo(op) == IF op = "cancel" THEN "CANCELLED" ELSE "READY_FOR_PICKUP"

\* Mutant: without assertLegal.
ReadAnyRow(p, op, r, i) == Start(p, Updating(op, r, i))

ReadRow(p, op, r, i) ==
    /\ IsLegal(ReservationTransitions, rows[r][i].status, UpdateTo(op))
    /\ Start(p, Updating(op, r, i))

\* Mutant: updateMany by the resource, not by the row's id.
WriteWholeQueue(p, op) ==
    LET r == req[p].resource IN
    /\ At(p, op, "write")
    /\ rows' = [rows EXCEPT ![r] =
                    [i \in DOMAIN rows[r] |-> [rows[r][i] EXCEPT !.status = UpdateTo(op)]]]
    /\ Goto(p, Idle)
    /\ UNCHANGED requests

WriteRow(p, op) ==
    LET q == req[p] IN
    /\ At(p, op, "write")
    /\ rows' = [rows EXCEPT ![q.resource][q.row].status = UpdateTo(op)]
    /\ Goto(p, Idle)
    /\ UNCHANGED requests

Cancel(p) == WriteRow(p, "cancel") /\ UNCHANGED events

MarkReady(p) ==
    /\ WriteRow(p, "ready")
    /\ events' = Append(events, <<req[p].resource, req[p].row>>)

\* The server stops after the update and before the event.
MarkReadyDies(p) == WriteRow(p, "ready") /\ UNCHANGED events

\* A statement that fails or a server that stops.
Abort(p) == req[p] # Idle /\ ReadOn(p, Idle)

-----------------------------------------------------------------------------
Begin(p) ==
    \/ \E r \in Resources, m \in Members : EnqueueBegin(p, r, m)
    \/ \E op \in {"cancel", "ready"}, r \in Resources :
          \E i \in DOMAIN rows[r] : ReadRow(p, op, r, i)

Continue(p) ==
    \/ EnqueueRead(p)
    \/ EnqueueInsert(p)
    \/ EnqueueRetry(p)
    \/ EnqueueGiveUp(p)
    \/ Cancel(p)
    \/ MarkReady(p)

Next == \E p \in Procs : Begin(p) \/ Continue(p) \/ MarkReadyDies(p) \/ Abort(p)

Spec == Init /\ [][Next]_vars

\* The same service when no two requests update one reservation at a time.
Serialised ==
    \A p, q \in Procs :
        (/\ p # q
         /\ req[p].op \in {"cancel", "ready"}
         /\ req[q].op \in {"cancel", "ready"}) =>
            <<req[p].resource, req[p].row>> # <<req[q].resource, req[q].row>>

SerialNext ==
    \E p \in Procs : \/ Begin(p) /\ Serialised'
                     \/ Continue(p) \/ MarkReadyDies(p) \/ Abort(p)

SerialSpec == Init /\ [][SerialNext]_vars

-----------------------------------------------------------------------------
\* Properties that hold of Spec.

\* Every variable has its type; a request names a reservation that exists.
TypeOK ==
    /\ rows \in [Resources -> Seq(Row)]
    /\ events \in Seq(Resources \X Nat)
    /\ req \in [Procs -> Request]
    /\ requests \in Nat
    /\ \A p \in Procs : req[p].op \in {"cancel", "ready"} =>
          req[p].row \in DOMAIN rows[req[p].resource]

\* Positions are the order of arrival: the i-th reservation ever made of a
\* resource has position i, so positions are distinct, gapless and never
\* given twice, however enqueues, cancellations and retries overlap.
ArrivalOrder ==
    \A r \in Resources : \A i \in DOMAIN rows[r] : rows[r][i].position = i

\* While nobody has left or moved up in the queue of a resource, every retry of
\* an enqueue is paid for by a rival that got in: the n-th attempt finds at
\* least n - 1 reservations.  So MaxAttempts rivals are needed to defeat one.
RetriesHaveRivals ==
    \A p \in Procs : req[p].op = "enqueue" =>
        LET queue == rows[req[p].resource] IN
        (\A i \in DOMAIN queue : queue[i].status = "QUEUED") =>
            Len(queue) >= req[p].attempt - 1

-----------------------------------------------------------------------------
\* Properties that hold of SerialSpec only.

\* A reservation changes status as RESERVATION_TRANSITIONS allows.
ReservationMovesLegal ==
    [][\A r \in Resources : \A i \in DOMAIN rows[r] :
          rows'[r][i].status # rows[r][i].status =>
              IsLegal(ReservationTransitions, rows[r][i].status, rows'[r][i].status)]_vars

\* A reservation is announced as ready at most once.
AnnouncedOnce == \A i, j \in DOMAIN events : i # j => events[i] # events[j]

-----------------------------------------------------------------------------
\* What the repository says and Spec does not do.

\* reservation-queue.service.ts:13 "an EXPIRED/FULFILLED/CANCELLED row's
\* position is free to reuse": an enqueue fails only on an active row.
PositionFreeToReuse ==
    [][\A p \in Procs : EnqueueGiveUp(p) =>
          req[p].position \in ActivePositions(req[p].resource)]_vars
=============================================================================
