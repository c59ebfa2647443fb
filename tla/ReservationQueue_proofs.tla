------------------------ MODULE ReservationQueue_proofs ------------------------
(***************************************************************************)
(* Theorems about ReservationQueue, for every number of requests, members, *)
(* resources and attempts.                                                 *)
(***************************************************************************)
EXTENDS ReservationQueue, TLAPS

\* Nobody has left or moved up in a queue.
Untouched(queue) == \A i \in DOMAIN queue : queue[i].status = "QUEUED"

\* What is known of an enqueue on its way.  A position about to be inserted
\* lies at most one past the last row, since it was computed from rows that
\* are still there; in an untouched queue the n-th attempt has n - 1 rows
\* before it, and aims at position n or beyond.
EnqueueInv(p) ==
    LET q == req[p] IN
    /\ At(p, "enqueue", "insert") =>
          /\ q.position \in 1 .. Len(rows[q.resource]) + 1
          /\ Untouched(rows[q.resource]) => q.position >= q.attempt
    /\ (q.op = "enqueue" /\ Untouched(rows[q.resource])) =>
          Len(rows[q.resource]) >= q.attempt - 1

\* The inductive invariant.
IInv == /\ TypeOK
        /\ ArrivalOrder
        /\ \A p \in Procs : EnqueueInv(p)

-----------------------------------------------------------------------------
\* What a well-typed request record gives: which kind it is and its fields.
LEMMA RequestFields ==
    ASSUME NEW q \in Request
    PROVE  /\ q.op \in {"none", "enqueue", "cancel", "ready"}
           /\ q.op = "none" => q = Idle
           /\ q.op = "enqueue" =>
                /\ q \in EnqueueRequest
                /\ q.at \in {"read", "insert"}
                /\ q.resource \in Resources
                /\ q.member \in Members
                /\ q.position \in Nat
                /\ q.attempt \in Nat
           /\ q.op \in {"cancel", "ready"} =>
                /\ q \in UpdateRequest
                /\ q.at = "write"
                /\ q.resource \in Resources
                /\ q.row \in Nat
  BY DEF Request, Idle, EnqueueRequest, UpdateRequest

LEMMA AppendTyped ==
    ASSUME NEW S, NEW s \in Seq(S), NEW e \in S
    PROVE  Append(s, e) \in Seq(S)
  OBVIOUS

\* The active positions are the positions of the active rows.
LEMMA ActivePositionsFacts ==
    ASSUME NEW r, rows[r] \in Seq(Row)
    PROVE  /\ ActivePositions(r) \subseteq Nat
           /\ \A pos \in ActivePositions(r) :
                 \E i \in DOMAIN rows[r] : pos = rows[r][i].position
           /\ \A i \in DOMAIN rows[r] :
                 Active(rows[r][i].status) => rows[r][i].position \in ActivePositions(r)
  <1>1. \A pos \in ActivePositions(r) : \E i \in DOMAIN rows[r] : pos = rows[r][i].position
    BY DEF ActivePositions
  <1>2. \A i \in DOMAIN rows[r] : rows[r][i] \in Row
    OBVIOUS
  <1>3. \A i \in DOMAIN rows[r] : rows[r][i].position \in Nat
    BY <1>2 DEF Row
  <1> QED
    BY <1>1, <1>3 DEF ActivePositions

\* A row is appended or rows keep their place: what the queues look like
\* after an insertion.
LEMMA AfterInsert ==
    ASSUME TypeOK, NEW p \in Procs, EnqueueInsert(p)
    PROVE  LET r == req[p].resource IN
           /\ r \in Resources
           /\ rows' \in [Resources -> Seq(Row)]
           /\ Len(rows'[r]) = Len(rows[r]) + 1
           /\ rows'[r][Len(rows[r]) + 1].position = req[p].position
           /\ rows'[r][Len(rows[r]) + 1].status = "QUEUED"
           /\ rows'[r][Len(rows[r]) + 1].member \in Members
           /\ \A i \in DOMAIN rows[r] : rows'[r][i] = rows[r][i]
           /\ \A s \in Resources : s # r => rows'[s] = rows[s]
  <1> DEFINE q == req[p]
             new == [member |-> q.member, position |-> q.position, status |-> "QUEUED"]
  <1>1. q \in EnqueueRequest /\ q.resource \in Resources /\ new \in Row
    BY RequestFields DEF TypeOK, EnqueueInsert, At, Request, Row, ReservationStatus, Insert
  <1>2. rows[q.resource] \in Seq(Row)
    BY <1>1 DEF TypeOK
  <1>3. rows' = [rows EXCEPT ![q.resource] = Append(rows[q.resource], new)]
    BY DEF EnqueueInsert, Insert
  <1>4. rows'[q.resource] = Append(rows[q.resource], new)
    BY <1>1, <1>3 DEF TypeOK
  <1>5. \A s \in Resources : s # q.resource => rows'[s] = rows[s]
    BY <1>1, <1>3 DEF TypeOK
  <1>6. Append(rows[q.resource], new) \in Seq(Row)
    BY <1>1, <1>2
  <1>7. rows' \in [Resources -> Seq(Row)]
    BY <1>1, <1>3, <1>6 DEF TypeOK
  <1>8. /\ Len(rows'[q.resource]) = Len(rows[q.resource]) + 1
        /\ rows'[q.resource][Len(rows[q.resource]) + 1] = new
    BY <1>2, <1>1, <1>4
  <1>9. \A i \in DOMAIN rows[q.resource] : rows'[q.resource][i] = rows[q.resource][i]
    BY <1>2, <1>1, <1>4
  <1>10. new.member \in Members
    BY <1>1 DEF Row
  <1> QED
    BY <1>1, <1>5, <1>7, <1>8, <1>9, <1>10

\* Where a request goes, the others stay where they are.
LEMMA GotoFrame ==
    ASSUME TypeOK, NEW p \in Procs, NEW r \in Request, Goto(p, r)
    PROVE  /\ req' \in [Procs -> Request]
           /\ req'[p] = r
           /\ \A q \in Procs : q # p => req'[q] = req[q]
  BY DEF TypeOK, Goto, Request

\* What cancel and markReadyForPickup leave: every row in its place, with the
\* status of the row written changed to one of two.
LEMMA AfterWrite ==
    ASSUME TypeOK, NEW p \in Procs, NEW op \in {"cancel", "ready"}, WriteRow(p, op)
    PROVE  LET r == req[p].resource
               i == req[p].row IN
           /\ r \in Resources
           /\ i \in DOMAIN rows[r]
           /\ rows' \in [Resources -> Seq(Row)]
           /\ \A s \in Resources : DOMAIN rows'[s] = DOMAIN rows[s]
           /\ \A s \in Resources : Len(rows'[s]) = Len(rows[s])
           /\ \A s \in Resources : \A j \in DOMAIN rows[s] :
                  rows'[s][j].position = rows[s][j].position
           /\ rows'[r][i].member = rows[r][i].member
           /\ rows'[r][i].status = UpdateTo(op)
           /\ rows'[r][i].status # "QUEUED"
           /\ \A s \in Resources : s # r => rows'[s] = rows[s]
           /\ \A j \in DOMAIN rows[r] : j # i => rows'[r][j] = rows[r][j]
  <1> DEFINE r == req[p].resource
             i == req[p].row
             row == [rows[r][i] EXCEPT !.status = UpdateTo(op)]
  <1>1. r \in Resources /\ req[p].op \in {"cancel", "ready"}
    BY RequestFields DEF TypeOK, WriteRow, At, Request
  <1>2. rows[r] \in Seq(Row) /\ i \in DOMAIN rows[r]
    BY <1>1 DEF TypeOK
  <1>3. rows[r][i] \in Row
    BY <1>2
  <1>4. /\ row \in Row
        /\ row.position = rows[r][i].position
        /\ row.member = rows[r][i].member
        /\ row.status = UpdateTo(op)
        /\ row.status # "QUEUED"
    BY <1>3 DEF Row, UpdateTo, ReservationStatus
  <1>5. rows' = [rows EXCEPT ![r] = [rows[r] EXCEPT ![i] = row]]
    BY DEF WriteRow
  <1>6. rows'[r] = [rows[r] EXCEPT ![i] = row]
    BY <1>1, <1>5 DEF TypeOK
  <1>7. /\ rows'[r] \in Seq(Row)
        /\ DOMAIN rows'[r] = DOMAIN rows[r]
        /\ Len(rows'[r]) = Len(rows[r])
        /\ rows'[r][i] = row
        /\ \A j \in DOMAIN rows[r] : j # i => rows'[r][j] = rows[r][j]
    BY <1>2, <1>4, <1>6
  <1>8. \A s \in Resources : s # r => rows'[s] = rows[s]
    BY <1>1, <1>5 DEF TypeOK
  <1>9. rows' \in [Resources -> Seq(Row)]
    BY <1>1, <1>5, <1>6, <1>7 DEF TypeOK
  <1>10. \A s \in Resources : DOMAIN rows'[s] = DOMAIN rows[s] /\ Len(rows'[s]) = Len(rows[s])
    BY <1>7, <1>8
  <1>11. \A j \in DOMAIN rows[r] : rows'[r][j].position = rows[r][j].position
    BY <1>4, <1>7
  <1>12. \A s \in Resources : \A j \in DOMAIN rows[s] :
            rows'[s][j].position = rows[s][j].position
    BY <1>8, <1>11
  <1> QED
    BY <1>1, <1>2, <1>4, <1>7, <1>8, <1>9, <1>10, <1>12

\* TypeOK is kept by a step that sends request p to r, provided that no queue
\* loses a row.
LEMMA TypeKept ==
    ASSUME TypeOK, NEW p \in Procs, NEW r \in Request, Goto(p, r),
           r.op \in {"cancel", "ready"} => r.row \in DOMAIN rows[r.resource],
           rows' \in [Resources -> Seq(Row)],
           \A s \in Resources : DOMAIN rows[s] \subseteq DOMAIN rows'[s],
           events' \in Seq(Resources \X Nat),
           requests' \in Nat
    PROVE  TypeOK'
  <1>1. /\ req' \in [Procs -> Request]
        /\ req'[p] = r
        /\ \A q \in Procs : q # p => req'[q] = req[q]
    BY GotoFrame
  <1>2. ASSUME NEW q \in Procs, req'[q].op \in {"cancel", "ready"}
        PROVE  req'[q].row \in DOMAIN rows'[req'[q].resource]
    <2>1. req'[q].resource \in Resources
      BY <1>1, <1>2, RequestFields
    <2>2. req'[q].row \in DOMAIN rows[req'[q].resource]
      BY <1>1, <1>2 DEF TypeOK
    <2> QED
      BY <2>1, <2>2
  <1> QED
    BY <1>1, <1>2 DEF TypeOK, Request

-----------------------------------------------------------------------------
LEMMA TypeInit == Init => TypeOK
  BY DEF Init, TypeOK, Request, Idle

\* Each step keeps every variable in its type and every request's row in place.
LEMMA TypeStep == TypeOK /\ [Next]_vars => TypeOK'
  <1> SUFFICES ASSUME TypeOK, [Next]_vars PROVE TypeOK'
    OBVIOUS
  <1>0. Idle \in Request /\ Idle.op = "none"
    BY DEF Request, Idle
  <1>1. ASSUME NEW p \in Procs, NEW r \in Resources, NEW m \in Members,
               EnqueueBegin(p, r, m)
        PROVE  TypeOK'
    <2> DEFINE q == Enqueuing("read", r, m, 0, 1)
    <2>1. q \in Request /\ q.op = "enqueue"
      BY DEF Enqueuing, EnqueueRequest, Request
    <2>2. Goto(p, q) /\ UNCHANGED <<rows, events>> /\ requests' \in Nat
      BY <1>1 DEF EnqueueBegin, Start, TypeOK
    <2> QED
      BY <2>1, <2>2, TypeKept DEF TypeOK
  <1>2. ASSUME NEW p \in Procs, EnqueueRead(p)
        PROVE  TypeOK'
    <2>1. PICK top \in ActivePositions(req[p].resource) \cup {0} :
             Goto(p, Enqueuing("insert", req[p].resource, req[p].member,
                               top + 1, req[p].attempt))
      BY <1>2 DEF EnqueueRead, ReadOn
    <2> DEFINE q == Enqueuing("insert", req[p].resource, req[p].member,
                              top + 1, req[p].attempt)
    <2>2. req[p].op = "enqueue" /\ req[p] \in Request
      BY <1>2 DEF EnqueueRead, At, TypeOK, Request, ReadOn
    <2>3. rows[req[p].resource] \in Seq(Row)
      BY <2>2, RequestFields DEF TypeOK
    <2>4. top \in Nat
      BY <2>1, <2>3, ActivePositionsFacts
    <2>5. q \in Request /\ q.op = "enqueue"
      BY <2>2, <2>4, RequestFields DEF Enqueuing, EnqueueRequest, Request
    <2>6. UNCHANGED <<rows, events, requests>>
      BY <1>2 DEF EnqueueRead, ReadOn
    <2> QED
      BY <2>1, <2>5, <2>6, TypeKept DEF TypeOK
  <1>3. ASSUME NEW p \in Procs, EnqueueInsert(p)
        PROVE  TypeOK'
    <2>1. Goto(p, Idle) /\ UNCHANGED <<events, requests>>
      BY <1>3 DEF EnqueueInsert, Insert
    <2>2. rows' \in [Resources -> Seq(Row)]
      BY <1>3, AfterInsert
    <2>3. \A s \in Resources : DOMAIN rows[s] \subseteq DOMAIN rows'[s]
      <3>1. \A s \in Resources : rows[s] \in Seq(Row) /\ rows'[s] \in Seq(Row)
        BY <2>2 DEF TypeOK
      <3>2. \A s \in Resources : Len(rows[s]) <= Len(rows'[s])
        BY <1>3, <3>1, AfterInsert
      <3> QED
        BY <3>1, <3>2
    <2> QED
      BY <1>0, <2>1, <2>2, <2>3, TypeKept DEF TypeOK
  <1>4. ASSUME NEW p \in Procs, EnqueueRetry(p)
        PROVE  TypeOK'
    <2> DEFINE q == Enqueuing("read", req[p].resource, req[p].member, 0, req[p].attempt + 1)
    <2>1. req[p].op = "enqueue" /\ req[p] \in Request
      BY <1>4 DEF EnqueueRetry, At, TypeOK, Request, MayRetry, ReadOn
    <2>2. q \in Request /\ q.op = "enqueue"
      BY <2>1, RequestFields DEF Enqueuing, EnqueueRequest, Request
    <2>3. Goto(p, q) /\ UNCHANGED <<rows, events, requests>>
      BY <1>4 DEF EnqueueRetry, MayRetry, ReadOn
    <2> QED
      BY <2>2, <2>3, TypeKept DEF TypeOK
  <1>5. ASSUME NEW p \in Procs, EnqueueGiveUp(p) \/ Abort(p)
        PROVE  TypeOK'
    <2>1. Goto(p, Idle) /\ UNCHANGED <<rows, events, requests>>
      BY <1>5 DEF EnqueueGiveUp, Abort, ReadOn
    <2> QED
      BY <1>0, <2>1, TypeKept DEF TypeOK
  <1>6. ASSUME NEW p \in Procs, NEW op \in {"cancel", "ready"}, NEW r \in Resources,
               NEW i \in DOMAIN rows[r], ReadRow(p, op, r, i)
        PROVE  TypeOK'
    <2> DEFINE q == Updating(op, r, i)
    <2>1. i \in Nat
      BY DEF TypeOK
    <2>2. q \in Request /\ q.resource = r /\ q.row = i
      BY <2>1 DEF Updating, UpdateRequest, Request
    <2>3. Goto(p, q) /\ UNCHANGED <<rows, events>> /\ requests' \in Nat
      BY <1>6 DEF ReadRow, Start, TypeOK
    <2> QED
      BY <2>2, <2>3, TypeKept DEF TypeOK
  <1>7. ASSUME NEW p \in Procs, NEW op \in {"cancel", "ready"}, WriteRow(p, op),
               \/ UNCHANGED events
               \/ events' = Append(events, <<req[p].resource, req[p].row>>)
        PROVE  TypeOK'
    <2>1. Goto(p, Idle) /\ UNCHANGED requests
      BY <1>7 DEF WriteRow
    <2>2. rows' \in [Resources -> Seq(Row)] /\ \A s \in Resources : DOMAIN rows'[s] = DOMAIN rows[s]
      BY <1>7, AfterWrite
    <2>3. req[p] \in Request /\ req[p].op \in {"cancel", "ready"}
      BY <1>7 DEF TypeOK, WriteRow, At, Request
    <2>4. <<req[p].resource, req[p].row>> \in Resources \X Nat
      BY <2>3, RequestFields
    <2>5. events' \in Seq(Resources \X Nat)
      BY <1>7, <2>4, AppendTyped DEF TypeOK
    <2> QED
      BY <1>0, <2>1, <2>2, <2>5, TypeKept DEF TypeOK
  <1>8. CASE UNCHANGED vars
    BY <1>8 DEF vars, TypeOK
  <1> QED
    BY <1>1, <1>2, <1>3, <1>4, <1>5, <1>6, <1>7, <1>8
    DEF Next, Begin, Continue, Cancel, MarkReady, MarkReadyDies

\* Every variable keeps its type, and no request ever names a reservation
\* that is not there.
THEOREM TypeCorrect == Spec => []TypeOK
  <1> QED
    BY TypeInit, TypeStep, PTL DEF Spec

-----------------------------------------------------------------------------
LEMMA InvInit == Init => IInv
  <1> SUFFICES ASSUME Init PROVE IInv
    OBVIOUS
  <1>1. ArrivalOrder
    BY DEF Init, ArrivalOrder
  <1>2. \A p \in Procs : EnqueueInv(p)
    BY DEF Init, EnqueueInv, At, Idle
  <1> QED
    BY <1>1, <1>2, TypeInit DEF IInv

\* A step of request p disturbs no other request's EnqueueInv, provided that
\* no queue gets shorter and a queue once touched stays so.
LEMMA OthersKept ==
    ASSUME IInv, TypeOK', NEW p \in Procs,
           \A q \in Procs : q # p => req'[q] = req[q],
           \A s \in Resources : Len(rows[s]) <= Len(rows'[s]),
           \A s \in Resources : Untouched(rows'[s]) => Untouched(rows[s]),
           NEW q \in Procs, q # p
    PROVE  EnqueueInv(q)'
  <1>1. req'[q] = req[q] /\ EnqueueInv(q)
    BY DEF IInv
  <1>2. CASE req[q].op = "enqueue"
    <2> DEFINE s == req[q].resource
    <2>1. s \in Resources /\ req[q].position \in Nat /\ req[q].attempt \in Nat
      BY <1>2, RequestFields DEF IInv, TypeOK, Request
    <2>2. Len(rows[s]) \in Nat /\ Len(rows'[s]) \in Nat
      BY <2>1 DEF IInv, TypeOK
    <2>3. Len(rows[s]) <= Len(rows'[s]) /\ (Untouched(rows'[s]) => Untouched(rows[s]))
      BY <2>1
    <2>4. ASSUME At(q, "enqueue", "insert")
          PROVE  /\ req[q].position \in 1 .. Len(rows'[s]) + 1
                 /\ Untouched(rows'[s]) => req[q].position >= req[q].attempt
      BY <1>1, <2>1, <2>2, <2>3, <2>4 DEF EnqueueInv
    <2>5. Untouched(rows'[s]) => Len(rows'[s]) >= req[q].attempt - 1
      BY <1>1, <1>2, <2>1, <2>2, <2>3 DEF EnqueueInv
    <2> HIDE DEF s
    <2> QED
      BY <1>1, <1>2, <2>4, <2>5 DEF EnqueueInv, At, s
  <1>3. CASE req[q].op # "enqueue"
    BY <1>1, <1>3 DEF EnqueueInv, At
  <1> QED
    BY <1>2, <1>3

\* The same for a step that leaves the rows alone.
LEMMA RowsUnchanged ==
    ASSUME IInv, TypeOK', NEW p \in Procs, UNCHANGED rows,
           \A q \in Procs : q # p => req'[q] = req[q],
           EnqueueInv(p)'
    PROVE  IInv'
  <1>1. \A s \in Resources : Len(rows[s]) <= Len(rows'[s])
    BY DEF IInv, TypeOK
  <1>2. \A s \in Resources : Untouched(rows'[s]) => Untouched(rows[s])
    BY DEF Untouched
  <1>3. \A q \in Procs : q # p => EnqueueInv(q)'
    BY <1>1, <1>2, OthersKept
  <1>4. ArrivalOrder'
    BY DEF IInv, ArrivalOrder
  <1> QED
    BY <1>3, <1>4 DEF IInv

LEMMA InvStep == IInv /\ [Next]_vars => IInv'
  <1> SUFFICES ASSUME IInv, [Next]_vars PROVE IInv'
    OBVIOUS
  <1>0. TypeOK /\ TypeOK' /\ Idle \in Request /\ Idle.op = "none"
    BY TypeStep DEF IInv, Request, Idle
  <1>1. ASSUME NEW p \in Procs, NEW r \in Resources, NEW m \in Members,
               EnqueueBegin(p, r, m)
        PROVE  IInv'
    <2> DEFINE q == Enqueuing("read", r, m, 0, 1)
    <2>1. q \in Request /\ q.at = "read" /\ q.attempt = 1 /\ q.resource = r
      BY DEF Enqueuing, EnqueueRequest, Request
    <2>2. req'[p] = q /\ (\A o \in Procs : o # p => req'[o] = req[o]) /\ UNCHANGED rows
      BY <1>0, <1>1, <2>1, GotoFrame DEF EnqueueBegin, Start
    <2>3. Len(rows'[r]) \in Nat
      BY <1>0 DEF TypeOK
    <2>4. EnqueueInv(p)'
      BY <2>1, <2>2, <2>3 DEF EnqueueInv, At
    <2> QED
      BY <1>0, <2>2, <2>4, RowsUnchanged
  <1>2. ASSUME NEW p \in Procs, EnqueueRead(p)
        PROVE  IInv'
    <2> DEFINE r == req[p].resource
               n == Len(rows[r])
    <2>1. /\ req[p].op = "enqueue"
          /\ r \in Resources /\ req[p].member \in Members /\ req[p].attempt \in Nat
      BY <1>0, <1>2, RequestFields DEF EnqueueRead, At, TypeOK, Request, ReadOn
    <2>2. rows[r] \in Seq(Row) /\ n \in Nat /\ DOMAIN rows[r] = 1 .. n
      BY <1>0, <2>1 DEF TypeOK
    <2>3. PICK top \in ActivePositions(r) \cup {0} :
             /\ \A pos \in ActivePositions(r) : pos <= top
             /\ Goto(p, Enqueuing("insert", r, req[p].member, top + 1, req[p].attempt))
      BY <1>2 DEF EnqueueRead, ReadOn
    <2> DEFINE q == Enqueuing("insert", r, req[p].member, top + 1, req[p].attempt)
    <2>4. top \in 0 .. n
      BY <2>1, <2>2, <2>3, ActivePositionsFacts DEF IInv, ArrivalOrder
    <2>5. q \in Request /\ q.resource = r /\ q.position = top + 1
                       /\ q.attempt = req[p].attempt
      BY <2>1, <2>4 DEF Enqueuing, EnqueueRequest, Request
    <2>6. req'[p] = q /\ (\A o \in Procs : o # p => req'[o] = req[o]) /\ UNCHANGED rows
      BY <1>0, <1>2, <2>3, <2>5, GotoFrame DEF EnqueueRead, ReadOn
    <2>7. ASSUME Untouched(rows[r]) PROVE top = n
      <3>1. CASE n = 0
        BY <2>4, <3>1
      <3>2. CASE n # 0
        <4>1. n \in DOMAIN rows[r]
          BY <2>2, <3>2
        <4>2. rows[r][n].position = n /\ Active(rows[r][n].status)
          BY <2>1, <2>7, <4>1 DEF IInv, ArrivalOrder, Untouched, Active
        <4>3. n \in ActivePositions(r)
          BY <2>2, <4>1, <4>2, ActivePositionsFacts
        <4> QED
          BY <2>2, <2>3, <2>4, <4>3
      <3> QED
        BY <3>1, <3>2
    <2>8. Untouched(rows[r]) => n >= req[p].attempt - 1
      BY <2>1 DEF IInv, EnqueueInv
    <2>9. Untouched(rows'[r]) => Untouched(rows[r])
      BY <2>6 DEF Untouched
    <2>10. EnqueueInv(p)'
      BY <2>1, <2>2, <2>4, <2>5, <2>6, <2>7, <2>8, <2>9 DEF EnqueueInv, At
    <2> QED
      BY <1>0, <2>6, <2>10, RowsUnchanged
  <1>3. ASSUME NEW p \in Procs, EnqueueInsert(p)
        PROVE  IInv'
    <2> DEFINE r == req[p].resource
               n == Len(rows[r])
    <2>1. /\ r \in Resources
          /\ Len(rows'[r]) = n + 1
          /\ rows'[r][n + 1].position = req[p].position
          /\ rows'[r][n + 1].status = "QUEUED"
          /\ \A i \in DOMAIN rows[r] : rows'[r][i] = rows[r][i]
          /\ \A s \in Resources : s # r => rows'[s] = rows[s]
      BY <1>0, <1>3, AfterInsert
    <2>2. \A s \in Resources : /\ Len(rows[s]) \in Nat /\ DOMAIN rows[s] = 1 .. Len(rows[s])
                               /\ Len(rows'[s]) \in Nat /\ DOMAIN rows'[s] = 1 .. Len(rows'[s])
      BY <1>0 DEF TypeOK
    <2>3. req[p].position = n + 1
      <3>1. req[p].position \in 1 .. n + 1
        BY <1>3 DEF IInv, EnqueueInv, EnqueueInsert, Insert
      <3>2. \A i \in 1 .. n : rows[r][i].position = i
        BY <2>1, <2>2 DEF IInv, ArrivalOrder
      <3>3. req[p].position \notin 1 .. n
        BY <1>3, <2>1, <2>2, <3>2 DEF EnqueueInsert, Collides, Insert
      <3> QED
        BY <2>1, <2>2, <3>1, <3>3
    <2>4. ArrivalOrder'
      <3>1. ASSUME NEW i \in DOMAIN rows'[r] PROVE rows'[r][i].position = i
        <4>1. CASE i = n + 1
          BY <2>1, <2>3, <4>1
        <4>2. CASE i # n + 1
          <5>1. i \in DOMAIN rows[r]
            BY <2>1, <2>2, <3>1, <4>2
          <5> QED
            BY <2>1, <5>1 DEF IInv, ArrivalOrder
        <4> QED
          BY <4>1, <4>2
      <3> QED
        BY <2>1, <3>1 DEF IInv, ArrivalOrder
    <2>5. \A s \in Resources : Len(rows[s]) <= Len(rows'[s])
      BY <2>1, <2>2
    <2>6. \A s \in Resources : Untouched(rows'[s]) => Untouched(rows[s])
      BY <2>1, <2>2, <2>5 DEF Untouched
    <2>7. req'[p] = Idle /\ \A o \in Procs : o # p => req'[o] = req[o]
      BY <1>0, <1>3, GotoFrame DEF EnqueueInsert, Insert
    <2>8. EnqueueInv(p)'
      BY <1>0, <2>7 DEF EnqueueInv, At
    <2> QED
      BY <1>0, <2>4, <2>5, <2>6, <2>7, <2>8, OthersKept DEF IInv
  <1>4. ASSUME NEW p \in Procs, EnqueueRetry(p)
        PROVE  IInv'
    <2> DEFINE r == req[p].resource
               n == Len(rows[r])
               q == Enqueuing("read", r, req[p].member, 0, req[p].attempt + 1)
    <2>1. /\ req[p].op = "enqueue" /\ r \in Resources
          /\ req[p].member \in Members /\ req[p].attempt \in Nat
      BY <1>0, <1>4, RequestFields DEF EnqueueRetry, At, TypeOK, Request, MayRetry, ReadOn
    <2>2. q \in Request /\ q.at = "read" /\ q.resource = r
                       /\ q.attempt = req[p].attempt + 1
      BY <2>1 DEF Enqueuing, EnqueueRequest, Request
    <2>3. req'[p] = q /\ (\A o \in Procs : o # p => req'[o] = req[o]) /\ UNCHANGED rows
      BY <1>0, <1>4, <2>2, GotoFrame DEF EnqueueRetry, MayRetry, ReadOn
    <2>4. n \in Nat /\ DOMAIN rows[r] = 1 .. n
      BY <1>0, <2>1 DEF TypeOK
    <2>5. req[p].position \in 1 .. n
      BY <1>4, <2>1, <2>4 DEF EnqueueRetry, Collides, IInv, ArrivalOrder, MayRetry, ReadOn
    <2>6. Untouched(rows[r]) => req[p].position >= req[p].attempt
      BY <1>4 DEF IInv, EnqueueInv, EnqueueRetry, MayRetry, ReadOn
    <2>7. EnqueueInv(p)'
      BY <2>1, <2>2, <2>3, <2>4, <2>5, <2>6 DEF EnqueueInv, At
    <2> QED
      BY <1>0, <2>3, <2>7, RowsUnchanged
  <1>5. ASSUME NEW p \in Procs, EnqueueGiveUp(p) \/ Abort(p)
        PROVE  IInv'
    <2>1. Goto(p, Idle) /\ UNCHANGED rows
      BY <1>5 DEF EnqueueGiveUp, Abort, ReadOn
    <2>2. req'[p] = Idle /\ \A o \in Procs : o # p => req'[o] = req[o]
      BY <1>0, <2>1, GotoFrame
    <2>3. EnqueueInv(p)'
      BY <1>0, <2>2 DEF EnqueueInv, At
    <2> QED
      BY <1>0, <2>1, <2>2, <2>3, RowsUnchanged
  <1>6. ASSUME NEW p \in Procs, NEW op \in {"cancel", "ready"}, NEW r \in Resources,
               NEW i \in DOMAIN rows[r], ReadRow(p, op, r, i)
        PROVE  IInv'
    <2> DEFINE q == Updating(op, r, i)
    <2>1. i \in Nat
      BY <1>0 DEF TypeOK
    <2>2. q \in Request /\ q.op # "enqueue"
      BY <2>1 DEF Updating, UpdateRequest, Request
    <2>3. req'[p] = q /\ (\A o \in Procs : o # p => req'[o] = req[o]) /\ UNCHANGED rows
      BY <1>0, <1>6, <2>2, GotoFrame DEF ReadRow, Start
    <2>4. EnqueueInv(p)'
      BY <2>2, <2>3 DEF EnqueueInv, At
    <2> QED
      BY <1>0, <2>3, <2>4, RowsUnchanged
  <1>7. ASSUME NEW p \in Procs, NEW op \in {"cancel", "ready"}, WriteRow(p, op)
        PROVE  IInv'
    <2> DEFINE r == req[p].resource
               i == req[p].row
    <2>1. /\ r \in Resources
          /\ i \in DOMAIN rows[r]
          /\ \A s \in Resources : DOMAIN rows'[s] = DOMAIN rows[s]
          /\ \A s \in Resources : Len(rows'[s]) = Len(rows[s])
          /\ \A s \in Resources : \A j \in DOMAIN rows[s] :
                 rows'[s][j].position = rows[s][j].position
          /\ rows'[r][i].status # "QUEUED"
          /\ \A s \in Resources : s # r => rows'[s] = rows[s]
      BY <1>0, <1>7, AfterWrite
    <2>2. \A s \in Resources : Len(rows[s]) <= Len(rows'[s])
      BY <1>0, <2>1 DEF TypeOK
    <2>3. \A s \in Resources : Untouched(rows'[s]) => Untouched(rows[s])
      BY <2>1 DEF Untouched
    <2>4. ArrivalOrder'
      BY <2>1 DEF IInv, ArrivalOrder
    <2>5. req'[p] = Idle /\ \A o \in Procs : o # p => req'[o] = req[o]
      BY <1>0, <1>7, GotoFrame DEF WriteRow
    <2>6. EnqueueInv(p)'
      BY <1>0, <2>5 DEF EnqueueInv, At
    <2> QED
      BY <1>0, <2>2, <2>3, <2>4, <2>5, <2>6, OthersKept DEF IInv
  <1>8. CASE UNCHANGED vars
    BY <1>0, <1>8 DEF vars, IInv, ArrivalOrder, EnqueueInv, At, Untouched
  <1> QED
    BY <1>1, <1>2, <1>3, <1>4, <1>5, <1>6, <1>7, <1>8
    DEF Next, Begin, Continue, Cancel, MarkReady, MarkReadyDies

LEMMA InvAlways == Spec => []IInv
  <1> QED
    BY InvInit, InvStep, PTL DEF Spec

\* The i-th reservation ever made of a resource has position i, however many
\* requests race: the positions of a queue are distinct and gapless, and
\* serve reservations in the order of arrival.
THEOREM ArrivalOrderHolds == Spec => []ArrivalOrder
  <1>1. IInv => ArrivalOrder
    BY DEF IInv
  <1> QED
    BY <1>1, InvAlways, PTL

\* In a queue nobody has left, the n-th attempt of an enqueue has at least
\* n - 1 reservations before it.
THEOREM RetriesHaveRivalsHolds == Spec => []RetriesHaveRivals
  <1>1. IInv => RetriesHaveRivals
    BY DEF IInv, RetriesHaveRivals, EnqueueInv, Untouched
  <1> QED
    BY <1>1, InvAlways, PTL

\* Two reservations of one resource never have the same position.
THEOREM PositionsUnique ==
    Spec => [](\A r \in Resources : \A i, j \in DOMAIN rows[r] :
                  rows[r][i].position = rows[r][j].position => i = j)
  <1>1. ArrivalOrder => \A r \in Resources : \A i, j \in DOMAIN rows[r] :
                  rows[r][i].position = rows[r][j].position => i = j
    BY DEF ArrivalOrder
  <1> QED
    BY <1>1, ArrivalOrderHolds, PTL

\* MAX_ENQUEUE_ATTEMPTS is enough for that many rivals: in a queue nobody has
\* left, an enqueue gives up only when MaxAttempts reservations are before it.
THEOREM DefeatNeedsRivals ==
    Spec => [][\A p \in Procs :
                  (EnqueueGiveUp(p) /\ Untouched(rows[req[p].resource])) =>
                      Len(rows[req[p].resource]) >= MaxAttempts]_vars
  <1>1. ASSUME IInv, NEW p \in Procs, EnqueueGiveUp(p), Untouched(rows[req[p].resource])
        PROVE  Len(rows[req[p].resource]) >= MaxAttempts
    <2> DEFINE r == req[p].resource
    <2>1. req[p].op = "enqueue" /\ req[p].attempt = MaxAttempts /\ r \in Resources
      BY <1>1, RequestFields DEF IInv, TypeOK, EnqueueGiveUp, At, ReadOn
    <2>2. Len(rows[r]) \in Nat /\ DOMAIN rows[r] = 1 .. Len(rows[r])
      BY <1>1, <2>1 DEF IInv, TypeOK
    <2>3. req[p].position \in 1 .. Len(rows[r])
      BY <1>1, <2>1, <2>2 DEF EnqueueGiveUp, Collides, IInv, ArrivalOrder, ReadOn
    <2>4. req[p].position >= req[p].attempt
      BY <1>1 DEF IInv, EnqueueInv, EnqueueGiveUp, ReadOn
    <2> QED
      BY <2>1, <2>2, <2>3, <2>4, ReservationQueueAssumption
  <1>2. IInv /\ [Next]_vars =>
           [\A p \in Procs :
               (EnqueueGiveUp(p) /\ Untouched(rows[req[p].resource])) =>
                   Len(rows[req[p].resource]) >= MaxAttempts]_vars
    BY <1>1
  <1> QED
    BY <1>2, InvAlways, PTL DEF Spec

-----------------------------------------------------------------------------
\* The service when no two requests update one reservation at a time.

\* What update q has read of its row is so in the tables t: the move is legal.
StillLegal(q, t) ==
    q.op \in {"cancel", "ready"} =>
        IsLegal(ReservationTransitions, t[q.resource][q.row].status, UpdateTo(q.op))

\* A reservation that was announced has left QUEUED, which no reservation enters
\* again.
AnnouncedLeft ==
    \A k \in DOMAIN events :
        /\ events[k][2] \in DOMAIN rows[events[k][1]]
        /\ rows[events[k][1]][events[k][2]].status # "QUEUED"

SerialInv ==
    /\ TypeOK
    /\ Serialised
    /\ \A p \in Procs : StillLegal(req[p], rows)
    /\ AnnouncedLeft
    /\ AnnouncedOnce

\* A step that sends request p to r and leaves the rows there are as they are.
LEMMA SerialKept ==
    ASSUME SerialInv, TypeOK', NEW p \in Procs, NEW r \in Request, Goto(p, r),
           events' = events, StillLegal(r, rows),
           r.op \in {"cancel", "ready"} =>
               Serialised' /\ r.row \in DOMAIN rows[r.resource],
           \A s \in Resources : \A i \in DOMAIN rows[s] :
               i \in DOMAIN rows'[s] /\ rows'[s][i] = rows[s][i]
    PROVE  SerialInv'
  <1>1. /\ req'[p] = r
        /\ \A q \in Procs : q # p => req'[q] = req[q]
    BY GotoFrame DEF SerialInv
  <1>2. Serialised'
    <2>1. CASE r.op \in {"cancel", "ready"}
      BY <2>1
    <2>2. CASE r.op \notin {"cancel", "ready"}
      BY <1>1, <2>2 DEF SerialInv, Serialised
    <2> QED
      BY <2>1, <2>2
  <1>3. ASSUME NEW q \in Procs PROVE StillLegal(req'[q], rows')
    <2>1. StillLegal(req'[q], rows)
      BY <1>1 DEF SerialInv
    <2>2. req'[q].op \in {"cancel", "ready"} =>
              /\ req'[q].resource \in Resources
              /\ req'[q].row \in DOMAIN rows[req'[q].resource]
      BY <1>1, RequestFields DEF SerialInv, TypeOK
    <2> QED
      BY <2>1, <2>2 DEF StillLegal
  <1>4. AnnouncedLeft' /\ AnnouncedOnce'
    <2>1. \A k \in DOMAIN events : events[k][1] \in Resources
      BY DEF SerialInv, TypeOK
    <2> QED
      BY <2>1 DEF SerialInv, AnnouncedLeft, AnnouncedOnce
  <1> QED
    BY <1>2, <1>3, <1>4 DEF SerialInv

\* An update moves its row legally, and no other request has it in hand.
LEMMA WriteSerial ==
    ASSUME SerialInv, TypeOK', NEW p \in Procs, NEW op \in {"cancel", "ready"},
           WriteRow(p, op),
           \/ UNCHANGED events
           \/ op = "ready" /\ events' = Append(events, <<req[p].resource, req[p].row>>)
    PROVE  /\ SerialInv'
           /\ \A r \in Resources : \A i \in DOMAIN rows[r] :
                  rows'[r][i].status # rows[r][i].status =>
                      IsLegal(ReservationTransitions, rows[r][i].status, rows'[r][i].status)
  <1>0. Idle \in Request /\ Idle.op = "none"
    BY DEF Request, Idle
  <1>1. /\ req'[p] = Idle
        /\ \A q \in Procs : q # p => req'[q] = req[q]
    BY <1>0, GotoFrame DEF SerialInv, WriteRow
  <1>2. PICK r \in Resources : r = req[p].resource
    BY AfterWrite DEF SerialInv
  <1>3. PICK i \in DOMAIN rows[r] : i = req[p].row
    BY <1>2, AfterWrite DEF SerialInv
  <1>4. /\ \A s \in Resources : DOMAIN rows'[s] = DOMAIN rows[s]
        /\ rows'[r][i].status = UpdateTo(op)
        /\ rows'[r][i].status # "QUEUED"
        /\ \A s \in Resources : \A j \in DOMAIN rows[s] :
               <<s, j>> # <<r, i>> => rows'[s][j] = rows[s][j]
    BY <1>2, <1>3, AfterWrite DEF SerialInv
  <1>5. req[p].op = op
    BY DEF WriteRow, At
  <1>6. IsLegal(ReservationTransitions, rows[r][i].status, UpdateTo(op))
    BY <1>2, <1>3, <1>5 DEF SerialInv, StillLegal
  <1>7. Serialised'
    BY <1>0, <1>1 DEF SerialInv, Serialised
  <1>8. ASSUME NEW q \in Procs PROVE StillLegal(req'[q], rows')
    <2>1. CASE q = p
      BY <1>0, <1>1, <2>1 DEF StillLegal
    <2>2. CASE q # p /\ req[q].op \in {"cancel", "ready"}
      <3>1. <<req[q].resource, req[q].row>> # <<r, i>>
        BY <1>2, <1>3, <1>5, <2>2 DEF SerialInv, Serialised
      <3>2. req[q].resource \in Resources /\ req[q].row \in DOMAIN rows[req[q].resource]
        BY <2>2, RequestFields DEF SerialInv, TypeOK
      <3>3. rows'[req[q].resource][req[q].row] = rows[req[q].resource][req[q].row]
        BY <1>4, <3>1, <3>2
      <3>4. StillLegal(req[q], rows)
        BY DEF SerialInv
      <3> QED
        BY <1>1, <2>2, <3>3, <3>4 DEF StillLegal
    <2>3. CASE q # p /\ req[q].op \notin {"cancel", "ready"}
      BY <1>1, <2>3 DEF StillLegal
    <2> QED
      BY <2>1, <2>2, <2>3
  <1>9. /\ events \in Seq(Resources \X Nat)
        /\ \A k \in DOMAIN events : /\ events[k][1] \in Resources
                                    /\ events[k] = <<events[k][1], events[k][2]>>
    BY DEF SerialInv, TypeOK
  <1>10. \A k \in DOMAIN events :
            /\ events[k][2] \in DOMAIN rows'[events[k][1]]
            /\ rows'[events[k][1]][events[k][2]].status # "QUEUED"
    <2> TAKE k \in DOMAIN events
    <2>1. PICK s \in Resources, j \in {events[k][2]} : events[k] = <<s, j>>
      BY <1>9
    <2>2. j \in DOMAIN rows[s] /\ rows[s][j].status # "QUEUED"
      BY <2>1 DEF SerialInv, AnnouncedLeft
    <2>3. j \in DOMAIN rows'[s] /\ rows'[s][j].status # "QUEUED"
      BY <1>4, <2>2
    <2> QED
      BY <2>1, <2>3
  <1>11. AnnouncedLeft' /\ AnnouncedOnce'
    <2>1. CASE UNCHANGED events
      BY <1>10, <2>1 DEF SerialInv, AnnouncedLeft, AnnouncedOnce
    <2>2. CASE op = "ready" /\ events' = Append(events, <<r, i>>)
      <3>1. rows[r][i].status = "QUEUED"
        <4>1. rows[r][i] \in Row
          BY DEF SerialInv, TypeOK
        <4>2. rows[r][i].status \in ReservationStatus
          BY <4>1 DEF Row
        <4> QED
          BY <1>6, <2>2, <4>2
             DEF IsLegal, UpdateTo, ReservationTransitions, ReservationStatus
      <3>2. \A k \in DOMAIN events : events[k] # <<r, i>>
        <4> SUFFICES ASSUME NEW k \in DOMAIN events, events[k] = <<r, i>> PROVE FALSE
          OBVIOUS
        <4> QED
          BY <3>1 DEF SerialInv, AnnouncedLeft
      <3>3. i \in Nat
        BY DEF SerialInv, TypeOK
      <3>4. /\ DOMAIN events = 1 .. Len(events) /\ Len(events) \in Nat
            /\ DOMAIN events' = 1 .. Len(events) + 1
            /\ events'[Len(events) + 1] = <<r, i>>
            /\ \A k \in DOMAIN events : events'[k] = events[k]
        BY <1>9, <2>2, <3>3
      <3>5. AnnouncedOnce'
        BY <3>2, <3>4 DEF SerialInv, AnnouncedOnce
      <3>6. ASSUME NEW k \in DOMAIN events'
            PROVE  /\ events'[k][2] \in DOMAIN rows'[events'[k][1]]
                   /\ rows'[events'[k][1]][events'[k][2]].status # "QUEUED"
        <4>1. CASE k \in DOMAIN events
          BY <1>10, <3>4, <4>1
        <4>2. CASE k = Len(events) + 1
          BY <1>4, <3>4, <4>2
        <4> QED
          BY <3>4, <4>1, <4>2
      <3> QED
        BY <3>5, <3>6 DEF AnnouncedLeft
    <2> QED
      BY <1>2, <1>3, <2>1, <2>2
  <1>12. SerialInv'
    BY <1>7, <1>8, <1>11 DEF SerialInv
  <1> QED
    BY <1>4, <1>6, <1>12

\* A step of a request, and the moves it makes.
LEMMA SerialStep ==
    SerialInv /\ [SerialNext]_vars =>
        /\ SerialInv'
        /\ [\A r \in Resources : \A i \in DOMAIN rows[r] :
               rows'[r][i].status # rows[r][i].status =>
                   IsLegal(ReservationTransitions, rows[r][i].status, rows'[r][i].status)]_vars
  <1> DEFINE Legal == \A r \in Resources : \A i \in DOMAIN rows[r] :
                rows'[r][i].status # rows[r][i].status =>
                    IsLegal(ReservationTransitions, rows[r][i].status, rows'[r][i].status)
  <1> SUFFICES ASSUME SerialInv, [SerialNext]_vars PROVE SerialInv' /\ (Legal \/ UNCHANGED vars)
    OBVIOUS
  <1>0. Idle \in Request /\ Idle.op = "none"
    BY DEF Request, Idle
  <1>1. TypeOK /\ TypeOK'
    BY TypeStep DEF SerialInv, SerialNext, Next
  <1>2. ASSUME rows' = rows PROVE Legal
    BY <1>2
  <1>3. ASSUME NEW p \in Procs, NEW r \in Resources, NEW m \in Members,
               EnqueueBegin(p, r, m)
        PROVE  SerialInv' /\ Legal
    <2> DEFINE q == Enqueuing("read", r, m, 0, 1)
    <2>1. q \in Request /\ q.op = "enqueue"
      BY DEF Enqueuing, EnqueueRequest, Request
    <2>2. Goto(p, q) /\ UNCHANGED <<rows, events>>
      BY <1>3 DEF EnqueueBegin, Start
    <2> QED
      BY <1>1, <1>2, <2>1, <2>2, SerialKept DEF StillLegal
  <1>4. ASSUME NEW p \in Procs, NEW q, q.op \in {"enqueue", "none"}, ReadOn(p, q)
        PROVE  SerialInv' /\ Legal
    <2>1. q \in Request
      BY <1>1, <1>4 DEF TypeOK, ReadOn, Goto
    <2> QED
      BY <1>1, <1>2, <1>4, <2>1, SerialKept DEF StillLegal, ReadOn
  <1>5. ASSUME NEW p \in Procs, EnqueueRead(p) \/ EnqueueRetry(p) \/ EnqueueGiveUp(p) \/ Abort(p)
        PROVE  SerialInv' /\ Legal
    <2>1. \A at, r, m, pos, n : Enqueuing(at, r, m, pos, n).op = "enqueue"
      BY DEF Enqueuing
    <2>2. CASE EnqueueRead(p)
      BY <1>4, <2>1, <2>2 DEF EnqueueRead
    <2>3. CASE EnqueueRetry(p)
      BY <1>4, <2>1, <2>3 DEF EnqueueRetry
    <2>4. CASE EnqueueGiveUp(p) \/ Abort(p)
      BY <1>0, <1>4, <2>4 DEF EnqueueGiveUp, Abort
    <2> QED
      BY <1>5, <2>2, <2>3, <2>4
  <1>6. ASSUME NEW p \in Procs, EnqueueInsert(p)
        PROVE  SerialInv' /\ Legal
    <2>1. Goto(p, Idle) /\ UNCHANGED events
      BY <1>6 DEF EnqueueInsert, Insert
    <2>2. \A s \in Resources : \A i \in DOMAIN rows[s] :
              i \in DOMAIN rows'[s] /\ rows'[s][i] = rows[s][i]
      <3>1. \A s \in Resources : rows[s] \in Seq(Row) /\ rows'[s] \in Seq(Row)
        BY <1>1 DEF TypeOK
      <3>2. \A s \in Resources : Len(rows[s]) <= Len(rows'[s])
        BY <1>1, <1>6, <3>1, AfterInsert
      <3>3. \A s \in Resources : \A i \in DOMAIN rows[s] : rows'[s][i] = rows[s][i]
        BY <1>1, <1>6, AfterInsert
      <3> QED
        BY <3>1, <3>2, <3>3
    <2>3. Legal
      BY <2>2
    <2> QED
      BY <1>0, <1>1, <2>1, <2>2, <2>3, SerialKept DEF StillLegal
  <1>7. ASSUME NEW p \in Procs, NEW op \in {"cancel", "ready"}, NEW r \in Resources,
               NEW i \in DOMAIN rows[r], ReadRow(p, op, r, i), Serialised'
        PROVE  SerialInv' /\ Legal
    <2> DEFINE q == Updating(op, r, i)
    <2>1. i \in Nat
      BY <1>1 DEF TypeOK
    <2>2. q \in Request /\ q.resource = r /\ q.row = i /\ q.op = op
      BY <2>1 DEF Updating, UpdateRequest, Request
    <2>3. Goto(p, q) /\ UNCHANGED <<rows, events>>
      BY <1>7 DEF ReadRow, Start
    <2>4. StillLegal(q, rows)
      BY <1>7, <2>2 DEF ReadRow, StillLegal
    <2> HIDE DEF q
    <2> QED
      BY <1>1, <1>2, <1>7, <2>2, <2>3, <2>4, SerialKept
  <1>8. ASSUME NEW p \in Procs, Cancel(p) \/ MarkReady(p) \/ MarkReadyDies(p)
        PROVE  SerialInv' /\ Legal
    BY <1>1, <1>8, WriteSerial DEF Cancel, MarkReady, MarkReadyDies
  <1>9. ASSUME UNCHANGED vars PROVE SerialInv'
    BY <1>1, <1>9 DEF vars, SerialInv, Serialised, StillLegal, AnnouncedLeft, AnnouncedOnce
  <1> QED
    BY <1>3, <1>5, <1>6, <1>7, <1>8, <1>9 DEF SerialNext, Begin, Continue

LEMMA SerialInvariance == SerialSpec => []SerialInv
  <1>1. Init => SerialInv
    BY TypeInit
       DEF Init, SerialInv, Serialised, StillLegal, AnnouncedLeft, AnnouncedOnce, Idle
  <1> QED
    BY <1>1, SerialStep, PTL DEF SerialSpec

\* When no two requests update one reservation at a time, it is announced as
\* ready at most once.
THEOREM AnnouncedOnceHolds == SerialSpec => []AnnouncedOnce
  BY SerialInvariance, PTL DEF SerialInv

\* ... and moves along RESERVATION_TRANSITIONS only.
THEOREM ReservationMovesLegalHolds == SerialSpec => ReservationMovesLegal
  BY SerialInvariance, SerialStep, PTL DEF SerialSpec, ReservationMovesLegal

-----------------------------------------------------------------------------
\* What the rest of the library sees of the queue: who is waiting for what.
Waiting ==
    {h \in Resources \X Members :
        \E i \in DOMAIN rows[h[1]] : rows[h[1]][i].member = h[2] /\ Active(rows[h[1]][i].status)}

\* A set of which at most one member came or went.
OneApart(S, T) ==
    \/ T = S
    \/ \E r \in Resources, m \in Members :
          \/ <<r, m>> \notin S /\ T = S \cup {<<r, m>>}
          \/ <<r, m>> \in S /\ T = S \ {<<r, m>>}

LEMMA OneApartFrom ==
    ASSUME NEW S \in SUBSET (Resources \X Members), NEW T \in SUBSET (Resources \X Members),
           NEW r \in Resources, NEW m \in Members,
           \A h \in Resources \X Members : h # <<r, m>> => (h \in T <=> h \in S)
    PROVE  OneApart(S, T)
  <1>1. CASE <<r, m>> \in S /\ <<r, m>> \notin T
    <2>1. T = S \ {<<r, m>>}
      BY <1>1
    <2> QED
      BY <1>1, <2>1 DEF OneApart
  <1>2. CASE <<r, m>> \notin S /\ <<r, m>> \in T
    <2>1. T = S \cup {<<r, m>>}
      BY <1>2
    <2> QED
      BY <1>2, <2>1 DEF OneApart
  <1>3. CASE <<r, m>> \in S <=> <<r, m>> \in T
    <2>1. T = S
      BY <1>3
    <2> QED
      BY <2>1 DEF OneApart
  <1> QED
    BY <1>1, <1>2, <1>3

\* One row that changes moves one member at most.
LEMMA RowMovesOne ==
    ASSUME NEW r \in Resources, NEW i, NEW m \in Members,
           i \in DOMAIN rows[r] => rows[r][i].member = m,
           i \in DOMAIN rows'[r] /\ rows'[r][i].member = m,
           \A j : j # i => /\ j \in DOMAIN rows'[r] <=> j \in DOMAIN rows[r]
                           /\ j \in DOMAIN rows[r] => rows'[r][j] = rows[r][j],
           \A s \in Resources : s # r => rows'[s] = rows[s]
    PROVE  OneApart(Waiting, Waiting')
  <1>1. ASSUME NEW h \in Resources \X Members, h # <<r, m>>
        PROVE  h \in Waiting' <=> h \in Waiting
    <2>1. h[1] \in Resources /\ h[2] \in Members /\ h = <<h[1], h[2]>>
      BY <1>1
    <2>2. CASE h[1] # r
      BY <2>1, <2>2 DEF Waiting
    <2>3. CASE h[1] = r
      <3>1. h[2] # m
        BY <1>1, <2>1, <2>3
      <3>2. \A j : (j \in DOMAIN rows'[r] /\ rows'[r][j].member = h[2] /\ Active(rows'[r][j].status))
                 <=> (j \in DOMAIN rows[r] /\ rows[r][j].member = h[2] /\ Active(rows[r][j].status))
        BY <3>1
      <3> QED
        BY <2>3, <3>2 DEF Waiting
    <2> QED
      BY <2>2, <2>3
  <1>2. Waiting \subseteq Resources \X Members /\ Waiting' \subseteq Resources \X Members
    BY DEF Waiting
  <1> QED
    BY <1>1, <1>2, OneApartFrom

\* Each step of the queue lets one member wait for one resource more, or less,
\* or none.
THEOREM WaitingStep == TypeOK /\ [Next]_vars => OneApart(Waiting, Waiting')
  <1> SUFFICES ASSUME TypeOK, [Next]_vars PROVE OneApart(Waiting, Waiting')
    OBVIOUS
  <1>1. CASE UNCHANGED rows
    BY <1>1 DEF OneApart, Waiting
  <1>2. ASSUME NEW p \in Procs, EnqueueInsert(p)
        PROVE  OneApart(Waiting, Waiting')
    <2> DEFINE r == req[p].resource
               i == Len(rows[r]) + 1
               m == rows'[r][i].member
    <2>1. /\ r \in Resources /\ m \in Members
          /\ rows' \in [Resources -> Seq(Row)]
          /\ Len(rows'[r]) = Len(rows[r]) + 1
          /\ \A j \in DOMAIN rows[r] : rows'[r][j] = rows[r][j]
          /\ \A s \in Resources : s # r => rows'[s] = rows[s]
      BY <1>2, AfterInsert
    <2>2. rows[r] \in Seq(Row) /\ rows'[r] \in Seq(Row)
      BY <2>1 DEF TypeOK
    <2>3. DOMAIN rows[r] = 1 .. Len(rows[r]) /\ DOMAIN rows'[r] = 1 .. Len(rows'[r])
          /\ Len(rows[r]) \in Nat
      BY <2>2
    <2>4. i \notin DOMAIN rows[r] /\ i \in DOMAIN rows'[r]
      BY <2>1, <2>3
    <2>5. \A j : j # i => (j \in DOMAIN rows'[r] <=> j \in DOMAIN rows[r])
      BY <2>1, <2>3
    <2> HIDE DEF r, i
    <2> QED
      BY <2>1, <2>4, <2>5, RowMovesOne
  <1>3. ASSUME NEW p \in Procs, NEW op \in {"cancel", "ready"}, WriteRow(p, op)
        PROVE  OneApart(Waiting, Waiting')
    <2> DEFINE r == req[p].resource
               i == req[p].row
               m == rows[r][i].member
    <2>1. /\ r \in Resources /\ i \in DOMAIN rows[r]
          /\ \A s \in Resources : DOMAIN rows'[s] = DOMAIN rows[s]
          /\ rows'[r][i].member = m
          /\ \A s \in Resources : s # r => rows'[s] = rows[s]
          /\ \A j \in DOMAIN rows[r] : j # i => rows'[r][j] = rows[r][j]
      BY <1>3, AfterWrite
    <2>2. m \in Members
      <3>1. rows[r][i] \in Row
        BY <2>1 DEF TypeOK
      <3> QED
        BY <3>1 DEF Row
    <2> HIDE DEF r, i, m
    <2>3. \A j : j # i => /\ j \in DOMAIN rows'[r] <=> j \in DOMAIN rows[r]
                          /\ j \in DOMAIN rows[r] => rows'[r][j] = rows[r][j]
      BY <2>1
    <2>4. i \in DOMAIN rows'[r] /\ rows'[r][i].member = m
      BY <2>1
    <2> QED
      BY <2>1, <2>2, <2>3, <2>4, RowMovesOne DEF m
  <1>4. CASE Next
    <2>1. PICK p \in Procs : Begin(p) \/ Continue(p) \/ MarkReadyDies(p) \/ Abort(p)
      BY <1>4 DEF Next
    <2>2. CASE Begin(p)
      BY <1>1, <2>2 DEF Begin, EnqueueBegin, ReadRow, Start
    <2>3. CASE EnqueueRead(p) \/ EnqueueRetry(p) \/ EnqueueGiveUp(p) \/ Abort(p)
      BY <1>1, <2>3 DEF EnqueueRead, EnqueueRetry, EnqueueGiveUp, Abort, ReadOn
    <2>4. CASE EnqueueInsert(p)
      BY <1>2, <2>4
    <2>5. CASE Cancel(p) \/ MarkReady(p) \/ MarkReadyDies(p)
      BY <1>3, <2>5 DEF Cancel, MarkReady, MarkReadyDies
    <2> QED
      BY <2>1, <2>2, <2>3, <2>4, <2>5 DEF Continue
  <1> QED
    BY <1>1, <1>4 DEF vars
=============================================================================
