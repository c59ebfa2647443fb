------------------------------ MODULE IllRequests ------------------------------
(***************************************************************************)
(* Inter-library loan requests (IllRequestService).  A status change reads *)
(* the row, asks the validator about the status it read, and updates the   *)
(* row by its id: three steps of a call, with nothing held in between.     *)
(***************************************************************************)
EXTENDS Integers, Sequences, StateTransitions

CONSTANTS
    Ids,           \* the requests
    Librarians,    \* callers of transition, one call at a time each
    NoRow,         \* no request yet
    MaxChanges     \* bound: status changes

VARIABLES
    requests,      \* the status of every row
    calls,         \* a librarian's call
    changes        \* history: the updates in the order of the database

illVars == <<requests, calls, changes>>

Idle == [step |-> "idle"]

IllInit ==
    /\ requests = [id \in Ids |-> NoRow]
    /\ calls = [l \in Librarians |-> Idle]
    /\ changes = <<>>

submit(id) ==
    /\ requests[id] = NoRow
    /\ requests' = [requests EXCEPT ![id] = "SUBMITTED"]
    /\ UNCHANGED <<calls, changes>>

\* Mutant: the validator is not asked.
ReadRequestUnchecked(l, id, to) ==
    /\ calls[l] = Idle
    /\ requests[id] # NoRow
    /\ calls' = [calls EXCEPT ![l] = [step |-> "write", id |-> id, to |-> to,
                                      seen |-> requests[id], readAt |-> Len(changes)]]
    /\ UNCHANGED <<requests, changes>>

\* findUnique, and assertLegal on what it found; a refused call is over.
ReadRequest(l, id, to) ==
    /\ calls[l] = Idle
    /\ requests[id] # NoRow
    /\ IsLegal(IllTransitions, requests[id], to)
    /\ calls' = [calls EXCEPT ![l] = [step |-> "write", id |-> id, to |-> to,
                                      seen |-> requests[id], readAt |-> Len(changes)]]
    /\ UNCHANGED <<requests, changes>>

\* Mutant: the row is updated, the call keeps the row it has read.
WriteRequestStale(l) ==
    /\ calls[l].step = "write" /\ Len(changes) < MaxChanges
    /\ LET c == calls[l]
       IN  /\ requests' = [requests EXCEPT ![c.id] = c.to]
           /\ changes' = Append(changes, [id |-> c.id, was |-> requests[c.id], to |-> c.to,
                                          readAt |-> c.readAt])
           /\ calls' = [calls EXCEPT ![l] = [step |-> "answer", change |-> Len(changes) + 1,
                                             result |-> [id |-> c.id, status |-> c.seen]]]

\* update where id: whatever the row has become.
WriteRequest(l) ==
    /\ calls[l].step = "write" /\ Len(changes) < MaxChanges
    /\ LET c == calls[l]
       IN  /\ requests' = [requests EXCEPT ![c.id] = c.to]
           /\ changes' = Append(changes, [id |-> c.id, was |-> requests[c.id], to |-> c.to,
                                          readAt |-> c.readAt])
           /\ calls' = [calls EXCEPT ![l] = [step |-> "answer", change |-> Len(changes) + 1,
                                             result |-> [id |-> c.id, status |-> c.to]]]

\* A row moves against the table only under the feet of a call: another change
\* of the same row came between its read and its write.
IllegalOnlyByRace ==
    \A k \in DOMAIN changes :
        ~IsLegal(IllTransitions, changes[k].was, changes[k].to) =>
            \E j \in (changes[k].readAt + 1) .. (k - 1) : changes[j].id = changes[k].id
=============================================================================
