------------------------------- MODULE BackOffice -------------------------------
(***************************************************************************)
(* What goes on behind an answered request, in one server process and one  *)
(* database: inter-library requests and the audit of their changes, the    *)
(* notifications other services ask for, and fines.  A crash ends every    *)
(* call, every entry under way and every notification handler at once.     *)
(***************************************************************************)
EXTENDS IllRequests, AuditLog, Notifications, Fines

CONSTANTS
    Lateness,      \* the moments fines are asked for, against a due date of 0
    MaxFines,      \* bound: fines created
    MaxCrashes     \* bound: crashes

ASSUME BackOfficeAssumption == Lateness \subseteq Int

VARIABLE crashes

vars == <<illVars, auditVars, noteVars, fines, crashes>>

Init == IllInit /\ AuditInit /\ NoteInit /\ FineInit /\ crashes = 0

IllStep ==
    \/ \E id \in Ids : submit(id)
    \/ \E l \in Librarians :
        \/ \E id \in Ids, to \in IllRequestStatus : ReadRequest(l, id, to)
        \/ WriteRequest(l)

\* transition returns and the interceptor takes its result.
Answer(l) ==
    /\ calls[l].step = "answer"
    /\ intercept("IllRequest", "TRANSITION", calls[l].result, calls[l].change)
    /\ calls' = [calls EXCEPT ![l] = Idle]
    /\ UNCHANGED <<requests, changes>>

AuditStep == \E entry \in writing : record(entry) \/ RecordFails(entry)

NoteStep == \E e \in Events : Emit(e) \/ Dispatch(e)

FineStep ==
    /\ Cardinality(fines) < MaxFines
    /\ \E type \in DOMAIN Policies, asOf \in Lateness : createOverdueFine(type, 0, asOf)

Crash ==
    /\ crashes < MaxCrashes
    /\ crashes' = crashes + 1
    /\ AuditCrash({calls[l].change : l \in {k \in Librarians : calls[k].step = "answer"}})
    /\ NoteCrash
    /\ calls' = [l \in Librarians |-> Idle]
    /\ UNCHANGED <<requests, changes, fines>>

Next ==
    \/ IllStep /\ UNCHANGED <<auditVars, noteVars, fines, crashes>>
    \/ \E l \in Librarians : Answer(l) /\ UNCHANGED <<noteVars, fines, crashes>>
    \/ AuditStep /\ UNCHANGED <<illVars, noteVars, fines, crashes>>
    \/ NoteStep /\ UNCHANGED <<illVars, auditVars, fines, crashes>>
    \/ FineStep /\ UNCHANGED <<illVars, auditVars, noteVars, crashes>>
    \/ Crash

\* A handler that runs goes on: its awaits end, in success or in an error.
HandlersRun ==
    \A e \in Events : WF_vars(Dispatch(e) /\ UNCHANGED <<illVars, auditVars, fines, crashes>>)

Spec == Init /\ [][Next]_vars /\ HandlersRun

-----------------------------------------------------------------------------
\* What the trail says is what happened: an entry carries the very change it is
\* about although it is written later, past other changes of the request, and
\* no change is without its entry unless the entry is still to come, could not
\* be written or died with the server.
TrailAccounts ==
    /\ \A k \in DOMAIN trail :
        LET change == changes[trail[k].change]
        IN  trail[k].entityId = change.id /\ trail[k].newValue.status = change.to
    /\ \A n \in DOMAIN changes :
        Cardinality({k \in DOMAIN trail : trail[k].change = n})
        + Cardinality({e \in writing : e.change = n})
        + Cardinality({l \in Librarians : calls[l].step = "answer" /\ calls[l].change = n})
        + Cardinality({n} \cap unwritten) = 1
=============================================================================
