-------------------------------- MODULE AuditLog --------------------------------
(***************************************************************************)
(* The audit trail (AuditInterceptor, AuditLogService).  An entry is made  *)
(* of a handler's result and written after the answer, by a promise nobody *)
(* waits for; an entry that cannot be written is logged and forgotten.     *)
(***************************************************************************)
EXTENDS Integers, Sequences

VARIABLES
    writing,       \* entries whose insert is under way
    trail,         \* the rows of audit_log_entry, in the order of their ids
    unwritten      \* history: changes whose entry failed or died with the server

auditVars == <<writing, trail, unwritten>>

AuditInit == writing = {} /\ trail = <<>> /\ unwritten = {}

\* The handler's call has succeeded with this result: tap({next}) starts
\* persist.  change is history: the number of the change it is about.
intercept(entityType, action, result, change) ==
    /\ writing' = writing \cup {[entityType |-> entityType, action |-> action,
                                 entityId |-> result.id, newValue |-> result, change |-> change]}
    /\ UNCHANGED <<trail, unwritten>>

record(entry) ==
    /\ entry \in writing
    /\ writing' = writing \ {entry}
    /\ trail' = Append(trail, entry)
    /\ UNCHANGED unwritten

\* persist catches the error.
RecordFails(entry) ==
    /\ entry \in writing
    /\ writing' = writing \ {entry}
    /\ unwritten' = unwritten \cup {entry.change}
    /\ UNCHANGED trail

\* The server stops; answering are the changes whose handler has not returned.
AuditCrash(answering) ==
    /\ unwritten' = unwritten \cup {e.change : e \in writing} \cup answering
    /\ writing' = {}
    /\ UNCHANGED trail
=============================================================================
