----------------------------- MODULE Notifications -----------------------------
(***************************************************************************)
(* NotificationDispatcher: an event becomes a mail and a row of            *)
(* notification_log.  Each handler runs on its own, and one try block      *)
(* covers the mail and the SENT row: whatever fails in it, FAILED is what  *)
(* is written.  The mail service is behind a port and external.            *)
(***************************************************************************)
EXTENDS Integers

CONSTANT Events    \* the overdue, ready and embargo events; each is emitted at most once

VARIABLES
    dispatch,      \* of each event: where its handler is
    notificationLog, \* rows: event and deliveryStatus
    mailed,        \* events whose mail the service has accepted
    mishaps        \* history: what went wrong, as (event, statement) pairs

noteVars == <<dispatch, notificationLog, mailed, mishaps>>

NoteInit ==
    /\ dispatch = [e \in Events |-> "quiet"]
    /\ notificationLog = {}
    /\ mailed = {}
    /\ mishaps = {}

Row(e, status) == [event |-> e, deliveryStatus |-> status]

Go(e, from, to) == dispatch[e] = from /\ dispatch' = [dispatch EXCEPT ![e] = to]

\* emit: the handler of the event starts.
Emit(e) == Go(e, "quiet", "send") /\ UNCHANGED <<notificationLog, mailed, mishaps>>

MailSent(e) ==
    /\ Go(e, "send", "logSent")
    /\ mailed' = mailed \cup {e}
    /\ UNCHANGED <<notificationLog, mishaps>>

\* An error of the port does not say whether the mail went out.
MailFails(e) ==
    /\ Go(e, "send", "logFailed")
    /\ mailed' \in {mailed, mailed \cup {e}}
    /\ mishaps' = mishaps \cup {<<e, "send">>}
    /\ UNCHANGED notificationLog

LogSent(e) ==
    /\ Go(e, "logSent", "done")
    /\ notificationLog' = notificationLog \cup {Row(e, "SENT")}
    /\ UNCHANGED <<mailed, mishaps>>

\* The insert is refused, or its confirmation is lost.
LogSentFails(e) ==
    /\ Go(e, "logSent", "logFailed")
    /\ notificationLog' \in {notificationLog, notificationLog \cup {Row(e, "SENT")}}
    /\ mishaps' = mishaps \cup {<<e, "logSent">>}
    /\ UNCHANGED mailed

\* The catch block.
LogFailed(e) ==
    /\ Go(e, "logFailed", "done")
    /\ notificationLog' = notificationLog \cup {Row(e, "FAILED")}
    /\ UNCHANGED <<mailed, mishaps>>

\* Nothing catches an error of the catch block.
LogFailedFails(e) ==
    /\ Go(e, "logFailed", "done")
    /\ mishaps' = mishaps \cup {<<e, "logFailed">>}
    /\ UNCHANGED <<notificationLog, mailed>>

\* Mutant: the mail is not waited for.
DispatchUnawaited(e) ==
    \/ Go(e, "send", "logSent") /\ UNCHANGED <<notificationLog, mailed, mishaps>>
    \/ MailSent(e) \/ LogSent(e) \/ LogSentFails(e) \/ LogFailed(e) \/ LogFailedFails(e)

\* Mutant: the mail is outside the try block.
DispatchUncaught(e) ==
    \/ MailSent(e) \/ LogSent(e) \/ LogSentFails(e) \/ LogFailed(e) \/ LogFailedFails(e)
    \/ Go(e, "send", "done") /\ UNCHANGED <<notificationLog, mailed, mishaps>>

Dispatch(e) ==
    \/ MailSent(e) \/ MailFails(e)
    \/ LogSent(e) \/ LogSentFails(e)
    \/ LogFailed(e) \/ LogFailedFails(e)

\* The handlers under way die with the server.
NoteCrash ==
    /\ mishaps' = mishaps \cup {<<e, "crash">> : e \in {f \in Events :
                                                   dispatch[f] \notin {"quiet", "done"}}}
    /\ dispatch' = [e \in Events |-> IF dispatch[e] = "quiet" THEN "quiet" ELSE "done"]
    /\ UNCHANGED <<notificationLog, mailed>>

-----------------------------------------------------------------------------
Logged(e) == {r.deliveryStatus : r \in {s \in notificationLog : s.event = e}}
Mishap(e, statement) == <<e, statement>> \in mishaps

\* A SENT row means the mail was accepted; a FAILED row means that the mail or
\* the SENT row failed; both for one event, only that the confirmation of the
\* SENT row was lost; and a handler that is done without a row was stopped by
\* the server or failed twice.
LogTellsTruth ==
    \A e \in Events :
        /\ "SENT" \in Logged(e) => e \in mailed
        /\ "FAILED" \in Logged(e) => Mishap(e, "send") \/ Mishap(e, "logSent")
        /\ Logged(e) = {"SENT", "FAILED"} => Mishap(e, "logSent")
        /\ dispatch[e] = "done" /\ Logged(e) = {} => Mishap(e, "crash") \/ Mishap(e, "logFailed")

\* "status makes a dropped send visible rather than silently lost": every event
\* leaves a row in the end, unless the server stops or even the FAILED row
\* cannot be written.
NothingVanishes ==
    \A e \in Events :
        dispatch[e] = "send" ~>
            Logged(e) # {} \/ Mishap(e, "crash") \/ Mishap(e, "logFailed")
=============================================================================
