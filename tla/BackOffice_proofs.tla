--------------------------- MODULE BackOffice_proofs ---------------------------
(***************************************************************************)
(* Theorems about BackOffice, for every number of requests, librarians,    *)
(* events, changes and crashes: what the notification log and the audit    *)
(* trail say is what happened, and a status moves against its table only   *)
(* under the feet of a call; and every fine is fair.  The parts share      *)
(* nothing but the calls, and each has an inductive invariant of its own.  *)
(***************************************************************************)
EXTENDS BackOffice, FiniteSetTheorems, TLAPS

NoteNext ==
    \/ \E e \in Events : Emit(e) \/ Dispatch(e)
    \/ NoteCrash
    \/ UNCHANGED noteVars

\* What the log, the mails and the mishaps of one event are at each stage of its
\* handler.
EventInv(e) ==
    LET sent   == Row(e, "SENT") \in notificationLog
        failed == Row(e, "FAILED") \in notificationLog
    IN  /\ sent => e \in mailed /\ dispatch[e] \in {"logFailed", "done"}
        /\ sent /\ (dispatch[e] = "logFailed" \/ failed) => Mishap(e, "logSent")
        /\ failed => dispatch[e] = "done" /\ (Mishap(e, "send") \/ Mishap(e, "logSent"))
        /\ dispatch[e] = "logSent" => e \in mailed
        /\ dispatch[e] = "logFailed" => Mishap(e, "send") \/ Mishap(e, "logSent")
        /\ dispatch[e] = "done" /\ ~sent /\ ~failed =>
              Mishap(e, "crash") \/ Mishap(e, "logFailed")

NoteInv ==
    /\ dispatch \in [Events -> {"quiet", "send", "logSent", "logFailed", "done"}]
    /\ \A r \in notificationLog : \E e \in Events : r \in {Row(e, "SENT"), Row(e, "FAILED")}
    /\ \A e \in Events : EventInv(e)

-----------------------------------------------------------------------------
\* Rows are told apart by their event and their status.
LEMMA RowsDiffer ==
    ASSUME NEW e, NEW f, NEW s, NEW t, Row(e, s) = Row(f, t)
    PROVE  e = f /\ s = t
  <1>1. /\ Row(e, s).event = e /\ Row(e, s).deliveryStatus = s
        /\ Row(f, t).event = f /\ Row(f, t).deliveryStatus = t
    BY DEF Row
  <1> QED
    BY <1>1

\* A step of one handler leaves the stage, the rows, the mail and the mishaps of
\* every other event alone.
LEMMA DispatchFrame ==
    ASSUME NoteInv, NEW e \in Events, Emit(e) \/ Dispatch(e)
    PROVE  \A f \in Events \ {e} :
             /\ dispatch'[f] = dispatch[f]
             /\ f \in mailed' <=> f \in mailed
             /\ \A s : Row(f, s) \in notificationLog' <=> Row(f, s) \in notificationLog
             /\ \A s : <<f, s>> \in mishaps' <=> <<f, s>> \in mishaps
  BY RowsDiffer DEF NoteInv, Emit, Dispatch, MailSent, MailFails, LogSent, LogSentFails,
                    LogFailed, LogFailedFails, Go

LEMMA EmitKeeps ==
    ASSUME NoteInv, NEW e \in Events, Emit(e)
    PROVE  EventInv(e)'
  BY DEF NoteInv, EventInv, Emit, Go, Mishap, Row

LEMMA DispatchKeeps ==
    ASSUME NoteInv, NEW e \in Events, Dispatch(e)
    PROVE  EventInv(e)'
  <1> USE DEF NoteInv, Go, Mishap
  <1>1. Row(e, "SENT") # Row(e, "FAILED")
    BY RowsDiffer
  <1>2. CASE MailSent(e)
    BY <1>1, <1>2 DEF EventInv, MailSent
  <1>3. CASE MailFails(e)
    BY <1>1, <1>3 DEF EventInv, MailFails
  <1>4. CASE LogSent(e)
    BY <1>1, <1>4 DEF EventInv, LogSent
  <1>5. CASE LogSentFails(e)
    BY <1>1, <1>5 DEF EventInv, LogSentFails
  <1>6. CASE LogFailed(e)
    BY <1>1, <1>6 DEF EventInv, LogFailed
  <1>7. CASE LogFailedFails(e)
    BY <1>1, <1>7 DEF EventInv, LogFailedFails
  <1> QED
    BY <1>2, <1>3, <1>4, <1>5, <1>6, <1>7 DEF Dispatch

\* The stage stays a stage, and only rows of events are added.
LEMMA NoteTyped ==
    ASSUME NoteInv, NoteNext
    PROVE  /\ dispatch' \in [Events -> {"quiet", "send", "logSent", "logFailed", "done"}]
           /\ \A r \in notificationLog' : \E e \in Events : r \in {Row(e, "SENT"), Row(e, "FAILED")}
  <1>1. CASE \E e \in Events : Emit(e) \/ Dispatch(e)
    BY <1>1 DEF NoteInv, Emit, Dispatch, MailSent, MailFails, LogSent, LogSentFails, LogFailed,
                LogFailedFails, Go
  <1>2. CASE NoteCrash \/ UNCHANGED noteVars
    BY <1>2 DEF NoteInv, NoteCrash, noteVars
  <1> QED
    BY <1>1, <1>2 DEF NoteNext

LEMMA NoteStepKeeps ==
    ASSUME NoteInv, NoteNext
    PROVE  NoteInv'
  <1>1. SUFFICES ASSUME NEW f \in Events PROVE EventInv(f)'
    BY NoteTyped DEF NoteInv
  <1>2. ASSUME NEW e \in Events, Emit(e) \/ Dispatch(e) PROVE EventInv(f)'
    <2>1. CASE f = e
      BY <1>2, <2>1, EmitKeeps, DispatchKeeps
    <2>2. CASE f # e
      BY <1>2, <2>2, DispatchFrame DEF NoteInv, EventInv, Mishap
    <2> QED
      BY <2>1, <2>2
  <1>3. CASE NoteCrash
    <2>1. \A s : <<f, s>> \in mishaps => <<f, s>> \in mishaps'
      BY <1>3 DEF NoteCrash
    <2>2. dispatch[f] \notin {"quiet", "done"} => <<f, "crash">> \in mishaps'
      BY <1>3 DEF NoteCrash
    <2>3. dispatch'[f] = IF dispatch[f] = "quiet" THEN "quiet" ELSE "done"
      BY <1>3 DEF NoteCrash
    <2> QED
      BY <1>3, <2>1, <2>2, <2>3 DEF NoteCrash, NoteInv, EventInv, Mishap
  <1>4. CASE UNCHANGED noteVars
    BY <1>4 DEF noteVars, NoteInv, EventInv, Mishap
  <1> QED
    BY <1>2, <1>3, <1>4 DEF NoteNext

-----------------------------------------------------------------------------
(* Inter-library requests *)

Result == [id : Ids, status : IllRequestStatus]

Change == [id : Ids, was : IllRequestStatus \cup {NoRow}, to : IllRequestStatus, readAt : Nat]

Call ==
    {Idle}
    \cup [step : {"write"}, id : Ids, to : IllRequestStatus,
          seen : IllRequestStatus \cup {NoRow}, readAt : Nat]
    \cup [step : {"answer"}, change : Nat, result : Result]

IllTypeOK ==
    /\ requests \in [Ids -> IllRequestStatus \cup {NoRow}]
    /\ calls \in [Librarians -> Call]
    /\ changes \in Seq(Change)

\* Another change of the row came after the first n.
ChangedSince(id, n) == \E j \in (n + 1) .. Len(changes) : changes[j].id = id

\* What a call about to write knows: the move was legal for the status it has
\* read, which the row still has unless somebody has changed it since.
Informed(c) ==
    c.step = "write" =>
        /\ c.readAt <= Len(changes)
        /\ c.seen # NoRow /\ IsLegal(IllTransitions, c.seen, c.to)
        /\ requests[c.id] = c.seen \/ ChangedSince(c.id, c.readAt)

IllInv ==
    /\ IllTypeOK
    /\ \A l \in Librarians : Informed(calls[l])
    /\ IllegalOnlyByRace

\* The fields of a call at each of its steps.
LEMMA CallFields ==
    ASSUME NEW c \in Call
    PROVE  /\ c.step \in {"idle", "write", "answer"}
           /\ c.step = "write" => /\ c.id \in Ids /\ c.to \in IllRequestStatus
                                  /\ c.seen \in IllRequestStatus \cup {NoRow} /\ c.readAt \in Nat
           /\ c.step = "answer" => c.change \in Nat /\ c.result \in Result
  BY DEF Call, Idle

\* The steps that move neither a row nor the history: a call may end.
LEMMA IllCallEnds ==
    ASSUME IllInv, UNCHANGED <<requests, changes>>, calls' \in [Librarians -> Call],
           \A l \in Librarians : calls'[l] = calls[l] \/ calls'[l] = Idle
    PROVE  IllInv'
  <1>1. Idle.step = "idle"
    BY DEF Idle
  <1> QED
    BY <1>1 DEF IllInv, IllTypeOK, Informed, ChangedSince, IllegalOnlyByRace

LEMMA SubmitKeeps ==
    ASSUME IllInv, NEW id \in Ids, submit(id)
    PROVE  IllInv'
  <1>1. IllTypeOK'
    BY DEF IllInv, IllTypeOK, submit, IllRequestStatus
  <1>2. ASSUME NEW l \in Librarians PROVE Informed(calls[l])'
    <2>1. calls[l] \in Call /\ Informed(calls[l])
      BY DEF IllInv, IllTypeOK
    <2> QED
      BY <2>1, CallFields DEF IllInv, IllTypeOK, Informed, ChangedSince, submit
  <1> QED
    BY <1>1, <1>2 DEF IllInv, IllegalOnlyByRace, submit

LEMMA ReadRequestKeeps ==
    ASSUME IllInv, NEW l \in Librarians, NEW id \in Ids, NEW to \in IllRequestStatus,
           ReadRequest(l, id, to)
    PROVE  IllInv'
  <1> DEFINE c == [step |-> "write", id |-> id, to |-> to, seen |-> requests[id],
                   readAt |-> Len(changes)]
  <1>1. calls' = [calls EXCEPT ![l] = c] /\ UNCHANGED <<requests, changes>>
    BY DEF ReadRequest
  <1>2. c \in Call
    BY DEF IllInv, IllTypeOK, Call
  <1>3. Informed(c)
    BY DEF ReadRequest, Informed, IllInv, IllTypeOK
  <1> HIDE DEF c
  <1>4. IllTypeOK'
    BY <1>1, <1>2 DEF IllInv, IllTypeOK
  <1>5. ASSUME NEW k \in Librarians PROVE Informed(calls[k])'
    BY <1>1, <1>3 DEF IllInv, IllTypeOK, Informed, ChangedSince
  <1> QED
    BY <1>1, <1>4, <1>5 DEF IllInv, IllegalOnlyByRace

\* The update and its place in the history.
LEMMA WriteRequestDoes ==
    ASSUME IllInv, NEW l \in Librarians, WriteRequest(l)
    PROVE  LET c == calls[l]
               new == [id |-> c.id, was |-> requests[c.id], to |-> c.to, readAt |-> c.readAt]
           IN  /\ c \in Call /\ c.step = "write"
               /\ requests' = [requests EXCEPT ![c.id] = c.to]
               /\ new \in Change
               /\ changes' \in Seq(Change) /\ Len(changes') = Len(changes) + 1
               /\ changes'[Len(changes) + 1] = new
               /\ \A j \in 1 .. Len(changes) : changes'[j] = changes[j]
               /\ calls' = [calls EXCEPT ![l] = [step |-> "answer", change |-> Len(changes) + 1,
                                             result |-> [id |-> c.id, status |-> c.to]]]
               /\ calls' \in [Librarians -> Call]
  <1> DEFINE c == calls[l]
  <1> DEFINE new == [id |-> c.id, was |-> requests[c.id], to |-> c.to, readAt |-> c.readAt]
  <1> DEFINE done == [step |-> "answer", change |-> Len(changes) + 1,
                      result |-> [id |-> c.id, status |-> c.to]]
  <1>1. c \in Call /\ c.step = "write"
    BY DEF IllInv, IllTypeOK, WriteRequest
  <1>2. /\ requests' = [requests EXCEPT ![c.id] = c.to]
        /\ changes' = Append(changes, new)
        /\ calls' = [calls EXCEPT ![l] = done]
    BY DEF WriteRequest
  <1>3. new \in Change /\ done \in Call
    BY <1>1, CallFields DEF IllInv, IllTypeOK, Change, Call, Result
  <1> HIDE DEF new, done
  <1>4. changes \in Seq(Change) /\ calls \in [Librarians -> Call]
    BY DEF IllInv, IllTypeOK
  <1>5. /\ changes' \in Seq(Change) /\ Len(changes') = Len(changes) + 1
        /\ changes'[Len(changes) + 1] = new
        /\ \A j \in 1 .. Len(changes) : changes'[j] = changes[j]
    BY <1>2, <1>3, <1>4
  <1>6. calls' \in [Librarians -> Call]
    BY <1>2, <1>3, <1>4
  <1> QED
    BY <1>1, <1>2, <1>3, <1>5, <1>6 DEF new, done

LEMMA WriteRequestKeeps ==
    ASSUME IllInv, NEW l \in Librarians, WriteRequest(l)
    PROVE  IllInv'
  <1> DEFINE c == calls[l]
             n == Len(changes)
  <1>1. /\ c \in Call /\ c.step = "write"
        /\ requests' = [requests EXCEPT ![c.id] = c.to]
        /\ changes' \in Seq(Change) /\ Len(changes') = n + 1
        /\ changes'[n + 1].id = c.id /\ changes'[n + 1].was = requests[c.id]
        /\ changes'[n + 1].to = c.to /\ changes'[n + 1].readAt = c.readAt
        /\ \A j \in 1 .. n : changes'[j] = changes[j]
        /\ calls' \in [Librarians -> Call]
        /\ calls'[l].step = "answer"
        /\ \A k \in Librarians \ {l} : calls'[k] = calls[k]
    <2> DEFINE done == [step |-> "answer", change |-> Len(changes) + 1,
                        result |-> [id |-> c.id, status |-> c.to]]
    <2>1. /\ c \in Call /\ c.step = "write"
          /\ requests' = [requests EXCEPT ![c.id] = c.to]
          /\ changes' \in Seq(Change) /\ Len(changes') = n + 1
          /\ changes'[n + 1] = [id |-> c.id, was |-> requests[c.id], to |-> c.to,
                                readAt |-> c.readAt]
          /\ \A j \in 1 .. n : changes'[j] = changes[j]
          /\ calls' = [calls EXCEPT ![l] = done]
          /\ calls' \in [Librarians -> Call]
      BY WriteRequestDoes
    <2>2. done.step = "answer"
      OBVIOUS
    <2> HIDE DEF done, c
    <2>3. calls'[l].step = "answer" /\ \A k \in Librarians \ {l} : calls'[k] = calls[k]
      BY <2>1, <2>2 DEF IllInv, IllTypeOK
    <2> QED
      BY <2>1, <2>3
  <1>2. n \in Nat /\ n = Len(changes) /\ DOMAIN changes = 1 .. n /\ DOMAIN changes' = 1 .. n + 1
    BY <1>1 DEF IllInv, IllTypeOK
  <1>3. Informed(c) /\ c.id \in Ids /\ c.to \in IllRequestStatus /\ c.readAt \in Nat
    BY <1>1, CallFields DEF IllInv
  <1>4. IllTypeOK'
    BY <1>1, <1>3 DEF IllInv, IllTypeOK
  <1>5. ASSUME NEW k \in Librarians PROVE Informed(calls[k])'
    <2>1. CASE k = l
      BY <1>1, <2>1 DEF Informed
    <2>2. CASE k # l
      <3>1. Informed(calls[k]) /\ calls[k] \in Call /\ calls'[k] = calls[k]
        BY <1>1, <2>2 DEF IllInv, IllTypeOK
      <3> HIDE DEF n
      <3> SUFFICES ASSUME calls[k].step = "write" PROVE Informed(calls[k])'
        BY <3>1 DEF Informed
      <3>2. calls[k].readAt \in Nat /\ calls[k].readAt <= n /\ calls[k].id \in Ids
        BY <1>2, <3>1, CallFields DEF Informed
      <3>3. CASE calls[k].id = c.id
        <4>1. ChangedSince(calls[k].id, calls[k].readAt)'
          BY <1>1, <1>2, <3>1, <3>2, <3>3 DEF ChangedSince
        <4> QED
          BY <1>1, <1>2, <3>1, <3>2, <4>1 DEF Informed
      <3>4. CASE calls[k].id # c.id
        <4>1. requests'[calls[k].id] = requests[calls[k].id]
          BY <1>1, <3>2, <3>4 DEF IllInv, IllTypeOK
        <4>2. ChangedSince(calls[k].id, calls[k].readAt)
                => ChangedSince(calls[k].id, calls[k].readAt)'
          BY <1>1, <1>2, <3>1, <3>2 DEF ChangedSince
        <4> QED
          BY <1>1, <1>2, <3>1, <3>2, <4>1, <4>2 DEF Informed
      <3> QED
        BY <3>3, <3>4
    <2> QED
      BY <2>1, <2>2
  <1>6. IllegalOnlyByRace'
    <2> HIDE DEF n, c
    <2> SUFFICES ASSUME NEW k \in 1 .. n + 1,
                        ~IsLegal(IllTransitions, changes'[k].was, changes'[k].to)
                 PROVE  \E j \in (changes'[k].readAt + 1) .. (k - 1) : changes'[j].id = changes'[k].id
      BY <1>2 DEF IllegalOnlyByRace
    <2>1. CASE k = n + 1
      <3>1. requests[c.id] # c.seen
        BY <1>1, <1>3, <2>1 DEF Informed
      <3>2. ChangedSince(c.id, c.readAt)
        BY <1>1, <1>3, <3>1 DEF Informed
      <3>3. PICK j \in (c.readAt + 1) .. n : changes[j].id = c.id
        BY <1>2, <3>2 DEF ChangedSince
      <3> QED
        BY <1>1, <1>2, <1>3, <2>1, <3>3
    <2>2. CASE k \in 1 .. n
      <3>1. changes'[k] = changes[k] /\ changes[k] \in Change
        BY <1>1, <1>2, <2>2 DEF IllInv, IllTypeOK
      <3>2. PICK j \in (changes[k].readAt + 1) .. (k - 1) : changes[j].id = changes[k].id
        BY <1>2, <2>2, <3>1 DEF IllInv, IllegalOnlyByRace
      <3>3. changes[k].readAt \in Nat
        BY <3>1 DEF Change
      <3>4. j \in 1 .. n
        BY <1>2, <2>2, <3>2, <3>3
      <3> QED
        BY <1>1, <3>1, <3>2, <3>4
    <2> QED
      BY <1>2, <2>1, <2>2
  <1> QED
    BY <1>4, <1>5, <1>6 DEF IllInv

-----------------------------------------------------------------------------
(* The audit trail *)

Entry == [entityType : {"IllRequest"}, action : {"TRANSITION"}, entityId : Ids,
          newValue : Result, change : Nat]

\* An entry, or a result on its way to become one, is of the n-th change.
Says(id, status, n) == n \in DOMAIN changes /\ changes[n].id = id /\ changes[n].to = status

Answering == {l \in Librarians : calls[l].step = "answer"}

AuditTypeOK ==
    /\ trail \in Seq(Entry)
    /\ writing \subseteq Entry
    /\ unwritten \subseteq DOMAIN changes

Truthful ==
    /\ \A k \in DOMAIN trail : Says(trail[k].entityId, trail[k].newValue.status, trail[k].change)
    /\ \A e \in writing : Says(e.entityId, e.newValue.status, e.change)
    /\ \A l \in Answering : Says(calls[l].result.id, calls[l].result.status, calls[l].change)

\* No change is in two of the four places, or in two spots of one.
Once ==
    /\ \A j, k \in DOMAIN trail : trail[j].change = trail[k].change => j = k
    /\ \A e, f \in writing : e.change = f.change => e = f
    /\ \A k, l \in Answering : calls[k].change = calls[l].change => k = l
    /\ \A k \in DOMAIN trail, e \in writing : trail[k].change # e.change
    /\ \A k \in DOMAIN trail, l \in Answering : trail[k].change # calls[l].change
    /\ \A e \in writing, l \in Answering : e.change # calls[l].change
    /\ \A k \in DOMAIN trail : trail[k].change \notin unwritten
    /\ \A e \in writing : e.change \notin unwritten
    /\ \A l \in Answering : calls[l].change \notin unwritten

Somewhere ==
    \A n \in DOMAIN changes :
        \/ \E k \in DOMAIN trail : trail[k].change = n
        \/ \E e \in writing : e.change = n
        \/ \E l \in Answering : calls[l].change = n
        \/ n \in unwritten

AuditInv == AuditTypeOK /\ Truthful /\ Once /\ Somewhere

\* The inductive invariant.
IInv == NoteInv /\ IllInv /\ AuditInv

\* A step that leaves the history, the trail and the calls that answer alone.
LEMMA AuditFrame ==
    ASSUME AuditInv, UNCHANGED <<changes, auditVars>>,
           Answering' = Answering, \A l \in Answering : calls'[l] = calls[l]
    PROVE  AuditInv'
  <1>1. AuditTypeOK'
    BY DEF AuditInv, AuditTypeOK, auditVars
  <1>2. Truthful'
    BY DEF AuditInv, Truthful, Says, auditVars
  <1>3. Once'
    BY DEF AuditInv, Once, auditVars
  <1>4. Somewhere'
    BY DEF AuditInv, Somewhere, auditVars
  <1> QED
    BY <1>1, <1>2, <1>3, <1>4 DEF AuditInv

LEMMA ReadRequestFrame ==
    ASSUME IllInv, AuditInv, NEW l \in Librarians, NEW id \in Ids, NEW to \in IllRequestStatus,
           ReadRequest(l, id, to), UNCHANGED auditVars
    PROVE  AuditInv'
  <1>1. calls[l].step = "idle" /\ calls'[l].step = "write"
    BY DEF ReadRequest, Idle, IllInv, IllTypeOK
  <1>2. \A k \in Librarians \ {l} : calls'[k] = calls[k]
    BY DEF ReadRequest, IllInv, IllTypeOK
  <1> QED
    BY <1>1, <1>2, AuditFrame DEF Answering, ReadRequest

\* A change is made: its result is with the call that made it.
LEMMA WriteRequestAudited ==
    ASSUME IllInv, AuditInv, NEW l \in Librarians, WriteRequest(l), UNCHANGED auditVars
    PROVE  AuditInv'
  <1> DEFINE n == Len(changes)
             c == calls[l]
             result == [id |-> c.id, status |-> c.to]
             answer == [step |-> "answer", change |-> n + 1, result |-> result]
  <1>1. /\ c.step = "write"
        /\ changes' \in Seq(Change) /\ Len(changes') = n + 1
        /\ changes'[n + 1] = [id |-> c.id, was |-> requests[c.id], to |-> c.to,
                              readAt |-> c.readAt]
        /\ \A j \in 1 .. n : changes'[j] = changes[j]
        /\ calls' = [calls EXCEPT ![l] = answer]
    BY WriteRequestDoes
  <1>2. PICK done : /\ calls' = [calls EXCEPT ![l] = done]
                    /\ done.step = "answer" /\ done.change = n + 1
                    /\ done.result.id = changes'[n + 1].id /\ done.result.status = changes'[n + 1].to
    <2>1. /\ answer.step = "answer" /\ answer.change = n + 1
          /\ answer.result.id = changes'[n + 1].id /\ answer.result.status = changes'[n + 1].to
      BY <1>1
    <2> QED
      BY <1>1, <2>1
  <1> HIDE DEF answer, c
  <1>3. n \in Nat /\ DOMAIN changes = 1 .. n /\ DOMAIN changes' = 1 .. n + 1
    BY <1>1 DEF IllInv, IllTypeOK
  <1>4. calls'[l] = done /\ \A k \in Librarians \ {l} : calls'[k] = calls[k]
    BY <1>2 DEF IllInv, IllTypeOK
  <1>5. Answering' = Answering \cup {l} /\ l \notin Answering
    BY <1>1, <1>2, <1>4 DEF Answering, c
  <1>6. AuditTypeOK'
    BY <1>3 DEF AuditInv, AuditTypeOK, auditVars
  <1>8. Truthful'
    <2>1. Says(done.result.id, done.result.status, done.change)'
      BY <1>2, <1>3 DEF Says
    <2> QED
      BY <1>1, <1>3, <1>4, <1>5, <2>1 DEF AuditInv, Truthful, Says, auditVars
  <1>9. Once'
    <2>1. /\ \A k \in DOMAIN trail : trail[k].change # n + 1
          /\ \A e \in writing : e.change # n + 1
          /\ \A k \in Answering : calls[k].change # n + 1
          /\ n + 1 \notin unwritten
      BY <1>3 DEF AuditInv, AuditTypeOK, Truthful, Says
    <2> QED
      BY <1>2, <1>4, <1>5, <2>1 DEF AuditInv, Once, auditVars
  <1>10. Somewhere'
    BY <1>2, <1>3, <1>4, <1>5 DEF AuditInv, Somewhere, auditVars
  <1> QED
    BY <1>6, <1>8, <1>9, <1>10 DEF AuditInv

\* The interceptor takes a result: it becomes an entry under way.
LEMMA AnswerAudited ==
    ASSUME IllInv, AuditInv, NEW l \in Librarians, Answer(l)
    PROVE  AuditInv'
  <1> DEFINE c == calls[l]
             entry == [entityType |-> "IllRequest", action |-> "TRANSITION",
                       entityId |-> c.result.id, newValue |-> c.result, change |-> c.change]
  <1>1. /\ c.step = "answer" /\ writing' = writing \cup {entry}
        /\ calls' = [calls EXCEPT ![l] = Idle]
        /\ UNCHANGED <<trail, unwritten, changes>>
    BY DEF Answer, intercept
  <1>2. c \in Call /\ c.change \in Nat /\ c.result \in Result
    BY <1>1, CallFields DEF IllInv, IllTypeOK
  <1>3. entry \in Entry
    BY <1>2 DEF Entry, Result
  <1>4. entry.entityId = c.result.id /\ entry.newValue = c.result /\ entry.change = c.change
    OBVIOUS
  <1> HIDE DEF entry
  <1>5. Idle.step = "idle"
    BY DEF Idle
  <1>6. /\ l \in Answering /\ Answering' = Answering \ {l}
        /\ \A k \in Answering' : calls'[k] = calls[k]
    BY <1>1, <1>5 DEF Answering, IllInv, IllTypeOK
  <1> HIDE DEF c
  <1>7. AuditTypeOK'
    BY <1>1, <1>3 DEF AuditInv, AuditTypeOK
  <1>8. Truthful'
    <2>1. Says(c.result.id, c.result.status, c.change)
      BY <1>6 DEF AuditInv, Truthful, c
    <2> QED
      BY <1>1, <1>4, <1>6, <2>1 DEF AuditInv, Truthful, Says
  <1>9. Once'
    BY <1>1, <1>4, <1>6 DEF AuditInv, Once, c
  <1>10. Somewhere'
    BY <1>1, <1>4, <1>6 DEF AuditInv, Somewhere, c
  <1> QED
    BY <1>7, <1>8, <1>9, <1>10 DEF AuditInv

LEMMA RecordKeeps ==
    ASSUME AuditInv, NEW entry \in writing, record(entry), UNCHANGED illVars
    PROVE  AuditInv'
  <1>1. /\ trail \in Seq(Entry) /\ entry \in Entry
        /\ trail' = Append(trail, entry) /\ writing' = writing \ {entry}
        /\ UNCHANGED <<unwritten, changes, calls>>
    BY DEF AuditInv, AuditTypeOK, record, illVars
  <1>2. /\ DOMAIN trail = 1 .. Len(trail) /\ DOMAIN trail' = DOMAIN trail \cup {Len(trail) + 1}
        /\ Len(trail) + 1 \notin DOMAIN trail
        /\ trail'[Len(trail) + 1] = entry
        /\ \A k \in DOMAIN trail : trail'[k] = trail[k]
    BY <1>1
  <1>3. Answering' = Answering
    BY <1>1 DEF Answering
  <1>4. AuditTypeOK'
    BY <1>1 DEF AuditInv, AuditTypeOK
  <1>5. Truthful'
    BY <1>1, <1>2, <1>3 DEF AuditInv, Truthful, Says
  <1>6. Once'
    BY <1>1, <1>2, <1>3 DEF AuditInv, Once
  <1>7. Somewhere'
    BY <1>1, <1>2, <1>3 DEF AuditInv, Somewhere
  <1> QED
    BY <1>4, <1>5, <1>6, <1>7 DEF AuditInv

\* Entries and results that are given up are counted as unwritten.
LEMMA RecordFailsKeeps ==
    ASSUME AuditInv, NEW entry \in writing, RecordFails(entry), UNCHANGED illVars
    PROVE  AuditInv'
  <1>1. /\ writing' = writing \ {entry} /\ unwritten' = unwritten \cup {entry.change}
        /\ UNCHANGED <<trail, changes, calls>>
    BY DEF RecordFails, illVars
  <1>2. Answering' = Answering
    BY <1>1 DEF Answering
  <1>3. entry.change \in DOMAIN changes
    BY DEF AuditInv, Truthful, Says
  <1>4. AuditTypeOK'
    BY <1>1, <1>3 DEF AuditInv, AuditTypeOK
  <1>5. Truthful'
    BY <1>1, <1>2 DEF AuditInv, Truthful, Says
  <1>6. Once'
    BY <1>1, <1>2 DEF AuditInv, Once
  <1>7. Somewhere'
    BY <1>1, <1>2 DEF AuditInv, Somewhere
  <1> QED
    BY <1>4, <1>5, <1>6, <1>7 DEF AuditInv

LEMMA CrashAudited ==
    ASSUME AuditInv, Crash
    PROVE  AuditInv'
  <1>1. /\ writing' = {} /\ UNCHANGED <<trail, changes>>
        /\ unwritten' = unwritten \cup {e.change : e \in writing}
                                  \cup {calls[l].change : l \in Answering}
        /\ calls' = [l \in Librarians |-> Idle]
    BY DEF Crash, AuditCrash, Answering
  <1>2. Answering' = {}
    BY <1>1 DEF Answering, Idle
  <1>3. AuditTypeOK'
    BY <1>1 DEF AuditInv, AuditTypeOK, Truthful, Says
  <1>4. Truthful'
    BY <1>1, <1>2 DEF AuditInv, Truthful, Says
  <1>5. Once'
    BY <1>1, <1>2 DEF AuditInv, Once
  <1>6. Somewhere'
    BY <1>1, <1>2 DEF AuditInv, Somewhere
  <1> QED
    BY <1>3, <1>4, <1>5, <1>6 DEF AuditInv

-----------------------------------------------------------------------------
LEMMA InitInv == Init => IInv
  <1> SUFFICES ASSUME Init PROVE IInv
    OBVIOUS
  <1>1. NoteInv
    BY DEF Init, NoteInit, NoteInv, EventInv
  <1>2. IllInv
    BY DEF Init, IllInit, IllInv, IllTypeOK, Informed, IllegalOnlyByRace, Call, Idle
  <1>3. AuditInv
    BY DEF Init, AuditInit, IllInit, AuditInv, AuditTypeOK, Truthful, Once, Somewhere, Answering,
           Idle
  <1> QED
    BY <1>1, <1>2, <1>3 DEF IInv

\* A step that leaves the calls, the rows and the history alone.
LEMMA IllUntouched ==
    ASSUME IllInv, UNCHANGED illVars
    PROVE  IllInv'
  BY DEF illVars, IllInv, IllTypeOK, Informed, ChangedSince, IllegalOnlyByRace

LEMMA IllStepKeeps ==
    ASSUME IInv, IllStep, UNCHANGED <<auditVars, noteVars>>
    PROVE  IInv'
  <1>1. NoteInv'
    BY NoteStepKeeps DEF IInv, NoteNext
  <1>2. ASSUME NEW id \in Ids, submit(id) PROVE IInv'
    BY <1>1, <1>2, SubmitKeeps, AuditFrame DEF IInv, submit, Answering
  <1>3. ASSUME NEW l \in Librarians, NEW id \in Ids, NEW to \in IllRequestStatus,
               ReadRequest(l, id, to)
        PROVE  IInv'
    BY <1>1, <1>3, ReadRequestKeeps, ReadRequestFrame DEF IInv
  <1>4. ASSUME NEW l \in Librarians, WriteRequest(l) PROVE IInv'
    BY <1>1, <1>4, WriteRequestKeeps, WriteRequestAudited DEF IInv
  <1> QED
    BY <1>2, <1>3, <1>4 DEF IllStep

LEMMA AnswerKeeps ==
    ASSUME IInv, NEW l \in Librarians, Answer(l), UNCHANGED noteVars
    PROVE  IInv'
  <1>1. calls' = [calls EXCEPT ![l] = Idle] /\ UNCHANGED <<requests, changes>>
    BY DEF Answer
  <1>2. IllInv'
    BY <1>1, IllCallEnds DEF IInv, IllInv, IllTypeOK, Call
  <1> QED
    BY <1>2, AnswerAudited, NoteStepKeeps DEF IInv, NoteNext

LEMMA CrashKeeps ==
    ASSUME IInv, Crash
    PROVE  IInv'
  <1>1. calls' = [l \in Librarians |-> Idle] /\ UNCHANGED <<requests, changes>> /\ NoteCrash
    BY DEF Crash
  <1>2. IllInv'
    BY <1>1, IllCallEnds DEF IInv, Call
  <1> QED
    BY <1>1, <1>2, CrashAudited, NoteStepKeeps DEF IInv, NoteNext

\* A step that leaves the inter-library requests and their audit alone.
LEMMA NoteOnlyKeeps ==
    ASSUME IInv, NoteNext, UNCHANGED <<illVars, auditVars>>
    PROVE  IInv'
  BY NoteStepKeeps, IllUntouched, AuditFrame DEF IInv, illVars, Answering

THEOREM Invariance == Spec => []IInv
  <1>1. IInv /\ [Next]_vars => IInv'
    <2> SUFFICES ASSUME IInv, [Next]_vars PROVE IInv'
      OBVIOUS
    <2>1. CASE IllStep /\ UNCHANGED <<auditVars, noteVars, fines, crashes>>
      BY <2>1, IllStepKeeps
    <2>2. ASSUME NEW l \in Librarians, Answer(l), UNCHANGED noteVars PROVE IInv'
      BY <2>2, AnswerKeeps
    <2>3. ASSUME NEW entry \in writing, record(entry) \/ RecordFails(entry),
                 UNCHANGED <<illVars, noteVars>>
          PROVE  IInv'
      BY <2>3, RecordKeeps, RecordFailsKeeps, IllUntouched, NoteStepKeeps DEF IInv, NoteNext
    <2>4. CASE NoteStep /\ UNCHANGED <<illVars, auditVars, fines, crashes>>
      BY <2>4, NoteOnlyKeeps DEF NoteStep, NoteNext
    <2>5. CASE FineStep /\ UNCHANGED <<illVars, auditVars, noteVars, crashes>>
      BY <2>5, NoteOnlyKeeps DEF NoteNext
    <2>6. CASE Crash
      BY <2>6, CrashKeeps
    <2>7. CASE UNCHANGED vars
      BY <2>7, NoteOnlyKeeps DEF NoteNext, vars
    <2> QED
      BY <2>1, <2>2, <2>3, <2>4, <2>5, <2>6, <2>7 DEF Next, AuditStep
  <1> QED
    BY InitInv, <1>1, PTL DEF Spec

\* The notification log tells what happened to every event, whatever failed and
\* however often the server stopped.
THEOREM LogTellsTruthHolds == Spec => []LogTellsTruth
  <1>1. NoteInv => LogTellsTruth
    <2> SUFFICES ASSUME NoteInv, NEW e \in Events
                 PROVE  /\ "SENT" \in Logged(e) => e \in mailed
                        /\ "FAILED" \in Logged(e) => Mishap(e, "send") \/ Mishap(e, "logSent")
                        /\ Logged(e) = {"SENT", "FAILED"} => Mishap(e, "logSent")
                        /\ dispatch[e] = "done" /\ Logged(e) = {}
                              => Mishap(e, "crash") \/ Mishap(e, "logFailed")
      BY DEF LogTellsTruth
    <2>1. \A s : s \in Logged(e) <=> s \in {"SENT", "FAILED"} /\ Row(e, s) \in notificationLog
      BY RowsDiffer DEF NoteInv, Logged, Row
    <2> QED
      BY <2>1 DEF NoteInv, EventInv
  <1> QED
    BY <1>1, Invariance, PTL DEF IInv

\* An inter-library request moves against its table only if another change of
\* it came between the read and the write of the call that moved it.
THEOREM IllegalOnlyByRaceHolds == Spec => []IllegalOnlyByRace
  BY Invariance, PTL DEF IInv, IllInv

\* Every change has exactly one entry: written, under way, still to come or
\* lost; and what is written is of the very change.
THEOREM TrailAccountsHolds == Spec => []TrailAccounts
  <1>1. AuditInv => TrailAccounts
    <2> SUFFICES ASSUME AuditInv, NEW n \in DOMAIN changes
                 PROVE  Cardinality({k \in DOMAIN trail : trail[k].change = n})
                        + Cardinality({e \in writing : e.change = n})
                        + Cardinality({l \in Librarians : calls[l].step = "answer" /\ calls[l].change = n})
                        + Cardinality({n} \cap unwritten) = 1
      BY DEF AuditInv, Truthful, Says, TrailAccounts
    <2> DEFINE A == {k \in DOMAIN trail : trail[k].change = n}
               B == {e \in writing : e.change = n}
               C == {l \in Librarians : calls[l].step = "answer" /\ calls[l].change = n}
               D == {n} \cap unwritten
    <2> SUFFICES Cardinality(A) + Cardinality(B) + Cardinality(C) + Cardinality(D) = 1
      OBVIOUS
    <2> HIDE DEF A, B, C, D
    <2>1. Cardinality({}) = 0 /\ \A x : Cardinality({x}) = 1
      BY FS_EmptySet, FS_Singleton
    <2>2. C = {l \in Answering : calls[l].change = n}
      BY DEF Answering, C
    <2>3. CASE \E k \in DOMAIN trail : trail[k].change = n
      <3>1. PICK k \in DOMAIN trail : trail[k].change = n
        BY <2>3
      <3>2. A = {k} /\ B = {}
        BY <3>1 DEF AuditInv, Once, A, B, D
      <3>3. C = {} /\ D = {}
        BY <2>2, <3>1 DEF AuditInv, Once, A, B, D
      <3> QED
        BY <2>1, <3>2, <3>3
    <2>4. CASE \E e \in writing : e.change = n
      <3>1. PICK e \in writing : e.change = n
        BY <2>4
      <3>2. A = {} /\ B = {e}
        BY <3>1 DEF AuditInv, Once, A, B, D
      <3>3. C = {} /\ D = {}
        BY <2>2, <3>1 DEF AuditInv, Once, A, B, D
      <3> QED
        BY <2>1, <3>2, <3>3
    <2>5. CASE \E l \in Answering : calls[l].change = n
      <3>1. PICK l \in Answering : calls[l].change = n
        BY <2>5
      <3>2. A = {} /\ B = {}
        BY <3>1 DEF AuditInv, Once, A, B, D
      <3>3. C = {l} /\ D = {}
        BY <2>2, <3>1 DEF AuditInv, Once, A, B, D
      <3>4. Cardinality(C) = 1
        BY <2>1, <3>3
      <3> QED
        BY <2>1, <3>2, <3>3, <3>4
    <2>6. CASE n \in unwritten
      <3>1. A = {} /\ B = {}
        BY <2>6 DEF AuditInv, Once, A, B, D
      <3>2. C = {} /\ D = {n}
        BY <2>2, <2>6 DEF AuditInv, Once, A, B, D
      <3>3. Cardinality(D) = 1
        BY <2>1, <3>2
      <3> QED
        BY <2>1, <3>1, <3>2, <3>3
    <2> QED
      BY <2>3, <2>4, <2>5, <2>6 DEF AuditInv, Somewhere
  <1> QED
    BY <1>1, Invariance, PTL DEF IInv

-----------------------------------------------------------------------------
\* The fines: the floor, the days of grace and the cap of calculateOverdueFine
\* against a count of the whole days that are over, for every policy and every
\* length of a day.

\* What a row is: the fine its loan's facts lead to.
Charged(f) ==
    /\ f.memberType \in DOMAIN Policies /\ f.dueAt \in Int /\ f.asOf \in Int
    /\ LET fine == calculateOverdueFine(f.dueAt, f.asOf, Policies[f.memberType])
       IN  f.amount = fine.amount /\ f.reason = fine.daysCharged /\ fine.daysCharged # 0

FineInv == \A f \in fines : Charged(f)

-----------------------------------------------------------------------------
\* The quotient is the number of whole days.
LEMMA QuotientBounds ==
    ASSUME NEW x \in Int, NEW D \in Nat \ {0}
    PROVE  x \div D \in Int /\ (x \div D) * D <= x /\ x < (x \div D + 1) * D
  OBVIOUS

LEMMA TimesMonotone ==
    ASSUME NEW a \in Int, NEW b \in Int, NEW D \in Nat, a <= b
    PROVE  a * D <= b * D
  OBVIOUS

LEMMA WholeDays ==
    ASSUME NEW x \in Int, NEW D \in Nat \ {0}, NEW m \in Int
    PROVE  m * D <= x <=> m <= x \div D
  <1>1. CASE m <= x \div D
    BY <1>1, TimesMonotone, QuotientBounds
  <1>2. CASE m > x \div D
    <2>1. (x \div D + 1) * D <= m * D
      BY <1>2, TimesMonotone, QuotientBounds
    <2> QED
      BY <1>2, <2>1, QuotientBounds
  <1> QED
    BY <1>1, <1>2, QuotientBounds

\* More time is at least as many whole days.
LEMMA QuotientMonotone ==
    ASSUME NEW x \in Int, NEW y \in Int, NEW D \in Nat \ {0}, x <= y
    PROVE  x \div D <= y \div D
  <1>1. (x \div D) * D <= y
    BY QuotientBounds
  <1> QED
    BY <1>1, WholeDays, QuotientBounds

\* A row's days and amount.
LEMMA ChargedFields ==
    ASSUME NEW f, Charged(f)
    PROVE  LET policy == Policies[f.memberType]
               late   == (f.asOf - f.dueAt) \div DayTicks
           IN  /\ late \in Int /\ late > policy.gracePeriodDays
               /\ f.reason = late - policy.gracePeriodDays
               /\ f.amount = IF policy.maxFine # NoLimit /\ policy.finePerDay * f.reason > policy.maxFine
                             THEN policy.maxFine ELSE policy.finePerDay * f.reason
  BY FineAssumption, QuotientBounds DEF Charged, calculateOverdueFine, DaysLate

\* The days charged are the whole days beyond the days of grace.
LEMMA DaysCounted ==
    ASSUME NEW f, Charged(f)
    PROVE  Cardinality(FullDays(f)) = f.reason
  <1> DEFINE x == f.asOf - f.dueAt
             g == Policies[f.memberType].gracePeriodDays
             n == f.reason
  <1>1. x \in Int /\ g \in Nat /\ DayTicks \in Nat \ {0}
    BY FineAssumption DEF Charged
  <1>2. n \in Nat \ {0} /\ n = x \div DayTicks - g
    BY <1>1, ChargedFields
  <1>3. ASSUME NEW d \in Int
        PROVE  f.dueAt + (g + d) * DayTicks <= f.asOf <=> d <= n
    <2>1. (g + d) * DayTicks <= x <=> g + d <= x \div DayTicks
      BY <1>1, WholeDays
    <2>2. (g + d) * DayTicks \in Int /\ f.dueAt \in Int /\ f.asOf \in Int
      BY <1>1 DEF Charged
    <2> HIDE DEF g, n
    <2> QED
      BY <1>1, <1>2, <2>1, <2>2, QuotientBounds
  <1>4. n <= x
    <2>1. n * 1 <= (x \div DayTicks) * DayTicks
      <3>1. n <= x \div DayTicks /\ x \div DayTicks \in Nat
        BY <1>1, <1>2, QuotientBounds
      <3>2. (x \div DayTicks) * 1 <= (x \div DayTicks) * DayTicks
        BY <1>1, <3>1, TimesMonotone
      <3> QED
        BY <1>1, <1>2, <3>1, <3>2
    <2> QED
      BY <1>1, <1>2, <2>1, QuotientBounds
  <1>5. FullDays(f) = 1 .. n
    <2> HIDE DEF g, n, x
    <2>1. FullDays(f) = {d \in 1 .. x : f.dueAt + (g + d) * DayTicks <= f.asOf}
      BY DEF FullDays, g, x
    <2>2. \A d \in Int : f.dueAt + (g + d) * DayTicks <= f.asOf <=> d <= n
      BY <1>3
    <2>3. FullDays(f) = {d \in 1 .. x : d <= n}
      BY <2>1, <2>2
    <2> QED
      BY <1>1, <1>2, <1>4, <2>3
  <1> QED
    BY <1>2, <1>5, FS_Interval

LEMMA AmountFair ==
    ASSUME NEW f, Charged(f)
    PROVE  LET policy == Policies[f.memberType]
               due    == policy.finePerDay * Cardinality(FullDays(f))
           IN  /\ f.reason = Cardinality(FullDays(f))
               /\ f.amount \in {due, policy.maxFine} /\ f.amount <= due
               /\ policy.maxFine # NoLimit => f.amount <= policy.maxFine
  <1> DEFINE policy == Policies[f.memberType]
             due == policy.finePerDay * f.reason
  <1>1. f.reason = Cardinality(FullDays(f))
    BY DaysCounted
  <1>2. /\ f.reason \in Nat /\ policy.finePerDay \in Nat
        /\ policy.maxFine \in {NoLimit} \cup Nat
        /\ f.amount = IF policy.maxFine # NoLimit /\ due > policy.maxFine
                      THEN policy.maxFine ELSE due
    BY ChargedFields, FineAssumption DEF Charged
  <1>3. due \in Nat
    BY <1>2
  <1>4. /\ f.amount \in {due, policy.maxFine} /\ f.amount <= due
        /\ policy.maxFine # NoLimit => f.amount <= policy.maxFine
    <2> HIDE DEF due, policy
    <2> QED
      BY <1>2, <1>3
  <1> QED
    BY <1>1, <1>4

LEMMA AmountMonotone ==
    ASSUME NEW f, NEW g, Charged(f), Charged(g),
           f.memberType = g.memberType, f.dueAt = g.dueAt, f.asOf <= g.asOf
    PROVE  f.amount <= g.amount
  <1> DEFINE policy == Policies[f.memberType]
             a == policy.finePerDay * f.reason
             b == policy.finePerDay * g.reason
  <1>1. f.asOf - f.dueAt \in Int /\ g.asOf - g.dueAt \in Int /\ f.asOf - f.dueAt <= g.asOf - g.dueAt
    BY DEF Charged
  <1>2. (f.asOf - f.dueAt) \div DayTicks <= (g.asOf - g.dueAt) \div DayTicks
    BY <1>1, QuotientMonotone, FineAssumption
  <1>3. policy.finePerDay \in Nat /\ policy.gracePeriodDays \in Nat
        /\ policy.maxFine \in {NoLimit} \cup Nat
    BY FineAssumption DEF Charged
  <1>4. f.reason \in Nat /\ g.reason \in Nat /\ f.reason <= g.reason
    BY <1>2, <1>3, ChargedFields
  <1>5. a <= b /\ a \in Nat /\ b \in Nat
    BY <1>3, <1>4, TimesMonotone
  <1>6. /\ f.amount = IF policy.maxFine # NoLimit /\ a > policy.maxFine THEN policy.maxFine ELSE a
        /\ g.amount = IF policy.maxFine # NoLimit /\ b > policy.maxFine THEN policy.maxFine ELSE b
    BY ChargedFields
  <1> HIDE DEF a, b, policy
  <1> QED
    BY <1>3, <1>5, <1>6

LEMMA CreateKeeps ==
    ASSUME FineInv, NEW type \in DOMAIN Policies, NEW asOf \in Lateness,
           createOverdueFine(type, 0, asOf)
    PROVE  FineInv'
  <1> DEFINE fine == calculateOverdueFine(0, asOf, Policies[type])
             row == [amount |-> fine.amount, reason |-> fine.daysCharged,
                     memberType |-> type, dueAt |-> 0, asOf |-> asOf]
  <1>1. fine.daysCharged # 0 /\ fines' = fines \cup {row}
    BY DEF createOverdueFine
  <1>2. Charged(row)
    BY <1>1, BackOfficeAssumption DEF Charged
  <1> HIDE DEF row
  <1> QED
    BY <1>1, <1>2 DEF FineInv, Charged

-----------------------------------------------------------------------------
THEOREM FineInvariance == Spec => []FineInv
  <1>1. Init => FineInv
    BY DEF Init, FineInit, FineInv
  <1>2. FineInv /\ [Next]_vars => FineInv'
    <2> SUFFICES ASSUME FineInv, [Next]_vars PROVE FineInv'
      OBVIOUS
    <2>1. CASE FineStep
      BY <2>1, CreateKeeps DEF FineStep
    <2>2. CASE UNCHANGED fines
      BY <2>2 DEF FineInv, Charged
    <2> QED
      BY <2>1, <2>2 DEF Next, Answer, Crash, vars
  <1> QED
    BY <1>1, <1>2, PTL DEF Spec

\* Each whole day beyond the days of grace is charged and nothing else, up to
\* the maximum, and a later return never costs less.
THEOREM FinesFairHolds == Spec => []FinesFair
  <1>1. FineInv => FinesFair
    BY AmountFair, AmountMonotone DEF FineInv, FinesFair
  <1> QED
    BY <1>1, FineInvariance, PTL
=============================================================================
