----------------------------- MODULE ThesisReview -----------------------------
(***************************************************************************)
(* What the thesis workflow promises: a student attaches a file to a       *)
(* draft, and may replace it, until the draft is submitted; from then on   *)
(* the file and the time of submission stay, and the staff move the        *)
(* submission along the legal moves.  What is judged is what was submitted.*)
(***************************************************************************)
EXTENDS Integers, Sequences, StateTransitions

CONSTANTS Files, NoFile, Times, Never

VARIABLE subs    \* the submissions, in the order of creation

Open == subs' = Append(subs, [status |-> "DRAFT", file |-> NoFile, submittedAt |-> Never])

Attach(s) ==
    /\ subs[s].status = "DRAFT"
    /\ \E f \in Files : subs' = [subs EXCEPT ![s].file = f]

Submit(s) ==
    /\ subs[s].status = "DRAFT"
    /\ subs[s].file # NoFile
    /\ \E t \in Times :
          subs' = [subs EXCEPT ![s].status = "SUBMITTED", ![s].submittedAt = t]

Judge(s) ==
    /\ subs[s].status # "DRAFT"
    /\ \E to \in SubmissionTransitions[subs[s].status] :
          subs' = [subs EXCEPT ![s].status = to]

Next == Open \/ \E s \in DOMAIN subs : Attach(s) \/ Submit(s) \/ Judge(s)

Spec == subs = << >> /\ [][Next]_subs
=============================================================================
