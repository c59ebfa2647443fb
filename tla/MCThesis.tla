------------------------------- MODULE MCThesis -------------------------------
(* ThesisSubmission on small instances. *)
EXTENDS ThesisSubmission, TLC

ProcsAlike == Permutations(Procs)
=============================================================================
