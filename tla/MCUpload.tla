------------------------------- MODULE MCUpload -------------------------------
(* ThesisUpload on small instances. *)
EXTENDS ThesisUpload, TLC

Alike == Permutations(Procs) \cup Permutations(Pages)
=============================================================================
