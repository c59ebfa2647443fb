-------------------------------- MODULE MCLoans --------------------------------
(* LoanService on small instances. *)
EXTENDS LoanService, TLC

\* Two copies of one book, or one copy of each of two.
OneBook == [c \in Copies |-> CHOOSE b \in Books : TRUE]

\* Every member may keep a loan for one tick, renewed once.
OneTick == [m \in Members |-> 1]
RenewOnce == [m \in Members |-> 1]

ProcsAlike == Permutations(Procs)
=============================================================================
