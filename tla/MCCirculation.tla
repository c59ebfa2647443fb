----------------------------- MODULE MCCirculation -----------------------------
(* Circulation on small instances: every copy is a copy of the same book,   *)
(* and a loan lasts one tick and may be renewed once.                       *)
EXTENDS Circulation, TLC

OneBook == [c \in Copies |-> CHOOSE b \in Books : TRUE]
OneTick == [m \in Members |-> 1]
RenewOnce == [m \in Members |-> 1]

ProcsAlike == Permutations(DeskProcs) \cup Permutations(QueueProcs)
=============================================================================
