---------------------------- MODULE MCReservations ----------------------------
(* ReservationQueue on small instances. *)
EXTENDS ReservationQueue, TLC

ProcsAlike == Permutations(Procs)
=============================================================================
