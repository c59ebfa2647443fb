------------------------------ MODULE MCBackOffice ------------------------------
(* One request under two librarians, one event, a capped and an open-ended   *)
(* policy.  Fines share no state with the rest and are explored by themselves. *)
EXTENDS BackOffice, TLC

MCPolicies ==
    [capped |-> [finePerDay |-> 2, gracePeriodDays |-> 1, maxFine |-> 5],
     open   |-> [finePerDay |-> 1, gracePeriodDays |-> 0, maxFine |-> NoLimit]]

\* A bound: fines are asked for while nothing else goes on.
FinesByThemselves ==
    fines # {} =>
        /\ \A id \in Ids : requests[id] = NoRow
        /\ \A e \in Events : dispatch[e] = "quiet"
=============================================================================
