--------------------------------- MODULE Fines ---------------------------------
(***************************************************************************)
(* FineCalculationService: the fine of an overdue loan from the policy row *)
(* of the member's type.  Times are ticks, amounts are whole.              *)
(***************************************************************************)
EXTENDS Integers, FiniteSets

CONSTANTS
    Policies,      \* by member type: finePerDay, gracePeriodDays, maxFine
    NoLimit,       \* maxFine is NULL
    DayTicks       \* ticks of a day

ASSUME FineAssumption ==
    /\ DayTicks \in Nat \ {0}
    /\ \A t \in DOMAIN Policies :
        /\ Policies[t].finePerDay \in Nat /\ Policies[t].gracePeriodDays \in Nat
        /\ Policies[t].maxFine \in {NoLimit} \cup Nat

VARIABLE fines     \* rows; the facts they were decided on are history

FineInit == fines = {}

\* Mutant: a started day counts.
DaysLateUp(dueAt, asOf) == (asOf - dueAt + DayTicks - 1) \div DayTicks

\* Math.floor of the days passed; negative before the due date.
DaysLate(dueAt, asOf) == (asOf - dueAt) \div DayTicks

calculateOverdueFine(dueAt, asOf, policy) ==
    LET rawDays     == DaysLate(dueAt, asOf)
        daysCharged == IF rawDays > policy.gracePeriodDays THEN rawDays - policy.gracePeriodDays ELSE 0
        amount      == policy.finePerDay * daysCharged
    IN  [daysCharged |-> daysCharged,
         amount |-> IF policy.maxFine # NoLimit /\ amount > policy.maxFine
                    THEN policy.maxFine ELSE amount]

\* The loan is read as not returned; a member type without a policy is refused.
createOverdueFine(memberType, dueAt, asOf) ==
    /\ memberType \in DOMAIN Policies
    /\ LET fine == calculateOverdueFine(dueAt, asOf, Policies[memberType])
       IN  /\ fine.daysCharged # 0 /\ fine.amount # 0
           /\ fines' = fines \cup {[amount |-> fine.amount, reason |-> fine.daysCharged,
                                    memberType |-> memberType, dueAt |-> dueAt, asOf |-> asOf]}

\* The days that are over since the due date and the days of grace.
FullDays(f) ==
    {d \in 1 .. (f.asOf - f.dueAt) :
        f.dueAt + (Policies[f.memberType].gracePeriodDays + d) * DayTicks <= f.asOf}

\* A member is charged for each whole day beyond the days of grace and for
\* nothing else, never more than the maximum, and never less for returning
\* later: the floor, the grace and the cap are applied in that order.
FinesFair ==
    /\ \A f \in fines :
        LET policy == Policies[f.memberType]
            due    == policy.finePerDay * Cardinality(FullDays(f))
        IN  /\ f.reason = Cardinality(FullDays(f))
            /\ f.amount \in {due, policy.maxFine} /\ f.amount <= due
            /\ policy.maxFine # NoLimit => f.amount <= policy.maxFine
    /\ \A f, g \in fines :
        f.memberType = g.memberType /\ f.dueAt = g.dueAt /\ f.asOf <= g.asOf => f.amount <= g.amount
=============================================================================
