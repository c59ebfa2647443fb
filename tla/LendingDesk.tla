------------------------------ MODULE LendingDesk ------------------------------
(***************************************************************************)
(* What a library promises about its copies, with no database in sight: a  *)
(* copy is on the shelf or out on exactly one loan, a copy that is out is  *)
(* not lent again until that very loan is given back, and a loan is given  *)
(* back once and for good.  LoanService implements this specification when *)
(* no two requests work on one loan at the same time.                      *)
(***************************************************************************)
EXTENDS Naturals

CONSTANT Copies   \* the physical copies

OnShelf == 0       \* "out on no loan": loans are numbered from 1

VARIABLES
    outOn,    \* outOn[c]: the loan copy c is out on, or OnShelf
    lent,     \* how many loans were ever made
    closed    \* the loans given back

deskVars == <<outOn, lent, closed>>

DeskInit ==
    /\ outOn = [c \in Copies |-> OnShelf]
    /\ lent = 0
    /\ closed = {}

Lend(c) ==
    /\ outOn[c] = OnShelf
    /\ lent' = lent + 1
    /\ outOn' = [outOn EXCEPT ![c] = lent + 1]
    /\ UNCHANGED closed

GiveBack(c) ==
    /\ outOn[c] # OnShelf
    /\ closed' = closed \cup {outOn[c]}
    /\ outOn' = [outOn EXCEPT ![c] = OnShelf]
    /\ UNCHANGED lent

DeskNext == \E c \in Copies : Lend(c) \/ GiveBack(c)

DeskSpec == DeskInit /\ [][DeskNext]_deskVars
=============================================================================
