-------------------------------- MODULE MCPortal --------------------------------
(* Two tabs on a book with two copies; the tabs are interchangeable.       *)
EXTENDS Portal, TLC

TabSymmetry == Permutations(Tabs)

\* Bound: a second move by others and a third loan only where the tabs have not
\* raced for the CSRF cookie and nothing was reserved.
OneMatterAtATime ==
    \/ moves <= 1 /\ Len(loans) <= 2
    \/ minted <= 1 /\ holds = 0
=============================================================================
