-------------------------- MODULE CheckElimination --------------------------
(***************************************************************************)
(* What a pass that removes checks promises: it takes checks out of the    *)
(* code one at a time, in any order and as many as it can show to be       *)
(* redundant, and at no moment would the code it has made do anything else *)
(* than the code it was given.                                             *)
(***************************************************************************)
CONSTANT Sites          \* the places where a check may stand

VARIABLES
    checked,            \* the sites that still have their check
    outcome             \* what executing the code, as it is now, does

vars == <<checked, outcome>>

Init == checked \subseteq Sites

Drop(s) ==
    /\ checked' = checked \ {s}
    /\ UNCHANGED outcome

Next == \E s \in checked : Drop(s)

Spec == Init /\ [][Next]_vars
=============================================================================
