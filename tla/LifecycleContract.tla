------------------------- MODULE LifecycleContract -------------------------
(***************************************************************************)
(* What a status table promises of the records it governs: a record goes   *)
(* through the chain of its phases from the first one, one at a time, and  *)
(* reaches none whose predecessor it has not been in.  It may be sent back *)
(* any number of times; that shows in its status, not here.                *)
(***************************************************************************)
EXTENDS Naturals, Sequences

CONSTANTS Item, Chain

VARIABLE been     \* the phases of the chain each item has been in so far

Passed(n) == {Chain[k] : k \in 1..n}

Init == been = [i \in Item |-> {}]

Advance(i) ==
    \E n \in 1..Len(Chain) :
        /\ been[i] = Passed(n - 1)
        /\ been' = [been EXCEPT ![i] = Passed(n)]

Next == \E i \in Item : Advance(i)

Spec == Init /\ [][Next]_been
=============================================================================
