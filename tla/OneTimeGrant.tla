---------------------------- MODULE OneTimeGrant ----------------------------
(***************************************************************************)
(* What an order, a redemption code or a day's check-in promises: it is    *)
(* open until it is either granted, once, or closed for good.              *)
(***************************************************************************)
EXTENDS Naturals

VARIABLES
    granted,    \* how often it was granted
    open        \* whether it may still be granted

Init == granted = 0 /\ open = TRUE

Grant ==
    /\ open
    /\ granted' = granted + 1
    /\ open' = FALSE

Close ==
    /\ open
    /\ open' = FALSE
    /\ UNCHANGED granted

Next == Grant \/ Close

Spec == Init /\ [][Next]_<<granted, open>>
=============================================================================
