------------------------- MODULE MCSubscriptionQuota -------------------------
(* Instances of SubscriptionQuota for TLC. *)
EXTENDS SubscriptionQuota, TLC

CONSTANTS r1, r2, r3, n1, n2

RequestSymmetry == Permutations({r1, r2})

(* The totals of one subscription, and of a small and a larger one. *)
One == <<3>>
Two == <<1, 3>>

(* Settlements that give one back and that take one more. *)
SmallDeltas == {-1, 1}
=============================================================================
