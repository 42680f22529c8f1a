-------------------------- MODULE MCBillingSession --------------------------
(* Instances of BillingSession for TLC. *)
EXTENDS BillingSession, TLC

CONSTANTS r1, r2

TwoRequests == {r1, r2}
RequestSymmetry == Permutations(TwoRequests)

(* A cached read is fresh or too high; or it is off by one either way. *)
TooHigh == {0, 1}
SomeLag == {-1, 0, 1}
=============================================================================
