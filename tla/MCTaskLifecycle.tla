--------------------------- MODULE MCTaskLifecycle ---------------------------
(* Instances of TaskLifecycle for TLC. *)
EXTENDS TaskLifecycle, TLC

CONSTANTS p1, p2

PollerSymmetry == Permutations({p1, p2})
=============================================================================
