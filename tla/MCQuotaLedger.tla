---------------------------- MODULE MCQuotaLedger ----------------------------
(* Instances of QuotaLedger for TLC. *)
EXTENDS QuotaLedger

(* A charge and a refund that can cancel each other out. *)
TwoDeltas == {-1, 1}
(* An owner takes the whole quota away; an affiliate moves some to it. *)
OneValue == {0}
OneGift == {2}
=============================================================================
