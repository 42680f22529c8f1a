------------------------------ MODULE MCOrders ------------------------------
(* Instances of Orders for TLC. *)
EXTENDS Orders

(* On MySQL or PostgreSQL every kind whose handlers exclude each other; on *)
(* SQLite those that rely on the database for it.                          *)
EverySetup ==
    {"epay", "stripe", "creem", "sub_epay", "sub_stripe", "sub_creem", "checkin"} \X {"mysql"}
        \cup {"waffo", "code", "checkin"} \X {"sqlite"}

OneNode == {"node"}
InOneNode == [h \in Handlers |-> "node"]
=============================================================================
