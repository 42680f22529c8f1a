------------------------------- MODULE Orders -------------------------------
(***************************************************************************)
(* One top-up order, subscription order, redemption code or check-in day,  *)
(* and the handlers that complete, fail or expire it: the webhooks of the  *)
(* payment providers and the administrator (controller/topup*.go,          *)
(* controller/subscription_payment_epay.go, model/topup.go,                *)
(* model/subscription.go), Redeem (model/redemption.go) and UserCheckin    *)
(* (model/checkin.go).                                                     *)
(*                                                                         *)
(* Handlers of one process exclude each other by LockOrder, a table of     *)
(* mutexes that is kept small by reference counts.  The FOR UPDATE of the  *)
(* transactions is an option of an older GORM and has no effect, so a      *)
(* transaction may act on a status that is out of date, unless the         *)
(* database itself refuses it.  A provider sends its event again until it  *)
(* gets a good answer, and may send it twice.                              *)
(***************************************************************************)
EXTENDS Naturals, FiniteSets

CONSTANTS
    Handlers,       \* goroutines that serve requests
    None,           \* no handler, no mutex
    Nodes,          \* processes
    NodeOf,         \* the process of each handler
    Setups,         \* pairs of a kind of order and a database
    MaxEvents,      \* bound on the events besides the payment's own
    MaxFaults,      \* bound on failing reads and writes and crashes
    MaxBoth         \* bound on events and faults together

(* Top-ups by provider, subscription orders by provider, and the rest. *)
TopUps == {"epay", "stripe", "creem", "waffo"}
SubscriptionOrders == {"sub_epay", "sub_stripe", "sub_creem"}
Kinds == TopUps \cup SubscriptionOrders \cup {"code", "checkin"}
Databases == {"mysql", "sqlite"}

ASSUME OrdersAssumption ==
    /\ IsFiniteSet(Handlers) /\ Handlers # {} /\ None \notin Handlers
    /\ NodeOf \in [Handlers -> Nodes]
    /\ Setups \subseteq Kinds \X Databases /\ Setups # {}
    /\ MaxEvents \in Nat /\ MaxFaults \in Nat /\ MaxBoth \in Nat

Operations == {"pay", "expire", "fail", "complete"}
Statuses == {"pending", "success", "expired", "failed"}

VARIABLES
    kind, dbms,     \* the setup
    status,         \* the order's row; of a check-in: whether the record exists
    version,        \* how often the row was written
    credits,        \* how often the user's quota was raised
    owed,           \* the provider still has to report the payment
    pc, op,         \* each handler: where it is, and what it does
    seen,           \* the version of the row it has read
    table,          \* orderLocks: the mutex of the order in each process
    mutex,          \* the mutex each handler has got from the table
    owner,          \* of each mutex: the handler that holds it
    refs,           \* of each mutex: refCount
    events, faults, \* numbers of events and faults so far
    gap             \* history: marked as paid, and the credit failed

row == <<status, version, credits>>
locks == <<table, mutex, owner, refs>>
bounds == <<events, faults>>
setup == <<kind, dbms>>
vars == <<setup, row, owed, pc, op, seen, locks, bounds, gap>>

(* A mutex is named by a handler: there are never more in use. *)
Init ==
    /\ \E s \in Setups : kind = s[1] /\ dbms = s[2]
    /\ status = "pending" /\ version = 0 /\ credits = 0
    /\ owed = TRUE
    /\ pc = [h \in Handlers |-> "idle"] /\ op = [h \in Handlers |-> "pay"]
    /\ seen = [h \in Handlers |-> 0]
    /\ table = [n \in Nodes |-> None] /\ mutex = [h \in Handlers |-> None]
    /\ owner = [m \in Handlers |-> None] /\ refs = [m \in Handlers |-> 0]
    /\ events = 0 /\ faults = 0
    /\ gap = FALSE

Goto(h, l) == pc' = [pc EXCEPT ![h] = l]

-----------------------------------------------------------------------------
(* Requests. *)

(* Which operations there are for which order.  Stripe reports sessions    *)
(* that expired and payments that failed later; Waffo reports failures;    *)
(* an administrator can complete a top-up; a code is redeemed and a day is *)
(* checked in by requests of users.                                        *)
Possible(o) ==
    \/ o = "pay"
    \/ o = "expire" /\ kind \in {"stripe", "sub_stripe"}
    \/ o = "fail" /\ kind \in {"stripe", "waffo"}
    \/ o = "complete" /\ kind \in TopUps

(* Only orders have a lock, and UpdatePendingTopUpStatus of Waffo's        *)
(* failures is called without it.  The bug: the administrator's request    *)
(* does without it as well.                                                *)
LockingNotAdmin(o) ==
    /\ kind \in TopUps \cup SubscriptionOrders
    /\ ~(kind = "waffo" /\ o = "fail") /\ o # "complete"
Locking(o) ==
    /\ kind \in TopUps \cup SubscriptionOrders
    /\ ~(kind = "waffo" /\ o = "fail")

Start(h, o) ==
    /\ pc[h] = "idle"
    /\ op' = [op EXCEPT ![h] = o]
    /\ Goto(h, IF Locking(o) THEN "enter" ELSE "read")
    /\ UNCHANGED <<setup, row, seen, locks, faults, gap>>

(* The provider reports the payment, or a user sends the code. *)
Pay(h) ==
    /\ owed
    /\ Start(h, "pay")
    /\ UNCHANGED <<owed, events>>

(* Any other event: a repeated report, an expiry, an administrator. *)
Event(h, o) ==
    /\ events < MaxEvents /\ events + faults < MaxBoth /\ events' = events + 1
    /\ Possible(o)
    /\ Start(h, o)
    /\ UNCHANGED owed

-----------------------------------------------------------------------------
(* LockOrder and UnlockOrder. *)

Unused == CHOOSE m \in Handlers : refs[m] = 0 /\ \A n \in Nodes : table[n] # m

(* The part of LockOrder under createLock. *)
Enter(h) ==
    LET n == NodeOf[h]
        m == IF table[n] = None THEN Unused ELSE table[n]
    IN /\ pc[h] = "enter"
       /\ table' = [table EXCEPT ![n] = m]
       /\ mutex' = [mutex EXCEPT ![h] = m]
       /\ refs' = [refs EXCEPT ![m] = refs[m] + 1]
       /\ Goto(h, "wait")
       /\ UNCHANGED <<setup, row, owed, op, seen, owner, bounds, gap>>

(* rcm.mu.Lock *)
Acquire(h) ==
    /\ pc[h] = "wait"
    /\ owner[mutex[h]] = None
    /\ owner' = [owner EXCEPT ![mutex[h]] = h]
    /\ Goto(h, "read")
    /\ UNCHANGED <<setup, row, owed, op, seen, table, mutex, refs, bounds, gap>>

(* UnlockOrder: the mutex it unlocks is the one it finds in the table, if  *)
(* it finds one.                                                           *)
Unlock(h) ==
    LET m == table[NodeOf[h]]
    IN /\ pc[h] = "unlock"
       /\ owner' = [x \in Handlers |-> IF x = m THEN None ELSE owner[x]]
       /\ mutex' = [mutex EXCEPT ![h] = m]
       /\ Goto(h, IF m = None THEN "idle" ELSE "leave")
       /\ UNCHANGED <<setup, row, owed, op, seen, table, refs, bounds, gap>>

(* The part of UnlockOrder under createLock.  The bug, that of a table     *)
(* without reference counts: whoever unlocks takes the mutex out.          *)
LeaveUncounted(h) ==
    /\ pc[h] = "leave"
    /\ refs' = [refs EXCEPT ![mutex[h]] = refs[mutex[h]] - 1]
    /\ table' = [table EXCEPT ![NodeOf[h]] = None]
    /\ mutex' = [mutex EXCEPT ![h] = None]
    /\ op' = [op EXCEPT ![h] = "pay"]
    /\ Goto(h, "idle")
    /\ UNCHANGED <<setup, row, owed, seen, owner, bounds, gap>>
Leave(h) ==
    /\ pc[h] = "leave"
    /\ refs' = [refs EXCEPT ![mutex[h]] = refs[mutex[h]] - 1]
    /\ table' = [table EXCEPT ![NodeOf[h]] = IF refs[mutex[h]] = 1 THEN None ELSE @]
    /\ mutex' = [mutex EXCEPT ![h] = None]
    /\ op' = [op EXCEPT ![h] = "pay"]
    /\ Goto(h, "idle")
    /\ UNCHANGED <<setup, row, owed, seen, owner, bounds, gap>>

-----------------------------------------------------------------------------
(* What the handlers do with the row. *)

(* These answer well whatever happened: StripeWebhook and EpayNotify have  *)
(* nothing else to say, and users are not made to repeat.  The others say  *)
(* "fail", 500 or "retry".  The bug: Waffo's handler does not.             *)
AnswersWellWaffo == {"epay", "stripe", "sub_stripe", "code", "checkin", "waffo"}
AnswersWell == {"epay", "stripe", "sub_stripe", "code", "checkin"}

(* The handler answers and, deferred, unlocks.  The bug: it unlocks only   *)
(* after a success.                                                        *)
FinishLocked(h, error) ==
    /\ seen' = [seen EXCEPT ![h] = 0]
    /\ owed' = (owed /\ ~(op[h] = "pay" /\ (~error \/ kind \in AnswersWell)))
    /\ Goto(h, IF Locking(op[h]) /\ ~error THEN "unlock" ELSE "idle")
Finish(h, error) ==
    /\ seen' = [seen EXCEPT ![h] = 0]
    /\ owed' = (owed /\ ~(op[h] = "pay" /\ (~error \/ kind \in AnswersWell)))
    /\ Goto(h, IF Locking(op[h]) THEN "unlock" ELSE "idle")

(* One read or write fails. *)
Fault == faults < MaxFaults /\ events + faults < MaxBoth /\ faults' = faults + 1

(* The order is read and its status checked.  RechargeWaffo and            *)
(* CompleteSubscriptionOrder take a second success for done, handlers of   *)
(* the other kinds never tell; nothing is done for an order that has       *)
(* ended.  The bug: an expired or failed order is completed as well.       *)
ReadSuccessOnly(h) ==
    /\ pc[h] = "read"
    /\ IF status # "success"
         THEN /\ seen' = [seen EXCEPT ![h] = version]
              /\ Goto(h, "write")
              /\ UNCHANGED owed
         ELSE Finish(h, FALSE)
    /\ UNCHANGED <<setup, row, op, locks, bounds, gap>>
Read(h) ==
    /\ pc[h] = "read"
    /\ IF status = "pending"
         THEN /\ seen' = [seen EXCEPT ![h] = version]
              /\ Goto(h, "write")
              /\ UNCHANGED owed
         ELSE Finish(h, status # "success")
    /\ UNCHANGED <<setup, row, op, locks, bounds, gap>>

(* The read fails: to the handlers the order does not exist.  Those of     *)
(* Epay and Waffo say so; Creem's subscription is then looked for among    *)
(* the top-ups, and ignored with a good answer unless it is a one-time     *)
(* payment.                                                                *)
ReadFails(h) ==
    /\ pc[h] = "read" /\ Fault
    /\ \/ Finish(h, TRUE)
       \/ kind = "sub_creem" /\ Finish(h, FALSE)
    /\ UNCHANGED <<setup, row, op, locks, events, gap>>

(* EpayNotify, a Stripe payment that failed later, and a check-in on       *)
(* SQLite write without a transaction.                                     *)
Transactional(h) ==
    /\ ~(kind = "epay" /\ op[h] = "pay")
    /\ ~(kind = "stripe" /\ op[h] = "fail")
    /\ ~(kind = "checkin" /\ dbms = "sqlite")

(* SQLite refuses the write of a transaction that has read an older row;   *)
(* the unique index refuses a second check-in of the day.                  *)
Refused(h) ==
    \/ dbms = "sqlite" /\ Transactional(h) /\ seen[h] # version
    \/ kind = "checkin" /\ status # "pending"

Target(o) ==
    [pay |-> "success", complete |-> "success", expire |-> "expired", fail |-> "failed"][o]

(* Recharge, RechargeCreem, RechargeWaffo, ManualCompleteTopUp,            *)
(* CompleteSubscriptionOrder, Redeem and userCheckinWithTransaction raise  *)
(* the quota, or create the subscription, in the transaction that marks    *)
(* the row; the others only mark it.                                       *)
Write(h) ==
    /\ pc[h] = "write" /\ ~Refused(h)
    /\ status' = Target(op[h])
    /\ version' = version + 1
    /\ IF Target(op[h]) = "success" /\ ~Transactional(h)
         THEN Goto(h, "credit") /\ UNCHANGED <<credits, owed, seen>>
         ELSE /\ credits' = IF Target(op[h]) = "success" THEN credits + 1 ELSE credits
              /\ Finish(h, FALSE)
    /\ UNCHANGED <<setup, op, locks, bounds, gap>>

(* The write fails, or is refused, and the transaction is rolled back. *)
WriteFails(h) ==
    /\ pc[h] = "write"
    /\ \/ Refused(h) /\ UNCHANGED faults
       \/ ~Refused(h) /\ Fault
    /\ Finish(h, TRUE)
    /\ UNCHANGED <<setup, row, op, locks, events, gap>>

(* IncreaseUserQuota after the row was marked. *)
Credit(h) ==
    /\ pc[h] = "credit"
    /\ credits' = credits + 1
    /\ Finish(h, FALSE)
    /\ UNCHANGED <<setup, status, version, op, locks, bounds, gap>>

(* It fails: EpayNotify gives up, a check-in takes its record back. *)
CreditFails(h) ==
    /\ pc[h] = "credit" /\ Fault
    /\ IF kind = "checkin"
         THEN Goto(h, "undo") /\ UNCHANGED <<owed, seen, gap>>
         ELSE Finish(h, TRUE) /\ gap' = TRUE
    /\ UNCHANGED <<setup, row, op, locks, events>>

(* DB.Delete(checkin), whose error is ignored. *)
Undo(h) ==
    /\ pc[h] = "undo"
    /\ \/ /\ status' = "pending" /\ version' = version + 1
          /\ UNCHANGED <<faults, gap>>
       \/ /\ Fault /\ gap' = TRUE
          /\ UNCHANGED <<status, version>>
    /\ Finish(h, TRUE)
    /\ UNCHANGED <<setup, credits, op, locks, events>>

-----------------------------------------------------------------------------
(* A process dies: its handlers and its locks are gone. *)
Crash(n) ==
    LET dead == {h \in Handlers : NodeOf[h] = n}
        gone == {table[n]} \cup {mutex[h] : h \in dead}
    IN /\ Fault
       /\ pc' = [h \in Handlers |-> IF h \in dead THEN "idle" ELSE pc[h]]
       /\ seen' = [h \in Handlers |-> IF h \in dead THEN 0 ELSE seen[h]]
       /\ mutex' = [h \in Handlers |-> IF h \in dead THEN None ELSE mutex[h]]
       /\ owner' = [m \in Handlers |-> IF m \in gone THEN None ELSE owner[m]]
       /\ refs' = [m \in Handlers |-> IF m \in gone THEN 0 ELSE refs[m]]
       /\ table' = [table EXCEPT ![n] = None]
       /\ gap' = (gap \/ \E h \in dead : pc[h] \in {"credit", "undo"})
       /\ UNCHANGED <<setup, row, owed, op, events>>

HandlerStep(h) ==
    \/ Enter(h) \/ Acquire(h) \/ Read(h) \/ ReadFails(h)
    \/ Write(h) \/ WriteFails(h) \/ Credit(h) \/ CreditFails(h) \/ Undo(h)
    \/ Unlock(h) \/ Leave(h)

Next ==
    \/ \E h \in Handlers : Pay(h) \/ HandlerStep(h)
    \/ \E h \in Handlers, o \in Operations : Event(h, o)
    \/ \E n \in Nodes : Crash(n)

Spec == Init /\ [][Next]_vars

(* Handlers run, a mutex of Go is handed to whoever has waited for it long *)
(* enough, and the provider goes on reporting the payment.                 *)
Fairness ==
    /\ \A h \in Handlers : WF_vars(HandlerStep(h)) /\ SF_vars(Acquire(h))
    /\ WF_vars(\E h \in Handlers : Pay(h))

FairSpec == Spec /\ Fairness

-----------------------------------------------------------------------------
(* Properties. *)

Working == {"read", "write", "credit", "undo", "unlock"}
AfterEnter == {"wait", "leave"} \cup Working

TypeOK ==
    /\ <<kind, dbms>> \in Setups
    /\ status \in Statuses /\ version \in Nat /\ credits \in Nat
    /\ owed \in BOOLEAN /\ gap \in BOOLEAN
    /\ pc \in [Handlers -> {"idle", "enter"} \cup AfterEnter]
    /\ op \in [Handlers -> Operations]
    /\ seen \in [Handlers -> Nat]
    /\ table \in [Nodes -> Handlers \cup {None}]
    /\ mutex \in [Handlers -> Handlers \cup {None}]
    /\ owner \in [Handlers -> Handlers \cup {None}]
    /\ refs \in [Handlers -> Nat]
    /\ events \in Nat /\ faults \in Nat

(* The table of LockOrder and UnlockOrder: handlers of one process never   *)
(* work on an order at the same time, although its mutex is taken out of   *)
(* the table and made anew, and the table does not keep a mutex that       *)
(* nobody uses.                                                            *)
OrderLock ==
    /\ TypeOK
    /\ \A n \in Nodes :
        LET users == {h \in Handlers : NodeOf[h] = n /\ Locking(op[h])}
        IN /\ \A g, h \in users : pc[g] \in Working /\ pc[h] \in Working => g = h
           /\ (table[n] = None) = (\A h \in users : pc[h] \notin AfterEnter)

(* What keeps two handlers from both completing an order: the unique index *)
(* of check-ins, the isolation of SQLite for those that write in a         *)
(* transaction, and LockOrder, within one process, for those that take it. *)
(* Redemption codes, and failures reported by Waffo, have none of them on  *)
(* MySQL and PostgreSQL.                                                   *)
Serialised ==
    \A s \in Setups :
        \/ s[1] = "checkin"
        \/ s[2] = "sqlite" /\ s[1] \notin {"epay", "stripe"}
        \/ s[1] \notin {"waffo", "code"} /\ \A g, h \in Handlers : NodeOf[g] = NodeOf[h]

(* The user is credited exactly for what the row says: a row marked as     *)
(* paid or used was credited once, any other never.  The exceptions are a  *)
(* handler between the two writes of EpayNotify or of a check-in on        *)
(* SQLite, and the gap they leave when the second write fails.             *)
CreditMatchesStatus ==
    /\ credits <= 1
    /\ (status = "success") =
          (credits = 1 \/ gap \/ \E h \in Handlers : pc[h] \in {"credit", "undo"})

(* The order implements a one-time grant. *)
Grant == INSTANCE OneTimeGrant
           WITH granted <- credits,
                open <- credits = 0 /\ (status = "pending" \/
                                         \E h \in Handlers : pc[h] \in {"credit", "undo"})

ImplementsGrant == Grant!Spec

(* No handler waits for ever for LockOrder. *)
EveryHandlerEnds == \A h \in Handlers : pc[h] # "idle" ~> pc[h] = "idle"

(* Reads and writes may fail and processes may crash: a payment whose      *)
(* handler answers every failure with an error (handleWaffoPayment,        *)
(* SubscriptionEpayNotify, handleCheckoutCompleted for a one-time          *)
(* payment), so that the provider reports it again, is credited in the     *)
(* end, unless its order was closed before.  A subscription paid through   *)
(* Creem is left out: a failed read is answered well.                      *)
PaidIsCredited ==
    kind \in {"creem", "waffo", "sub_epay"} ~> credits = 1 \/ status \in {"expired", "failed"}
=============================================================================
