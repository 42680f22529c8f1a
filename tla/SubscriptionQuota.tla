-------------------------- MODULE SubscriptionQuota --------------------------
(***************************************************************************)
(* The subscriptions of one user (model/subscription.go): rows that        *)
(* requests charge and settle, that the maintenance task of a master node  *)
(* expires and resets (service/subscription_reset_task.go), and that an    *)
(* administrator cancels or deletes.                                       *)
(*                                                                         *)
(* Most operations are a transaction that reads a row, computes in Go and  *)
(* saves the WHOLE row.  They ask for a row lock with                      *)
(* Set("gorm:query_option", "FOR UPDATE"), an option of GORM 1 which       *)
(* GORM 2 (go.mod) does not know: RowLocks = FALSE is what the build does  *)
(* on MySQL and PostgreSQL, RowLocks = TRUE what the code asks for, and    *)
(* what SQLite gives because it has one writer.                            *)
(***************************************************************************)
EXTENDS Integers, FiniteSets

CONSTANTS
    N,             \* subscription ids are 1 .. N, in the order of purchase
    Requests,      \* requests of the user that are funded by a subscription
    Nodes,         \* master nodes, each with one maintenance task
    Total,         \* amount_total of each subscription, 0 for no limit
    Amounts,       \* what a request pre-consumes
    Deltas,        \* what its settlement adds (or, negative, gives back)
    Duration,      \* how long a subscription lasts
    Upgrades,      \* the ids whose plan upgrades the user's group
    Periods,       \* reset periods of the plans, a subset of AllPeriods
    Length,        \* length of a reset period
    Batch,         \* subscriptionResetBatchSize (300)
    Horizon,       \* bound on the clock
    RowLocks,      \* whether the locking read locks
    PlanChanges,   \* whether an administrator may change a plan's period
    Admin,         \* whether an administrator may cancel and delete
    TxFails        \* whether a transaction may fail

Subs == 1 .. N
Actors == Requests \cup Nodes
(* "calendar": daily, weekly, monthly, aligned to the clock; "custom":     *)
(* counted from the last reset.                                            *)
AllPeriods == {"never", "calendar", "custom"}

ASSUME SubscriptionAssumption ==
    /\ N \in Nat
    /\ IsFiniteSet(Requests) /\ Requests \cap Nodes = {}
    /\ Total \in [Subs -> Nat]
    /\ Amounts \subseteq Nat \ {0}
    /\ Deltas \subseteq Int
    /\ Duration \in Nat \ {0}
    /\ Upgrades \subseteq Subs
    /\ Periods \subseteq AllPeriods
    /\ Length \in Nat \ {0}
    /\ Batch \in Nat \ {0}
    /\ Horizon \in Nat \ {0}
    /\ RowLocks \in BOOLEAN /\ PlanChanges \in BOOLEAN
    /\ Admin \in BOOLEAN /\ TxFails \in BOOLEAN

VARIABLES
    now,     \* the clock of the database
    row,     \* user_subscriptions
    period,  \* quota_reset_period of each subscription's plan
    group,   \* users.group
    pc,      \* where a request is
    charge,  \* its subscription, what it pre-consumed, the delta being written
    tx,      \* an actor's open transaction: the rows it read, and when
    task,    \* a node's maintenance task
    held     \* history: net amount each request took

vars == <<now, row, period, group, pc, charge, tx, task, held>>

Statuses == {"none", "active", "expired", "cancelled", "deleted"}
Groups == {"", "default", "vip"}

Row == [status : Statuses, used : Nat, start : Nat, end : Nat, last : Nat,
        next : Nat, prev : Groups]
NoRow == [status |-> "none", used |-> 0, start |-> 0, end |-> 0, last |-> 0,
          next |-> 0, prev |-> ""]
NoTx == [rows |-> {}, snap |-> [s \in Subs |-> NoRow], at |-> 0]
NoTask == [step |-> "idle", todo |-> {}, count |-> 0, at |-> 0]

Init ==
    /\ now = 1
    /\ row = [s \in Subs |-> NoRow]
    /\ period \in [Subs -> Periods]
    /\ group = "default"
    /\ pc = [r \in Requests |-> "idle"]
    /\ charge = [r \in Requests |-> [sub |-> 0, pre |-> 0, delta |-> 0]]
    /\ tx = [a \in Actors |-> NoTx]
    /\ task = [n \in Nodes |-> NoTask]
    /\ held = [r \in Requests |-> 0]

-----------------------------------------------------------------------------
(* Transactions. *)

Exists(s) == row[s].status \notin {"none", "deleted"}

(* The bugs: rows are read, and administered, without waiting for a lock.  *)
FreeAlways(a, rows) == TRUE
FreeForAdminAlways(s) == TRUE

(* Nobody else has locked one of the rows. *)
Free(a, rows) == RowLocks => \A b \in Actors \ {a} : tx[b].rows \cap rows = {}
FreeForAdmin(s) == RowLocks => \A b \in Actors : s \notin tx[b].rows

(* The transaction reads the rows, and keeps a copy of them. *)
Read(a, rows, at) ==
    /\ Free(a, rows)
    /\ tx' = [tx EXCEPT ![a] =
                [rows |-> rows, at |-> at,
                 snap |-> [s \in Subs |-> IF s \in rows THEN row[s] ELSE NoRow]]]
Close(a) == tx' = [tx EXCEPT ![a] = NoTx]

Goto(r, label) == pc' = [pc EXCEPT ![r] = label]

-----------------------------------------------------------------------------
(* Resets. *)

(* calcNextResetTime: 0 for no further reset before the end. *)
CalcNextResetTime(s, base, end) ==
    LET next == IF period[s] = "calendar" THEN (base \div Length + 1) * Length
                                          ELSE base + Length
    IN IF period[s] = "never" \/ next > end THEN 0 ELSE next

(* The last reset of a plan after base and not after limit, or base. *)
LastReset(s, base, limit) ==
    LET last == IF period[s] = "calendar" THEN (limit \div Length) * Length
                ELSE base + ((limit - base) \div Length) * Length
    IN IF period[s] = "never" \/ last <= base THEN base ELSE last

Earlier(a, b) == IF a < b THEN a ELSE b

(* The bug: a reset that is due right now is left out. *)
LastDueBefore(s, base, end, at) == LastReset(s, base, Earlier(at - 1, end))

(* The loop over the resets that were missed: the last one that is due.    *)
(* SubscriptionQuotaProofs!LastDueLoop shows that this is where it stops.  *)
LastDue(s, base, end, at) == LastReset(s, base, Earlier(at, end))

(* maybeResetUserSubscriptionWithPlanTx: the row as it is saved, or as it  *)
(* was.                                                                    *)
MaybeReset(s, old, at) ==
    LET base == IF old.last > 0 THEN old.last ELSE old.start
        last == LastDue(s, base, old.end, at)
        next == CalcNextResetTime(s, last, old.end)
    IN IF old.next > at \/ period[s] = "never" THEN old
       ELSE IF last # base THEN [old EXCEPT !.used = 0, !.last = last, !.next = next]
       ELSE IF old.next = 0 /\ next > 0 THEN [old EXCEPT !.last = last, !.next = next]
       ELSE old

-----------------------------------------------------------------------------
(* Purchase, administration, time. *)

(* CreateUserSubscriptionFromPlanTx. *)
CreateUserSubscription(s) ==
    /\ row[s].status = "none"
    /\ \A o \in Subs : o < s => row[o].status # "none"
    /\ LET end == now + Duration
           next == CalcNextResetTime(s, now, end)
           mine == IF s \in Upgrades THEN "vip" ELSE ""
       IN /\ row' = [row EXCEPT ![s] =
                [status |-> "active", used |-> 0, start |-> now, end |-> end,
                 last |-> IF next > 0 THEN now ELSE 0, next |-> next,
                 prev |-> IF mine # "" /\ group # mine THEN group ELSE ""]]
          /\ group' = IF mine # "" THEN mine ELSE group
    /\ UNCHANGED <<now, period, pc, charge, tx, task, held>>

(* The bug: the subscription that ends keeps the group for itself. *)
AnyUpgraded(s) ==
    \E o \in Upgrades : row[o].status = "active" /\ row[o].end > now
OtherUpgraded(s) ==
    \E o \in Upgrades \ {s} : row[o].status = "active" /\ row[o].end > now

(* downgradeUserGroupForSubscriptionTx. *)
Downgraded(s) ==
    IF s \in Upgrades /\ group = "vip" /\ ~OtherUpgraded(s) /\ row[s].prev \notin {"", group}
      THEN row[s].prev ELSE group

(* AdminInvalidateUserSubscription writes two columns only. *)
AdminInvalidate(s) ==
    /\ Admin /\ Exists(s) /\ FreeForAdmin(s)
    /\ row' = [row EXCEPT ![s].status = "cancelled", ![s].end = now]
    /\ group' = Downgraded(s)
    /\ UNCHANGED <<now, period, pc, charge, tx, task, held>>

(* AdminDeleteUserSubscription: of the row only prev is kept, as history.  *)
AdminDelete(s) ==
    /\ Admin /\ Exists(s) /\ FreeForAdmin(s)
    /\ row' = [row EXCEPT ![s] = [NoRow EXCEPT !.status = "deleted", !.prev = row[s].prev]]
    /\ group' = Downgraded(s)
    /\ UNCHANGED <<now, period, pc, charge, tx, task, held>>

(* AdminUpdateSubscriptionPlan: the rows keep their next_reset_time. *)
AdminUpdatePlan(s) ==
    /\ PlanChanges
    /\ \E p \in Periods : period' = [period EXCEPT ![s] = p]
    /\ UNCHANGED <<now, row, group, pc, charge, tx, task, held>>

Tick ==
    /\ now < Horizon
    /\ now' = now + 1
    /\ UNCHANGED <<row, period, group, pc, charge, tx, task, held>>

-----------------------------------------------------------------------------
(* A request: PreConsumeUserSubscription, then one delta. *)

Candidates == {s \in Subs : row[s].status = "active" /\ row[s].end > now}

(* PreConsumeUserSubscription, the read of all active subscriptions. *)
PreConsumeRead(r) ==
    /\ pc[r] = "idle"
    /\ \/ /\ Candidates # {}
          /\ Read(r, Candidates, now)
          /\ \E a \in Amounts : charge' = [charge EXCEPT ![r].pre = a]
          /\ Goto(r, "pre")
       \/ /\ Candidates = {}
          /\ Goto(r, "done")
          /\ UNCHANGED <<tx, charge>>
    /\ UNCHANGED <<now, row, period, group, task, held>>

(* Order("end_time asc, id asc"). *)
Before(r, d, c) ==
    LET end(s) == tx[r].snap[s].end
    IN end(d) < end(c) \/ (end(d) = end(c) /\ d < c)

(* A candidate as the loop sees it, and whether the amount fits. *)
Fresh(r, s) == MaybeReset(s, tx[r].snap[s], tx[r].at)
(* The bug: only what was used before is looked at. *)
FitsUsed(r, s) == Total[s] = 0 \/ Fresh(r, s).used <= Total[s]
Fits(r, s) == Total[s] = 0 \/ Total[s] - Fresh(r, s).used >= charge[r].pre

(* ... and its end: the first candidate that fits is charged; the resets   *)
(* of the ones before it are saved as well.  An error undoes all of them.  *)
PreConsumeCommit(r) ==
    /\ pc[r] = "pre"
    /\ \/ \E c \in tx[r].rows :
            /\ Fits(r, c)
            /\ \A d \in tx[r].rows : Before(r, d, c) => ~Fits(r, d)
            /\ row' = [s \in Subs |->
                  IF s = c THEN [Fresh(r, c) EXCEPT !.used = Fresh(r, c).used + charge[r].pre]
                  ELSE IF s \in tx[r].rows /\ Before(r, s, c) /\ Fresh(r, s) # tx[r].snap[s]
                    THEN Fresh(r, s)
                  ELSE row[s]]
            /\ charge' = [charge EXCEPT ![r].sub = c]
            /\ held' = [held EXCEPT ![r] = charge[r].pre]
            /\ Goto(r, "held")
       \/ /\ TxFails \/ \A c \in tx[r].rows : ~Fits(r, c)
          /\ Goto(r, "done")
          /\ UNCHANGED <<row, charge, held>>
    /\ Close(r)
    /\ UNCHANGED <<now, period, group, task>>

(* PostConsumeUserSubscriptionDelta, the read, for a settlement or a       *)
(* refund of the whole pre-consumption (RefundSubscriptionPreConsume); a   *)
(* refund may be a retry.                                                  *)
DeltaRead(r) ==
    /\ \/ pc[r] = "held" /\ \E d \in Deltas : charge[r].pre + d >= 0 /\ d # 0
                                /\ charge' = [charge EXCEPT ![r].delta = d]
       \/ pc[r] \in {"held", "retry"} /\ charge' = [charge EXCEPT ![r].delta = - charge[r].pre]
    /\ \/ /\ Exists(charge[r].sub)
          /\ Read(r, {charge[r].sub}, now)
          /\ Goto(r, "delta")
       \/ /\ ~Exists(charge[r].sub)
          /\ Goto(r, "done")
          /\ UNCHANGED tx
    /\ UNCHANGED <<now, row, period, group, task, held>>

NewUsed(used, delta) == IF used + delta < 0 THEN 0 ELSE used + delta

(* ... and the save.  A failed refund may be tried again, a settlement is  *)
(* not.                                                                    *)
DeltaCommit(r) ==
    LET s == charge[r].sub
        new == NewUsed(tx[r].snap[s].used, charge[r].delta)
    IN /\ pc[r] = "delta"
       /\ \/ /\ Total[s] = 0 \/ new <= Total[s]
             /\ row' = [row EXCEPT ![s] = [tx[r].snap[s] EXCEPT !.used = new]]
             /\ held' = [held EXCEPT ![r] = held[r] + charge[r].delta]
             /\ Goto(r, "done")
          \/ /\ TxFails \/ (Total[s] > 0 /\ new > Total[s])
             /\ Goto(r, "done")
             /\ UNCHANGED <<row, held>>
          \/ /\ TxFails /\ charge[r].delta = - charge[r].pre
             /\ Goto(r, "retry")
             /\ UNCHANGED <<row, held>>
       /\ Close(r)
       /\ UNCHANGED <<now, period, group, charge, task>>

(* Nothing to settle. *)
Settled(r) ==
    /\ pc[r] = "held"
    /\ Goto(r, "done")
    /\ UNCHANGED <<now, row, period, group, charge, tx, task, held>>

-----------------------------------------------------------------------------
(* runSubscriptionQuotaResetOnce. *)

SetTask(n, t) == task' = [task EXCEPT ![n] = t]
Step(n, label) == SetTask(n, [NoTask EXCEPT !.step = label])

Wake(n) ==
    /\ task[n].step = "idle"
    /\ Step(n, "expire")
    /\ UNCHANGED <<now, row, period, group, pc, charge, tx, held>>

(* The group after the subscriptions in due expired: it falls back to what *)
(* it was before the expired subscription that ended last.                 *)
GroupAfterExpiry(due) ==
    LET active == {s \in Upgrades : row[s].status = "active" /\ row[s].end > now}
        expired == {s \in Upgrades : s \in due \/ row[s].status = "expired"}
        latest(s) == \A o \in expired : row[o].end < row[s].end
                                       \/ (row[o].end = row[s].end /\ o <= s)
        fallback == {row[s].prev : s \in {l \in expired : latest(l)}} \ {""}
    IN IF active = {} /\ group = "vip" /\ fallback # {} THEN CHOOSE g \in fallback : TRUE
       ELSE group

(* ExpireDueSubscriptions: one UPDATE for the user. *)
ExpireDue(n) ==
    LET due == {s \in Subs : row[s].status = "active" /\ row[s].end <= now}
    IN /\ task[n].step = "expire"
       /\ \/ /\ \A s \in due : FreeForAdmin(s)
             /\ row' = [s \in Subs |-> IF s \in due THEN [row[s] EXCEPT !.status = "expired"]
                                       ELSE row[s]]
             /\ group' = IF due = {} THEN group ELSE GroupAfterExpiry(due)
             /\ Step(n, IF Cardinality(due) < Batch THEN "reset" ELSE "expire")
          \/ /\ TxFails
             /\ Step(n, "idle")
             /\ UNCHANGED <<row, group>>
       /\ UNCHANGED <<now, period, pc, charge, tx, held>>

(* ResetDueSubscriptions, the query: the first Batch rows that are due. *)
ResetQuery(n) ==
    LET due == {s \in Subs : row[s].status = "active" /\ row[s].next > 0 /\ row[s].next <= now}
    IN /\ task[n].step = "reset"
       /\ \E T \in SUBSET due :
            /\ Cardinality(T) = IF Cardinality(due) < Batch THEN Cardinality(due) ELSE Batch
            /\ \A s \in T, o \in due \ T : row[s].next <= row[o].next
            /\ IF T = {} THEN Step(n, "idle")
               ELSE SetTask(n, [step |-> "each", todo |-> T, count |-> 0, at |-> now])
       /\ UNCHANGED <<now, row, period, group, pc, charge, tx, held>>

(* One row: it is read again, unless it is not due any more. *)
ResetRead(n, s) ==
    /\ task[n].step = "each" /\ tx[n].rows = {} /\ s \in task[n].todo
    /\ \/ /\ Exists(s) /\ row[s].next > 0 /\ row[s].next <= task[n].at
          /\ Read(n, {s}, task[n].at)
          /\ UNCHANGED task
       \/ /\ ~(Exists(s) /\ row[s].next > 0 /\ row[s].next <= task[n].at)
          /\ SetTask(n, [task[n] EXCEPT !.todo = task[n].todo \ {s}])
          /\ UNCHANGED tx
    /\ UNCHANGED <<now, row, period, group, pc, charge, held>>

(* ... and reset; it counts even when there was nothing to reset. *)
ResetCommit(n, s) ==
    LET old == tx[n].snap[s]
        new == MaybeReset(s, old, tx[n].at)
    IN /\ task[n].step = "each" /\ tx[n].rows = {s}
       /\ \/ /\ row' = [row EXCEPT ![s] = IF new = old THEN row[s] ELSE new]
             /\ SetTask(n, [task[n] EXCEPT !.todo = task[n].todo \ {s},
                                          !.count = task[n].count + 1])
          \/ /\ TxFails
             /\ Step(n, "idle")
             /\ UNCHANGED row
       /\ Close(n)
       /\ UNCHANGED <<now, period, group, pc, charge, held>>

(* The loop goes on while batches are full.  The clean-up of old records   *)
(* at its end touches no subscription.                                     *)
ResetEnds(n) ==
    /\ task[n].step = "each" /\ task[n].todo = {}
    /\ Step(n, IF task[n].count >= Batch THEN "reset" ELSE "idle")
    /\ UNCHANGED <<now, row, period, group, pc, charge, tx, held>>

-----------------------------------------------------------------------------

RequestStep(r) == PreConsumeCommit(r) \/ DeltaRead(r) \/ DeltaCommit(r) \/ Settled(r)

NodeStep(n) ==
    \/ Wake(n) \/ ExpireDue(n) \/ ResetQuery(n) \/ ResetEnds(n)
    \/ \E s \in Subs : ResetRead(n, s) \/ ResetCommit(n, s)

Next ==
    \/ \E s \in Subs : \/ CreateUserSubscription(s) \/ AdminInvalidate(s)
                       \/ AdminDelete(s) \/ AdminUpdatePlan(s)
    \/ \E r \in Requests : PreConsumeRead(r) \/ RequestStep(r)
    \/ \E n \in Nodes : NodeStep(n)
    \/ Tick

Spec == Init /\ [][Next]_vars

(* The maintenance task goes on, and a request that has begun ends. *)
Fairness ==
    /\ \A r \in Requests : WF_vars(RequestStep(r))
    /\ \A n \in Nodes : WF_vars(NodeStep(n))

FairSpec == Spec /\ Fairness

-----------------------------------------------------------------------------
(* Properties. *)

(* Types, and: a transaction is open exactly when its owner is between its *)
(* read and its commit, and it holds the row it will write.                *)
TypeOK ==
    /\ now \in 1 .. Horizon
    /\ row \in [Subs -> Row]
    /\ period \in [Subs -> AllPeriods]
    /\ group \in Groups \ {""}
    /\ pc \in [Requests -> {"idle", "pre", "held", "delta", "retry", "done"}]
    /\ charge \in [Requests -> [sub : Subs \cup {0}, pre : Nat, delta : Int]]
    /\ tx \in [Actors -> [rows : SUBSET Subs, snap : [Subs -> Row], at : 0 .. Horizon]]
    /\ task \in [Nodes -> [step : {"idle", "expire", "reset", "each"}, todo : SUBSET Subs,
                          count : Nat, at : 0 .. Horizon]]
    /\ held \in [Requests -> Int]
    /\ \A r \in Requests : (tx[r].rows # {}) <=> (pc[r] \in {"pre", "delta"})
    /\ \A r \in Requests : pc[r] = "delta" => tx[r].rows = {charge[r].sub}
    /\ \A n \in Nodes : tx[n].rows # {} => task[n].step = "each"

(* Sum of the amounts of a set of requests. *)
SumOf(R) ==
    Cardinality(UNION {{<<r, i>> : i \in 1 .. held[r]} : r \in R})

Chargers(s) == {r \in Requests : charge[r].sub = s}

(* PreConsumeUserSubscription, PostConsumeUserSubscriptionDelta and the    *)
(* resets of several requests and nodes keep amount_used in step with what *)
(* the requests hold: equal before the first reset, never more afterwards. *)
UsedMatchesHeld ==
    /\ TypeOK
    /\ \A s \in Subs : Exists(s) =>
        /\ row[s].used <= SumOf(Chargers(s))
        /\ row[s].last \in {0, row[s].start} => row[s].used = SumOf(Chargers(s))

(* No limited subscription is used past its total, however many requests   *)
(* compete for what is left of it: PreConsumeUserSubscription and          *)
(* PostConsumeUserSubscriptionDelta check the amount that they save.       *)
WithinTotal == \A s \in Subs : Total[s] > 0 => row[s].used <= Total[s]

(* A subscription that expired, was cancelled (AdminInvalidate) or was     *)
(* deleted (AdminDelete) never becomes active again.                       *)
EndedStaysEnded ==
    [][\A s \in Subs : row[s].status \in {"expired", "cancelled", "deleted"} =>
          row'[s].status # "active"]_vars

(* The row as a counter that requests share sees it, and where a request   *)
(* is for it.                                                              *)
StateOf(s) ==
    IF row[s].status = "active" THEN "open"
    ELSE IF row[s].status \in {"expired", "cancelled"} THEN "ended"
    ELSE IF row[s].status = "deleted" THEN "gone" ELSE "none"
PhaseOf(r) ==
    IF pc[r] \in {"idle", "pre"} THEN "new" ELSE IF pc[r] = "done" THEN "over" ELSE "charged"

Serial == INSTANCE SerialQuota WITH
    state <- [s \in Subs |-> StateOf(s)],
    used <- [s \in Subs |-> row[s].used],
    phase <- [r \in Requests |-> PhaseOf(r)],
    sub <- [r \in Requests |-> charge[r].sub]

(* With locked rows, a transaction that reads rows, computes in Go and     *)
(* saves whole rows (PreConsumeUserSubscription,                           *)
(* PostConsumeUserSubscriptionDelta, ResetDueSubscriptions) takes effect   *)
(* as one step on the amounts as they are when it commits, and nothing it  *)
(* saves undoes a cancellation or deletion.                                *)
ImplementsSerial == Serial!Spec

(* No period of a subscription is reset twice, by whoever gets there       *)
(* first, a request or a maintenance task: a step moves the used amount by *)
(* what the requests of the subscription took or gave back in it (never    *)
(* below 0), or else it moves the last reset strictly forward.             *)
HeldOn(s) == SumOf(Chargers(s))
ResetOncePerPeriod ==
    [][\A s \in Subs : Exists(s) /\ row'[s].status # "deleted" =>
          \/ row'[s].last > row[s].last
          \/ /\ row'[s].last = row[s].last
             /\ row'[s].used = NewUsed(row[s].used, HeldOn(s)' - HeldOn(s))]_vars

(* CreateUserSubscriptionFromPlanTx, ExpireDueSubscriptions and the        *)
(* cancellations together: the user is in the upgraded group while any     *)
(* subscription that upgrades it runs; and once the last one has ended the *)
(* group is handed back, unless one was bought while the user was already  *)
(* in it, which remembers no group to go back to.                          *)
GroupFollowsSubscription ==
    /\ (\E s \in Upgrades : row[s].status = "active" /\ row[s].end > now) => group = "vip"
    /\ \/ \E s \in Upgrades : row[s].status = "active"
       \/ \E s \in Upgrades : row[s].status # "none" /\ row[s].prev = ""
       \/ group = "default"

(* Every subscription that has reached its end is marked so. *)
EndedExpire ==
    \A s \in Subs : (row[s].status = "active" /\ row[s].end <= now) ~> row[s].status # "active"

(* Every active subscription whose reset is due is reset. *)
DueIsReset ==
    \A s \in Subs : (row[s].status = "active" /\ 0 < row[s].next /\ row[s].next <= now)
                       ~> (row[s].status # "active" \/ row[s].next = 0 \/ row[s].next > now)
=============================================================================
