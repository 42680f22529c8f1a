------------------------- MODULE TaskLifecycleProofs -------------------------
(***************************************************************************)
(* TaskLifecycle for any number of tasks, nodes, prices and failures, where *)
(* only the winner of a compare-and-swap bills: a task is billed by the    *)
(* one poller that ended it and never gets back more than its row's quota;  *)
(* and, where no row is failed in bulk either, it costs exactly what its   *)
(* row says and stays as it ended.                                         *)
(***************************************************************************)
EXTENDS TaskLifecycle, TLAPS

Had(row) == row.status # "absent"

(* Copies are of rows that had not ended, and the columns that are written *)
(* at submission are still those of the row.                               *)
SameCharge(row, other) ==
    /\ row.quota = other.quota /\ row.price = other.price /\ row.day = other.day
    /\ row.platform = other.platform /\ row.hasId = other.hasId

RowInv == \A t \in Tasks :
    /\ task[t].platform \in Platforms \cup {"video"}
    /\ NoBulk => task[t].hasId = TRUE
    /\ Had(task[t]) => sub[t] = "inserted"
    /\ failed[t] = TRUE => task[t].status \in Final

CopyOK(p) == \A t \in Tasks :
    Had(copy[p][t]) =>
        /\ copy[p][t].status \notin Final
        /\ Had(task[t]) /\ SameCharge(copy[p][t], task[t])

(* Where a poller is in its round: the rows it has still to do, and the    *)
(* one it works on, are different rows, and it has copies of them.         *)
Place(p) ==
    /\ \A t \in work[p] \cup group[p] : Had(copy[p][t])
    /\ work[p] \cap group[p] = {}
    /\ pc[p] \in {"idle", "sweep", "list"} => group[p] = {}
    /\ pc[p] # "save"
    /\ pc[p] \in Billing \cup {"apply"} => job[p].id \notin work[p] \cup group[p]
    /\ pc[p] \in Billing => job[p].back \in {"sweep", "update"}
    /\ pc[p] \in Billing /\ job[p].back = "sweep" => group[p] = {}
    /\ pc[p] = "apply" => job[p].answer # "none"

PollerInv == \A p \in Pollers : CopyOK(p) /\ Place(p)

(* A poller that bills a row is the only one, the row has ended, with the  *)
(* status it is billed for unless a bulk update came later, and so far has *)
(* been paid what the step expects.                                        *)
Bills(p, t) == pc[p] \in Billing /\ job[p].id = t

(* What the pollers moved a task's charge by, which is what was submitted  *)
(* with it, in the funding source and in the token.                        *)
FundingMoved(t) == paid[t].funding - charged[t].funding
TokenMoved(t) == paid[t].token - charged[t].token
Untouched(t) == FundingMoved(t) = 0 /\ TokenMoved(t) = 0
NotMore(t) == FundingMoved(t) >= - task[t].quota /\ TokenMoved(t) >= - task[t].quota
AsCosted(t) ==
    LET moved == Cost(task[t]) - task[t].quota
    IN FundingMoved(t) = moved /\ TokenMoved(t) = moved

BillStep(step, t) ==
    /\ task[t].status \in Final
    /\ NoBulk /\ step \in {"refundFunding", "refundToken"} => task[t].status = "FAILURE"
    /\ step \in {"settleFunding", "settleToken"} =>
          (NoBulk => task[t].status = "SUCCESS") /\ NeedsSettle(task[t])
    /\ TokenMoved(t) = 0
    /\ step \in {"refundFunding", "settleFunding"} => FundingMoved(t) = 0
    /\ step = "refundToken" => FundingMoved(t) = - task[t].quota
    /\ step = "settleToken" => FundingMoved(t) = task[t].price - task[t].quota

BillInv == \A p \in Pollers, t \in Tasks : Bills(p, t) => BillStep(pc[p], t)

OneBiller == \A p, q \in Pollers, t \in Tasks : Bills(p, t) /\ Bills(q, t) => p = q

ChargeInv == \A t \in Tasks :
    /\ NotMore(t)
    /\ \/ failed[t] = TRUE
       \/ \E p \in Pollers : Bills(p, t)
       \/ Legacy(task[t]) /\ task[t].status = "FAILURE"
       \/ ~NoBulk /\ task[t].status \in Final
       \/ AsCosted(t)

NoLookups == \A f \in Fetchers : look[f].step = "idle"

TaskInv ==
    /\ TypeOK
    /\ RowInv /\ PollerInv /\ BillInv /\ OneBiller /\ ChargeInv /\ NoLookups

-----------------------------------------------------------------------------
(* Rows. *)

(* The empty row. *)
LEMMA NoRowType == NoRow \in Row /\ ~Had(NoRow)
  BY DEF NoRow, Row, Had, Statuses, AllPlatforms

(* The answers that move a row. *)
Moves == {"IN_PROGRESS", "SUCCESS", "FAILURE"}

(* An answer changes the status of a row and leaves its charge alone. *)
LEMMA MovedLemma ==
    ASSUME NEW row \in Row, NEW s \in Moves
    PROVE  /\ Moved(row, s) \in Row /\ Moved(row, s).status = s /\ Had(Moved(row, s))
           /\ SameCharge(Moved(row, s), row)
  <1>1. /\ Reported(row, s) \in Row /\ Reported(row, s).status = s
        /\ SameCharge(Reported(row, s), row)
    <2> DEFINE full == s \in Final
    <2>1. full \in BOOLEAN
      OBVIOUS
    <2>2. Reported(row, s) = [row EXCEPT !.status = s, !.full = full]
      BY DEF Reported
    <2> HIDE DEF full
    <2> QED BY <2>1, <2>2 DEF Row, Moves, Statuses, Final, SameCharge
  <1>2. (row.reason \/ s = "FAILURE") \in BOOLEAN
    OBVIOUS
  <1>3. /\ Moved(row, s) \in Row /\ Moved(row, s).status = s
        /\ SameCharge(Moved(row, s), Reported(row, s))
    BY <1>1, <1>2 DEF Moved, Row, SameCharge
  <1> QED BY <1>1, <1>3 DEF SameCharge, Had, Moves

(* What a row costs depends on its status and the columns of submission. *)
LEMMA CostLemma ==
    ASSUME NEW row \in Row, row.platform # "suno"
    PROVE  /\ row.status = "FAILURE" => Cost(row) = 0
           /\ row.status = "SUCCESS" /\ NeedsSettle(row) => Cost(row) = row.price
           /\ row.status # "FAILURE" /\ ~(row.status = "SUCCESS" /\ NeedsSettle(row)) =>
                Cost(row) = row.quota
           /\ Cost(row) \in Nat
  BY DEF Cost, Row

(* The first state satisfies the invariant. *)
LEMMA TaskInit == Init => TaskInv
  <1> SUFFICES ASSUME Init PROVE TaskInv
    OBVIOUS
  <1> USE NoRowType DEF Init
  <1>1. TypeOK
    <2>1. paid \in [Tasks -> Paid] /\ charged \in [Tasks -> Paid]
      BY DEF Paid, Nothing
    <2>2. look \in [Fetchers -> [step : {"idle", "ask", "write"}, row : Row,
                                  id : Tasks \cup {0}, answer : Answers]]
      BY DEF NoLook, Answers
    <2>3. job \in [Pollers -> [id : Tasks \cup {0}, answer : Answers,
                             back : {"idle", "sweep", "update", "save"}]]
      BY DEF NoJob, Answers
    <2>4. looks \in 0 .. MaxLooks
      BY TaskAssumption
    <2>5. pc \in [Pollers -> PollerLabels] /\ \A p \in Pollers : pc[p] \notin Billing \cup {"apply", "save"}
      BY DEF PollerLabels, Billing
    <2> QED BY <2>1, <2>2, <2>3, <2>4, <2>5 DEF TypeOK
  <1>2. RowInv
    BY DEF RowInv, NoRow, Had
  <1>3. PollerInv
    BY DEF PollerInv, CopyOK, Place, Billing
  <1>4. BillInv /\ OneBiller
    BY DEF BillInv, OneBiller, Bills, Billing
  <1>5. ChargeInv
    BY DEF ChargeInv, NotMore, AsCosted, FundingMoved, TokenMoved, Nothing, Cost, NoRow
  <1>6. NoLookups
    BY DEF NoLookups, NoLook
  <1> QED BY <1>1, <1>2, <1>3, <1>4, <1>5, <1>6 DEF TaskInv

-----------------------------------------------------------------------------
(* Steps that write no row and bill nothing. *)

(* The other pollers are left alone. *)
Others(p) == \A q \in Pollers :
    q # p => /\ pc'[q] = pc[q] /\ work'[q] = work[q] /\ group'[q] = group[q]
             /\ copy'[q] = copy[q] /\ job'[q] = job[q]

(* Rows change only in bulk: they have ended then, and keep their charge. *)
BulkOnly == \A t \in Tasks :
    \/ task'[t] = task[t]
    \/ /\ ~NoBulk /\ Had(task[t]) /\ task'[t].status = "FAILURE"
       /\ SameCharge(task'[t], task[t])

(* A step of a poller that bills neither before nor after it, and writes   *)
(* rows in bulk if any.                                                    *)
LEMMA BulkStep ==
    ASSUME TaskInv, TypeOK', NEW p \in Pollers, Others(p), BulkOnly,
           UNCHANGED <<sub, look, charged, paid, failed>>,
           pc[p] \notin Billing, pc'[p] \notin Billing, CopyOK(p)', Place(p)'
    PROVE  TaskInv'
  <1> USE DEF TaskInv
  <1>1. \A t \in Tasks : /\ Had(task'[t]) <=> Had(task[t])
                         /\ SameCharge(task'[t], task[t])
                         /\ task[t].status \in Final => task'[t].status \in Final
    BY DEF BulkOnly, SameCharge, Had, Final
  <1>2. RowInv' /\ NoLookups'
    BY <1>1 DEF RowInv, NoLookups, SameCharge
  <1>3. PollerInv'
    <2> SUFFICES ASSUME NEW q \in Pollers, q # p PROVE CopyOK(q)' /\ Place(q)'
      BY DEF PollerInv
    <2>1. CopyOK(q) /\ Place(q)
      BY DEF PollerInv
    <2>2. copy'[q] = copy[q] /\ Place(q)'
      BY <2>1 DEF Others, Place
    <2> QED BY <2>1, <2>2, <1>1 DEF CopyOK, SameCharge
  <1>4. \A q \in Pollers, t \in Tasks : /\ Bills(q, t)' <=> Bills(q, t)
                                        /\ Bills(q, t) => pc'[q] = pc[q]
    BY DEF Others, Bills
  <1>5. BillInv'
    <2> SUFFICES ASSUME NEW q \in Pollers, NEW t \in Tasks, Bills(q, t)'
                 PROVE  BillStep(pc[q], t)'
      BY DEF BillInv
    <2>1. BillStep(pc[q], t) /\ pc'[q] = pc[q]
      BY <1>4 DEF BillInv
    <2>2. CASE task'[t] = task[t]
      BY <2>1, <2>2 DEF BillStep, FundingMoved, TokenMoved
    <2>3. CASE ~NoBulk
      BY <2>1, <2>3, <1>1 DEF BillStep, SameCharge, NeedsSettle, FundingMoved, TokenMoved
    <2> QED BY <2>2, <2>3 DEF BulkOnly
  <1>6. OneBiller'
    BY <1>4 DEF OneBiller
  <1>7. ChargeInv'
    BY <1>1, <1>4 DEF ChargeInv, BulkOnly, Final, NotMore, AsCosted, SameCharge, FundingMoved, TokenMoved
  <1> QED BY <1>2, <1>3, <1>5, <1>6, <1>7

(* A step of a poller that writes no row and does not bill. *)
LEMMA LocalStep ==
    ASSUME TaskInv, TypeOK', NEW p \in Pollers, Others(p),
           UNCHANGED <<task, sub, look, charged, paid, failed>>,
           pc[p] \notin Billing, pc'[p] \notin Billing, CopyOK(p)', Place(p)'
    PROVE  TaskInv'
  BY BulkStep DEF BulkOnly

(* The types of what pollers keep. *)
LocalType ==
    /\ pc \in [Pollers -> PollerLabels]
    /\ work \in [Pollers -> SUBSET Tasks]
    /\ group \in [Pollers -> SUBSET Tasks]
    /\ copy \in [Pollers -> [Tasks -> Row]]
    /\ job \in [Pollers -> [id : Tasks \cup {0}, answer : Answers,
                             back : {"idle", "sweep", "update", "save"}]]
    /\ \A p \in Pollers : pc[p] \in Billing \cup {"apply", "save"} =>
          job[p].id \in Tasks /\ copy[p][job[p].id].status # "absent"

World == <<up, late, looks, charged>>

(* A step on rows and a poller's own state keeps the types if these do. *)
LEMMA LocalTypeLemma ==
    ASSUME TypeOK, LocalType', task' \in [Tasks -> Row] \/ task' = task,
           UNCHANGED <<sub, look, paid, failed, World>>
    PROVE  TypeOK'
  BY DEF TypeOK, LocalType, World

(* A poller reads rows that have not ended. *)
LEMMA ReadingLemma ==
    ASSUME TaskInv, NEW p \in Pollers, NEW W \in SUBSET Unfinished, NEW l \in {"sweep", "list"},
           pc[p] \in {"idle", "sweep"},
           work' = [work EXCEPT ![p] = W],
           copy' = [copy EXCEPT ![p] = [t \in Tasks |-> IF t \in W THEN task[t] ELSE NoRow]],
           pc' = [pc EXCEPT ![p] = l],
           UNCHANGED <<group, job, task, sub, look, paid, failed, World>>
    PROVE  TaskInv'
  <1> USE DEF TaskInv
  <1>1. W \subseteq Tasks /\ \A t \in W : task[t].status \notin Final /\ Had(task[t])
    BY DEF Unfinished, Had
  <1>2. /\ pc'[p] = l /\ work'[p] = W
        /\ copy'[p] = [t \in Tasks |-> IF t \in W THEN task[t] ELSE NoRow]
    BY DEF TypeOK
  <1>3. Others(p)
    BY DEF Others, TypeOK
  <1>4. LocalType'
    <2>1. [t \in Tasks |-> IF t \in W THEN task[t] ELSE NoRow] \in [Tasks -> Row]
      BY NoRowType DEF TypeOK
    <2> QED BY <2>1, <1>1 DEF LocalType, TypeOK, PollerLabels, Billing
  <1>5. CopyOK(p)'
    BY <1>1, <1>2, NoRowType DEF CopyOK, SameCharge
  <1>6. Place(p)'
    BY <1>1, <1>2 DEF PollerInv, Place, Billing
  <1> QED BY <1>2, <1>3, <1>4, <1>5, <1>6, LocalStep, LocalTypeLemma DEF Billing, World

(* A round begins, or lists the unfinished tasks. *)
LEMMA PollBeginLemma ==
    ASSUME TaskInv, NEW p \in Pollers, PollBegin(p) \/ ListTasks(p)
    PROVE  TaskInv'
  <1>1. \A S, n : FirstOf(S, n) \subseteq S
    BY DEF FirstOf
  <1>2. TimedOut \subseteq Unfinished
    BY DEF TimedOut
  <1>3. p \in DOMAIN work
    BY DEF TaskInv, TypeOK
  <1>4. CASE PollBegin(p)
    <2> DEFINE W == IF Timeouts THEN FirstOf(TimedOut, SweepLimit) ELSE {}
    <2>1. W \in SUBSET Unfinished
      BY <1>1, <1>2
    <2>2. work' = [work EXCEPT ![p] = W]
      BY <1>4 DEF PollBegin
    <2> HIDE DEF W
    <2>3. work'[p] = W
      BY <2>2, <1>3
    <2> QED BY <2>1, <2>2, <2>3, <1>4, ReadingLemma DEF PollBegin, Goto, Outside, World
  <1>5. CASE ListTasks(p)
    <2> DEFINE W == FirstOf(Unfinished, QueryLimit)
    <2>1. W \in SUBSET Unfinished
      BY <1>1
    <2>2. work' = [work EXCEPT ![p] = W]
      BY <1>5 DEF ListTasks
    <2> HIDE DEF W
    <2>3. work'[p] = W
      BY <2>2, <1>3
    <2> QED BY <2>1, <2>2, <2>3, <1>5, ReadingLemma DEF ListTasks, Goto, Outside, World
  <1> QED BY <1>4, <1>5

(* TaskBulkUpdateByID of rows that are in the table. *)
LEMMA BulkFailLemma ==
    ASSUME TypeOK, NEW T \in SUBSET Tasks, NEW why \in BOOLEAN, BulkFail(T, why),
           \A t \in T : Had(task[t]), T = {} \/ ~NoBulk
    PROVE  task' \in [Tasks -> Row] /\ BulkOnly
  <1>1. CASE UNCHANGED task
    BY <1>1 DEF BulkOnly, TypeOK
  <1>2. ASSUME NEW t \in Tasks
        PROVE  LET new == [task[t] EXCEPT !.status = "FAILURE", !.full = TRUE,
                                          !.reason = task[t].reason \/ why]
               IN new \in Row /\ new.status = "FAILURE" /\ SameCharge(new, task[t])
    <2>1. task[t] \in Row
      BY DEF TypeOK
    <2> DEFINE b == task[t].reason \/ why
    <2>2. b \in BOOLEAN
      OBVIOUS
    <2> HIDE DEF b
    <2>3. LET new == [task[t] EXCEPT !.status = "FAILURE", !.full = TRUE, !.reason = b]
          IN new \in Row /\ new.status = "FAILURE" /\ SameCharge(new, task[t])
      BY <2>1, <2>2 DEF Row, Statuses, Final, SameCharge
    <2> QED BY <2>3 DEF b
  <1>3. CASE task' = [t \in Tasks |-> IF t \in T
                                  THEN [task[t] EXCEPT !.status = "FAILURE", !.full = TRUE,
                                                       !.reason = task[t].reason \/ why]
                                  ELSE task[t]]
    <2> DEFINE New(t) == [task[t] EXCEPT !.status = "FAILURE", !.full = TRUE,
                                         !.reason = task[t].reason \/ why]
    <2>1. \A t \in Tasks : New(t) \in Row /\ New(t).status = "FAILURE" /\ SameCharge(New(t), task[t])
      BY <1>2
    <2>2. task' = [t \in Tasks |-> IF t \in T THEN New(t) ELSE task[t]]
      BY <1>3
    <2> HIDE DEF New
    <2>3. task' \in [Tasks -> Row]
      BY <2>1, <2>2 DEF TypeOK
    <2> QED BY <2>1, <2>2, <2>3 DEF BulkOnly
  <1> QED BY <1>1, <1>3 DEF BulkFail

(* Rows are forgotten. *)
LEMMA ForgetLemma ==
    ASSUME TypeOK, NEW p \in Pollers, NEW T, Forget(p, T)
    PROVE  /\ copy' \in [Pollers -> [Tasks -> Row]]
           /\ \A q \in Pollers : q # p => copy'[q] = copy[q]
           /\ \A t \in Tasks : copy'[p][t] = IF t \in T THEN NoRow ELSE copy[p][t]
  BY NoRowType DEF Forget, TypeOK

(* The rows of a platform are taken out of the round, and those without an *)
(* upstream id are failed in bulk.                                         *)
LEMMA NullIds ==
    ASSUME TaskInv, NEW p \in Pollers, FixNullIds(p)
    PROVE  /\ task' \in [Tasks -> Row] /\ BulkOnly
           /\ \E rows \in SUBSET work[p], null \in SUBSET work[p] :
                /\ work' = [work EXCEPT ![p] = work[p] \ rows] /\ null \subseteq rows
                /\ group' = [group EXCEPT ![p] = rows \ null] /\ Forget(p, null)
  <1> USE DEF TaskInv
  <1>1. PICK pf : LET rows == {t \in work[p] : copy[p][t].platform = pf}
                      null == {t \in rows : ~copy[p][t].hasId}
                  IN /\ BulkFail(null, FALSE)
                     /\ work' = [work EXCEPT ![p] = work[p] \ rows]
                     /\ group' = [group EXCEPT ![p] = rows \ null]
                     /\ Forget(p, null)
    BY DEF FixNullIds
  <1> DEFINE rows == {t \in work[p] : copy[p][t].platform = pf}
             null == {t \in rows : ~copy[p][t].hasId}
  <1>2. /\ BulkFail(null, FALSE) /\ Forget(p, null)
        /\ work' = [work EXCEPT ![p] = work[p] \ rows]
        /\ group' = [group EXCEPT ![p] = rows \ null]
    BY <1>1
  <1>3. \A t \in work[p] : t \in Tasks /\ Had(task[t]) /\ (NoBulk => copy[p][t].hasId = TRUE)
    <2>1. \A t \in work[p] : t \in Tasks /\ Had(copy[p][t])
      BY DEF TypeOK, PollerInv, Place
    <2> QED BY <2>1 DEF PollerInv, CopyOK, SameCharge, RowInv
  <1>4. null = {} \/ ~NoBulk
    BY <1>3
  <1>5. rows \in SUBSET work[p] /\ null \in SUBSET work[p] /\ null \subseteq rows
    OBVIOUS
  <1> HIDE DEF rows, null
  <1>6. null \in SUBSET Tasks /\ \A t \in null : Had(task[t])
    BY <1>3, <1>5
  <1>7. task' \in [Tasks -> Row] /\ BulkOnly
    BY <1>2, <1>4, <1>6, BulkFailLemma
  <1> QED BY <1>2, <1>5, <1>7

(* Steps between rows. *)
LEMMA FixNullIdsLemma ==
    ASSUME TaskInv, NEW p \in Pollers, FixNullIds(p)
    PROVE  TaskInv'
  <1> USE DEF TaskInv
  <1>1. PICK rows \in SUBSET work[p], null \in SUBSET work[p] :
            /\ work' = [work EXCEPT ![p] = work[p] \ rows] /\ null \subseteq rows
            /\ group' = [group EXCEPT ![p] = rows \ null] /\ Forget(p, null)
    BY NullIds
  <1>2. task' \in [Tasks -> Row] /\ BulkOnly
    BY NullIds
  <1>3. /\ copy' \in [Pollers -> [Tasks -> Row]]
        /\ \A q \in Pollers : q # p => copy'[q] = copy[q]
        /\ \A t \in Tasks : copy'[p][t] = IF t \in null THEN NoRow ELSE copy[p][t]
    BY <1>1, ForgetLemma
  <1>4. /\ pc[p] = "list" /\ pc' = [pc EXCEPT ![p] = "channel"]
        /\ UNCHANGED <<job, look, paid, failed, sub, World>>
    BY DEF FixNullIds, Goto, Outside, World
  <1>5. /\ pc'[p] = "channel" /\ work'[p] = work[p] \ rows /\ group'[p] = rows \ null
        /\ Others(p) /\ work[p] \subseteq Tasks
    BY <1>1, <1>3, <1>4 DEF TypeOK, Others
  <1>6. LocalType'
    <2>1. /\ pc' \in [Pollers -> PollerLabels] /\ work' \in [Pollers -> SUBSET Tasks]
          /\ group' \in [Pollers -> SUBSET Tasks]
      BY <1>1, <1>4, <1>5 DEF TypeOK, PollerLabels
    <2>2. \A q \in Pollers : pc'[q] \in Billing \cup {"apply", "save"} => q # p /\ pc'[q] = pc[q]
      BY <1>5 DEF Others, Billing
    <2> QED BY <2>1, <2>2, <1>3, <1>4 DEF LocalType, TypeOK
  <1>7. CopyOK(p)'
    BY <1>2, <1>3, NoRowType DEF PollerInv, CopyOK, BulkOnly, SameCharge, Had
  <1>8. Place(p)'
    BY <1>1, <1>3, <1>4, <1>5 DEF PollerInv, Place, Billing
  <1> QED BY <1>2, <1>4, <1>5, <1>6, <1>7, <1>8, BulkStep, LocalTypeLemma DEF Billing, World

(* A channel that is gone: its rows are failed in bulk. *)
LEMMA VanishedLemma ==
    ASSUME TaskInv, NEW p \in Pollers, LoadChannel(p), ChannelsVanish, BulkFail(group[p], TRUE),
           group' = [group EXCEPT ![p] = {}], Forget(p, group[p]), Goto(p, "list")
    PROVE  TaskInv'
  <1> USE DEF TaskInv
  <1>1. group[p] \in SUBSET Tasks /\ work[p] \in SUBSET Tasks
    BY DEF TypeOK
  <1>2. task' \in [Tasks -> Row] /\ BulkOnly
    <2>1. \A t \in group[p] : Had(task[t])
      BY <1>1 DEF PollerInv, Place, CopyOK
    <2> QED BY <2>1, <1>1, BulkFailLemma DEF NoBulk
  <1>3. /\ copy' \in [Pollers -> [Tasks -> Row]]
        /\ \A q \in Pollers : q # p => copy'[q] = copy[q]
        /\ \A t \in Tasks : copy'[p][t] = IF t \in group[p] THEN NoRow ELSE copy[p][t]
    BY ForgetLemma
  <1>4. /\ pc[p] = "channel" /\ pc' = [pc EXCEPT ![p] = "list"]
        /\ UNCHANGED <<work, job, look, paid, failed, sub, World>>
    BY DEF LoadChannel, Goto, Outside, World
  <1>5. pc'[p] = "list" /\ group'[p] = {} /\ Others(p)
    BY <1>3, <1>4 DEF TypeOK, Others
  <1>6. LocalType'
    <2>1. pc' \in [Pollers -> PollerLabels] /\ group' \in [Pollers -> SUBSET Tasks]
      BY <1>4 DEF TypeOK, PollerLabels
    <2>2. \A q \in Pollers : pc'[q] \in Billing \cup {"apply", "save"} => q # p /\ pc'[q] = pc[q]
      BY <1>5 DEF Others, Billing
    <2> QED BY <2>1, <2>2, <1>3, <1>4 DEF LocalType, TypeOK
  <1>7. CopyOK(p)'
    BY <1>2, <1>3, NoRowType DEF PollerInv, CopyOK, BulkOnly, SameCharge, Had
  <1>8. Place(p)'
    BY <1>1, <1>3, <1>4, <1>5 DEF PollerInv, Place, Billing
  <1> QED BY <1>2, <1>4, <1>5, <1>6, <1>7, <1>8, BulkStep, LocalTypeLemma DEF Billing, World

(* The poller goes on to the next platform, channel or round. *)
LEMMA MovingLemma ==
    ASSUME TaskInv, NEW p \in Pollers,
           \/ RoundEnds(p) \/ GroupEnds(p)
           \/ LoadChannel(p) /\ Goto(p, "update") /\ UNCHANGED <<task, group, copy>>
    PROVE  TaskInv'
  <1> USE DEF TaskInv
  <1>1. /\ pc[p] \in {"list", "channel", "update"}
        /\ UNCHANGED <<local, task, sub, look, paid, failed, World>>
        /\ \E l \in {"idle", "list", "update"} :
            /\ pc' = [pc EXCEPT ![p] = l]
            /\ l \in {"idle", "list"} => group[p] = {}
    <2>1. CASE RoundEnds(p)
      BY <2>1 DEF RoundEnds, Goto, Outside, World, PollerInv, Place
    <2>2. CASE LoadChannel(p) /\ Goto(p, "update") /\ UNCHANGED <<task, group, copy>>
      BY <2>2 DEF LoadChannel, Goto, Outside, World, local
    <2>3. CASE GroupEnds(p)
      BY <2>3 DEF GroupEnds, Goto, Outside, World
    <2> QED BY <2>1, <2>2, <2>3
  <1>2. PICK l \in {"idle", "list", "update"} :
            /\ pc' = [pc EXCEPT ![p] = l]
            /\ l \in {"idle", "list"} => group[p] = {}
    BY <1>1
  <1>3. Others(p) /\ pc'[p] = l
    BY <1>1, <1>2 DEF TypeOK, Others, local
  <1>4. LocalType'
    BY <1>1, <1>2 DEF TypeOK, LocalType, PollerLabels, Billing, local
  <1>5. CopyOK(p)'
    BY <1>1 DEF PollerInv, CopyOK, local
  <1>6. Place(p)'
    BY <1>1, <1>2, <1>3 DEF PollerInv, Place, Billing, local
  <1> QED BY <1>1, <1>3, <1>4, <1>5, <1>6, LocalStep, LocalTypeLemma DEF Billing, World

(* CacheGetChannel, whether the channel is there or not. *)
LEMMA ChannelLemma ==
    ASSUME TaskInv, NEW p \in Pollers, LoadChannel(p)
    PROVE  TaskInv'
  <1>1. CASE Goto(p, "update") /\ UNCHANGED <<task, group, copy>>
    BY <1>1, MovingLemma
  <1>2. CASE /\ ChannelsVanish /\ BulkFail(group[p], TRUE) /\ Forget(p, group[p])
             /\ group' = [group EXCEPT ![p] = {}] /\ Goto(p, "list")
    BY <1>2, VanishedLemma
  <1> QED BY <1>1, <1>2 DEF LoadChannel

-----------------------------------------------------------------------------
(* Taking up a row, and being done with it. *)

JobType == [id : Tasks \cup {0}, answer : Answers, back : {"idle", "sweep", "update", "save"}]

(* Row t is not one of those p has still to do. *)
Removed(p, t) ==
    /\ work' = [work EXCEPT ![p] = work[p] \ {t}]
    /\ group' = [group EXCEPT ![p] = group[p] \ {t}]

(* Removing a task that is not there changes nothing. *)
LEMMA RemovedLemma ==
    ASSUME TypeOK, NEW p \in Pollers, NEW t
    PROVE  /\ t \notin work[p] /\ work' = work => work' = [work EXCEPT ![p] = work[p] \ {t}]
           /\ t \notin group[p] /\ group' = group => group' = [group EXCEPT ![p] = group[p] \ {t}]
  <1>1. t \notin work[p] => work[p] \ {t} = work[p]
    OBVIOUS
  <1>2. t \notin group[p] => group[p] \ {t} = group[p]
    OBVIOUS
  <1> QED BY <1>1, <1>2 DEF TypeOK

(* What a poller keeps is in order after the step, and its copies are old. *)
Kept(p) ==
    /\ Others(p) /\ LocalType' /\ Place(p)'
    /\ \A u \in Tasks : Had(copy'[p][u]) => copy'[p][u] = copy[p][u]

(* The poller is done with a task. *)
LEMMA DoneLemma ==
    ASSUME TaskInv, NEW p \in Pollers, NEW t \in Tasks, NEW l \in {"sweep", "update"},
           DoneWith(p, t, l), Removed(p, t), l = "sweep" => group[p] = {}
    PROVE  Kept(p) /\ pc'[p] = l
  <1> USE DEF TaskInv
  <1> DEFINE C == [u \in Tasks |-> IF u \in {t} THEN NoRow ELSE copy[p][u]]
  <1>1. /\ pc' = [pc EXCEPT ![p] = l] /\ job' = [job EXCEPT ![p] = NoJob]
        /\ copy' = [copy EXCEPT ![p] = C]
    BY DEF DoneWith, Forget, Goto
  <1>2. C \in [Tasks -> Row] /\ NoJob \in JobType
    BY NoRowType DEF TypeOK, NoJob, JobType, Answers
  <1>3. /\ Others(p) /\ pc'[p] = l /\ copy'[p] = C
        /\ work'[p] = work[p] \ {t} /\ group'[p] = group[p] \ {t}
    BY <1>1 DEF Others, TypeOK, Removed
  <1>4. \A u \in Tasks : copy'[p][u] = IF u = t THEN NoRow ELSE copy[p][u]
    BY <1>3
  <1> HIDE DEF C
  <1>5. LocalType'
    BY <1>1, <1>2 DEF TypeOK, LocalType, Removed, PollerLabels, Billing, JobType
  <1>6. Place(p)'
    <2>1. work[p] \subseteq Tasks /\ group[p] \subseteq Tasks /\ Place(p)
      BY DEF TypeOK, PollerInv
    <2> QED BY <2>1, <1>3, <1>4 DEF Place, Billing
  <1> QED BY <1>3, <1>4, <1>5, <1>6, NoRowType DEF Kept

(* The poller takes up a task, to apply an answer or to bill. *)
LEMMA TakeLemma ==
    ASSUME TaskInv, NEW p \in Pollers, NEW t \in Tasks, NEW j \in JobType,
           NEW l \in {"apply", "refundFunding", "settleFunding"},
           Had(copy[p][t]), j.id = t,
           l = "apply" => j.answer # "none",
           l # "apply" => j.back \in {"sweep", "update"},
           j.back = "sweep" => group[p] = {},
           job' = [job EXCEPT ![p] = j], pc' = [pc EXCEPT ![p] = l], copy' = copy,
           Removed(p, t)
    PROVE  Kept(p) /\ pc'[p] = l /\ job'[p] = j
  <1> USE DEF TaskInv
  <1>1. /\ Others(p) /\ pc'[p] = l /\ job'[p] = j
        /\ work'[p] = work[p] \ {t} /\ group'[p] = group[p] \ {t}
    BY DEF Others, TypeOK, Removed
  <1>2. LocalType'
    <2>1. /\ pc' \in [Pollers -> PollerLabels] /\ job' \in [Pollers -> JobType]
          /\ work' \in [Pollers -> SUBSET Tasks] /\ group' \in [Pollers -> SUBSET Tasks]
          /\ copy' \in [Pollers -> [Tasks -> Row]]
      BY DEF TypeOK, PollerLabels, JobType, Removed
    <2>2. \A q \in Pollers : pc'[q] \in Billing \cup {"apply", "save"} =>
              job'[q].id \in Tasks /\ copy'[q][job'[q].id].status # "absent"
      BY <1>1 DEF TypeOK, Others, Had
    <2> QED BY <2>1, <2>2 DEF LocalType, JobType
  <1>3. Place(p)'
    <2>1. work[p] \subseteq Tasks /\ group[p] \subseteq Tasks /\ Place(p)
      BY DEF TypeOK, PollerInv
    <2> QED BY <2>1, <1>1 DEF Place, Billing
  <1> QED BY <1>1, <1>2, <1>3 DEF Kept

(* A step of that kind that leaves the rows alone. *)
LEMMA KeptLemma ==
    ASSUME TaskInv, NEW p \in Pollers, Kept(p),
           pc[p] \notin Billing, pc'[p] \notin Billing,
           UNCHANGED <<task, sub, look, paid, failed, World>>
    PROVE  TaskInv'
  <1>1. CopyOK(p)'
    <2>1. CopyOK(p)
      BY DEF TaskInv, PollerInv
    <2> QED BY <2>1 DEF CopyOK, Kept
  <1> QED BY <1>1, LocalStep, LocalTypeLemma DEF Kept, TaskInv, World

(* The poller asks the upstream. *)
LEMMA AskLemma ==
    ASSUME TaskInv, NEW p \in Pollers, NEW t \in Tasks, AskUpstream(p, t)
    PROVE  TaskInv'
  <1>1. /\ pc[p] = "update" /\ t \in group[p] /\ group' = [group EXCEPT ![p] = group[p] \ {t}]
        /\ UNCHANGED <<task, sub, look, paid, failed, World, work>>
    BY DEF AskUpstream, Outside, World
  <1>2. Place(p) /\ Had(copy[p][t]) /\ t \notin work[p]
    BY <1>1 DEF TaskInv, PollerInv, Place
  <1>3. Removed(p, t)
    BY <1>1, <1>2, RemovedLemma DEF Removed, TaskInv
  <1>4. PICK s \in Said(t) :
         \/ s = "none" /\ DoneWith(p, t, "update")
         \/ /\ s # "none"
            /\ job' = [job EXCEPT ![p] = [NoJob EXCEPT !.id = t, !.answer = s]]
            /\ Goto(p, "apply")
            /\ UNCHANGED copy
    BY DEF AskUpstream
  <1>5. CASE s = "none" /\ DoneWith(p, t, "update")
    <2>1. Kept(p) /\ pc'[p] = "update"
      BY <1>3, <1>5, DoneLemma
    <2> QED BY <2>1, <1>1, KeptLemma DEF Billing
  <1>6. CASE s # "none" /\ job' = [job EXCEPT ![p] = [NoJob EXCEPT !.id = t, !.answer = s]]
             /\ Goto(p, "apply") /\ UNCHANGED copy
    <2> DEFINE j == [NoJob EXCEPT !.id = t, !.answer = s]
    <2>1. s \in Answers
      BY DEF Said, Answers, Final, TaskInv, TypeOK
    <2>2. j \in JobType /\ j.id = t /\ j.answer = s /\ j.back = "idle"
      BY <2>1 DEF NoJob, JobType
    <2> HIDE DEF j
    <2>3. job' = [job EXCEPT ![p] = j]
      BY <1>6 DEF j
    <2>4. Kept(p) /\ pc'[p] = "apply"
      BY <2>2, <2>3, <1>2, <1>3, <1>6, TakeLemma DEF Goto
    <2> QED BY <2>4, <1>1, KeptLemma DEF Billing
  <1> QED BY <1>4, <1>5, <1>6

-----------------------------------------------------------------------------
(* UpdateWithStatus. *)

(* A row that has not ended is paid what it was charged, and nobody bills  *)
(* it.                                                                     *)
LEMMA UnbilledLemma ==
    ASSUME WinnersOnly, TaskInv, NEW t \in Tasks, task[t].status \notin Final
    PROVE  /\ \A q \in Pollers : ~Bills(q, t)
           /\ failed[t] # TRUE
           /\ Untouched(t)
  <1> USE DEF TaskInv
  <1>1. \A q \in Pollers : ~Bills(q, t)
    BY DEF BillInv, BillStep, Bills, Billing, Final
  <1>2. failed[t] # TRUE
    BY DEF RowInv
  <1>3. task[t] \in Row /\ task[t].platform # "suno"
    BY DEF TypeOK, RowInv, WinnersOnly
  <1>4. Cost(task[t]) = task[t].quota
    BY <1>3, CostLemma DEF Final
  <1>5. task[t].quota \in Nat
    BY <1>3 DEF Row
  <1>6. AsCosted(t)
    BY <1>1, <1>2 DEF ChargeInv, Final
  <1>7. Untouched(t)
    BY <1>4, <1>5, <1>6 DEF AsCosted, Untouched
  <1> QED BY <1>1, <1>2, <1>7

(* The winner of a compare-and-swap: what the row costs now is what it     *)
(* cost before, or the winner goes on to bill the difference.              *)
LEMMA SwapLemma ==
    ASSUME WinnersOnly, TaskInv, NEW p \in Pollers, NEW t \in Tasks, NEW s \in Moves,
           Had(copy[p][t]), Wins(t, copy[p][t]), Store(t, Moved(copy[p][t], s)),
           UNCHANGED <<sub, look, paid, failed, World>>,
           Kept(p), pc[p] \notin Billing,
           \/ /\ pc'[p] \notin Billing
              /\ s = "SUCCESS" => ~NeedsSettle(copy[p][t])
              /\ s = "FAILURE" => copy[p][t].quota = 0 \/ Legacy(copy[p][t])
           \/ pc'[p] = "refundFunding" /\ s = "FAILURE" /\ job'[p].id = t
           \/ /\ pc'[p] = "settleFunding" /\ s = "SUCCESS" /\ job'[p].id = t
              /\ NeedsSettle(copy[p][t])
    PROVE  TaskInv'
  <1> USE DEF TaskInv
  <1> DEFINE new == Moved(copy[p][t], s)
  <1>1. copy[p][t] \in Row /\ CopyOK(p)
    BY DEF TypeOK, PollerInv
  <1>2. /\ task[t].status \notin Final /\ task[t] \in Row
        /\ Had(task[t]) /\ SameCharge(copy[p][t], task[t])
    BY <1>1 DEF Wins, CopyOK, TypeOK
  <1>3. new \in Row /\ new.status = s /\ Had(new) /\ SameCharge(new, task[t])
    BY <1>1, <1>2, MovedLemma DEF SameCharge
  <1>4. /\ \A q \in Pollers : ~Bills(q, t)
        /\ failed[t] # TRUE
        /\ Untouched(t)
    BY <1>2, UnbilledLemma
  <1>5. task' = [task EXCEPT ![t] = new]
    BY DEF Store
  <1> HIDE DEF new
  <1>6. \A u \in Tasks : task'[u] = IF u = t THEN new ELSE task[u]
    BY <1>5 DEF TypeOK
  <1>7. TypeOK'
    <2>1. task' \in [Tasks -> Row]
      BY <1>3, <1>5 DEF TypeOK
    <2> QED BY <2>1 DEF TypeOK, LocalType, Kept, World
  <1>8. RowInv'
    BY <1>2, <1>3, <1>4, <1>6 DEF RowInv, SameCharge
  <1>9. PollerInv'
    <2> SUFFICES ASSUME NEW q \in Pollers PROVE CopyOK(q)' /\ Place(q)'
      BY DEF PollerInv
    <2>1. CopyOK(q) /\ Place(q)
      BY DEF PollerInv
    <2>2. \A u \in Tasks : Had(copy'[q][u]) => copy'[q][u] = copy[q][u]
      BY DEF Kept, Others
    <2>3. CopyOK(q)'
      BY <2>1, <2>2, <1>2, <1>3, <1>6 DEF CopyOK, SameCharge
    <2>4. Place(q)'
      BY <2>1 DEF Kept, Others, Place
    <2> QED BY <2>3, <2>4
  <1>10. \A q \in Pollers, u \in Tasks : Bills(q, u)' <=>
            \/ q # p /\ Bills(q, u)
            \/ q = p /\ pc'[p] \in Billing /\ u = t
    BY DEF Kept, Others, Bills, Billing
  <1>11. BillInv'
    <2> SUFFICES ASSUME NEW q \in Pollers, NEW u \in Tasks, Bills(q, u)'
                 PROVE  BillStep(pc[q], u)'
      BY DEF BillInv
    <2>1. CASE q # p
      <3>1. Bills(q, u) /\ u # t /\ pc'[q] = pc[q]
        BY <2>1, <1>4, <1>10 DEF Kept, Others
      <3>2. BillStep(pc[q], u)
        BY <3>1 DEF BillInv
      <3> QED BY <3>1, <3>2, <1>6 DEF BillStep, FundingMoved, TokenMoved, World
    <2>2. CASE q = p
      <3>1. u = t /\ pc'[p] \in {"refundFunding", "settleFunding"}
        BY <2>2, <1>10
      <3>2. pc'[p] = "refundFunding" => s = "FAILURE"
        BY DEF Billing
      <3>3. pc'[p] = "settleFunding" => s = "SUCCESS" /\ NeedsSettle(new)
        BY <1>2, <1>3 DEF Billing, NeedsSettle, SameCharge
      <3> QED BY <3>1, <3>2, <3>3, <2>2, <1>3, <1>4, <1>6 DEF BillStep, SameCharge, Final, Untouched, World, FundingMoved, TokenMoved
    <2> QED BY <2>1, <2>2
  <1>12. OneBiller'
    BY <1>4, <1>10 DEF OneBiller
  <1>13. ChargeInv'
    <2> SUFFICES ASSUME NEW u \in Tasks
                 PROVE  \/ failed[u] = TRUE
                        \/ \E q \in Pollers : Bills(q, u)'
                        \/ Legacy(task'[u]) /\ task'[u].status = "FAILURE"
                        \/ ~NoBulk /\ task'[u].status \in Final
                        \/ AsCosted(u)'
      <3>1. \A u \in Tasks : task'[u].quota = task[u].quota
        BY <1>3, <1>6 DEF SameCharge
      <3> QED BY <3>1 DEF ChargeInv, NotMore, FundingMoved, TokenMoved, World
    <2>1. CASE u # t
      <3>1. \A q \in Pollers : Bills(q, u) => Bills(q, u)'
        BY <2>1, <1>10 DEF Bills
      <3> QED BY <3>1, <2>1, <1>6 DEF ChargeInv, NotMore, AsCosted, World, FundingMoved, TokenMoved
    <2>2. CASE u = t /\ pc'[p] \in Billing
      BY <2>2, <1>10
    <2>3. CASE u = t /\ pc'[p] \notin Billing
      <3>1. new.platform # "suno"
        BY <1>2, <1>3 DEF SameCharge, RowInv, WinnersOnly
      <3>2. s = "SUCCESS" => ~NeedsSettle(new)
        BY <2>3, <1>2, <1>3 DEF NeedsSettle, SameCharge, Billing
      <3>3. s = "FAILURE" => new.quota = 0 \/ Legacy(new)
        BY <2>3, <1>2, <1>3 DEF Legacy, SameCharge, Billing
      <3>4. s # "FAILURE" => Cost(new) = new.quota
        BY <3>1, <3>2, <1>3, CostLemma
      <3>5. s = "FAILURE" => Cost(new) = 0
        BY <3>1, <1>3, CostLemma
      <3>6. Untouched(t)'
        BY <1>4 DEF Untouched, FundingMoved, TokenMoved, World
      <3> QED BY <3>3, <3>4, <3>5, <3>6, <2>3, <1>3, <1>6 DEF Untouched, AsCosted, Row
    <2> QED BY <2>1, <2>2, <2>3
  <1>14. NoLookups'
    BY DEF NoLookups
  <1> QED BY <1>7, <1>8, <1>9, <1>11, <1>12, <1>13, <1>14

(* The poller bills the task whose row it has changed, if there is         *)
(* anything to bill.                                                       *)
LEMMA BillLemma ==
    ASSUME TaskInv, NEW p \in Pollers, NEW t \in Tasks,
           NEW step \in {"refundFunding", "settleFunding"}, NEW l \in {"sweep", "update"},
           Bill(p, t, step, l), Had(copy[p][t]), Removed(p, t), l = "sweep" => group[p] = {}
    PROVE  Kept(p) /\ pc'[p] = step /\ job'[p].id = t
  <1> DEFINE j == [NoJob EXCEPT !.id = t, !.back = l]
  <1>1. j \in JobType /\ j.id = t /\ j.back = l
    BY DEF NoJob, JobType, Answers
  <1>2. job' = [job EXCEPT ![p] = j] /\ pc' = [pc EXCEPT ![p] = step] /\ copy' = copy
    BY DEF Bill, Goto
  <1> HIDE DEF j
  <1> QED BY <1>1, <1>2, TakeLemma

(* One row of the sweep. *)
LEMMA SweepLemma ==
    ASSUME WinnersOnly, TaskInv, NEW p \in Pollers, NEW t \in Tasks, SweepTask(p, t)
    PROVE  TaskInv'
  <1> USE DEF TaskInv
  <1>1. /\ pc[p] = "sweep" /\ t \in work[p] /\ work' = [work EXCEPT ![p] = work[p] \ {t}]
        /\ UNCHANGED <<sub, look, paid, failed, World, group>>
    BY DEF SweepTask, Outside, World
  <1>2. Place(p) /\ Had(copy[p][t]) /\ group[p] = {}
    BY <1>1 DEF PollerInv, Place
  <1>3. Removed(p, t)
    BY <1>1, <1>2, RemovedLemma DEF Removed
  <1>4. CASE UNCHANGED task /\ DoneWith(p, t, "sweep")
    <2>1. Kept(p) /\ pc'[p] = "sweep"
      BY <1>2, <1>3, <1>4, DoneLemma
    <2> QED BY <2>1, <1>1, <1>4, KeptLemma DEF Billing
  <1>5. CASE /\ Wins(t, copy[p][t]) /\ Store(t, Moved(copy[p][t], "FAILURE"))
             /\ Bill(p, t, "refundFunding", "sweep")
    <2>1. Kept(p) /\ pc'[p] = "refundFunding" /\ job'[p].id = t
      BY <1>2, <1>3, <1>5, BillLemma
    <2> QED BY <2>1, <1>1, <1>2, <1>5, SwapLemma DEF Billing, Moves
  <1>6. CASE /\ Wins(t, copy[p][t]) /\ Store(t, Moved(copy[p][t], "FAILURE"))
             /\ Legacy(copy[p][t]) \/ copy[p][t].quota = 0
             /\ DoneWith(p, t, "sweep")
    <2>1. Kept(p) /\ pc'[p] = "sweep"
      BY <1>2, <1>3, <1>6, DoneLemma
    <2> QED BY <2>1, <1>1, <1>2, <1>6, SwapLemma DEF Billing, Moves
  <1> QED BY <1>4, <1>5, <1>6 DEF SweepTask

(* updateVideoSingleTask after the answer. *)
LEMMA UpdateLemma ==
    ASSUME WinnersOnly, TaskInv, NEW p \in Pollers, UpdateVideoSingleTask(p)
    PROVE  TaskInv'
  <1> USE DEF TaskInv
  <1>1. PICK t \in Tasks : t = job[p].id
    BY DEF UpdateVideoSingleTask, TypeOK
  <1>2. PICK s \in Moves : s = job[p].answer
    BY DEF UpdateVideoSingleTask, TypeOK, PollerInv, Place, Answers, Moves, Final
  <1>3. pc[p] = "apply" /\ UNCHANGED <<sub, look, paid, failed, World, work, group>>
    BY DEF UpdateVideoSingleTask, Outside, World
  <1>4. Had(copy[p][t]) /\ t \notin work[p] \cup group[p]
    BY <1>1, <1>3 DEF TypeOK, PollerInv, Place, Had
  <1>5. Removed(p, t)
    BY <1>3, <1>4, RemovedLemma DEF Removed
  <1>6. CASE UNCHANGED task /\ DoneWith(p, t, "update")
    <2>1. Kept(p) /\ pc'[p] = "update"
      BY <1>5, <1>6, DoneLemma
    <2> QED BY <2>1, <1>3, <1>6, KeptLemma DEF Billing
  <1>7. CASE /\ Wins(t, copy[p][t]) /\ Store(t, Moved(copy[p][t], s))
             /\ s = "SUCCESS" /\ NeedsSettle(copy[p][t]) /\ Bill(p, t, "settleFunding", "update")
    <2>1. Kept(p) /\ pc'[p] = "settleFunding" /\ job'[p].id = t
      BY <1>4, <1>5, <1>7, BillLemma
    <2> QED BY <2>1, <1>3, <1>4, <1>7, SwapLemma DEF Billing
  <1>8. CASE /\ Wins(t, copy[p][t]) /\ Store(t, Moved(copy[p][t], s))
             /\ s = "FAILURE" /\ Bill(p, t, "refundFunding", "update")
    <2>1. Kept(p) /\ pc'[p] = "refundFunding" /\ job'[p].id = t
      BY <1>4, <1>5, <1>8, BillLemma
    <2> QED BY <2>1, <1>3, <1>4, <1>8, SwapLemma DEF Billing
  <1>9. CASE /\ Wins(t, copy[p][t]) /\ Store(t, Moved(copy[p][t], s))
             /\ ~(s = "SUCCESS" /\ NeedsSettle(copy[p][t]))
             /\ ~(s = "FAILURE" /\ copy[p][t].quota # 0)
             /\ DoneWith(p, t, "update")
    <2>1. Kept(p) /\ pc'[p] = "update"
      BY <1>5, <1>9, DoneLemma
    <2> QED BY <2>1, <1>3, <1>4, <1>9, SwapLemma DEF Billing
  <1> QED BY <1>1, <1>2, <1>6, <1>7, <1>8, <1>9 DEF UpdateVideoSingleTask

-----------------------------------------------------------------------------
(* Billing. *)

(* A step of billing row t: p stays on it, or is done. *)
LEMMA BillingStep ==
    ASSUME WinnersOnly, TaskInv, NEW p \in Pollers, NEW t \in Tasks, Bills(p, t),
           UNCHANGED <<task, sub, look, World>>, TypeOK', Kept(p),
           \/ Bills(p, t)' /\ BillStep(pc[p], t)'
           \/ /\ pc'[p] \notin Billing
              /\ \/ failed'[t] = TRUE \/ ~NoBulk
                 \/ AsCosted(t)',
           NotMore(t)',
           \A u \in Tasks : u # t => paid'[u] = paid[u] /\ failed'[u] = failed[u],
           failed[t] = TRUE => failed'[t] = TRUE
    PROVE  TaskInv'
  <1> USE DEF TaskInv
  <1>1. task[t].status \in Final
    BY DEF BillInv, BillStep, Bills, Billing, Final
  <1>2. RowInv' /\ NoLookups'
    BY <1>1 DEF RowInv, NoLookups
  <1>3. PollerInv'
    <2> SUFFICES ASSUME NEW q \in Pollers PROVE CopyOK(q)' /\ Place(q)'
      BY DEF PollerInv
    <2>1. CopyOK(q) /\ Place(q)
      BY DEF PollerInv
    <2>2. \A u \in Tasks : Had(copy'[q][u]) => copy'[q][u] = copy[q][u]
      BY DEF Kept, Others
    <2>3. CopyOK(q)'
      BY <2>1, <2>2 DEF CopyOK
    <2>4. Place(q)'
      BY <2>1 DEF Kept, Others, Place
    <2> QED BY <2>3, <2>4
  <1>4. \A q \in Pollers, u \in Tasks :
            /\ q # p => (Bills(q, u)' <=> Bills(q, u)) /\ pc'[q] = pc[q]
            /\ Bills(p, u)' => u = t
            /\ Bills(q, t) => q = p
    BY DEF Kept, Others, Bills, OneBiller
  <1>5. BillInv'
    <2> SUFFICES ASSUME NEW q \in Pollers, NEW u \in Tasks, Bills(q, u)'
                 PROVE  BillStep(pc[q], u)'
      BY DEF BillInv
    <2>1. CASE q = p
      BY <2>1, <1>4 DEF Bills
    <2>2. CASE q # p
      <3>1. Bills(q, u) /\ u # t /\ pc'[q] = pc[q]
        BY <2>2, <1>4
      <3>2. BillStep(pc[q], u)
        BY <3>1 DEF BillInv
      <3> QED BY <3>1, <3>2 DEF BillStep, FundingMoved, TokenMoved, World
    <2> QED BY <2>1, <2>2
  <1>6. OneBiller'
    BY <1>4 DEF OneBiller
  <1>7. ChargeInv'
    <2> SUFFICES ASSUME NEW u \in Tasks
                 PROVE  /\ NotMore(u)'
                        /\ \/ failed'[u] = TRUE
                           \/ \E q \in Pollers : Bills(q, u)'
                           \/ Legacy(task[u]) /\ task[u].status = "FAILURE"
                           \/ ~NoBulk /\ task[u].status \in Final
                           \/ AsCosted(u)'
      BY DEF ChargeInv
    <2>1. CASE u = t
      BY <2>1, <1>1
    <2>2. CASE u # t
      <3>1. \A q \in Pollers : Bills(q, u) => Bills(q, u)'
        BY <2>2, <1>4 DEF Bills
      <3> QED BY <3>1, <2>2 DEF ChargeInv, NotMore, AsCosted, World, FundingMoved, TokenMoved
    <2> QED BY <2>1, <2>2
  <1> QED BY <1>2, <1>3, <1>5, <1>6, <1>7

(* Billing is over. *)
LEMMA BilledLemma ==
    ASSUME TaskInv, NEW p \in Pollers, NEW t \in Tasks, Bills(p, t), Billed(p), UNCHANGED <<work, group>>
    PROVE  Kept(p) /\ pc'[p] \notin Billing
  <1>1. /\ Place(p) /\ job[p].back \in {"sweep", "update"} /\ t \notin work[p] \cup group[p]
        /\ job[p].back = "sweep" => group[p] = {}
    BY DEF TaskInv, PollerInv, Place, Bills
  <1>2. PICK l \in {"sweep", "update"} : l = job[p].back
    BY <1>1
  <1>3. DoneWith(p, t, l)
    BY <1>1, <1>2 DEF Billed, Bills
  <1>4. Removed(p, t)
    BY <1>1, RemovedLemma DEF Removed, TaskInv
  <1> QED BY <1>1, <1>2, <1>3, <1>4, DoneLemma DEF Billing

(* The poller goes on to the token. *)
LEMMA ContinueLemma ==
    ASSUME TaskInv, NEW p \in Pollers, NEW t \in Tasks, Bills(p, t), NEW l \in {"refundToken",
    "settleToken"},
           Goto(p, l), UNCHANGED <<copy, job, work, group>>
    PROVE  Kept(p) /\ pc'[p] = l /\ Bills(p, t)'
  <1> USE DEF TaskInv
  <1>1. pc' = [pc EXCEPT ![p] = l] /\ pc'[p] = l /\ Others(p)
    BY DEF Goto, TypeOK, Others
  <1>2. LocalType'
    <2>1. pc' \in [Pollers -> PollerLabels]
      BY <1>1 DEF TypeOK, PollerLabels
    <2>2. \A q \in Pollers : pc'[q] \in Billing \cup {"apply", "save"} =>
              job'[q].id \in Tasks /\ copy'[q][job'[q].id].status # "absent"
      BY <1>1 DEF TypeOK, Others, Bills
    <2> QED BY <2>1, <2>2 DEF LocalType, TypeOK
  <1>3. Place(p)'
    BY <1>1 DEF PollerInv, Place, Bills, Billing
  <1> QED BY <1>1, <1>2, <1>3 DEF Kept, Bills, Billing

(* The columns the billing of t reads. *)
LEMMA BillFacts ==
    ASSUME WinnersOnly, TaskInv, NEW p \in Pollers, pc[p] \in Billing
    PROVE  \E t \in Tasks :
              /\ Bills(p, t) /\ t = job[p].id /\ BillStep(pc[p], t)
              /\ task[t] \in Row /\ task[t].platform # "suno"
              /\ task[t].quota \in Nat /\ task[t].price \in Nat
              /\ RefundAmount(p) = - task[t].quota
              /\ SettleAmount(p) = task[t].price - task[t].quota
              /\ paid[t] \in Paid /\ paid[t].funding \in Int /\ paid[t].token \in Int
              /\ charged[t].funding \in Int /\ charged[t].token \in Int
  <1> USE DEF TaskInv
  <1>1. PICK t \in Tasks : t = job[p].id /\ Had(copy[p][t])
    BY DEF TypeOK, Had
  <1>2. Bills(p, t) /\ BillStep(pc[p], t)
    BY <1>1 DEF Bills, BillInv
  <1>3. task[t] \in Row /\ task[t].platform # "suno"
    BY DEF TypeOK, RowInv, WinnersOnly
  <1>4. task[t].quota \in Nat /\ task[t].price \in Nat
    BY <1>3 DEF Row
  <1>5. SameCharge(copy[p][t], task[t])
    BY <1>1 DEF PollerInv, CopyOK
  <1>6. /\ RefundAmount(p) = - task[t].quota
        /\ SettleAmount(p) = task[t].price - task[t].quota
    BY <1>1, <1>5 DEF RefundAmount, SettleAmount, SameCharge
  <1>7. /\ paid[t] \in Paid /\ paid[t].funding \in Int /\ paid[t].token \in Int
        /\ charged[t].funding \in Int /\ charged[t].token \in Int
    BY DEF TypeOK, Paid
  <1> QED BY <1>1, <1>2, <1>3, <1>4, <1>6, <1>7

(* What is paid for other tasks, and the other column, do not change. *)
LEMMA PayFunding ==
    ASSUME paid \in [Tasks -> Paid], NEW t \in Tasks, NEW n \in Int, Pay(t, "funding", n)
    PROVE  /\ paid' \in [Tasks -> Paid] /\ paid'[t].funding = paid[t].funding + n
           /\ paid'[t].token = paid[t].token /\ \A u \in Tasks : u # t => paid'[u] = paid[u]
  <1> DEFINE r == [paid[t] EXCEPT !.funding = paid[t].funding + n]
  <1>1. paid' = [paid EXCEPT ![t] = r]
    BY DEF Pay
  <1>2. r \in Paid /\ r.funding = paid[t].funding + n /\ r.token = paid[t].token
    BY DEF Paid
  <1> HIDE DEF r
  <1> QED BY <1>1, <1>2

(* A payment to the token. *)
LEMMA PayToken ==
    ASSUME paid \in [Tasks -> Paid], NEW t \in Tasks, NEW n \in Int, Pay(t, "token", n)
    PROVE  /\ paid' \in [Tasks -> Paid] /\ paid'[t].token = paid[t].token + n
           /\ paid'[t].funding = paid[t].funding /\ \A u \in Tasks : u # t => paid'[u] = paid[u]
  <1> DEFINE r == [paid[t] EXCEPT !.token = paid[t].token + n]
  <1>1. paid' = [paid EXCEPT ![t] = r]
    BY DEF Pay
  <1>2. r \in Paid /\ r.token = paid[t].token + n /\ r.funding = paid[t].funding
    BY DEF Paid
  <1> HIDE DEF r
  <1> QED BY <1>1, <1>2

(* RefundTaskQuota and RecalculateTaskQuota change the funding source. *)
LEMMA FundingLemma ==
    ASSUME WinnersOnly, TaskInv, NEW p \in Pollers, RefundFunding(p) \/ SettleFunding(p)
    PROVE  TaskInv'
  <1> USE DEF TaskInv
  <1>1. pc[p] \in Billing
    BY DEF RefundFunding, SettleFunding, Billing
  <1>2. PICK t \in Tasks :
              /\ Bills(p, t) /\ t = job[p].id /\ BillStep(pc[p], t)
              /\ task[t] \in Row /\ task[t].platform # "suno"
              /\ task[t].quota \in Nat /\ task[t].price \in Nat
              /\ RefundAmount(p) = - task[t].quota
              /\ SettleAmount(p) = task[t].price - task[t].quota
              /\ paid[t] \in Paid /\ paid[t].funding \in Int /\ paid[t].token \in Int
              /\ charged[t].funding \in Int /\ charged[t].token \in Int
    BY <1>1, BillFacts
  <1>3. UNCHANGED <<task, sub, look, World, work, group>>
    BY DEF RefundFunding, SettleFunding, AdjustFunding, Outside, World
  <1>4. Untouched(t)
    BY <1>2 DEF Untouched, BillStep, RefundFunding, SettleFunding
  <1>5. CASE MayFail("funding") /\ MarkFailed(t) /\ Billed(p) /\ UNCHANGED paid
    <2>1. Kept(p) /\ pc'[p] \notin Billing
      BY <1>2, <1>3, <1>5, BilledLemma
    <2>2. /\ failed' = [failed EXCEPT ![t] = TRUE] /\ failed' \in [Tasks -> BOOLEAN]
          /\ failed'[t] = TRUE
      BY <1>5 DEF MarkFailed, TypeOK
    <2>3. TypeOK'
      BY <2>1, <2>2, <1>3, <1>5 DEF TypeOK, LocalType, Kept, World
    <2>4. \A u \in Tasks : u # t => paid'[u] = paid[u] /\ failed'[u] = failed[u]
      BY <2>2, <1>5 DEF TypeOK
    <2>5. NotMore(t)'
      BY <1>3, <1>2, <1>4, <1>5 DEF Untouched, NotMore, World, FundingMoved, TokenMoved
    <2> QED BY <2>1, <2>2, <2>3, <2>4, <2>5, <1>2, <1>3, BillingStep
  <1>6. ASSUME NEW n \in Int, NEW l \in {"refundToken", "settleToken"},
               Pay(t, "funding", n), Goto(p, l), UNCHANGED <<copy, job, failed>>,
               l = "refundToken" => n = - task[t].quota /\ pc[p] = "refundFunding",
               l = "settleToken" => n = task[t].price - task[t].quota /\ pc[p] = "settleFunding"
        PROVE  TaskInv'
    <2>1. Kept(p) /\ pc'[p] = l /\ Bills(p, t)'
      BY <1>2, <1>3, <1>6, ContinueLemma
    <2>3. /\ paid' \in [Tasks -> Paid] /\ paid'[t].funding = paid[t].funding + n
          /\ paid'[t].token = paid[t].token /\ \A u \in Tasks : u # t => paid'[u] = paid[u]
      BY <1>6, PayFunding DEF TypeOK
    <2>4. /\ FundingMoved(t)' = IF l = "refundToken" THEN - task[t].quota
                                                     ELSE task[t].price - task[t].quota
          /\ TokenMoved(t)' = 0
      <3>1. FundingMoved(t)' = n /\ TokenMoved(t)' = 0
        <4>1. paid[t].funding - charged[t].funding = 0 /\ paid[t].token - charged[t].token = 0
          BY <1>4 DEF Untouched, FundingMoved, TokenMoved
        <4>2. charged'[t] = charged[t] /\ n \in Int
          BY <1>3, <1>6 DEF World
        <4>3. /\ paid'[t].funding - charged[t].funding = n
              /\ paid'[t].token - charged[t].token = 0
          BY <4>1, <4>2, <2>3, <1>2
        <4> QED BY <4>2, <4>3 DEF FundingMoved, TokenMoved
      <3> QED BY <3>1, <1>6
    <2>5. TypeOK'
      BY <2>1, <2>3, <1>3, <1>6 DEF TypeOK, LocalType, Kept, World
    <2>6. BillStep(pc[p], t)'
      BY <2>1, <2>3, <2>4, <1>2, <1>3, <1>4, <1>6 DEF BillStep
    <2>7. NotMore(t)'
      BY <1>3, <2>3, <2>4, <1>2, <1>4 DEF NotMore
    <2>8. /\ \A u \in Tasks : u # t => paid'[u] = paid[u] /\ failed'[u] = failed[u]
          /\ failed'[t] = failed[t]
      BY <2>3, <1>6
    <2> QED BY <2>1, <2>5, <2>6, <2>7, <2>8, <1>2, <1>3, BillingStep
  <1>7. - task[t].quota \in Int /\ task[t].price - task[t].quota \in Int
    BY <1>2
  <1> QED BY <1>2, <1>5, <1>6, <1>7 DEF RefundFunding, SettleFunding, AdjustFunding

(* RefundTaskQuota and RecalculateTaskQuota change the token. *)
LEMMA TokenLemma ==
    ASSUME WinnersOnly, TaskInv, NEW p \in Pollers, RefundToken(p) \/ SettleToken(p)
    PROVE  TaskInv'
  <1> USE DEF TaskInv
  <1>1. pc[p] \in Billing
    BY DEF RefundToken, SettleToken, Billing
  <1>2. PICK t \in Tasks :
              /\ Bills(p, t) /\ t = job[p].id /\ BillStep(pc[p], t)
              /\ task[t] \in Row /\ task[t].platform # "suno"
              /\ task[t].quota \in Nat /\ task[t].price \in Nat
              /\ RefundAmount(p) = - task[t].quota
              /\ SettleAmount(p) = task[t].price - task[t].quota
              /\ paid[t] \in Paid /\ paid[t].funding \in Int /\ paid[t].token \in Int
              /\ charged[t].funding \in Int /\ charged[t].token \in Int
    BY <1>1, BillFacts
  <1>3. UNCHANGED <<task, sub, look, World, work, group>> /\ Billed(p)
    BY DEF RefundToken, SettleToken, AdjustToken, Outside, World
  <1>4. Kept(p) /\ pc'[p] \notin Billing
    BY <1>2, <1>3, BilledLemma
  <1>5. /\ TokenMoved(t) = 0
        /\ pc[p] = "refundToken" => /\ FundingMoved(t) = - task[t].quota
                                    /\ NoBulk => Cost(task[t]) = 0
        /\ pc[p] = "settleToken" => FundingMoved(t) = task[t].price - task[t].quota
        /\ pc[p] = "settleToken" => (NoBulk => Cost(task[t]) = task[t].price)
    BY <1>2, CostLemma DEF BillStep
  <1>6. CASE MarkFailed(t) /\ UNCHANGED paid
    <2>1. /\ failed' = [failed EXCEPT ![t] = TRUE] /\ failed' \in [Tasks -> BOOLEAN]
          /\ failed'[t] = TRUE
      BY <1>6 DEF MarkFailed, TypeOK
    <2>2. TypeOK'
      BY <2>1, <1>3, <1>4, <1>6 DEF TypeOK, LocalType, Kept, World
    <2>3. \A u \in Tasks : u # t => paid'[u] = paid[u] /\ failed'[u] = failed[u]
      BY <2>1, <1>6 DEF TypeOK
    <2>4. NotMore(t)'
      BY <1>3, <1>6 DEF ChargeInv, NotMore, World, FundingMoved, TokenMoved
    <2> QED BY <2>1, <2>2, <2>3, <2>4, <1>2, <1>3, <1>4, BillingStep
  <1>7. ASSUME NEW n \in Int, Pay(t, "token", n), UNCHANGED failed,
               \/ n = - task[t].quota /\ pc[p] = "refundToken"
               \/ n = task[t].price - task[t].quota /\ pc[p] = "settleToken"
        PROVE  TaskInv'
    <2>1. /\ paid' \in [Tasks -> Paid] /\ paid'[t].token = paid[t].token + n
          /\ paid'[t].funding = paid[t].funding /\ \A u \in Tasks : u # t => paid'[u] = paid[u]
      BY <1>7, PayToken DEF TypeOK
    <2>2. /\ NoBulk => AsCosted(t)'
          /\ NotMore(t)'
      <3>1. CASE n = - task[t].quota /\ pc[p] = "refundToken"
        BY <1>3, <3>1, <2>1, <1>2, <1>5 DEF AsCosted, NotMore, World, FundingMoved, TokenMoved
      <3>2. CASE n = task[t].price - task[t].quota /\ pc[p] = "settleToken"
        BY <1>3, <3>2, <2>1, <1>2, <1>5 DEF AsCosted, NotMore, World, FundingMoved, TokenMoved
      <3> QED BY <3>1, <3>2, <1>7
    <2>3. TypeOK'
      BY <2>1, <1>3, <1>4, <1>7 DEF TypeOK, LocalType, Kept, World
    <2>4. /\ \A u \in Tasks : u # t => paid'[u] = paid[u] /\ failed'[u] = failed[u]
          /\ failed'[t] = failed[t]
      BY <2>1, <1>7
    <2> QED BY <2>2, <2>3, <2>4, <1>2, <1>3, <1>4, BillingStep
  <1>8. - task[t].quota \in Int /\ task[t].price - task[t].quota \in Int
    BY <1>2
  <1> QED BY <1>2, <1>6, <1>7, <1>8 DEF RefundToken, SettleToken, AdjustToken

(* A restart in the middle of billing marks the task. *)
LEMMA CrashLemma ==
    ASSUME WinnersOnly, TaskInv, NEW p \in Pollers, Crash(p)
    PROVE  TaskInv'
  <1> USE DEF TaskInv
  <1> DEFINE C == [t \in Tasks |-> NoRow]
  <1>1. /\ work' = [work EXCEPT ![p] = {}] /\ group' = [group EXCEPT ![p] = {}]
        /\ copy' = [copy EXCEPT ![p] = C] /\ job' = [job EXCEPT ![p] = NoJob]
        /\ pc' = [pc EXCEPT ![p] = "idle"]
        /\ UNCHANGED <<task, sub, look, paid, World>>
    BY DEF Crash, Goto, Outside, World
  <1>2. C \in [Tasks -> Row] /\ (\A u \in Tasks : ~Had(C[u])) /\ NoJob \in JobType
    BY NoRowType DEF NoJob, JobType, Answers
  <1> HIDE DEF C
  <1>3. /\ Others(p) /\ pc'[p] = "idle" /\ copy'[p] = C /\ work'[p] = {} /\ group'[p] = {}
    BY <1>1 DEF TypeOK, Others
  <1>4. LocalType'
    BY <1>1, <1>2 DEF TypeOK, LocalType, PollerLabels, Billing, JobType
  <1>5. Kept(p)
    BY <1>2, <1>3, <1>4 DEF Kept, Place, Billing
  <1>6. CASE pc[p] \in Billing
    <2>1. PICK t \in Tasks : t = job[p].id /\ Bills(p, t)
      BY <1>6 DEF TypeOK, Bills
    <2>2. failed' = [u \in Tasks |-> failed[u] \/ u = t]
      BY <2>1, <1>6, Zenon DEF Crash
    <2>3. /\ failed' \in [Tasks -> BOOLEAN] /\ failed'[t] = TRUE
          /\ \A u \in Tasks : u # t => failed'[u] = failed[u]
      <3>1. failed \in [Tasks -> BOOLEAN]
        BY DEF TypeOK
      <3>2. \A u \in Tasks : u # t => (failed[u] \/ u = t) = failed[u]
        BY <3>1, Zenon
      <3>3. (failed[t] \/ t = t) = TRUE
        BY Zenon
      <3> QED BY <2>2, <3>2, <3>3, Zenon
    <2>4. TypeOK'
      BY <2>3, <1>1, <1>4 DEF TypeOK, LocalType, World
    <2>5. NotMore(t)'
      BY <1>1 DEF ChargeInv, NotMore, World, FundingMoved, TokenMoved
    <2> QED BY <2>1, <2>3, <2>4, <2>5, <1>1, <1>3, <1>5, BillingStep DEF Billing
  <1>7. CASE pc[p] \notin Billing
    <2>1. failed' = failed
      <3>1. failed \in [Tasks -> BOOLEAN]
        BY DEF TypeOK
      <3>2. failed' = [u \in Tasks |-> failed[u]]
        <4>1. \A u \in Tasks : (failed[u] \/ (pc[p] \in Billing /\ job[p].id = u)) = failed[u]
          BY <3>1, <1>7, Zenon
        <4> QED BY <4>1, Zenon DEF Crash
      <3> QED BY <3>1, <3>2, Zenon
    <2> QED BY <2>1, <1>1, <1>3, <1>5, <1>7, KeptLemma DEF Billing
  <1> QED BY <1>6, <1>7

-----------------------------------------------------------------------------
(* Submission, and the world outside. *)

(* Before a row is in the table no poller has a copy of it. *)
LEMMA NewRowLemma ==
    ASSUME WinnersOnly, TaskInv, TypeOK', NEW t \in Tasks, NEW new \in Row, ~Had(task[t]),
           task' = [task EXCEPT ![t] = new],
           new.status \notin Final, new.platform \in Platforms \cup {"video"},
           NoBulk => new.hasId = TRUE,
           Had(new) => sub'[t] = "inserted",
           \A u \in Tasks : u # t => /\ sub'[u] = sub[u] /\ paid'[u] = paid[u]
                                      /\ charged'[u] = charged[u],
           Untouched(t)',
           UNCHANGED <<pc, local, look, failed>>
    PROVE  TaskInv'
  <1> USE DEF TaskInv
  <1>1. \A u \in Tasks : task'[u] = IF u = t THEN new ELSE task[u]
    BY DEF TypeOK
  <1>2. failed[t] # TRUE /\ \A p \in Pollers : ~Bills(p, t)
    <2>1. task[t].status \notin Final
      BY DEF Had, Final
    <2> QED BY <2>1, UnbilledLemma
  <1>3. RowInv'
    <2> SUFFICES ASSUME NEW u \in Tasks
                 PROVE  /\ task'[u].platform \in Platforms \cup {"video"}
                        /\ NoBulk => task'[u].hasId = TRUE
                        /\ Had(task'[u]) => sub'[u] = "inserted"
                        /\ failed'[u] = TRUE => task'[u].status \in Final
      BY DEF RowInv, Had
    <2>1. CASE u = t
      BY <2>1, <1>1, <1>2
    <2>2. CASE u # t
      BY <2>2, <1>1 DEF RowInv
    <2> QED BY <2>1, <2>2
  <1>4. PollerInv'
    <2> SUFFICES ASSUME NEW p \in Pollers PROVE CopyOK(p)' /\ Place(p)'
      BY DEF PollerInv
    <2>1. CopyOK(p) /\ Place(p)
      BY DEF PollerInv
    <2> QED BY <2>1, <1>1 DEF CopyOK, Place, local
  <1>5. \A p \in Pollers, u \in Tasks : Bills(p, u)' <=> Bills(p, u)
    BY DEF Bills, local
  <1>6. BillInv' /\ OneBiller'
    <2>1. OneBiller'
      BY <1>5 DEF OneBiller
    <2>2. BillInv'
      <3> SUFFICES ASSUME NEW p \in Pollers, NEW u \in Tasks, Bills(p, u)' PROVE BillStep(pc[p], u)'
        BY DEF BillInv
      <3>1. u # t /\ BillStep(pc[p], u)
        BY <1>2, <1>5 DEF BillInv
      <3> QED BY <3>1, <1>1 DEF BillStep, FundingMoved, TokenMoved
    <2> QED BY <2>1, <2>2
  <1>7. ChargeInv'
    <2> SUFFICES ASSUME NEW u \in Tasks
                 PROVE  /\ NotMore(u)'
                        /\ \/ failed[u] = TRUE
                           \/ \E q \in Pollers : Bills(q, u)
                           \/ Legacy(task'[u]) /\ task'[u].status = "FAILURE"
                           \/ ~NoBulk /\ task'[u].status \in Final
                           \/ AsCosted(u)'
      BY <1>5 DEF ChargeInv
    <2>1. CASE u # t
      BY <2>1, <1>1 DEF ChargeInv, NotMore, AsCosted, World, FundingMoved, TokenMoved
    <2>2. CASE u = t
      <3>1. Cost(new) = new.quota
        BY CostLemma DEF WinnersOnly, Final
      <3>2. new.quota \in Nat
        BY DEF Row
      <3> QED BY <3>1, <3>2, <2>2, <1>1 DEF Untouched, AsCosted, NotMore
    <2> QED BY <2>1, <2>2
  <1>8. NoLookups'
    BY DEF NoLookups
  <1> QED BY <1>3, <1>4, <1>6, <1>7, <1>8

(* A task is submitted with its charge. *)
LEMMA SubmitLemma ==
    ASSUME WinnersOnly, TaskInv, NEW t \in Tasks, Submit(t)
    PROVE  TaskInv'
  <1> USE DEF TaskInv
  <1>1. PICK pre \in Quotas, q \in Quotas, pf \in Platforms, id \in IdKnown, price \in Prices, day \in SubmitDays :
          /\ Store(t, [NoRow EXCEPT !.quota = q, !.platform = pf, !.hasId = id,
                                    !.price = price, !.day = day])
          /\ \E amount \in Settled(pre, q) :
                /\ charged' = [charged EXCEPT ![t] = amount]
                /\ paid' = [paid EXCEPT ![t] = amount]
    BY DEF Submit
  <1>2. /\ pre \in Nat /\ q \in Nat /\ price \in Nat /\ day \in Nat /\ pf \in AllPlatforms
        /\ id \in BOOLEAN /\ (NoBulk => id = TRUE)
    BY TaskAssumption DEF NoBulk
  <1> DEFINE a == [NoRow EXCEPT !.quota = q]
             b == [a EXCEPT !.platform = pf]
             c == [b EXCEPT !.hasId = id]
             d == [c EXCEPT !.price = price]
             new == [d EXCEPT !.day = day]
  <1>3. task' = [task EXCEPT ![t] = new]
    BY <1>1 DEF Store
  <1>4. a \in Row /\ a.status = "absent" /\ a.quota = q
    BY <1>2, NoRowType DEF Row, Had
  <1> HIDE DEF a
  <1>41. b \in Row /\ b.status = "absent" /\ b.quota = q /\ b.platform = pf
    BY <1>2, <1>4 DEF Row
  <1> HIDE DEF b
  <1>42. c \in Row /\ c.status = "absent" /\ c.quota = q /\ c.platform = pf /\ c.hasId = id
    BY <1>2, <1>41 DEF Row
  <1> HIDE DEF c
  <1>43. d \in Row /\ d.status = "absent" /\ d.quota = q /\ d.platform = pf /\ d.hasId = id
    BY <1>2, <1>42 DEF Row
  <1> HIDE DEF d
  <1>5. new \in Row /\ new.status = "absent" /\ new.platform = pf /\ new.hasId = id /\ new.quota = q
    BY <1>2, <1>43 DEF Row
  <1> HIDE DEF new
  <1>6. /\ sub[t] = "idle" /\ sub' = [sub EXCEPT ![t] = "settled"]
        /\ UNCHANGED <<pc, local, look, looks, up, late, failed>>
    BY DEF Submit
  <1>7. ~Had(task[t])
    BY <1>6 DEF RowInv
  <1>8. /\ paid' \in [Tasks -> Paid] /\ charged' \in [Tasks -> Paid] /\ Untouched(t)'
        /\ \A u \in Tasks : u # t => paid'[u] = paid[u] /\ charged'[u] = charged[u]
    <2>1. PICK amount \in Settled(pre, q) : /\ charged' = [charged EXCEPT ![t] = amount]
                                            /\ paid' = [paid EXCEPT ![t] = amount]
      BY <1>1
    <2>2. amount \in Paid /\ amount.funding \in Int /\ amount.token \in Int
      BY <1>2 DEF Settled, Paid
    <2>3. paid'[t] = amount /\ charged'[t] = amount
      BY <2>1 DEF TypeOK
    <2> QED BY <2>1, <2>2, <2>3 DEF TypeOK, Untouched, FundingMoved, TokenMoved
  <1>9. TypeOK'
    BY <1>3, <1>5, <1>6, <1>8 DEF TypeOK, World, local
  <1>10. \A u \in Tasks : u # t => sub'[u] = sub[u]
    BY <1>6 DEF TypeOK
  <1> QED BY <1>2, <1>3, <1>5, <1>6, <1>7, <1>8, <1>9, <1>10, NewRowLemma DEF Had, Final

(* A step that touches no row, poller or charge. *)
LEMMA StutterLemma ==
    ASSUME TaskInv, TypeOK', UNCHANGED <<task, pc, local, look, charged, paid, failed>>,
           \A t \in Tasks : sub[t] = "inserted" => sub'[t] = "inserted"
    PROVE  TaskInv'
  <1> USE DEF TaskInv
  <1>1. RowInv' /\ NoLookups'
    BY DEF RowInv, NoLookups
  <1>2. PollerInv'
    BY DEF PollerInv, CopyOK, Place, local
  <1>3. BillInv' /\ OneBiller' /\ ChargeInv'
    BY DEF BillInv, OneBiller, ChargeInv, Bills, BillStep, local, NotMore, AsCosted, FundingMoved, TokenMoved
  <1> QED BY <1>1, <1>2, <1>3

(* The row of a task is inserted, or the insert fails. *)
LEMMA InsertLemma ==
    ASSUME WinnersOnly, TaskInv, NEW t \in Tasks, Insert(t)
    PROVE  TaskInv'
  <1> USE DEF TaskInv
  <1>1. sub[t] = "settled" /\ UNCHANGED <<pc, local, look, paid, failed, World>>
    BY DEF Insert, World
  <1>2. CASE /\ Store(t, [task[t] EXCEPT !.status = "NOT_START"])
             /\ sub' = [sub EXCEPT ![t] = "inserted"]
    <2> DEFINE new == [task[t] EXCEPT !.status = "NOT_START"]
    <2>1. ~Had(task[t])
      BY <1>1 DEF RowInv
    <2>2. new \in Row /\ new.status = "NOT_START" /\ SameCharge(new, task[t])
      <3>1. task[t] \in Row
        BY DEF TypeOK
      <3> QED BY <3>1 DEF Row, Statuses, SameCharge
    <2>3. task' = [task EXCEPT ![t] = new]
      BY <1>2 DEF Store
    <2> HIDE DEF new
    <2>4. TypeOK'
      BY <2>2, <2>3, <1>1, <1>2 DEF TypeOK, World, local
    <2>5. new.platform \in Platforms \cup {"video"} /\ (NoBulk => new.hasId = TRUE)
      BY <2>2 DEF RowInv, SameCharge
    <2>6. Untouched(t)'
      BY <2>1, <1>1, UnbilledLemma DEF Had, Final, Untouched, FundingMoved, TokenMoved, World
    <2>7. /\ sub'[t] = "inserted"
          /\ \A u \in Tasks : u # t => /\ sub'[u] = sub[u] /\ paid'[u] = paid[u]
                                        /\ charged'[u] = charged[u]
      BY <1>1, <1>2 DEF TypeOK, World
    <2> QED BY <2>1, <2>2, <2>3, <2>4, <2>5, <2>6, <2>7, <1>1, NewRowLemma DEF Final
  <1>3. CASE sub' = [sub EXCEPT ![t] = "lost"] /\ UNCHANGED task
    <2>1. TypeOK'
      BY <1>1, <1>3 DEF TypeOK, World, local
    <2> QED BY <2>1, <1>1, <1>3, StutterLemma DEF TypeOK, World
  <1> QED BY <1>2, <1>3 DEF Insert

(* The upstream's job ends, or a task grows old. *)
LEMMA WorldLemma ==
    ASSUME TaskInv, NEW t \in Tasks, UpstreamEnds(t) \/ GrowOld(t)
    PROVE  TaskInv'
  <1>1. UNCHANGED <<task, sub, pc, local, look, looks, charged, paid, failed>>
    BY DEF UpstreamEnds, GrowOld
  <1>2. up' \in [Tasks -> {"IN_PROGRESS"} \cup Final] /\ late' \in [Tasks -> BOOLEAN]
    <2>1. CASE UpstreamEnds(t)
      BY <2>1 DEF UpstreamEnds, TaskInv, TypeOK
    <2>2. CASE GrowOld(t)
      <3>1. up' = up /\ late' = [late EXCEPT ![t] = TRUE]
        BY <2>2 DEF GrowOld
      <3> QED BY <3>1 DEF TaskInv, TypeOK
    <2> QED BY <2>1, <2>2
  <1>3. TypeOK'
    BY <1>1, <1>2 DEF TaskInv, TypeOK, local
  <1> QED BY <1>1, <1>3, StutterLemma

-----------------------------------------------------------------------------

(* Steps that the assumption excludes. *)
LEMMA ExcludedLemma ==
    ASSUME WinnersOnly, TaskInv
    PROVE  /\ \A p \in Pollers : ~UpdateSunoTask(p) /\ ~SaveSuno(p)
           /\ \A f \in Fetchers : ~LookStep(f)
  <1> USE DEF TaskInv
  <1>1. \A t \in Tasks : task[t].platform # "suno"
    BY DEF RowInv, WinnersOnly
  <1>2. ASSUME NEW p \in Pollers, UpdateSunoTask(p) PROVE FALSE
    <2>1. PICK t \in Tasks : t = job[p].id /\ Had(copy[p][t]) /\ copy[p][t].platform = "suno"
      BY <1>2 DEF UpdateSunoTask, TypeOK, Had
    <2> QED BY <2>1, <1>1 DEF PollerInv, CopyOK, SameCharge
  <1>3. ASSUME NEW p \in Pollers, SaveSuno(p) PROVE FALSE
    BY <1>3 DEF SaveSuno, PollerInv, Place
  <1>4. ASSUME NEW f \in Fetchers, LookStep(f) PROVE FALSE
    BY <1>4 DEF LookStep, LookAsk, LookWrite, LookRead, NoLookups, RowInv, WinnersOnly
  <1> QED BY <1>2, <1>3, <1>4

(* Every step keeps the invariant. *)
LEMMA TaskNext == ASSUME WinnersOnly, TaskInv, [Next]_vars PROVE TaskInv'
  <1>1. CASE UNCHANGED vars
    <2>1. TypeOK'
      BY <1>1 DEF TaskInv, TypeOK, vars
    <2> QED BY <2>1, <1>1, StutterLemma DEF vars, local
  <1>2. ASSUME NEW p \in Pollers, PollerStep(p) PROVE TaskInv'
    BY <1>2, ExcludedLemma, PollBeginLemma, FixNullIdsLemma, MovingLemma, ChannelLemma,
       UpdateLemma, FundingLemma,
       TokenLemma, SweepLemma, AskLemma DEF PollerStep
  <1> QED BY <1>1, <1>2, ExcludedLemma, SubmitLemma, InsertLemma, WorldLemma, CrashLemma DEF Next

(* The invariant, for every behaviour. *)
LEMMA TaskInvariant == ASSUME WinnersOnly PROVE Spec => []TaskInv
  <1>1. TaskInv /\ [Next]_vars => TaskInv'
    BY TaskNext
  <1> QED BY <1>1, TaskInit, PTL DEF Spec

(* RefundTaskQuota, for any number of nodes that sweep, poll, fail rows in *)
(* bulk, restart and fail: no task gets more back than its row's quota.    *)
THEOREM RefundedAtMostOnceTheorem == ASSUME WinnersOnly PROVE Spec => []RefundedAtMostOnce
  <1>1. TaskInv => RefundedAtMostOnce
    <2> SUFFICES ASSUME TaskInv, NEW t \in Tasks
                 PROVE  /\ charged[t].funding - paid[t].funding <= task[t].quota
                        /\ charged[t].token - paid[t].token <= task[t].quota
      BY DEF RefundedAtMostOnce, TaskInv
    <2>1. paid[t] \in Paid /\ charged[t] \in Paid /\ task[t].quota \in Nat
      BY DEF TaskInv, TypeOK, Row
    <2> QED BY <2>1 DEF TaskInv, ChargeInv, NotMore, FundingMoved, TokenMoved, Paid
  <1> QED BY <1>1, TaskInvariant, PTL

(* And, unless a billing call failed or was cut off, it has cost exactly   *)
(* what its row says once nobody is billing it, if no row is failed in     *)
(* bulk, which gives no refund.                                            *)
THEOREM ExactTaskChargeTheorem == ASSUME SwapsOnly PROVE Spec => []ExactTaskCharge
  <1>0. WinnersOnly /\ NoBulk
    BY DEF SwapsOnly
  <1>1. TaskInv => ExactTaskCharge
    <2> SUFFICES ASSUME TaskInv, NEW t \in Tasks
                 PROVE  \/ failed[t]
                        \/ \E p \in Pollers : job[p].id = t /\ pc[p] \in Billing \cup {"save"}
                        \/ Legacy(task[t]) /\ task[t].status = "FAILURE"
                        \/ paid[t] = [funding |-> charged[t].funding + (Cost(task[t]) - task[t].quota),
                                      token |-> charged[t].token + (Cost(task[t]) - task[t].quota)]
      BY DEF ExactTaskCharge
    <2>1. AsCosted(t) =>
            paid[t] = [funding |-> charged[t].funding + (Cost(task[t]) - task[t].quota),
                       token |-> charged[t].token + (Cost(task[t]) - task[t].quota)]
      <3>1. paid[t] \in Paid /\ charged[t] \in Paid /\ task[t].quota \in Nat /\ Cost(task[t]) \in Nat
        BY <1>0, CostLemma DEF TaskInv, TypeOK, RowInv, WinnersOnly, Row
      <3> HIDE DEF Cost
      <3> QED BY <3>1 DEF Paid, AsCosted, FundingMoved, TokenMoved
    <2>2. failed[t] = TRUE => failed[t]
      OBVIOUS
    <2>3. \A p \in Pollers : Bills(p, t) => job[p].id = t /\ pc[p] \in Billing \cup {"save"}
      BY DEF Bills
    <2> QED BY <2>1, <2>2, <2>3, <1>0 DEF TaskInv, ChargeInv
  <1> QED BY <1>0, <1>1, TaskInvariant, PTL

(* No step writes a row that has ended, but for a bulk update, which fails *)
(* it.                                                                     *)
LEMMA EndedRowLemma ==
    ASSUME WinnersOnly, TaskInv, [Next]_vars, NEW t \in Tasks, task[t].status \in Final
    PROVE  task'[t] = task[t] \/ (~NoBulk /\ task'[t].status = "FAILURE")
  <1> USE DEF TaskInv
  <1>1. ASSUME NEW u \in Tasks, NEW row, ~(task[u].status \in Final), Store(u, row)
        PROVE  task'[t] = task[t]
    BY <1>1 DEF Store, TypeOK
  <1>2. CASE UNCHANGED task
    BY <1>2
  <1>3. ASSUME NEW u \in Tasks, Submit(u) \/ Insert(u) PROVE task'[t] = task[t]
    <2>1. task[u].status \notin Final
      BY <1>3 DEF Submit, Insert, RowInv, Had, Final
    <2> QED BY <2>1, <1>1, <1>3 DEF Submit, Insert
  <1>4. ASSUME NEW p \in Pollers, NEW u \in Tasks, Had(copy[p][u]), Wins(u, copy[p][u])
        PROVE  task[u].status \notin Final
    BY <1>4 DEF PollerInv, CopyOK, Wins
  <1>5. ASSUME NEW p \in Pollers, NEW u \in Tasks, SweepTask(p, u) PROVE task'[t] = task[t]
    <2>1. Had(copy[p][u])
      BY <1>5 DEF SweepTask, PollerInv, Place
    <2> QED BY <2>1, <1>1, <1>4, <1>5 DEF SweepTask
  <1>6. ASSUME NEW p \in Pollers, UpdateVideoSingleTask(p) PROVE task'[t] = task[t]
    <2>1. PICK u \in Tasks : u = job[p].id /\ Had(copy[p][u])
      BY <1>6 DEF UpdateVideoSingleTask, TypeOK, Had
    <2> QED BY <2>1, <1>1, <1>4, <1>6 DEF UpdateVideoSingleTask
  <1>7. ASSUME NEW p \in Pollers, FixNullIds(p) \/ LoadChannel(p) PROVE BulkOnly
    <2>1. CASE LoadChannel(p)
      <3>1. group[p] \in SUBSET Tasks /\ \A u \in group[p] : Had(task[u])
        BY DEF TypeOK, PollerInv, Place, CopyOK
      <3>2. CASE UNCHANGED task
        BY <3>2 DEF BulkOnly
      <3>3. CASE ChannelsVanish /\ BulkFail(group[p], TRUE)
        BY <3>1, <3>3, BulkFailLemma DEF NoBulk
      <3> QED BY <2>1, <3>2, <3>3 DEF LoadChannel
    <2>2. CASE FixNullIds(p)
      BY <2>2, NullIds
    <2> QED BY <1>7, <2>1, <2>2
  <1>8. ASSUME NEW p \in Pollers, PollerStep(p)
        PROVE  task'[t] = task[t] \/ (~NoBulk /\ task'[t].status = "FAILURE")
    BY <1>5, <1>6, <1>7, <1>8, ExcludedLemma DEF PollerStep, BulkOnly, PollBegin, ListTasks,
       RoundEnds, GroupEnds,
       RefundFunding, RefundToken, SettleFunding, SettleToken, AdjustFunding, AdjustToken, AskUpstream
  <1> QED BY <1>2, <1>3, <1>8, ExcludedLemma DEF Next, UpstreamEnds, GrowOld, Crash, vars

(* A task that has ended is not taken up again, whatever fails it in bulk. *)
EndedForGood == [][\A t \in Tasks : task[t].status \in Final => task'[t].status \in Final]_vars

(* UpdateWithStatus and TaskBulkUpdateByID together: no interleaving of    *)
(* nodes moves a task that has ended back to one that is polled.           *)
THEOREM EndedForGoodTheorem == ASSUME WinnersOnly PROVE Spec => EndedForGood
  <1>1. TaskInv /\ [Next]_vars =>
            [\A t \in Tasks : task[t].status \in Final => task'[t].status \in Final]_vars
    BY EndedRowLemma DEF Final
  <1> QED BY <1>1, TaskInvariant, PTL DEF Spec, EndedForGood

(* UpdateWithStatus: without bulk updates it stays as it ended. *)
THEOREM TerminalIsFinalTheorem == ASSUME SwapsOnly PROVE Spec => TerminalIsFinal
  <1>0. WinnersOnly /\ NoBulk
    BY DEF SwapsOnly
  <1>1. TaskInv /\ [Next]_vars =>
            [\A t \in Tasks : task[t].status \in Final => task'[t].status = task[t].status]_vars
    BY <1>0, EndedRowLemma
  <1> QED BY <1>0, <1>1, TaskInvariant, PTL DEF Spec, TerminalIsFinal
=============================================================================
