---------------------------- MODULE TaskLifecycle ----------------------------
(***************************************************************************)
(* The life of an asynchronous task (video, music): it is charged and      *)
(* recorded when it is submitted (controller/relay.go), polled by the      *)
(* background loop of every master node (service/task_polling.go), looked  *)
(* up by its user (relay/relay_task.go), and refunded or re-priced when it *)
(* reaches a final status (service/task_billing.go).                       *)
(*                                                                         *)
(* Nobody holds a lock on a task row: a poller works on copies it read at  *)
(* the start of a round, and writes them back under a compare-and-swap on  *)
(* the status column (UpdateWithStatus), or without one (Save, the bulk    *)
(* updates).                                                               *)
(***************************************************************************)
EXTENDS Integers, FiniteSets

CONSTANTS
    N,               \* task ids are 1 .. N, in the order of submission
    Pollers,         \* master nodes, each with one polling loop
    Fetchers,        \* users that look tasks up
    MaxLooks,        \* how many lookups they make
    Platforms,       \* a subset of AllPlatforms
    Quotas,          \* what a submission may pre-consume, and what it may cost
    Prices,          \* the price found on completion, 0 for none or a price per call
    IdKnown,         \* whether a task has an upstream id: a subset of BOOLEAN
    SubmitDays,      \* days of submission, counted from 1970-01-01
    Timeouts,        \* TaskTimeoutMinutes > 0
    SweepLimit,      \* rows one sweep looks at (100)
    QueryLimit,      \* rows one round looks at (TaskQueryLimit)
    ChannelsVanish,  \* an administrator may delete a channel
    Failing,         \* the calls that may fail
    Crashes          \* whether a master node may restart

Tasks == 1 .. N
AllPlatforms == {"video", "gemini", "suno"}
Calls == {"insert", "cas", "bulk", "save", "funding", "token", "upstream"}

ASSUME TaskAssumption ==
    /\ N \in Nat
    /\ MaxLooks \in Nat
    /\ Platforms \subseteq AllPlatforms
    /\ Quotas \subseteq Nat
    /\ Prices \subseteq Nat
    /\ IdKnown \subseteq BOOLEAN
    /\ SubmitDays \subseteq Nat
    /\ Timeouts \in BOOLEAN
    /\ SweepLimit \in Nat
    /\ QueryLimit \in Nat
    /\ ChannelsVanish \in BOOLEAN
    /\ Failing \subseteq Calls
    /\ Crashes \in BOOLEAN

(* legacyTaskCutoff in days: 1740182400 = 20141 * 86400. *)
LegacyCutoffDay == 20141

VARIABLES
    task,    \* the rows of the tasks table
    sub,     \* where the submitting request is
    up,      \* external: the real state of the upstream job
    late,    \* the task is older than TaskTimeoutMinutes
    pc,      \* where a poller is
    work,    \* the rows of its round it has not grouped yet
    group,   \* the rows of the platform it works on
    copy,    \* its copies of the rows
    job,     \* the row it works on: id, what the upstream said, where to go after billing
    look,    \* a user's lookup: step, row, answer
    looks,   \* how many lookups were made
    charged, \* history: what the submission took from the funding source and the token
    paid,    \* history: net amount a task cost its funding source and token
    failed   \* history: a billing call failed or a restart cut it off

vars == <<task, sub, up, late, pc, work, group, copy, job, look, looks, charged, paid,
          failed>>
local == <<work, group, copy, job>>

Final == {"SUCCESS", "FAILURE"}
Statuses == {"absent", "NOT_START", "IN_PROGRESS"} \cup Final
Answers == {"none", "IN_PROGRESS"} \cup Final

Row == [status : Statuses,
        full : BOOLEAN,        \* progress = "100%"
        reason : BOOLEAN,      \* fail_reason is not empty
        quota : Nat, platform : AllPlatforms, hasId : BOOLEAN,
        price : Nat, day : Nat]

NoRow == [status |-> "absent", full |-> FALSE, reason |-> FALSE, quota |-> 0,
          platform |-> "video", hasId |-> TRUE, price |-> 0, day |-> 0]

PollerLabels == {"idle", "sweep", "list", "channel", "update", "apply", "save",
                 "refundFunding", "refundToken", "settleFunding", "settleToken"}
Billing == {"refundFunding", "refundToken", "settleFunding", "settleToken"}

NoJob == [id |-> 0, answer |-> "none", back |-> "idle"]
Nothing == [funding |-> 0, token |-> 0]
NoLook == [step |-> "idle", row |-> NoRow, id |-> 0, answer |-> "none"]

Init ==
    /\ task = [t \in Tasks |-> NoRow]
    /\ sub = [t \in Tasks |-> "idle"]
    /\ up = [t \in Tasks |-> "IN_PROGRESS"]
    /\ late = [t \in Tasks |-> FALSE]
    /\ pc = [p \in Pollers |-> "idle"]
    /\ work = [p \in Pollers |-> {}]
    /\ group = [p \in Pollers |-> {}]
    /\ copy = [p \in Pollers |-> [t \in Tasks |-> NoRow]]
    /\ job = [p \in Pollers |-> NoJob]
    /\ look = [f \in Fetchers |-> NoLook]
    /\ looks = 0
    /\ charged = [t \in Tasks |-> Nothing]
    /\ paid = [t \in Tasks |-> Nothing]
    /\ failed = [t \in Tasks |-> FALSE]

-----------------------------------------------------------------------------
(* Helpers. *)

MayFail(call) == call \in Failing
Goto(p, label) == pc' = [pc EXCEPT ![p] = label]
Store(t, row) == task' = [task EXCEPT ![t] = row]
FirstOf(S, n) == {t \in S : Cardinality({u \in S : u < t}) < n}
Outside == UNCHANGED <<sub, up, late, charged>>

(* The queries of the sweep and of the round. *)
Unfinished == {t \in Tasks : task[t].status \notin Final \cup {"absent"} /\ ~task[t].full}
(* The bug: tasks that were never seen running are not swept. *)
TimedOutRunning == {t \in Unfinished : late[t] /\ task[t].status = "IN_PROGRESS"}
TimedOut == {t \in Unfinished : late[t]}

(* The status the upstream reported, with its progress: the adaptors        *)
(* report 100% with a final status only. The lookup sets these two columns, *)
(* the sweep and the poller also the reason of a failure.                   *)
Reported(row, status) == [row EXCEPT !.status = status, !.full = status \in Final]
Moved(row, status) == [Reported(row, status) EXCEPT !.reason = row.reason \/ status = "FAILURE"]

(* UpdateWithStatus finds the row in the status of the copy and writes the  *)
(* whole copy. The bug: the row is written whatever its status is.          *)
WinsAlways(t, row) == TRUE
Wins(t, row) == task[t].status = row.status

(* Copies of rows that are not used any more are forgotten. *)
Forget(p, T) == copy' = [copy EXCEPT ![p] = [t \in Tasks |-> IF t \in T THEN NoRow ELSE copy[p][t]]]

(* The poller is done with row t and goes on at label. *)
DoneWith(p, t, label) ==
    /\ Forget(p, {t})
    /\ job' = [job EXCEPT ![p] = NoJob]
    /\ Goto(p, label)

-----------------------------------------------------------------------------
(* Submission, and the world outside. *)

(* SettleBilling moves the pre-consumed amount pre to the quota q. The     *)
(* funding source fails: nothing is moved; the token fails: only it stays  *)
(* at pre. RelayTask logs either error.                                    *)
Settled(pre, q) ==
    {[funding |-> q, token |-> q]}
    \cup (IF MayFail("funding") THEN {[funding |-> pre, token |-> pre]} ELSE {})
    \cup (IF MayFail("token") THEN {[funding |-> q, token |-> pre]} ELSE {})

(* RelayTask succeeded: the request is settled, and task.Quota is its      *)
(* quota whether that worked or not; the row exists only in memory.        *)
Submit(t) ==
    /\ sub[t] = "idle"
    /\ \A u \in Tasks : u < t => sub[u] # "idle"
    /\ \E pre, q \in Quotas, pf \in Platforms, id \in IdKnown,
          price \in Prices, day \in SubmitDays :
          /\ Store(t, [NoRow EXCEPT !.quota = q, !.platform = pf, !.hasId = id,
                                    !.price = price, !.day = day])
          /\ \E amount \in Settled(pre, q) :
                /\ charged' = [charged EXCEPT ![t] = amount]
                /\ paid' = [paid EXCEPT ![t] = amount]
    /\ sub' = [sub EXCEPT ![t] = "settled"]
    /\ UNCHANGED <<up, late, pc, local, look, looks, failed>>

(* task.Insert(); an error is only logged. A restart of the node before it *)
(* has the same effect.                                                    *)
Insert(t) ==
    /\ sub[t] = "settled"
    /\ \/ /\ Store(t, [task[t] EXCEPT !.status = "NOT_START"])
          /\ sub' = [sub EXCEPT ![t] = "inserted"]
       \/ /\ MayFail("insert")
          /\ sub' = [sub EXCEPT ![t] = "lost"]
          /\ UNCHANGED task
    /\ UNCHANGED <<up, late, pc, local, look, looks, charged, paid, failed>>

UpstreamEnds(t) ==
    /\ sub[t] # "idle" /\ up[t] = "IN_PROGRESS"
    /\ \E s \in Final : up' = [up EXCEPT ![t] = s]
    /\ UNCHANGED <<task, sub, late, pc, local, look, looks, charged, paid, failed>>

GrowOld(t) ==
    /\ Timeouts /\ sub[t] # "idle" /\ ~late[t]
    /\ late' = [late EXCEPT ![t] = TRUE]
    /\ UNCHANGED <<task, sub, up, pc, local, look, looks, charged, paid, failed>>

(* What FetchTask and ParseTaskResult may come back with: the state of the *)
(* job, nothing (a network error, a 429), or an error body, which counts   *)
(* as a failure of the task.                                               *)
Said(t) == {up[t], "none"} \cup (IF MayFail("upstream") THEN {"FAILURE"} ELSE {})

-----------------------------------------------------------------------------
(* sweepTimedOutTasks. *)

PollBegin(p) ==
    /\ pc[p] = "idle"
    /\ work' = [work EXCEPT ![p] = IF Timeouts THEN FirstOf(TimedOut, SweepLimit) ELSE {}]
    /\ copy' = [copy EXCEPT ![p] = [t \in Tasks |-> IF t \in work'[p] THEN task[t] ELSE NoRow]]
    /\ Goto(p, "sweep")
    /\ Outside
    /\ UNCHANGED <<task, group, job, look, looks, paid, failed>>

Legacy(row) == row.day > 0 /\ row.day < LegacyCutoffDay

(* Row t is billed next, then p goes on at label. *)
Bill(p, t, step, label) ==
    /\ job' = [job EXCEPT ![p] = [NoJob EXCEPT !.id = t, !.back = label]]
    /\ Goto(p, step)
    /\ UNCHANGED copy

(* One row of the sweep: UpdateWithStatus, and the refund for the winner. *)
SweepTask(p, t) ==
    /\ pc[p] = "sweep" /\ t \in work[p]
    /\ \A u \in work[p] : t <= u
    /\ \/ /\ Wins(t, copy[p][t])
          /\ Store(t, Moved(copy[p][t], "FAILURE"))
          /\ IF ~Legacy(copy[p][t]) /\ copy[p][t].quota # 0
               THEN Bill(p, t, "refundFunding", "sweep")
               ELSE DoneWith(p, t, "sweep")
       \/ /\ ~Wins(t, copy[p][t]) \/ MayFail("cas")
          /\ UNCHANGED task
          /\ DoneWith(p, t, "sweep")
    /\ work' = [work EXCEPT ![p] = work[p] \ {t}]
    /\ Outside
    /\ UNCHANGED <<group, look, looks, paid, failed>>

-----------------------------------------------------------------------------
(* TaskPollingLoop. *)

(* GetAllUnFinishSyncTasks. *)
ListTasks(p) ==
    /\ pc[p] = "sweep" /\ work[p] = {}
    /\ work' = [work EXCEPT ![p] = FirstOf(Unfinished, QueryLimit)]
    /\ copy' = [copy EXCEPT ![p] = [t \in Tasks |-> IF t \in work'[p] THEN task[t] ELSE NoRow]]
    /\ Goto(p, "list")
    /\ Outside
    /\ UNCHANGED <<task, group, job, look, looks, paid, failed>>

(* TaskBulkUpdateByID: no compare-and-swap, no billing, or an error.       *)
(* why: whether it gives a reason.                                         *)
BulkFail(T, why) ==
    \/ task' = [t \in Tasks |-> IF t \in T
                                  THEN [task[t] EXCEPT !.status = "FAILURE", !.full = TRUE,
                                                       !.reason = task[t].reason \/ why]
                                  ELSE task[t]]
    \/ MayFail("bulk") /\ UNCHANGED task

(* One platform, the rows of which belong to one channel: rows without an  *)
(* upstream id (left by earlier versions) are failed in bulk.              *)
FixNullIds(p) ==
    /\ pc[p] = "list"
    /\ \E pf \in {copy[p][t].platform : t \in work[p]} :
         LET rows == {t \in work[p] : copy[p][t].platform = pf}
             null == {t \in rows : ~copy[p][t].hasId}
         IN /\ BulkFail(null, FALSE)
            /\ work' = [work EXCEPT ![p] = work[p] \ rows]
            /\ group' = [group EXCEPT ![p] = rows \ null]
            /\ Forget(p, null)
    /\ Goto(p, "channel")
    /\ Outside
    /\ UNCHANGED <<job, look, looks, paid, failed>>

RoundEnds(p) ==
    /\ pc[p] = "list" /\ work[p] = {}
    /\ Goto(p, "idle")
    /\ Outside
    /\ UNCHANGED <<task, local, look, looks, paid, failed>>

(* CacheGetChannel: rows whose channel is gone are failed in bulk. *)
LoadChannel(p) ==
    /\ pc[p] = "channel"
    /\ \/ /\ Goto(p, "update")
          /\ UNCHANGED <<task, group, copy>>
       \/ /\ ChannelsVanish
          /\ BulkFail(group[p], TRUE)
          /\ group' = [group EXCEPT ![p] = {}]
          /\ Forget(p, group[p])
          /\ Goto(p, "list")
    /\ Outside
    /\ UNCHANGED <<work, job, look, looks, paid, failed>>

GroupEnds(p) ==
    /\ pc[p] = "update" /\ group[p] = {}
    /\ Goto(p, "list")
    /\ Outside
    /\ UNCHANGED <<task, local, look, looks, paid, failed>>

(* FetchTask for one row: nothing usable leaves it for the next round. *)
AskUpstream(p, t) ==
    /\ pc[p] = "update" /\ t \in group[p]
    /\ \E s \in Said(t) :
         \/ s = "none" /\ DoneWith(p, t, "update")
         \/ /\ s # "none"
            /\ job' = [job EXCEPT ![p] = [NoJob EXCEPT !.id = t, !.answer = s]]
            /\ Goto(p, "apply")
            /\ UNCHANGED copy
    /\ group' = [group EXCEPT ![p] = group[p] \ {t}]
    /\ Outside
    /\ UNCHANGED <<task, work, look, looks, paid, failed>>

(* settleTaskBillingOnComplete has a difference to settle. *)
NeedsSettle(row) == row.price > 0 /\ row.price # row.quota

(* updateVideoSingleTask after the answer: compare-and-swap from the       *)
(* status of the copy; only the winner bills.                              *)
UpdateVideoSingleTask(p) ==
    LET t == job[p].id
        row == copy[p][t]
        s == job[p].answer
        shouldSettle == s = "SUCCESS" /\ NeedsSettle(row)
        shouldRefund == s = "FAILURE" /\ row.quota # 0
    IN /\ pc[p] = "apply" /\ row.platform # "suno"
       /\ \/ /\ Wins(t, row)
             /\ Store(t, Moved(row, s))
             /\ \/ shouldSettle /\ Bill(p, t, "settleFunding", "update")
                \/ shouldRefund /\ Bill(p, t, "refundFunding", "update")
                \/ ~shouldSettle /\ ~shouldRefund /\ DoneWith(p, t, "update")
          \/ /\ ~Wins(t, row) \/ MayFail("cas")
             /\ UNCHANGED task
             /\ DoneWith(p, t, "update")
       /\ Outside
       /\ UNCHANGED <<work, group, look, looks, paid, failed>>

(* updateSunoTasks after the answer, which covers the whole group: one row. *)
(* A failure, or any fail reason, is refunded first and saved afterwards.   *)
SunoRow(row, s, reason) ==
    [row EXCEPT !.status = s, !.reason = row.reason \/ reason,
                !.full = row.full \/ reason \/ s \in Final]

(* taskNeedsUpdate is true of a new status or reason; times and data, which *)
(* the model leaves out, may make it true as well.                          *)
UpdateSunoTask(p) ==
    LET t == job[p].id
        row == copy[p][t]
        s == job[p].answer
    IN /\ pc[p] = "apply" /\ row.platform = "suno"
       /\ \E reason \in BOOLEAN :
            \/ /\ copy' = [copy EXCEPT ![p][t] = SunoRow(row, s, reason)]
               /\ job' = [job EXCEPT ![p].back = "save"]
               /\ Goto(p, IF (reason \/ s = "FAILURE") /\ row.quota # 0
                           THEN "refundFunding" ELSE "save")
            \/ /\ s = row.status /\ reason = row.reason
               /\ DoneWith(p, t, "update")
       /\ Outside
       /\ UNCHANGED <<task, work, group, look, looks, paid, failed>>

(* task.Update(): the whole row, whatever its status is by now. *)
SaveSuno(p) ==
    /\ pc[p] = "save"
    /\ \/ Store(job[p].id, copy[p][job[p].id])
       \/ MayFail("save") /\ UNCHANGED task
    /\ DoneWith(p, job[p].id, "update")
    /\ Outside
    /\ UNCHANGED <<work, group, look, looks, paid, failed>>

-----------------------------------------------------------------------------
(* RefundTaskQuota and RecalculateTaskQuota: the funding source, and the   *)
(* token only when that worked.                                            *)

Pay(t, column, n) == paid' = [paid EXCEPT ![t][column] = paid[t][column] + n]
MarkFailed(t) == failed' = [failed EXCEPT ![t] = TRUE]

(* Billing is over: a Suno row is still to be saved. *)
Billed(p) ==
    \/ job[p].back = "save" /\ Goto(p, "save") /\ UNCHANGED <<copy, job>>
    \/ job[p].back # "save" /\ DoneWith(p, job[p].id, job[p].back)

AdjustFunding(p, n, next) ==
    /\ \/ Pay(job[p].id, "funding", n) /\ Goto(p, next) /\ UNCHANGED <<copy, job, failed>>
       \/ MayFail("funding") /\ MarkFailed(job[p].id) /\ Billed(p) /\ UNCHANGED paid
    /\ Outside
    /\ UNCHANGED <<task, work, group, look, looks>>

(* taskAdjustTokenQuota: a deleted token or an error is skipped. *)
AdjustToken(p, n) ==
    /\ \/ Pay(job[p].id, "token", n) /\ UNCHANGED failed
       \/ MayFail("token") /\ MarkFailed(job[p].id) /\ UNCHANGED paid
    /\ Billed(p)
    /\ Outside
    /\ UNCHANGED <<task, work, group, look, looks>>

RefundAmount(p) == - copy[p][job[p].id].quota
(* The bug: the price is charged on top of what was pre-consumed. *)
SettleWhole(p) == copy[p][job[p].id].price
SettleAmount(p) == copy[p][job[p].id].price - copy[p][job[p].id].quota

RefundFunding(p) == pc[p] = "refundFunding" /\ AdjustFunding(p, RefundAmount(p), "refundToken")
RefundToken(p) == pc[p] = "refundToken" /\ AdjustToken(p, RefundAmount(p))
SettleFunding(p) == pc[p] = "settleFunding" /\ AdjustFunding(p, SettleAmount(p), "settleToken")
SettleToken(p) == pc[p] = "settleToken" /\ AdjustToken(p, SettleAmount(p))

-----------------------------------------------------------------------------
(* tryRealtimeFetch: a user's lookup asks the upstream and writes the      *)
(* status back, for Gemini and Vertex tasks in whatever status; it bills   *)
(* nothing.                                                                *)

LookRead(f, t) ==
    /\ look[f].step = "idle" /\ looks < MaxLooks
    /\ task[t].status # "absent" /\ task[t].platform = "gemini"
    /\ look' = [look EXCEPT ![f] = [NoLook EXCEPT !.step = "ask", !.id = t, !.row = task[t]]]
    /\ looks' = looks + 1
    /\ Outside
    /\ UNCHANGED <<task, pc, local, paid, failed>>

LookAsk(f) ==
    /\ look[f].step = "ask"
    /\ \E s \in Said(look[f].id) :
         look' = [look EXCEPT ![f] = IF s = "none" THEN NoLook
                                     ELSE [look[f] EXCEPT !.step = "write", !.answer = s]]
    /\ Outside
    /\ UNCHANGED <<task, pc, local, looks, paid, failed>>

LookWrite(f) ==
    LET t == look[f].id
        row == look[f].row
    IN /\ look[f].step = "write"
       /\ \/ /\ Wins(t, row)
             /\ Store(t, Reported(row, look[f].answer))
          \/ /\ ~Wins(t, row) \/ MayFail("cas")
             /\ UNCHANGED task
       /\ look' = [look EXCEPT ![f] = NoLook]
       /\ Outside
       /\ UNCHANGED <<pc, local, looks, paid, failed>>

-----------------------------------------------------------------------------
(* A master node restarts: its loop begins a new round. *)
Crash(p) ==
    /\ Crashes
    /\ pc[p] # "idle"
    /\ failed' = [t \in Tasks |-> failed[t] \/ (pc[p] \in Billing /\ job[p].id = t)]
    /\ work' = [work EXCEPT ![p] = {}]
    /\ group' = [group EXCEPT ![p] = {}]
    /\ copy' = [copy EXCEPT ![p] = [t \in Tasks |-> NoRow]]
    /\ job' = [job EXCEPT ![p] = NoJob]
    /\ Goto(p, "idle")
    /\ Outside
    /\ UNCHANGED <<task, look, looks, paid>>

PollerStep(p) ==
    \/ PollBegin(p) \/ ListTasks(p) \/ FixNullIds(p) \/ RoundEnds(p) \/ LoadChannel(p)
    \/ GroupEnds(p) \/ UpdateVideoSingleTask(p) \/ UpdateSunoTask(p) \/ SaveSuno(p)
    \/ RefundFunding(p) \/ RefundToken(p) \/ SettleFunding(p) \/ SettleToken(p)
    \/ \E t \in Tasks : SweepTask(p, t) \/ AskUpstream(p, t)

LookStep(f) == LookAsk(f) \/ LookWrite(f) \/ \E t \in Tasks : LookRead(f, t)

Next ==
    \/ \E t \in Tasks : Submit(t) \/ Insert(t) \/ UpstreamEnds(t) \/ GrowOld(t)
    \/ \E p \in Pollers : PollerStep(p) \/ Crash(p)
    \/ \E f \in Fetchers : LookStep(f)

Spec == Init /\ [][Next]_vars

(* The loop of a node goes on, a submission reaches its insert, and time   *)
(* passes. The upstream owes nothing: it may never answer and never end.   *)
Fairness ==
    /\ \A p \in Pollers : WF_vars(PollerStep(p))
    /\ \A t \in Tasks : WF_vars(Insert(t)) /\ WF_vars(GrowOld(t))

FairSpec == Spec /\ Fairness

-----------------------------------------------------------------------------
(* Properties. *)

Paid == [funding : Int, token : Int]

(* Types, and: a poller that applies an answer, bills or saves works on a  *)
(* row it has read.                                                        *)
TypeOK ==
    /\ task \in [Tasks -> Row]
    /\ sub \in [Tasks -> {"idle", "settled", "inserted", "lost"}]
    /\ up \in [Tasks -> {"IN_PROGRESS"} \cup Final]
    /\ late \in [Tasks -> BOOLEAN]
    /\ pc \in [Pollers -> PollerLabels]
    /\ work \in [Pollers -> SUBSET Tasks]
    /\ group \in [Pollers -> SUBSET Tasks]
    /\ copy \in [Pollers -> [Tasks -> Row]]
    /\ job \in [Pollers -> [id : Tasks \cup {0}, answer : Answers,
                             back : {"idle", "sweep", "update", "save"}]]
    /\ look \in [Fetchers -> [step : {"idle", "ask", "write"}, row : Row,
                              id : Tasks \cup {0}, answer : Answers]]
    /\ looks \in 0 .. MaxLooks
    /\ charged \in [Tasks -> Paid]
    /\ paid \in [Tasks -> Paid]
    /\ failed \in [Tasks -> BOOLEAN]
    /\ \A p \in Pollers : pc[p] \in Billing \cup {"apply", "save"} =>
          job[p].id \in Tasks /\ copy[p][job[p].id].status # "absent"

(* No row is failed in bulk: its channel and its upstream id are there. *)
NoBulk == ~ChannelsVanish /\ IdKnown \subseteq {TRUE}

(* Nothing but the winner of a compare-and-swap bills a row or takes it    *)
(* out of a final status: no Suno rows, which are saved whole, and no      *)
(* lookups of Gemini tasks.                                                *)
WinnersOnly ==
    /\ "suno" \notin Platforms
    /\ "gemini" \notin Platforms \/ Fetchers = {}

(* The rows are written by the compare-and-swap of the sweep and of the    *)
(* video poller alone.                                                     *)
SwapsOnly == WinnersOnly /\ NoBulk

(* RefundTaskQuota and RecalculateTaskQuota together give back at most the *)
(* quota of the row, in the funding source and in the token, however many  *)
(* nodes sweep and poll the task; where the settlement of the submission   *)
(* worked, that is at most what the task was charged.                      *)
RefundedAtMostOnce ==
    /\ TypeOK
    /\ \A t \in Tasks : /\ charged[t].funding - paid[t].funding <= task[t].quota
                         /\ charged[t].token - paid[t].token <= task[t].quota

(* What a task costs by its row: nothing when it failed (or, for Suno, was *)
(* given a fail reason), its re-computed price when it succeeded and is    *)
(* not billed per call, and what it was charged at submission otherwise.   *)
Cost(row) ==
    IF row.status = "FAILURE" \/ (row.platform = "suno" /\ row.reason) THEN 0
    ELSE IF row.status = "SUCCESS" /\ row.platform # "suno" /\ NeedsSettle(row) THEN row.price
    ELSE row.quota

(* Once no poller is billing a task, what its user and its token paid has  *)
(* been moved from the charge of its submission by exactly the difference  *)
(* between what its row says it costs and the quota of the row, unless a   *)
(* billing call of the poller failed: it is the cost itself where the      *)
(* settlement of the submission worked. Legacy tasks may keep their charge *)
(* when they time out.                                                     *)
ExactTaskCharge ==
    \A t \in Tasks :
      LET moved == Cost(task[t]) - task[t].quota
      IN \/ failed[t]
         \/ \E p \in Pollers : job[p].id = t /\ pc[p] \in Billing \cup {"save"}
         \/ Legacy(task[t]) /\ task[t].status = "FAILURE"
         \/ paid[t] = [funding |-> charged[t].funding + moved,
                       token |-> charged[t].token + moved]

(* No sweep and no poll of a video task, from whatever old copy of its     *)
(* row, moves it out of SUCCESS or FAILURE: its user has been told the     *)
(* outcome. (A user's lookup of a Gemini task may: there are none here.)   *)
TerminalIsFinal ==
    [][\A t \in Tasks : task[t].status \in Final => task'[t].status = task[t].status]_vars

(* Every task that was recorded stops being polled, even when the upstream *)
(* never answers: sweepTimedOutTasks gets to it.                           *)
TasksEnd == \A t \in Tasks : sub[t] = "inserted" ~> task[t].full
=============================================================================
