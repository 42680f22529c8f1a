----------------------------- MODULE QuotaLedger -----------------------------
(***************************************************************************)
(* The quota columns of one user and one of its tokens (model/user.go,     *)
(* model/token.go), the batch updater of a process that collects changes   *)
(* in memory and writes them every few seconds (model/utils.go), and the   *)
(* copies of users.quota and tokens.remain_quota in Redis                  *)
(* (model/user_cache.go, model/token_cache.go, common/redis.go).           *)
(*                                                                         *)
(* Every change answers its caller before it is in the database and leaves *)
(* the Redis copy to a goroutine; every read of the database leaves the    *)
(* copy to a goroutine as well.  These goroutines run in any order.        *)
(* Whoever edits a user or a token writes the quota back as it was read    *)
(* before, and some set it to a value of their own.                        *)
(***************************************************************************)
EXTENDS Integers, FiniteSets

CONSTANTS
    Deltas,         \* what a call adds to a column
    QuotaInit,      \* the columns at the start
    Values,         \* what an administrator or an owner sets a quota to
    Gifts,          \* what an affiliate moves to the quota
    Batching,       \* common.BatchUpdateEnabled
    RedisEnabled,   \* common.RedisEnabled
    MaxChanges,     \* bound on the number of changes
    MaxReads,       \* bound on the number of reads for a copy or an editor
    WritesFail,     \* whether a write may fail
    Crashes         \* whether the process may crash

ASSUME LedgerAssumption ==
    /\ Deltas \subseteq Int
    /\ QuotaInit \in Int /\ Values \subseteq Int /\ Gifts \subseteq Int
    /\ Batching \in BOOLEAN /\ RedisEnabled \in BOOLEAN
    /\ MaxChanges \in Nat /\ MaxReads \in Nat
    /\ WritesFail \in BOOLEAN /\ Crashes \in BOOLEAN

(* users.quota, users.used_quota and tokens.remain_quota; channels' used   *)
(* quota is written like the token's, the request count like used_quota.   *)
UserColumns == {"quota", "used"}
Columns == UserColumns \cup {"remain"}
(* The columns that Redis has a copy of. *)
Copied == {"quota", "remain"}
(* The order of the batch types, and BatchUpdateTypeCount.  The bug: a     *)
(* type was added and the count was not.                                   *)
TypeOrder == <<"quota", "remain", "used">>
TypeCountOld == 2
TypeCount == 3

VARIABLES
    db,       \* the columns
    store,    \* batchUpdateStores
    batch,    \* the stores that batchUpdate has swapped out
    pc,       \* where the updater is
    at,       \* the batch type it looks at
    copy,     \* the Redis copies
    jobs,     \* goroutines that update a copy
    held,     \* the editors that have read a row and not written it yet
    profile,  \* the columns as each editor has read them
    changes,  \* number of changes so far
    reads,    \* number of reads so far
    asked,    \* history: sum of the changes of each column that were asked for
    lost      \* history: changes lost by a crash, a failed write or a stale row

ledger == <<db, store, batch, pc, at>>
redis == <<copy, jobs>>
editing == <<held, profile>>
history == <<changes, reads, asked, lost>>
vars == <<ledger, redis, editing, history>>

Zero == [c \in Columns |-> 0]
NoCopy == [live |-> FALSE, ttl |-> FALSE, value |-> 0]

(* Who edits: User.Update writes the fields that are not zero, DB.Save     *)
(* every field of a user, Token.Update the quota of a token.               *)
Editors == {"user", "save", "token"}

(* A goroutine: id tells equal ones apart; "check" comes before the time   *)
(* to live of the key was read, "exec" after it was found positive.        *)
JobKinds == {"incr", "set", "fill"}
JobSteps == {"check", "exec"}

Init ==
    /\ db = [c \in Columns |-> QuotaInit]
    /\ store = Zero /\ batch = Zero
    /\ pc = "sleep" /\ at = 1
    /\ copy = [c \in Copied |-> NoCopy]
    /\ jobs = {}
    /\ held = {} /\ profile = [e \in Editors |-> Zero]
    /\ changes = 0 /\ reads = 0
    /\ asked = Zero /\ lost = Zero

Add(f, c, d) == [f EXCEPT ![c] = f[c] + d]

(* gopool.Go *)
Spawn(kind, step, c, v) ==
    jobs' = IF RedisEnabled
              THEN jobs \cup {[id |-> changes + reads, kind |-> kind, step |-> step,
                               column |-> c, value |-> v]}
              ELSE jobs

-----------------------------------------------------------------------------
(* Changes. *)

(* addNewRecord.  An entry whose changes cancel out is as good as none: it *)
(* is written as an addition of 0.                                         *)
(* The bug: the entry is replaced.                                         *)
AddNewRecordReplace(c, d) ==
    /\ store' = [store EXCEPT ![c] = d]
    /\ UNCHANGED <<db, lost>>
AddNewRecord(c, d) ==
    /\ store' = Add(store, c, d)
    /\ UNCHANGED <<db, lost>>

(* An error leaves the column, although the goroutine has been started. *)
WriteThrough(c, d) ==
    /\ \/ db' = Add(db, c, d) /\ UNCHANGED lost
       \/ WritesFail /\ lost' = Add(lost, c, d) /\ UNCHANGED db
    /\ UNCHANGED store

(* IncreaseUserQuota, DecreaseUserQuota, IncreaseTokenQuota,               *)
(* DecreaseTokenQuota, UpdateUserUsedQuotaAndRequestCount: the copy is     *)
(* left to a goroutine, the column to the batch updater, if there is one   *)
(* and the caller does not insist on the database (top-ups, other nodes).  *)
Change(c, d) ==
    /\ changes < MaxChanges
    /\ changes' = changes + 1
    /\ \/ Batching /\ AddNewRecord(c, d)
       \/ (~Batching \/ c = "quota") /\ WriteThrough(c, d)
    /\ IF c \in Copied THEN Spawn("incr", "check", c, d) ELSE UNCHANGED jobs
    /\ asked' = Add(asked, c, d)
    /\ UNCHANGED <<batch, pc, at, copy, editing, reads>>

-----------------------------------------------------------------------------
(* batchUpdate. *)

(* The first loop: is there anything to do?  A store that was empty when   *)
(* it was looked at waits for the next round.                              *)
CheckData ==
    /\ Batching /\ pc = "sleep"
    /\ \/ /\ store[TypeOrder[at]] # 0
          /\ pc' = "swap" /\ at' = 1
       \/ /\ store[TypeOrder[at]] = 0
          /\ at' = IF at < TypeCount THEN at + 1 ELSE 1
          /\ UNCHANGED pc
    /\ UNCHANGED <<db, store, batch, redis, editing, history>>

(* The bug: the store that was swapped out is not replaced by an empty one. *)
EmptiedNever(c) == store
Emptied(c) == [store EXCEPT ![c] = 0]

(* The second loop: each store is swapped out under its own lock. *)
SwapStore ==
    LET c == TypeOrder[at]
    IN /\ pc = "swap"
       /\ batch' = [batch EXCEPT ![c] = store[c]]
       /\ store' = Emptied(c)
       /\ at' = IF at < TypeCount THEN at + 1 ELSE 1
       /\ pc' = IF at < TypeCount THEN "swap" ELSE "token"
       /\ UNCHANGED <<db, redis, editing, history>>

(* One UPDATE of the columns S, or an error, which is only logged. *)
WriteBatch(S) ==
    /\ \/ /\ db' = [c \in Columns |-> IF c \in S THEN db[c] + batch[c] ELSE db[c]]
          /\ UNCHANGED lost
       \/ /\ WritesFail
          /\ lost' = [c \in Columns |-> IF c \in S THEN lost[c] + batch[c] ELSE lost[c]]
          /\ UNCHANGED db
    /\ batch' = [c \in Columns |-> IF c \in S THEN 0 ELSE batch[c]]

(* increaseTokenQuota. *)
WriteToken ==
    /\ pc = "token"
    /\ WriteBatch({"remain"})
    /\ pc' = "user"
    /\ UNCHANGED <<store, at, redis, editing, changes, reads, asked>>

(* updateUserQuotaUsedQuotaAndRequestCount: one UPDATE for the user.       *)
WriteUser ==
    /\ pc = "user"
    /\ WriteBatch(UserColumns)
    /\ pc' = "sleep"
    /\ UNCHANGED <<store, at, redis, editing, changes, reads, asked>>

-----------------------------------------------------------------------------
(* The copies in Redis. *)

(* GetUserCache and GetTokenByKey when the key is not there: the row is    *)
(* read now and the whole hash written later, without a condition.         *)
ReadMiss(c) ==
    /\ RedisEnabled /\ ~copy[c].live
    /\ reads < MaxReads /\ reads' = reads + 1
    /\ Spawn("fill", "exec", c, db[c])
    /\ UNCHANGED <<ledger, copy, editing, changes, asked, lost>>

(* GetUserQuota(fromDB) sets one field if the key is there; GetTokenById   *)
(* writes the whole hash.                                                  *)
ReadDatabase(c) ==
    /\ RedisEnabled
    /\ reads < MaxReads /\ reads' = reads + 1
    /\ \/ c = "quota" /\ Spawn("set", "check", c, db[c])
       \/ c = "remain" /\ Spawn("fill", "exec", c, db[c])
    /\ UNCHANGED <<ledger, copy, editing, changes, asked, lost>>

(* RedisHIncrBy and RedisHSetField, the first half: only a key that has a  *)
(* time to live is changed.                                                *)
CheckTTL(j) ==
    /\ j.step = "check"
    /\ jobs' = (jobs \ {j}) \cup
                 (IF copy[j.column].ttl THEN {[j EXCEPT !.step = "exec"]} ELSE {})
    /\ UNCHANGED <<ledger, copy, editing, history>>

(* The second half, in a transaction of Redis that sets the time to live   *)
(* again.  The key may have expired in between: HINCRBY then starts from 0 *)
(* and creates it anew.  The bug: the transaction does not set the time to *)
(* live.                                                                   *)
WrittenOnly(j) ==
    [live |-> TRUE,
     ttl |-> copy[j.column].ttl \/ j.kind = "fill",
     value |-> IF j.kind = "incr" THEN copy[j.column].value + j.value ELSE j.value]
Written(j) ==
    [live |-> TRUE,
     ttl |-> TRUE,
     value |-> IF j.kind = "incr" THEN copy[j.column].value + j.value ELSE j.value]

Exec(j) ==
    /\ j.step = "exec"
    /\ copy' = [copy EXCEPT ![j.column] = Written(j)]
    /\ jobs' = jobs \ {j}
    /\ UNCHANGED <<ledger, editing, history>>

(* The time to live of a key runs out. *)
Expire(c) ==
    /\ copy[c].ttl
    /\ copy' = [copy EXCEPT ![c] = NoCopy]
    /\ UNCHANGED <<ledger, jobs, editing, history>>

-----------------------------------------------------------------------------
(* Handlers that edit a user or a token: settings, bindings and groups     *)
(* (User.Update), invitations (inviteUser) and TransferAffQuotaToQuota     *)
(* (both Save), the status of a token (Token.Update).                      *)

(* GetUserById, the transaction's First, GetTokenByIds. *)
ReadRow(e) ==
    /\ reads < MaxReads /\ reads' = reads + 1
    /\ e \notin held
    /\ held' = held \cup {e}
    /\ profile' = [profile EXCEPT ![e] = db]
    /\ UNCHANGED <<ledger, redis, changes, asked, lost>>

(* The columns that the editor's UPDATE sets. *)
Restored(e, c) ==
    \/ e = "user" /\ c \in UserColumns /\ profile[e][c] # 0
    \/ e = "save" /\ c \in UserColumns
    \/ e = "token" /\ c = "remain"

(* What the editor adds on purpose: the affiliate's quota. *)
Gift(e, g, c) == IF e = "save" /\ c = "quota" THEN g ELSE 0

Saved(e, g) ==
    [c \in Columns |-> (IF Restored(e, c) THEN profile[e][c] ELSE db[c]) + Gift(e, g, c)]

(* The row, then the copy.  Changes that reached the database since the    *)
(* row was read are undone.                                                *)
SaveRow(e, g) ==
    /\ e \in held /\ held' = held \ {e}
    /\ db' = Saved(e, g)
    /\ lost' = [c \in Columns |->
                  IF Restored(e, c) THEN lost[c] + db[c] - profile[e][c] ELSE lost[c]]
    /\ asked' = [c \in Columns |-> asked[c] + Gift(e, g, c)]
    /\ \/ e = "user" /\ Spawn("fill", "exec", "quota", Saved(e, g)["quota"])
       \/ e = "token" /\ Spawn("fill", "exec", "remain", Saved(e, g)["remain"])
       \/ e = "save" /\ UNCHANGED jobs
    /\ UNCHANGED <<store, batch, pc, at, copy, profile, changes, reads>>

(* A check of the handler, or its write, fails. *)
GiveUp(e) ==
    /\ e \in held /\ held' = held \ {e}
    /\ UNCHANGED <<ledger, redis, profile, history>>

(* ManageUser's override, and the form of UpdateToken: the column is set   *)
(* to a value.  What the batch updater still has is added to it later.     *)
Overwrite(c, v) ==
    /\ changes < MaxChanges /\ changes' = changes + 1
    /\ db' = [db EXCEPT ![c] = v]
    /\ asked' = Add(asked, c, v - db[c])
    /\ \/ c = "quota" /\ UNCHANGED jobs
       \/ c = "remain" /\ Spawn("fill", "exec", c, v)
    /\ UNCHANGED <<store, batch, pc, at, copy, editing, reads, lost>>

-----------------------------------------------------------------------------
(* The process dies: the stores, the batch and the goroutines are gone. *)
Crash ==
    /\ Crashes
    /\ lost' = [c \in Columns |-> lost[c] + store[c] + batch[c]]
    /\ store' = Zero /\ batch' = Zero
    /\ pc' = "sleep" /\ at' = 1
    /\ jobs' = {} /\ held' = {}
    /\ UNCHANGED <<db, copy, profile, changes, reads, asked>>

UpdaterStep == CheckData \/ SwapStore \/ WriteToken \/ WriteUser
JobStep == \E j \in jobs : CheckTTL(j) \/ Exec(j)

Next ==
    \/ \E c \in Columns, d \in Deltas : Change(c, d)
    \/ UpdaterStep
    \/ \E c \in Copied : ReadMiss(c) \/ ReadDatabase(c) \/ Expire(c)
    \/ JobStep
    \/ \E e \in Editors :
         ReadRow(e) \/ GiveUp(e) \/ \E g \in Gifts \cup {0} : SaveRow(e, g)
    \/ \E c \in Copied, v \in Values : Overwrite(c, v)
    \/ Crash

Spec == Init /\ [][Next]_vars

(* The updater wakes up again and again, goroutines run, and keys expire.  *)
(* Nobody has to call the ledger.                                          *)
Fairness ==
    /\ WF_vars(UpdaterStep)
    /\ WF_vars(JobStep)
    /\ \A c \in Copied : WF_vars(Expire(c))

FairSpec == Spec /\ Fairness

-----------------------------------------------------------------------------
(* Properties. *)

(* Types, and: only between its swap and its last write does the updater   *)
(* hold changes.                                                           *)
TypeOK ==
    /\ db \in [Columns -> Int]
    /\ store \in [Columns -> Int] /\ batch \in [Columns -> Int]
    /\ pc \in {"sleep", "swap", "token", "user"}
    /\ at \in 1 .. 3
    /\ copy \in [Copied -> [live : BOOLEAN, ttl : BOOLEAN, value : Int]]
    /\ jobs \subseteq [id : Nat, kind : JobKinds, step : JobSteps, column : Copied, value : Int]
    /\ held \subseteq Editors
    /\ profile \in [Editors -> [Columns -> Int]]
    /\ changes \in Nat /\ reads \in Nat
    /\ asked \in [Columns -> Int] /\ lost \in [Columns -> Int]
    /\ pc = "sleep" => batch = Zero

(* Nothing is counted twice and nothing disappears: every change that was  *)
(* asked for (addNewRecord, increaseUserQuota, an override, an affiliate's *)
(* transfer) is in the database, in a store, in the batch being written    *)
(* (batchUpdate), or was lost by a crash, by a failed write, or because    *)
(* User.Update, DB.Save or Token.Update wrote back what it had read        *)
(* before the change.                                                      *)
LedgerBalance ==
    /\ TypeOK
    /\ \A c \in Columns :
        db[c] + store[c] + batch[c] + lost[c] = QuotaInit + asked[c]

(* The ledger implements the buffered counter it promises: the loops of    *)
(* batchUpdate, store by store and write by write, neither lose nor repeat *)
(* a change, whatever comes between their steps, and an editor undoes what *)
(* was written since it read the row and nothing older.                    *)
Counter == INSTANCE BufferedCounter
             WITH durable <- db, collected <- store, underway <- batch,
                  editors <- held, read <- profile

ImplementsCounter == Counter!Spec

(* When no more changes come, batchUpdate brings all of them to the        *)
(* database and leaves nothing behind.                                     *)
AllWritten == <>[](store = Zero /\ batch = Zero)

(* Whatever order the goroutines of IncreaseUserQuota, GetUserQuota and    *)
(* GetTokenById run in, and even if RedisHIncrBy revives a key that has    *)
(* expired, a wrong copy does not stay: in the end Redis has the value of  *)
(* the database or none.                                                   *)
CopyConverges == <>[](\A c \in Copied : ~copy[c].live \/ copy[c].value = db[c])
=============================================================================
