-------------------------- MODULE QuotaLedgerProofs --------------------------
(***************************************************************************)
(* QuotaLedger for every set of changes and any number of them: the        *)
(* balance of the ledger, and that it implements BufferedCounter.          *)
(***************************************************************************)
EXTENDS QuotaLedger, TLAPS

(* The batch is empty where the updater has not put anything yet: a store  *)
(* that is swapped out replaces nothing, and a round ends with nothing.    *)
BatchInv ==
    /\ pc = "swap" => \A i \in at .. 3 : batch[TypeOrder[i]] = 0
    /\ pc = "user" => batch["remain"] = 0
    /\ pc \in {"token", "user"} => at = 1

LedgerInv == LedgerBalance /\ BatchInv

(* At the start nothing is pending. *)
LEMMA InitLemma == Init => LedgerInv
  <1> SUFFICES ASSUME Init PROVE LedgerInv
    OBVIOUS
  <1>1. TypeOK
    BY LedgerAssumption DEF Init, TypeOK, Zero, NoCopy, Columns, UserColumns, Copied
  <1>2. \A c \in Columns : db[c] + store[c] + batch[c] + lost[c] = QuotaInit + asked[c]
    BY LedgerAssumption DEF Init, Zero, Columns, UserColumns
  <1>3. BatchInv
    BY DEF Init, BatchInv
  <1> QED BY <1>1, <1>2, <1>3 DEF LedgerInv, LedgerBalance

(* The goroutine that a call starts is one of the known ones. *)
LEMMA SpawnLemma ==
    ASSUME TypeOK, NEW kind \in JobKinds, NEW step \in JobSteps, NEW c \in Copied, NEW v \in Int,
           Spawn(kind, step, c, v)
    PROVE  jobs' \subseteq [id : Nat, kind : JobKinds, step : JobSteps, column : Copied, value : Int]
  BY DEF Spawn, TypeOK

(* A change of a column goes to one place, and is counted once. *)
LEMMA ChangeLemma ==
    ASSUME LedgerInv, NEW c \in Columns, NEW d \in Deltas, Change(c, d)
    PROVE  LedgerInv'
  <1> USE DEF LedgerInv, LedgerBalance
  <1>1. d \in Int
    BY LedgerAssumption
  <1>2. jobs' \subseteq [id : Nat, kind : JobKinds, step : JobSteps, column : Copied, value : Int]
    <2>1. CASE c \in Copied
      BY <2>1, <1>1, SpawnLemma DEF Change, JobKinds, JobSteps
    <2>2. CASE c \notin Copied
      BY <2>2 DEF Change, TypeOK
    <2> QED BY <2>1, <2>2
  <1>3. TypeOK'
    BY <1>1, <1>2 DEF Change, TypeOK, AddNewRecord, WriteThrough, Add, editing
  <1>4. (\A b \in Columns : db[b] + store[b] + batch[b] + lost[b] = QuotaInit + asked[b])'
    <2>1. asked' = [asked EXCEPT ![c] = asked[c] + d] /\ UNCHANGED batch
      BY DEF Change, Add
    <2>2. SUFFICES ASSUME NEW b \in Columns
                   PROVE  db'[b] + store'[b] + batch[b] + lost'[b] = QuotaInit + asked'[b]
      BY <2>1
    <2>3. /\ db[b] \in Int /\ store[b] \in Int /\ batch[b] \in Int
          /\ lost[b] \in Int /\ asked[b] \in Int /\ QuotaInit \in Int
      BY LedgerAssumption DEF TypeOK
    <2>4. asked'[b] = IF b = c THEN asked[b] + d ELSE asked[b]
      BY <2>1 DEF TypeOK
    <2>5. db[b] + store[b] + batch[b] + lost[b] = QuotaInit + asked[b]
      OBVIOUS
    <2>6. CASE AddNewRecord(c, d)
      <3>1. /\ db'[b] = db[b] /\ lost'[b] = lost[b]
            /\ store'[b] = IF b = c THEN store[b] + d ELSE store[b]
        BY <2>6 DEF AddNewRecord, Add, TypeOK
      <3> QED BY <3>1, <2>3, <2>4, <2>5, <1>1
    <2>7. CASE WriteThrough(c, d)
      <3>1. /\ store'[b] = store[b]
            /\ \/ db'[b] = (IF b = c THEN db[b] + d ELSE db[b]) /\ lost'[b] = lost[b]
               \/ lost'[b] = (IF b = c THEN lost[b] + d ELSE lost[b]) /\ db'[b] = db[b]
        BY <2>7 DEF WriteThrough, Add, TypeOK
      <3> QED BY <3>1, <2>3, <2>4, <2>5, <1>1
    <2> QED BY <2>6, <2>7 DEF Change
  <1>5. BatchInv'
    BY DEF Change, BatchInv
  <1> QED BY <1>3, <1>4, <1>5

(* The steps of batchUpdate move changes on or mark them as lost. *)
LEMMA UpdaterLemma ==
    ASSUME LedgerInv, UpdaterStep
    PROVE  LedgerInv'
  <1> USE DEF LedgerInv, LedgerBalance
  <1>t. /\ TypeOrder[1] = "quota" /\ TypeOrder[2] = "remain" /\ TypeOrder[3] = "used"
        /\ Columns = {"quota", "used", "remain"} /\ UserColumns = {"quota", "used"}
    BY DEF TypeOrder, Columns, UserColumns
  <1>1. CASE CheckData
    <2>1. TypeOK'
      BY <1>1 DEF CheckData, TypeOK, TypeCount, redis, editing, history
    <2>2. (\A b \in Columns : db[b] + store[b] + batch[b] + lost[b] = QuotaInit + asked[b])'
      BY <1>1 DEF CheckData, history
    <2>3. BatchInv'
      BY <1>1, <1>t DEF CheckData, BatchInv, TypeOK, Zero
    <2> QED BY <2>1, <2>2, <2>3
  <1>2. CASE SwapStore
    <2> DEFINE c == TypeOrder[at]
    <2>1. c \in Columns /\ at \in 1 .. 3
      BY <1>t DEF TypeOK
    <2>2. batch[c] = 0
      BY <1>2, <1>t DEF SwapStore, BatchInv, TypeOK
    <2>3. /\ batch' = [batch EXCEPT ![c] = store[c]] /\ store' = [store EXCEPT ![c] = 0]
          /\ at' = IF at < 3 THEN at + 1 ELSE 1
          /\ pc = "swap" /\ pc' = IF at < 3 THEN "swap" ELSE "token"
          /\ UNCHANGED <<db, copy, jobs, held, profile, changes, reads, asked, lost>>
      BY <1>2 DEF SwapStore, Emptied, TypeCount, redis, editing, history
    <2>4. TypeOK'
      BY <2>1, <2>3 DEF TypeOK
    <2>5. (\A b \in Columns : db[b] + store[b] + batch[b] + lost[b] = QuotaInit + asked[b])'
      BY <2>1, <2>2, <2>3, LedgerAssumption DEF TypeOK
    <2>6. BatchInv'
      <3>1. at < 3 => \A i \in at + 1 .. 3 : batch'[TypeOrder[i]] = 0
        <4> SUFFICES ASSUME at < 3, NEW i \in at + 1 .. 3
                     PROVE  batch'[TypeOrder[i]] = 0
          OBVIOUS
        <4>1. i \in at .. 3 /\ i \in 1 .. 3 /\ i # at
          BY <2>1
        <4>2. TypeOrder[i] # c /\ TypeOrder[i] \in Columns
          BY <4>1, <2>1, <1>t
        <4>3. batch[TypeOrder[i]] = 0
          BY <4>1, <2>3 DEF BatchInv
        <4> QED BY <4>2, <4>3, <2>3 DEF TypeOK
      <3>2. CASE at < 3
        BY <3>1, <3>2, <2>3 DEF BatchInv
      <3>3. CASE ~(at < 3)
        BY <3>3, <2>3 DEF BatchInv
      <3> QED BY <3>2, <3>3
    <2> QED BY <2>4, <2>5, <2>6
  <1>3. CASE WriteToken
    <2>1. TypeOK'
      BY <1>3, <1>t DEF WriteToken, WriteBatch, TypeOK, redis, editing
    <2>2. (\A b \in Columns : db[b] + store[b] + batch[b] + lost[b] = QuotaInit + asked[b])'
      BY <1>3, <1>t, LedgerAssumption DEF WriteToken, WriteBatch, TypeOK
    <2>3. BatchInv'
      BY <1>3, <1>t DEF WriteToken, WriteBatch, BatchInv
    <2> QED BY <2>1, <2>2, <2>3
  <1>4. CASE WriteUser
    <2>1. batch' = Zero
      BY <1>4, <1>t DEF WriteUser, WriteBatch, BatchInv, Zero
    <2>2. TypeOK'
      BY <1>4, <1>t, <2>1 DEF WriteUser, WriteBatch, TypeOK, redis, editing
    <2>3. (\A b \in Columns : db[b] + store[b] + batch[b] + lost[b] = QuotaInit + asked[b])'
      BY <1>4, <1>t, LedgerAssumption DEF WriteUser, WriteBatch, TypeOK
    <2>4. BatchInv'
      BY <1>4 DEF WriteUser, BatchInv
    <2> QED BY <2>2, <2>3, <2>4
  <1> QED BY <1>1, <1>2, <1>3, <1>4 DEF UpdaterStep

(* Redis is a copy: its steps leave the ledger alone. *)
LEMMA CopyLemma ==
    ASSUME LedgerInv,
           \/ \E c \in Copied : ReadMiss(c) \/ ReadDatabase(c) \/ Expire(c)
           \/ JobStep
    PROVE  LedgerInv'
  <1> USE DEF LedgerInv, LedgerBalance
  <1>1. UNCHANGED <<db, store, batch, pc, at, held, profile, changes, asked, lost>>
    BY DEF ReadMiss, ReadDatabase, Expire, JobStep, CheckTTL, Exec, ledger, editing, history
  <1>2. reads' \in Nat
    BY DEF ReadMiss, ReadDatabase, Expire, JobStep, CheckTTL, Exec, history, TypeOK
  <1>3. /\ copy' \in [Copied -> [live : BOOLEAN, ttl : BOOLEAN, value : Int]]
        /\ jobs' \subseteq [id : Nat, kind : JobKinds, step : JobSteps, column : Copied, value : Int]
    <2>1. ASSUME NEW c \in Copied, ReadMiss(c) \/ ReadDatabase(c)
          PROVE  <1>3!1 /\ <1>3!2
      <3>1. c \in Columns /\ db[c] \in Int
        BY DEF TypeOK, Copied, Columns, UserColumns
      <3> QED BY <2>1, <3>1, SpawnLemma DEF ReadMiss, ReadDatabase, TypeOK, JobKinds, JobSteps
    <2>2. ASSUME NEW c \in Copied, Expire(c)
          PROVE  <1>3!1 /\ <1>3!2
      BY <2>2 DEF Expire, TypeOK, NoCopy
    <2>3. ASSUME NEW j \in jobs, CheckTTL(j) \/ Exec(j)
          PROVE  <1>3!1 /\ <1>3!2
      <3>1. j \in [id : Nat, kind : JobKinds, step : JobSteps, column : Copied, value : Int]
        BY DEF TypeOK
      <3>2. CASE CheckTTL(j)
        BY <3>1, <3>2 DEF CheckTTL, TypeOK, JobSteps
      <3>3. CASE Exec(j)
        <4>1. Written(j) \in [live : BOOLEAN, ttl : BOOLEAN, value : Int]
          BY <3>1 DEF Written, TypeOK
        <4> QED BY <3>1, <3>3, <4>1 DEF Exec, TypeOK
      <3> QED BY <2>3, <3>2, <3>3
    <2> QED BY <2>1, <2>2, <2>3 DEF JobStep
  <1>4. TypeOK'
    BY <1>1, <1>2, <1>3 DEF TypeOK
  <1> QED BY <1>1, <1>4 DEF BatchInv

(* Writing a row back undoes changes, which the history counts as lost. *)
LEMMA EditorLemma ==
    ASSUME LedgerInv, NEW e \in Editors,
           ReadRow(e) \/ GiveUp(e) \/ \E g \in Gifts \cup {0} : SaveRow(e, g)
    PROVE  LedgerInv'
  <1> USE DEF LedgerInv, LedgerBalance
  <1>t. "quota" \in Columns /\ "remain" \in Columns /\ Copied = {"quota", "remain"}
    BY DEF Columns, UserColumns, Copied
  <1>1. CASE ReadRow(e)
    BY <1>1, <1>t DEF ReadRow, ledger, redis, TypeOK, BatchInv
  <1>2. CASE GiveUp(e)
    BY <1>2 DEF GiveUp, ledger, redis, history, TypeOK, BatchInv
  <1>3. ASSUME NEW g \in Gifts \cup {0}, SaveRow(e, g)
        PROVE  LedgerInv'
    <2>1. \A c \in Columns : Gift(e, g, c) \in Int /\ profile[e][c] \in Int /\ db[c] \in Int
      BY LedgerAssumption DEF Gift, TypeOK
    <2>2. /\ Saved(e, g) \in [Columns -> Int]
          /\ \A c \in Columns :
               Saved(e, g)[c] = (IF Restored(e, c) THEN profile[e][c] ELSE db[c]) + Gift(e, g, c)
      BY <2>1 DEF Saved
    <2>3. jobs' \subseteq [id : Nat, kind : JobKinds, step : JobSteps, column : Copied, value : Int]
      <3> DEFINE q == Saved(e, g)["quota"]
                 r == Saved(e, g)["remain"]
      <3>1. q \in Int /\ r \in Int
        BY <2>2, <1>t
      <3>2. Spawn("fill", "exec", "quota", q) \/ Spawn("fill", "exec", "remain", r) \/ UNCHANGED jobs
        BY <1>3 DEF SaveRow
      <3> HIDE DEF q, r
      <3>3. CASE Spawn("fill", "exec", "quota", q)
        BY <3>1, <3>3, <1>t, SpawnLemma DEF JobKinds, JobSteps
      <3>4. CASE Spawn("fill", "exec", "remain", r)
        BY <3>1, <3>4, <1>t, SpawnLemma DEF JobKinds, JobSteps
      <3>5. CASE UNCHANGED jobs
        BY <3>5 DEF TypeOK
      <3> QED BY <3>2, <3>3, <3>4, <3>5
    <2>4. TypeOK'
      BY <1>3, <2>1, <2>2, <2>3 DEF SaveRow, TypeOK
    <2>5. (\A b \in Columns : db[b] + store[b] + batch[b] + lost[b] = QuotaInit + asked[b])'
      <3>1. SUFFICES ASSUME NEW b \in Columns
                     PROVE  db'[b] + store[b] + batch[b] + lost'[b] = QuotaInit + asked'[b]
        BY <1>3 DEF SaveRow
      <3>2. /\ db'[b] = (IF Restored(e, b) THEN profile[e][b] ELSE db[b]) + Gift(e, g, b)
            /\ lost'[b] = IF Restored(e, b) THEN lost[b] + db[b] - profile[e][b] ELSE lost[b]
            /\ asked'[b] = asked[b] + Gift(e, g, b)
        BY <1>3, <2>2 DEF SaveRow
      <3>3. db[b] + store[b] + batch[b] + lost[b] = QuotaInit + asked[b]
        OBVIOUS
      <3>4. /\ store[b] \in Int /\ batch[b] \in Int /\ lost[b] \in Int
            /\ asked[b] \in Int /\ QuotaInit \in Int
        BY LedgerAssumption DEF TypeOK
      <3>5. CASE Restored(e, b)
        <4>1. PICK r \in Int, h \in Int : r = profile[e][b] /\ h = Gift(e, g, b)
          BY <2>1
        <4>2. db'[b] = r + h /\ lost'[b] = lost[b] + db[b] - r /\ asked'[b] = asked[b] + h
          BY <3>2, <3>5, <4>1
        <4>3. db[b] \in Int
          BY <2>1
        <4> HIDE DEF LedgerInv, LedgerBalance
        <4> QED BY <4>2, <4>3, <3>3, <3>4
      <3>6. CASE ~Restored(e, b)
        BY <2>1, <3>2, <3>3, <3>4, <3>6
      <3> QED BY <3>5, <3>6
    <2>6. BatchInv'
      BY <1>3 DEF SaveRow, BatchInv
    <2> QED BY <2>4, <2>5, <2>6
  <1> QED BY <1>1, <1>2, <1>3

(* Setting a column is a change by the difference. *)
LEMMA OverwriteLemma ==
    ASSUME LedgerInv, NEW c \in Copied, NEW v \in Values, Overwrite(c, v)
    PROVE  LedgerInv'
  <1> USE DEF LedgerInv, LedgerBalance
  <1>1. c \in Columns /\ v \in Int /\ db[c] \in Int
    BY LedgerAssumption DEF Columns, UserColumns, Copied, TypeOK
  <1>2. jobs' \subseteq [id : Nat, kind : JobKinds, step : JobSteps, column : Copied, value : Int]
    <2>1. Spawn("fill", "exec", c, v) \/ UNCHANGED jobs
      BY DEF Overwrite
    <2>2. CASE Spawn("fill", "exec", c, v)
      BY <2>2, <1>1, SpawnLemma DEF JobKinds, JobSteps
    <2>3. CASE UNCHANGED jobs
      BY <2>3 DEF TypeOK
    <2> QED BY <2>1, <2>2, <2>3
  <1>3. TypeOK'
    BY <1>1, <1>2 DEF Overwrite, Add, editing, TypeOK
  <1>4. (\A b \in Columns : db[b] + store[b] + batch[b] + lost[b] = QuotaInit + asked[b])'
    BY <1>1, LedgerAssumption DEF Overwrite, Add, TypeOK
  <1>5. BatchInv'
    BY DEF Overwrite, BatchInv
  <1> QED BY <1>3, <1>4, <1>5

(* A crash loses what was in memory. *)
LEMMA CrashLemma ==
    ASSUME LedgerInv, Crash
    PROVE  LedgerInv'
  <1> USE DEF LedgerInv, LedgerBalance
  <1>1. TypeOK'
    BY DEF Crash, TypeOK, Zero
  <1>2. (\A b \in Columns : db[b] + store[b] + batch[b] + lost[b] = QuotaInit + asked[b])'
    BY LedgerAssumption DEF Crash, TypeOK, Zero
  <1>3. BatchInv'
    BY DEF Crash, BatchInv
  <1> QED BY <1>1, <1>2, <1>3

(* Every step keeps the balance. *)
LEMMA NextLemma == LedgerInv /\ [Next]_vars => LedgerInv'
  <1> SUFFICES ASSUME LedgerInv, [Next]_vars PROVE LedgerInv'
    OBVIOUS
  <1>1. CASE UNCHANGED vars
    BY <1>1 DEF LedgerInv, LedgerBalance, TypeOK, BatchInv, vars, ledger, redis, editing, history
  <1>2. CASE Next
    BY <1>2, ChangeLemma, UpdaterLemma, CopyLemma, EditorLemma, OverwriteLemma, CrashLemma DEF Next
  <1> QED BY <1>1, <1>2

(* Every change of a quota that was asked for is in the database, in       *)
(* memory, or counted as lost, whatever the batch updater, crashes, failed *)
(* writes, overrides and the editors of users and tokens do.               *)
THEOREM LedgerBalanceHolds == Spec => []LedgerBalance
  <1>1. LedgerInv => LedgerBalance
    BY DEF LedgerInv
  <1> QED BY <1>1, InitLemma, NextLemma, PTL DEF Spec

-----------------------------------------------------------------------------
(* Each step of the ledger is one of the buffered counter, or none. *)
LEMMA RefinementStep ==
    ASSUME LedgerInv, [Next]_vars
    PROVE  [Counter!Next]_(Counter!vars)
  <1> USE DEF LedgerInv, LedgerBalance
  <1>t. /\ TypeOrder[1] = "quota" /\ TypeOrder[2] = "remain" /\ TypeOrder[3] = "used"
        /\ Columns = {"quota", "used", "remain"} /\ UserColumns = {"quota", "used"}
    BY DEF TypeOrder, Columns, UserColumns
  <1>1. ASSUME NEW c \in Columns, NEW d \in Deltas, Change(c, d)
        PROVE  [Counter!Next]_(Counter!vars)
    <2>1. Counter!Answer(c, d) \/ UNCHANGED Counter!vars
      BY <1>1 DEF Change, AddNewRecord, WriteThrough, Add, editing, Counter!Answer, Counter!memory,
         Counter!edits, Counter!vars
    <2> QED BY <2>1 DEF Counter!Next
  <1>2. CASE SwapStore
    <2> DEFINE c == TypeOrder[at]
    <2>1. c \in Columns
      BY <1>t DEF TypeOK
    <2>2. batch[c] = 0
      BY <1>2, <1>t DEF SwapStore, BatchInv, TypeOK
    <2>3. /\ batch' = [batch EXCEPT ![c] = store[c]] /\ store' = [store EXCEPT ![c] = 0]
          /\ UNCHANGED <<db, held, profile>>
      BY <1>2 DEF SwapStore, Emptied, editing
    <2>4. Counter!Take({c})
      <3>1. batch' = [b \in Columns |-> IF b \in {c} THEN batch[b] + store[b] ELSE batch[b]]
        <4>1. batch[c] + store[c] = store[c]
          BY <2>1, <2>2 DEF TypeOK
        <4> QED BY <2>3, <4>1 DEF TypeOK
      <3>2. store' = [b \in Columns |-> IF b \in {c} THEN 0 ELSE store[b]]
        BY <2>3 DEF TypeOK
      <3> QED BY <3>1, <3>2, <2>3 DEF Counter!Take, Counter!Plus, Counter!Without, Counter!edits
    <2> QED BY <2>1, <2>4 DEF Counter!Next
  <1>3. ASSUME NEW S \in SUBSET Columns, WriteBatch(S), UNCHANGED <<store, held, profile>>
        PROVE  Counter!Next
    <2>1. Counter!Write(S) \/ Counter!Fail(S)
      BY <1>3 DEF WriteBatch, Counter!Write, Counter!Fail, Counter!Plus, Counter!Without, Counter!edits,
         TypeOK
    <2> QED BY <2>1 DEF Counter!Next
  <1>4. CASE WriteToken \/ WriteUser
    BY <1>3, <1>4, <1>t DEF WriteToken, WriteUser, editing
  <1>5. CASE CheckData \/ JobStep \/ \E c \in Copied : ReadMiss(c) \/ ReadDatabase(c) \/ Expire(c)
    BY <1>5 DEF CheckData, JobStep, CheckTTL, Exec, ReadMiss, ReadDatabase, Expire, ledger, editing,
       Counter!vars, Counter!memory, Counter!edits
  <1>6. ASSUME NEW e \in Editors, ReadRow(e) \/ GiveUp(e)
        PROVE  Counter!Next
    <2>1. Counter!Edit(e) \/ Counter!GiveUp(e)
      BY <1>6 DEF ReadRow, GiveUp, ledger, Counter!Edit, Counter!GiveUp, Counter!memory
    <2> QED BY <2>1 DEF Counter!Next
  <1>7. ASSUME NEW e \in Editors, NEW g \in Gifts \cup {0}, SaveRow(e, g)
        PROVE  Counter!Next
    <2> DEFINE S == {b \in Columns : Restored(e, b)}
    <2>1. PICK c \in Columns, h \in Gifts \cup {0} :
            \A b \in Columns : Gift(e, g, b) = IF b = c THEN h ELSE 0
      <3>1. CASE e = "save"
        <4>1. \A b \in Columns : Gift(e, g, b) = IF b = "quota" THEN g ELSE 0
          BY <3>1 DEF Gift
        <4> QED BY <4>1, <1>t
      <3>2. CASE e # "save"
        <4>1. \A b \in Columns : Gift(e, g, b) = IF b = "quota" THEN 0 ELSE 0
          BY <3>2 DEF Gift
        <4> QED BY <4>1, <1>t
      <3> QED BY <3>1, <3>2
    <2>2. Counter!PutBack(e, S, c, h)
      BY <1>7, <2>1 DEF SaveRow, Saved, Counter!PutBack, Counter!memory
    <2> QED BY <2>2 DEF Counter!Next
  <1>10. ASSUME NEW c \in Copied, NEW v \in Values, Overwrite(c, v)
         PROVE  Counter!Next
    <2>1. Counter!Set(c, v) /\ c \in Columns
      BY <1>10 DEF Overwrite, editing, Counter!Set, Counter!memory, Counter!edits, Copied, Columns,
         UserColumns
    <2> QED BY <2>1 DEF Counter!Next
  <1>8. CASE Crash
    <2>1. Counter!Crash
      BY <1>8 DEF Crash, Zero, Counter!Crash, Counter!Nothing
    <2> QED BY <2>1 DEF Counter!Next
  <1>9. CASE UNCHANGED vars
    BY <1>9 DEF vars, ledger, editing, Counter!vars, Counter!memory, Counter!edits
  <1> QED BY <1>1, <1>2, <1>4, <1>5, <1>6, <1>7, <1>8, <1>9, <1>10 DEF Next, UpdaterStep

(* The ledger, with its batch updater, implements the buffered counter its *)
(* callers may rely on: for every sequence of calls, flushes, failed       *)
(* writes, crashes, overrides and rows that are written back.              *)
THEOREM ImplementsCounterHolds == Spec => ImplementsCounter
  <1>1. Init => Counter!Init
    BY LedgerAssumption DEF Init, Zero, Counter!Init, Counter!Nothing
  <1>2. LedgerInv /\ [Next]_vars => [Counter!Next]_(Counter!vars)
    BY RefinementStep
  <1> QED BY <1>1, <1>2, InitLemma, NextLemma, PTL DEF Spec, ImplementsCounter, Counter!Spec
=============================================================================
