----------------------- MODULE SubscriptionQuotaProofs -----------------------
(***************************************************************************)
(* Proofs about SubscriptionQuota, for every number of subscriptions,      *)
(* requests and master nodes and every choice of the constants.            *)
(***************************************************************************)
EXTENDS SubscriptionQuota, FiniteSetTheorems, WellFoundedInduction, TLAPS

-----------------------------------------------------------------------------
(* Resets. *)

(* Euclidean division, as the provers need it spelt out. *)
LEMMA DivLemma ==
    ASSUME NEW a \in Int
    PROVE  /\ a \div Length \in Int
           /\ (a \div Length) * Length <= a
           /\ a < (a \div Length + 1) * Length
  BY SubscriptionAssumption, SMTT(30)

(* Multiples of a period are in the order of their factors. *)
LEMMA TimesLemma ==
    ASSUME NEW x \in Int, NEW y \in Int
    PROVE  /\ x * Length \in Int
           /\ x <= y <=> x * Length <= y * Length
           /\ x < y => x * Length < y * Length
           /\ (x + 1) * Length = x * Length + Length
           /\ (y - x) * Length = y * Length - x * Length
  BY SubscriptionAssumption, SMTT(30)

(* calcNextResetTime returns a time after its base, or 0. *)
LEMMA NextResetLemma ==
    ASSUME NEW s \in Subs, NEW base \in Nat, NEW end \in Nat
    PROVE  /\ CalcNextResetTime(s, base, end) \in Nat
           /\ CalcNextResetTime(s, base, end) # 0 => CalcNextResetTime(s, base, end) > base
  <1>1. Length \in Nat /\ Length > 0
    BY SubscriptionAssumption
  <1>2. (base \div Length + 1) * Length \in Nat /\ (base \div Length + 1) * Length > base
    BY <1>1, DivLemma, TimesLemma
  <1> QED
    BY <1>1, <1>2 DEF CalcNextResetTime

(* The last reset that is due is not before the base of the loop. *)
LEMMA LastDueLemma ==
    ASSUME NEW s \in Subs, NEW base \in Nat, NEW end \in Nat, NEW at \in Nat
    PROVE  LastDue(s, base, end, at) \in Nat /\ LastDue(s, base, end, at) >= base
  <1> DEFINE limit == Earlier(at, end)
  <1>1. limit \in Nat
    BY DEF Earlier
  <1> HIDE DEF limit
  <1>2. (limit \div Length) * Length \in Int
    BY <1>1, DivLemma, TimesLemma
  <1>3. base + ((limit - base) \div Length) * Length \in Int
    <2>1. limit - base \in Int
      BY <1>1
    <2> DEFINE q == (limit - base) \div Length
    <2>2. q \in Int
      BY <2>1, DivLemma
    <2> HIDE DEF q
    <2>3. q * Length \in Int
      BY <2>2, TimesLemma
    <2> QED
      BY <2>3 DEF q
  <1> QED
    BY <1>2, <1>3 DEF LastDue, LastReset, limit

(* The loop of maybeResetUserSubscriptionWithPlanTx steps from one reset   *)
(* to the next while that one is due, and LastDue is where it stops: it    *)
(* satisfies the equation of the loop, from every base.                    *)
THEOREM LastDueLoop ==
    ASSUME NEW s \in Subs, NEW base \in Nat, NEW end \in Nat, NEW at \in Nat
    PROVE  LET next == CalcNextResetTime(s, base, end)
           IN LastDue(s, base, end, at) =
                IF next > 0 /\ next <= at THEN LastDue(s, next, end, at) ELSE base
  <1> DEFINE limit == Earlier(at, end)
             next == CalcNextResetTime(s, base, end)
  <1>1. limit \in Nat /\ (\A t \in Int : t <= limit <=> t <= at /\ t <= end)
    BY DEF Earlier
  <1>2. Length \in Nat /\ Length > 0
    BY SubscriptionAssumption
  <1>3. next \in Nat
    BY NextResetLemma
  <1>4. LastDue(s, base, end, at) = LastReset(s, base, limit)
        /\ LastDue(s, next, end, at) = LastReset(s, next, limit)
    BY DEF LastDue
  <1> HIDE DEF limit, next
  <1> SUFFICES LastReset(s, base, limit) =
                 IF next > 0 /\ next <= at THEN LastReset(s, next, limit) ELSE base
    BY <1>4 DEF next
  <1>5. CASE period[s] = "never"
    BY <1>5 DEF LastReset, CalcNextResetTime, next
  <1>6. CASE period[s] = "calendar"
    <2> DEFINE b == base \div Length
               l == limit \div Length
    <2>1. /\ b \in Int /\ b * Length <= base /\ base < (b + 1) * Length
          /\ l \in Int /\ l * Length <= limit /\ limit < (l + 1) * Length
      BY <1>1, DivLemma
    <2>2. next = IF (b + 1) * Length > end THEN 0 ELSE (b + 1) * Length
      BY <1>6 DEF CalcNextResetTime, next
    <2>3. \A c \in Nat : LastReset(s, c, limit) = IF l * Length <= c THEN c ELSE l * Length
      BY <1>6 DEF LastReset
    <2> HIDE DEF b, l
    <2>4. l * Length \in Int /\ (b + 1) * Length \in Int
      BY <2>1, TimesLemma
    <2>5. CASE (b + 1) * Length <= limit
      <3>1. next = (b + 1) * Length /\ next > 0 /\ next <= at
        BY <1>1, <2>1, <2>2, <2>4, <2>5
      <3>2. b + 1 < l + 1
        BY <1>1, <1>2, <2>1, <2>4, <2>5, SMTT(30)
      <3>3. (b + 1) * Length <= l * Length
        BY <2>1, <3>2, TimesLemma
      <3> QED
        BY <1>3, <2>1, <2>3, <2>4, <3>1, <3>3
    <2>6. CASE ~((b + 1) * Length <= limit)
      <3>1. ~(next > 0 /\ next <= at)
        BY <1>1, <2>1, <2>2, <2>4, <2>6
      <3>2. l < b + 1
        BY <1>1, <1>2, <2>1, <2>4, <2>6, SMTT(30)
      <3>3. l * Length <= b * Length
        BY <2>1, <3>2, TimesLemma
      <3> QED
        <4>1. l * Length <= base
          BY <1>2, <2>1, <2>4, <3>3, TimesLemma
        <4> QED
          BY <2>3, <3>1, <4>1
    <2> QED
      BY <2>5, <2>6
  <1>7. CASE period[s] \notin {"never", "calendar"}
    <2> DEFINE d == (limit - base) \div Length
               e == (limit - next) \div Length
    <2>1. /\ d \in Int /\ d * Length <= limit - base /\ limit - base < (d + 1) * Length
          /\ e \in Int /\ e * Length <= limit - next /\ limit - next < (e + 1) * Length
      BY <1>1, <1>3, DivLemma
    <2>2. next = IF base + Length > end THEN 0 ELSE base + Length
      BY <1>7 DEF CalcNextResetTime, next
    <2>3. /\ LastReset(s, base, limit) =
               IF base + d * Length <= base THEN base ELSE base + d * Length
          /\ LastReset(s, next, limit) =
               IF next + e * Length <= next THEN next ELSE next + e * Length
      BY <1>7 DEF LastReset
    <2> HIDE DEF d, e
    <2>4. d * Length \in Int /\ e * Length \in Int
          /\ (d + 1) * Length = d * Length + Length
          /\ (e + 1) * Length = e * Length + Length
      BY <2>1, TimesLemma
    <2>5. CASE base + Length <= limit
      <3>1. next = base + Length /\ next <= at
        BY <1>1, <1>2, <2>2, <2>5
      <3>2. d = e + 1
        <4>1. d < e + 2 /\ e + 1 < d + 1
          <5>1. d * Length < (e + 2) * Length
            BY <1>1, <1>2, <2>1, <2>4, <3>1, TimesLemma
          <5>2. (e + 1) * Length < (d + 1) * Length
            BY <1>1, <1>2, <2>1, <2>4, <3>1, TimesLemma
          <5> QED
            BY <1>2, <2>1, <5>1, <5>2, SMTT(30)
        <4> QED
          BY <2>1, <4>1
      <3>3. base + d * Length = next + e * Length
        BY <1>2, <2>1, <2>4, <3>1, <3>2, SMTT(30)
      <3>4. e * Length >= 0
        BY <1>1, <1>2, <2>1, <2>4, <2>5, <3>1
      <3> QED
        BY <1>2, <2>3, <2>4, <3>1, <3>3, <3>4
    <2>6. CASE ~(base + Length <= limit)
      <3>1. ~(next > 0 /\ next <= at)
        BY <1>1, <1>2, <2>2, <2>6
      <3>2. d * Length < 1 * Length
        BY <1>1, <1>2, <2>1, <2>4, <2>6
      <3>3. d * Length <= 0
        BY <1>2, <2>1, <3>2, SMTT(30)
      <3> QED
        BY <1>2, <2>3, <2>4, <3>1, <3>3
    <2> QED
      BY <2>5, <2>6
  <1> QED
    BY <1>5, <1>6, <1>7
(* A reset keeps the row a row of the same subscription, goes forward in   *)
(* time, and empties it exactly when it moves past a reset.                *)
LEMMA MaybeResetLemma ==
    ASSUME NEW s \in Subs, NEW old \in Row, NEW at \in Nat
    PROVE  LET new == MaybeReset(s, old, at)
           IN /\ new \in Row
              /\ new.status = old.status /\ new.start = old.start
              /\ new.end = old.end /\ new.prev = old.prev
              /\ new.used \in {0, old.used}
              /\ new.last >= old.last
              /\ new.last > old.last \/ (new.last = old.last /\ new.used = old.used)
              /\ (old.last > 0 => old.last >= old.start) =>
                    /\ new.last > 0 => new.last >= new.start
                    /\ new.last \in {0, new.start} =>
                          new.used = old.used /\ old.last \in {0, old.start}
  <1> DEFINE base == IF old.last > 0 THEN old.last ELSE old.start
             last == LastDue(s, base, old.end, at)
             next == CalcNextResetTime(s, last, old.end)
             new == MaybeReset(s, old, at)
  <1>1. /\ old.status \in Statuses /\ old.used \in Nat /\ old.start \in Nat
        /\ old.end \in Nat /\ old.last \in Nat /\ old.next \in Nat /\ old.prev \in Groups
    BY DEF Row
  <1>2. base \in Nat /\ base >= old.last
    BY <1>1
  <1>3. last \in Nat /\ last >= base
    BY <1>1, <1>2, LastDueLemma
  <1>4. next \in Nat
    BY <1>1, <1>3, NextResetLemma
  <1>5. \/ new = old
        \/ last # base /\ new = [old EXCEPT !.used = 0, !.last = last, !.next = next]
        \/ last = base /\ new = [old EXCEPT !.last = last, !.next = next]
    BY DEF MaybeReset
  <1> HIDE DEF last, next, new
  <1>6. CASE new = old
    BY <1>1, <1>6 DEF new
  <1>7. CASE last # base /\ new = [old EXCEPT !.used = 0, !.last = last, !.next = next]
    <2>1. /\ new \in Row
          /\ new.status = old.status /\ new.start = old.start
          /\ new.end = old.end /\ new.prev = old.prev /\ new.used = 0 /\ new.last = last
      BY <1>1, <1>3, <1>4, <1>7 DEF Row
    <2> QED
      BY <1>1, <1>2, <1>3, <1>7, <2>1 DEF new
  <1>8. CASE last = base /\ new = [old EXCEPT !.last = last, !.next = next]
    <2>1. /\ new \in Row
          /\ new.status = old.status /\ new.start = old.start
          /\ new.end = old.end /\ new.prev = old.prev /\ new.used = old.used /\ new.last = last
      BY <1>1, <1>3, <1>4, <1>8 DEF Row
    <2> QED
      BY <1>1, <1>2, <1>3, <1>8, <2>1 DEF new
  <1> QED
    BY <1>5, <1>6, <1>7, <1>8

-----------------------------------------------------------------------------
(* Types. *)

(* The records of the transactions and of the maintenance tasks. *)
Tx == [rows : SUBSET Subs, snap : [Subs -> Row], at : 0 .. Horizon]
Task == [step : {"idle", "expire", "reset", "each"}, todo : SUBSET Subs,
         count : Nat, at : 0 .. Horizon]

(* What the invariant says of one request and of one node. *)
RequestOK(r) ==
    /\ (tx[r].rows # {}) <=> (pc[r] \in {"pre", "delta"})
    /\ pc[r] = "delta" => tx[r].rows = {charge[r].sub}
    /\ pc[r] \in {"held", "delta", "retry"} => charge[r].sub \in Subs
NodeOK(n) ==
    /\ tx[n].rows # {} => task[n].step = "each"
    /\ tx[n].rows \subseteq task[n].todo

Labels == {"idle", "pre", "held", "delta", "retry", "done"}
Charge == [sub : Subs \cup {0}, pre : Nat, delta : Int]

(* TypeOK with what keeps it: a request that holds something knows from    *)
(* which subscription, and a maintenance task opens rows of its list only. *)
SubInv ==
    /\ now \in 1 .. Horizon
    /\ row \in [Subs -> Row]
    /\ period \in [Subs -> AllPeriods]
    /\ group \in Groups \ {""}
    /\ pc \in [Requests -> Labels]
    /\ charge \in [Requests -> Charge]
    /\ tx \in [Actors -> Tx]
    /\ task \in [Nodes -> Task]
    /\ held \in [Requests -> Int]
    /\ \A r \in Requests : RequestOK(r)
    /\ \A n \in Nodes : NodeOK(n)

(* The types of the proofs imply those of the runs. *)
LEMMA SubImplied == SubInv => TypeOK
  BY DEF SubInv, TypeOK, Labels, Charge, Tx, Task, RequestOK, NodeOK

(* The fields of a row. *)
LEMMA RowFields ==
    ASSUME NEW x \in Row
    PROVE  /\ x.status \in Statuses /\ x.used \in Nat /\ x.start \in Nat
           /\ x.end \in Nat /\ x.last \in Nat /\ x.next \in Nat /\ x.prev \in Groups
  BY DEF Row

(* The empty row, transaction and task have their types. *)
LEMMA NoneTypes == NoRow \in Row /\ NoTx \in Tx /\ NoTx.rows = {} /\ NoTask \in Task
  <1>1. NoRow \in Row
    BY DEF NoRow, Row, Statuses, Groups
  <1>2. 0 \in 0 .. Horizon
    BY SubscriptionAssumption
  <1> QED
    BY <1>1, <1>2 DEF NoTx, Tx, NoTask, Task

(* The first state has the types. *)
LEMMA SubInit == Init => SubInv
  <1> SUFFICES ASSUME Init PROVE SubInv
    OBVIOUS
  <1>1. now \in 1 .. Horizon /\ row \in [Subs -> Row] /\ period \in [Subs -> AllPeriods]
    BY NoneTypes, SubscriptionAssumption DEF Init
  <1>2. tx \in [Actors -> Tx] /\ task \in [Nodes -> Task]
    BY NoneTypes DEF Init
  <1>3. \A a \in Actors : tx[a].rows = {}
    BY NoneTypes DEF Init
  <1>4. charge \in [Requests -> [sub : Subs \cup {0}, pre : Nat, delta : Int]]
        /\ held \in [Requests -> Int] /\ group \in Groups \ {""}
    BY DEF Init, Groups
  <1>5. pc = [r \in Requests |-> "idle"]
    BY DEF Init
  <1> QED
    BY <1>1, <1>2, <1>3, <1>4, <1>5 DEF SubInv, Labels, Charge, RequestOK, NodeOK, Actors

(* Reading rows opens a transaction with a copy of them. *)
LEMMA ReadLemma ==
    ASSUME SubInv, NEW a \in Actors, NEW R \in SUBSET Subs, NEW at \in 0 .. Horizon,
           Read(a, R, at)
    PROVE  /\ tx' \in [Actors -> Tx]
           /\ tx'[a].rows = R /\ tx'[a].at = at
           /\ \A s \in Subs : tx'[a].snap[s] = IF s \in R THEN row[s] ELSE NoRow
           /\ \A b \in Actors : b # a => tx'[b] = tx[b]
  <1> DEFINE new == [rows |-> R, at |-> at,
                     snap |-> [s \in Subs |-> IF s \in R THEN row[s] ELSE NoRow]]
  <1>1. tx \in [Actors -> Tx] /\ row \in [Subs -> Row]
    BY DEF SubInv
  <1>2. tx' = [tx EXCEPT ![a] = new]
    BY DEF Read
  <1>3. new \in Tx
    BY <1>1, NoneTypes DEF Tx
  <1>4. new.rows = R /\ new.at = at
        /\ \A s \in Subs : new.snap[s] = IF s \in R THEN row[s] ELSE NoRow
    OBVIOUS
  <1> HIDE DEF new
  <1> QED
    BY <1>1, <1>2, <1>3, <1>4

(* Closing a transaction forgets it. *)
LEMMA CloseLemma ==
    ASSUME SubInv, NEW a \in Actors, Close(a)
    PROVE  /\ tx' \in [Actors -> Tx]
           /\ tx'[a] = NoTx /\ tx'[a].rows = {}
           /\ \A b \in Actors : b # a => tx'[b] = tx[b]
  BY NoneTypes DEF SubInv, Close

(* The types of what a request and of what a node changes. *)
LEMMA RequestType ==
    ASSUME SubInv, NEW r \in Requests,
           NEW l \in Labels, pc' = [pc EXCEPT ![r] = l],
           tx' \in [Actors -> Tx], \A b \in Actors : b # r => tx'[b] = tx[b],
           charge' \in [Requests -> Charge],
           \A q \in Requests : q # r => charge'[q] = charge[q],
           row' \in [Subs -> Row], held' \in [Requests -> Int],
           RequestOK(r)', UNCHANGED <<now, period, group, task>>
    PROVE  SubInv'
  <1>1. \A q \in Requests : RequestOK(q)'
    <2> SUFFICES ASSUME NEW q \in Requests, q # r PROVE RequestOK(q)'
      OBVIOUS
    <2>1. pc'[q] = pc[q] /\ tx'[q] = tx[q] /\ charge'[q] = charge[q]
      BY DEF SubInv, Actors
    <2> QED
      BY <2>1 DEF SubInv, RequestOK
  <1>2. \A n \in Nodes : NodeOK(n)'
    <2> SUFFICES ASSUME NEW n \in Nodes PROVE NodeOK(n)'
      OBVIOUS
    <2>1. tx'[n] = tx[n]
      BY SubscriptionAssumption DEF Actors
    <2> QED
      BY <2>1 DEF SubInv, NodeOK
  <1>3. pc' \in [Requests -> Labels]
    BY DEF SubInv
  <1> QED
    BY <1>1, <1>2, <1>3 DEF SubInv

(* A step of a node keeps the types if what it writes has them. *)
LEMMA NodeType ==
    ASSUME SubInv, NEW n \in Nodes,
           tx' \in [Actors -> Tx], \A b \in Actors : b # n => tx'[b] = tx[b],
           task' \in [Nodes -> Task], \A m \in Nodes : m # n => task'[m] = task[m],
           row' \in [Subs -> Row], group' \in Groups \ {""},
           NodeOK(n)', UNCHANGED <<now, period, pc, charge, held>>
    PROVE  SubInv'
  <1>1. \A q \in Requests : RequestOK(q)'
    <2> SUFFICES ASSUME NEW q \in Requests PROVE RequestOK(q)'
      OBVIOUS
    <2>1. tx'[q] = tx[q]
      BY SubscriptionAssumption DEF Actors
    <2> QED
      BY <2>1 DEF SubInv, RequestOK
  <1>2. \A m \in Nodes : NodeOK(m)'
    <2> SUFFICES ASSUME NEW m \in Nodes, m # n PROVE NodeOK(m)'
      OBVIOUS
    <2>1. tx'[m] = tx[m] /\ task'[m] = task[m]
      BY DEF Actors
    <2> QED
      BY <2>1 DEF SubInv, NodeOK
  <1> QED
    BY <1>1, <1>2 DEF SubInv

(* The types of what an administrator, a purchase and the clock change. *)
LEMMA WorldType ==
    ASSUME SubInv, now' \in 1 .. Horizon, row' \in [Subs -> Row],
           period' \in [Subs -> AllPeriods], group' \in Groups \ {""},
           UNCHANGED <<pc, charge, tx, task, held>>
    PROVE  SubInv'
  BY DEF SubInv, RequestOK, NodeOK

(* A row with another amount is a row. *)
LEMMA UsedLemma ==
    ASSUME NEW x \in Row, NEW u \in Nat
    PROVE  LET y == [x EXCEPT !.used = u]
           IN /\ y \in Row /\ y.used = u
              /\ y.status = x.status /\ y.start = x.start /\ y.end = x.end
              /\ y.last = x.last /\ y.next = x.next /\ y.prev = x.prev
  BY DEF Row

(* A row with another status. *)
LEMMA StatusLemma ==
    ASSUME NEW x \in Row, NEW st \in Statuses
    PROVE  LET y == [x EXCEPT !.status = st]
           IN /\ y \in Row /\ y.status = st
              /\ y.used = x.used /\ y.start = x.start /\ y.end = x.end
              /\ y.last = x.last /\ y.next = x.next /\ y.prev = x.prev
  BY DEF Row

(* A candidate, as the loop of PreConsumeUserSubscription sees it. *)
LEMMA FreshLemma ==
    ASSUME SubInv, NEW r \in Requests, NEW s \in Subs
    PROVE  /\ tx[r].snap[s] \in Row
           /\ Fresh(r, s) \in Row
           /\ Fresh(r, s).status = tx[r].snap[s].status
           /\ Fresh(r, s).start = tx[r].snap[s].start
           /\ Fresh(r, s).end = tx[r].snap[s].end
           /\ Fresh(r, s).prev = tx[r].snap[s].prev
           /\ Fresh(r, s).used \in {0, tx[r].snap[s].used}
           /\ Fresh(r, s).last >= tx[r].snap[s].last
           /\ \/ Fresh(r, s).last > tx[r].snap[s].last
              \/ /\ Fresh(r, s).last = tx[r].snap[s].last
                 /\ Fresh(r, s).used = tx[r].snap[s].used
           /\ (tx[r].snap[s].last > 0 => tx[r].snap[s].last >= tx[r].snap[s].start) =>
                 /\ Fresh(r, s).last > 0 => Fresh(r, s).last >= Fresh(r, s).start
                 /\ Fresh(r, s).last \in {0, Fresh(r, s).start} =>
                       /\ Fresh(r, s).used = tx[r].snap[s].used
                       /\ tx[r].snap[s].last \in {0, tx[r].snap[s].start}
  <1>1. tx[r] \in Tx
    BY DEF SubInv, Actors
  <1>2. tx[r].snap[s] \in Row /\ tx[r].at \in Nat
    BY <1>1, SubscriptionAssumption DEF Tx
  <1> QED
    BY <1>2, MaybeResetLemma DEF Fresh

(* What a charge does to the rows: r is charged at c, and the candidates   *)
(* before c are reset.                                                     *)
Charged(r, c) ==
    row' = [s \in Subs |->
        IF s = c THEN [Fresh(r, c) EXCEPT !.used = Fresh(r, c).used + charge[r].pre]
        ELSE IF s \in tx[r].rows /\ Before(r, s, c) /\ Fresh(r, s) # tx[r].snap[s]
          THEN Fresh(r, s)
        ELSE row[s]]

(* The rows that a pre-consumption writes are rows. *)
LEMMA ChargedType ==
    ASSUME SubInv, NEW r \in Requests, NEW c \in tx[r].rows, Charged(r, c)
    PROVE  c \in Subs /\ row' \in [Subs -> Row]
  <1>1. c \in Subs /\ charge[r].pre \in Nat
    <2>1. tx[r] \in Tx /\ charge[r] \in Charge
      BY DEF SubInv, Actors
    <2> QED
      BY <2>1 DEF Tx, Charge
  <1>2. [Fresh(r, c) EXCEPT !.used = Fresh(r, c).used + charge[r].pre] \in Row
    <2>1. Fresh(r, c) \in Row /\ Fresh(r, c).used + charge[r].pre \in Nat
      BY <1>1, FreshLemma, RowFields
    <2> QED
      BY <2>1, UsedLemma
  <1>3. \A s \in Subs : Fresh(r, s) \in Row /\ row[s] \in Row
    BY FreshLemma DEF SubInv
  <1> QED
    BY <1>1, <1>2, <1>3 DEF Charged

(* A field of a request's charge. *)
LEMMA ChargeField ==
    ASSUME SubInv, NEW r \in Requests
    PROVE  /\ charge[r].sub \in Subs \cup {0} /\ charge[r].pre \in Nat
           /\ charge[r].delta \in Int
           /\ \A a \in Nat : LET c == [charge EXCEPT ![r].pre = a]
                IN /\ c \in [Requests -> Charge] /\ c[r].pre = a
                   /\ c[r].sub = charge[r].sub /\ c[r].delta = charge[r].delta
                   /\ \A q \in Requests : q # r => c[q] = charge[q]
           /\ \A a \in Int : LET c == [charge EXCEPT ![r].delta = a]
                IN /\ c \in [Requests -> Charge] /\ c[r].delta = a
                   /\ c[r].sub = charge[r].sub /\ c[r].pre = charge[r].pre
                   /\ \A q \in Requests : q # r => c[q] = charge[q]
           /\ \A a \in Subs : LET c == [charge EXCEPT ![r].sub = a]
                IN /\ c \in [Requests -> Charge] /\ c[r].sub = a
                   /\ c[r].delta = charge[r].delta /\ c[r].pre = charge[r].pre
                   /\ \A q \in Requests : q # r => c[q] = charge[q]
  BY DEF SubInv, Charge

(* The clock is a number within the horizon. *)
LEMMA NowLemma == SubInv => now \in 0 .. Horizon /\ now \in Nat
  <1> SUFFICES ASSUME SubInv PROVE now \in 0 .. Horizon /\ now \in Nat
    OBVIOUS
  <1>1. now \in 1 .. Horizon
    BY DEF SubInv
  <1>2. Horizon \in Nat
    BY SubscriptionAssumption
  <1> QED
    BY <1>1, <1>2

(* PreConsumeUserSubscription opens its transaction. *)
LEMMA PreConsumeReadType ==
    ASSUME SubInv, NEW r \in Requests, PreConsumeRead(r)
    PROVE  SubInv'
  <1>1. r \in Actors /\ now \in 0 .. Horizon /\ RequestOK(r) /\ pc[r] = "idle"
    BY NowLemma DEF SubInv, Actors, RequestOK, PreConsumeRead
  <1>2. UNCHANGED <<now, row, period, group, task, held>>
    BY DEF PreConsumeRead
  <1>3. CASE Candidates # {}
    <2>1. Read(r, Candidates, now) /\ pc' = [pc EXCEPT ![r] = "pre"]
      BY <1>3 DEF PreConsumeRead, Goto
    <2>2. PICK a \in Amounts : charge' = [charge EXCEPT ![r].pre = a]
      BY <1>3 DEF PreConsumeRead
    <2>3. a \in Nat
      BY SubscriptionAssumption
    <2>4. tx' \in [Actors -> Tx] /\ tx'[r].rows = Candidates
          /\ \A b \in Actors : b # r => tx'[b] = tx[b]
      BY <1>1, <2>1, ReadLemma DEF Candidates
    <2>5. charge' \in [Requests -> Charge]
          /\ \A q \in Requests : q # r => charge'[q] = charge[q]
      BY <2>2, <2>3, ChargeField
    <2>6. RequestOK(r)'
      BY <1>3, <2>1, <2>4 DEF RequestOK, SubInv
    <2>7. "pre" \in Labels /\ row' \in [Subs -> Row] /\ held' \in [Requests -> Int]
      BY <1>2 DEF Labels, SubInv
    <2> QED
      BY <1>2, <2>1, <2>4, <2>5, <2>6, <2>7, RequestType
  <1>4. CASE Candidates = {}
    <2>1. pc' = [pc EXCEPT ![r] = "done"] /\ UNCHANGED <<tx, charge>>
      BY <1>4 DEF PreConsumeRead, Goto
    <2>2. RequestOK(r)'
      BY <1>1, <2>1 DEF RequestOK, SubInv
    <2>3. "done" \in Labels /\ row' \in [Subs -> Row] /\ held' \in [Requests -> Int]
      BY <1>2 DEF Labels, SubInv
    <2> QED
      BY <1>2, <2>1, <2>2, <2>3, RequestType DEF SubInv
  <1> QED
    BY <1>3, <1>4

(* PreConsumeUserSubscription charges a row or gives up. *)
LEMMA PreConsumeCommitType ==
    ASSUME SubInv, NEW r \in Requests, PreConsumeCommit(r)
    PROVE  SubInv'
  <1>1. r \in Actors /\ RequestOK(r) /\ pc[r] = "pre"
    BY DEF SubInv, Actors, PreConsumeCommit
  <1>2. UNCHANGED <<now, period, group, task>>
    BY DEF PreConsumeCommit
  <1>3. tx' \in [Actors -> Tx] /\ tx'[r].rows = {}
        /\ \A b \in Actors : b # r => tx'[b] = tx[b]
    BY <1>1, CloseLemma DEF PreConsumeCommit
  <1>4. ASSUME NEW c \in tx[r].rows, Charged(r, c), charge' = [charge EXCEPT ![r].sub = c],
               held' = [held EXCEPT ![r] = charge[r].pre], Goto(r, "held")
        PROVE  SubInv'
    <2>1. c \in Subs /\ row' \in [Subs -> Row]
      BY <1>4, ChargedType
    <2>2. charge' \in [Requests -> Charge] /\ charge'[r].sub = c
          /\ \A q \in Requests : q # r => charge'[q] = charge[q]
      BY <1>4, <2>1, ChargeField
    <2>3. held' \in [Requests -> Int]
      <3>1. charge[r].pre \in Int
        BY ChargeField
      <3> QED
        BY <1>4, <3>1 DEF SubInv
    <2>4. pc' = [pc EXCEPT ![r] = "held"] /\ "held" \in Labels
      BY <1>4 DEF Goto, Labels
    <2>5. RequestOK(r)'
      BY <1>3, <2>1, <2>2, <2>4 DEF RequestOK, SubInv
    <2> QED
      BY <1>2, <1>3, <2>1, <2>2, <2>3, <2>4, <2>5, RequestType
  <1>5. ASSUME Goto(r, "done"), UNCHANGED <<row, charge, held>>
        PROVE  SubInv'
    <2>1. pc' = [pc EXCEPT ![r] = "done"] /\ "done" \in Labels
      BY <1>5 DEF Goto, Labels
    <2>2. RequestOK(r)'
      BY <1>3, <2>1 DEF RequestOK, SubInv
    <2> QED
      BY <1>2, <1>3, <1>5, <2>1, <2>2, RequestType DEF SubInv
  <1> QED
    BY <1>4, <1>5 DEF PreConsumeCommit, Charged

(* PostConsumeUserSubscriptionDelta opens its transaction. *)
LEMMA DeltaReadType ==
    ASSUME SubInv, NEW r \in Requests, DeltaRead(r)
    PROVE  SubInv'
  <1>1. r \in Actors /\ now \in 0 .. Horizon /\ RequestOK(r) /\ pc[r] \in {"held", "retry"}
    BY NowLemma DEF SubInv, Actors, RequestOK, DeltaRead
  <1>2. UNCHANGED <<now, row, period, group, task, held>>
    BY DEF DeltaRead
  <1>3. charge[r].sub \in Subs
    BY <1>1 DEF RequestOK
  <1>4. PICK d \in Int : charge' = [charge EXCEPT ![r].delta = d]
    <2>1. - charge[r].pre \in Int
      BY ChargeField
    <2> QED
      BY <2>1, SubscriptionAssumption DEF DeltaRead
  <1>5. charge' \in [Requests -> Charge] /\ charge'[r].sub = charge[r].sub
        /\ \A q \in Requests : q # r => charge'[q] = charge[q]
    BY <1>4, ChargeField
  <1>6. row' \in [Subs -> Row] /\ held' \in [Requests -> Int]
    BY <1>2 DEF SubInv
  <1>7. ASSUME Read(r, {charge[r].sub}, now), Goto(r, "delta")
        PROVE  SubInv'
    <2>1. tx' \in [Actors -> Tx] /\ tx'[r].rows = {charge[r].sub}
          /\ \A b \in Actors : b # r => tx'[b] = tx[b]
      <3>1. {charge[r].sub} \in SUBSET Subs
        BY <1>3
      <3> QED
        BY <1>1, <1>7, <3>1, ReadLemma
    <2>2. pc' = [pc EXCEPT ![r] = "delta"] /\ "delta" \in Labels
      BY <1>7 DEF Goto, Labels
    <2>3. RequestOK(r)'
      BY <1>3, <1>5, <2>1, <2>2 DEF RequestOK, SubInv
    <2> QED
      BY <1>2, <1>5, <1>6, <2>1, <2>2, <2>3, RequestType
  <1>8. ASSUME Goto(r, "done"), UNCHANGED tx
        PROVE  SubInv'
    <2>1. pc' = [pc EXCEPT ![r] = "done"] /\ "done" \in Labels
      BY <1>8 DEF Goto, Labels
    <2>2. RequestOK(r)'
      BY <1>1, <1>8, <2>1 DEF RequestOK, SubInv
    <2>3. tx' \in [Actors -> Tx] /\ \A b \in Actors : b # r => tx'[b] = tx[b]
      BY <1>8 DEF SubInv
    <2> QED
      BY <1>2, <1>5, <1>6, <2>1, <2>2, <2>3, RequestType
  <1> QED
    BY <1>7, <1>8 DEF DeltaRead

(* What a delta writes: the copy with the new amount, which is checked. *)
NewUsedOf(r) == NewUsed(tx[r].snap[charge[r].sub].used, charge[r].delta)

(* The amount that a delta writes is a number. *)
LEMMA NewUsedLemma ==
    ASSUME SubInv, NEW r \in Requests, pc[r] = "delta"
    PROVE  /\ charge[r].sub \in Subs /\ tx[r].rows = {charge[r].sub}
           /\ tx[r].snap[charge[r].sub] \in Row
           /\ NewUsedOf(r) \in Nat
  <1>1. charge[r].sub \in Subs /\ tx[r] \in Tx /\ tx[r].rows = {charge[r].sub}
    BY DEF SubInv, RequestOK, Actors
  <1>2. tx[r].snap[charge[r].sub] \in Row
    BY <1>1 DEF Tx
  <1>3. tx[r].snap[charge[r].sub].used \in Nat /\ charge[r].delta \in Int
    BY <1>2, RowFields, ChargeField
  <1> QED
    BY <1>1, <1>2, <1>3 DEF NewUsedOf, NewUsed

(* PostConsumeUserSubscriptionDelta saves its row, refuses or fails. *)
LEMMA DeltaCommitType ==
    ASSUME SubInv, NEW r \in Requests, DeltaCommit(r)
    PROVE  SubInv'
  <1> DEFINE c == charge[r].sub
             new == [tx[r].snap[c] EXCEPT !.used = NewUsedOf(r)]
  <1>1. r \in Actors /\ pc[r] = "delta"
    BY DEF Actors, DeltaCommit
  <1>2. UNCHANGED <<now, period, group, charge, task>> /\ Close(r)
    BY DEF DeltaCommit
  <1>3. tx' \in [Actors -> Tx] /\ tx'[r].rows = {}
        /\ \A b \in Actors : b # r => tx'[b] = tx[b]
    BY <1>1, <1>2, CloseLemma
  <1>4. c \in Subs /\ new \in Row
    BY <1>1, NewUsedLemma, UsedLemma
  <1>5. PICK l \in {"done", "retry"} : pc' = [pc EXCEPT ![r] = l]
    BY DEF DeltaCommit, Goto
  <1>6. row' \in [Subs -> Row] /\ held' \in [Requests -> Int]
    <2> HIDE DEF new
    <2>1. CASE UNCHANGED <<row, held>>
      BY <2>1 DEF SubInv
    <2>2. CASE row' = [row EXCEPT ![c] = new]
               /\ held' = [held EXCEPT ![r] = held[r] + charge[r].delta]
      <3>1. held[r] \in Int /\ charge[r].delta \in Int
        BY ChargeField DEF SubInv
      <3>2. held[r] + charge[r].delta \in Int
        BY <3>1
      <3> QED
        BY <1>4, <2>2, <3>2 DEF SubInv
    <2> QED
      BY <2>1, <2>2 DEF DeltaCommit, NewUsedOf, new
  <1>7. RequestOK(r)'
    BY <1>1, <1>2, <1>3, <1>4, <1>5 DEF RequestOK, SubInv
  <1> QED
    BY <1>2, <1>3, <1>5, <1>6, <1>7, RequestType DEF SubInv, Labels

(* A request ends without a delta. *)
LEMMA SettledType ==
    ASSUME SubInv, NEW r \in Requests, Settled(r)
    PROVE  SubInv'
  <1>1. pc[r] = "held" /\ pc' = [pc EXCEPT ![r] = "done"] /\ "done" \in Labels
        /\ UNCHANGED <<now, row, period, group, charge, tx, task, held>>
    BY DEF Settled, Goto, Labels
  <1>2. RequestOK(r)'
    BY <1>1 DEF RequestOK, SubInv
  <1> QED
    BY <1>1, <1>2, RequestType DEF SubInv

(* The maintenance task enters a step with an empty list. *)
LEMMA StepLemma ==
    ASSUME SubInv, NEW n \in Nodes, NEW l \in {"idle", "expire", "reset"}, Step(n, l)
    PROVE  task' \in [Nodes -> Task] /\ task'[n].step = l /\ task'[n].todo = {}
           /\ \A m \in Nodes : m # n => task'[m] = task[m]
  <1> DEFINE t == [NoTask EXCEPT !.step = l]
  <1>1. t \in Task /\ t.step = l /\ t.todo = {}
    BY NoneTypes DEF NoTask, Task
  <1>2. task' = [task EXCEPT ![n] = t]
    BY DEF Step, SetTask
  <1> HIDE DEF t
  <1> QED
    BY <1>1, <1>2 DEF SubInv

(* A group is handed back to one that was recorded. *)
LEMMA GroupType ==
    ASSUME SubInv
    PROVE  /\ \A s \in Subs : Downgraded(s) \in Groups \ {""}
           /\ \A due \in SUBSET Subs : GroupAfterExpiry(due) \in Groups \ {""}
  <1>1. group \in Groups \ {""} /\ \A s \in Subs : row[s].prev \in Groups
    BY RowFields DEF SubInv
  <1>2. Upgrades \subseteq Subs
    BY SubscriptionAssumption
  <1> QED
    BY <1>1, <1>2 DEF Downgraded, GroupAfterExpiry

(* The subscriptions that have ended. *)
Ended == {s \in Subs : row[s].status = "active" /\ row[s].end <= now}
Expire == row' = [s \in Subs |-> IF s \in Ended THEN [row[s] EXCEPT !.status = "expired"]
                                 ELSE row[s]]

(* The rows after an expiry are rows. *)
LEMMA ExpireType ==
    ASSUME SubInv, Expire
    PROVE  row' \in [Subs -> Row]
  <1>1. "expired" \in Statuses /\ \A s \in Subs : row[s] \in Row
    BY DEF Statuses, SubInv
  <1>2. \A s \in Subs : [row[s] EXCEPT !.status = "expired"] \in Row
    BY <1>1, StatusLemma
  <1> QED
    BY <1>1, <1>2 DEF Expire

(* Steps of the maintenance task between two transactions. *)
LEMMA BetweenType ==
    ASSUME SubInv, NEW n \in Nodes, NEW l \in {"idle", "expire", "reset"}, Step(n, l),
           tx[n].rows = {}, row' \in [Subs -> Row], group' \in Groups \ {""},
           UNCHANGED <<now, period, pc, charge, tx, held>>
    PROVE  SubInv'
  <1>1. task' \in [Nodes -> Task] /\ \A m \in Nodes : m # n => task'[m] = task[m]
    BY StepLemma
  <1>2. NodeOK(n)'
    BY DEF NodeOK
  <1>3. tx' \in [Actors -> Tx] /\ \A b \in Actors : b # n => tx'[b] = tx[b]
    BY DEF SubInv
  <1> QED
    BY <1>1, <1>2, <1>3, NodeType

(* The maintenance task wakes up. *)
LEMMA WakeType ==
    ASSUME SubInv, NEW n \in Nodes, Wake(n)
    PROVE  SubInv'
  <1>1. NodeOK(n) /\ row \in [Subs -> Row] /\ group \in Groups \ {""}
    BY DEF SubInv
  <1> QED
    BY <1>1, BetweenType DEF Wake, NodeOK

(* ExpireDueSubscriptions keeps the types. *)
LEMMA ExpireDueType ==
    ASSUME SubInv, NEW n \in Nodes, ExpireDue(n)
    PROVE  SubInv'
  <1>1. tx[n].rows = {}
    BY DEF SubInv, NodeOK, ExpireDue
  <1>2. PICK l \in {"idle", "expire", "reset"} : Step(n, l)
    BY DEF ExpireDue
  <1>3. row' \in [Subs -> Row] /\ group' \in Groups \ {""}
    <2>1. CASE UNCHANGED <<row, group>>
      BY <2>1 DEF SubInv
    <2>2. CASE Expire /\ group' = IF Ended = {} THEN group ELSE GroupAfterExpiry(Ended)
      <3>1. group \in Groups \ {""} /\ Ended \in SUBSET Subs
        BY DEF SubInv, Ended
      <3> QED
        BY <2>2, <3>1, ExpireType, GroupType
    <2> QED
      BY <2>1, <2>2 DEF ExpireDue, Expire, Ended
  <1>4. UNCHANGED <<now, period, pc, charge, tx, held>>
    BY DEF ExpireDue
  <1> QED
    BY <1>1, <1>2, <1>3, <1>4, BetweenType

(* ResetDueSubscriptions lists the due rows. *)
LEMMA ResetQueryType ==
    ASSUME SubInv, NEW n \in Nodes, ResetQuery(n)
    PROVE  SubInv'
  <1>1. tx[n].rows = {} /\ row \in [Subs -> Row] /\ group \in Groups \ {""}
    BY DEF SubInv, NodeOK, ResetQuery
  <1>2. UNCHANGED <<now, row, period, group, pc, charge, tx, held>>
    BY DEF ResetQuery
  <1>3. CASE Step(n, "idle")
    BY <1>1, <1>2, <1>3, BetweenType
  <1>4. ASSUME NEW T \in SUBSET Subs,
               SetTask(n, [step |-> "each", todo |-> T, count |-> 0, at |-> now])
        PROVE  SubInv'
    <2> DEFINE t == [step |-> "each", todo |-> T, count |-> 0, at |-> now]
    <2>1. t \in Task
      BY NowLemma DEF Task
    <2>2. task' = [task EXCEPT ![n] = t]
      BY <1>4 DEF SetTask
    <2> HIDE DEF t
    <2>3. task' \in [Nodes -> Task] /\ \A m \in Nodes : m # n => task'[m] = task[m]
      BY <2>1, <2>2 DEF SubInv
    <2>4. NodeOK(n)'
      BY <1>1, <1>2 DEF NodeOK
    <2>5. tx' \in [Actors -> Tx] /\ \A b \in Actors : b # n => tx'[b] = tx[b]
      BY <1>2 DEF SubInv
    <2> QED
      BY <1>1, <1>2, <2>3, <2>4, <2>5, NodeType
  <1> QED
    BY <1>3, <1>4 DEF ResetQuery

(* The task's list without a row it is done with. *)
LEMMA TodoLemma ==
    ASSUME SubInv, NEW n \in Nodes, NEW T \in SUBSET Subs
    PROVE  /\ [task[n] EXCEPT !.todo = T] \in Task
           /\ [task[n] EXCEPT !.todo = T].todo = T
           /\ [task[n] EXCEPT !.todo = T].step = task[n].step
           /\ [task[n] EXCEPT !.todo = T, !.count = task[n].count + 1] \in Task
           /\ [task[n] EXCEPT !.todo = T, !.count = task[n].count + 1].todo = T
           /\ [task[n] EXCEPT !.todo = T, !.count = task[n].count + 1].step = task[n].step
  <1>1. task[n] \in Task
    BY DEF SubInv
  <1>2. task[n].count + 1 \in Nat
    BY <1>1 DEF Task
  <1> QED
    BY <1>1, <1>2 DEF Task

(* ResetDueSubscriptions reads one of them. *)
LEMMA ResetReadType ==
    ASSUME SubInv, NEW n \in Nodes, NEW s \in Subs, ResetRead(n, s)
    PROVE  SubInv'
  <1>1. tx[n].rows = {} /\ task[n] \in Task /\ task[n].step = "each" /\ s \in task[n].todo
        /\ n \in Actors /\ UNCHANGED <<now, row, period, group, pc, charge, held>>
    BY DEF SubInv, ResetRead, Actors
  <1>2. row' \in [Subs -> Row] /\ group' \in Groups \ {""}
    BY <1>1 DEF SubInv
  <1>3. CASE Read(n, {s}, task[n].at) /\ UNCHANGED task
    <2>1. task[n].at \in 0 .. Horizon /\ {s} \in SUBSET Subs
      BY <1>1 DEF Task
    <2>2. tx' \in [Actors -> Tx] /\ tx'[n].rows = {s}
          /\ \A b \in Actors : b # n => tx'[b] = tx[b]
      BY <1>1, <1>3, <2>1, ReadLemma
    <2>3. NodeOK(n)'
      BY <1>1, <1>3, <2>2 DEF NodeOK
    <2> QED
      BY <1>1, <1>2, <1>3, <2>2, <2>3, NodeType DEF SubInv
  <1>4. CASE SetTask(n, [task[n] EXCEPT !.todo = task[n].todo \ {s}]) /\ UNCHANGED tx
    <2> DEFINE t == [task[n] EXCEPT !.todo = task[n].todo \ {s}]
    <2>1. task[n].todo \ {s} \in SUBSET Subs
      BY <1>1 DEF Task
    <2>2. t \in Task
      BY <2>1, TodoLemma
    <2>3. task' = [task EXCEPT ![n] = t]
      BY <1>4 DEF SetTask
    <2> HIDE DEF t
    <2>4. task' \in [Nodes -> Task] /\ \A m \in Nodes : m # n => task'[m] = task[m]
      BY <2>2, <2>3 DEF SubInv
    <2>5. NodeOK(n)' /\ tx' \in [Actors -> Tx]
      BY <1>1, <1>4 DEF NodeOK, SubInv
    <2> QED
      BY <1>1, <1>2, <1>4, <2>4, <2>5, NodeType
  <1> QED
    BY <1>3, <1>4 DEF ResetRead

(* What a reset by the maintenance task does to the rows. *)
Reset(n, s) ==
    LET old == tx[n].snap[s]
        new == MaybeReset(s, old, tx[n].at)
    IN row' = [row EXCEPT ![s] = IF new = old THEN row[s] ELSE new]

(* ResetDueSubscriptions writes it. *)
LEMMA ResetCommitType ==
    ASSUME SubInv, NEW n \in Nodes, NEW s \in Subs, ResetCommit(n, s)
    PROVE  SubInv'
  <1>1. task[n] \in Task /\ n \in Actors /\ tx[n] \in Tx /\ tx[n].rows = {s}
        /\ UNCHANGED <<now, period, group, pc, charge, held>> /\ Close(n)
    BY DEF SubInv, ResetCommit, Actors
  <1>2. tx' \in [Actors -> Tx] /\ tx'[n].rows = {}
        /\ \A b \in Actors : b # n => tx'[b] = tx[b]
    BY <1>1, CloseLemma
  <1>3. group' \in Groups \ {""} /\ NodeOK(n)'
    BY <1>1, <1>2 DEF SubInv, NodeOK
  <1>4. row' \in [Subs -> Row]
    <2>1. tx[n].snap[s] \in Row /\ tx[n].at \in Nat
      BY <1>1, SubscriptionAssumption DEF Tx
    <2>2. MaybeReset(s, tx[n].snap[s], tx[n].at) \in Row
      BY <2>1, MaybeResetLemma
    <2> QED
      BY <2>2 DEF SubInv, ResetCommit
  <1>5. task' \in [Nodes -> Task] /\ \A m \in Nodes : m # n => task'[m] = task[m]
    <2>1. CASE Step(n, "idle")
      BY <2>1, StepLemma
    <2> DEFINE t == [task[n] EXCEPT !.todo = task[n].todo \ {s}, !.count = task[n].count + 1]
    <2>2. CASE SetTask(n, t)
      <3>1. task[n].todo \ {s} \in SUBSET Subs
        BY <1>1 DEF Task
      <3>2. t \in Task
        BY <3>1, TodoLemma
      <3>3. task' = [task EXCEPT ![n] = t]
        BY <2>2 DEF SetTask
      <3> HIDE DEF t
      <3> QED
        BY <3>2, <3>3 DEF SubInv
    <2> QED
      BY <2>1, <2>2 DEF ResetCommit
  <1> QED
    BY <1>1, <1>2, <1>3, <1>4, <1>5, NodeType

(* The batch of resets ends. *)
LEMMA ResetEndsType ==
    ASSUME SubInv, NEW n \in Nodes, ResetEnds(n)
    PROVE  SubInv'
  <1>1. tx[n].rows = {} /\ row \in [Subs -> Row] /\ group \in Groups \ {""}
    BY DEF SubInv, NodeOK, ResetEnds
  <1>2. PICK l \in {"idle", "expire", "reset"} : Step(n, l)
    BY DEF ResetEnds
  <1> QED
    BY <1>1, <1>2, BetweenType DEF ResetEnds

(* The row of a purchase. *)
Bought(s) ==
    LET end == now + Duration
        next == CalcNextResetTime(s, now, end)
        mine == IF s \in Upgrades THEN "vip" ELSE ""
    IN [status |-> "active", used |-> 0, start |-> now, end |-> end,
        last |-> IF next > 0 THEN now ELSE 0, next |-> next,
        prev |-> IF mine # "" /\ group # mine THEN group ELSE ""]

(* The row of a purchase. *)
LEMMA BoughtLemma ==
    ASSUME SubInv, NEW s \in Subs
    PROVE  /\ Bought(s) \in Row /\ Bought(s).status = "active" /\ Bought(s).used = 0
           /\ Bought(s).start = now /\ Bought(s).last \in {0, now}
           /\ Bought(s).prev = IF s \in Upgrades /\ group # "vip" THEN group ELSE ""
  <1>1. now \in Nat /\ now + Duration \in Nat
    BY NowLemma, SubscriptionAssumption
  <1>2. CalcNextResetTime(s, now, now + Duration) \in Nat
    BY <1>1, NextResetLemma
  <1>3. group \in Groups /\ "" \in Groups /\ "active" \in Statuses
    BY DEF SubInv, Groups, Statuses
  <1> QED
    BY <1>1, <1>2, <1>3 DEF Bought, Row

(* CreateUserSubscriptionFromPlanTx keeps the types; the row and the group *)
(* it writes.                                                              *)
LEMMA CreateType ==
    ASSUME SubInv, NEW s \in Subs, CreateUserSubscription(s)
    PROVE  SubInv' /\ row' = [row EXCEPT ![s] = Bought(s)]
           /\ group' = IF s \in Upgrades THEN "vip" ELSE group
  <1>1. row' = [row EXCEPT ![s] = Bought(s)]
    BY DEF CreateUserSubscription, Bought
  <1>2. group' = IF s \in Upgrades THEN "vip" ELSE group
    BY DEF CreateUserSubscription
  <1>3. row' \in [Subs -> Row] /\ group' \in Groups \ {""}
    BY <1>1, <1>2, BoughtLemma DEF SubInv, Groups
  <1>4. UNCHANGED <<now, period, pc, charge, tx, task, held>>
    BY DEF CreateUserSubscription
  <1> QED
    BY <1>1, <1>2, <1>3, <1>4, WorldType DEF SubInv

(* AdminInvalidateUserSubscription keeps the types; what it leaves of the  *)
(* row.                                                                    *)
LEMMA InvalidateType ==
    ASSUME SubInv, NEW s \in Subs, AdminInvalidate(s)
    PROVE  /\ SubInv' /\ \A o \in Subs : o # s => row'[o] = row[o]
           /\ row'[s].status = "cancelled" /\ row'[s].used = row[s].used
           /\ row'[s].start = row[s].start /\ row'[s].last = row[s].last
           /\ row'[s].prev = row[s].prev
  <1> DEFINE x == [row[s] EXCEPT !.status = "cancelled"]
             y == [x EXCEPT !.end = now]
             mid == [row EXCEPT ![s] = x]
  <1>1. row[s] \in Row /\ "cancelled" \in Statuses /\ row \in [Subs -> Row]
    BY DEF SubInv, Statuses
  <1>2. x \in Row /\ x.status = "cancelled" /\ x.used = row[s].used
        /\ x.start = row[s].start /\ x.last = row[s].last /\ x.prev = row[s].prev
    BY <1>1, StatusLemma
  <1> HIDE DEF x
  <1>3. y \in Row /\ y.status = "cancelled" /\ y.used = row[s].used
        /\ y.start = row[s].start /\ y.last = row[s].last /\ y.prev = row[s].prev
    BY <1>2, NowLemma DEF Row
  <1>4. mid \in [Subs -> Row] /\ mid[s] = x
    BY <1>1, <1>2
  <1>5. row' = [mid EXCEPT ![s] = y]
    <2>1. row' = [mid EXCEPT ![s].end = now]
      BY DEF AdminInvalidate, x
    <2> HIDE DEF mid
    <2> QED
      BY <1>4, <2>1
  <1> HIDE DEF y
  <1>6. row' = [row EXCEPT ![s] = y]
    BY <1>1, <1>5
  <1>7. row' \in [Subs -> Row] /\ row'[s] = y /\ \A o \in Subs : o # s => row'[o] = row[o]
    BY <1>1, <1>3, <1>6
  <1>8. group' \in Groups \ {""} /\ UNCHANGED <<now, period, pc, charge, tx, task, held>>
    BY GroupType DEF AdminInvalidate
  <1>9. SubInv'
    BY <1>7, <1>8, WorldType DEF SubInv
  <1> QED
    BY <1>3, <1>7, <1>9

(* AdminDeleteUserSubscription keeps the types; what it leaves of the row. *)
LEMMA DeleteType ==
    ASSUME SubInv, NEW s \in Subs, AdminDelete(s)
    PROVE  /\ SubInv' /\ \A o \in Subs : o # s => row'[o] = row[o]
           /\ row'[s].status = "deleted" /\ row'[s].used = 0 /\ row'[s].last = 0
           /\ row'[s].prev = row[s].prev
  <1> DEFINE y == [NoRow EXCEPT !.status = "deleted", !.prev = row[s].prev]
  <1>1. /\ y \in Row /\ y.status = "deleted" /\ y.used = 0 /\ y.last = 0
        /\ y.prev = row[s].prev
    <2>1. "deleted" \in Statuses /\ row[s].prev \in Groups
      BY RowFields DEF Statuses, SubInv
    <2> QED
      BY <2>1 DEF NoRow, Row
  <1>2. row' = [row EXCEPT ![s] = y]
    BY DEF AdminDelete
  <1> HIDE DEF y
  <1>3. row' \in [Subs -> Row] /\ row'[s] = y /\ \A o \in Subs : o # s => row'[o] = row[o]
    BY <1>1, <1>2 DEF SubInv
  <1>4. group' \in Groups \ {""} /\ UNCHANGED <<now, period, pc, charge, tx, task, held>>
    BY GroupType DEF AdminDelete
  <1>5. SubInv'
    BY <1>3, <1>4, WorldType DEF SubInv
  <1> QED
    BY <1>1, <1>3, <1>5

(* Time and changes of a plan keep the types. *)
LEMMA ClockType ==
    ASSUME SubInv, Tick \/ \E s \in Subs : AdminUpdatePlan(s)
    PROVE  SubInv'
  <1>1. UNCHANGED <<row, group, pc, charge, tx, task, held>>
    BY DEF Tick, AdminUpdatePlan
  <1>2. now' \in 1 .. Horizon
    <2>1. CASE Tick
      <3>1. now \in 1 .. Horizon
        BY DEF SubInv
      <3> QED
        BY <2>1, <3>1, SubscriptionAssumption DEF Tick
    <2>2. CASE \E s \in Subs : AdminUpdatePlan(s)
      BY <2>2 DEF AdminUpdatePlan, SubInv
    <2> QED
      BY <2>1, <2>2
  <1>3. period' \in [Subs -> AllPeriods]
    BY SubscriptionAssumption DEF Tick, AdminUpdatePlan, SubInv
  <1> QED
    BY <1>1, <1>2, <1>3, WorldType DEF SubInv

(* Every step keeps the types. *)
LEMMA SubNext == SubInv /\ [Next]_vars => SubInv'
  <1> SUFFICES ASSUME SubInv, [Next]_vars PROVE SubInv'
    OBVIOUS
  <1>1. CASE UNCHANGED vars
    BY <1>1, WorldType DEF SubInv, vars
  <1>2. ASSUME NEW s \in Subs, CreateUserSubscription(s) \/ AdminInvalidate(s) \/ AdminDelete(s)
        PROVE  SubInv'
    BY <1>2, CreateType, InvalidateType, DeleteType
  <1>3. CASE Tick \/ \E s \in Subs : AdminUpdatePlan(s)
    BY <1>3, ClockType
  <1>4. ASSUME NEW r \in Requests, PreConsumeRead(r) \/ RequestStep(r)
        PROVE  SubInv'
    BY <1>4, PreConsumeReadType, PreConsumeCommitType, DeltaReadType, DeltaCommitType, SettledType
       DEF RequestStep
  <1>5. ASSUME NEW n \in Nodes, NodeStep(n)
        PROVE  SubInv'
    BY <1>5, WakeType, ExpireDueType, ResetQueryType, ResetReadType, ResetCommitType, ResetEndsType
       DEF NodeStep
  <1> QED
    BY <1>1, <1>2, <1>3, <1>4, <1>5 DEF Next

-----------------------------------------------------------------------------
(* The steps that write a row, and what the others leave alone. *)

ChargeStep(r, c) ==
    /\ pc[r] = "pre" /\ c \in tx[r].rows /\ Fits(r, c) /\ Charged(r, c)
    /\ charge' = [charge EXCEPT ![r].sub = c]
    /\ held' = [held EXCEPT ![r] = charge[r].pre]
    /\ Goto(r, "held") /\ Close(r) /\ UNCHANGED group

SaveStep(r) ==
    LET s == charge[r].sub
    IN /\ pc[r] = "delta"
       /\ Total[s] = 0 \/ NewUsedOf(r) <= Total[s]
       /\ row' = [row EXCEPT ![s] = [tx[r].snap[s] EXCEPT !.used = NewUsedOf(r)]]
       /\ held' = [held EXCEPT ![r] = held[r] + charge[r].delta]
       /\ Goto(r, "done") /\ Close(r) /\ UNCHANGED <<charge, group>>

ExpireStep ==
    /\ \A s \in Ended : FreeForAdmin(s)
    /\ Expire
    /\ group' = IF Ended = {} THEN group ELSE GroupAfterExpiry(Ended)
    /\ UNCHANGED <<pc, charge, tx, held>>

ResetStep(n, s) ==
    tx[n].rows = {s} /\ Reset(n, s) /\ Close(n) /\ UNCHANGED <<group, pc, charge, held>>

(* A transaction is opened on rows that exist, or closed, or neither. *)
OpenStep(a) ==
    \E R \in SUBSET Subs, at \in 0 .. Horizon : Read(a, R, at) /\ \A s \in R : Exists(s)
QuietStep ==
    /\ UNCHANGED <<row, group, held>>
    /\ \/ UNCHANGED tx
       \/ \E a \in Actors : OpenStep(a) \/ Close(a)

(* Every step of a request or of a maintenance task is one of these. *)
LEMMA RequestSteps ==
    ASSUME SubInv, NEW r \in Requests, PreConsumeRead(r) \/ RequestStep(r)
    PROVE  QuietStep \/ SaveStep(r) \/ \E c \in tx[r].rows : ChargeStep(r, c)
  <1>1. r \in Actors
    BY DEF Actors
  <1>2. CASE PreConsumeRead(r)
    <2>1. Candidates \in SUBSET Subs /\ \A s \in Candidates : Exists(s)
      BY DEF Candidates, Exists
    <2>2. UNCHANGED tx \/ OpenStep(r)
      BY <1>2, <2>1, NowLemma DEF PreConsumeRead, OpenStep
    <2> QED
      BY <1>1, <1>2, <2>2 DEF PreConsumeRead, QuietStep
  <1>3. CASE PreConsumeCommit(r)
    BY <1>1, <1>3 DEF PreConsumeCommit, QuietStep, ChargeStep, Charged
  <1>4. CASE DeltaRead(r)
    <2>1. UNCHANGED tx \/ (Read(r, {charge[r].sub}, now) /\ Exists(charge[r].sub))
      BY <1>4 DEF DeltaRead
    <2>2. pc[r] \in {"held", "retry"} /\ UNCHANGED <<row, group, held>>
      BY <1>4 DEF DeltaRead
    <2>3. {charge[r].sub} \in SUBSET Subs
      BY <2>2 DEF SubInv, RequestOK
    <2>4. UNCHANGED tx \/ OpenStep(r)
      BY <2>1, <2>3, NowLemma DEF OpenStep
    <2> QED
      BY <1>1, <2>2, <2>4 DEF QuietStep
  <1>5. CASE DeltaCommit(r)
    BY <1>1, <1>5 DEF DeltaCommit, QuietStep, SaveStep, NewUsedOf
  <1>6. CASE Settled(r)
    BY <1>6 DEF Settled, QuietStep
  <1> QED
    BY <1>2, <1>3, <1>4, <1>5, <1>6 DEF RequestStep

(* A step of a node leaves the rows alone, expires rows or resets one. *)
LEMMA NodeSteps ==
    ASSUME SubInv, NEW n \in Nodes, NodeStep(n)
    PROVE  /\ UNCHANGED <<pc, charge, held>>
           /\ QuietStep \/ ExpireStep \/ \E s \in Subs : ResetStep(n, s)
  <1>1. n \in Actors
    BY DEF Actors
  <1>2. CASE Wake(n) \/ ResetQuery(n) \/ ResetEnds(n)
    BY <1>2 DEF Wake, ResetQuery, ResetEnds, QuietStep
  <1>3. CASE ExpireDue(n)
    BY <1>3 DEF ExpireDue, QuietStep, ExpireStep, Expire, Ended
  <1>4. ASSUME NEW s \in Subs, ResetRead(n, s)
        PROVE  UNCHANGED <<pc, charge, held>> /\ QuietStep
    <2>1. UNCHANGED tx \/ (Read(n, {s}, task[n].at) /\ Exists(s))
      BY <1>4 DEF ResetRead
    <2>2. task[n].at \in 0 .. Horizon
      BY DEF SubInv, Task
    <2>3. UNCHANGED tx \/ OpenStep(n)
      BY <2>1, <2>2 DEF OpenStep
    <2> QED
      BY <1>1, <1>4, <2>3 DEF ResetRead, QuietStep
  <1>5. ASSUME NEW s \in Subs, ResetCommit(n, s)
        PROVE  UNCHANGED <<pc, charge, held>> /\ (QuietStep \/ ResetStep(n, s))
    BY <1>1, <1>5 DEF ResetCommit, QuietStep, ResetStep, Reset
  <1> QED
    BY <1>2, <1>3, <1>4, <1>5 DEF NodeStep

(* What each of them does to the rows. *)
LEMMA ChargeRows ==
    ASSUME SubInv, NEW r \in Requests, NEW c \in tx[r].rows, ChargeStep(r, c)
    PROVE  /\ c \in Subs
           /\ row'[c].used = Fresh(r, c).used + charge[r].pre
           /\ row'[c].status = Fresh(r, c).status /\ row'[c].start = Fresh(r, c).start
           /\ row'[c].last = Fresh(r, c).last /\ row'[c].prev = Fresh(r, c).prev
           /\ row'[c].end = Fresh(r, c).end
           /\ \A s \in Subs : s # c =>
                row'[s] = row[s] \/ (s \in tx[r].rows /\ row'[s] = Fresh(r, s))
  <1> DEFINE y == [Fresh(r, c) EXCEPT !.used = Fresh(r, c).used + charge[r].pre]
  <1>1. c \in Subs /\ Charged(r, c)
    BY ChargedType DEF ChargeStep
  <1>2. row'[c] = y
    BY <1>1 DEF Charged
  <1>3. \A s \in Subs : s # c =>
          row'[s] = row[s] \/ (s \in tx[r].rows /\ row'[s] = Fresh(r, s))
    BY <1>1 DEF Charged
  <1>4. Fresh(r, c) \in Row /\ charge[r].pre \in Nat
    BY <1>1, FreshLemma, ChargeField
  <1>5. Fresh(r, c).used + charge[r].pre \in Nat
    BY <1>4, RowFields
  <1>6. /\ y.used = Fresh(r, c).used + charge[r].pre
        /\ y.status = Fresh(r, c).status /\ y.start = Fresh(r, c).start
        /\ y.last = Fresh(r, c).last /\ y.prev = Fresh(r, c).prev
        /\ y.end = Fresh(r, c).end
    BY <1>4, <1>5, UsedLemma
  <1> HIDE DEF y
  <1> QED
    BY <1>1, <1>2, <1>3, <1>6

(* What a delta writes: the copy of its transaction with another amount. *)
LEMMA SaveRows ==
    ASSUME SubInv, NEW r \in Requests, SaveStep(r)
    PROVE  LET c == charge[r].sub
               old == tx[r].snap[c]
           IN /\ c \in Subs /\ tx[r].rows = {c} /\ old \in Row
              /\ NewUsedOf(r) \in Nat /\ row'[c].used = NewUsedOf(r)
              /\ row'[c].status = old.status /\ row'[c].start = old.start
              /\ row'[c].last = old.last /\ row'[c].prev = old.prev
              /\ row'[c].end = old.end
              /\ \A s \in Subs : s # c => row'[s] = row[s]
  <1> DEFINE c == charge[r].sub
             old == tx[r].snap[c]
             y == [old EXCEPT !.used = NewUsedOf(r)]
  <1>1. c \in Subs /\ tx[r].rows = {c} /\ old \in Row /\ NewUsedOf(r) \in Nat
    BY NewUsedLemma DEF SaveStep
  <1>2. row' = [row EXCEPT ![c] = y]
    BY DEF SaveStep
  <1>3. /\ y.used = NewUsedOf(r) /\ y.status = old.status /\ y.start = old.start
        /\ y.last = old.last /\ y.prev = old.prev /\ y.end = old.end
    BY <1>1, UsedLemma
  <1> HIDE DEF y
  <1>4. row'[c] = y /\ \A s \in Subs : s # c => row'[s] = row[s]
    BY <1>1, <1>2 DEF SubInv
  <1> QED
    BY <1>1, <1>3, <1>4

(* What an expiry writes: the status of the rows that ended. *)
LEMMA ExpireRows ==
    ASSUME SubInv, Expire, NEW s \in Subs
    PROVE  /\ s \notin Ended => row'[s] = row[s]
           /\ s \in Ended => row'[s].status = "expired"
           /\ row'[s].used = row[s].used /\ row'[s].start = row[s].start
           /\ row'[s].last = row[s].last /\ row'[s].prev = row[s].prev
           /\ row'[s].end = row[s].end
  <1> DEFINE y == [row[s] EXCEPT !.status = "expired"]
  <1>1. row[s] \in Row /\ "expired" \in Statuses
    BY DEF SubInv, Statuses
  <1>2. y.status = "expired" /\ y.used = row[s].used /\ y.start = row[s].start
        /\ y.last = row[s].last /\ y.prev = row[s].prev /\ y.end = row[s].end
    BY <1>1, StatusLemma
  <1>3. row'[s] = IF s \in Ended THEN y ELSE row[s]
    BY DEF Expire
  <1> HIDE DEF y
  <1> QED
    BY <1>2, <1>3

(* What a reset writes: the reset copy of its transaction, or nothing. *)
LEMMA ResetRows ==
    ASSUME SubInv, NEW n \in Nodes, NEW s \in Subs, ResetStep(n, s)
    PROVE  /\ tx[n].snap[s] \in Row /\ tx[n].at \in Nat
           /\ row'[s] \in {row[s], MaybeReset(s, tx[n].snap[s], tx[n].at)}
           /\ \A o \in Subs : o # s => row'[o] = row[o]
  <1>1. tx[n] \in Tx
    BY DEF SubInv, Actors
  <1>2. tx[n].snap[s] \in Row /\ tx[n].at \in Nat
    BY <1>1, SubscriptionAssumption DEF Tx
  <1> QED
    BY <1>2 DEF ResetStep, Reset, SubInv

-----------------------------------------------------------------------------
(* The total. *)

(* WithinTotal is not inductive: a transaction saves the copy it read, so  *)
(* the copies have to be within the total as well.                         *)
WithinInv ==
    \A s \in Subs : Total[s] > 0 =>
        /\ row[s].used <= Total[s]
        /\ \A a \in Actors : tx[a].snap[s].used <= Total[s]

(* The copies of a transaction are old copies, rows, or empty. *)
LEMMA CopyStep ==
    ASSUME SubInv, NEW a \in Actors, OpenStep(a) \/ Close(a),
           NEW b \in Actors, NEW s \in Subs
    PROVE  tx'[b].snap[s] \in {tx[b].snap[s], row[s], NoRow}
  <1>1. CASE OpenStep(a)
    <2>1. PICK R \in SUBSET Subs, at \in 0 .. Horizon : Read(a, R, at)
      BY <1>1 DEF OpenStep
    <2> QED
      BY <2>1, ReadLemma
  <1>2. CASE Close(a)
    <2>1. NoTx.snap[s] = NoRow
      BY DEF NoTx
    <2> QED
      BY <1>2, <2>1, CloseLemma
  <1> QED
    BY <1>1, <1>2

(* Every step keeps rows and copies within the total. *)
LEMMA WithinNext == SubInv /\ WithinInv /\ [Next]_vars => WithinInv'
  <1> SUFFICES ASSUME SubInv, WithinInv, [Next]_vars, NEW s \in Subs, Total[s] > 0
               PROVE  /\ row'[s].used <= Total[s]
                      /\ \A a \in Actors : tx'[a].snap[s].used <= Total[s]
    BY DEF WithinInv
  <1>1. row[s].used <= Total[s] /\ \A a \in Actors : tx[a].snap[s].used <= Total[s]
    BY DEF WithinInv
  <1>2. Total[s] \in Nat /\ NoRow.used = 0 /\ row[s].used \in Nat
    BY SubscriptionAssumption, RowFields DEF NoRow, SubInv
  <1>3. \A r \in Requests : r \in Actors
    BY DEF Actors
  <1>4. \A n \in Nodes : n \in Actors
    BY DEF Actors
  <1>5. ASSUME NEW a \in Actors, OpenStep(a) \/ Close(a)
        PROVE  \A b \in Actors : tx'[b].snap[s].used <= Total[s]
    <2> SUFFICES ASSUME NEW b \in Actors PROVE tx'[b].snap[s].used <= Total[s]
      OBVIOUS
    <2>1. tx'[b].snap[s] \in {tx[b].snap[s], row[s], NoRow}
      BY <1>5, CopyStep
    <2> QED
      BY <1>1, <1>2, <2>1
  <1>6. CASE UNCHANGED <<row, tx>>
    BY <1>1, <1>6
  <1>7. CASE QuietStep
    BY <1>1, <1>5, <1>7 DEF QuietStep
  <1>8. ASSUME NEW o \in Subs, CreateUserSubscription(o)
        PROVE  row'[s].used <= Total[s] /\ UNCHANGED tx
    <2>1. row' = [row EXCEPT ![o] = Bought(o)] /\ UNCHANGED tx
      BY <1>8, CreateType DEF CreateUserSubscription
    <2>2. Bought(o).used = 0
      BY BoughtLemma
    <2>3. row'[s].used \in {0, row[s].used}
      BY <2>1, <2>2 DEF SubInv
    <2> QED
      BY <1>1, <1>2, <2>1, <2>3
  <1>9. ASSUME NEW o \in Subs, AdminInvalidate(o) \/ AdminDelete(o)
        PROVE  row'[s].used <= Total[s] /\ UNCHANGED tx
    <2>1. UNCHANGED tx
      BY <1>9 DEF AdminInvalidate, AdminDelete
    <2>2. row'[s].used \in {0, row[s].used}
      BY <1>9, InvalidateType, DeleteType
    <2> QED
      BY <1>1, <1>2, <2>1, <2>2
  <1>10. ASSUME NEW r \in Requests, NEW c \in tx[r].rows, ChargeStep(r, c)
         PROVE  row'[s].used <= Total[s] /\ Close(r)
    <2>1. Close(r) /\ Fits(r, c)
      BY <1>10 DEF ChargeStep
    <2>2. Fresh(r, s) \in Row /\ Fresh(r, s).used \in {0, tx[r].snap[s].used}
      BY FreshLemma
    <2>3. CASE s = c
      <3>1. row'[s].used = Fresh(r, s).used + charge[r].pre
        BY <1>10, <2>3, ChargeRows
      <3>2. Total[s] - Fresh(r, s).used >= charge[r].pre
        BY <1>2, <2>1, <2>3 DEF Fits
      <3>3. Fresh(r, s).used \in Nat /\ charge[r].pre \in Nat
        BY <2>2, RowFields, ChargeField
      <3> QED
        BY <1>2, <2>1, <3>1, <3>2, <3>3
    <2>4. CASE s # c
      <3>1. row'[s] = row[s] \/ row'[s] = Fresh(r, s)
        BY <1>10, <2>4, ChargeRows
      <3> QED
        BY <1>1, <1>2, <1>3, <2>1, <2>2, <3>1
    <2> QED
      BY <2>3, <2>4
  <1>11. ASSUME NEW r \in Requests, SaveStep(r)
         PROVE  row'[s].used <= Total[s] /\ Close(r)
    <2>1. Close(r) /\ (Total[charge[r].sub] = 0 \/ NewUsedOf(r) <= Total[charge[r].sub])
      BY <1>11 DEF SaveStep
    <2>2. row'[charge[r].sub].used = NewUsedOf(r) /\ (s # charge[r].sub => row'[s] = row[s])
      BY <1>11, SaveRows
    <2> QED
      BY <1>1, <1>2, <2>1, <2>2
  <1>12. CASE ExpireStep
    <2>1. row'[s].used = row[s].used /\ UNCHANGED tx
      BY <1>12, ExpireRows DEF ExpireStep
    <2> QED
      BY <1>1, <2>1
  <1>13. ASSUME NEW n \in Nodes, NEW o \in Subs, ResetStep(n, o)
         PROVE  row'[s].used <= Total[s] /\ Close(n)
    <2>1. Close(n)
      BY <1>13 DEF ResetStep
    <2>2. row'[s].used \in {row[s].used, 0, tx[n].snap[s].used}
      BY <1>13, ResetRows, MaybeResetLemma
    <2> QED
      BY <1>1, <1>2, <1>4, <2>1, <2>2
  <1>14. ASSUME NEW r \in Requests, PreConsumeRead(r) \/ RequestStep(r)
         PROVE  row'[s].used <= Total[s] /\ \A a \in Actors : tx'[a].snap[s].used <= Total[s]
    BY <1>3, <1>5, <1>7, <1>10, <1>11, <1>14, RequestSteps
  <1>15. ASSUME NEW n \in Nodes, NodeStep(n)
         PROVE  row'[s].used <= Total[s] /\ \A a \in Actors : tx'[a].snap[s].used <= Total[s]
    <2>1. CASE ExpireStep
      BY <1>1, <1>12, <2>1 DEF ExpireStep
    <2>2. CASE \E o \in Subs : ResetStep(n, o)
      BY <1>4, <1>5, <1>13, <2>2
    <2> QED
      BY <1>7, <1>15, <2>1, <2>2, NodeSteps
  <1>16. CASE Tick \/ \E o \in Subs : AdminUpdatePlan(o)
    BY <1>6, <1>16 DEF Tick, AdminUpdatePlan
  <1>17. ASSUME NEW o \in Subs,
                CreateUserSubscription(o) \/ AdminInvalidate(o) \/ AdminDelete(o)
         PROVE  row'[s].used <= Total[s] /\ \A a \in Actors : tx'[a].snap[s].used <= Total[s]
    BY <1>1, <1>8, <1>9, <1>17
  <1>18. CASE UNCHANGED vars
    BY <1>6, <1>18 DEF vars
  <1> QED
    BY <1>14, <1>15, <1>16, <1>17, <1>18 DEF Next

(* At the start rows and copies are empty. *)
LEMMA WithinInit == Init => WithinInv
  <1> SUFFICES ASSUME Init, NEW s \in Subs, Total[s] > 0
               PROVE  row[s].used <= Total[s] /\ \A a \in Actors : tx[a].snap[s].used <= Total[s]
    BY DEF WithinInv
  <1>1. NoRow.used = 0 /\ NoTx.snap[s] = NoRow /\ Total[s] \in Nat
    BY SubscriptionAssumption DEF NoRow, NoTx
  <1>2. row[s] = NoRow /\ \A a \in Actors : tx[a] = NoTx
    BY DEF Init
  <1> QED
    BY <1>1, <1>2

(* Types, for every instance: a transaction is open exactly between the    *)
(* read and the commit of PreConsumeUserSubscription,                      *)
(* PostConsumeUserSubscriptionDelta or ResetDueSubscriptions.              *)
THEOREM SubscriptionTypes == Spec => []TypeOK
  <1>1. Spec => []SubInv
    BY SubInit, SubNext, PTL DEF Spec
  <1> QED
    BY <1>1, SubImplied, PTL

(* No subscription with a limit is used past it: not with stale copies     *)
(* saved over each other, not by resets, refunds or retries, and whether   *)
(* or not rows are locked.                                                 *)
THEOREM WithinTotalTheorem == Spec => []WithinTotal
  <1>1. SubInv /\ WithinInv /\ [Next]_vars => (SubInv /\ WithinInv)'
    BY SubNext, WithinNext
  <1>2. WithinInv => WithinTotal
    BY DEF WithinInv, WithinTotal
  <1> QED
    BY <1>1, <1>2, SubInit, WithinInit, PTL DEF Spec

-----------------------------------------------------------------------------
(* Locked rows. *)

(* Locks keep the rows of open transactions apart. *)
RowsApart == \A a, b \in Actors : a # b => tx[a].rows \cap tx[b].rows = {}

(* A copy under a lock is what the row still is. *)
CopyCurrent == \A a \in Actors : \A s \in tx[a].rows : tx[a].snap[s] = row[s] /\ Exists(s)

(* A reset is recorded from the start on. *)
LastAfterStart == \A s \in Subs : row[s].last > 0 => row[s].last >= row[s].start

LockInv == SubInv /\ RowsApart /\ CopyCurrent /\ LastAfterStart

(* A step leaves alone the rows other transactions have locked, when it    *)
(* opens a transaction, ...                                                *)
LEMMA OpenLock ==
    ASSUME RowLocks, LockInv, NEW a \in Actors, OpenStep(a), UNCHANGED row
    PROVE  RowsApart' /\ CopyCurrent'
  <1>1. PICK R \in SUBSET Subs, at \in 0 .. Horizon : Read(a, R, at) /\ \A s \in R : Exists(s)
    BY DEF OpenStep
  <1>2. /\ tx'[a].rows = R
        /\ \A s \in Subs : tx'[a].snap[s] = IF s \in R THEN row[s] ELSE NoRow
        /\ \A b \in Actors : b # a => tx'[b] = tx[b]
    BY <1>1, ReadLemma DEF LockInv
  <1>3. \A b \in Actors \ {a} : tx[b].rows \cap R = {}
    BY <1>1 DEF Read, Free
  <1>4. RowsApart'
    BY <1>2, <1>3 DEF LockInv, RowsApart
  <1>5. CopyCurrent'
    BY <1>1, <1>2 DEF LockInv, CopyCurrent, Exists
  <1> QED
    BY <1>4, <1>5

(* ... when it commits one, ...                                            *)
LEMMA CloseLock ==
    ASSUME LockInv, NEW a \in Actors, Close(a),
           \A s \in Subs : s \notin tx[a].rows => row'[s] = row[s]
    PROVE  RowsApart' /\ CopyCurrent'
  <1>1. tx'[a].rows = {} /\ \A b \in Actors : b # a => tx'[b] = tx[b]
    BY CloseLemma DEF LockInv
  <1>2. RowsApart'
    BY <1>1 DEF LockInv, RowsApart
  <1>3. CopyCurrent'
    <2> SUFFICES ASSUME NEW b \in Actors, b # a, NEW s \in tx[b].rows
                 PROVE  tx'[b].snap[s] = row'[s] /\ Exists(s)'
      BY <1>1 DEF CopyCurrent
    <2>1. s \in Subs /\ s \notin tx[a].rows
      BY DEF LockInv, SubInv, Tx, RowsApart
    <2>2. row'[s] = row[s] /\ tx[b].snap[s] = row[s] /\ Exists(s)
      BY <2>1 DEF LockInv, CopyCurrent
    <2> QED
      BY <1>1, <2>2 DEF Exists
  <1> QED
    BY <1>2, <1>3

(* ... and when it writes a row without one. *)
LEMMA OutsideLock ==
    ASSUME LockInv, UNCHANGED tx,
           \A a \in Actors : \A s \in tx[a].rows : row'[s] = row[s]
    PROVE  RowsApart' /\ CopyCurrent'
  BY DEF LockInv, RowsApart, CopyCurrent, Exists

(* What a step may do to a row: never revive or forget it, never set its   *)
(* last reset back, never record one before its start.                     *)
Revives(s) == row[s].status \in {"expired", "cancelled", "deleted"} /\ row'[s].status = "active"
SetsBack(s) == Exists(s) /\ row'[s].status # "deleted" /\ ~(row'[s].last >= row[s].last)
RowForward(s) ==
    /\ ~Revives(s) /\ ~SetsBack(s)
    /\ row'[s].status = "none" => row[s].status = "none"
    /\ row'[s].last > 0 => row'[s].last >= row'[s].start

(* A row that keeps its status, start and last reset. *)
LEMMA SameForward ==
    ASSUME LockInv, NEW s \in Subs, row'[s].status = row[s].status,
           row'[s].start = row[s].start, row'[s].last = row[s].last
    PROVE  RowForward(s)
  <1>1. row[s].last \in Nat /\ (row[s].last > 0 => row[s].last >= row[s].start)
    BY RowFields DEF LockInv, LastAfterStart, SubInv
  <1> QED
    BY <1>1 DEF RowForward, Revives, SetsBack

(* A pre-consumption revives no row and sets none back. *)
LEMMA ChargeForward ==
    ASSUME LockInv, NEW r \in Requests, NEW c \in tx[r].rows, ChargeStep(r, c)
    PROVE  (\A s \in Subs : RowForward(s)) /\ RowsApart' /\ CopyCurrent'
  <1>1. \A s \in tx[r].rows : s \in Subs /\ tx[r].snap[s] = row[s]
    BY DEF LockInv, CopyCurrent, SubInv, Tx, Actors
  <1>2. ASSUME NEW s \in Subs
        PROVE  RowForward(s)
    <2>1. CASE row'[s] = row[s]
      BY <2>1, SameForward
    <2>2. CASE s \in tx[r].rows /\ row'[s].status = Fresh(r, s).status
               /\ row'[s].start = Fresh(r, s).start /\ row'[s].last = Fresh(r, s).last
      <3>1. row[s].last > 0 => row[s].last >= row[s].start
        BY DEF LockInv, LastAfterStart
      <3> QED
        BY <1>1, <2>2, <3>1, FreshLemma DEF LockInv, RowForward, Revives, SetsBack
    <2> QED
      BY <2>1, <2>2, ChargeRows DEF LockInv
  <1>3. \A s \in Subs : s \notin tx[r].rows => row'[s] = row[s]
    BY ChargeRows DEF LockInv
  <1>4. Close(r) /\ r \in Actors
    BY DEF ChargeStep, Actors
  <1> QED
    BY <1>2, <1>3, <1>4, CloseLock

(* A delta revives no row and sets none back. *)
LEMMA SaveForward ==
    ASSUME LockInv, NEW r \in Requests, SaveStep(r)
    PROVE  (\A s \in Subs : RowForward(s)) /\ RowsApart' /\ CopyCurrent'
  <1> DEFINE c == charge[r].sub
  <1>1. /\ c \in Subs /\ tx[r].rows = {c}
        /\ row'[c].status = tx[r].snap[c].status /\ row'[c].start = tx[r].snap[c].start
        /\ row'[c].last = tx[r].snap[c].last
        /\ \A s \in Subs : s # c => row'[s] = row[s]
    BY SaveRows DEF LockInv
  <1>2. tx[r].snap[c] = row[c] /\ r \in Actors /\ Close(r)
    BY <1>1 DEF LockInv, CopyCurrent, Actors, SaveStep
  <1> HIDE DEF c
  <1>3. \A s \in Subs : RowForward(s)
    BY <1>1, <1>2, SameForward
  <1> QED
    BY <1>1, <1>2, <1>3, CloseLock

(* A reset revives no row and sets none back. *)
LEMMA ResetForward ==
    ASSUME LockInv, NEW n \in Nodes, NEW o \in Subs, ResetStep(n, o)
    PROVE  (\A s \in Subs : RowForward(s)) /\ RowsApart' /\ CopyCurrent'
  <1>1. n \in Actors /\ Close(n) /\ tx[n].rows = {o}
    BY DEF Actors, ResetStep
  <1>2. tx[n].snap[o] = row[o] /\ (row[o].last > 0 => row[o].last >= row[o].start)
    BY <1>1 DEF LockInv, CopyCurrent, LastAfterStart
  <1>3. /\ tx[n].snap[o] \in Row /\ tx[n].at \in Nat
        /\ row'[o] \in {row[o], MaybeReset(o, tx[n].snap[o], tx[n].at)}
        /\ \A s \in Subs : s # o => row'[s] = row[s]
    BY ResetRows DEF LockInv
  <1>4. RowForward(o)
    <2>1. CASE row'[o] = row[o]
      BY <2>1, SameForward
    <2>2. CASE row'[o] = MaybeReset(o, row[o], tx[n].at)
      BY <1>2, <1>3, <2>2, MaybeResetLemma DEF RowForward, Revives, SetsBack
    <2> QED
      BY <1>2, <1>3, <2>1, <2>2
  <1>5. \A s \in Subs : s # o => RowForward(s)
    BY <1>3, SameForward
  <1> QED
    BY <1>1, <1>3, <1>4, <1>5, CloseLock

(* An expiry sets no row back and waits for the locks. *)
LEMMA ExpireForward ==
    ASSUME RowLocks, LockInv, ExpireStep
    PROVE  (\A s \in Subs : RowForward(s)) /\ RowsApart' /\ CopyCurrent'
  <1>1. ASSUME NEW s \in Subs
        PROVE  RowForward(s)
    <2>1. s \notin Ended => row'[s] = row[s]
      BY ExpireRows DEF LockInv, ExpireStep
    <2>2. s \in Ended => row'[s].status = "expired" /\ row[s].status = "active"
      BY ExpireRows DEF LockInv, ExpireStep, Ended
    <2>3. row'[s].start = row[s].start /\ row'[s].last = row[s].last
      BY ExpireRows DEF LockInv, ExpireStep
    <2>4. row[s].last \in Nat /\ (row[s].last > 0 => row[s].last >= row[s].start)
      BY RowFields DEF LockInv, LastAfterStart, SubInv
    <2> QED
      BY <2>1, <2>2, <2>3, <2>4, SameForward DEF RowForward, Revives, SetsBack
  <1>2. \A a \in Actors : \A s \in tx[a].rows : s \in Subs /\ s \notin Ended
    BY DEF LockInv, SubInv, Tx, ExpireStep, FreeForAdmin
  <1>3. \A a \in Actors : \A s \in tx[a].rows : row'[s] = row[s]
    BY <1>2, ExpireRows DEF LockInv, ExpireStep
  <1> QED
    BY <1>1, <1>3, OutsideLock DEF ExpireStep

(* A purchase, a cancellation and a deletion wait for the locks. *)
LEMMA WorldForward ==
    ASSUME RowLocks, LockInv, NEW o \in Subs,
           CreateUserSubscription(o) \/ AdminInvalidate(o) \/ AdminDelete(o)
    PROVE  (\A s \in Subs : RowForward(s)) /\ RowsApart' /\ CopyCurrent'
  <1>1. \A s \in Subs : s # o => row'[s] = row[s]
    BY CreateType, InvalidateType, DeleteType DEF LockInv, SubInv
  <1>2. RowForward(o)
    <2>1. row[o].last \in Nat /\ (row[o].last > 0 => row[o].last >= row[o].start)
      BY RowFields DEF LockInv, LastAfterStart, SubInv
    <2>2. CASE CreateUserSubscription(o)
      <3>1. row'[o] = Bought(o) /\ row[o].status = "none"
        BY <2>2, CreateType DEF LockInv, SubInv, CreateUserSubscription
      <3>2. Bought(o).start = now /\ Bought(o).last \in {0, now} /\ now \in Nat
            /\ Bought(o).status = "active"
        BY BoughtLemma, NowLemma DEF LockInv
      <3> QED
        BY <3>1, <3>2 DEF RowForward, Revives, SetsBack, Exists
    <2>3. CASE AdminInvalidate(o)
      BY <2>1, <2>3, InvalidateType DEF LockInv, RowForward, Revives, SetsBack
    <2>4. CASE AdminDelete(o)
      BY <2>4, DeleteType DEF LockInv, RowForward, Revives, SetsBack
    <2> QED
      BY <2>2, <2>3, <2>4
  <1>3. \A a \in Actors : o \notin tx[a].rows
    BY DEF LockInv, CopyCurrent, Exists, CreateUserSubscription, AdminInvalidate, AdminDelete,
           FreeForAdmin
  <1>4. \A a \in Actors : \A s \in tx[a].rows : row'[s] = row[s]
    BY <1>1, <1>3 DEF LockInv, SubInv, Tx
  <1>5. UNCHANGED tx
    BY DEF CreateUserSubscription, AdminInvalidate, AdminDelete
  <1>6. \A s \in Subs : s # o => RowForward(s)
    BY <1>1, SameForward
  <1> QED
    BY <1>2, <1>4, <1>5, <1>6, OutsideLock

(* A step that writes no row opens a transaction on free rows, or closes   *)
(* one.                                                                    *)
LEMMA QuietForward ==
    ASSUME RowLocks, LockInv, QuietStep
    PROVE  (\A s \in Subs : RowForward(s)) /\ RowsApart' /\ CopyCurrent'
  <1>1. UNCHANGED row /\ (UNCHANGED tx \/ \E a \in Actors : OpenStep(a) \/ Close(a))
    BY DEF QuietStep
  <1>2. \A s \in Subs : RowForward(s)
    BY <1>1, SameForward
  <1>3. RowsApart' /\ CopyCurrent'
    BY <1>1, OpenLock, CloseLock, OutsideLock
  <1> QED
    BY <1>2, <1>3

(* With the rows locked, every step goes forward. *)
LEMMA ForwardNext ==
    ASSUME RowLocks, LockInv, [Next]_vars
    PROVE  LockInv' /\ \A s \in Subs : RowForward(s)
  <1>2. ASSUME NEW r \in Requests, PreConsumeRead(r) \/ RequestStep(r)
        PROVE  (\A s \in Subs : RowForward(s)) /\ RowsApart' /\ CopyCurrent'
    BY <1>2, RequestSteps, ChargeForward, SaveForward, QuietForward DEF LockInv
  <1>3. ASSUME NEW n \in Nodes, NodeStep(n)
        PROVE  (\A s \in Subs : RowForward(s)) /\ RowsApart' /\ CopyCurrent'
    BY <1>3, NodeSteps, ExpireForward, ResetForward, QuietForward DEF LockInv
  <1>4. ASSUME NEW o \in Subs,
               CreateUserSubscription(o) \/ AdminInvalidate(o) \/ AdminDelete(o)
        PROVE  (\A s \in Subs : RowForward(s)) /\ RowsApart' /\ CopyCurrent'
    BY <1>4, WorldForward
  <1>5. ASSUME UNCHANGED vars \/ Tick \/ \E o \in Subs : AdminUpdatePlan(o)
        PROVE  (\A s \in Subs : RowForward(s)) /\ RowsApart' /\ CopyCurrent'
    <2>1. QuietStep
      BY <1>5 DEF QuietStep, vars, Tick, AdminUpdatePlan
    <2> QED
      BY <2>1, QuietForward
  <1>6. (\A s \in Subs : RowForward(s)) /\ RowsApart' /\ CopyCurrent'
    BY <1>2, <1>3, <1>4, <1>5 DEF Next
  <1>7. SubInv'
    BY SubNext DEF LockInv
  <1>8. LastAfterStart'
    BY <1>6 DEF RowForward, LastAfterStart
  <1> QED
    BY <1>6, <1>7, <1>8 DEF LockInv

(* At the start no row is locked. *)
LEMMA LockInit == Init => LockInv
  <1> SUFFICES ASSUME Init PROVE LockInv
    OBVIOUS
  <1>1. \A a \in Actors : tx[a].rows = {}
    BY NoneTypes DEF Init
  <1>2. \A s \in Subs : row[s].last = 0
    BY DEF Init, NoRow
  <1> QED
    BY <1>1, <1>2, SubInit DEF LockInv, RowsApart, CopyCurrent, LastAfterStart

(* The invariant of the locks, for every behaviour. *)
LEMMA LockInvariant ==
    ASSUME RowLocks
    PROVE  Spec => []LockInv
  <1>1. LockInv /\ [Next]_vars => LockInv'
    BY ForwardNext
  <1> QED
    BY <1>1, LockInit, PTL DEF Spec

(* With locked rows a subscription that expired, was cancelled or deleted  *)
(* stays so: no request and no maintenance task saves an active copy of it *)
(* afterwards.                                                             *)
THEOREM EndedStaysEndedTheorem ==
    ASSUME RowLocks
    PROVE  Spec => EndedStaysEnded
  <1>1. LockInv /\ [Next]_vars =>
          [\A s \in Subs : row[s].status \in {"expired", "cancelled", "deleted"} =>
             row'[s].status # "active"]_vars
    BY ForwardNext DEF RowForward, Revives
  <1> QED
    BY <1>1, LockInvariant, PTL DEF Spec, EndedStaysEnded

-----------------------------------------------------------------------------
(* What the requests hold. *)

(* SumOf, of any function. *)
Slice(f, r) == {<<r, i>> : i \in 1 .. f[r]}
Amount(f, R) == Cardinality(UNION {Slice(f, r) : r \in R})

(* SumOf is the amount of what the requests hold. *)
LEMMA SumAmount == \A R : SumOf(R) = Amount(held, R)
  BY DEF SumOf, Amount, Slice

(* The units of one request are as many as it holds. *)
LEMMA SliceLemma ==
    ASSUME NEW f, NEW r, f[r] \in Nat
    PROVE  IsFiniteSet(Slice(f, r)) /\ Cardinality(Slice(f, r)) = f[r]
  <1> DEFINE b == [i \in 1 .. f[r] |-> <<r, i>>]
  <1>1. b \in Bijection(1 .. f[r], Slice(f, r))
    BY DEF Bijection, Injection, Surjection, IsInjective, Slice
  <1>2. ExistsBijection(1 .. f[r], Slice(f, r))
    BY <1>1 DEF ExistsBijection
  <1>3. IsFiniteSet(1 .. f[r]) /\ Cardinality(1 .. f[r]) = f[r]
    BY FS_Interval
  <1> QED
    BY <1>2, <1>3, FS_Bijection

(* Finitely many requests hold a finite amount. *)
LEMMA AmountFinite ==
    ASSUME NEW f, NEW R, IsFiniteSet(R), \A r \in R : f[r] \in Nat
    PROVE  IsFiniteSet(UNION {Slice(f, r) : r \in R}) /\ Amount(f, R) \in Nat
  <1> DEFINE T == {Slice(f, r) : r \in R}
             g == [r \in R |-> Slice(f, r)]
  <1>1. g \in Surjection(R, T)
    BY DEF Surjection
  <1>2. \A S \in T : IsFiniteSet(S)
    BY SliceLemma
  <1> HIDE DEF T, g
  <1>3. IsFiniteSet(T)
    BY <1>1, FS_Surjection
  <1>4. IsFiniteSet(UNION T)
    BY <1>2, <1>3, FS_UNION
  <1>5. Cardinality(UNION T) \in Nat
    BY <1>4, FS_CardinalityType
  <1> QED
    BY <1>4, <1>5 DEF Amount, T

(* One request's part of a sum. *)
LEMMA AmountPart ==
    ASSUME NEW f, NEW R, IsFiniteSet(R), \A r \in R : f[r] \in Nat, NEW q \in R
    PROVE  /\ Amount(f, R \ {q}) \in Nat
           /\ Amount(f, R) = Amount(f, R \ {q}) + f[q]
  <1> DEFINE A == UNION {Slice(f, r) : r \in R \ {q}}
             B == Slice(f, q)
  <1>1. IsFiniteSet(R \ {q})
    BY FS_Subset
  <1>2. IsFiniteSet(A) /\ Amount(f, R \ {q}) \in Nat
    BY <1>1, AmountFinite
  <1>3. IsFiniteSet(B) /\ Cardinality(B) = f[q]
    BY SliceLemma
  <1>4. UNION {Slice(f, r) : r \in R} = A \cup B
    OBVIOUS
  <1>5. A \cap B = {}
    BY DEF Slice
  <1>6. Cardinality(A) = Amount(f, R \ {q}) /\ Amount(f, R) = Cardinality(A \cup B)
    BY <1>4 DEF Amount
  <1> HIDE DEF A, B
  <1>7. Cardinality(A \cup B) = Cardinality(A) + Cardinality(B) - Cardinality(A \cap B)
    BY <1>2, <1>3, FS_Union
  <1>8. Cardinality(A \cap B) = 0
    BY <1>5, FS_EmptySet
  <1> QED
    BY <1>2, <1>3, <1>6, <1>7, <1>8

(* A sum depends on the parts only. *)
LEMMA AmountSame ==
    ASSUME NEW f, NEW g, NEW R, \A r \in R : f[r] = g[r]
    PROVE  Amount(f, R) = Amount(g, R)
  <1>1. {Slice(f, r) : r \in R} = {Slice(g, r) : r \in R}
    BY DEF Slice
  <1> QED
    BY <1>1 DEF Amount

(* What a request holds at each of its steps. *)
Holds(r) ==
    /\ pc[r] \in {"idle", "pre"} => charge[r].sub = 0
    /\ pc[r] \in {"held", "delta", "retry"} => held[r] = charge[r].pre
    /\ pc[r] = "delta" => charge[r].pre + charge[r].delta >= 0
    /\ held[r] >= 0
    /\ \A s \in Subs : charge[r].sub = s => row[s].status # "none"
(* UsedMatchesHeld, of one subscription. *)
UsedOf(s) ==
    Exists(s) =>
        /\ row[s].used <= SumOf(Chargers(s))
        /\ row[s].last \in {0, row[s].start} => row[s].used = SumOf(Chargers(s))

HeldInv ==
    /\ LockInv
    /\ \A r \in Requests : Holds(r)
    /\ \A s \in Subs : UsedOf(s)

(* What follows from the invariant of the held amounts at once. *)
LEMMA HeldFacts ==
    ASSUME HeldInv
    PROVE  /\ SubInv /\ LockInv
           /\ \A s \in Subs : IsFiniteSet(Chargers(s)) /\ SumOf(Chargers(s)) \in Nat
           /\ \A r \in Requests : held[r] \in Nat
  <1>1. SubInv /\ LockInv
    BY DEF HeldInv, LockInv
  <1>2. \A r \in Requests : held[r] \in Nat
    <2>1. \A r \in Requests : held[r] \in Int
      BY <1>1 DEF SubInv
    <2>2. \A r \in Requests : held[r] >= 0
      BY DEF HeldInv, Holds
    <2> QED
      BY <2>1, <2>2
  <1>3. \A s \in Subs : IsFiniteSet(Chargers(s))
    BY SubscriptionAssumption, FS_Subset DEF Chargers
  <1>4. ASSUME NEW s \in Subs
        PROVE  SumOf(Chargers(s)) \in Nat
    <2>1. \A r \in Chargers(s) : held[r] \in Nat
      BY <1>2 DEF Chargers
    <2> QED
      BY <1>3, <2>1, AmountFinite, SumAmount
  <1> QED
    BY <1>1, <1>2, <1>3, <1>4

(* A request that a step does not touch. *)
LEMMA HoldsSame ==
    ASSUME HeldInv, NEW q \in Requests, \A s \in Subs : RowForward(s),
           pc'[q] = pc[q], charge'[q] = charge[q], held'[q] = held[q]
    PROVE  Holds(q)'
  BY DEF HeldInv, Holds, RowForward

(* A sum whose parts a step does not touch. *)
LEMMA SumSame ==
    ASSUME NEW s \in Subs,
           \A q \in Requests : charge'[q].sub = s <=> charge[q].sub = s,
           \A q \in Requests : charge[q].sub = s => held'[q] = held[q]
    PROVE  SumOf(Chargers(s))' = SumOf(Chargers(s))
  <1>1. Chargers(s)' = Chargers(s) /\ \A q \in Chargers(s) : held'[q] = held[q]
    BY DEF Chargers
  <1>2. Amount(held', Chargers(s)) = Amount(held, Chargers(s))
    BY <1>1, AmountSame
  <1>3. SumOf(Chargers(s))' = Amount(held', Chargers(s)')
    BY DEF SumOf, Amount, Slice
  <1> QED
    BY <1>1, <1>2, <1>3, SumAmount

(* A row that is reset, or left, while its sum stays. *)
LEMMA UsedMove ==
    ASSUME HeldInv, NEW s \in Subs, SumOf(Chargers(s))' = SumOf(Chargers(s)),
           Exists(s)' =>
             /\ Exists(s)
             /\ row'[s].used \in {0, row[s].used}
             /\ row'[s].last \in {0, row'[s].start} =>
                   row'[s].used = row[s].used /\ row[s].last \in {0, row[s].start}
    PROVE  UsedOf(s)'
  <1>1. SumOf(Chargers(s)) \in Nat /\ UsedOf(s)
    BY HeldFacts DEF HeldInv
  <1>2. CASE ~Exists(s)'
    BY <1>2 DEF UsedOf
  <1>3. CASE Exists(s)'
    <2>1. row[s].used <= SumOf(Chargers(s))
          /\ (row[s].last \in {0, row[s].start} => row[s].used = SumOf(Chargers(s)))
      BY <1>1, <1>3 DEF UsedOf
    <2>2. row'[s].used <= SumOf(Chargers(s))
      BY <1>1, <1>3, <2>1
    <2>3. row'[s].last \in {0, row'[s].start} => row'[s].used = SumOf(Chargers(s))
      BY <1>3, <2>1
    <2> QED
      BY <2>2, <2>3 DEF UsedOf
  <1> QED
    BY <1>2, <1>3

(* A charge adds what it takes to the sum of its subscription. *)
LEMMA SumCharge ==
    ASSUME HeldInv, NEW r \in Requests, NEW c \in tx[r].rows, ChargeStep(r, c)
    PROVE  /\ SumOf(Chargers(c))' = SumOf(Chargers(c)) + charge[r].pre
           /\ \A s \in Subs : s # c => SumOf(Chargers(s))' = SumOf(Chargers(s))
  <1>1. SubInv /\ LockInv /\ (\A q \in Requests : held[q] \in Nat) /\ charge[r].pre \in Nat
    BY HeldFacts, ChargeField
  <1>2. c \in Subs /\ pc[r] = "pre" /\ charge[r].sub = 0 /\ 0 \notin Subs
    <2>1. c \in Subs
      BY <1>1, ChargeRows
    <2>2. pc[r] = "pre" /\ charge[r].sub = 0
      BY DEF ChargeStep, HeldInv, Holds
    <2>3. 0 \notin Subs
      BY DEF Subs
    <2> QED
      BY <2>1, <2>2, <2>3
  <1>3. charge'[r].sub = c /\ \A q \in Requests : q # r => charge'[q] = charge[q]
    <2>1. charge' = [charge EXCEPT ![r].sub = c]
      BY DEF ChargeStep
    <2> QED
      BY <1>1, <1>2, <2>1, ChargeField
  <1>4. held'[r] = charge[r].pre /\ \A q \in Requests : q # r => held'[q] = held[q]
    <2>1. held' = [held EXCEPT ![r] = charge[r].pre]
      BY DEF ChargeStep
    <2> QED
      BY <1>1, <2>1 DEF SubInv
  <1>5. \A s \in Subs : s # c => SumOf(Chargers(s))' = SumOf(Chargers(s))
    BY <1>2, <1>3, <1>4, SumSame
  <1>6. SumOf(Chargers(c))' = SumOf(Chargers(c)) + charge[r].pre
    <2> DEFINE C == Chargers(c)
    <2>1. Chargers(c)' = C \cup {r} /\ r \notin C /\ IsFiniteSet(C)
      BY <1>2, <1>3, HeldFacts DEF Chargers
    <2>2. IsFiniteSet(C \cup {r}) /\ (C \cup {r}) \ {r} = C
      BY <2>1, FS_Union, FS_Singleton
    <2>3. \A q \in C \cup {r} : held'[q] \in Nat
      BY <1>1, <1>4 DEF Chargers
    <2>4. Amount(held', C \cup {r}) = Amount(held', C) + charge[r].pre
      BY <1>4, <2>2, <2>3, AmountPart
    <2>5. \A q \in C : held'[q] = held[q]
      BY <1>4, <2>1 DEF Chargers
    <2>6. Amount(held', C) = Amount(held, C)
      BY <2>5, AmountSame
    <2>7. SumOf(Chargers(c))' = Amount(held', Chargers(c)')
      BY DEF SumOf, Amount, Slice
    <2> QED
      BY <2>1, <2>4, <2>6, <2>7, SumAmount
  <1> QED
    BY <1>5, <1>6

(* A settlement and a refund add their delta to it. *)
LEMMA SumSave ==
    ASSUME HeldInv, NEW r \in Requests, SaveStep(r), NEW c \in Subs, c = charge[r].sub
    PROVE  /\ SumOf(Chargers(c))' = SumOf(Chargers(c)) + charge[r].delta
           /\ \A s \in Subs : s # c => SumOf(Chargers(s))' = SumOf(Chargers(s))
  <1>1. SubInv /\ LockInv /\ (\A q \in Requests : held[q] \in Nat)
        /\ charge[r].pre \in Nat /\ charge[r].delta \in Int
    BY HeldFacts, ChargeField
  <1> DEFINE C == Chargers(c)
             rest == Amount(held, C \ {r})
  <1>2. held[r] = charge[r].pre /\ charge[r].pre + charge[r].delta >= 0
    BY DEF SaveStep, HeldInv, Holds
  <1>3. UNCHANGED charge
    BY DEF SaveStep
  <1>4. /\ held'[r] = held[r] + charge[r].delta
        /\ \A q \in Requests : q # r => held'[q] = held[q]
    <2>1. held' = [held EXCEPT ![r] = held[r] + charge[r].delta]
      BY DEF SaveStep
    <2> QED
      BY <1>1, <2>1 DEF SubInv
  <1>5. held'[r] \in Nat
    BY <1>1, <1>2, <1>4
  <1>6. \A s \in Subs : s # c => SumOf(Chargers(s))' = SumOf(Chargers(s))
    BY <1>3, <1>4, SumSame
  <1>7. IsFiniteSet(C) /\ r \in C /\ \A q \in C : q \in Requests
    BY HeldFacts DEF Chargers
  <1>8. rest \in Nat /\ SumOf(C) = rest + held[r]
    <2>1. \A q \in C : held[q] \in Nat
      BY <1>1, <1>7
    <2> QED
      BY <1>7, <2>1, AmountPart, SumAmount
  <1>9. SumOf(Chargers(c))' = SumOf(C) + charge[r].delta
    <2>1. \A q \in C : held'[q] \in Nat
      BY <1>1, <1>4, <1>5, <1>7
    <2>2. Amount(held', C) = Amount(held', C \ {r}) + held'[r]
      BY <1>7, <2>1, AmountPart
    <2>3. Amount(held', C \ {r}) = rest
      <3>1. \A q \in C \ {r} : held'[q] = held[q]
        BY <1>4, <1>7
      <3> QED
        BY <3>1, AmountSame
    <2>4. SumOf(Chargers(c))' = Amount(held', C)
      BY <1>3 DEF SumOf, Amount, Slice, Chargers
    <2> HIDE DEF C, rest
    <2> QED
      BY <1>1, <1>4, <1>8, <2>2, <2>3, <2>4
  <1> QED
    BY <1>6, <1>9

(* A charge adds what it takes. *)
LEMMA HeldCharge ==
    ASSUME HeldInv, NEW r \in Requests, NEW c \in tx[r].rows, ChargeStep(r, c),
           \A s \in Subs : RowForward(s)
    PROVE  (\A q \in Requests : Holds(q)') /\ (\A s \in Subs : UsedOf(s)')
  <1>1. SubInv /\ LockInv /\ (\A q \in Requests : held[q] \in Nat) /\ charge[r].pre \in Nat
    BY HeldFacts, ChargeField
  <1>2. c \in Subs /\ pc[r] = "pre" /\ charge[r].sub = 0 /\ 0 \notin Subs
    <2>1. c \in Subs
      BY <1>1, ChargeRows
    <2>2. pc[r] = "pre" /\ charge[r].sub = 0
      BY DEF ChargeStep, HeldInv, Holds
    <2>3. 0 \notin Subs
      BY DEF Subs
    <2> QED
      BY <2>1, <2>2, <2>3
  <1>3. \A s \in tx[r].rows : tx[r].snap[s] = row[s] /\ Exists(s)
    BY <1>1 DEF LockInv, CopyCurrent, Actors
  <1>4. /\ charge'[r].sub = c /\ charge'[r].pre = charge[r].pre
        /\ \A q \in Requests : q # r => charge'[q] = charge[q]
    <2>1. charge' = [charge EXCEPT ![r].sub = c]
      BY DEF ChargeStep
    <2> QED
      BY <1>1, <1>2, <2>1, ChargeField
  <1>5. /\ held'[r] = charge[r].pre /\ pc'[r] = "held"
        /\ \A q \in Requests : q # r => held'[q] = held[q] /\ pc'[q] = pc[q]
    <2>1. held' = [held EXCEPT ![r] = charge[r].pre] /\ pc' = [pc EXCEPT ![r] = "held"]
      BY DEF ChargeStep, Goto
    <2> QED
      BY <1>1, <2>1 DEF SubInv
  <1>6. ASSUME NEW q \in Requests
        PROVE  Holds(q)'
    <2>1. CASE q # r
      BY <1>4, <1>5, <2>1, HoldsSame
    <2>2. CASE q = r
      <3>1. row'[c].status # "none"
        BY <1>2, <1>3 DEF RowForward, Exists
      <3> QED
        BY <1>1, <1>4, <1>5, <2>2, <3>1 DEF Holds
    <2> QED
      BY <2>1, <2>2
  <1>7. ASSUME NEW s \in Subs, s # c
        PROVE  UsedOf(s)'
    <2>1. SumOf(Chargers(s))' = SumOf(Chargers(s))
      BY <1>2, <1>4, <1>5, <1>7, SumSame
    <2>2. row'[s] = row[s] \/ (s \in tx[r].rows /\ row'[s] = Fresh(r, s))
      BY <1>1, <1>7, ChargeRows
    <2>3. row[s].last > 0 => row[s].last >= row[s].start
      BY <1>1 DEF LockInv, LastAfterStart
    <2>4. CASE row'[s] = row[s]
      BY <2>1, <2>4, UsedMove DEF Exists
    <2>5. CASE s \in tx[r].rows /\ row'[s] = Fresh(r, s)
      <3>1. /\ Exists(s) /\ row'[s].used \in {0, row[s].used}
            /\ row'[s].last \in {0, row'[s].start} =>
                 row'[s].used = row[s].used /\ row[s].last \in {0, row[s].start}
        BY <1>1, <1>3, <2>3, <2>5, FreshLemma
      <3> QED
        BY <2>1, <3>1, UsedMove
    <2> QED
      BY <2>2, <2>4, <2>5
  <1>8. UsedOf(c)'
    <2> DEFINE C == Chargers(c)
               sum == SumOf(C)
    <2>1. Chargers(c)' = C \cup {r} /\ r \notin C
      BY <1>2, <1>4 DEF Chargers
    <2>2. IsFiniteSet(C) /\ sum \in Nat /\ UsedOf(c) /\ Exists(c)
      BY <1>2, <1>3, HeldFacts DEF HeldInv
    <2>3. SumOf(Chargers(c))' = sum + charge[r].pre
      BY SumCharge
    <2>4. /\ row'[c].used = Fresh(r, c).used + charge[r].pre
          /\ row'[c].last = Fresh(r, c).last /\ row'[c].start = Fresh(r, c).start
      BY <1>1, ChargeRows
    <2>5. row[c].last > 0 => row[c].last >= row[c].start
      BY <1>1, <1>2 DEF LockInv, LastAfterStart
    <2>6. /\ Fresh(r, c).used \in {0, row[c].used}
          /\ Fresh(r, c).last \in {0, Fresh(r, c).start} =>
               Fresh(r, c).used = row[c].used /\ row[c].last \in {0, row[c].start}
      BY <1>1, <1>2, <1>3, <2>5, FreshLemma
    <2>7. row[c].used \in Nat /\ row[c].used <= sum
          /\ (row[c].last \in {0, row[c].start} => row[c].used = sum)
      BY <1>1, <1>2, <2>2, RowFields DEF UsedOf, SubInv
    <2> HIDE DEF sum
    <2>8. row'[c].used <= sum + charge[r].pre
      BY <1>1, <2>2, <2>4, <2>6, <2>7
    <2>9. row'[c].last \in {0, row'[c].start} => row'[c].used = sum + charge[r].pre
      BY <2>4, <2>6, <2>7
    <2> QED
      BY <2>3, <2>8, <2>9 DEF UsedOf
  <1> QED
    BY <1>6, <1>7, <1>8

(* A settlement and a refund change both by the delta. *)
LEMMA HeldSave ==
    ASSUME HeldInv, NEW r \in Requests, SaveStep(r), \A s \in Subs : RowForward(s)
    PROVE  (\A q \in Requests : Holds(q)') /\ (\A s \in Subs : UsedOf(s)')
  <1>1. SubInv /\ LockInv /\ (\A q \in Requests : held[q] \in Nat)
        /\ charge[r].pre \in Nat /\ charge[r].delta \in Int
    BY HeldFacts, ChargeField
  <1>c. PICK c \in Subs : c = charge[r].sub
    BY <1>1, SaveRows
  <1> DEFINE C == Chargers(c)
             rest == Amount(held, C \ {r})
  <1>2. /\ c \in Subs /\ pc[r] = "delta" /\ held[r] = charge[r].pre
        /\ charge[r].pre + charge[r].delta >= 0
        /\ tx[r].snap[c] = row[c] /\ Exists(c)
    <2>1. c \in Subs /\ tx[r].rows = {c} /\ pc[r] = "delta" /\ r \in Actors
      BY <1>c, <1>1, SaveRows DEF SaveStep, Actors
    <2> QED
      BY <1>1, <2>1 DEF LockInv, CopyCurrent, HeldInv, Holds
  <1>3. UNCHANGED charge
    BY DEF SaveStep
  <1>4. /\ held'[r] = held[r] + charge[r].delta /\ pc'[r] = "done"
        /\ \A q \in Requests : q # r => held'[q] = held[q] /\ pc'[q] = pc[q]
    <2>1. held' = [held EXCEPT ![r] = held[r] + charge[r].delta]
          /\ pc' = [pc EXCEPT ![r] = "done"]
      BY DEF SaveStep, Goto
    <2> QED
      BY <1>1, <2>1 DEF SubInv
  <1>5. held'[r] \in Nat
    BY <1>1, <1>2, <1>4
  <1>6. ASSUME NEW q \in Requests
        PROVE  Holds(q)'
    <2>1. CASE q # r
      BY <1>3, <1>4, <2>1, HoldsSame
    <2>2. CASE q = r
      <3>1. row'[c].status # "none"
        BY <1>2 DEF RowForward, Exists
      <3> QED
        BY <1>c, <1>3, <1>4, <1>5, <2>2, <3>1 DEF Holds
    <2> QED
      BY <2>1, <2>2
  <1>7. ASSUME NEW s \in Subs, s # c
        PROVE  UsedOf(s)'
    <2>1. SumOf(Chargers(s))' = SumOf(Chargers(s))
      BY <1>c, <1>3, <1>4, <1>7, SumSame
    <2>2. row'[s] = row[s]
      BY <1>c, <1>1, <1>7, SaveRows
    <2> QED
      BY <2>1, <2>2, UsedMove DEF Exists
  <1>8. UsedOf(c)'
    <2>1. IsFiniteSet(C) /\ UsedOf(c) /\ r \in C /\ \A q \in C : q \in Requests
      BY <1>c, <1>2, HeldFacts DEF HeldInv, Chargers
    <2>2. rest \in Nat /\ SumOf(C) = rest + held[r]
      <3>1. \A q \in C : held[q] \in Nat
        BY <1>1, <2>1
      <3> QED
        BY <2>1, <3>1, AmountPart, SumAmount
    <2>3. SumOf(Chargers(c))' = rest + held[r] + charge[r].delta
      BY <1>c, <2>2, SumSave
    <2>4. /\ row'[c].used = NewUsedOf(r) /\ row'[c].last = row[c].last
          /\ row'[c].start = row[c].start
      BY <1>c, <1>1, <1>2, SaveRows
    <2>5. row[c].used \in Nat /\ row[c].used <= SumOf(C)
          /\ (row[c].last \in {0, row[c].start} => row[c].used = SumOf(C))
      BY <1>1, <1>2, <2>1, RowFields DEF UsedOf, SubInv
    <2>6. NewUsedOf(r) = IF row[c].used + charge[r].delta < 0 THEN 0
                         ELSE row[c].used + charge[r].delta
      BY <1>c, <1>2 DEF NewUsedOf, NewUsed
    <2> HIDE DEF C, rest
    <2>7. row'[c].used <= rest + held[r] + charge[r].delta
      BY <1>1, <1>2, <2>2, <2>4, <2>5, <2>6
    <2>8. row'[c].last \in {0, row'[c].start} => row'[c].used = rest + held[r] + charge[r].delta
      BY <1>1, <1>2, <2>2, <2>4, <2>5, <2>6
    <2> QED
      BY <2>3, <2>7, <2>8 DEF UsedOf
  <1> QED
    BY <1>6, <1>7, <1>8

(* A step of a request that writes no row leaves what is held alone. *)
Kept(r) ==
    /\ UNCHANGED <<row, held>>
    /\ \A q \in Requests : q # r => pc'[q] = pc[q] /\ charge'[q] = charge[q]
    /\ charge'[r].sub = charge[r].sub
    /\ Holds(r)'

(* A step of a request saves a delta, charges a row, or leaves rows and    *)
(* held amounts alone.                                                     *)
LEMMA KeptSteps ==
    ASSUME HeldInv, NEW r \in Requests, PreConsumeRead(r) \/ RequestStep(r)
    PROVE  Kept(r) \/ SaveStep(r) \/ \E c \in tx[r].rows : ChargeStep(r, c)
  <1>1. SubInv /\ Holds(r) /\ charge[r].pre \in Nat /\ pc \in [Requests -> Labels]
    BY HeldFacts, ChargeField DEF HeldInv, SubInv
  <1>2. CASE PreConsumeRead(r)
    <2>1. UNCHANGED <<row, held>> /\ pc[r] = "idle"
      BY <1>2 DEF PreConsumeRead
    <2>2. PICK l \in {"pre", "done"} : pc' = [pc EXCEPT ![r] = l]
      BY <1>2 DEF PreConsumeRead, Goto
    <2>3. /\ charge'[r].sub = charge[r].sub
          /\ \A q \in Requests : q # r => charge'[q] = charge[q]
      <3>1. CASE UNCHANGED charge
        BY <3>1
      <3>2. CASE \E a \in Amounts : charge' = [charge EXCEPT ![r].pre = a]
        <4>1. \A a \in Amounts : a \in Nat
          BY SubscriptionAssumption
        <4> QED
          BY <1>1, <3>2, <4>1, ChargeField
      <3> QED
        BY <1>2, <3>1, <3>2 DEF PreConsumeRead
    <2>4. pc'[r] = l /\ \A q \in Requests : q # r => pc'[q] = pc[q]
      BY <1>1, <2>2
    <2>5. Holds(r)'
      BY <1>1, <2>1, <2>3, <2>4 DEF Holds
    <2> QED
      BY <2>1, <2>3, <2>4, <2>5 DEF Kept
  <1>3. CASE PreConsumeCommit(r)
    <2>1. CASE Goto(r, "done") /\ UNCHANGED <<row, charge, held>>
      <3>1. pc'[r] = "done" /\ \A q \in Requests : q # r => pc'[q] = pc[q]
        BY <1>1, <2>1 DEF Goto
      <3>2. Holds(r)'
        BY <1>1, <2>1, <3>1 DEF Holds
      <3> QED
        BY <2>1, <3>1, <3>2 DEF Kept
    <2> QED
      BY <1>3, <2>1 DEF PreConsumeCommit, ChargeStep, Charged
  <1>4. CASE DeltaRead(r)
    <2>1. UNCHANGED <<row, held>> /\ pc[r] \in {"held", "retry"}
      BY <1>4 DEF DeltaRead
    <2>2. PICK l \in {"delta", "done"} : pc' = [pc EXCEPT ![r] = l]
      BY <1>4 DEF DeltaRead, Goto
    <2>3. PICK d \in Int : charge' = [charge EXCEPT ![r].delta = d] /\ charge[r].pre + d >= 0
      <3>1. CASE charge' = [charge EXCEPT ![r].delta = - charge[r].pre]
        <4>1. - charge[r].pre \in Int /\ charge[r].pre + (- charge[r].pre) >= 0
          BY <1>1
        <4> QED
          BY <3>1, <4>1
      <3>2. CASE \E d \in Deltas : charge[r].pre + d >= 0 /\ d # 0
                                  /\ charge' = [charge EXCEPT ![r].delta = d]
        BY <3>2, SubscriptionAssumption
      <3> QED
        BY <1>4, <3>1, <3>2 DEF DeltaRead
    <2>4. /\ charge'[r].sub = charge[r].sub /\ charge'[r].pre = charge[r].pre
          /\ charge'[r].delta = d
          /\ \A q \in Requests : q # r => charge'[q] = charge[q]
      BY <1>1, <2>3, ChargeField
    <2>5. pc'[r] = l /\ \A q \in Requests : q # r => pc'[q] = pc[q]
      BY <1>1, <2>2
    <2>6. charge[r].pre + d >= 0
      BY <2>3
    <2>7. Holds(r)'
      BY <1>1, <2>1, <2>4, <2>5, <2>6 DEF Holds
    <2> QED
      BY <2>1, <2>4, <2>5, <2>7 DEF Kept
  <1>5. CASE DeltaCommit(r)
    <2>1. CASE (Goto(r, "done") \/ Goto(r, "retry")) /\ UNCHANGED <<row, held, charge>>
               /\ pc[r] = "delta"
      <3>1. pc'[r] \in {"done", "retry"} /\ \A q \in Requests : q # r => pc'[q] = pc[q]
        BY <1>1, <2>1 DEF Goto
      <3>2. Holds(r)'
        BY <1>1, <2>1, <3>1 DEF Holds
      <3> QED
        BY <2>1, <3>1, <3>2 DEF Kept
    <2> QED
      BY <1>5, <2>1 DEF DeltaCommit, SaveStep, NewUsedOf
  <1>6. CASE Settled(r)
    <2>1. pc'[r] = "done" /\ (\A q \in Requests : q # r => pc'[q] = pc[q])
          /\ UNCHANGED <<row, held, charge>>
      BY <1>1, <1>6 DEF Settled, Goto
    <2>2. Holds(r)'
      BY <1>1, <2>1 DEF Holds
    <2> QED
      BY <2>1, <2>2 DEF Kept
  <1> QED
    BY <1>2, <1>3, <1>4, <1>5, <1>6 DEF RequestStep

(* A step that leaves rows and held amounts alone keeps the invariant. *)
LEMMA HeldKept ==
    ASSUME HeldInv, NEW r \in Requests, Kept(r), \A s \in Subs : RowForward(s)
    PROVE  (\A q \in Requests : Holds(q)') /\ (\A s \in Subs : UsedOf(s)')
  <1>1. \A q \in Requests : Holds(q)'
    BY HoldsSame DEF Kept
  <1>2. ASSUME NEW s \in Subs
        PROVE  UsedOf(s)'
    <2>1. SumOf(Chargers(s))' = SumOf(Chargers(s))
      BY SumSame DEF Kept
    <2> QED
      BY <2>1, UsedMove DEF Kept, Exists
  <1> QED
    BY <1>1, <1>2

(* Steps of others than requests. *)
LEMMA HeldOutside ==
    ASSUME HeldInv, UNCHANGED <<pc, charge, held>>, \A s \in Subs : RowForward(s),
           \A s \in Subs : Exists(s)' =>
             /\ Exists(s)
             /\ row'[s].used \in {0, row[s].used}
             /\ row'[s].last \in {0, row'[s].start} =>
                   row'[s].used = row[s].used /\ row[s].last \in {0, row[s].start}
    PROVE  (\A q \in Requests : Holds(q)') /\ (\A s \in Subs : UsedOf(s)')
  <1>1. \A q \in Requests : Holds(q)'
    BY HoldsSame
  <1>2. ASSUME NEW s \in Subs
        PROVE  UsedOf(s)'
    <2>1. SumOf(Chargers(s))' = SumOf(Chargers(s))
      BY SumSame
    <2> QED
      BY <2>1, UsedMove
  <1> QED
    BY <1>1, <1>2

(* An expiry keeps the amounts, a reset sets one to zero or keeps it. *)
LEMMA HeldNode ==
    ASSUME HeldInv, NEW n \in Nodes, NodeStep(n), \A s \in Subs : RowForward(s)
    PROVE  (\A q \in Requests : Holds(q)') /\ (\A s \in Subs : UsedOf(s)')
  <1>1. SubInv /\ LockInv
    BY HeldFacts
  <1>2. UNCHANGED <<pc, charge, held>>
    BY <1>1, NodeSteps
  <1>3. CASE QuietStep
    <2>1. UNCHANGED row
      BY <1>3 DEF QuietStep
    <2> QED
      BY <1>2, <2>1, HeldOutside DEF Exists
  <1>4. CASE ExpireStep
    <2>1. ASSUME NEW s \in Subs
          PROVE  /\ Exists(s)' => Exists(s)
                 /\ row'[s].used = row[s].used /\ row'[s].last = row[s].last
                 /\ row'[s].start = row[s].start
      BY <1>1, <1>4, ExpireRows DEF ExpireStep, Exists, Ended
    <2> QED
      BY <1>2, <2>1, HeldOutside
  <1>5. ASSUME NEW o \in Subs, ResetStep(n, o)
        PROVE  (\A q \in Requests : Holds(q)') /\ (\A s \in Subs : UsedOf(s)')
    <2>1. tx[n].snap[o] = row[o] /\ Exists(o) /\ (row[o].last > 0 => row[o].last >= row[o].start)
      BY <1>1, <1>5 DEF LockInv, CopyCurrent, LastAfterStart, Actors, ResetStep
    <2>2. /\ row[o] \in Row /\ tx[n].at \in Nat
          /\ row'[o] \in {row[o], MaybeReset(o, row[o], tx[n].at)}
          /\ \A s \in Subs : s # o => row'[s] = row[s]
      BY <1>1, <1>5, <2>1, ResetRows
    <2>3. /\ row'[o].used \in {0, row[o].used}
          /\ row'[o].last \in {0, row'[o].start} =>
               row'[o].used = row[o].used /\ row[o].last \in {0, row[o].start}
      BY <2>1, <2>2, MaybeResetLemma
    <2>4. \A s \in Subs : Exists(s)' =>
             /\ Exists(s)
             /\ row'[s].used \in {0, row[s].used}
             /\ row'[s].last \in {0, row'[s].start} =>
                   row'[s].used = row[s].used /\ row[s].last \in {0, row[s].start}
      BY <2>1, <2>2, <2>3 DEF Exists
    <2> QED
      BY <1>2, <2>4, HeldOutside
  <1> QED
    BY <1>1, <1>3, <1>4, <1>5, NodeSteps

(* A new row has no chargers, an ended one keeps its amount, a deleted one *)
(* does not count.                                                         *)
LEMMA HeldWorld ==
    ASSUME HeldInv, NEW o \in Subs, \A s \in Subs : RowForward(s),
           CreateUserSubscription(o) \/ AdminInvalidate(o) \/ AdminDelete(o)
    PROVE  (\A q \in Requests : Holds(q)') /\ (\A s \in Subs : UsedOf(s)')
  <1>1. SubInv /\ LockInv
    BY HeldFacts
  <1>2. UNCHANGED <<pc, charge, held>>
    BY DEF CreateUserSubscription, AdminInvalidate, AdminDelete
  <1>3. \A s \in Subs : s # o => row'[s] = row[s]
    BY <1>1, CreateType, InvalidateType, DeleteType DEF SubInv
  <1>4. CASE CreateUserSubscription(o)
    <2>1. row'[o] = Bought(o) /\ row[o].status = "none"
      <3>1. row' = [row EXCEPT ![o] = Bought(o)]
        BY <1>1, <1>4, CreateType
      <3> QED
        BY <1>1, <1>4, <3>1 DEF SubInv, CreateUserSubscription
    <2>2. Chargers(o)' = {}
      <3>1. \A q \in Requests : charge[q].sub # o
        BY <2>1 DEF HeldInv, Holds
      <3> QED
        BY <1>2, <3>1 DEF Chargers
    <2>3. SumOf(Chargers(o))' = 0
      <3>1. SumOf(Chargers(o))' = Amount(held', Chargers(o)')
        BY DEF SumOf, Amount, Slice
      <3>2. Amount(held', {}) = 0
        <4>1. UNION {Slice(held', r) : r \in {}} = {}
          OBVIOUS
        <4> QED
          BY <4>1, FS_EmptySet DEF Amount
      <3> QED
        BY <2>2, <3>1, <3>2
    <2>4. row'[o].used = 0
      BY <1>1, <2>1, BoughtLemma
    <2>5. UsedOf(o)'
      BY <2>3, <2>4 DEF UsedOf
    <2>6. ASSUME NEW s \in Subs, s # o
          PROVE  UsedOf(s)'
      <3>1. SumOf(Chargers(s))' = SumOf(Chargers(s))
        BY <1>2, SumSame
      <3> QED
        BY <1>3, <2>6, <3>1, UsedMove DEF Exists
    <2>7. \A q \in Requests : Holds(q)'
      BY <1>2, HoldsSame
    <2> QED
      BY <2>5, <2>6, <2>7
  <1>5. CASE AdminInvalidate(o)
    <2>1. Exists(o) /\ row'[o].used = row[o].used /\ row'[o].last = row[o].last
          /\ row'[o].start = row[o].start
      BY <1>1, <1>5, InvalidateType DEF AdminInvalidate
    <2> QED
      BY <1>2, <1>3, <2>1, HeldOutside DEF Exists
  <1>6. CASE AdminDelete(o)
    <2>1. ~Exists(o)'
      BY <1>1, <1>6, DeleteType DEF Exists
    <2> QED
      BY <1>2, <1>3, <2>1, HeldOutside DEF Exists
  <1> QED
    BY <1>4, <1>5, <1>6

(* Every step keeps the invariant of the held amounts. *)
LEMMA HeldNext ==
    ASSUME RowLocks, HeldInv, [Next]_vars
    PROVE  HeldInv'
  <1> DEFINE Goal == (\A q \in Requests : Holds(q)') /\ (\A s \in Subs : UsedOf(s)')
  <1>1. LockInv' /\ \A s \in Subs : RowForward(s)
    BY ForwardNext DEF HeldInv
  <1>2. ASSUME NEW r \in Requests, PreConsumeRead(r) \/ RequestStep(r)
        PROVE  Goal
    BY <1>1, <1>2, KeptSteps, HeldKept, HeldSave, HeldCharge
  <1>3. ASSUME NEW n \in Nodes, NodeStep(n)
        PROVE  Goal
    BY <1>1, <1>3, HeldNode
  <1>4. ASSUME NEW o \in Subs,
               CreateUserSubscription(o) \/ AdminInvalidate(o) \/ AdminDelete(o)
        PROVE  Goal
    BY <1>1, <1>4, HeldWorld
  <1>5. ASSUME UNCHANGED vars \/ Tick \/ \E o \in Subs : AdminUpdatePlan(o)
        PROVE  Goal
    <2>1. UNCHANGED <<row, pc, charge, held>>
      BY <1>5 DEF vars, Tick, AdminUpdatePlan
    <2> QED
      BY <1>1, <2>1, HeldOutside DEF Exists
  <1>6. Goal
    BY <1>2, <1>3, <1>4, <1>5 DEF Next
  <1> QED
    BY <1>1, <1>6 DEF HeldInv

(* At the start nobody holds anything. *)
LEMMA HeldInit == Init => HeldInv
  <1> SUFFICES ASSUME Init PROVE HeldInv
    OBVIOUS
  <1>1. \A r \in Requests : pc[r] = "idle" /\ charge[r].sub = 0 /\ held[r] = 0
    BY DEF Init
  <1>2. 0 \notin Subs
    BY DEF Subs
  <1>3. \A r \in Requests : Holds(r)
    BY <1>1, <1>2 DEF Holds
  <1>4. \A s \in Subs : ~Exists(s)
    BY DEF Init, NoRow, Exists
  <1> QED
    BY <1>3, <1>4, LockInit DEF HeldInv, UsedOf

(* With locked rows amount_used is in step with what the requests hold:    *)
(* no charge, settlement, refund or retry of PreConsumeUserSubscription    *)
(* and PostConsumeUserSubscriptionDelta is lost or counted twice, whatever *)
(* the maintenance tasks and administrators do meanwhile.                  *)
THEOREM UsedMatchesHeldTheorem ==
    ASSUME RowLocks
    PROVE  Spec => []UsedMatchesHeld
  <1>1. HeldInv /\ [Next]_vars => HeldInv'
    BY HeldNext
  <1>2. HeldInv => UsedMatchesHeld
    BY SubImplied DEF HeldInv, LockInv, UsedOf, UsedMatchesHeld
  <1> QED
    BY <1>1, <1>2, HeldInit, PTL DEF Spec

(* What ResetOncePerPeriod says of one row in one step. *)
ResetOnce(s) ==
    Exists(s) /\ row'[s].status # "deleted" =>
        \/ row'[s].last > row[s].last
        \/ /\ row'[s].last = row[s].last
           /\ row'[s].used = NewUsed(row[s].used, HeldOn(s)' - HeldOn(s))

(* A row whose requests take and give nothing is left, or reset forward. *)
LEMMA OnceSame ==
    ASSUME HeldInv, NEW s \in Subs, SumOf(Chargers(s))' = SumOf(Chargers(s)),
           \/ row'[s].last > row[s].last
           \/ row'[s].last = row[s].last /\ row'[s].used = row[s].used
    PROVE  ResetOnce(s)
  <1>1. SumOf(Chargers(s)) \in Nat /\ row[s].used \in Nat
    BY HeldFacts, RowFields DEF SubInv
  <1>2. HeldOn(s)' - HeldOn(s) = 0
    BY <1>1 DEF HeldOn
  <1>3. NewUsed(row[s].used, 0) = row[s].used
    BY <1>1 DEF NewUsed
  <1> QED
    BY <1>2, <1>3 DEF ResetOnce

(* A pre-consumption charges what it takes, or resets forward. *)
LEMMA OnceCharge ==
    ASSUME HeldInv, NEW r \in Requests, NEW c \in tx[r].rows, ChargeStep(r, c), NEW s \in Subs
    PROVE  ResetOnce(s)
  <1>1. SubInv /\ LockInv /\ charge[r].pre \in Nat /\ SumOf(Chargers(s)) \in Nat
    BY HeldFacts, ChargeField
  <1>2. \A o \in tx[r].rows : tx[r].snap[o] = row[o]
    BY <1>1 DEF LockInv, CopyCurrent, Actors
  <1>3. s \in tx[r].rows =>
          \/ Fresh(r, s).last > row[s].last
          \/ Fresh(r, s).last = row[s].last /\ Fresh(r, s).used = row[s].used
    BY <1>1, <1>2, FreshLemma
  <1>4. CASE s # c
    <2>1. SumOf(Chargers(s))' = SumOf(Chargers(s))
      BY <1>4, SumCharge
    <2>2. row'[s] = row[s] \/ (s \in tx[r].rows /\ row'[s] = Fresh(r, s))
      BY <1>1, <1>4, ChargeRows
    <2> QED
      BY <1>3, <2>1, <2>2, OnceSame
  <1>5. CASE s = c
    <2>1. SumOf(Chargers(s))' = SumOf(Chargers(s)) + charge[r].pre
      BY <1>5, SumCharge
    <2>2. row'[s].used = Fresh(r, s).used + charge[r].pre /\ row'[s].last = Fresh(r, s).last
      BY <1>1, <1>5, ChargeRows
    <2>3. HeldOn(s)' - HeldOn(s) = charge[r].pre
      BY <1>1, <2>1 DEF HeldOn
    <2>4. row[s].used \in Nat
      BY <1>1, RowFields DEF SubInv
    <2>5. NewUsed(row[s].used, charge[r].pre) = row[s].used + charge[r].pre
      BY <1>1, <2>4 DEF NewUsed
    <2> QED
      BY <1>3, <1>5, <2>2, <2>3, <2>5 DEF ResetOnce
  <1> QED
    BY <1>4, <1>5

(* A settlement and a refund move the amount by their delta. *)
LEMMA OnceSave ==
    ASSUME HeldInv, NEW r \in Requests, SaveStep(r), NEW s \in Subs
    PROVE  ResetOnce(s)
  <1>1. SubInv /\ LockInv /\ charge[r].delta \in Int /\ SumOf(Chargers(s)) \in Nat
    BY HeldFacts, ChargeField
  <1>2. CASE s # charge[r].sub
    <2>1. charge[r].sub \in Subs /\ row'[s] = row[s]
      BY <1>1, <1>2, SaveRows
    <2>2. SumOf(Chargers(s))' = SumOf(Chargers(s))
      BY <1>2, <2>1, SumSave
    <2> QED
      BY <2>1, <2>2, OnceSame
  <1>3. CASE s = charge[r].sub
    <2>1. SumOf(Chargers(s))' = SumOf(Chargers(s)) + charge[r].delta
      BY <1>3, SumSave
    <2>2. /\ row'[s].used = NewUsedOf(r) /\ row'[s].last = tx[r].snap[s].last
          /\ tx[r].rows = {s}
      BY <1>1, <1>3, SaveRows
    <2>3. tx[r].snap[s] = row[s]
      BY <1>1, <2>2 DEF LockInv, CopyCurrent, Actors
    <2>4. HeldOn(s)' - HeldOn(s) = charge[r].delta
      BY <1>1, <2>1 DEF HeldOn
    <2> QED
      BY <1>3, <2>2, <2>3, <2>4 DEF ResetOnce, NewUsedOf
  <1> QED
    BY <1>2, <1>3

(* Every step resets forward, or moves the amount by what was taken. *)
LEMMA OnceNext ==
    ASSUME RowLocks, HeldInv, [Next]_vars, NEW s \in Subs
    PROVE  ResetOnce(s)
  <1>1. SubInv /\ LockInv
    BY HeldFacts
  <1>2. ASSUME UNCHANGED <<charge, held>>,
               \/ row'[s].last > row[s].last
               \/ row'[s].last = row[s].last /\ row'[s].used = row[s].used
        PROVE  ResetOnce(s)
    <2>1. SumOf(Chargers(s))' = SumOf(Chargers(s))
      BY <1>2, SumSame
    <2> QED
      BY <1>2, <2>1, OnceSame
  <1>3. ASSUME NEW r \in Requests, PreConsumeRead(r) \/ RequestStep(r)
        PROVE  ResetOnce(s)
    <2>1. ASSUME Kept(r) PROVE ResetOnce(s)
      <3>1. SumOf(Chargers(s))' = SumOf(Chargers(s)) /\ UNCHANGED row
        BY <2>1, SumSame DEF Kept
      <3> QED
        BY <3>1, OnceSame
    <2> QED
      BY <1>3, <2>1, KeptSteps, OnceCharge, OnceSave
  <1>4. ASSUME NEW n \in Nodes, NodeStep(n)
        PROVE  ResetOnce(s)
    <2>1. UNCHANGED <<charge, held>> /\ (QuietStep \/ ExpireStep \/ \E o \in Subs : ResetStep(n, o))
      BY <1>1, <1>4, NodeSteps
    <2>2. CASE QuietStep
      BY <1>2, <2>1, <2>2 DEF QuietStep
    <2>3. CASE ExpireStep
      BY <1>1, <1>2, <2>1, <2>3, ExpireRows DEF ExpireStep
    <2>4. ASSUME NEW o \in Subs, ResetStep(n, o)
          PROVE  ResetOnce(s)
      <3>1. tx[n].snap[o] = row[o]
        BY <1>1, <2>4 DEF LockInv, CopyCurrent, Actors, ResetStep
      <3>2. /\ row[o] \in Row /\ tx[n].at \in Nat
            /\ row'[o] \in {row[o], MaybeReset(o, row[o], tx[n].at)}
            /\ s # o => row'[s] = row[s]
        BY <1>1, <2>4, <3>1, ResetRows
      <3>3. \/ row'[s].last > row[s].last
            \/ row'[s].last = row[s].last /\ row'[s].used = row[s].used
        BY <3>2, MaybeResetLemma
      <3> QED
        BY <1>2, <2>1, <3>3
    <2> QED
      BY <2>1, <2>2, <2>3, <2>4
  <1>5. ASSUME NEW o \in Subs,
               CreateUserSubscription(o) \/ AdminInvalidate(o) \/ AdminDelete(o)
        PROVE  ResetOnce(s)
    <2>1. UNCHANGED <<charge, held>>
      BY <1>5 DEF CreateUserSubscription, AdminInvalidate, AdminDelete
    <2>2. s # o => row'[s] = row[s]
      BY <1>1, <1>5, CreateType, InvalidateType, DeleteType DEF SubInv
    <2>3. CASE s # o
      BY <1>2, <2>1, <2>2, <2>3
    <2>4. CASE s = o /\ CreateUserSubscription(o)
      BY <2>4 DEF CreateUserSubscription, ResetOnce, Exists
    <2>5. CASE s = o /\ AdminInvalidate(o)
      BY <1>1, <1>2, <2>1, <2>5, InvalidateType
    <2>6. CASE s = o /\ AdminDelete(o)
      BY <1>1, <2>6, DeleteType DEF ResetOnce
    <2> QED
      BY <1>5, <2>3, <2>4, <2>5, <2>6
  <1>6. ASSUME UNCHANGED vars \/ Tick \/ \E o \in Subs : AdminUpdatePlan(o)
        PROVE  ResetOnce(s)
    <2>1. UNCHANGED <<row, charge, held>>
      BY <1>6 DEF vars, Tick, AdminUpdatePlan
    <2> QED
      BY <1>2, <2>1
  <1> QED
    BY <1>3, <1>4, <1>5, <1>6 DEF Next

(* With locked rows no period is reset twice: whichever of the requests    *)
(* and the maintenance tasks of several nodes comes first, a row is        *)
(* emptied only together with a last reset that moves strictly forward,    *)
(* and otherwise moves by what its requests took and gave back.            *)
THEOREM ResetOncePerPeriodTheorem ==
    ASSUME RowLocks
    PROVE  Spec => ResetOncePerPeriod
  <1>1. HeldInv /\ [Next]_vars => HeldInv'
    BY HeldNext
  <1>2. HeldInv /\ [Next]_vars =>
          [\A s \in Subs : Exists(s) /\ row'[s].status # "deleted" =>
             \/ row'[s].last > row[s].last
             \/ /\ row'[s].last = row[s].last
                /\ row'[s].used = NewUsed(row[s].used, HeldOn(s)' - HeldOn(s))]_vars
    BY OnceNext DEF ResetOnce
  <1> QED
    BY <1>1, <1>2, HeldInit, PTL DEF Spec, ResetOncePerPeriod

-----------------------------------------------------------------------------
(* One step at a time. *)

(* What a request finds again at its commit: rows that were open when it   *)
(* read them, an amount and a delta that requests may ask for.             *)
Asked(r) ==
    /\ pc[r] = "pre" => /\ charge[r].pre \in Amounts
                        /\ \A s \in tx[r].rows : tx[r].snap[s].status = "active"
    /\ pc[r] = "delta" => charge[r].delta \in Deltas \cup {- charge[r].pre}

SerialInv == HeldInv /\ \A r \in Requests : Asked(r)

(* A request keeps its place, its charge and its transaction while others  *)
(* step.                                                                   *)
LEMMA OthersKeep ==
    ASSUME SubInv, NEW q \in Requests, [Next]_vars,
           ~(PreConsumeRead(q) \/ RequestStep(q))
    PROVE  pc'[q] = pc[q] /\ charge'[q] = charge[q] /\ tx'[q] = tx[q]
  <1>0. q \in Actors /\ tx \in [Actors -> Tx] /\ pc \in [Requests -> Labels]
        /\ charge \in [Requests -> Charge]
    BY DEF SubInv, Actors
  <1>1. ASSUME NEW a \in Actors, a # q, UNCHANGED tx \/ OpenStep(a) \/ Close(a)
        PROVE  tx'[q] = tx[q]
    BY <1>0, <1>1, ReadLemma, CloseLemma DEF OpenStep
  <1>2. ASSUME NEW r \in Requests, PreConsumeRead(r) \/ RequestStep(r)
        PROVE  pc'[q] = pc[q] /\ charge'[q] = charge[q] /\ tx'[q] = tx[q]
    <2>1. r # q /\ r \in Actors
      BY <1>2 DEF Actors
    <2>2. pc'[q] = pc[q]
      BY <1>0, <1>2, <2>1 DEF PreConsumeRead, RequestStep, PreConsumeCommit, DeltaRead, DeltaCommit,
         Settled, Goto
    <2>3. charge'[q] = charge[q]
      BY <1>0, <1>2, <2>1 DEF PreConsumeRead, RequestStep, PreConsumeCommit, DeltaRead, DeltaCommit,
         Settled
    <2>4. UNCHANGED tx \/ OpenStep(r) \/ Close(r)
      <3>1. Candidates \in SUBSET Subs /\ \A s \in Candidates : Exists(s)
        BY DEF Candidates, Exists
      <3>2. CASE PreConsumeRead(r)
        BY <3>1, <3>2, NowLemma DEF PreConsumeRead, OpenStep
      <3>3. CASE DeltaRead(r)
        <4>1. {charge[r].sub} \in SUBSET Subs
          BY <3>3 DEF DeltaRead, SubInv, RequestOK
        <4>2. UNCHANGED tx \/ (Read(r, {charge[r].sub}, now) /\ Exists(charge[r].sub))
          BY <3>3 DEF DeltaRead
        <4> QED BY <4>1, <4>2, NowLemma DEF OpenStep
      <3> QED BY <1>2, <3>2, <3>3 DEF RequestStep, PreConsumeCommit, DeltaCommit, Settled
    <2> QED BY <1>1, <2>1, <2>2, <2>3, <2>4
  <1>3. ASSUME NEW n \in Nodes, NodeStep(n)
        PROVE  pc'[q] = pc[q] /\ charge'[q] = charge[q] /\ tx'[q] = tx[q]
    <2>1. n # q /\ n \in Actors
      BY SubscriptionAssumption DEF Actors
    <2>2. UNCHANGED <<pc, charge>>
      BY <1>3, NodeSteps
    <2>3. UNCHANGED tx \/ OpenStep(n) \/ Close(n)
      <3>1. CASE Wake(n) \/ ExpireDue(n) \/ ResetQuery(n) \/ ResetEnds(n)
        BY <3>1 DEF Wake, ExpireDue, ResetQuery, ResetEnds
      <3>2. ASSUME NEW s \in Subs, ResetRead(n, s)
            PROVE  UNCHANGED tx \/ OpenStep(n)
        <4>1. UNCHANGED tx \/ (Read(n, {s}, task[n].at) /\ Exists(s))
          BY <3>2 DEF ResetRead
        <4>2. task[n].at \in 0 .. Horizon
          BY DEF SubInv, Task
        <4> QED BY <4>1, <4>2 DEF OpenStep
      <3>3. ASSUME NEW s \in Subs, ResetCommit(n, s)
            PROVE  Close(n)
        BY <3>3 DEF ResetCommit
      <3> QED BY <1>3, <3>1, <3>2, <3>3 DEF NodeStep
    <2> QED BY <1>1, <2>1, <2>2, <2>3
  <1>4. ASSUME \/ UNCHANGED vars \/ Tick
               \/ \E s \in Subs : \/ CreateUserSubscription(s) \/ AdminInvalidate(s)
                                  \/ AdminDelete(s) \/ AdminUpdatePlan(s)
        PROVE  UNCHANGED <<pc, charge, tx>>
    BY <1>4 DEF vars, Tick, CreateUserSubscription, AdminInvalidate, AdminDelete, AdminUpdatePlan
  <1> QED BY <1>2, <1>3, <1>4 DEF Next

(* What a request asks for is settled when it reads. *)
LEMMA AskedStep ==
    ASSUME SerialInv, NEW r \in Requests, PreConsumeRead(r) \/ RequestStep(r)
    PROVE  Asked(r)'
  <1>1. SubInv /\ r \in Actors /\ pc \in [Requests -> Labels] /\ charge[r].pre \in Nat
    BY HeldFacts, ChargeField DEF SerialInv, SubInv, Actors
  <1>2. CASE pc'[r] \notin {"pre", "delta"}
    BY <1>2 DEF Asked
  <1>3. CASE PreConsumeRead(r) /\ pc'[r] \in {"pre", "delta"}
    <2>1. pc'[r] = "pre" /\ Read(r, Candidates, now)
          /\ \E a \in Amounts : charge' = [charge EXCEPT ![r].pre = a]
      BY <1>1, <1>3 DEF PreConsumeRead, Goto
    <2>2. charge'[r].pre \in Amounts
      <3>1. PICK a \in Amounts : charge' = [charge EXCEPT ![r].pre = a]
        BY <2>1
      <3>2. a \in Nat
        BY SubscriptionAssumption
      <3>3. [charge EXCEPT ![r].pre = a][r].pre = a
        BY <1>1, <3>2, ChargeField
      <3> QED BY <3>1, <3>3
    <2>3. Candidates \in SUBSET Subs
      BY DEF Candidates
    <2>4. tx'[r].rows = Candidates /\ \A s \in Candidates : tx'[r].snap[s] = row[s]
      BY <1>1, <2>1, <2>3, NowLemma, ReadLemma
    <2>5. \A s \in tx'[r].rows : tx'[r].snap[s].status = "active"
      BY <2>4 DEF Candidates
    <2> QED BY <2>1, <2>2, <2>5 DEF Asked
  <1>4. CASE DeltaRead(r) /\ pc'[r] \in {"pre", "delta"}
    <2>1. pc'[r] = "delta"
      BY <1>1, <1>4 DEF DeltaRead, Goto
    <2>2. PICK d \in Deltas \cup {- charge[r].pre} : charge' = [charge EXCEPT ![r].delta = d]
      BY <1>4 DEF DeltaRead
    <2>3. d \in Int
      <3>1. Deltas \subseteq Int /\ - charge[r].pre \in Int
        BY <1>1, SubscriptionAssumption
      <3> QED BY <3>1
    <2>4. charge'[r].delta = d /\ charge'[r].pre = charge[r].pre
      BY <1>1, <2>2, <2>3, ChargeField
    <2> QED BY <2>1, <2>4 DEF Asked
  <1>5. CASE PreConsumeCommit(r) \/ DeltaCommit(r) \/ Settled(r)
    <2>1. pc'[r] \notin {"pre", "delta"}
      BY <1>1, <1>5 DEF PreConsumeCommit, DeltaCommit, Settled, Goto
    <2> QED BY <1>2, <2>1
  <1> QED BY <1>2, <1>3, <1>4, <1>5 DEF RequestStep

(* The invariant of the refinement, for every behaviour. *)
LEMMA SerialInvariant == ASSUME RowLocks PROVE Spec => []SerialInv
  <1>1. Init => SerialInv
    BY HeldInit DEF Init, SerialInv, Asked
  <1>2. SerialInv /\ [Next]_vars => SerialInv'
    <2> SUFFICES ASSUME SerialInv, [Next]_vars PROVE SerialInv'
      OBVIOUS
    <2>1. HeldInv'
      BY HeldNext DEF SerialInv
    <2>2. ASSUME NEW r \in Requests PROVE Asked(r)'
      <3>1. CASE PreConsumeRead(r) \/ RequestStep(r)
        BY <3>1, AskedStep
      <3>2. CASE ~(PreConsumeRead(r) \/ RequestStep(r))
        BY <3>2, OthersKeep, HeldFacts DEF SerialInv, Asked
      <3> QED BY <3>1, <3>2
    <2> QED BY <2>1, <2>2 DEF SerialInv
  <1> QED BY <1>1, <1>2, PTL DEF Spec

(* What the abstract specification sees of the rows, and of a request,     *)
(* stays the same.                                                         *)
SameRows == \A s \in Subs : StateOf(s)' = StateOf(s) /\ row'[s].used = row[s].used
SameRequest(q) ==
    PhaseOf(q)' = PhaseOf(q) /\ charge'[q].sub = charge[q].sub /\ held'[q] = held[q]

(* When all of it does, the abstract specification sees no step. *)
LEMMA SerialQuiet ==
    ASSUME SameRows, \A q \in Requests : SameRequest(q), UNCHANGED held
    PROVE  UNCHANGED Serial!vars
  BY DEF SameRows, SameRequest, Serial!vars, Serial!subscriptions, Serial!requests

(* A request that is over, and nothing else. *)
LEMMA SerialFinish ==
    ASSUME SameRows, UNCHANGED held, NEW r \in Requests,
           PhaseOf(r) # "over", PhaseOf(r)' = "over", charge'[r].sub = charge[r].sub,
           \A q \in Requests : q # r => SameRequest(q)
    PROVE  Serial!Finish(r)
  BY DEF SameRows, SameRequest, Serial!Finish, Serial!subscriptions

(* Resets, and nothing else. *)
LEMMA SerialReset ==
    ASSUME NEW R \in SUBSET Subs, UNCHANGED held, \A q \in Requests : SameRequest(q),
           \A s \in Subs : StateOf(s)' = StateOf(s),
           \A s \in Subs : row'[s].used = IF s \in R THEN 0 ELSE row[s].used
    PROVE  Serial!Reset(R)
  BY DEF SameRequest, Serial!Reset, Serial!Zeroed, Serial!requests

(* Ends, and nothing else. *)
LEMMA SerialEnd ==
    ASSUME NEW S \in SUBSET Subs, UNCHANGED held, \A q \in Requests : SameRequest(q),
           \A s \in Subs : StateOf(s)' = IF s \in S THEN "ended" ELSE StateOf(s),
           \A s \in Subs : row'[s].used = row[s].used
    PROVE  Serial!End(S)
  BY DEF SameRequest, Serial!End, Serial!requests

(* A purchase, and nothing else. *)
LEMMA SerialBuy ==
    ASSUME NEW o \in Subs, UNCHANGED held, \A q \in Requests : SameRequest(q),
           StateOf(o) = "none", StateOf(o)' = "open", row'[o].used = 0,
           \A s \in Subs : s # o => StateOf(s)' = StateOf(s) /\ row'[s].used = row[s].used
    PROVE  Serial!Buy(o)
  BY DEF SameRequest, Serial!Buy, Serial!requests

(* A deletion, and nothing else. *)
LEMMA SerialDelete ==
    ASSUME NEW o \in Subs, UNCHANGED held, \A q \in Requests : SameRequest(q),
           StateOf(o)' = "gone", row'[o].used = 0,
           \A s \in Subs : s # o => StateOf(s)' = StateOf(s) /\ row'[s].used = row[s].used
    PROVE  Serial!Delete(o)
  BY DEF SameRequest, Serial!Delete, Serial!requests

(* The parts of the abstract next-state relation. *)
LEMMA SerialSteps ==
    /\ \A s \in Subs : Serial!Buy(s) => Serial!Next
    /\ \A S \in SUBSET Subs : (\A s \in S : StateOf(s) \in {"open", "ended"}) =>
          (Serial!End(S) \/ Serial!Reset(S) => Serial!Next)
    /\ \A s \in Subs : StateOf(s) \in {"open", "ended"} /\ Serial!Delete(s) => Serial!Next
    /\ \A r \in Requests : Serial!Finish(r) => Serial!Next
  BY DEF Serial!Next, Serial!Existing

(* A request is over for good, and until then it goes on, except for a     *)
(* charge, in the same phase.                                              *)
LEMMA PhaseStep ==
    ASSUME SubInv, NEW r \in Requests, PreConsumeRead(r) \/ RequestStep(r)
    PROVE  \/ \E c \in tx[r].rows : ChargeStep(r, c)
           \/ PhaseOf(r) # "over" /\ PhaseOf(r)' \in {PhaseOf(r), "over"}
  <1>1. pc \in [Requests -> Labels]
    BY DEF SubInv
  <1>2. CASE PreConsumeRead(r)
    BY <1>1, <1>2 DEF PreConsumeRead, Goto, PhaseOf
  <1>3. CASE PreConsumeCommit(r)
    <2>1. CASE Goto(r, "done")
      BY <1>1, <1>3, <2>1 DEF PreConsumeCommit, Goto, PhaseOf
    <2> QED BY <1>3, <2>1 DEF PreConsumeCommit, ChargeStep, Charged
  <1>4. CASE DeltaRead(r)
    BY <1>1, <1>4 DEF DeltaRead, Goto, PhaseOf
  <1>5. CASE DeltaCommit(r)
    BY <1>1, <1>5 DEF DeltaCommit, Goto, PhaseOf
  <1>6. CASE Settled(r)
    BY <1>1, <1>6 DEF Settled, Goto, PhaseOf
  <1> QED BY <1>2, <1>3, <1>4, <1>5, <1>6 DEF RequestStep

(* PreConsumeUserSubscription charges an open row as it is. *)
LEMMA ChargeIsSerial ==
    ASSUME SerialInv, NEW r \in Requests, NEW c \in tx[r].rows, ChargeStep(r, c)
    PROVE  Serial!Next
  <1> DEFINE a == charge[r].pre
             left == Fresh(r, c).used
             R == {s \in tx[r].rows : Fresh(r, s).used = 0 /\ (s = c \/ row'[s].used = 0)}
  <1>1. SubInv /\ LockInv /\ r \in Actors /\ pc[r] = "pre" /\ Asked(r) /\ tx[r].rows \in SUBSET Subs
    <2>1. SubInv /\ LockInv /\ r \in Actors /\ pc[r] = "pre" /\ Asked(r)
      BY HeldFacts DEF SerialInv, ChargeStep, Actors
    <2>2. tx[r] \in Tx
      BY <2>1 DEF SubInv
    <2> QED BY <2>1, <2>2 DEF Tx
  <1>2. c \in Subs /\ a \in Amounts /\ a \in Nat
    BY <1>1, ChargeField DEF Asked
  <1>3. \A s \in tx[r].rows : /\ s \in Subs /\ tx[r].snap[s] = row[s] /\ row[s].status = "active"
                              /\ Fresh(r, s).status = "active" /\ Fresh(r, s).used \in {0, row[s].used}
    BY <1>1, FreshLemma DEF LockInv, CopyCurrent, Asked
  <1>4. /\ row'[c].used = left + a /\ row'[c].status = "active"
        /\ \A s \in Subs : s # c => row'[s] = row[s] \/ (s \in tx[r].rows /\ row'[s] = Fresh(r, s))
    BY <1>1, <1>3, ChargeRows
  <1>5. left \in Nat /\ Total[c] \in Nat /\ (Total[c] = 0 \/ Total[c] - left >= a)
    BY <1>1, <1>2, FreshLemma, RowFields, SubscriptionAssumption DEF ChargeStep, Fits
  <1>6. left = IF c \in R THEN 0 ELSE row[c].used
    BY <1>3
  <1>7. \A s \in Subs : s # c => row'[s].used = IF s \in R THEN 0 ELSE row[s].used
    BY <1>3, <1>4
  <1>8. \A s \in Subs : StateOf(s)' = StateOf(s)
    BY <1>2, <1>3, <1>4 DEF StateOf
  <1>9. R \in SUBSET Subs /\ StateOf(c) = "open" /\ \A s \in R : StateOf(s) = "open"
    BY <1>3 DEF StateOf
  <1>10. /\ charge'[r].sub = c /\ pc'[r] = "held"
         /\ \A q \in Requests : q # r => charge'[q] = charge[q] /\ pc'[q] = pc[q]
    <2>1. charge' = [charge EXCEPT ![r].sub = c] /\ pc' = [pc EXCEPT ![r] = "held"]
      BY DEF ChargeStep, Goto
    <2>2. /\ [charge EXCEPT ![r].sub = c][r].sub = c
          /\ \A q \in Requests : q # r => [charge EXCEPT ![r].sub = c][q] = charge[q]
      BY <1>1, <1>2, ChargeField
    <2> QED BY <1>1, <2>1, <2>2 DEF SubInv
  <1>11. held' = [held EXCEPT ![r] = a]
    BY DEF ChargeStep
  <1>12. PhaseOf(r) = "new" /\ PhaseOf(r)' = "charged" /\ \A q \in Requests : q # r => SameRequest(q)
    BY <1>1, <1>10, <1>11 DEF PhaseOf, SameRequest, SubInv
  <1> HIDE DEF a, left, R
  <1>13. PICK x \in Amounts, Z \in SUBSET Subs : x = a /\ Z = R
    BY <1>2, <1>9
  <1>14. Serial!Charge(r, c, x, Z)
    <2>1. Total[c] = 0 \/ left + a <= Total[c]
      BY <1>2, <1>5
    <2> QED BY <1>2, <1>4, <1>5, <1>6, <1>7, <1>8, <1>9, <1>10, <1>11, <1>12, <1>13, <2>1
            DEF SameRequest, Serial!Charge, Serial!Zeroed
  <1>15. c \in Serial!Open /\ Z \in SUBSET Serial!Open
    BY <1>2, <1>9, <1>13 DEF Serial!Open
  <1> QED BY <1>14, <1>15 DEF Serial!Next

(* PostConsumeUserSubscriptionDelta changes the amount as it is. *)
LEMMA SaveIsSerial ==
    ASSUME SerialInv, NEW r \in Requests, SaveStep(r)
    PROVE  Serial!Next
  <1> DEFINE d == charge[r].delta
             s == charge[r].sub
  <1>1. SubInv /\ LockInv /\ r \in Actors /\ pc[r] = "delta" /\ Asked(r) /\ Holds(r)
    BY HeldFacts DEF SerialInv, HeldInv, SaveStep, Actors
  <1>2. /\ s \in Subs /\ tx[r].rows = {s} /\ row'[s].used = NewUsedOf(r)
        /\ row'[s].status = tx[r].snap[s].status
        /\ \A o \in Subs : o # s => row'[o] = row[o]
    BY <1>1, SaveRows
  <1>3. tx[r].snap[s] = row[s] /\ Exists(s)
    BY <1>1, <1>2 DEF LockInv, CopyCurrent
  <1>4. NewUsedOf(r) = IF row[s].used + d < 0 THEN 0 ELSE row[s].used + d
    BY <1>3 DEF NewUsedOf, NewUsed
  <1>5. d \in Int /\ d \in Deltas \cup {- held[r]} /\ held[r] + d >= 0
    BY <1>1, ChargeField DEF Asked, Holds
  <1>6. StateOf(s) \in {"open", "ended"}
    <2>1. row[s].status \in Statuses
      BY <1>1, <1>2, RowFields DEF SubInv
    <2> QED BY <1>3, <2>1 DEF StateOf, Exists, Statuses
  <1>7. \A o \in Subs : StateOf(o)' = StateOf(o)
    BY <1>2, <1>3 DEF StateOf
  <1>8. /\ held' = [held EXCEPT ![r] = held[r] + d] /\ UNCHANGED charge
        /\ pc' = [pc EXCEPT ![r] = "done"] /\ (Total[s] = 0 \/ NewUsedOf(r) <= Total[s])
    BY DEF SaveStep, Goto
  <1>9. PhaseOf(r) = "charged" /\ PhaseOf(r)' = "over" /\ \A q \in Requests : q # r => SameRequest(q)
    BY <1>1, <1>8 DEF PhaseOf, SameRequest, SubInv
  <1>10. charge'[r].sub = s
    BY <1>8
  <1>11. \A o \in Subs : o # s => row'[o].used = row[o].used
    BY <1>2
  <1> HIDE DEF d, s
  <1>12. PICK x \in Int : x = d
    BY <1>5
  <1>13. Serial!Settle(r, x)
    BY <1>2, <1>4, <1>5, <1>6, <1>7, <1>8, <1>9, <1>10, <1>11, <1>12
       DEF SameRequest, Serial!Settle, Serial!Existing
  <1> QED BY <1>5, <1>12, <1>13 DEF Serial!Next

(* Every step of a request is a step of the abstract specification. *)
LEMMA RequestIsSerial ==
    ASSUME SerialInv, NEW r \in Requests, PreConsumeRead(r) \/ RequestStep(r)
    PROVE  [Serial!Next]_(Serial!vars)
  <1>1. SubInv /\ HeldInv
    BY HeldFacts DEF SerialInv
  <1>2. CASE SaveStep(r) \/ \E c \in tx[r].rows : ChargeStep(r, c)
    BY <1>2, SaveIsSerial, ChargeIsSerial
  <1>3. CASE Kept(r) /\ PhaseOf(r) # "over" /\ PhaseOf(r)' \in {PhaseOf(r), "over"}
    <2>1. SameRows /\ UNCHANGED held /\ charge'[r].sub = charge[r].sub
          /\ \A q \in Requests : q # r => SameRequest(q)
      BY <1>3 DEF Kept, SameRows, StateOf, SameRequest, PhaseOf
    <2>2. CASE PhaseOf(r)' = "over"
      BY <1>3, <2>1, <2>2, SerialFinish, SerialSteps
    <2>3. CASE PhaseOf(r)' = PhaseOf(r)
      <3>1. \A q \in Requests : SameRequest(q)
        BY <2>1, <2>3 DEF SameRequest
      <3> QED BY <2>1, <3>1, SerialQuiet
    <2> QED BY <1>3, <2>2, <2>3
  <1> QED BY <1>1, <1>2, <1>3, KeptSteps, PhaseStep

(* So is every step of a maintenance task: rows end, a row is reset as it  *)
(* is, or nothing of this happens.                                         *)
LEMMA NodeIsSerial ==
    ASSUME SerialInv, NEW n \in Nodes, NodeStep(n)
    PROVE  [Serial!Next]_(Serial!vars)
  <1>1. SubInv /\ LockInv /\ n \in Actors
    BY HeldFacts DEF SerialInv, Actors
  <1>2. UNCHANGED held /\ \A q \in Requests : SameRequest(q)
    BY <1>1, NodeSteps DEF SameRequest, PhaseOf
  <1>3. CASE QuietStep
    <2>1. SameRows
      BY <1>3 DEF QuietStep, SameRows, StateOf
    <2> QED BY <1>2, <2>1, SerialQuiet
  <1>4. CASE ExpireStep
    <2>1. Ended \in SUBSET Subs /\ \A s \in Ended : StateOf(s) = "open"
      BY DEF Ended, StateOf
    <2>2. PICK S \in SUBSET Subs : S = Ended
      BY <2>1
    <2>3. ASSUME NEW s \in Subs
          PROVE  /\ StateOf(s)' = IF s \in S THEN "ended" ELSE StateOf(s)
                 /\ row'[s].used = row[s].used
      BY <1>1, <1>4, <2>2, ExpireRows DEF ExpireStep, StateOf
    <2>4. Serial!End(S)
      BY <1>2, <2>3, SerialEnd
    <2> QED BY <2>1, <2>2, <2>4, SerialSteps
  <1>5. ASSUME NEW o \in Subs, ResetStep(n, o)
        PROVE  Serial!Next
    <2>1. tx[n].snap[o] = row[o] /\ Exists(o)
      BY <1>1, <1>5 DEF LockInv, CopyCurrent, ResetStep
    <2>2. /\ row[o] \in Row /\ tx[n].at \in Nat
          /\ row'[o] \in {row[o], MaybeReset(o, row[o], tx[n].at)}
          /\ \A s \in Subs : s # o => row'[s] = row[s]
      BY <1>1, <1>5, <2>1, ResetRows
    <2>3. row'[o].used \in {0, row[o].used} /\ row'[o].status = row[o].status
      BY <2>2, MaybeResetLemma
    <2>4. StateOf(o) \in {"open", "ended"} /\ \A s \in Subs : StateOf(s)' = StateOf(s)
      <3>1. row[o].status \in Statuses
        BY <2>2, RowFields
      <3> QED BY <2>1, <2>2, <2>3, <3>1 DEF StateOf, Exists, Statuses
    <2>5. PICK R \in SUBSET {o} : R = IF row'[o].used = row[o].used THEN {} ELSE {o}
      OBVIOUS
    <2>6. \A s \in Subs : row'[s].used = IF s \in R THEN 0 ELSE row[s].used
      BY <2>2, <2>3, <2>5
    <2>7. R \in SUBSET Subs /\ \A s \in R : StateOf(s) \in {"open", "ended"}
      BY <2>4
    <2>8. Serial!Reset(R)
      BY <1>2, <2>4, <2>6, <2>7, SerialReset
    <2> QED BY <2>7, <2>8, SerialSteps
  <1> QED BY <1>1, <1>3, <1>4, <1>5, NodeSteps

(* And so are a purchase, a cancellation and a deletion. *)
LEMMA WorldIsSerial ==
    ASSUME SerialInv, NEW o \in Subs,
           CreateUserSubscription(o) \/ AdminInvalidate(o) \/ AdminDelete(o)
    PROVE  Serial!Next
  <1>1. SubInv /\ row[o].status \in Statuses
    BY HeldFacts, RowFields DEF SerialInv, SubInv
  <1>2. UNCHANGED held /\ \A q \in Requests : SameRequest(q)
    BY DEF CreateUserSubscription, AdminInvalidate, AdminDelete, SameRequest, PhaseOf
  <1>3. \A s \in Subs : s # o => StateOf(s)' = StateOf(s) /\ row'[s].used = row[s].used
    BY <1>1, CreateType, InvalidateType, DeleteType DEF SubInv, StateOf
  <1>4. CASE CreateUserSubscription(o)
    <2>1. row'[o] = Bought(o) /\ row[o].status = "none"
      BY <1>1, <1>4, CreateType DEF SubInv, CreateUserSubscription
    <2>2. StateOf(o) = "none" /\ StateOf(o)' = "open" /\ row'[o].used = 0
      BY <1>1, <2>1, BoughtLemma DEF StateOf
    <2>3. Serial!Buy(o)
      BY <1>2, <1>3, <2>2, SerialBuy
    <2> QED BY <2>3, SerialSteps
  <1>5. CASE AdminInvalidate(o) \/ AdminDelete(o)
    <2>1. StateOf(o) \in {"open", "ended"}
      BY <1>1, <1>5 DEF AdminInvalidate, AdminDelete, Exists, StateOf, Statuses
    <2>2. CASE AdminInvalidate(o)
      <3>1. StateOf(o)' = "ended" /\ row'[o].used = row[o].used
        BY <1>1, <2>2, InvalidateType DEF StateOf
      <3>2. Serial!End({o})
        BY <1>2, <1>3, <3>1, SerialEnd
      <3> QED BY <2>1, <3>2, SerialSteps
    <2>3. CASE AdminDelete(o)
      <3>1. StateOf(o)' = "gone" /\ row'[o].used = 0
        BY <1>1, <2>3, DeleteType DEF StateOf
      <3>2. Serial!Delete(o)
        BY <1>2, <1>3, <3>1, SerialDelete
      <3> QED BY <2>1, <3>2, SerialSteps
    <2> QED BY <1>5, <2>2, <2>3
  <1> QED BY <1>4, <1>5

(* With locked rows the read, the computation in Go and the save of the    *)
(* whole row amount to one step on the current row, for every number of    *)
(* subscriptions, requests and master nodes: no charge, settlement, refund *)
(* or reset is lost, repeated or applied to a stale copy, and nothing      *)
(* comes back after a cancellation or deletion.                            *)
THEOREM ImplementsSerialTheorem == ASSUME RowLocks PROVE Spec => ImplementsSerial
  <1>1. Init => Serial!Init
    <2> SUFFICES ASSUME Init PROVE Serial!Init
      OBVIOUS
    <2>1. \A s \in Subs : StateOf(s) = "none" /\ row[s].used = 0
      BY DEF Init, StateOf, NoRow
    <2>2. \A r \in Requests : PhaseOf(r) = "new" /\ charge[r].sub = 0
      BY DEF Init, PhaseOf
    <2>3. held = [r \in Requests |-> 0]
      BY DEF Init
    <2> QED BY <2>1, <2>2, <2>3 DEF Serial!Init
  <1>2. SerialInv /\ [Next]_vars => [Serial!Next]_(Serial!vars)
    <2> SUFFICES ASSUME SerialInv, [Next]_vars PROVE [Serial!Next]_(Serial!vars)
      OBVIOUS
    <2>1. CASE UNCHANGED vars \/ Tick \/ \E s \in Subs : AdminUpdatePlan(s)
      <3>1. UNCHANGED <<row, pc, charge, held>>
        BY <2>1 DEF vars, Tick, AdminUpdatePlan
      <3>2. SameRows /\ \A q \in Requests : SameRequest(q)
        BY <3>1 DEF SameRows, StateOf, SameRequest, PhaseOf
      <3> QED BY <3>1, <3>2, SerialQuiet
    <2> QED BY <2>1, RequestIsSerial, NodeIsSerial, WorldIsSerial DEF Next
  <1> QED BY <1>1, <1>2, SerialInvariant, PTL DEF Spec, ImplementsSerial, Serial!Spec

-----------------------------------------------------------------------------
(* The group. *)

(* Among finitely many subscriptions one ended last: there is an order by  *)
(* end and id, and the ones after a subscription get fewer until there are *)
(* none.                                                                   *)
LEMMA LatestExists ==
    ASSUME NEW S \in SUBSET Subs, S # {}, NEW f, \A s \in S : f[s] \in Nat
    PROVE  \E s \in S : \A o \in S : f[o] < f[s] \/ (f[o] = f[s] /\ o <= s)
  <1> DEFINE After(s) == {o \in S : f[s] < f[o] \/ (f[s] = f[o] /\ s < o)}
             T == {After(s) : s \in S}
             R == StrictSubsetOrdering(S)
  <1>1. S \subseteq Nat /\ IsFiniteSet(S)
    <2>1. N \in Int /\ 1 \in Int
      BY SubscriptionAssumption
    <2>2. IsFiniteSet(1 .. N)
      BY <2>1, FS_Interval
    <2>3. S \subseteq 1 .. N
      BY DEF Subs
    <2>4. IsFiniteSet(S)
      BY <2>2, <2>3, FS_Subset
    <2>5. S \subseteq Nat
      BY <2>1, <2>3
    <2> QED
      BY <2>4, <2>5
  <1>2. IsWellFoundedOn(R, FiniteSubsetsOf(S)) /\ FiniteSubsetsOf(S) = SUBSET S
    BY <1>1, FS_StrictSubsetOrderingWellFounded, FS_FiniteSubsetsOfFinite
  <1>3. T \subseteq SUBSET S /\ T # {}
    OBVIOUS
  <1> HIDE DEF T, R, After
  <1>4. \E x \in T : \A y \in T : ~(<<y, x>> \in R)
    BY <1>2, <1>3, WFMin
  <1>5. PICK s \in S : \A y \in T : ~(<<y, After(s)>> \in R)
    BY <1>4 DEF T
  <1>6. After(s) = {}
    <2> SUFFICES ASSUME NEW o \in After(s) PROVE FALSE
      OBVIOUS
    <2>1. o \in S /\ After(o) \in T
      BY DEF After, T
    <2>2. After(o) \subseteq After(s) /\ o \notin After(o)
      <3>1. f[s] < f[o] \/ (f[s] = f[o] /\ s < o)
        BY DEF After
      <3>2. f[s] \in Nat /\ f[o] \in Nat /\ s \in Nat /\ o \in Nat
        BY <1>1, <2>1
      <3>3. o \notin After(o)
        BY <3>2 DEF After
      <3>4. ASSUME NEW p \in After(o) PROVE p \in After(s)
        <4>1. p \in S /\ p \in Nat /\ f[p] \in Nat /\ (f[o] < f[p] \/ (f[o] = f[p] /\ o < p))
          BY <1>1, <3>4 DEF After
        <4>2. f[s] < f[p] \/ (f[s] = f[p] /\ s < p)
          BY <3>1, <3>2, <4>1
        <4> QED
          BY <4>1, <4>2 DEF After
      <3> QED
        BY <3>3, <3>4
    <2>3. <<After(o), After(s)>> \in R
      <3>1. After(o) \in SUBSET S /\ After(s) \in SUBSET S
        BY DEF After
      <3> QED
        BY <2>2, <3>1 DEF R, StrictSubsetOrdering
    <2> QED
      BY <1>5, <2>1, <2>3
  <1>7. \A o \in S : f[o] < f[s] \/ (f[o] = f[s] /\ o <= s)
    BY <1>1, <1>6 DEF After
  <1> QED
    BY <1>7

(* A subscription that upgrades the group and runs; one that is to give    *)
(* the group back, or that cannot because it remembers none.               *)
Runs(u) == row[u].status = "active" /\ row[u].end > now
Owes(u) == row[u].status = "active" \/ (row[u].status # "none" /\ row[u].prev = "")

(* GroupFollowsSubscription, with the groups that rows remember.           *)
GroupOK ==
    /\ group \in {"default", "vip"}
    /\ \A s \in Subs : row[s].prev \in {"", "default"}
    /\ \A u \in Upgrades : Runs(u) => group = "vip"
    /\ group = "vip" => \E u \in Upgrades : Owes(u)
GroupInv == LockInv /\ GroupOK

(* Time goes forward. *)
LEMMA NowForward ==
    ASSUME SubInv, [Next]_vars
    PROVE  now \in Nat /\ now' \in Nat /\ now' >= now
  <1>1. now \in Nat
    BY NowLemma
  <1>2. UNCHANGED now \/ Tick
    BY DEF Next, vars, CreateUserSubscription, AdminInvalidate, AdminDelete, AdminUpdatePlan,
           PreConsumeRead, RequestStep, PreConsumeCommit, DeltaRead, DeltaCommit, Settled,
           NodeStep, Wake, ExpireDue, ResetQuery, ResetEnds, ResetRead, ResetCommit
  <1> QED
    BY <1>1, <1>2 DEF Tick

(* A step that changes neither the group nor the rows' part in it. *)
LEMMA GroupSame ==
    ASSUME GroupInv, UNCHANGED group, now \in Nat, now' \in Nat, now' >= now,
           \A u \in Subs : /\ row'[u].status = row[u].status /\ row'[u].prev = row[u].prev
                           /\ row'[u].end = row[u].end
    PROVE  GroupOK'
  <1>1. Upgrades \subseteq Subs /\ \A u \in Subs : row[u].end \in Nat
    BY SubscriptionAssumption, RowFields DEF GroupInv, LockInv, SubInv
  <1>2. \A u \in Upgrades : Runs(u)' => Runs(u)
    BY <1>1 DEF Runs
  <1>3. \A u \in Upgrades : Owes(u) => Owes(u)'
    BY <1>1 DEF Owes
  <1> QED
    BY <1>2, <1>3 DEF GroupInv, GroupOK

(* Charges keep status, end and remembered group of their rows. *)
LEMMA GroupRequest ==
    ASSUME GroupInv, NEW r \in Requests, now \in Nat, now' \in Nat, now' >= now,
           SaveStep(r) \/ \E c \in tx[r].rows : ChargeStep(r, c)
    PROVE  GroupOK'
  <1>1. LockInv /\ SubInv /\ r \in Actors /\ \A s \in tx[r].rows : tx[r].snap[s] = row[s]
    BY DEF GroupInv, LockInv, CopyCurrent, Actors
  <1>2. CASE SaveStep(r)
    <2>1. \A u \in Subs : /\ row'[u].status = row[u].status /\ row'[u].prev = row[u].prev
                          /\ row'[u].end = row[u].end
      BY <1>1, <1>2, SaveRows
    <2> QED
      BY <1>2, <2>1, GroupSame DEF SaveStep
  <1>3. ASSUME NEW c \in tx[r].rows, ChargeStep(r, c)
        PROVE  GroupOK'
    <2>1. \A u \in Subs : /\ row'[u].status = row[u].status /\ row'[u].prev = row[u].prev
                          /\ row'[u].end = row[u].end
      BY <1>1, <1>3, ChargeRows, FreshLemma
    <2> QED
      BY <1>3, <2>1, GroupSame DEF ChargeStep
  <1> QED
    BY <1>2, <1>3

(* So does a reset. *)
LEMMA GroupReset ==
    ASSUME GroupInv, NEW n \in Nodes, NEW o \in Subs, ResetStep(n, o),
           now \in Nat, now' \in Nat, now' >= now
    PROVE  GroupOK'
  <1>1. SubInv /\ tx[n].snap[o] = row[o] /\ UNCHANGED group
    BY DEF GroupInv, LockInv, CopyCurrent, Actors, ResetStep
  <1>2. /\ row[o] \in Row /\ tx[n].at \in Nat
        /\ row'[o] \in {row[o], MaybeReset(o, row[o], tx[n].at)}
        /\ \A u \in Subs : u # o => row'[u] = row[u]
    BY <1>1, ResetRows
  <1>3. LET new == MaybeReset(o, row[o], tx[n].at)
        IN new.status = row[o].status /\ new.prev = row[o].prev /\ new.end = row[o].end
    BY <1>2, MaybeResetLemma
  <1>4. \A u \in Subs : /\ row'[u].status = row[u].status /\ row'[u].prev = row[u].prev
                        /\ row'[u].end = row[u].end
    BY <1>2, <1>3
  <1> QED
    BY <1>1, <1>4, GroupSame

(* An expiry hands the group back, unless an upgrading subscription runs   *)
(* or one remembers no group: the expired one that ended last remembers    *)
(* one.                                                                    *)
LEMMA GroupExpire ==
    ASSUME GroupInv, ExpireStep, now \in Nat, now' \in Nat, now' >= now
    PROVE  GroupOK'
  <1> DEFINE active == {s \in Upgrades : row[s].status = "active" /\ row[s].end > now}
             expired == {s \in Upgrades : s \in Ended \/ row[s].status = "expired"}
             latest(s) == \A o \in expired : row[o].end < row[s].end
                                            \/ (row[o].end = row[s].end /\ o <= s)
             fallback == {row[s].prev : s \in {l \in expired : latest(l)}} \ {""}
  <1>1. Upgrades \subseteq Subs /\ SubInv /\ GroupOK /\ Expire
    BY SubscriptionAssumption DEF GroupInv, LockInv, ExpireStep
  <1>2. \A s \in Subs : row[s].end \in Nat
    BY <1>1, RowFields DEF SubInv
  <1>3. GroupAfterExpiry(Ended) =
          IF active = {} /\ group = "vip" /\ fallback # {} THEN CHOOSE g \in fallback : TRUE
          ELSE group
    BY DEF GroupAfterExpiry
  <1>4. fallback \subseteq {"default"}
    BY <1>1 DEF GroupOK
  <1>5. ASSUME active = {}, group = "vip", \A u \in Upgrades : ~Owes(u)'
        PROVE  Ended # {} /\ fallback # {}
    <2>1. PICK u \in Upgrades : Owes(u)
      BY <1>1, <1>5 DEF GroupOK
    <2>2. u \in Subs /\ row'[u].prev = row[u].prev
          /\ (u \notin Ended => row'[u] = row[u])
          /\ (u \in Ended => row'[u].status = "expired")
      BY <1>1, <2>1, ExpireRows
    <2>3. u \in Ended
      BY <1>5, <2>1, <2>2 DEF Owes
    <2>4. expired \in SUBSET Subs /\ expired # {}
      BY <1>1, <2>1, <2>3
    <2>5. \E s \in expired : latest(s)
      <3> DEFINE ends == [s \in Subs |-> row[s].end]
      <3>1. \A s \in expired : ends[s] \in Nat /\ ends[s] = row[s].end
        BY <1>2, <2>4
      <3> HIDE DEF ends, expired
      <3>2. \E s \in expired : \A o \in expired :
               ends[o] < ends[s] \/ (ends[o] = ends[s] /\ o <= s)
        BY <2>4, <3>1, LatestExists
      <3> QED
        BY <3>1, <3>2
    <2>6. PICK s \in expired : latest(s)
      BY <2>5
    <2>7. row[s].prev # ""
      <3>1. s \in Upgrades /\ s \in Subs
        BY <1>1, <2>6
      <3>2. row'[s].prev = row[s].prev /\ row'[s].status # "none"
        <4>1. (s \notin Ended => row'[s] = row[s]) /\ (s \in Ended => row'[s].status = "expired")
              /\ row'[s].prev = row[s].prev
          BY <1>1, <3>1, ExpireRows
        <4> QED
          BY <2>6, <4>1
      <3> QED
        BY <1>5, <3>1, <3>2 DEF Owes
    <2> QED
      BY <2>3, <2>6, <2>7
  <1>6. \A u \in Upgrades : Runs(u)' => u \in active
    <2> SUFFICES ASSUME NEW u \in Upgrades, Runs(u)' PROVE u \in active
      OBVIOUS
    <2>1. u \in Subs /\ row'[u].end = row[u].end
          /\ (u \notin Ended => row'[u] = row[u])
          /\ (u \in Ended => row'[u].status = "expired")
      BY <1>1, ExpireRows
    <2> QED
      BY <1>2, <2>1 DEF Runs
  <1> HIDE DEF active, fallback
  <1>7. group' \in {group, "default"} /\ (active # {} => group' = group)
    <2>1. fallback # {} => (CHOOSE g \in fallback : TRUE) = "default"
      BY <1>4
    <2> QED
      BY <1>3, <2>1 DEF ExpireStep
  <1>8. \A u \in Upgrades : Runs(u)' => group' = "vip"
    <2>1. active # {} => group = "vip"
      BY <1>1 DEF GroupOK, Runs, active
    <2> QED
      BY <1>6, <1>7, <2>1
  <1>9. group' = "vip" => \E u \in Upgrades : Owes(u)'
    <2> SUFFICES ASSUME group' = "vip", \A u \in Upgrades : ~Owes(u)' PROVE FALSE
      OBVIOUS
    <2>1. group = "vip"
      BY <1>7
    <2>2. active = {}
      <3> SUFFICES ASSUME NEW u \in active PROVE FALSE
        OBVIOUS
      <3>1. u \in Upgrades /\ u \in Subs /\ u \notin Ended /\ row[u].status = "active"
        BY <1>1, <1>2 DEF active, Ended
      <3>2. row'[u] = row[u]
        BY <1>1, <3>1, ExpireRows
      <3> QED
        BY <3>1, <3>2 DEF Owes
    <2>3. Ended # {} /\ fallback # {}
      BY <1>5, <2>1, <2>2
    <2>4. group' = CHOOSE g \in fallback : TRUE
      BY <1>3, <2>1, <2>2, <2>3 DEF ExpireStep
    <2> QED
      BY <1>4, <2>3, <2>4
  <1>10. \A s \in Subs : row'[s].prev \in {"", "default"}
    BY <1>1, ExpireRows DEF GroupOK
  <1> QED
    BY <1>1, <1>7, <1>8, <1>9, <1>10 DEF GroupOK

(* A purchase raises the group; a cancellation or deletion takes it back   *)
(* unless another subscription runs.                                       *)
LEMMA GroupWorld ==
    ASSUME GroupInv, NEW o \in Subs, now \in Nat, UNCHANGED now,
           CreateUserSubscription(o) \/ AdminInvalidate(o) \/ AdminDelete(o)
    PROVE  GroupOK'
  <1>1. SubInv /\ Upgrades \subseteq Subs /\ GroupOK
    BY SubscriptionAssumption DEF GroupInv, LockInv
  <1>2. \A s \in Subs : s # o => row'[s] = row[s]
    BY <1>1, CreateType, InvalidateType, DeleteType DEF SubInv
  <1>3. \A u \in Upgrades : u # o => (Runs(u)' <=> Runs(u)) /\ (Owes(u)' <=> Owes(u))
    BY <1>1, <1>2 DEF Runs, Owes
  <1>4. CASE CreateUserSubscription(o)
    <2>1. row' = [row EXCEPT ![o] = Bought(o)] /\ group' = IF o \in Upgrades THEN "vip" ELSE group
      BY <1>1, <1>4, CreateType
    <2>2. row'[o].status = "active"
          /\ row'[o].prev = IF o \in Upgrades /\ group # "vip" THEN group ELSE ""
      BY <1>1, <2>1, BoughtLemma DEF SubInv
    <2>3. \A s \in Subs : row'[s].prev \in {"", "default"}
      BY <1>1, <1>2, <2>2 DEF GroupOK
    <2>4. o \in Upgrades => Owes(o)'
      BY <2>2 DEF Owes
    <2> QED
      BY <1>1, <1>3, <2>1, <2>3, <2>4 DEF GroupOK
  <1>5. CASE AdminInvalidate(o) \/ AdminDelete(o)
    <2>1. row'[o].status \in {"cancelled", "deleted"} /\ row'[o].prev = row[o].prev
          /\ group' = Downgraded(o)
      BY <1>1, <1>5, InvalidateType, DeleteType DEF AdminInvalidate, AdminDelete
    <2>2. ~Runs(o)' /\ \A s \in Subs : row'[s].prev \in {"", "default"}
      BY <1>1, <1>2, <2>1 DEF GroupOK, Runs
    <2>3. OtherUpgraded(o) <=> \E u \in Upgrades \ {o} : Runs(u)
      BY DEF OtherUpgraded, Runs
    <2>4. \A u \in Upgrades : Runs(u)' => group' = "vip"
      BY <1>1, <1>3, <2>1, <2>2, <2>3 DEF GroupOK, Downgraded
    <2>5. group' \in {"default", "vip"}
      BY <1>1, <2>1 DEF GroupOK, Downgraded
    <2>6. group' = "vip" => \E u \in Upgrades : Owes(u)'
      <3> SUFFICES ASSUME group' = "vip" PROVE \E u \in Upgrades : Owes(u)'
        OBVIOUS
      <3>1. group = "vip" /\ row[o].prev \in {"", "default"}
        BY <1>1, <2>1 DEF GroupOK, Downgraded
      <3>2. CASE OtherUpgraded(o)
        BY <1>3, <2>3, <3>2 DEF Runs, Owes
      <3>3. CASE o \in Upgrades /\ ~OtherUpgraded(o)
        <4>1. row[o].prev = ""
          BY <2>1, <3>1, <3>3 DEF Downgraded
        <4> QED
          BY <2>1, <3>3, <4>1 DEF Owes
      <3>4. CASE o \notin Upgrades
        BY <1>1, <1>3, <3>1, <3>4 DEF GroupOK
      <3> QED
        BY <3>2, <3>3, <3>4
    <2> QED
      BY <2>2, <2>4, <2>5, <2>6 DEF GroupOK
  <1> QED
    BY <1>4, <1>5

(* Every step keeps rows and group together. *)
LEMMA GroupNext ==
    ASSUME RowLocks, GroupInv, [Next]_vars
    PROVE  GroupInv'
  <1>1. SubInv /\ LockInv /\ LockInv' /\ now \in Nat /\ now' \in Nat /\ now' >= now
    BY ForwardNext, NowForward DEF GroupInv, LockInv
  <1>2. ASSUME QuietStep PROVE GroupOK'
    BY <1>1, <1>2, GroupSame DEF QuietStep
  <1>3. ASSUME NEW r \in Requests, PreConsumeRead(r) \/ RequestStep(r)
        PROVE  GroupOK'
    BY <1>1, <1>2, <1>3, RequestSteps, GroupRequest
  <1>4. ASSUME NEW n \in Nodes, NodeStep(n)
        PROVE  GroupOK'
    BY <1>1, <1>2, <1>4, NodeSteps, GroupExpire, GroupReset
  <1>5. ASSUME NEW o \in Subs,
               CreateUserSubscription(o) \/ AdminInvalidate(o) \/ AdminDelete(o)
        PROVE  GroupOK'
    <2>1. UNCHANGED now
      BY <1>5 DEF CreateUserSubscription, AdminInvalidate, AdminDelete
    <2> QED
      BY <1>1, <1>5, <2>1, GroupWorld
  <1>6. ASSUME UNCHANGED vars \/ Tick \/ \E o \in Subs : AdminUpdatePlan(o)
        PROVE  GroupOK'
    <2>1. QuietStep
      BY <1>6 DEF QuietStep, vars, Tick, AdminUpdatePlan
    <2> QED
      BY <1>2, <2>1
  <1>7. GroupOK'
    BY <1>3, <1>4, <1>5, <1>6 DEF Next
  <1> QED
    BY <1>1, <1>7 DEF GroupInv

(* With locked rows, and any number of upgrading subscriptions: the user   *)
(* is in the upgraded group while one of them runs, and                    *)
(* ExpireDueSubscriptions, AdminInvalidateUserSubscription and             *)
(* AdminDeleteUserSubscription hand the group back with the last of them,  *)
(* unless one was bought while the user was in the upgraded group already. *)
THEOREM GroupFollowsSubscriptionTheorem ==
    ASSUME RowLocks
    PROVE  Spec => []GroupFollowsSubscription
  <1>1. Init => GroupInv
    <2> SUFFICES ASSUME Init PROVE GroupInv
      OBVIOUS
    <2>1. group = "default" /\ \A s \in Subs : row[s].status = "none" /\ row[s].prev = ""
      BY DEF Init, NoRow
    <2>2. Upgrades \subseteq Subs
      BY SubscriptionAssumption
    <2> QED
      BY <2>1, <2>2, LockInit DEF GroupInv, GroupOK, Runs
  <1>2. GroupInv /\ [Next]_vars => GroupInv'
    BY GroupNext
  <1>3. GroupInv => GroupFollowsSubscription
    BY DEF GroupInv, GroupOK, Runs, Owes, GroupFollowsSubscription
  <1> QED
    BY <1>1, <1>2, <1>3, PTL DEF Spec

=============================================================================
