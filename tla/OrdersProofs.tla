---------------------------- MODULE OrdersProofs ----------------------------
(***************************************************************************)
(* Orders for any number of handlers, processes, events and faults: the    *)
(* table of mutexes excludes handlers of one process and keeps no mutex    *)
(* that nobody uses; and where handlers are excluded by it or refused by   *)
(* the database, an order is credited once and implements OneTimeGrant.    *)
(***************************************************************************)
EXTENDS Orders, FiniteSetTheorems, TLAPS

-----------------------------------------------------------------------------
(* The table of mutexes. *)

(* Between LockOrder's and UnlockOrder's parts under createLock. *)
Inside(h) == Locking(op[h]) /\ pc[h] \in AfterEnter

Users(m) == {h \in Handlers : Inside(h) /\ mutex[h] = m}

(* Whoever is inside uses the mutex in the table of its process, refCount  *)
(* counts the users, the table holds a mutex only while it has a user, and *)
(* processes share none; whoever works is the owner of the mutex it uses.  *)
OnlyLocking == \A h \in Handlers : pc[h] \in {"enter", "wait", "unlock", "leave"} => Locking(op[h])
InsideUses == \A h \in Handlers : Inside(h) => mutex[h] # None /\ mutex[h] = table[NodeOf[h]]
OutsideFree == \A h \in Handlers : ~Inside(h) => mutex[h] = None
RefsCount == \A m \in Handlers : refs[m] = Cardinality(Users(m))
TableUsed == \A n \in Nodes : table[n] # None => \E h \in Handlers : NodeOf[h] = n /\ Inside(h)
TableApart == \A n, k \in Nodes : table[n] = table[k] /\ table[n] # None => n = k
WorkerOwns == \A h \in Handlers : Inside(h) /\ pc[h] \in Working => owner[mutex[h]] = h

LockInv ==
    /\ TypeOK
    /\ OnlyLocking /\ InsideUses /\ OutsideFree /\ RefsCount
    /\ TableUsed /\ TableApart /\ WorkerOwns

(* Handlers of one process that hold the lock are one handler. *)
LEMMA OneWorks ==
    ASSUME LockInv, NEW g \in Handlers, NEW h \in Handlers, NodeOf[g] = NodeOf[h],
           Locking(op[g]), Locking(op[h]), pc[g] \in Working, pc[h] \in Working
    PROVE  g = h
  <1>1. Inside(g) /\ Inside(h)
    BY DEF Inside, AfterEnter
  <1>2. mutex[g] = mutex[h]
    BY <1>1 DEF LockInv, InsideUses
  <1> QED BY <1>1, <1>2 DEF LockInv, WorkerOwns

(* The invariant is what LockOrder promises. *)
LEMMA LockImplied == LockInv => OrderLock
  <1> SUFFICES ASSUME LockInv, NEW n \in Nodes
               PROVE  /\ \A g, h \in {x \in Handlers : NodeOf[x] = n /\ Locking(op[x])} :
                            pc[g] \in Working /\ pc[h] \in Working => g = h
                      /\ (table[n] = None) =
                            (\A h \in {x \in Handlers : NodeOf[x] = n /\ Locking(op[x])} :
                                pc[h] \notin AfterEnter)
    BY DEF OrderLock, LockInv
  <1>1. \A g, h \in {x \in Handlers : NodeOf[x] = n /\ Locking(op[x])} :
            pc[g] \in Working /\ pc[h] \in Working => g = h
    BY OneWorks
  <1>2. ASSUME table[n] = None, NEW h \in Handlers, NodeOf[h] = n, Locking(op[h])
        PROVE  pc[h] \notin AfterEnter
    BY <1>2 DEF LockInv, InsideUses, Inside
  <1>3. ASSUME table[n] # None
        PROVE  \E h \in {x \in Handlers : NodeOf[x] = n /\ Locking(op[x])} : pc[h] \in AfterEnter
    BY <1>3 DEF LockInv, TableUsed, Inside
  <1> QED BY <1>1, <1>2, <1>3

(* There is a name left for the mutex of a handler that enters. *)
LEMMA UnusedLemma ==
    ASSUME LockInv, NEW h \in Handlers, ~Inside(h)
    PROVE  /\ Unused \in Handlers /\ refs[Unused] = 0
           /\ \A n \in Nodes : table[n] # Unused
  <1> DEFINE I == {g \in Handlers : Inside(g)}
  <1>1. \E m \in Handlers : refs[m] = 0 /\ \A n \in Nodes : table[n] # m
    <2>1. SUFFICES ASSUME \A m \in Handlers : refs[m] # 0 \/ \E n \in Nodes : table[n] = m
                   PROVE  FALSE
      OBVIOUS
    <2>2. ASSUME NEW m \in Handlers
          PROVE  \E g \in I : mutex[g] = m
      <3>1. CASE refs[m] # 0
        <4>1. Users(m) # {}
          BY <3>1, FS_EmptySet DEF LockInv, RefsCount
        <4> QED BY <4>1 DEF Users
      <3>2. CASE \E n \in Nodes : table[n] = m
        <4>1. PICK n \in Nodes : table[n] = m
          BY <3>2
        <4>2. m # None
          BY OrdersAssumption
        <4>3. PICK g \in Handlers : NodeOf[g] = n /\ Inside(g)
          BY <4>1, <4>2 DEF LockInv, TableUsed
        <4> QED BY <4>1, <4>3 DEF LockInv, InsideUses
      <3> QED BY <3>1, <3>2, <2>1
    <2>3. IsFiniteSet(Handlers) /\ IsFiniteSet(Handlers \ {h})
      BY OrdersAssumption, FS_RemoveElement
    <2>4. I \subseteq Handlers \ {h}
      OBVIOUS
    <2>5. IsFiniteSet(I) /\ Cardinality(I) <= Cardinality(Handlers \ {h})
      BY <2>3, <2>4, FS_Subset
    <2> DEFINE f == [g \in I |-> mutex[g]]
    <2>6. f \in Surjection(I, Handlers)
      <3>1. \A g \in I : mutex[g] \in Handlers
        BY DEF LockInv, TypeOK, InsideUses
      <3> QED BY <2>2, <3>1 DEF Surjection
    <2>7. Cardinality(Handlers) <= Cardinality(I)
      BY <2>5, <2>6, FS_Surjection
    <2>8. Cardinality(Handlers \ {h}) = Cardinality(Handlers) - 1
      BY OrdersAssumption, FS_RemoveElement
    <2>9. Cardinality(Handlers) \in Nat /\ Cardinality(I) \in Nat
      BY <2>3, <2>5, FS_CardinalityType
    <2> QED BY <2>5, <2>7, <2>8, <2>9
  <1> QED BY <1>1 DEF Unused

(* At the start nobody is inside and every table is empty. *)
LEMMA LockInit == Init => LockInv
  <1> SUFFICES ASSUME Init PROVE LockInv
    OBVIOUS
  <1>1. \A h \in Handlers : ~Inside(h)
    BY DEF Init, Inside, AfterEnter, Working
  <1>2. RefsCount
    <2>1. \A m \in Handlers : Users(m) = {}
      BY <1>1 DEF Users
    <2> QED BY <2>1, FS_EmptySet DEF RefsCount, Init
  <1>3. TypeOK
    <2>1. <<kind, dbms>> \in Setups
      <3>1. PICK s \in Setups : kind = s[1] /\ dbms = s[2]
        BY DEF Init
      <3>2. s \in Kinds \X Databases
        BY OrdersAssumption
      <3> QED BY <3>1, <3>2
    <2> QED BY <2>1 DEF Init, TypeOK, Statuses, Operations, AfterEnter
  <1> QED BY <1>1, <1>2, <1>3 DEF LockInv, Init, OnlyLocking, InsideUses, OutsideFree, TableUsed,
                 TableApart, WorkerOwns

(* A step that leaves the locks alone, and lets nobody in, out or to work, *)
(* preserves what is said of them.                                         *)
LEMMA LockFrame ==
    ASSUME LockInv, TypeOK', OnlyLocking', UNCHANGED locks,
           \A g \in Handlers : Inside(g)' <=> Inside(g),
           \A g \in Handlers : Inside(g) /\ pc'[g] \in Working => pc[g] \in Working
    PROVE  LockInv'
  <1>1. RefsCount'
    <2>1. \A m \in Handlers : Users(m)' = Users(m)
      BY DEF Users, locks
    <2> QED BY <2>1 DEF LockInv, RefsCount, locks
  <1>2. InsideUses' /\ OutsideFree' /\ TableUsed' /\ TableApart'
    BY DEF LockInv, InsideUses, OutsideFree, TableUsed, TableApart, locks
  <1>3. WorkerOwns'
    BY DEF LockInv, WorkerOwns, locks
  <1> QED BY <1>1, <1>2, <1>3 DEF LockInv

(* A request begins outside. *)
LEMMA LockStart ==
    ASSUME LockInv, NEW h \in Handlers, NEW o \in Operations, Start(h, o),
           owed' = owed, events' \in Nat
    PROVE  LockInv'
  <1>1. /\ pc' = [pc EXCEPT ![h] = IF Locking(o) THEN "enter" ELSE "read"]
        /\ op' = [op EXCEPT ![h] = o] /\ pc[h] = "idle"
        /\ UNCHANGED <<setup, row, seen, locks, faults, gap>>
    BY DEF Start, Goto
  <1>2. \A x : Locking(x)' <=> Locking(x)
    BY <1>1 DEF Locking, setup
  <1>3. TypeOK'
    BY <1>1 DEF LockInv, TypeOK, setup, row, locks, AfterEnter, Working
  <1>4. OnlyLocking'
    BY <1>1, <1>2 DEF LockInv, TypeOK, OnlyLocking
  <1>5. \A g \in Handlers : Inside(g)' <=> Inside(g)
    BY <1>1, <1>2 DEF LockInv, TypeOK, Inside, AfterEnter, Working
  <1>6. \A g \in Handlers : Inside(g) /\ pc'[g] \in Working => pc[g] \in Working
    BY <1>1 DEF LockInv, TypeOK, Inside, AfterEnter, Working
  <1> QED BY <1>1, <1>3, <1>4, <1>5, <1>6, LockFrame

(* Pay and Event are such requests. *)
LEMMA LockRequest ==
    ASSUME LockInv, NEW h \in Handlers,
           Pay(h) \/ \E o \in Operations : Event(h, o)
    PROVE  LockInv'
  <1>1. CASE Pay(h)
    BY <1>1, LockStart DEF Pay, Operations, LockInv, TypeOK
  <1>2. ASSUME NEW o \in Operations, Event(h, o) PROVE LockInv'
    BY <1>2, LockStart DEF Event, LockInv, TypeOK
  <1> QED BY <1>1, <1>2

(* What a handler does with the row: it goes on to another write, or, like *)
(* Finish, to unlock or, where there is no lock, to its end.               *)
RowStep(h) ==
    Read(h) \/ ReadFails(h) \/ Write(h) \/ WriteFails(h) \/ Credit(h) \/ CreditFails(h) \/ Undo(h)

(* A step on the row ends the work or goes on with it, and touches neither *)
(* the locks nor another handler.                                          *)
LEMMA RowStepMoves ==
    ASSUME LockInv, NEW h \in Handlers, RowStep(h)
    PROVE  /\ pc[h] \in {"read", "write", "credit", "undo"}
           /\ \E l \in {"write", "credit", "undo", "unlock", "idle"} :
                /\ pc' = [pc EXCEPT ![h] = l]
                /\ l = "unlock" => Locking(op[h])
                /\ l = "idle" => ~Locking(op[h])
           /\ UNCHANGED <<setup, op, locks>>
           /\ seen' \in [Handlers -> Nat] /\ owed' \in BOOLEAN
  <1>1. \A e : Finish(h, e) =>
            /\ \E l \in {"unlock", "idle"} :
                /\ pc' = [pc EXCEPT ![h] = l]
                /\ l = "unlock" => Locking(op[h])
                /\ l = "idle" => ~Locking(op[h])
            /\ seen' \in [Handlers -> Nat] /\ owed' \in BOOLEAN
    <2> SUFFICES ASSUME NEW e, Finish(h, e)
                 PROVE  /\ \E l \in {"unlock", "idle"} :
                            /\ pc' = [pc EXCEPT ![h] = l]
                            /\ l = "unlock" => Locking(op[h])
                            /\ l = "idle" => ~Locking(op[h])
                        /\ seen' \in [Handlers -> Nat] /\ owed' \in BOOLEAN
      OBVIOUS
    <2>1. seen' \in [Handlers -> Nat]
      BY DEF Finish, LockInv, TypeOK
    <2>2. owed' \in BOOLEAN
      BY Zenon DEF Finish
    <2>3. pc' = [pc EXCEPT ![h] = IF Locking(op[h]) THEN "unlock" ELSE "idle"]
      BY DEF Finish, Goto
    <2> QED BY <2>1, <2>2, <2>3
  <1>2. CASE Read(h)
    BY <1>1, <1>2 DEF Read, Goto, LockInv, TypeOK
  <1>3. CASE Write(h)
    BY <1>1, <1>3 DEF Write, Goto, LockInv, TypeOK
  <1>4. CASE WriteFails(h)
    BY <1>1, <1>4 DEF WriteFails
  <1>5. CASE Credit(h)
    BY <1>1, <1>5 DEF Credit
  <1>6. CASE CreditFails(h)
    BY <1>1, <1>6 DEF CreditFails, Goto, LockInv, TypeOK
  <1>7. CASE Undo(h)
    BY <1>1, <1>7 DEF Undo
  <1>8. CASE ReadFails(h)
    BY <1>1, <1>8 DEF ReadFails
  <1> QED BY <1>2, <1>3, <1>4, <1>5, <1>6, <1>7, <1>8 DEF RowStep

(* What a step on the row writes keeps to the types. *)
LEMMA RowStepType ==
    ASSUME LockInv, NEW h \in Handlers, RowStep(h)
    PROVE  /\ status' \in Statuses /\ version' \in Nat /\ credits' \in Nat
           /\ gap' \in BOOLEAN /\ events' \in Nat /\ faults' \in Nat
  <1> USE DEF LockInv, TypeOK, row, bounds, Fault
  <1>1. CASE Read(h)
    BY <1>1 DEF Read
  <1>2. CASE Write(h)
    <2>1. Target(op[h]) \in Statuses
      BY DEF Target, Operations, Statuses
    <2>2. credits' \in {credits, credits + 1}
      BY <1>2, Zenon DEF Write
    <2> QED BY <1>2, <2>1, <2>2 DEF Write
  <1>3. CASE WriteFails(h)
    BY <1>3 DEF WriteFails
  <1>4. CASE Credit(h)
    BY <1>4 DEF Credit
  <1>5. CASE CreditFails(h)
    <2>1. gap' \in BOOLEAN
      BY <1>5, Zenon DEF CreditFails
    <2> QED BY <1>5, <2>1 DEF CreditFails
  <1>6. CASE Undo(h)
    <2>1. gap' \in BOOLEAN
      BY <1>6, Zenon DEF Undo
    <2> QED BY <1>6, <2>1 DEF Undo, Statuses
  <1>7. CASE ReadFails(h)
    BY <1>7 DEF ReadFails
  <1> QED BY <1>1, <1>2, <1>3, <1>4, <1>5, <1>6, <1>7 DEF RowStep

(* A step on the row keeps the invariant of the locks. *)
LEMMA LockRow ==
    ASSUME LockInv, NEW h \in Handlers, RowStep(h)
    PROVE  LockInv'
  <1>1. PICK l \in {"write", "credit", "undo", "unlock", "idle"} :
            /\ pc' = [pc EXCEPT ![h] = l]
            /\ l = "unlock" => Locking(op[h])
            /\ l = "idle" => ~Locking(op[h])
    BY RowStepMoves
  <1>2. /\ pc[h] \in {"read", "write", "credit", "undo"}
        /\ UNCHANGED <<setup, op, locks>>
        /\ seen' \in [Handlers -> Nat] /\ owed' \in BOOLEAN
    BY RowStepMoves
  <1>3. \A x : Locking(x)' <=> Locking(x)
    BY <1>2 DEF Locking, setup
  <1>4. TypeOK'
    <2>1. pc' \in [Handlers -> {"idle", "enter"} \cup AfterEnter]
      BY <1>1 DEF LockInv, TypeOK, AfterEnter, Working
    <2> QED BY <2>1, <1>2, RowStepType DEF LockInv, TypeOK, setup, locks
  <1>5. OnlyLocking'
    BY <1>1, <1>2, <1>3 DEF LockInv, TypeOK, OnlyLocking
  <1>6. \A g \in Handlers : Inside(g)' <=> Inside(g)
    BY <1>1, <1>2, <1>3 DEF LockInv, TypeOK, Inside, AfterEnter, Working
  <1>7. \A g \in Handlers : Inside(g) /\ pc'[g] \in Working => pc[g] \in Working
    BY <1>1, <1>2 DEF LockInv, TypeOK, Inside, AfterEnter, Working
  <1> QED BY <1>2, <1>4, <1>5, <1>6, <1>7, LockFrame

(* Users of a mutex are counted: they are finitely many. *)
LEMMA UsersFinite == ASSUME NEW m PROVE IsFiniteSet(Users(m)) /\ Cardinality(Users(m)) \in Nat
  <1>1. Users(m) \subseteq Handlers
    BY DEF Users
  <1> QED BY <1>1, OrdersAssumption, FS_Subset, FS_CardinalityType

(* A handler that enters takes the mutex in the table, or puts one there   *)
(* that no other process and no other handler uses.                        *)
LEMMA LockEnter ==
    ASSUME LockInv, NEW h \in Handlers, Enter(h)
    PROVE  LockInv'
  <1> DEFINE n == NodeOf[h]
             m == IF table[n] = None THEN Unused ELSE table[n]
  <1>1. /\ pc[h] = "enter" /\ pc' = [pc EXCEPT ![h] = "wait"]
        /\ table' = [table EXCEPT ![n] = m] /\ mutex' = [mutex EXCEPT ![h] = m]
        /\ refs' = [refs EXCEPT ![m] = refs[m] + 1]
        /\ UNCHANGED <<setup, row, owed, op, seen, owner, bounds, gap>>
    BY DEF Enter, Goto
  <1>2. ~Inside(h) /\ Locking(op[h]) /\ mutex[h] = None /\ n \in Nodes
    BY <1>1, OrdersAssumption DEF LockInv, Inside, AfterEnter, Working, OnlyLocking, OutsideFree
  <1>3. /\ m \in Handlers /\ m # None
        /\ table[n] = None => refs[m] = 0 /\ \A k \in Nodes : table[k] # m
    BY <1>2, UnusedLemma, OrdersAssumption DEF LockInv, TypeOK
  <1> HIDE DEF m
  <1>4. TypeOK'
    BY <1>1, <1>2, <1>3 DEF LockInv, TypeOK, AfterEnter, Working, setup, row, bounds
  <1>5. \A x : Locking(x)' <=> Locking(x)
    BY <1>1 DEF Locking, setup
  <1>6. \A g \in Handlers : Inside(g)' <=> Inside(g) \/ g = h
    BY <1>1, <1>2, <1>5 DEF LockInv, TypeOK, Inside, AfterEnter, Working
  <1>7. OnlyLocking'
    BY <1>1, <1>2, <1>5 DEF LockInv, TypeOK, OnlyLocking
  <1>8. \A k \in Nodes : table'[k] = IF k = n THEN m ELSE table[k]
    BY <1>1 DEF LockInv, TypeOK
  <1>9. \A g \in Handlers : mutex'[g] = IF g = h THEN m ELSE mutex[g]
    BY <1>1 DEF LockInv, TypeOK
  <1>10. InsideUses'
    <2> SUFFICES ASSUME NEW g \in Handlers, Inside(g)'
                 PROVE  mutex'[g] # None /\ mutex'[g] = table'[NodeOf[g]]
      BY DEF InsideUses
    <2>1. NodeOf[g] \in Nodes
      BY OrdersAssumption
    <2>2. CASE g = h
      BY <2>2, <1>2, <1>3, <1>8, <1>9
    <2>3. CASE g # h
      <3>1. Inside(g) /\ mutex[g] # None /\ mutex[g] = table[NodeOf[g]]
        BY <2>3, <1>6 DEF LockInv, InsideUses
      <3> QED BY <3>1, <2>1, <2>3, <1>8, <1>9 DEF m
    <2> QED BY <2>2, <2>3
  <1>11. OutsideFree'
    BY <1>6, <1>9 DEF LockInv, OutsideFree
  <1>12. RefsCount'
    <2> SUFFICES ASSUME NEW k \in Handlers PROVE refs'[k] = Cardinality(Users(k)')
      BY DEF RefsCount
    <2>1. CASE k = m
      <3>1. Users(k)' = Users(k) \cup {h} /\ h \notin Users(k)
        BY <2>1, <1>2, <1>6, <1>9 DEF Users
      <3>2. Cardinality(Users(k)') = Cardinality(Users(k)) + 1
        BY <3>1, UsersFinite, FS_AddElement
      <3> QED BY <3>2, <2>1, <1>1 DEF LockInv, TypeOK, RefsCount
    <2>2. CASE k # m
      <3>1. Users(k)' = Users(k)
        BY <2>2, <1>2, <1>6, <1>9 DEF Users
      <3> QED BY <3>1, <2>2, <1>1 DEF LockInv, TypeOK, RefsCount
    <2> QED BY <2>1, <2>2
  <1>13. TableUsed'
    BY <1>6, <1>8 DEF LockInv, TableUsed
  <1>14. TableApart'
    BY <1>2, <1>3, <1>8 DEF LockInv, TableApart, m
  <1>15. WorkerOwns'
    BY <1>1, <1>6, <1>9 DEF LockInv, TypeOK, WorkerOwns, Working
  <1> QED BY <1>4, <1>7, <1>10, <1>11, <1>12, <1>13, <1>14, <1>15 DEF LockInv

(* rcm.mu.Lock waits until nobody owns the mutex. *)
LEMMA LockAcquire ==
    ASSUME LockInv, NEW h \in Handlers, Acquire(h)
    PROVE  LockInv'
  <1>1. /\ pc[h] = "wait" /\ pc' = [pc EXCEPT ![h] = "read"]
        /\ owner[mutex[h]] = None /\ owner' = [owner EXCEPT ![mutex[h]] = h]
        /\ UNCHANGED <<setup, row, owed, op, seen, table, mutex, refs, bounds, gap>>
    BY DEF Acquire, Goto
  <1>2. Inside(h) /\ mutex[h] \in Handlers
    BY <1>1 DEF LockInv, TypeOK, OnlyLocking, Inside, InsideUses, AfterEnter
  <1>3. \A x : Locking(x)' <=> Locking(x)
    BY <1>1 DEF Locking, setup
  <1>4. \A g \in Handlers : Inside(g)' <=> Inside(g)
    BY <1>1, <1>2, <1>3 DEF LockInv, TypeOK, Inside, AfterEnter, Working
  <1>5. TypeOK'
    BY <1>1, <1>2 DEF LockInv, TypeOK, AfterEnter, Working, setup, row, bounds
  <1>6. OnlyLocking'
    BY <1>1, <1>3 DEF LockInv, TypeOK, OnlyLocking
  <1>7. InsideUses' /\ OutsideFree' /\ TableUsed' /\ TableApart'
    BY <1>1, <1>4 DEF LockInv, InsideUses, OutsideFree, TableUsed, TableApart
  <1>8. RefsCount'
    <2>1. \A k \in Handlers : Users(k)' = Users(k)
      BY <1>1, <1>4 DEF Users
    <2> QED BY <1>1, <2>1 DEF LockInv, RefsCount
  <1>9. WorkerOwns'
    <2> SUFFICES ASSUME NEW g \in Handlers, Inside(g)', pc'[g] \in Working
                 PROVE  owner'[mutex[g]] = g
      BY <1>1 DEF WorkerOwns
    <2>1. CASE g = h
      BY <2>1, <1>1, <1>2 DEF LockInv, TypeOK
    <2>2. CASE g # h
      <3>1. owner[mutex[g]] = g /\ mutex[g] \in Handlers
        BY <2>2, <1>1, <1>4 DEF LockInv, TypeOK, WorkerOwns, InsideUses
      <3>2. mutex[g] # mutex[h]
        BY <3>1, <1>1, OrdersAssumption
      <3> QED BY <3>1, <3>2, <1>1 DEF LockInv, TypeOK
    <2> QED BY <2>1, <2>2
  <1> QED BY <1>5, <1>6, <1>7, <1>8, <1>9 DEF LockInv

(* UnlockOrder finds in the table the mutex that its handler owns. *)
LEMMA LockUnlock ==
    ASSUME LockInv, NEW h \in Handlers, Unlock(h)
    PROVE  LockInv'
  <1> DEFINE m == table[NodeOf[h]]
  <1>1. pc[h] = "unlock"
    BY DEF Unlock
  <1>2. Inside(h) /\ m = mutex[h] /\ m # None /\ m \in Handlers /\ owner[m] = h
    BY <1>1 DEF LockInv, TypeOK, OnlyLocking, Inside, InsideUses, AfterEnter, Working, WorkerOwns
  <1>3. /\ owner' = [x \in Handlers |-> IF x = m THEN None ELSE owner[x]]
        /\ pc' = [pc EXCEPT ![h] = "leave"] /\ mutex' = mutex
        /\ UNCHANGED <<setup, row, owed, op, seen, table, refs, bounds, gap>>
    BY <1>2 DEF Unlock, Goto, LockInv, TypeOK
  <1>4. \A x : Locking(x)' <=> Locking(x)
    BY <1>3 DEF Locking, setup
  <1>5. \A g \in Handlers : Inside(g)' <=> Inside(g)
    BY <1>2, <1>3, <1>4 DEF LockInv, TypeOK, Inside, AfterEnter, Working
  <1>6. TypeOK'
    BY <1>3 DEF LockInv, TypeOK, AfterEnter, Working, setup, row, bounds
  <1>7. OnlyLocking'
    BY <1>1, <1>3, <1>4 DEF LockInv, TypeOK, OnlyLocking
  <1>8. InsideUses' /\ OutsideFree' /\ TableUsed' /\ TableApart'
    BY <1>3, <1>5 DEF LockInv, InsideUses, OutsideFree, TableUsed, TableApart
  <1>9. RefsCount'
    <2>1. \A k \in Handlers : Users(k)' = Users(k)
      BY <1>3, <1>5 DEF Users
    <2> QED BY <1>3, <2>1 DEF LockInv, RefsCount
  <1>10. WorkerOwns'
    <2> SUFFICES ASSUME NEW g \in Handlers, Inside(g)', pc'[g] \in Working
                 PROVE  owner'[mutex[g]] = g
      BY <1>3 DEF WorkerOwns
    <2>1. g # h
      BY <1>3 DEF LockInv, TypeOK, Working
    <2>2. owner[mutex[g]] = g /\ mutex[g] \in Handlers
      BY <2>1, <1>3, <1>5 DEF LockInv, TypeOK, WorkerOwns, InsideUses
    <2> QED BY <2>1, <2>2, <1>2, <1>3
  <1> QED BY <1>6, <1>7, <1>8, <1>9, <1>10 DEF LockInv

(* The last user takes the mutex out of the table, and no other does. *)
LEMMA LockLeave ==
    ASSUME LockInv, NEW h \in Handlers, Leave(h)
    PROVE  LockInv'
  <1> DEFINE n == NodeOf[h]
  <1>0. PICK m \in Handlers : m = mutex[h]
    BY DEF Leave, LockInv, TypeOK, OnlyLocking, Inside, InsideUses, AfterEnter
  <1>1. /\ pc[h] = "leave" /\ pc' = [pc EXCEPT ![h] = "idle"]
        /\ op' = [op EXCEPT ![h] = "pay"]
        /\ refs' = [refs EXCEPT ![m] = refs[m] - 1]
        /\ table' = [table EXCEPT ![n] = IF refs[m] = 1 THEN None ELSE table[n]]
        /\ mutex' = [mutex EXCEPT ![h] = None]
        /\ UNCHANGED <<setup, row, owed, seen, owner, bounds, gap>>
    BY <1>0 DEF Leave, Goto
  <1>2. Inside(h) /\ m # None /\ m = mutex[h] /\ m = table[n] /\ n \in Nodes
    BY <1>0, <1>1, OrdersAssumption DEF LockInv, TypeOK, OnlyLocking, Inside, InsideUses, AfterEnter
  <1>3. \A x : Locking(x)' <=> Locking(x)
    BY <1>1 DEF Locking, setup
  <1>4. \A g \in Handlers : Inside(g)' <=> Inside(g) /\ g # h
    BY <1>1, <1>2, <1>3 DEF LockInv, TypeOK, Inside, AfterEnter, Working
  <1>5. \A g \in Handlers : mutex'[g] = IF g = h THEN None ELSE mutex[g]
    BY <1>1 DEF LockInv, TypeOK
  <1>6. \A k \in Nodes : table'[k] = IF k = n /\ refs[m] = 1 THEN None ELSE table[k]
    BY <1>1, <1>2 DEF LockInv, TypeOK
  <1>7. Users(m)' = Users(m) \ {h} /\ h \in Users(m)
    BY <1>2, <1>4, <1>5 DEF Users
  <1>8. /\ refs[m] \in Nat \ {0}
        /\ Cardinality(Users(m)') = refs[m] - 1
        /\ IsFiniteSet(Users(m)')
    <2>1. refs[m] = Cardinality(Users(m)) /\ refs[m] \in Nat
      BY <1>2 DEF LockInv, TypeOK, RefsCount
    <2>2. refs[m] # 0
      BY <2>1, <1>7, UsersFinite, FS_EmptySet
    <2> QED BY <2>1, <2>2, <1>7, UsersFinite, FS_RemoveElement
  <1>9. refs[m] = 1 <=> Users(m)' = {}
    BY <1>8, FS_EmptySet
  <1>10. TypeOK'
    BY <1>1, <1>2, <1>8 DEF LockInv, TypeOK, Operations, setup, row, bounds
  <1>11. OnlyLocking'
    BY <1>1, <1>3 DEF LockInv, TypeOK, OnlyLocking
  <1>12. InsideUses'
    <2> SUFFICES ASSUME NEW g \in Handlers, Inside(g)'
                 PROVE  mutex'[g] # None /\ mutex'[g] = table'[NodeOf[g]]
      BY DEF InsideUses
    <2>1. Inside(g) /\ g # h /\ mutex[g] # None /\ mutex[g] = table[NodeOf[g]] /\ mutex'[g] = mutex[g]
      BY <1>4, <1>5 DEF LockInv, InsideUses
    <2>2. CASE NodeOf[g] = n
      <3>1. g \in Users(m)'
        BY <2>1, <2>2, <1>2 DEF Users
      <3> QED BY <3>1, <2>1, <2>2, <1>2, <1>6, <1>9
    <2>3. CASE NodeOf[g] # n
      BY <2>1, <2>3, <1>6, OrdersAssumption
    <2> QED BY <2>2, <2>3
  <1>13. OutsideFree'
    BY <1>4, <1>5 DEF LockInv, OutsideFree
  <1>14. RefsCount'
    <2> SUFFICES ASSUME NEW k \in Handlers PROVE refs'[k] = Cardinality(Users(k)')
      BY DEF RefsCount
    <2>1. CASE k = m
      BY <2>1, <1>1, <1>8 DEF LockInv, TypeOK
    <2>2. CASE k # m
      <3>1. Users(k)' = Users(k)
        BY <2>2, <1>2, <1>4, <1>5, OrdersAssumption DEF Users
      <3> QED BY <3>1, <2>2, <1>1 DEF LockInv, TypeOK, RefsCount
    <2> QED BY <2>1, <2>2
  <1>15. TableUsed'
    <2> SUFFICES ASSUME NEW k \in Nodes, table'[k] # None
                 PROVE  \E g \in Handlers : NodeOf[g] = k /\ Inside(g)'
      BY DEF TableUsed
    <2>1. CASE k = n
      <3>1. PICK g \in Users(m)' : TRUE
        BY <2>1, <1>6, <1>9
      <3>2. g \in Handlers /\ Inside(g)' /\ mutex'[g] = m
        BY <3>1 DEF Users
      <3>3. table[NodeOf[g]] = table[n] /\ NodeOf[g] \in Nodes
        BY <3>2, <1>2, <1>4, <1>5, OrdersAssumption DEF LockInv, InsideUses
      <3> QED BY <3>2, <3>3, <2>1, <1>2 DEF LockInv, TableApart
    <2>2. CASE k # n
      BY <2>2, <1>4, <1>6 DEF LockInv, TableUsed
    <2> QED BY <2>1, <2>2
  <1>16. TableApart'
    BY <1>6 DEF LockInv, TableApart
  <1>17. WorkerOwns'
    BY <1>1, <1>4, <1>5 DEF LockInv, TypeOK, WorkerOwns, Working
  <1> QED BY <1>10, <1>11, <1>12, <1>13, <1>14, <1>15, <1>16, <1>17 DEF LockInv

(* A crash takes the mutexes of its process along, and those of no other. *)
LEMMA LockCrash ==
    ASSUME LockInv, NEW n \in Nodes, Crash(n)
    PROVE  LockInv'
  <1> DEFINE dead == {h \in Handlers : NodeOf[h] = n}
             gone == {table[n]} \cup {mutex[h] : h \in dead}
  <1>1. /\ pc' = [h \in Handlers |-> IF h \in dead THEN "idle" ELSE pc[h]]
        /\ seen' = [h \in Handlers |-> IF h \in dead THEN 0 ELSE seen[h]]
        /\ mutex' = [h \in Handlers |-> IF h \in dead THEN None ELSE mutex[h]]
        /\ owner' = [m \in Handlers |-> IF m \in gone THEN None ELSE owner[m]]
        /\ refs' = [m \in Handlers |-> IF m \in gone THEN 0 ELSE refs[m]]
        /\ table' = [table EXCEPT ![n] = None]
        /\ faults' = faults + 1
        /\ UNCHANGED <<setup, row, owed, op, events>>
    BY DEF Crash, Fault
  <1>2. gap' \in BOOLEAN
    BY Zenon DEF Crash
  <1>3. \A m \in gone : m # None => m = table[n]
    BY DEF LockInv, InsideUses, OutsideFree
  <1>4. ASSUME NEW g \in Handlers, Inside(g), mutex[g] \in gone
        PROVE  g \in dead
    BY <1>3, <1>4, OrdersAssumption DEF LockInv, InsideUses, TableApart
  <1> HIDE DEF gone
  <1>5. \A x : Locking(x)' <=> Locking(x)
    BY <1>1 DEF Locking, setup
  <1>6. \A g \in Handlers : Inside(g)' <=> Inside(g) /\ g \notin dead
    BY <1>1, <1>5 DEF Inside, AfterEnter, Working
  <1>7. TypeOK'
    BY <1>1, <1>2 DEF LockInv, TypeOK, setup, row
  <1>8. OnlyLocking'
    BY <1>1, <1>5 DEF LockInv, OnlyLocking
  <1>9. InsideUses' /\ OutsideFree' /\ TableUsed' /\ TableApart'
    BY <1>1, <1>6 DEF LockInv, TypeOK, InsideUses, OutsideFree, TableUsed, TableApart
  <1>10. RefsCount'
    <2> SUFFICES ASSUME NEW m \in Handlers PROVE refs'[m] = Cardinality(Users(m)')
      BY DEF RefsCount
    <2>1. CASE m \in gone
      <3>1. Users(m)' = {}
        BY <2>1, <1>1, <1>4, <1>6 DEF Users
      <3> QED BY <3>1, <2>1, <1>1, FS_EmptySet
    <2>2. CASE m \notin gone
      <3>1. Users(m)' = Users(m)
        BY <2>2, <1>1, <1>6 DEF Users, gone
      <3> QED BY <3>1, <2>2, <1>1 DEF LockInv, RefsCount
    <2> QED BY <2>1, <2>2
  <1>11. WorkerOwns'
    BY <1>1, <1>4, <1>6 DEF LockInv, TypeOK, WorkerOwns, InsideUses
  <1> QED BY <1>7, <1>8, <1>9, <1>10, <1>11 DEF LockInv

(* Every step keeps the invariant of the locks. *)
LEMMA LockNext == LockInv /\ [Next]_vars => LockInv'
  <1> SUFFICES ASSUME LockInv, [Next]_vars PROVE LockInv'
    OBVIOUS
  <1>1. CASE UNCHANGED vars
    <2>1. \A x : Locking(x)' <=> Locking(x)
      BY <1>1 DEF Locking, vars, setup
    <2>2. \A g \in Handlers : Inside(g)' <=> Inside(g)
      BY <1>1, <2>1 DEF Inside, vars
    <2>3. TypeOK' /\ OnlyLocking'
      BY <1>1, <2>1 DEF LockInv, TypeOK, OnlyLocking, vars, setup, row, locks, bounds
    <2> QED BY <1>1, <2>2, <2>3, LockFrame DEF vars
  <1>2. ASSUME NEW h \in Handlers, HandlerStep(h) PROVE LockInv'
    BY <1>2, LockEnter, LockAcquire, LockRow, LockUnlock, LockLeave DEF HandlerStep, RowStep
  <1> QED BY <1>1, <1>2, LockRequest, LockCrash DEF Next

(* The invariant of the locks, for every behaviour. *)
LEMMA LockInvariant == Spec => []LockInv
  BY LockInit, LockNext, PTL DEF Spec

(* LockOrder and UnlockOrder, for any number of handlers and processes and *)
(* whatever fails or crashes: at most one handler of a process works on    *)
(* the order, and the table holds a mutex exactly while somebody is        *)
(* between them.                                                           *)
THEOREM OrderLockTheorem == Spec => []OrderLock
  BY LockInvariant, LockImplied, PTL

-----------------------------------------------------------------------------
(* The credit. *)

(* Handlers between the two writes of EpayNotify or a check-in on SQLite. *)
Midway(h) == pc[h] \in {"credit", "undo"}

(* The lock that every handler of the order takes. *)
AllLock == kind \in (TopUps \cup SubscriptionOrders) \ {"waffo"}
        /\ \A g, h \in Handlers : NodeOf[g] = NodeOf[h]

(* Whoever is about to write has read a pending row, if it is still the    *)
(* one it has read, and it is where everyone takes the lock.  While a      *)
(* handler is midway the row says success, nothing is credited, and it is  *)
(* alone.                                                                  *)
ReadPending == \A h \in Handlers :
    pc[h] = "write" => seen[h] <= version /\ (seen[h] = version => status = "pending")
LockedRead == AllLock => \A h \in Handlers : pc[h] = "write" => seen[h] = version
MidwayAlone == \A h \in Handlers :
    Midway(h) => /\ status = "success" /\ credits = 0 /\ ~gap
                 /\ pc[h] = "undo" => kind = "checkin"
                 /\ \A g \in Handlers : Midway(g) => g = h
CreditOnce ==
    /\ credits \in {0, 1}
    /\ status = "success" <=> credits = 1 \/ gap \/ \E h \in Handlers : Midway(h)

CreditInv == LockInv /\ ReadPending /\ LockedRead /\ MidwayAlone /\ CreditOnce

(* The invariant of the credits is what the order promises. *)
LEMMA CreditImplied == CreditInv => CreditMatchesStatus
  <1> SUFFICES ASSUME CreditInv PROVE CreditMatchesStatus
    OBVIOUS
  <1>1. credits <= 1
    BY DEF CreditInv, CreditOnce
  <1>2. (status = "success") =
            (credits = 1 \/ gap \/ \E h \in Handlers : pc[h] \in {"credit", "undo"})
    BY Zenon DEF CreditInv, CreditOnce, Midway
  <1> QED BY <1>1, <1>2 DEF CreditMatchesStatus

(* At the start nothing is credited and nobody is midway. *)
LEMMA CreditInit == Init => CreditInv
  BY LockInit DEF Init, CreditInv, ReadPending, LockedRead, MidwayAlone, CreditOnce, Midway

(* Whether an order is open, for OneTimeGrant. *)
Open == credits = 0 /\ (status = "pending" \/ \E h \in Handlers : Midway(h))

GrantStep == \/ Open /\ credits' = credits + 1 /\ ~Open'
             \/ Open /\ credits' = credits /\ ~Open'
             \/ credits' = credits /\ (Open' <=> Open)

(* A step that leaves the row alone, and nobody midway moves. *)
LEMMA CreditFrame ==
    ASSUME CreditInv, LockInv', UNCHANGED <<setup, row, gap>>,
           \A g \in Handlers : Midway(g) \/ Midway(g)' => pc'[g] = pc[g],
           \A g \in Handlers : pc'[g] = "write" =>
                \/ pc[g] = "write" /\ seen'[g] = seen[g]
                \/ status = "pending" /\ seen'[g] = version
    PROVE  CreditInv' /\ GrantStep
  <1>1. \A g \in Handlers : Midway(g)' <=> Midway(g)
    BY DEF Midway
  <1>2. ReadPending'
    BY DEF CreditInv, ReadPending, row, LockInv, TypeOK
  <1>3. LockedRead'
    <2>1. AllLock' <=> AllLock
      BY DEF AllLock, setup
    <2> QED BY <2>1 DEF CreditInv, LockedRead, row
  <1>4. MidwayAlone'
    BY <1>1 DEF CreditInv, MidwayAlone, row, setup
  <1>5. CreditOnce' /\ GrantStep
    <2>1. (\E g \in Handlers : Midway(g)') <=> (\E g \in Handlers : Midway(g))
      BY <1>1
    <2>2. CreditOnce'
      BY <2>1 DEF CreditInv, CreditOnce, row
    <2>3. Open' <=> Open
      BY <2>1 DEF Open, row
    <2> QED BY <2>2, <2>3 DEF GrantStep, row
  <1> QED BY <1>2, <1>3, <1>4, <1>5 DEF CreditInv

(* Requests, LockOrder, UnlockOrder and Read. *)
LEMMA CreditQuiet ==
    ASSUME CreditInv, LockInv', NEW h \in Handlers,
           \/ Pay(h) \/ \E o \in Operations : Event(h, o)
           \/ Enter(h) \/ Acquire(h) \/ Unlock(h) \/ Leave(h)
    PROVE  CreditInv' /\ GrantStep
  <1>1. /\ UNCHANGED <<setup, row, gap, seen>>
        /\ pc[h] \in {"idle", "enter", "wait", "unlock", "leave"}
        /\ \E l \in {"idle", "enter", "wait", "read", "leave"} : pc' = [pc EXCEPT ![h] = l]
    <2>1. CASE Pay(h) \/ \E o \in Operations : Event(h, o)
      BY <2>1 DEF Pay, Event, Start, Goto
    <2>2. CASE Enter(h)
      BY <2>2 DEF Enter, Goto
    <2>3. CASE Acquire(h)
      BY <2>3 DEF Acquire, Goto
    <2>4. CASE Unlock(h)
      BY <2>4 DEF Unlock, Goto
    <2>5. CASE Leave(h)
      BY <2>5 DEF Leave, Goto
    <2> QED BY <2>1, <2>2, <2>3, <2>4, <2>5
  <1>2. \A g \in Handlers : Midway(g) \/ Midway(g)' => pc'[g] = pc[g]
    BY <1>1 DEF Midway, CreditInv, LockInv, TypeOK
  <1>3. \A g \in Handlers : pc'[g] = "write" => pc[g] = "write" /\ seen'[g] = seen[g]
    BY <1>1 DEF CreditInv, LockInv, TypeOK
  <1> QED BY <1>1, <1>2, <1>3, CreditFrame

(* Where Finish leaves a handler. *)
LEMMA FinishMoves ==
    ASSUME TypeOK, NEW h \in Handlers, NEW e, Finish(h, e)
    PROVE  /\ pc'[h] \in {"unlock", "idle"}
           /\ \A g \in Handlers : g # h => pc'[g] = pc[g] /\ seen'[g] = seen[g]
  BY DEF Finish, Goto, TypeOK

(* The read of the row: whoever goes on has read the current version. *)
LEMMA CreditRead ==
    ASSUME CreditInv, LockInv', NEW h \in Handlers, Read(h)
    PROVE  CreditInv' /\ GrantStep
  <1> USE DEF CreditInv, LockInv
  <1>1. UNCHANGED <<setup, row, gap>> /\ pc[h] = "read"
    BY DEF Read
  <1>2. CASE status = "pending"
    <2>1. pc' = [pc EXCEPT ![h] = "write"] /\ seen' = [seen EXCEPT ![h] = version]
      BY <1>2 DEF Read, Goto
    <2>2. \A g \in Handlers : Midway(g) \/ Midway(g)' => pc'[g] = pc[g]
      BY <2>1, <1>1 DEF Midway, TypeOK
    <2>3. \A g \in Handlers : pc'[g] = "write" =>
              \/ pc[g] = "write" /\ seen'[g] = seen[g]
              \/ status = "pending" /\ seen'[g] = version
      BY <2>1, <1>2 DEF TypeOK
    <2> QED BY <1>1, <2>2, <2>3, CreditFrame
  <1>3. CASE status # "pending"
    <2>1. /\ pc'[h] \in {"unlock", "idle"}
          /\ \A g \in Handlers : g # h => pc'[g] = pc[g] /\ seen'[g] = seen[g]
      BY <1>3, FinishMoves DEF Read
    <2>2. \A g \in Handlers : Midway(g) \/ Midway(g)' => pc'[g] = pc[g]
      BY <2>1, <1>1 DEF Midway
    <2> QED BY <1>1, <2>1, <2>2, CreditFrame
  <1> QED BY <1>2, <1>3

(* A failed read or write changes nothing. *)
LEMMA CreditFailure ==
    ASSUME CreditInv, LockInv', NEW h \in Handlers, ReadFails(h) \/ WriteFails(h)
    PROVE  CreditInv' /\ GrantStep
  <1>1. UNCHANGED <<setup, row, gap>> /\ pc[h] \in {"read", "write"}
    BY DEF ReadFails, WriteFails
  <1>2. Finish(h, TRUE) \/ Finish(h, FALSE)
    BY DEF ReadFails, WriteFails
  <1>3. /\ pc'[h] \in {"unlock", "idle"}
        /\ \A g \in Handlers : g # h => pc'[g] = pc[g] /\ seen'[g] = seen[g]
    BY <1>2, FinishMoves DEF CreditInv, LockInv
  <1>4. \A g \in Handlers : Midway(g) \/ Midway(g)' => pc'[g] = pc[g]
    BY <1>1, <1>3 DEF Midway
  <1> QED BY <1>1, <1>3, <1>4, CreditFrame

(* A write that the database does not refuse finds a pending row: the      *)
(* unique index, the isolation of SQLite or the lock has seen to it.       *)
LEMMA WriteFindsPending ==
    ASSUME Serialised, CreditInv, NEW h \in Handlers, pc[h] = "write", ~Refused(h)
    PROVE  status = "pending"
  <1> USE DEF CreditInv, LockInv
  <1>1. <<kind, dbms>> \in Setups /\ kind \in Kinds /\ dbms \in Databases
    BY OrdersAssumption DEF TypeOK
  <1>2. seen[h] = version => status = "pending"
    BY DEF ReadPending
  <1>3. CASE kind = "checkin"
    BY <1>3 DEF Refused
  <1>4. CASE dbms = "sqlite" /\ kind \notin {"epay", "stripe", "checkin"}
    <2>1. Transactional(h)
      BY <1>4 DEF Transactional
    <2> QED BY <2>1, <1>2, <1>4 DEF Refused
  <1>5. CASE kind \notin {"waffo", "code", "checkin"} /\ \A f, g \in Handlers : NodeOf[f] = NodeOf[g]
    <2>1. AllLock
      BY <1>1, <1>5 DEF AllLock, Kinds
    <2> QED BY <2>1, <1>2 DEF LockedRead
  <1> QED BY <1>1, <1>3, <1>4, <1>5 DEF Serialised

(* Marking the row: nobody is midway and nothing is credited; then it is   *)
(* credited in the same transaction, or the handler goes on to the credit. *)
LEMMA CreditWrite ==
    ASSUME Serialised, CreditInv, LockInv', NEW h \in Handlers, Write(h)
    PROVE  CreditInv' /\ GrantStep
  <1> USE DEF CreditInv, LockInv
  <1>1. /\ pc[h] = "write" /\ status' = Target(op[h]) /\ version' = version + 1
        /\ UNCHANGED <<setup, op, locks, gap>>
    BY DEF Write
  <1>2. status = "pending"
    BY WriteFindsPending DEF Write
  <1>3. credits = 0 /\ ~gap /\ \A g \in Handlers : ~Midway(g)
    BY <1>2 DEF MidwayAlone, CreditOnce
  <1>4. Open
    BY <1>2, <1>3 DEF Open
  <1>5. status' \in {"success", "expired", "failed"}
    BY <1>1 DEF TypeOK, Operations, Target
  <1>6. /\ \A g \in Handlers : g # h => pc'[g] = pc[g] /\ seen'[g] = seen[g]
        /\ \/ pc'[h] = "credit" /\ status' = "success" /\ credits' = 0
           \/ /\ pc'[h] \in {"unlock", "idle"}
              /\ credits' = IF status' = "success" THEN 1 ELSE 0
    <2>1. CASE Target(op[h]) = "success" /\ ~Transactional(h)
      BY <2>1, <1>1, <1>3 DEF Write, Goto, TypeOK
    <2>2. CASE ~(Target(op[h]) = "success" /\ ~Transactional(h))
      <3>1. Finish(h, FALSE) /\ credits' = IF Target(op[h]) = "success" THEN credits + 1 ELSE credits
        BY <2>2, Zenon DEF Write
      <3>2. credits' = IF status' = "success" THEN 1 ELSE 0
        BY <3>1, <1>1, <1>3
      <3>3. /\ pc'[h] \in {"unlock", "idle"}
            /\ \A g \in Handlers : g # h => pc'[g] = pc[g] /\ seen'[g] = seen[g]
        BY <3>1, FinishMoves
      <3> QED BY <3>2, <3>3
    <2> QED BY <2>1, <2>2
  <1>7. \A g \in Handlers : Midway(g)' <=> g = h /\ pc'[h] = "credit"
    BY <1>3, <1>6 DEF Midway
  <1>8. ReadPending'
    BY <1>1, <1>6 DEF ReadPending, TypeOK
  <1>9. LockedRead'
    <2>1. SUFFICES ASSUME AllLock', NEW g \in Handlers, pc'[g] = "write"
                   PROVE  FALSE
      BY DEF LockedRead
    <2>2. g # h /\ pc[g] = "write" /\ AllLock
      BY <2>1, <1>1, <1>6 DEF AllLock, setup
    <2>3. \A f \in Handlers : Locking(op[f])
      BY <2>2 DEF AllLock, Locking
    <2>4. NodeOf[g] = NodeOf[h] /\ pc[g] \in Working /\ pc[h] \in Working
      BY <2>2, <1>1 DEF AllLock, Working
    <2> QED BY <2>2, <2>3, <2>4, OneWorks
  <1>10. MidwayAlone'
    BY <1>1, <1>3, <1>6, <1>7 DEF MidwayAlone
  <1>11. CreditOnce'
    BY <1>1, <1>3, <1>5, <1>6, <1>7 DEF CreditOnce
  <1>12. GrantStep
    <2>1. CASE pc'[h] = "credit"
      BY <2>1, <1>3, <1>4, <1>6, <1>7 DEF GrantStep, Open
    <2>2. CASE pc'[h] # "credit"
      BY <2>2, <1>3, <1>4, <1>5, <1>6, <1>7 DEF GrantStep, Open
    <2> QED BY <2>1, <2>2
  <1> QED BY <1>8, <1>9, <1>10, <1>11, <1>12

(* The second write of a handler midway: afterwards nobody is. *)
LEMMA CreditCredit ==
    ASSUME CreditInv, LockInv', NEW h \in Handlers, Credit(h)
    PROVE  CreditInv' /\ GrantStep
  <1> USE DEF CreditInv, LockInv
  <1>1. /\ Midway(h) /\ credits' = credits + 1 /\ UNCHANGED <<setup, status, version, gap>>
        /\ pc'[h] \in {"unlock", "idle"}
        /\ \A g \in Handlers : g # h => pc'[g] = pc[g] /\ seen'[g] = seen[g]
    BY FinishMoves DEF Credit, Midway
  <1>2. status = "success" /\ credits = 0 /\ ~gap /\ \A g \in Handlers : Midway(g) => g = h
    BY <1>1 DEF MidwayAlone
  <1>3. \A g \in Handlers : ~Midway(g)'
    BY <1>1, <1>2 DEF Midway
  <1>4. ReadPending' /\ LockedRead'
    <2>1. AllLock' <=> AllLock
      BY <1>1 DEF AllLock, setup
    <2> QED BY <2>1, <1>1 DEF ReadPending, LockedRead
  <1>5. MidwayAlone' /\ CreditOnce'
    BY <1>1, <1>2, <1>3 DEF MidwayAlone, CreditOnce
  <1>6. GrantStep
    BY <1>1, <1>2 DEF GrantStep, Open
  <1> QED BY <1>4, <1>5, <1>6

(* A failed credit is remembered as a gap, or is going to be undone. *)
LEMMA CreditCreditFails ==
    ASSUME CreditInv, LockInv', NEW h \in Handlers, CreditFails(h)
    PROVE  CreditInv' /\ GrantStep
  <1> USE DEF CreditInv, LockInv
  <1>1. Midway(h) /\ UNCHANGED <<setup, row>>
    BY DEF CreditFails, Midway
  <1>2. status = "success" /\ credits = 0 /\ ~gap /\ \A g \in Handlers : Midway(g) => g = h
    BY <1>1 DEF MidwayAlone
  <1>3. AllLock' <=> AllLock
    BY <1>1 DEF AllLock, setup
  <1>4. CASE kind = "checkin"
    <2>1. pc' = [pc EXCEPT ![h] = "undo"] /\ seen' = seen /\ gap' = gap
      BY <1>4 DEF CreditFails, Goto
    <2>2. \A g \in Handlers : Midway(g)' <=> Midway(g)
      BY <2>1, <1>1 DEF Midway, TypeOK
    <2>3. ReadPending' /\ LockedRead'
      BY <2>1, <1>1, <1>3 DEF ReadPending, LockedRead, row, TypeOK
    <2>4. MidwayAlone' /\ CreditOnce' /\ GrantStep
      BY <2>1, <2>2, <1>1, <1>2, <1>4 DEF MidwayAlone, CreditOnce, GrantStep, Open, row, setup
    <2> QED BY <2>3, <2>4
  <1>5. CASE kind # "checkin"
    <2>1. /\ pc'[h] \in {"unlock", "idle"} /\ gap'
          /\ \A g \in Handlers : g # h => pc'[g] = pc[g] /\ seen'[g] = seen[g]
      BY <1>5, FinishMoves DEF CreditFails
    <2>2. \A g \in Handlers : ~Midway(g)'
      BY <2>1, <1>2 DEF Midway
    <2>3. ReadPending' /\ LockedRead'
      BY <2>1, <1>1, <1>3 DEF ReadPending, LockedRead, row
    <2>4. MidwayAlone' /\ CreditOnce' /\ GrantStep
      BY <2>1, <2>2, <1>1, <1>2 DEF MidwayAlone, CreditOnce, GrantStep, Open, row
    <2> QED BY <2>3, <2>4
  <1> QED BY <1>4, <1>5

(* Taking a check-in's record back makes what others have read out of      *)
(* date.                                                                   *)
LEMMA CreditUndo ==
    ASSUME CreditInv, LockInv', NEW h \in Handlers, Undo(h)
    PROVE  CreditInv' /\ GrantStep
  <1> USE DEF CreditInv, LockInv
  <1>1. /\ Midway(h) /\ pc[h] = "undo" /\ UNCHANGED <<setup, credits>>
        /\ pc'[h] \in {"unlock", "idle"}
        /\ \A g \in Handlers : g # h => pc'[g] = pc[g] /\ seen'[g] = seen[g]
    BY FinishMoves DEF Undo, Midway
  <1>2. /\ status = "success" /\ credits = 0 /\ ~gap /\ kind = "checkin"
        /\ \A g \in Handlers : Midway(g) => g = h
    BY <1>1 DEF MidwayAlone
  <1>3. \A g \in Handlers : ~Midway(g)'
    BY <1>1, <1>2 DEF Midway
  <1>4. LockedRead' /\ MidwayAlone'
    BY <1>1, <1>2, <1>3 DEF LockedRead, MidwayAlone, AllLock, setup, TopUps, SubscriptionOrders
  <1>5. CASE status' = "pending" /\ version' = version + 1 /\ gap' = gap
    BY <1>1, <1>2, <1>3, <1>4, <1>5 DEF ReadPending, CreditOnce, GrantStep, Open, TypeOK
  <1>6. CASE UNCHANGED <<status, version>> /\ gap' = TRUE
    BY <1>1, <1>2, <1>3, <1>4, <1>6 DEF ReadPending, CreditOnce, GrantStep, Open
  <1> QED BY <1>5, <1>6 DEF Undo

(* A crash leaves the gap if it hits a handler midway. *)
LEMMA CreditCrash ==
    ASSUME CreditInv, LockInv', NEW n \in Nodes, Crash(n)
    PROVE  CreditInv' /\ GrantStep
  <1> DEFINE dead == {h \in Handlers : NodeOf[h] = n}
  <1> USE DEF CreditInv, LockInv
  <1>1. /\ pc' = [h \in Handlers |-> IF h \in dead THEN "idle" ELSE pc[h]]
        /\ seen' = [h \in Handlers |-> IF h \in dead THEN 0 ELSE seen[h]]
        /\ UNCHANGED <<setup, row>>
    BY DEF Crash
  <1>2. gap' <=> gap \/ \E h \in dead : Midway(h)
    BY Zenon DEF Crash, Midway
  <1>3. \A g \in Handlers : Midway(g)' <=> Midway(g) /\ g \notin dead
    BY <1>1 DEF Midway
  <1>4. ReadPending' /\ LockedRead'
    <2>1. AllLock' <=> AllLock
      BY <1>1 DEF AllLock, setup
    <2> QED BY <2>1, <1>1 DEF ReadPending, LockedRead, row
  <1>5. MidwayAlone'
    <2> SUFFICES ASSUME NEW h \in Handlers, Midway(h)'
                 PROVE  /\ status' = "success" /\ credits' = 0 /\ ~gap'
                        /\ pc'[h] = "undo" => kind' = "checkin"
                        /\ \A g \in Handlers : Midway(g)' => g = h
      BY DEF MidwayAlone
    <2>1. Midway(h) /\ h \notin dead
      BY <1>3
    <2>2. /\ status = "success" /\ credits = 0 /\ ~gap
          /\ pc[h] = "undo" => kind = "checkin"
          /\ \A g \in Handlers : Midway(g) => g = h
      BY <2>1 DEF MidwayAlone
    <2>3. ~gap'
      BY <2>1, <2>2, <1>2
    <2> QED BY <2>1, <2>2, <2>3, <1>1, <1>3 DEF row, setup
  <1>6. CreditOnce'
    BY <1>1, <1>2, <1>3 DEF CreditOnce, row
  <1>7. GrantStep
    <2>1. CASE \E h \in dead : Midway(h)
      <3>1. /\ credits = 0 /\ status = "success" /\ Open
            /\ \A g \in Handlers : ~Midway(g)'
        BY <2>1, <1>3 DEF MidwayAlone, Open
      <3> QED BY <3>1, <1>1 DEF GrantStep, Open, row
    <2>2. CASE ~\E h \in dead : Midway(h)
      BY <2>2, <1>1, <1>3 DEF GrantStep, Open, row
    <2> QED BY <2>1, <2>2
  <1> QED BY <1>4, <1>5, <1>6, <1>7

(* Every step keeps the invariant of the credits and is a step of          *)
(* OneTimeGrant.                                                           *)
LEMMA CreditNext ==
    ASSUME Serialised, CreditInv, [Next]_vars
    PROVE  CreditInv' /\ GrantStep
  <1>1. LockInv'
    BY LockNext DEF CreditInv
  <1>2. CASE UNCHANGED vars
    <2>1. UNCHANGED <<setup, row, gap, pc, seen>>
      BY <1>2 DEF vars
    <2> QED BY <2>1, <1>1, CreditFrame
  <1>3. ASSUME NEW h \in Handlers, HandlerStep(h) PROVE CreditInv' /\ GrantStep
    BY <1>1, <1>3, CreditQuiet, CreditRead, CreditWrite, CreditFailure, CreditCredit,
       CreditCreditFails, CreditUndo DEF HandlerStep
  <1> QED BY <1>1, <1>2, <1>3, CreditQuiet, CreditCrash DEF Next

(* The invariant of the credits, for every behaviour. *)
LEMMA CreditInvariant == ASSUME Serialised PROVE Spec => []CreditInv
  <1>1. CreditInv /\ [Next]_vars => CreditInv'
    BY CreditNext
  <1> QED BY <1>1, CreditInit, PTL DEF Spec

(* Recharge, RechargeCreem, RechargeWaffo, CompleteSubscriptionOrder,      *)
(* Redeem, EpayNotify and UserCheckin, for any number of handlers, repeats *)
(* and failures, wherever an order is serialised: a row that says success  *)
(* was credited once, any other never, but for the gap of two writes.      *)
THEOREM CreditMatchesStatusTheorem == ASSUME Serialised PROVE Spec => []CreditMatchesStatus
  BY CreditInvariant, CreditImplied, PTL

(* And the order implements a one-time grant: it is credited once, or      *)
(* closed for good.                                                        *)
THEOREM ImplementsGrantTheorem == ASSUME Serialised PROVE Spec => ImplementsGrant
  <1>1. Init => Grant!Init
    BY DEF Init, Grant!Init
  <1>2. CreditInv /\ [Next]_vars => [Grant!Next]_<<credits, Open>>
    <2> SUFFICES ASSUME CreditInv, [Next]_vars PROVE [Grant!Next]_<<credits, Open>>
      OBVIOUS
    <2>1. GrantStep
      BY CreditNext
    <2> QED BY <2>1, Zenon DEF GrantStep, Grant!Next, Grant!Grant, Grant!Close, Open, Midway
  <1> QED BY <1>1, <1>2, CreditInvariant, PTL DEF Spec, ImplementsGrant, Grant!Spec, Open, Midway
=============================================================================
