------------------------- MODULE ChannelStatusProofs -------------------------
(***************************************************************************)
(* Proofs about ChannelStatus, for all channels, keys and failing keys,    *)
(* and any number of passing errors, edits and database errors: a channel  *)
(* with a route is enabled and has an enabled key.                         *)
(***************************************************************************)
EXTENDS ChannelStatus, TLAPS

-----------------------------------------------------------------------------
(* The inductive invariant. *)

Calls == [c : Channels, k : Keys \cup {None}, to : {"on", "auto"}]
CallOK(t) == t \in Calls /\ (t.k \in KeysOf(t.c) \/ (t.k = None /\ t.to = "auto"))

(* A row of channel c; one that an edit did not enable as it was has an    *)
(* enabled key if it is enabled.                                           *)
RowOK(c, o) == o \in Row /\ (c \notin multiKey => o.off = {})
Usable(o) == o.off # Keys \/ "edit" \in troubles
Good(c, o) == RowOK(c, o) /\ (o.status = "on" => Usable(o))

(* The rows in the database and in the snapshots are good; the memory may  *)
(* hold an enabled channel without an enabled key, which has no route.     *)
RowsGood == \A c \in Channels : Good(c, db[c]) /\ RowOK(c, mem[c])
SnapsGood ==
    /\ snap \in [Syncers -> {NoRows} \cup [Channels -> Row]]
    /\ \A s \in Syncers : snap[s] # NoRows =>
           \A c \in Channels : Good(c, snap[s][c])

(* What UpdateChannelStatus holds at each of its steps.  The object it     *)
(* changes in place is the one in memory, or has been replaced.            *)
Marking == upd.pc = "mark" =>
    /\ upd \in [pc : {"mark"}, call : Calls, live : BOOLEAN, obj : Row]
    /\ CallOK(upd.call) /\ RowOK(upd.call.c, upd.obj)
    /\ upd.live => upd.obj = mem[upd.call.c]
Routing == upd.pc = "route" =>
    /\ CallOK(upd.call) /\ upd.obj \in Row
    /\ upd.call.c \in routes /\ upd.obj.status = "on" =>
         mem[upd.call.c] # Missing /\ Usable(mem[upd.call.c])
Loading == upd.pc \in {"load", "ability"} => CallOK(upd.call)
Saving == upd.pc = "save" => CallOK(upd.call) /\ Good(upd.call.c, upd.row)
UpdGood == Marking /\ Routing /\ Loading /\ Saving

(* What the administrator's request holds. *)
EditGood ==
    /\ edit.pc = "write" =>
         /\ edit.c \in Channels /\ edit.off \in SUBSET Keys
         /\ edit.c \notin multiKey => edit.off = {}
         /\ "edit" \in troubles
    /\ edit.pc = "ability" => edit.c \in Channels

StatusInv ==
    /\ RoutesEnabled
    /\ \A t \in todo : CallOK(t)
    /\ RowsGood /\ SnapsGood /\ UpdGood /\ EditGood

(* RoutesEnabled without the types. *)
Enabled ==
    \A c \in routes :
        \/ mem[c].status = "on" /\ Usable(mem[c])
        \/ upd.pc = "route" /\ upd.call.c = c

-----------------------------------------------------------------------------
(* What handlerMultiKeyUpdate returns. *)

(* Whatever the row was, an enabled result has an enabled key. *)
LEMMA HandledLemma ==
    ASSUME NEW t, CallOK(t), NEW o, RowOK(t.c, o)
    PROVE  LET h == Handled(o, t.k, t.to)
           IN h \in Row /\ Good(t.c, h) /\ (h.status = "on" => h.off # Keys)
  <1> DEFINE h == Handled(o, t.k, t.to)
  <1>1. /\ Keys # {} /\ None \notin Keys
        /\ t.to \in {"on", "auto"} /\ t.k \in Keys \cup {None} /\ o \in Row
        /\ t.k \in KeysOf(t.c) \/ (t.k = None /\ t.to = "auto")
        /\ o.status \in Statuses /\ o.off \in SUBSET Keys
        /\ t.c \notin multiKey => o.off = {}
    BY StatusAssumption DEF CallOK, Calls, RowOK, Row
  <1>2. CASE t.k = None
    <2>1. t.c \notin multiKey \/ t.to = "auto"
      BY <1>1, <1>2 DEF KeysOf
    <2>2. h = [o EXCEPT !.status = t.to]
      BY <1>2 DEF Handled
    <2>3. h \in Row /\ h.off = o.off /\ h.status = t.to
      BY <1>1, <2>2 DEF Row, Statuses
    <2> QED
      BY <1>1, <2>1, <2>3 DEF Good, RowOK, Usable
  <1>3. CASE t.k # None
    <2>1. t.c \in multiKey /\ t.k \in Keys
      BY <1>1, <1>3 DEF KeysOf
    <2>2. PICK off \in SUBSET Keys : off = IF t.to = "on" THEN o.off \ {t.k} ELSE o.off \cup {t.k}
      BY <1>1, <2>1
    <2>3. h = [status |-> IF off = Keys THEN "auto"
                          ELSE IF t.to = "on" THEN "on" ELSE o.status,
               off |-> off]
      BY <1>3, <2>2 DEF Handled
    <2>4. h \in Row /\ h.off = off /\ (off = Keys => h.status = "auto")
      BY <1>1, <2>3 DEF Row, Statuses
    <2> QED
      BY <2>1, <2>4 DEF Good, RowOK, Usable
  <1> QED
    BY <1>2, <1>3

-----------------------------------------------------------------------------
(* What a step leaves alone stays as it was. *)

(* The rows. *)
LEMMA RowsKept ==
    ASSUME RowsGood, UNCHANGED <<multiKey, db, mem>>, troubles \subseteq troubles'
    PROVE  RowsGood'
  BY DEF RowsGood, Good, RowOK, Usable

(* The snapshots. *)
LEMMA SnapsKept ==
    ASSUME SnapsGood, UNCHANGED <<multiKey, snap>>, troubles \subseteq troubles'
    PROVE  SnapsGood'
  BY DEF SnapsGood, Good, RowOK, Usable

(* The calls that wait. *)
LEMMA CallsKept ==
    ASSUME \A t \in todo : CallOK(t), todo' \subseteq todo, UNCHANGED multiKey
    PROVE  \A t \in todo' : CallOK(t)'
  BY DEF CallOK, KeysOf

(* The call that runs. *)
LEMMA UpdKept ==
    ASSUME UpdGood, UNCHANGED <<multiKey, upd, mem, routes>>, troubles \subseteq troubles'
    PROVE  UpdGood'
  <1>1. Marking'
    BY DEF UpdGood, Marking, CallOK, KeysOf, RowOK
  <1>2. Routing'
    BY DEF UpdGood, Routing, CallOK, KeysOf, Usable
  <1>3. Loading'
    BY DEF UpdGood, Loading, CallOK, KeysOf
  <1>4. Saving'
    BY DEF UpdGood, Saving, CallOK, KeysOf, Good, RowOK, Usable
  <1> QED
    BY <1>1, <1>2, <1>3, <1>4 DEF UpdGood

(* The administrator's request. *)
LEMMA EditKept ==
    ASSUME EditGood, UNCHANGED <<multiKey, edit>>, troubles \subseteq troubles'
    PROVE  EditGood'
  BY DEF EditGood

(* The routes, unless the call was about to take one away. *)
LEMMA EnabledKept ==
    ASSUME Enabled, UNCHANGED <<mem, routes>>, troubles \subseteq troubles',
           upd.pc # "route" \/ upd' = upd
    PROVE  Enabled'
  BY DEF Enabled, Usable

(* The invariant in parts. *)
LEMMA StatusParts ==
    /\ StatusInv => TypeOK /\ Enabled /\ (\A t \in todo : CallOK(t))
                    /\ RowsGood /\ SnapsGood /\ UpdGood /\ EditGood
    /\ TypeOK' /\ Enabled' /\ (\A t \in todo' : CallOK(t)')
       /\ RowsGood' /\ SnapsGood' /\ UpdGood' /\ EditGood' => StatusInv'
  BY DEF StatusInv, RoutesEnabled, Enabled, Usable

(* A recorded event. *)
LEMMA TroubleLemma ==
    ASSUME TypeOK, NEW x \in {"error", "edit", "fault"}, Trouble(x) \/ UNCHANGED troubles
    PROVE  troubles \subseteq troubles' /\ troubles' \subseteq {"error", "edit", "fault"}
  BY DEF TypeOK, Trouble

-----------------------------------------------------------------------------
(* The steps of UpdateChannelStatus. *)

(* The call takes the object in memory. *)
LEMMA GetKeeps ==
    ASSUME StatusInv, NEW t \in todo, Get(t)
    PROVE  StatusInv'
  <1>1. TypeOK /\ Enabled /\ (\A x \in todo : CallOK(x))
        /\ RowsGood /\ SnapsGood /\ UpdGood /\ EditGood
    BY StatusParts
  <1>2. /\ upd.pc = "idle" /\ todo' = todo \ {t}
        /\ upd' = IF mem[t.c] = Missing THEN Idle
                  ELSE [pc |-> "mark", call |-> t, live |-> TRUE, obj |-> mem[t.c]]
        /\ UNCHANGED <<multiKey, failing, db, ability, mem, routes, snap, edit, testing, troubles>>
    BY DEF Get, setup, store, memory, tests
  <1>3. CallOK(t) /\ t \in Calls /\ t.c \in Channels
    BY <1>1 DEF CallOK, Calls
  <1>4. mem[t.c] \in Row /\ RowOK(t.c, mem[t.c])
    BY <1>1, <1>3 DEF RowsGood, RowOK
  <1>5. TypeOK'
    <2>1. upd'.pc \in {"idle", "mark"}
      BY <1>2 DEF Idle
    <2> QED
      BY <1>1, <1>2, <2>1 DEF TypeOK, KeysOf
  <1>6. Enabled'
    BY <1>1, <1>2, EnabledKept
  <1>7. RowsGood' /\ SnapsGood' /\ EditGood' /\ \A x \in todo' : CallOK(x)'
    BY <1>1, <1>2, RowsKept, SnapsKept, EditKept, CallsKept
  <1>8. CASE mem[t.c] = Missing
    <2>1. upd'.pc = "idle"
      BY <1>2, <1>8 DEF Idle
    <2>2. UpdGood'
      BY <2>1 DEF UpdGood, Marking, Routing, Loading, Saving
    <2> QED
      BY <1>5, <1>6, <1>7, <2>2, StatusParts
  <1>9. CASE mem[t.c] # Missing
    <2>1. upd' \in [pc : {"mark"}, call : Calls, live : BOOLEAN, obj : Row]
      BY <1>2, <1>3, <1>4, <1>9
    <2>2. /\ upd'.call = t /\ upd'.obj = mem[t.c] /\ upd'.obj = mem'[t.c]
          /\ upd'.pc = "mark"
      BY <1>2, <1>9
    <2>3. CallOK(upd.call)' /\ RowOK(upd.call.c, upd.obj)'
      BY <1>2, <1>3, <1>4, <2>2 DEF CallOK, KeysOf, RowOK
    <2>4. Marking'
      BY <2>1, <2>2, <2>3 DEF Marking
    <2>5. UpdGood'
      BY <2>2, <2>4 DEF UpdGood, Routing, Loading, Saving
    <2> QED
      BY <1>5, <1>6, <1>7, <2>5, StatusParts
  <1> QED
    BY <1>8, <1>9

(* The keys are changed in place, or the status is compared. *)
LEMMA MarkKeeps ==
    ASSUME StatusInv, Mark
    PROVE  StatusInv'
  <1>1. TypeOK /\ Enabled /\ (\A x \in todo : CallOK(x))
        /\ RowsGood /\ SnapsGood /\ UpdGood /\ EditGood
    BY StatusParts
  <1>2. /\ upd.pc = "mark"
        /\ UNCHANGED <<multiKey, failing, db, ability, routes, todo, snap, edit, testing, troubles>>
    BY DEF Mark, setup, store, tests
  <1>3. PICK t : t = upd.call
    OBVIOUS
  <1>4. PICK o : o = Handled(upd.obj, t.k, t.to)
    OBVIOUS
  <1>5. /\ CallOK(t) /\ t.c \in Channels /\ RowOK(t.c, upd.obj) /\ upd.obj \in Row
        /\ upd.live => upd.obj = mem[t.c]
    BY <1>1, <1>2, <1>3 DEF UpdGood, Marking, CallOK, Calls, RowOK
  <1>6. o \in Row /\ Good(t.c, o) /\ (o.status = "on" => o.off # Keys)
    <2>1. PICK b : b = upd.obj
      OBVIOUS
    <2> QED
      BY <1>4, <1>5, <2>1, HandledLemma
  <1>7. /\ t.c \in multiKey =>
             /\ mem' = IF upd.live THEN [mem EXCEPT ![t.c] = o] ELSE mem
             /\ upd' = [pc |-> IF o.status # upd.obj.status THEN "route" ELSE "load",
                        call |-> t, obj |-> o]
        /\ t.c \notin multiKey =>
             /\ upd' = IF upd.obj.status = t.to THEN Idle
                       ELSE [pc |-> "route", call |-> t, obj |-> o]
             /\ mem' = mem
    BY <1>3, <1>4 DEF Mark
  <1>8. /\ \/ upd'.pc = "idle" /\ mem' = mem
           \/ upd'.pc \in {"route", "load"} /\ upd'.call = t
        /\ upd'.pc = "route" => upd'.obj = o
    BY <1>7 DEF Idle
  <1>9. mem \in [Channels -> Row] /\ \A c \in Channels : RowOK(c, mem[c])
    BY <1>1 DEF TypeOK, RowsGood
  <1>10. /\ mem' \in [Channels -> Row]
         /\ \A c \in Channels : mem'[c] = mem[c] \/ (c = t.c /\ mem'[c] = o)
    <2>1. CASE mem' = mem
      BY <1>9, <2>1
    <2>2. CASE mem' = [mem EXCEPT ![t.c] = o]
      BY <1>5, <1>6, <1>9, <2>2
    <2> QED
      BY <1>7, <2>1, <2>2
  <1>11. TypeOK'
    <2>1. upd'.pc \in {"idle", "mark", "route", "load", "save", "ability"}
      BY <1>8
    <2> QED
      BY <1>1, <1>2, <1>10, <2>1 DEF TypeOK, KeysOf
  <1>12. RowsGood'
    <2>1. \A c \in Channels : RowOK(c, mem'[c])
      BY <1>6, <1>9, <1>10 DEF Good
    <2> QED
      BY <1>1, <1>2, <2>1 DEF RowsGood, Good, RowOK, Usable
  <1>13. SnapsGood' /\ EditGood' /\ \A x \in todo' : CallOK(x)'
    BY <1>1, <1>2, SnapsKept, EditKept, CallsKept
  <1>14. Enabled'
    <2> SUFFICES ASSUME NEW c \in routes
                 PROVE  \/ mem'[c].status = "on" /\ Usable(mem'[c])
                        \/ upd'.pc = "route" /\ upd'.call.c = c
      BY <1>2 DEF Enabled, Usable
    <2>1. c \in Channels /\ mem[c].status = "on" /\ Usable(mem[c])
      BY <1>1, <1>2 DEF Enabled, TypeOK
    <2>2. CASE mem'[c] = mem[c]
      BY <2>1, <2>2
    <2>3. CASE mem'[c] # mem[c]
      <3>1. c = t.c /\ c \in multiKey /\ upd.live /\ mem'[c] = o /\ upd.obj = mem[c]
        BY <1>5, <1>7, <1>10, <2>1, <2>3
      <3>2. upd' = [pc |-> IF o.status # "on" THEN "route" ELSE "load", call |-> t, obj |-> o]
        BY <1>7, <2>1, <3>1
      <3>3. CASE o.status = "on"
        BY <1>6, <3>1, <3>3 DEF Usable
      <3>4. CASE o.status # "on"
        BY <3>1, <3>2, <3>4
      <3> QED
        BY <3>3, <3>4
    <2> QED
      BY <2>2, <2>3
  <1>15. Routing'
    <2> SUFFICES ASSUME upd'.pc = "route"
                 PROVE  /\ CallOK(t) /\ o \in Row
                        /\ t.c \in routes /\ o.status = "on" =>
                             mem'[t.c] # Missing /\ Usable(mem'[t.c])
      BY <1>2, <1>8 DEF Routing, CallOK, KeysOf, Usable
    <2>1. ASSUME t.c \in routes, o.status = "on"
          PROVE  mem'[t.c] # Missing /\ Usable(mem'[t.c])
      <3>1. mem[t.c] # Missing /\ Usable(mem[t.c])
        BY <1>1, <1>2, <2>1 DEF Enabled, Missing
      <3>2. o # Missing /\ Usable(o)
        BY <1>6, <2>1 DEF Usable, Missing
      <3> QED
        BY <1>5, <1>10, <3>1, <3>2
    <2> QED
      BY <1>5, <1>6, <2>1
  <1>16. Loading'
    BY <1>2, <1>5, <1>8 DEF Loading, CallOK, KeysOf
  <1>17. UpdGood'
    BY <1>8, <1>15, <1>16 DEF UpdGood, Marking, Saving
  <1> QED
    BY <1>11, <1>12, <1>13, <1>14, <1>17, StatusParts

(* The status in memory and the routes follow. *)
LEMMA RerouteKeeps ==
    ASSUME StatusInv, Reroute
    PROVE  StatusInv'
  <1>1. TypeOK /\ Enabled /\ (\A x \in todo : CallOK(x))
        /\ RowsGood /\ SnapsGood /\ UpdGood /\ EditGood
    BY StatusParts
  <1>2. /\ upd.pc = "route"
        /\ UNCHANGED <<multiKey, failing, db, ability, todo, snap, edit, testing, troubles>>
    BY DEF Reroute, setup, store, tests
  <1>3. PICK t : t = upd.call
    OBVIOUS
  <1>4. PICK st : st = upd.obj.status
    OBVIOUS
  <1>5. /\ CallOK(t) /\ t.c \in Channels /\ st \in Statuses
        /\ t.c \in routes /\ st = "on" => mem[t.c] # Missing /\ Usable(mem[t.c])
    BY <1>1, <1>2, <1>3, <1>4 DEF UpdGood, Routing, CallOK, Calls, Row
  <1>6. /\ mem' = IF mem[t.c] = Missing THEN mem ELSE [mem EXCEPT ![t.c].status = st]
        /\ routes' = (IF st = "on" THEN routes ELSE routes \ {t.c})
        /\ upd' = [pc |-> "load", call |-> t]
    BY <1>3, <1>4 DEF Reroute
  <1>7. mem \in [Channels -> Row] /\ \A c \in Channels : RowOK(c, mem[c])
    BY <1>1 DEF TypeOK, RowsGood
  <1>8. PICK o : o = [mem[t.c] EXCEPT !.status = st]
    OBVIOUS
  <1>9. o \in Row /\ o.status = st /\ o.off = mem[t.c].off
    <2>1. PICK b \in Row : b = mem[t.c]
      BY <1>5, <1>7
    <2>2. o = [b EXCEPT !.status = st]
      BY <1>8, <2>1
    <2> QED
      BY <1>5, <2>1, <2>2 DEF Row
  <1>10. (mem' = mem /\ mem[t.c] = Missing) \/ mem' = [mem EXCEPT ![t.c] = o]
    BY <1>6, <1>8, Zenon
  <1>11. /\ mem' \in [Channels -> Row]
         /\ mem'[t.c] = o \/ (mem[t.c] = Missing /\ mem'[t.c] = mem[t.c])
         /\ \A c \in Channels : c # t.c => mem'[c] = mem[c]
    BY <1>5, <1>7, <1>9, <1>10
  <1>12. TypeOK'
    <2>1. upd'.pc = "load" /\ routes' \subseteq routes
      BY <1>6
    <2> QED
      BY <1>1, <1>2, <1>11, <2>1 DEF TypeOK, KeysOf
  <1>13. RowsGood'
    <2>1. \A c \in Channels : RowOK(c, mem'[c])
      BY <1>7, <1>9, <1>11 DEF RowOK
    <2> QED
      BY <1>1, <1>2, <2>1 DEF RowsGood, Good, RowOK, Usable
  <1>14. SnapsGood' /\ EditGood' /\ \A x \in todo' : CallOK(x)'
    BY <1>1, <1>2, SnapsKept, EditKept, CallsKept
  <1>15. Enabled'
    <2> SUFFICES ASSUME NEW c \in routes'
                 PROVE  mem'[c].status = "on" /\ Usable(mem'[c])
      BY <1>2 DEF Enabled, Usable
    <2>1. c \in routes /\ c \in Channels /\ (c = t.c => st = "on")
      BY <1>1, <1>6 DEF TypeOK
    <2>2. CASE c = t.c
      BY <1>5, <1>9, <1>11, <2>1, <2>2 DEF Usable
    <2>3. CASE c # t.c
      BY <1>1, <1>3, <1>11, <2>1, <2>3 DEF Enabled
    <2> QED
      BY <2>2, <2>3
  <1>16. UpdGood'
    <2>1. upd'.pc = "load" /\ upd'.call = t
      BY <1>6
    <2> QED
      BY <1>2, <1>5, <2>1 DEF UpdGood, Marking, Routing, Loading, Saving, CallOK, KeysOf
  <1> QED
    BY <1>12, <1>13, <1>14, <1>15, <1>16, StatusParts

(* The new row is made from the one in the database. *)
LEMMA LoadKeeps ==
    ASSUME StatusInv, Load
    PROVE  StatusInv'
  <1>1. TypeOK /\ Enabled /\ (\A x \in todo : CallOK(x))
        /\ RowsGood /\ SnapsGood /\ UpdGood /\ EditGood
    BY StatusParts
  <1>2. /\ upd.pc = "load"
        /\ UNCHANGED <<multiKey, failing, db, ability, mem, routes, todo, snap, edit, testing>>
        /\ Trouble("fault") \/ UNCHANGED troubles
    BY DEF Load, Fault, setup, store, memory, tests
  <1>3. troubles \subseteq troubles' /\ troubles' \subseteq {"error", "edit", "fault"}
    BY <1>1, <1>2, TroubleLemma
  <1>4. PICK t : t = upd.call
    OBVIOUS
  <1>5. CallOK(t) /\ t.c \in Channels
    BY <1>1, <1>2, <1>4 DEF UpdGood, Loading, CallOK, Calls
  <1>6. PICK o : o = Handled(db[t.c], t.k, t.to)
    OBVIOUS
  <1>7. Good(t.c, o)
    <2>1. PICK b : b = db[t.c]
      OBVIOUS
    <2>2. RowOK(t.c, b)
      BY <1>1, <1>5, <2>1 DEF RowsGood, Good
    <2> QED
      BY <1>5, <1>6, <2>1, <2>2, HandledLemma
  <1>8. \/ upd' = Idle
        \/ upd' = [pc |-> "save", call |-> t, row |-> o,
                   deferred |-> t.c \notin multiKey \/ o.status # db[t.c].status]
    BY <1>4, <1>6 DEF Load
  <1>9. upd'.pc = "idle" \/ (upd'.pc = "save" /\ upd'.call = t /\ upd'.row = o)
    BY <1>8 DEF Idle
  <1>10. TypeOK'
    BY <1>1, <1>2, <1>3, <1>9 DEF TypeOK, KeysOf
  <1>11. Enabled'
    BY <1>1, <1>2, <1>3, EnabledKept
  <1>12. RowsGood' /\ SnapsGood' /\ EditGood' /\ \A x \in todo' : CallOK(x)'
    BY <1>1, <1>2, <1>3, RowsKept, SnapsKept, EditKept, CallsKept
  <1>13. Saving'
    BY <1>2, <1>3, <1>5, <1>7, <1>9 DEF Saving, CallOK, KeysOf, Good, RowOK, Usable
  <1>14. UpdGood'
    BY <1>9, <1>13 DEF UpdGood, Marking, Routing, Loading
  <1> QED
    BY <1>10, <1>11, <1>12, <1>14, StatusParts

(* The row is written back, or the save fails. *)
LEMMA SaveKeeps ==
    ASSUME StatusInv, Save
    PROVE  StatusInv'
  <1>1. TypeOK /\ Enabled /\ (\A x \in todo : CallOK(x))
        /\ RowsGood /\ SnapsGood /\ UpdGood /\ EditGood
    BY StatusParts
  <1>2. /\ upd.pc = "save"
        /\ UNCHANGED <<multiKey, failing, ability, mem, routes, todo, snap, edit, testing>>
        /\ Trouble("fault") \/ UNCHANGED troubles
    BY DEF Save, Fault, setup, memory, tests
  <1>3. troubles \subseteq troubles' /\ troubles' \subseteq {"error", "edit", "fault"}
    BY <1>1, <1>2, TroubleLemma
  <1>4. PICK t : t = upd.call
    OBVIOUS
  <1>5. PICK o : o = upd.row
    OBVIOUS
  <1>6. CallOK(t) /\ t.c \in Channels /\ Good(t.c, o) /\ o \in Row
    BY <1>1, <1>2, <1>4, <1>5 DEF UpdGood, Saving, CallOK, Calls, Good, RowOK
  <1>7. db' = db \/ db' = [db EXCEPT ![t.c] = o]
    BY <1>4, <1>5 DEF Save
  <1>8. /\ db' \in [Channels -> Row]
        /\ \A c \in Channels : Good(c, db'[c])
    <2>1. db \in [Channels -> Row] /\ \A c \in Channels : Good(c, db[c])
      BY <1>1 DEF TypeOK, RowsGood
    <2>2. CASE db' = db
      BY <2>1, <2>2
    <2>3. CASE db' = [db EXCEPT ![t.c] = o]
      BY <1>6, <2>1, <2>3
    <2> QED
      BY <1>7, <2>2, <2>3
  <1>9. upd'.pc = "idle" \/ (upd'.pc = "ability" /\ upd'.call = t)
    BY <1>4 DEF Save, Idle
  <1>10. TypeOK'
    BY <1>1, <1>2, <1>3, <1>8, <1>9 DEF TypeOK, KeysOf
  <1>11. Enabled'
    BY <1>1, <1>2, <1>3, EnabledKept
  <1>12. RowsGood'
    BY <1>1, <1>2, <1>3, <1>8 DEF RowsGood, Good, RowOK, Usable
  <1>13. SnapsGood' /\ EditGood' /\ \A x \in todo' : CallOK(x)'
    BY <1>1, <1>2, <1>3, SnapsKept, EditKept, CallsKept
  <1>14. Loading'
    BY <1>2, <1>6, <1>9 DEF Loading, CallOK, KeysOf
  <1>15. UpdGood'
    BY <1>9, <1>14 DEF UpdGood, Marking, Routing, Saving
  <1> QED
    BY <1>10, <1>11, <1>12, <1>13, <1>15, StatusParts

(* The abilities of the channel, or a failure. *)
LEMMA SaveAbilityKeeps ==
    ASSUME StatusInv, SaveAbility
    PROVE  StatusInv'
  <1>1. TypeOK /\ Enabled /\ (\A x \in todo : CallOK(x))
        /\ RowsGood /\ SnapsGood /\ UpdGood /\ EditGood
    BY StatusParts
  <1>2. /\ upd.pc = "ability" /\ upd' = Idle
        /\ UNCHANGED <<multiKey, failing, db, mem, routes, todo, snap, edit, testing>>
        /\ Trouble("fault") \/ UNCHANGED troubles
    BY DEF SaveAbility, Fault, setup, memory, tests
  <1>3. troubles \subseteq troubles' /\ troubles' \subseteq {"error", "edit", "fault"}
    BY <1>1, <1>2, TroubleLemma
  <1>4. PICK b \in BOOLEAN : b = (upd.call.to = "on")
    OBVIOUS
  <1>5. ability' = ability \/ ability' = [ability EXCEPT ![upd.call.c] = b]
    BY <1>4 DEF SaveAbility
  <1>6. ability' \in [Channels -> BOOLEAN]
    <2>1. ability \in [Channels -> BOOLEAN]
      BY <1>1 DEF TypeOK
    <2> QED
      BY <1>5, <2>1
  <1>7. upd'.pc = "idle"
    BY <1>2 DEF Idle
  <1>8. TypeOK'
    BY <1>1, <1>2, <1>3, <1>6, <1>7 DEF TypeOK, KeysOf
  <1>9. Enabled'
    BY <1>1, <1>2, <1>3, EnabledKept
  <1>10. RowsGood' /\ SnapsGood' /\ EditGood' /\ \A x \in todo' : CallOK(x)'
    BY <1>1, <1>2, <1>3, RowsKept, SnapsKept, EditKept, CallsKept
  <1>11. UpdGood'
    BY <1>7 DEF UpdGood, Marking, Routing, Loading, Saving
  <1> QED
    BY <1>8, <1>9, <1>10, <1>11, StatusParts

-----------------------------------------------------------------------------
(* The steps of InitChannelCache. *)

(* A snapshot of the rows is read. *)
LEMMA ReloadKeeps ==
    ASSUME StatusInv, NEW s \in Syncers, Reload(s)
    PROVE  StatusInv'
  <1>1. TypeOK /\ Enabled /\ (\A x \in todo : CallOK(x))
        /\ RowsGood /\ SnapsGood /\ UpdGood /\ EditGood
    BY StatusParts
  <1>2. /\ snap' = [snap EXCEPT ![s] = db] /\ (edit' = edit \/ edit' = Idle)
        /\ UNCHANGED <<multiKey, failing, db, ability, mem, routes, todo, upd, testing, troubles>>
    BY DEF Reload, setup, store, memory, tests
  <1>3. edit' = edit \/ edit'.pc = "idle"
    BY <1>2 DEF Idle
  <1>4. db \in [Channels -> Row] /\ \A c \in Channels : Good(c, db[c])
    BY <1>1 DEF TypeOK, RowsGood
  <1>5. SnapsGood'
    <2>1. /\ snap \in [Syncers -> {NoRows} \cup [Channels -> Row]]
          /\ \A x \in Syncers : snap[x] # NoRows => \A c \in Channels : Good(c, snap[x][c])
      BY <1>1 DEF SnapsGood
    <2>2. snap' \in [Syncers -> {NoRows} \cup [Channels -> Row]]
      BY <1>2, <1>4, <2>1
    <2>3. \A x \in Syncers : snap'[x] = snap[x] \/ snap'[x] = db
      BY <1>2, <2>1
    <2>4. \A x \in Syncers : snap'[x] # NoRows => \A c \in Channels : Good(c, snap'[x][c])
      BY <1>4, <2>1, <2>3
    <2> QED
      BY <1>2, <2>2, <2>4 DEF SnapsGood, Good, RowOK, Usable
  <1>6. EditGood'
    BY <1>1, <1>2, <1>3 DEF EditGood
  <1>7. TypeOK'
    BY <1>1, <1>2, <1>3 DEF TypeOK, KeysOf
  <1>8. RowsGood' /\ UpdGood' /\ Enabled' /\ \A x \in todo' : CallOK(x)'
    BY <1>1, <1>2, RowsKept, UpdKept, EnabledKept, CallsKept
  <1> QED
    BY <1>5, <1>6, <1>7, <1>8, StatusParts

(* The snapshot, however old, replaces the memory and the routes. *)
LEMMA InstallKeeps ==
    ASSUME StatusInv, NEW s \in Syncers, Install(s)
    PROVE  StatusInv'
  <1>1. TypeOK /\ Enabled /\ (\A x \in todo : CallOK(x))
        /\ RowsGood /\ SnapsGood /\ UpdGood /\ EditGood
    BY StatusParts
  <1>2. /\ snap[s] # NoRows /\ mem' = snap[s]
        /\ routes' = {c \in Channels : snap[s][c].status = "on"}
        /\ snap' = [snap EXCEPT ![s] = NoRows]
        /\ upd' = IF upd.pc = "mark" THEN [upd EXCEPT !.live = FALSE] ELSE upd
        /\ UNCHANGED <<multiKey, failing, db, ability, todo, edit, testing, troubles>>
    BY DEF Install, setup, store, tests
  <1>3. /\ snap \in [Syncers -> {NoRows} \cup [Channels -> Row]]
        /\ \A x \in Syncers : snap[x] # NoRows => \A c \in Channels : Good(c, snap[x][c])
    BY <1>1 DEF SnapsGood
  <1>4. mem' \in [Channels -> Row] /\ \A c \in Channels : Good(c, mem'[c])
    BY <1>2, <1>3
  <1>5. \A c \in routes' : c \in Channels /\ mem'[c].status = "on" /\ Usable(mem'[c])
    BY <1>2, <1>4 DEF Good
  <1>6. /\ upd.pc # "mark" => upd' = upd
        /\ upd.pc = "mark" =>
             /\ upd' \in [pc : {"mark"}, call : Calls, live : BOOLEAN, obj : Row]
             /\ upd'.call = upd.call /\ upd'.obj = upd.obj /\ upd'.live = FALSE
    <2>1. CASE upd.pc # "mark"
      BY <1>2, <2>1
    <2>2. CASE upd.pc = "mark"
      <3>1. upd \in [pc : {"mark"}, call : Calls, live : BOOLEAN, obj : Row]
        BY <1>1, <2>2 DEF UpdGood, Marking
      <3>2. upd' = [upd EXCEPT !.live = FALSE]
        BY <1>2, <2>2
      <3> QED
        BY <2>2, <3>1, <3>2
    <2> QED
      BY <2>1, <2>2
  <1>7. upd'.pc = upd.pc
    BY <1>6
  <1>8. TypeOK'
    <2>1. routes' \subseteq Channels
      BY <1>5
    <2> QED
      BY <1>1, <1>2, <1>4, <1>7, <2>1 DEF TypeOK, KeysOf
  <1>9. Enabled'
    BY <1>2, <1>5 DEF Enabled, Usable
  <1>10. RowsGood'
    BY <1>1, <1>2, <1>4 DEF RowsGood, Good, RowOK, Usable
  <1>11. SnapsGood'
    <2>1. snap' \in [Syncers -> {NoRows} \cup [Channels -> Row]]
      BY <1>2, <1>3
    <2>2. \A x \in Syncers : snap'[x] = snap[x] \/ snap'[x] = NoRows
      BY <1>2, <1>3
    <2>3. \A x \in Syncers : snap'[x] # NoRows => \A c \in Channels : Good(c, snap'[x][c])
      BY <1>3, <2>2
    <2> QED
      BY <1>2, <2>1, <2>3 DEF SnapsGood, Good, RowOK, Usable
  <1>12. EditGood' /\ \A x \in todo' : CallOK(x)'
    BY <1>1, <1>2, EditKept, CallsKept
  <1>13. Marking'
    BY <1>1, <1>2, <1>6, <1>7 DEF UpdGood, Marking, CallOK, KeysOf, RowOK
  <1>14. Routing'
    BY <1>1, <1>2, <1>5, <1>6, <1>7 DEF UpdGood, Routing, CallOK, KeysOf, Usable, Missing
  <1>15. Loading' /\ Saving'
    BY <1>1, <1>2, <1>6, <1>7 DEF UpdGood, Loading, Saving, CallOK, KeysOf, Good, RowOK, Usable
  <1>16. UpdGood'
    BY <1>13, <1>14, <1>15 DEF UpdGood
  <1> QED
    BY <1>8, <1>9, <1>10, <1>11, <1>12, <1>16, StatusParts

(* A failed read empties the memory and the routes. *)
LEMMA ReloadFailsKeeps ==
    ASSUME StatusInv, NEW s \in Syncers, ReloadFails(s)
    PROVE  StatusInv'
  <1>1. TypeOK /\ Enabled /\ (\A x \in todo : CallOK(x))
        /\ RowsGood /\ SnapsGood /\ UpdGood /\ EditGood
    BY StatusParts
  <1>2. /\ mem' = [c \in Channels |-> Missing] /\ routes' = {}
        /\ edit' = Idle \/ edit' = edit
        /\ upd' = IF upd.pc = "mark" THEN [upd EXCEPT !.live = FALSE] ELSE upd
        /\ UNCHANGED <<multiKey, failing, db, ability, todo, snap, testing>>
    BY DEF ReloadFails, setup, store, tests
  <1>3. troubles \subseteq troubles' /\ troubles' \subseteq {"error", "edit", "fault"}
    BY <1>1, TroubleLemma DEF ReloadFails, Fault
  <1>4. Missing \in Row /\ Missing.off = {}
    BY DEF Missing, Row, Statuses
  <1>5. mem' \in [Channels -> Row] /\ \A c \in Channels : mem'[c] = Missing
    BY <1>2, <1>4
  <1>6. /\ upd.pc # "mark" => upd' = upd
        /\ upd.pc = "mark" =>
             /\ upd' \in [pc : {"mark"}, call : Calls, live : BOOLEAN, obj : Row]
             /\ upd'.call = upd.call /\ upd'.obj = upd.obj /\ upd'.live = FALSE
    <2>1. CASE upd.pc # "mark"
      BY <1>2, <2>1
    <2>2. CASE upd.pc = "mark"
      <3>1. upd \in [pc : {"mark"}, call : Calls, live : BOOLEAN, obj : Row]
        BY <1>1, <2>2 DEF UpdGood, Marking
      <3>2. upd' = [upd EXCEPT !.live = FALSE]
        BY <1>2, <2>2
      <3> QED
        BY <2>2, <3>1, <3>2
    <2> QED
      BY <2>1, <2>2
  <1>7. upd'.pc = upd.pc
    BY <1>6
  <1>8. edit'.pc = "idle" \/ edit' = edit
    BY <1>2 DEF Idle
  <1>9. TypeOK'
    BY <1>1, <1>2, <1>3, <1>5, <1>7, <1>8 DEF TypeOK, KeysOf
  <1>10. Enabled'
    BY <1>2 DEF Enabled
  <1>11. RowsGood'
    BY <1>1, <1>2, <1>3, <1>4, <1>5 DEF RowsGood, Good, RowOK, Usable
  <1>12. SnapsGood' /\ \A x \in todo' : CallOK(x)'
    BY <1>1, <1>2, <1>3, SnapsKept, CallsKept
  <1>13. EditGood'
    BY <1>1, <1>2, <1>3, <1>8 DEF EditGood
  <1>14. Marking'
    BY <1>1, <1>2, <1>6, <1>7 DEF UpdGood, Marking, CallOK, KeysOf, RowOK
  <1>15. Routing'
    BY <1>1, <1>2, <1>6, <1>7 DEF UpdGood, Routing, CallOK, KeysOf
  <1>16. Loading' /\ Saving'
    BY <1>1, <1>2, <1>3, <1>6, <1>7
    DEF UpdGood, Loading, Saving, CallOK, KeysOf, Good, RowOK, Usable
  <1>17. UpdGood'
    BY <1>14, <1>15, <1>16 DEF UpdGood
  <1> QED
    BY <1>9, <1>10, <1>11, <1>12, <1>13, <1>17, StatusParts

-----------------------------------------------------------------------------
(* Requests, tests and edits. *)

(* A step that only adds calls, each for a key of its channel. *)
LEMMA CallsAdded ==
    ASSUME StatusInv,
           \A t \in todo' : t \in todo \/ CallOK(t),
           troubles \subseteq troubles', troubles' \subseteq {"error", "edit", "fault"},
           testing' \in {"no", "running", "stuck"},
           UNCHANGED <<multiKey, failing, db, ability, mem, routes, upd, snap, edit>>
    PROVE  StatusInv'
  <1>1. TypeOK /\ Enabled /\ (\A x \in todo : CallOK(x))
        /\ RowsGood /\ SnapsGood /\ UpdGood /\ EditGood
    BY StatusParts
  <1>2. TypeOK'
    BY <1>1 DEF TypeOK, KeysOf
  <1>3. Enabled' /\ RowsGood' /\ SnapsGood' /\ UpdGood' /\ EditGood'
    BY <1>1, EnabledKept, RowsKept, SnapsKept, UpdKept, EditKept
  <1>4. \A x \in todo' : CallOK(x)'
    BY <1>1 DEF CallOK, KeysOf
  <1> QED
    BY <1>2, <1>3, <1>4, StatusParts

(* A request fails on one of the keys of its channel. *)
LEMMA ErrorKeeps ==
    ASSUME StatusInv, NEW c \in Channels, NEW k \in Keys \cup {None},
           PermanentError(c, k) \/ PassingError(c, k)
    PROVE  StatusInv'
  <1>1. TypeOK
    BY StatusParts
  <1>2. /\ k \in KeysOf(c) /\ todo' = todo \cup {Call(c, k, "auto")}
        /\ Trouble("error") \/ UNCHANGED troubles
        /\ UNCHANGED <<multiKey, failing, db, ability, mem, routes, upd, snap, edit, testing>>
    BY DEF PermanentError, PassingError, RequestFails, setup, store, memory, tests
  <1>3. troubles \subseteq troubles' /\ troubles' \subseteq {"error", "edit", "fault"}
    BY <1>1, <1>2, TroubleLemma
  <1>4. CallOK(Call(c, k, "auto"))
    BY <1>2 DEF CallOK, Calls, Call
  <1>5. \A t \in todo' : t \in todo \/ CallOK(t)
    BY <1>2, <1>4
  <1>6. testing' \in {"no", "running", "stuck"}
    BY <1>1, <1>2 DEF TypeOK
  <1> QED
    BY <1>2, <1>3, <1>5, <1>6, CallsAdded

(* The tests start, or stay marked as running. *)
LEMMA StartTestsKeeps ==
    ASSUME StatusInv, StartTests
    PROVE  StatusInv'
  <1>1. TypeOK
    BY StatusParts
  <1>2. /\ todo' = todo /\ testing' \in {"no", "running", "stuck"}
        /\ Trouble("fault") \/ UNCHANGED troubles
        /\ UNCHANGED <<multiKey, failing, db, ability, mem, routes, upd, snap, edit>>
    BY DEF StartTests, Fault, setup, store, memory
  <1>3. troubles \subseteq troubles' /\ troubles' \subseteq {"error", "edit", "fault"}
    BY <1>1, <1>2, TroubleLemma
  <1> QED
    BY <1>2, <1>3, CallsAdded

(* A channel is tested with one of its keys. *)
LEMMA TestKeeps ==
    ASSUME StatusInv, NEW c \in Channels, Test(c)
    PROVE  StatusInv'
  <1>1. TypeOK
    BY StatusParts
  <1>2. /\ testing = "running" /\ troubles' = troubles
        /\ testing' = "no" \/ testing' = testing
        /\ UNCHANGED <<multiKey, failing, db, ability, mem, routes, upd, snap, edit>>
    BY DEF Test, setup, store, memory
  <1>3. \/ todo' = todo
        \/ \E k \in KeysOf(c), to \in {"on", "auto"} : todo' = todo \cup {Call(c, k, to)}
        \/ todo' = todo \cup {Call(c, None, "auto")}
    BY DEF Test, Fails, Passes
  <1>4. /\ \A k \in KeysOf(c), to \in {"on", "auto"} : CallOK(Call(c, k, to))
        /\ CallOK(Call(c, None, "auto"))
    BY DEF CallOK, Calls, Call, KeysOf
  <1>5. \A t \in todo' : t \in todo \/ CallOK(t)
    BY <1>3, <1>4
  <1>6. testing' \in {"no", "running", "stuck"} /\ troubles' \subseteq {"error", "edit", "fault"}
    BY <1>1, <1>2 DEF TypeOK
  <1> QED
    BY <1>2, <1>5, <1>6, CallsAdded

(* The administrator's request reads the row. *)
LEMMA EditReadKeeps ==
    ASSUME StatusInv, NEW c \in Channels, EditRead(c)
    PROVE  StatusInv'
  <1>1. TypeOK /\ Enabled /\ (\A x \in todo : CallOK(x))
        /\ RowsGood /\ SnapsGood /\ UpdGood /\ EditGood
    BY StatusParts
  <1>2. /\ Trouble("edit") /\ edit' = [pc |-> "write", c |-> c, off |-> db[c].off]
        /\ UNCHANGED <<multiKey, failing, db, ability, mem, routes, todo, upd, snap, testing>>
    BY DEF EditRead, setup, store, memory, tests
  <1>3. troubles \subseteq troubles' /\ troubles' \subseteq {"error", "edit", "fault"}
        /\ "edit" \in troubles'
    BY <1>1, <1>2, TroubleLemma DEF Trouble
  <1>4. edit'.pc = "write" /\ edit'.c = c /\ edit'.off = db[c].off
    BY <1>2
  <1>5. db[c].off \in SUBSET Keys /\ (c \notin multiKey => db[c].off = {})
    BY <1>1 DEF RowsGood, Good, RowOK, Row
  <1>6. EditGood'
    BY <1>2, <1>3, <1>4, <1>5 DEF EditGood
  <1>7. TypeOK'
    BY <1>1, <1>2, <1>3, <1>4 DEF TypeOK, KeysOf
  <1>8. Enabled' /\ RowsGood' /\ SnapsGood' /\ UpdGood' /\ \A x \in todo' : CallOK(x)'
    BY <1>1, <1>2, <1>3, EnabledKept, RowsKept, SnapsKept, UpdKept, CallsKept
  <1> QED
    BY <1>6, <1>7, <1>8, StatusParts

(* It writes the row with the administrator's status. *)
LEMMA EditWriteKeeps ==
    ASSUME StatusInv, NEW status \in {"on", "manual"}, EditWrite(status)
    PROVE  StatusInv'
  <1>1. TypeOK /\ Enabled /\ (\A x \in todo : CallOK(x))
        /\ RowsGood /\ SnapsGood /\ UpdGood /\ EditGood
    BY StatusParts
  <1>2. /\ edit.pc = "write"
        /\ UNCHANGED <<multiKey, failing, ability, mem, routes, todo, upd, snap, testing, troubles>>
    BY DEF EditWrite, setup, memory, tests
  <1>3. PICK c : c = edit.c
    OBVIOUS
  <1>4. PICK o : o = [status |-> status, off |-> edit.off]
    OBVIOUS
  <1>5. /\ c \in Channels /\ edit.off \in SUBSET Keys
        /\ c \notin multiKey => edit.off = {}
        /\ "edit" \in troubles
    BY <1>1, <1>2, <1>3 DEF EditGood
  <1>6. o \in Row /\ Good(c, o)
    BY <1>4, <1>5 DEF Row, Statuses, Good, RowOK, Usable
  <1>7. db' = [db EXCEPT ![c] = o] /\ edit' = [pc |-> "ability", c |-> c]
    BY <1>3, <1>4 DEF EditWrite
  <1>8. db' \in [Channels -> Row] /\ \A x \in Channels : Good(x, db'[x])
    <2>1. db \in [Channels -> Row] /\ \A x \in Channels : Good(x, db[x])
      BY <1>1 DEF TypeOK, RowsGood
    <2> QED
      BY <1>5, <1>6, <1>7, <2>1
  <1>9. edit'.pc = "ability" /\ edit'.c = c
    BY <1>7
  <1>10. EditGood'
    BY <1>5, <1>9 DEF EditGood
  <1>11. TypeOK'
    BY <1>1, <1>2, <1>8, <1>9 DEF TypeOK, KeysOf
  <1>12. RowsGood'
    BY <1>1, <1>2, <1>8 DEF RowsGood, Good, RowOK, Usable
  <1>13. Enabled' /\ SnapsGood' /\ UpdGood' /\ \A x \in todo' : CallOK(x)'
    BY <1>1, <1>2, EnabledKept, SnapsKept, UpdKept, CallsKept
  <1> QED
    BY <1>10, <1>11, <1>12, <1>13, StatusParts

(* It updates the abilities. *)
LEMMA EditAbilityKeeps ==
    ASSUME StatusInv, EditAbility
    PROVE  StatusInv'
  <1>1. TypeOK /\ Enabled /\ (\A x \in todo : CallOK(x))
        /\ RowsGood /\ SnapsGood /\ UpdGood /\ EditGood
    BY StatusParts
  <1>2. /\ edit' = [pc |-> "sync"]
        /\ UNCHANGED <<multiKey, failing, db, mem, routes, todo, upd, snap, testing, troubles>>
    BY DEF EditAbility, setup, memory, tests
  <1>3. PICK b \in BOOLEAN : b = (db[edit.c].status = "on")
    OBVIOUS
  <1>4. ability' = [ability EXCEPT ![edit.c] = b]
    BY <1>3 DEF EditAbility
  <1>5. ability' \in [Channels -> BOOLEAN]
    <2>1. ability \in [Channels -> BOOLEAN]
      BY <1>1 DEF TypeOK
    <2> QED
      BY <1>4, <2>1
  <1>6. edit'.pc = "sync"
    BY <1>2
  <1>7. TypeOK'
    BY <1>1, <1>2, <1>5, <1>6 DEF TypeOK, KeysOf
  <1>8. EditGood'
    BY <1>6 DEF EditGood
  <1>9. Enabled' /\ RowsGood' /\ SnapsGood' /\ UpdGood' /\ \A x \in todo' : CallOK(x)'
    BY <1>1, <1>2, EnabledKept, RowsKept, SnapsKept, UpdKept, CallsKept
  <1> QED
    BY <1>7, <1>8, <1>9, StatusParts

-----------------------------------------------------------------------------
(* Theorems. *)

(* The first state satisfies the invariant. *)
LEMMA StatusInit == Init => StatusInv
  <1> SUFFICES ASSUME Init PROVE StatusInv
    OBVIOUS
  <1>1. /\ multiKey \in SUBSET Channels
        /\ failing \in SUBSET {x \in Channels \X BadKeys : x[2] \in KeysOf(x[1])}
        /\ db = [c \in Channels |-> Fresh] /\ ability = [c \in Channels |-> TRUE]
        /\ mem = db /\ routes = Channels
        /\ todo = {} /\ upd = Idle /\ snap = [s \in Syncers |-> NoRows]
        /\ edit = Idle /\ testing = "no" /\ troubles = {}
    BY DEF Init
  <1>2. upd.pc = "idle" /\ edit.pc = "idle"
    BY <1>1 DEF Idle
  <1>3. Fresh \in Row /\ Fresh.off = {} /\ Fresh.status = "on" /\ Keys # {}
    BY StatusAssumption DEF Fresh, Row, Statuses
  <1>4. /\ db \in [Channels -> Row] /\ \A c \in Channels : db[c] = Fresh
    BY <1>1, <1>3
  <1>5. TypeOK
    BY <1>1, <1>2, <1>4 DEF TypeOK
  <1>6. RowsGood
    BY <1>1, <1>3, <1>4 DEF RowsGood, Good, RowOK, Usable
  <1>7. SnapsGood
    BY <1>1 DEF SnapsGood
  <1>8. UpdGood /\ EditGood
    BY <1>2 DEF UpdGood, Marking, Routing, Loading, Saving, EditGood
  <1>9. RoutesEnabled
    BY <1>1, <1>3, <1>4, <1>5 DEF RoutesEnabled
  <1> QED
    BY <1>1, <1>6, <1>7, <1>8, <1>9 DEF StatusInv

(* Every step keeps it. *)
LEMMA StatusNext == StatusInv /\ [Next]_vars => StatusInv'
  <1> SUFFICES ASSUME StatusInv, [Next]_vars PROVE StatusInv'
    OBVIOUS
  <1>1. CASE Update
    BY <1>1, GetKeeps, MarkKeeps, RerouteKeeps, LoadKeeps, SaveKeeps, SaveAbilityKeeps DEF Update
  <1>2. ASSUME NEW s \in Syncers, Synchronise(s) PROVE StatusInv'
    BY <1>2, ReloadKeeps, InstallKeeps, ReloadFailsKeeps DEF Synchronise
  <1>3. ASSUME NEW c \in Channels, NEW k \in Keys \cup {None},
               PermanentError(c, k) \/ PassingError(c, k)
        PROVE  StatusInv'
    BY <1>3, ErrorKeeps
  <1>4. CASE Testing
    BY <1>4, StartTestsKeeps, TestKeeps DEF Testing
  <1>5. CASE Edit
    BY <1>5, EditReadKeeps, EditWriteKeeps, EditAbilityKeeps DEF Edit
  <1>6. CASE UNCHANGED vars
    <2>1. TypeOK
      BY StatusParts
    <2>2. /\ todo' = todo /\ troubles' = troubles /\ testing' = testing
          /\ UNCHANGED <<multiKey, failing, db, ability, mem, routes, upd, snap, edit>>
      BY <1>6 DEF vars, setup, store, memory, tests
    <2>3. testing' \in {"no", "running", "stuck"} /\ troubles' \subseteq {"error", "edit", "fault"}
      BY <2>1, <2>2 DEF TypeOK
    <2> QED
      BY <2>2, <2>3, CallsAdded
  <1> QED
    BY <1>1, <1>2, <1>3, <1>4, <1>5, <1>6 DEF Next

(* A channel with a route is enabled in memory and has an enabled key,     *)
(* unless an edit enabled it without one or UpdateChannelStatus is about   *)
(* to take the route away: also when a snapshot read before a change       *)
(* replaces the memory after it (CacheUpdateChannelStatus,                 *)
(* InitChannelCache).                                                      *)
THEOREM RoutesEnabledTheorem == Spec => []RoutesEnabled
  <1>1. StatusInv => RoutesEnabled
    BY DEF StatusInv
  <1> QED
    BY <1>1, StatusInit, StatusNext, PTL DEF Spec

=============================================================================
