---------------------------- MODULE ChannelStatus ----------------------------
(***************************************************************************)
(* Whether a channel takes requests: its row and its abilities in the      *)
(* database, the copy in memory with the routes that are made from it      *)
(* (model/channel_cache.go), and the writers: UpdateChannelStatus          *)
(* (model/channel.go) after failed requests and after tests, edits by an   *)
(* administrator (controller/channel.go) and the periodic                  *)
(* InitChannelCache.                                                       *)
(*                                                                         *)
(* UpdateChannelStatus runs under channelStatusLock.  Neither the edits    *)
(* nor InitChannelCache take it, so what UpdateChannelStatus has read may  *)
(* be out of date, and so may the snapshot that replaces the memory.       *)
(***************************************************************************)
EXTENDS Naturals, FiniteSets

CONSTANTS
    Channels,       \* the channels
    Keys,           \* the keys of a channel with several keys
    None,           \* no key, or the only one
    BadKeys,        \* the keys that may fail for ever
    MaxTroubles     \* bound on passing errors, edits and database errors

ASSUME StatusAssumption ==
    /\ IsFiniteSet(Channels)
    /\ IsFiniteSet(Keys) /\ Keys # {} /\ None \notin Keys
    /\ BadKeys \subseteq Keys \cup {None}
    /\ MaxTroubles \in Nat

Statuses == {"on", "auto", "manual", "missing"}   \* missing: not in memory
Row == [status : Statuses, off : SUBSET Keys]

VARIABLES
    multiKey,       \* the channels with several keys
    failing,        \* the channels and keys that always fail
    db,             \* the rows of the channels
    ability,        \* the enabled flags of their abilities
    mem,            \* channelsIDM
    routes,         \* group2model2channels
    todo,           \* calls of UpdateChannelStatus that wait for the lock
    upd,            \* the one that runs
    snap,           \* what each run of InitChannelCache has read
    edit,           \* the administrator's request
    testing, probe, \* testAllChannels: running flag, the statuses it has read
    troubles        \* history: what has happened, each at most once

setup == <<multiKey, failing>>
store == <<db, ability>>
memory == <<mem, routes>>
tests == <<testing, probe>>
vars == <<setup, store, memory, todo, upd, snap, edit, tests, troubles>>

Fresh == [status |-> "on", off |-> {}]
Missing == [status |-> "missing", off |-> {}]
NoRows == [c \in {} |-> Fresh]
Syncers == {"ticker", "admin"}
Idle == [pc |-> "idle"]

KeysOf(c) == IF c \in multiKey THEN Keys ELSE {None}

Init ==
    /\ multiKey \in SUBSET Channels
    /\ failing \in SUBSET {x \in Channels \X BadKeys : x[2] \in KeysOf(x[1])}
    /\ db = [c \in Channels |-> Fresh] /\ ability = [c \in Channels |-> TRUE]
    /\ mem = db /\ routes = Channels
    /\ todo = {} /\ upd = Idle
    /\ snap = [s \in Syncers |-> NoRows]
    /\ edit = Idle
    /\ testing = "no" /\ probe = NoRows
    /\ troubles = {}

Trouble(x) ==
    /\ x \notin troubles /\ Cardinality(troubles) < MaxTroubles
    /\ troubles' = troubles \cup {x}
Fault == Trouble("fault")

-----------------------------------------------------------------------------
(* UpdateChannelStatus *)

(* handlerMultiKeyUpdate, and the assignment of other channels.  The bug:  *)
(* the channel stays enabled without an enabled key.                       *)
HandledKeepsOn(o, k, to) ==
    IF k = None THEN [o EXCEPT !.status = to]
    ELSE LET off == IF to = "on" THEN o.off \ {k} ELSE o.off \cup {k}
         IN [status |-> IF to = "on" THEN "on" ELSE o.status, off |-> off]
Handled(o, k, to) ==
    IF k = None THEN [o EXCEPT !.status = to]
    ELSE LET off == IF to = "on" THEN o.off \ {k} ELSE o.off \cup {k}
         IN [status |-> IF off = Keys THEN "auto"
                        ELSE IF to = "on" THEN "on" ELSE o.status,
             off |-> off]

(* CacheGetChannel: a reference to the object in memory, if it is there. *)
Get(t) ==
    /\ upd.pc = "idle" /\ t \in todo
    /\ todo' = todo \ {t}
    /\ upd' = IF mem[t.c] = Missing THEN Idle
              ELSE [pc |-> "mark", call |-> t, live |-> TRUE, obj |-> mem[t.c]]
    /\ UNCHANGED <<setup, store, memory, snap, edit, tests, troubles>>

(* The keys of a multi-key channel are changed in place, which is lost     *)
(* when the memory has been replaced; other channels only look whether     *)
(* they are in that status already.                                        *)
Mark ==
    /\ upd.pc = "mark"
    /\ LET t == upd.call
           o == Handled(upd.obj, t.k, t.to)
       IN IF t.c \in multiKey
          THEN /\ mem' = IF upd.live THEN [mem EXCEPT ![t.c] = o] ELSE mem
               /\ upd' = [pc |-> IF o.status # upd.obj.status THEN "route" ELSE "load",
                          call |-> t, obj |-> o]
          ELSE /\ upd' = IF upd.obj.status = t.to THEN Idle
                         ELSE [pc |-> "route", call |-> t, obj |-> o]
               /\ UNCHANGED mem
    /\ UNCHANGED <<setup, store, routes, todo, snap, edit, tests, troubles>>

(* CacheUpdateChannelStatus.  Only the next InitChannelCache brings back   *)
(* the routes of an enabled channel.                                       *)
Reroute ==
    /\ upd.pc = "route"
    /\ mem' = IF mem[upd.call.c] = Missing THEN mem
              ELSE [mem EXCEPT ![upd.call.c].status = upd.obj.status]
    /\ routes' = IF upd.obj.status = "on" THEN routes ELSE routes \ {upd.call.c}
    /\ upd' = [pc |-> "load", call |-> upd.call]
    /\ UNCHANGED <<setup, store, todo, snap, edit, tests, troubles>>

(* GetChannelById, and the new row. *)
Load ==
    /\ upd.pc = "load"
    /\ LET t == upd.call
           o == Handled(db[t.c], t.k, t.to)
       IN \/ /\ upd' = IF db[t.c].status = t.to THEN Idle
                       ELSE [pc |-> "save", call |-> t, row |-> o,
                             deferred |-> t.c \notin multiKey \/ o.status # db[t.c].status]
             /\ UNCHANGED troubles
          \/ Fault /\ upd' = Idle
    /\ UNCHANGED <<setup, store, memory, todo, snap, edit, tests>>

(* SaveWithoutKey writes the whole row back.  A failed save still runs the *)
(* deferred update of the abilities.  The bug: nothing is saved when a key *)
(* was disabled and the channel stays enabled.                             *)
SaveChannelOnly ==
    /\ upd.pc = "save"
    /\ db' = IF upd.deferred THEN [db EXCEPT ![upd.call.c] = upd.row] ELSE db
    /\ upd' = IF upd.deferred THEN [pc |-> "ability", call |-> upd.call] ELSE Idle
    /\ UNCHANGED <<setup, ability, memory, todo, snap, edit, tests, troubles>>
Save ==
    /\ upd.pc = "save"
    /\ \/ db' = [db EXCEPT ![upd.call.c] = upd.row] /\ UNCHANGED troubles
       \/ Fault /\ UNCHANGED db
    /\ upd' = IF upd.deferred THEN [pc |-> "ability", call |-> upd.call] ELSE Idle
    /\ UNCHANGED <<setup, ability, memory, todo, snap, edit, tests>>

(* UpdateAbilityStatus. *)
SaveAbility ==
    /\ upd.pc = "ability"
    /\ \/ /\ ability' = [ability EXCEPT ![upd.call.c] = (upd.call.to = "on")]
          /\ UNCHANGED troubles
       \/ Fault /\ UNCHANGED ability
    /\ upd' = Idle
    /\ UNCHANGED <<setup, db, memory, todo, snap, edit, tests>>

-----------------------------------------------------------------------------
(* InitChannelCache: of the ticker at any time, of an edit when it is done.*)

Reload(s) ==
    /\ snap[s] = NoRows
    /\ s = "admin" => edit.pc = "sync"
    /\ snap' = [snap EXCEPT ![s] = db]
    /\ edit' = IF s = "admin" THEN Idle ELSE edit
    /\ UNCHANGED <<setup, store, memory, todo, upd, tests, troubles>>

(* The swap under channelSyncLock.  The bug: the routes are not replaced.  *)
InstallRowsOnly(s) ==
    /\ snap[s] # NoRows
    /\ mem' = snap[s]
    /\ snap' = [snap EXCEPT ![s] = NoRows]
    /\ upd' = IF upd.pc = "mark" THEN [upd EXCEPT !.live = FALSE] ELSE upd
    /\ UNCHANGED <<setup, store, routes, todo, edit, tests, troubles>>
Install(s) ==
    /\ snap[s] # NoRows
    /\ mem' = snap[s]
    /\ routes' = {c \in Channels : snap[s][c].status = "on"}
    /\ snap' = [snap EXCEPT ![s] = NoRows]
    /\ upd' = IF upd.pc = "mark" THEN [upd EXCEPT !.live = FALSE] ELSE upd
    /\ UNCHANGED <<setup, store, todo, edit, tests, troubles>>

(* The error of the read is not looked at: what is installed is empty. *)
ReloadFails(s) ==
    /\ snap[s] = NoRows /\ Fault
    /\ s = "admin" => edit.pc = "sync"
    /\ mem' = [c \in Channels |-> Missing] /\ routes' = {}
    /\ edit' = IF s = "admin" THEN Idle ELSE edit
    /\ upd' = IF upd.pc = "mark" THEN [upd EXCEPT !.live = FALSE] ELSE upd
    /\ UNCHANGED <<setup, store, todo, snap, tests>>

-----------------------------------------------------------------------------
(* Requests and tests; DisableChannel and EnableChannel run later. *)

Call(c, k, to) == [c |-> c, k |-> k, to |-> to]

(* A request that was given an enabled key of a routed channel fails. *)
RequestFails(c, k) ==
    /\ c \in routes /\ k \in KeysOf(c) \ mem[c].off
    /\ Call(c, k, "auto") \notin todo
    /\ todo' = todo \cup {Call(c, k, "auto")}
    /\ UNCHANGED <<setup, store, memory, upd, snap, edit, tests>>

PermanentError(c, k) ==
    /\ <<c, k>> \in failing
    /\ RequestFails(c, k) /\ UNCHANGED troubles

PassingError(c, k) ==
    /\ <<c, k>> \notin failing
    /\ Trouble("error")
    /\ RequestFails(c, k)

(* testAllChannels reads the channels once.  When that fails it returns    *)
(* with the running flag set.                                              *)
StartTests ==
    /\ testing = "no"
    /\ \/ testing' = "running" /\ probe' = db /\ UNCHANGED troubles
       \/ Fault /\ testing' = "stuck" /\ UNCHANGED probe
    /\ UNCHANGED <<setup, store, memory, todo, upd, snap, edit>>

(* The keys that a test may meet and that pass or fail it; without an      *)
(* enabled key the test fails with no key at all.                          *)
Passes(c) == {k \in KeysOf(c) \ probe[c].off : <<c, k>> \notin failing}
Fails(c) ==
    IF KeysOf(c) \subseteq probe[c].off THEN {None}
    ELSE (KeysOf(c) \ probe[c].off) \ Passes(c)

(* The next channel is tested with one of its enabled keys; the status is  *)
(* the one read at the start.  The bug: disabled channels are skipped.     *)
TestEnabledOnly(c) ==
    /\ testing = "running" /\ c \in DOMAIN probe
    /\ \/ probe[c].status = "on" /\ \E k \in Fails(c) : todo' = todo \cup {Call(c, k, "auto")}
       \/ UNCHANGED todo /\ (probe[c].status # "on" \/ Passes(c) # {})
    /\ probe' = [d \in DOMAIN probe \ {c} |-> probe[d]]
    /\ testing' = IF probe' = NoRows THEN "no" ELSE testing
    /\ UNCHANGED <<setup, store, memory, upd, snap, edit, troubles>>
Test(c) ==
    /\ testing = "running" /\ c \in DOMAIN probe
    /\ \/ probe[c].status = "on" /\ \E k \in Fails(c) : todo' = todo \cup {Call(c, k, "auto")}
       \/ probe[c].status = "auto" /\ \E k \in Passes(c) : todo' = todo \cup {Call(c, k, "on")}
       \/ UNCHANGED todo /\ (probe[c].status = "manual"
                             \/ (probe[c].status = "on" /\ Passes(c) # {})
                             \/ (probe[c].status = "auto" /\ Passes(c) = {}))
    /\ probe' = [d \in DOMAIN probe \ {c} |-> probe[d]]
    /\ testing' = IF probe' = NoRows THEN "no" ELSE testing
    /\ UNCHANGED <<setup, store, memory, upd, snap, edit, troubles>>

-----------------------------------------------------------------------------
(* UpdateChannel: the administrator's status, the key states as read. *)

EditRead(c) ==
    /\ edit.pc = "idle" /\ Trouble("edit")
    /\ edit' = [pc |-> "write", c |-> c, off |-> db[c].off]
    /\ UNCHANGED <<setup, store, memory, todo, upd, snap, tests>>

EditWrite(status) ==
    /\ edit.pc = "write"
    /\ db' = [db EXCEPT ![edit.c] = [status |-> status, off |-> edit.off]]
    /\ edit' = [pc |-> "ability", c |-> edit.c]
    /\ UNCHANGED <<setup, ability, memory, todo, upd, snap, tests, troubles>>

(* The row is read again for UpdateAbilities. *)
EditAbility ==
    /\ edit.pc = "ability"
    /\ ability' = [ability EXCEPT ![edit.c] = (db[edit.c].status = "on")]
    /\ edit' = [pc |-> "sync"]
    /\ UNCHANGED <<setup, db, memory, todo, upd, snap, tests, troubles>>

-----------------------------------------------------------------------------
Update == (\E t \in todo : Get(t)) \/ Mark \/ Reroute \/ Load \/ Save \/ SaveAbility
Synchronise(s) == Reload(s) \/ Install(s) \/ ReloadFails(s)
Testing == StartTests \/ (\E c \in Channels : Test(c))
Edit ==
    \/ \E c \in Channels : EditRead(c)
    \/ \E status \in {"on", "manual"} : EditWrite(status)
    \/ EditAbility

Next ==
    \/ Update
    \/ \E s \in Syncers : Synchronise(s)
    \/ \E c \in Channels : \E k \in Keys \cup {None} :
           PermanentError(c, k) \/ PassingError(c, k)
    \/ Testing
    \/ Edit

Spec == Init /\ [][Next]_vars

(* Goroutines keep running, the tickers of InitChannelCache and of the     *)
(* tests keep ticking, and users keep asking: what fails is met again.     *)
FairSpec ==
    /\ Spec
    /\ WF_vars(Update) /\ WF_vars(Testing) /\ WF_vars(EditAbility)
    /\ \A s \in Syncers : WF_vars(Synchronise(s))
    /\ \A c \in Channels : \A k \in Keys \cup {None} : WF_vars(PermanentError(c, k))

-----------------------------------------------------------------------------
(* The variables keep to their types: only listed keys are ever marked     *)
(* (model/channel.go, handlerMultiKeyUpdate).                              *)
TypeOK ==
    /\ multiKey \subseteq Channels
    /\ failing \subseteq {x \in Channels \X BadKeys : x[2] \in KeysOf(x[1])}
    /\ db \in [Channels -> Row] /\ ability \in [Channels -> BOOLEAN]
    /\ mem \in [Channels -> Row] /\ routes \subseteq Channels
    /\ upd.pc \in {"idle", "mark", "route", "load", "save", "ability"}
    /\ edit.pc \in {"idle", "write", "ability", "sync"}
    /\ testing \in {"no", "running", "stuck"}
    /\ troubles \subseteq {"error", "edit", "fault"}

(* A channel with a route is enabled in memory and, unless an edit enabled *)
(* it as it was, has an enabled key, whatever snapshots replace the memory *)
(* meanwhile; except while UpdateChannelStatus is about to take the route  *)
(* away (CacheUpdateChannelStatus, InitChannelCache).                      *)
RoutesEnabled ==
    /\ TypeOK
    /\ \A c \in routes :
        \/ mem[c].status = "on" /\ (mem[c].off # Keys \/ "edit" \in troubles)
        \/ upd.pc = "route" /\ upd.call.c = c

(* However the writers interleave, memory and routes come to agree with    *)
(* the database: a stale snapshot or a write to a replaced object is       *)
(* repaired by a later InitChannelCache.  Without edits and database       *)
(* errors the abilities come to agree as well (the deferred                *)
(* UpdateAbilityStatus).                                                   *)
MemoryAgrees == mem = db /\ routes = {c \in Channels : db[c].status = "on"}
AbilitiesAgree == \A c \in Channels : ability[c] = (db[c].status = "on")
Converges == <>[](MemoryAgrees /\ (AbilitiesAgree \/ {"edit", "fault"} \cap troubles # {}))

(* A channel or key that always fails is in the end no longer used, also   *)
(* when the save of its status failed, or an edit or a stale snapshot      *)
(* brought it back (DisableChannel, UpdateChannelStatus).                  *)
InUse(c, k) == c \in routes /\ k \notin mem[c].off
FailingLeaves == <>[](\A x \in failing : ~InUse(x[1], x[2]))

(* A channel with one key that failed only now and then, and was not       *)
(* disabled by an administrator, comes back for good, unless the tests are *)
(* stuck (testAllChannels, EnableChannel).                                 *)
HealthyReturns ==
    \A c \in Channels :
        <>[](\/ c \in routes \/ c \in multiKey \/ <<c, None>> \in failing
             \/ "edit" \in troubles \/ testing = "stuck")
=============================================================================
