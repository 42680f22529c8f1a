---------------------------- MODULE ChannelSelect ----------------------------
(***************************************************************************)
(* One relay request on its way through the channels: Distribute           *)
(* (middleware/distributor.go) chooses the first channel, the loop of      *)
(* Relay (controller/relay.go) another one after each failure, both by     *)
(* CacheGetRandomSatisfiedChannel (service/channel_select.go) and          *)
(* GetRandomSatisfiedChannel (model/channel_cache.go).                     *)
(*                                                                         *)
(* A token of group "auto" searches the groups in their order.  With       *)
(* cross-group retry a group that has used up its retries is left for the  *)
(* next one.  Other requests and administrators change the routes while    *)
(* the request is under way.                                               *)
(***************************************************************************)
EXTENDS Naturals, FiniteSets, FiniteSetsExt

CONSTANTS
    NGroups,        \* groups 1..NGroups in the order of "auto"
    Channels,       \* the channels that serve the model
    None,           \* no channel
    GroupOf,        \* the group of each channel
    Priority,       \* the priority of each channel
    Weight,         \* the weight of each channel
    RetryTimes,     \* common.RetryTimes
    MaxChanges      \* bound on the changes of the routes

ASSUME SelectAssumption ==
    /\ NGroups \in Nat \ {0} /\ RetryTimes \in Nat /\ MaxChanges \in Nat
    /\ IsFiniteSet(Channels) /\ None \notin Channels
    /\ GroupOf \in [Channels -> 1..NGroups]
    /\ Priority \in [Channels -> Nat] /\ Weight \in [Channels -> Nat]

Groups == 1..NGroups

VARIABLES
    auto, cross,    \* the token's group is "auto"; cross-group retry is on
    sticky,         \* the matching affinity rule says not to retry
    tiered,         \* the model is billed by an expression (tiered_expr)
    routes,         \* the channels in group2model2channels
    phase,          \* what the request does next
    channel,        \* the channel in the request's context
    index,          \* ContextKeyAutoGroupIndex
    autoGroup,      \* ContextKeyAutoGroup
    retry, reset,   \* RetryParam
    usingGroup,     \* the group whose ratio PriceData.GroupRatioInfo has
    frozen,         \* the group whose ratio TieredBillingSnapshot has
    affinity,       \* the first channel was the preferred one
    attempts,       \* history: number of attempts
    tried,          \* history: channels asked so far
    first,          \* history: the channel that was asked first
    stable,         \* history: channels that were always in the routes
    changes         \* number of changes of the routes

token == <<auto, cross, sticky, tiered>>
context == <<channel, index, autoGroup>>
param == <<retry, reset>>
price == <<usingGroup, frozen>>
history == <<attempts, tried, first>>
env == <<routes, stable, changes>>
vars == <<token, context, param, history, env, phase, price, affinity>>

Phases == {"distribute", "ask", "retry", "served", "refused", "failed", "exhausted"}
Ended == phase \in {"served", "refused", "failed", "exhausted"}

Init ==
    /\ auto \in BOOLEAN /\ cross \in BOOLEAN /\ sticky \in BOOLEAN /\ tiered \in BOOLEAN
    /\ routes \in SUBSET Channels /\ stable = routes
    /\ phase = "distribute"
    /\ channel = None /\ index = 1 /\ autoGroup = 0
    /\ retry = 0 /\ reset = FALSE
    /\ usingGroup = 0 /\ frozen = 0 /\ affinity = FALSE
    /\ attempts = 0 /\ tried = {} /\ first = None
    /\ changes = 0

-----------------------------------------------------------------------------
(* GetRandomSatisfiedChannel *)

InGroup(g) == {c \in routes : GroupOf[c] = g}

Rank(c, cs) == Cardinality({Priority[d] : d \in {e \in cs : Priority[e] > Priority[c]}})

(* The r-th priority from the top, or the lowest one; of its channels      *)
(* those with a weight, or any if none has one.                            *)
Satisfied(g, r) ==
    LET cs == InGroup(g)
        level == Min({r, Max({Rank(c, cs) : c \in cs})})
        target == {c \in cs : Rank(c, cs) = level}
        heavy == {c \in target : Weight[c] > 0}
    IN IF cs = {} THEN {None} ELSE IF heavy = {} THEN target ELSE heavy

-----------------------------------------------------------------------------
(* CacheGetRandomSatisfiedChannel *)

(* The first group from the index on that has a route. *)
NextGroup == Min({g \in index..NGroups : InGroup(g) # {}} \cup {NGroups + 1})

Selection(c, g, i, r, f) ==
    [channel |-> c, group |-> IF c = None THEN autoGroup ELSE g,
     index |-> i, retry |-> r, reset |-> f]

(* For group "auto": what the call may return, and the state it leaves.  A *)
(* group that is not the one searched before is entered at its top         *)
(* priority.  The bugs: a spent group is not left; it is left but the      *)
(* retries are not started again.                                          *)
AutoSelectionsStay(r) ==
    LET g == NextGroup
        depth == IF g = index THEN r ELSE 0
        spent == cross /\ depth >= RetryTimes /\ g <= NGroups
    IN {Selection(c, g, g, IF spent THEN 0 ELSE depth, spent)
            : c \in Satisfied(g, depth)}
AutoSelectionsNoRestart(r) ==
    LET g == NextGroup
        depth == IF g = index THEN r ELSE 0
        spent == cross /\ depth >= RetryTimes /\ g <= NGroups
    IN {Selection(c, g, IF spent THEN g + 1 ELSE g, depth, spent)
            : c \in Satisfied(g, depth)}
AutoSelections(r) ==
    LET g == NextGroup
        depth == IF g = index THEN r ELSE 0
        spent == cross /\ depth >= RetryTimes /\ g <= NGroups
    IN {Selection(c, g, IF spent THEN g + 1 ELSE g, IF spent THEN 0 ELSE depth, spent)
            : c \in Satisfied(g, depth)}

Selections(r) ==
    IF auto THEN AutoSelections(r)
    ELSE {Selection(c, autoGroup, index, r, FALSE) : c \in Satisfied(1, r)}

(* HandleGroupRatio: the auto group if there is one, or the token's group. *)
RatioGroup(g) == IF g = 0 THEN 1 ELSE g

(* ModelPriceHelper, before the loop: a billing expression takes the ratio *)
(* into its snapshot.                                                      *)
PriceBy(g) ==
    /\ usingGroup' = RatioGroup(g)
    /\ frozen' = IF tiered THEN RatioGroup(g) ELSE frozen

(* What the request is settled by: ComputeTieredQuota takes the ratio of   *)
(* the snapshot, every other model that of GroupRatioInfo.                 *)
SettledBy == IF tiered THEN frozen ELSE usingGroup

MaxAttempts == (RetryTimes + 1) * (IF auto THEN NGroups ELSE 1)

(* Attempts beyond the bound are counted as one more than the bound. *)
Ask(c) ==
    /\ phase' = "ask"
    /\ channel' = c
    /\ attempts' = Min({attempts + 1, MaxAttempts + 1})
    /\ tried' = tried \cup {c}
    /\ first' = IF first = None THEN c ELSE first

-----------------------------------------------------------------------------
(* Distribute, and the pricing of the request before the loop. *)

(* The preferred channel of the affinity cache is used if it has a route   *)
(* in one of the token's groups; the group index is left alone.            *)
Prefer(c) ==
    /\ phase = "distribute"
    /\ c \in routes /\ (auto \/ GroupOf[c] = 1)
    /\ autoGroup' = IF auto THEN GroupOf[c] ELSE autoGroup
    /\ PriceBy(autoGroup')
    /\ affinity' = TRUE
    /\ Ask(c)
    /\ UNCHANGED <<token, index, param, env>>

(* The preferred channel is disabled, and the rule forbids another one. *)
RefusePreferred ==
    /\ phase = "distribute"
    /\ sticky /\ routes # Channels
    /\ phase' = "refused"
    /\ UNCHANGED <<token, context, param, history, env, price, affinity>>

(* A selection of its own: the retries and the reset mark are forgotten,   *)
(* the context is kept.                                                    *)
Distribute ==
    /\ phase = "distribute"
    /\ \E s \in Selections(0) :
        /\ index' = s.index /\ autoGroup' = s.group
        /\ PriceBy(s.group)
        /\ IF s.channel = None
           THEN phase' = "refused" /\ UNCHANGED <<channel, history>>
           ELSE Ask(s.channel)
    /\ UNCHANGED <<token, param, env, affinity>>

-----------------------------------------------------------------------------
(* The loop of Relay and RelayTask. *)

Serve ==
    /\ phase = "ask"
    /\ phase' = "served"
    /\ UNCHANGED <<token, context, param, history, env, price, affinity>>

(* What shouldRetry tells apart: errors of the channel, errors that may be *)
(* retried, errors that may not.                                           *)
Errors == {"channel", "retryable", "final"}

shouldRetry(e, left) ==
    /\ ~sticky
    /\ e = "channel" \/ (e = "retryable" /\ left > 0)

(* IncreaseRetry.  The bug: the reset mark is ignored. *)
IncreasedAlways == retry + 1
Increased == IF reset THEN retry ELSE retry + 1

(* The attempt failed; the loop ends or goes on. *)
Fail(e) ==
    /\ phase = "ask"
    /\ phase' = IF e = "final" \/ sticky THEN "failed"
                ELSE IF shouldRetry(e, RetryTimes - retry) /\ Increased <= RetryTimes
                THEN "retry" ELSE "exhausted"
    /\ IF shouldRetry(e, RetryTimes - retry)
       THEN retry' = Increased /\ reset' = FALSE
       ELSE UNCHANGED param
    /\ UNCHANGED <<token, context, history, env, price, affinity>>

(* getChannel: GroupRatioInfo follows the group that was chosen, the       *)
(* snapshot of a billing expression stays.  The context cannot be set up   *)
(* for a channel without a usable key, which ends the request.  The bug:   *)
(* the ratio is looked up before the choice.                               *)
RetryOldPrice ==
    /\ phase = "retry"
    /\ \E s \in Selections(retry) :
        /\ index' = s.index /\ autoGroup' = s.group
        /\ retry' = s.retry /\ reset' = s.reset
        /\ usingGroup' = RatioGroup(autoGroup)
        /\ IF s.channel = None
           THEN phase' = "exhausted" /\ UNCHANGED <<channel, history>>
           ELSE Ask(s.channel)
    /\ UNCHANGED <<token, env, frozen, affinity>>
Retry ==
    /\ phase = "retry"
    /\ \E s \in Selections(retry) :
        /\ index' = s.index /\ autoGroup' = s.group
        /\ retry' = s.retry /\ reset' = s.reset
        /\ usingGroup' = RatioGroup(s.group)
        /\ IF s.channel = None
           THEN phase' = "exhausted" /\ UNCHANGED <<channel, history>>
           ELSE \/ Ask(s.channel)
                \/ phase' = "failed" /\ UNCHANGED <<channel, history>>
    /\ UNCHANGED <<token, env, frozen, affinity>>

-----------------------------------------------------------------------------
(* The routes, seen from this request: another one disables a channel, an  *)
(* administrator or a test enables one.                                    *)

Leave(c) ==
    /\ c \in routes /\ routes' = routes \ {c}
    /\ stable' = stable \ {c}

Return(c) ==
    /\ c \notin routes /\ routes' = routes \cup {c}
    /\ UNCHANGED stable

Change ==
    /\ ~Ended
    /\ changes < MaxChanges /\ changes' = changes + 1
    /\ \E c \in Channels : Leave(c) \/ Return(c)
    /\ UNCHANGED <<token, context, param, history, phase, price, affinity>>

Step ==
    \/ \E c \in Channels : Prefer(c)
    \/ RefusePreferred
    \/ Distribute
    \/ Serve
    \/ \E e \in Errors : Fail(e)
    \/ Retry

Next == Step \/ Change

Spec == Init /\ [][Next]_vars

-----------------------------------------------------------------------------
(* The search: the group index is at most one past the last group, the     *)
(* retries at most RetryTimes + 1, also in the calls that search several   *)
(* groups (service/channel_select.go).                                     *)
SearchTypes ==
    /\ auto \in BOOLEAN /\ cross \in BOOLEAN /\ sticky \in BOOLEAN
    /\ routes \subseteq Channels /\ stable \subseteq routes
    /\ phase \in Phases
    /\ channel \in Channels \cup {None}
    /\ index \in 1..(NGroups + 1) /\ autoGroup \in 0..NGroups
    /\ retry \in 0..(RetryTimes + 1) /\ reset \in BOOLEAN
    /\ usingGroup \in 0..NGroups /\ affinity \in BOOLEAN
    /\ attempts \in 0..(MaxAttempts + 1) /\ tried \subseteq Channels
    /\ changes \in 0..MaxChanges

(* And the price. *)
TypeOK ==
    /\ SearchTypes
    /\ tiered \in BOOLEAN
    /\ frozen \in 0..NGroups
    /\ first \in Channels \cup {None}

(* Although the selection sets the loop's counter back to zero, a request  *)
(* makes in all at most RetryTimes + 1 attempts for each group that it may *)
(* use, whatever happens to the routes meanwhile (controller/relay.go,     *)
(* service/channel_select.go).  A single group may get more of them: one   *)
(* of a preferred channel, which counts for the first group.               *)
AttemptsBounded == TypeOK /\ attempts <= MaxAttempts

(* A request with cross-group retry that runs out of channels or retries   *)
(* has asked every group that had a route all the time, also when it began *)
(* with a preferred channel of a later group.                              *)
EveryGroupTried ==
    (phase = "exhausted" /\ auto /\ cross /\ RetryTimes > 0) =>
        \A c \in stable : \E d \in tried : GroupOf[d] = GroupOf[c]

(* Within a group a lower priority is asked only after every higher one,   *)
(* as long as the routes do not change and no preferred channel jumped the *)
(* queue (GetRandomSatisfiedChannel: the retries count the priorities).    *)
HigherFirst ==
    (changes = 0 /\ ~affinity) =>
        \A c \in tried : \A d \in InGroup(GroupOf[c]) :
            Priority[d] > Priority[c] =>
                \E t \in tried : GroupOf[t] = GroupOf[c] /\ Priority[t] = Priority[d]

(* The group that pays: a request is settled by the ratio of the group of  *)
(* the channel that serves it, after every change of group (getChannel,    *)
(* HandleGroupRatio); one billed by an expression by that of the group it  *)
(* was priced in before the loop, the group of the first channel, however  *)
(* many groups were tried since (ComputeTieredQuota, BillingSnapshot).     *)
PricedByItsGroup ==
    phase \in {"ask", "served"} =>
        SettledBy = GroupOf[IF tiered THEN first ELSE channel]
=============================================================================
