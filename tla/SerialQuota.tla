---------------------------- MODULE SerialQuota ----------------------------
(***************************************************************************)
(* What the subscriptions of a user promise to the requests they fund: a   *)
(* charge, a settlement, a refund or a reset is one step, which applies to *)
(* the amounts as they are and not to some older copy of them; a request   *)
(* is charged once, for a subscription that is open, and settled at most   *)
(* once; and what has ended or was deleted stays so.                       *)
(***************************************************************************)
EXTENDS Integers

CONSTANTS
    Subs,       \* the subscriptions
    Requests,   \* the requests
    Total,      \* the limit of each subscription, 0 for none
    Amounts,    \* what a request may be charged
    Deltas      \* what its settlement may add

VARIABLES
    state,      \* of each subscription: none, open, ended or gone
    used,       \* the used amount of each subscription
    phase,      \* of each request: new, charged or over
    sub,        \* the subscription it was charged to, 0 for none
    held        \* what it has taken

subscriptions == <<state, used>>
requests == <<phase, sub, held>>
vars == <<subscriptions, requests>>

Init ==
    /\ state = [s \in Subs |-> "none"] /\ used = [s \in Subs |-> 0]
    /\ phase = [r \in Requests |-> "new"]
    /\ sub = [r \in Requests |-> 0] /\ held = [r \in Requests |-> 0]

Existing == {s \in Subs : state[s] \in {"open", "ended"}}
Open == {s \in Subs : state[s] = "open"}

Buy(s) ==
    /\ state[s] = "none"
    /\ state' = [state EXCEPT ![s] = "open"]
    /\ used' = [used EXCEPT ![s] = 0]
    /\ UNCHANGED requests

End(S) ==
    /\ state' = [s \in Subs |-> IF s \in S THEN "ended" ELSE state[s]]
    /\ UNCHANGED <<used, requests>>

Delete(s) ==
    /\ state' = [state EXCEPT ![s] = "gone"]
    /\ used' = [used EXCEPT ![s] = 0]
    /\ UNCHANGED requests

(* The amounts after some subscriptions were reset. *)
Zeroed(R) == [s \in Subs |-> IF s \in R THEN 0 ELSE used[s]]

Reset(R) ==
    /\ used' = Zeroed(R)
    /\ UNCHANGED <<state, requests>>

(* A request takes an amount for which there is room, after resets that    *)
(* are due.                                                                *)
Charge(r, c, a, R) ==
    /\ phase[r] = "new"
    /\ Total[c] = 0 \/ Zeroed(R)[c] + a <= Total[c]
    /\ used' = [Zeroed(R) EXCEPT ![c] = Zeroed(R)[c] + a]
    /\ phase' = [phase EXCEPT ![r] = "charged"]
    /\ sub' = [sub EXCEPT ![r] = c]
    /\ held' = [held EXCEPT ![r] = a]
    /\ UNCHANGED state

(* Its settlement or refund; an amount that was reset meanwhile does not   *)
(* fall below zero.                                                        *)
Settle(r, d) ==
    LET s == sub[r]
        new == IF used[s] + d < 0 THEN 0 ELSE used[s] + d
    IN /\ phase[r] = "charged" /\ s \in Existing
       /\ held[r] + d >= 0
       /\ Total[s] = 0 \/ new <= Total[s]
       /\ used' = [used EXCEPT ![s] = new]
       /\ phase' = [phase EXCEPT ![r] = "over"]
       /\ held' = [held EXCEPT ![r] = held[r] + d]
       /\ UNCHANGED <<state, sub>>

(* A request that gets nothing, or that keeps what it was charged. *)
Finish(r) ==
    /\ phase[r] # "over"
    /\ phase' = [phase EXCEPT ![r] = "over"]
    /\ UNCHANGED <<subscriptions, sub, held>>

Next ==
    \/ \E s \in Subs : Buy(s)
    \/ \E S \in SUBSET Existing : End(S) \/ Reset(S)
    \/ \E s \in Existing : Delete(s)
    \/ \E r \in Requests :
          \/ \E c \in Open, a \in Amounts, R \in SUBSET Open : Charge(r, c, a, R)
          \/ \E d \in Deltas \cup {- held[r]} : Settle(r, d)
          \/ Finish(r)

Spec == Init /\ [][Next]_vars
=============================================================================
