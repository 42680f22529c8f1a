--------------------------- MODULE BufferedCounter ---------------------------
(***************************************************************************)
(* What the quota ledger promises to its callers: a set of counters in a   *)
(* database, and changes to them that have been answered and are still in  *)
(* memory, either collected or being written.  On its way to the database  *)
(* no change is lost or repeated; a failed write loses what was being      *)
(* written, a crash what was in memory.  What is in the database is lost   *)
(* only when an editor puts a counter back to the value that it has read   *)
(* before, or somebody sets it.                                            *)
(***************************************************************************)
EXTENDS Integers

CONSTANTS
    Columns,    \* the counters
    Editors,    \* those who read the counters and write some of them back
    Deltas,     \* what one call may add to one of them
    Gifts,      \* what an editor may add to what it writes back
    Values      \* what a counter may be set to

VARIABLES
    durable,    \* the database
    collected,  \* sums of the changes that were answered
    underway,   \* sums of the changes that are being written
    editors,    \* the editors that have read
    read        \* what they have read

memory == <<collected, underway>>
edits == <<editors, read>>
vars == <<durable, memory, edits>>

Nothing == [c \in Columns |-> 0]

Init ==
    /\ durable \in [Columns -> Int]
    /\ collected = Nothing /\ underway = Nothing
    /\ editors = {}

Plus(f, g, S) == [c \in Columns |-> IF c \in S THEN f[c] + g[c] ELSE f[c]]
Without(f, S) == [c \in Columns |-> IF c \in S THEN 0 ELSE f[c]]

(* A call changes one counter, in memory or in the database at once. *)
Answer(c, d) ==
    \/ /\ collected' = [collected EXCEPT ![c] = collected[c] + d]
       /\ UNCHANGED <<durable, underway, edits>>
    \/ /\ durable' = [durable EXCEPT ![c] = durable[c] + d]
       /\ UNCHANGED <<memory, edits>>

(* The changes of some counters are taken out, written, or not written. *)
Take(S) ==
    /\ underway' = Plus(underway, collected, S)
    /\ collected' = Without(collected, S)
    /\ UNCHANGED <<durable, edits>>

Write(S) ==
    /\ durable' = Plus(durable, underway, S)
    /\ underway' = Without(underway, S)
    /\ UNCHANGED <<collected, edits>>

Fail(S) ==
    /\ underway' = Without(underway, S)
    /\ UNCHANGED <<durable, collected, edits>>

(* The memory is gone, and the editors too. *)
Crash ==
    /\ collected' = Nothing /\ underway' = Nothing
    /\ editors' = {}
    /\ UNCHANGED <<durable, read>>

(* An editor reads, gives up, or puts some counters back to what it has    *)
(* read, with a gift to one of them.                                       *)
Edit(e) ==
    /\ e \notin editors /\ editors' = editors \cup {e}
    /\ read' = [read EXCEPT ![e] = durable]
    /\ UNCHANGED <<durable, memory>>

GiveUp(e) ==
    /\ e \in editors /\ editors' = editors \ {e}
    /\ UNCHANGED <<durable, memory, read>>

PutBack(e, S, c, g) ==
    /\ e \in editors /\ editors' = editors \ {e}
    /\ durable' = [b \in Columns |-> (IF b \in S THEN read[e][b] ELSE durable[b])
                                      + (IF b = c THEN g ELSE 0)]
    /\ UNCHANGED <<memory, read>>

(* Somebody sets a counter. *)
Set(c, v) ==
    /\ durable' = [durable EXCEPT ![c] = v]
    /\ UNCHANGED <<memory, edits>>

Next ==
    \/ \E c \in Columns, d \in Deltas : Answer(c, d)
    \/ \E S \in SUBSET Columns : Take(S) \/ Write(S) \/ Fail(S)
    \/ Crash
    \/ \E e \in Editors : Edit(e) \/ GiveUp(e)
    \/ \E e \in Editors, S \in SUBSET Columns, c \in Columns, g \in Gifts \cup {0} :
         PutBack(e, S, c, g)
    \/ \E c \in Columns, v \in Values : Set(c, v)

Spec == Init /\ [][Next]_vars
=============================================================================
