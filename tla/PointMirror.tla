---------------------------- MODULE PointMirror ----------------------------
(***************************************************************************)
(* What draining reindex_queue promises about the vector points, with no   *)
(* queue, worker, batch or retry in sight: a copy (index) that follows a   *)
(* source of truth (spine).  A change makes a row owe a refresh; the copy  *)
(* moves forward to some version already committed; the debt is cleared    *)
(* only when the copy has the last version.                                *)
(***************************************************************************)
EXTENDS Integers

CONSTANTS Rows, MaxVersion

VARIABLES
    spine,   \* Rows -> last version committed
    index,   \* Rows -> version copied
    owed     \* rows with an unfinished refresh

vars == <<spine, index, owed>>

Init ==
    /\ spine = [r \in Rows |-> 0]
    /\ index = [r \in Rows |-> 0]
    /\ owed = {}

Change(r) ==
    /\ spine[r] < MaxVersion
    /\ spine' = [spine EXCEPT ![r] = @ + 1]
    /\ owed' = owed \union {r}
    /\ UNCHANGED index

Refresh(r) ==
    /\ r \in owed
    /\ \E v \in index[r]..spine[r] : index' = [index EXCEPT ![r] = v]
    /\ UNCHANGED <<spine, owed>>

Settle(r) ==
    /\ r \in owed
    /\ index[r] = spine[r]
    /\ owed' = owed \ {r}
    /\ UNCHANGED <<spine, index>>

Next == \E r \in Rows : Change(r) \/ Refresh(r) \/ Settle(r)

Spec == Init /\ [][Next]_vars
=============================================================================
