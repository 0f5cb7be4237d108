--------------------------- MODULE BookmarkRepair ---------------------------
(***************************************************************************)
(* What an answered write is worth after the faults and races that         *)
(* BookmarkApi excuses once an update was lost.  A history variable is     *)
(* added to its specification; no step is added, and none is constrained.  *)
(***************************************************************************)
EXTENDS BookmarkApi

VARIABLE undisturbed   \* history: the invocations since whose GetItem no other
                       \* one has changed the item or a list

repairVars == <<apiVars, undisturbed>>

Early == {"idle", "getItem"}

UndisturbedNow ==
    {h \in Handlers :
        /\ handler'[h].pc \notin Early
        /\ \/ handler[h].pc \in Early
           \/ /\ h \in undisturbed
              /\ handler'[h] # handler[h] \/ UNCHANGED <<record, bucket>>}

RepairInit == Init /\ undisturbed = {}

RepairSpec ==
    RepairInit /\ [][Next /\ undisturbed' = UndisturbedNow]_repairVars

\* The list is one that the client of s asked for.
Asked(s, list) ==
    /\ s.op = "put"    => list = s.arg
    /\ s.op = "post"   => s.arg \subseteq list
    /\ s.op = "remove" => s.arg \intersect list = {}

\* What the client of a write was told is so of the item r and the lists b.
AsToldTo(s, r, b) ==
    /\ s.op = "delete" => ~Live(r)
    /\ s.op \in Puts   => Live(r) /\ b[r.version] # NoObject /\ Asked(s, b[r.version])

\* A write that is answered with success, and beside which nobody else wrote since
\* it read the item, holds when it is answered: whatever went before it (a lost
\* update, an item that names a missing list, a version that rolled back, lists
\* left by killed invocations), and also when it read a stale item itself or took
\* an error of GetItem for no item.  So the write that follows a lost update
\* undoes its damage; POST and the removal of an entry, which must read the list,
\* are refused as long as it is missing, PUT and DELETE are not.
UndisturbedWriteHolds ==
    \A h \in Handlers :
        (h \in undisturbed /\ handler[h].pc = "done" /\ handler[h].answer = "ok")
            => AsToldTo(handler[h], record, bucket)
=============================================================================
