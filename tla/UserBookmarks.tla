--------------------------- MODULE UserBookmarks ---------------------------
(***************************************************************************)
(* The item the table user_bookmarks keeps for a user, and the operators   *)
(* of func/api/helpers that read and change it.  A version "1.0.n" is the  *)
(* number n, and the suffix "_DELETED" is a flag of its own.  The number 0 *)
(* is the version of DefaultBookmarksVersion, which no item ever carries:  *)
(* it stands for the absence of an item.  Time is counted in ticks from 1, *)
(* and 0 is Go's zero time.  EndTimestamp is reduced to whether it is set. *)
(* The fields operationId and syncEnabled are left out: nothing reads them *)
(* to take a decision.                                                     *)
(***************************************************************************)
EXTENDS Integers

CONSTANTS MaxVersion,         \* bound: the last version a run can reach
          MaxTime,            \* bound: the last tick of the clock
          DelayedStatusTime   \* DelayedStatusTimeInMinutes, in ticks

ASSUME BoundsAssumption == /\ MaxVersion \in Nat \ {0}
                           /\ MaxTime \in Nat \ {0}
                           /\ DelayedStatusTime \in Nat

NoStatus == "none"
Statuses == {NoStatus, "Pending", "Success", "Failed", "Timeout",
             "BookmarksLocked"}

Versions == 1 .. MaxVersion
ZeroTime == 0
Times == ZeroTime .. MaxTime

Records == [version  : {0} \union Versions,
            deleted  : BOOLEAN,
            status   : Statuses,
            startTs  : Times,
            ended    : BOOLEAN,
            modified : BOOLEAN]

NoRecord == [version |-> 0, deleted |-> FALSE, status |-> NoStatus,
             startTs |-> ZeroTime, ended |-> FALSE, modified |-> FALSE]

Exists(r) == r.version # 0

\* GetUserBookmarksS3Path returns a path: the item names an object.
Live(r) == Exists(r) /\ ~r.deleted

\* The order in which a user's items follow each other: version n, then the
\* deletion of version n, then version n + 1.
Rank(r) == 2 * r.version + (IF r.deleted THEN 1 ELSE 0)

IsDistributionPending(r) == r.status \in {"Pending", "BookmarksLocked"}

\* The status a reader sees at time t.  The item in the table keeps Pending.
updateDelayedDistributionToTimeout(r, t) ==
    IF r.status = "Pending" /\ t - r.startTs > DelayedStatusTime
      THEN [r EXCEPT !.status = "Timeout", !.ended = TRUE]
      ELSE r

\* Mutant of GetIncrementedVersion: after a deletion the versions start again.
IncrementedFromDefault(r) == IF r.deleted THEN 1 ELSE r.version + 1

\* The version after that of r, deleted or not.
GetIncrementedVersion(r) == r.version + 1

\* Mutants: the new version is not marked as modified; a deletion takes a
\* version of its own.
WithVersionUnmarked(r, v)   == [r EXCEPT !.version = v, !.deleted = FALSE]
WithSuffixOnNextVersion(r)  == [r EXCEPT !.version = @ + 1, !.deleted = TRUE,
                                         !.modified = TRUE]

\* The item as a handler is about to write it.  A handler that found none
\* starts from the empty struct.
WithVersion(r, v)   == [r EXCEPT !.version = v, !.deleted = FALSE, !.modified = TRUE]
WithDeletedSuffix(r) == [r EXCEPT !.deleted = TRUE, !.modified = TRUE]

\* UpdateRecordsByKey: every field of the struct replaces the stored one,
\* except the zero values tagged omitempty, which StructToMap leaves out.
Merge(stored, e) ==
    [e EXCEPT !.status  = IF e.status  = NoStatus THEN stored.status  ELSE e.status,
              !.startTs = IF e.startTs = ZeroTime THEN stored.startTs ELSE e.startTs,
              !.ended   = stored.ended \/ e.ended]
=============================================================================
