---------------------------- MODULE BookmarkApi ----------------------------
(***************************************************************************)
(* The routes that read and write one user's bookmarks, as concurrent      *)
(* Lambda invocations.  An invocation (a handler) runs one request to its  *)
(* end; it keeps nothing between requests.  Users share no state, so one   *)
(* user is enough.  Every call to DynamoDB or S3 is a step of its own:     *)
(* between two of them other invocations run, and the invocation may fail  *)
(* or be killed.  A list of bookmarks is the set of its URLs: order, pages *)
(* and repeated entries make no difference to these steps.                 *)
(***************************************************************************)
EXTENDS UserBookmarks

CONSTANTS Handlers,     \* concurrent invocations
          Serves,       \* Serves[h]: the operations whose requests reach h
          Urls,         \* the URLs clients use
          ValidUrls,    \* those that util.ValidateURL accepts
          Faults,       \* the faults of the environment in this instance
          NoObject      \* no object is stored under this key

Reads      == {"get", "head"}
Puts       == {"put", "post", "remove"}
Operations == Reads \union Puts \union {"delete"}
FaultKinds == {"staleRead", "readError", "writeError", "clientError", "kill"}
Lists      == SUBSET Urls

ASSUME ApiAssumption == /\ Serves \in [Handlers -> SUBSET Operations]
                        /\ ValidUrls \subseteq Urls
                        /\ Faults \subseteq FaultKinds
                        /\ \A list \in Lists : list # NoObject

\* Two hypotheses of some properties: of the invocations that run at once, one at
\* most writes; and GetItem returns the item of the table, and no error that reads
\* as no item.
OneWriter == \A g, h \in Handlers :
    g # h => Serves[g] \subseteq Reads \/ Serves[h] \subseteq Reads
FreshReads == Faults \intersect {"staleRead", "readError"} = {}

VARIABLES record,      \* the user's item in user_bookmarks
          replica,     \* the copy of it that an eventually consistent read may see
          bucket,      \* BOOKMARKS_BUCKET: the list stored under each version
          handler,     \* the local state of each invocation
          now,         \* the clock
          lostUpdate   \* history: an item was written over one the writer never saw

apiVars == <<record, replica, bucket, handler, now, lostUpdate>>

Phases  == {"idle", "getItem", "getObject", "putObject", "commit",
            "deleteObject", "done"}
Answers == {"none", "ok", "badRequest", "forbidden", "notFound", "error"}

\* seen is the struct GetBookmarkByUser returned (NoRecord for nil), body the
\* list the handler writes or returns, wrote: a write of it reached a store.
HandlerStates == [op : Operations \union {"none"}, pc : Phases, arg : Lists,
                  seen : Records, body : Lists, answer : Answers,
                  wrote : BOOLEAN]

Idle == [op |-> "none", pc |-> "idle", arg |-> {}, seen |-> NoRecord,
         body |-> {}, answer |-> "none", wrote |-> FALSE]

-----------------------------------------------------------------------------
(* Steps shared by the handlers.                                           *)

At(h, phase, ops) == handler[h].pc = phase /\ handler[h].op \in ops

Goto(h, phase) == handler' = [handler EXCEPT ![h].pc = phase]

\* What the handler leaves behind when it answers.
Answered(s, answer, body, wrote) ==
    [s EXCEPT !.pc = "done", !.answer = answer, !.seen = NoRecord,
              !.body = body, !.wrote = wrote]

Finish(h, answer) ==
    handler' = [handler EXCEPT ![h] = Answered(@, answer, {}, @.wrote)]

\* What GetItem may return to GetBookmarkByUser; an error reads as no item.
Snapshots ==
    {updateDelayedDistributionToTimeout(r, now) :
        r \in {record}
              \union (IF "staleRead" \in Faults THEN {replica} ELSE {})}
    \union (IF "readError" \in Faults THEN {NoRecord} ELSE {})

\* The outcomes of a call that writes: it may have taken effect or not, and
\* the caller may be told of an error in both cases.
Outcomes == {[applied |-> TRUE, ok |-> TRUE]}
            \union (IF "writeError" \in Faults
                      THEN {[applied |-> TRUE, ok |-> FALSE],
                            [applied |-> FALSE, ok |-> FALSE]}
                      ELSE {})

\* The item is replaced by PutItem when the handler saw none, and updated
\* field by field when it saw one.
Stored(stored, seen, e) == IF Exists(seen) THEN Merge(stored, e) ELSE e

WriteRecord(seen, e, applied) ==
    IF applied
      THEN /\ record' = Stored(record, seen, e)
           /\ lostUpdate' = (lostUpdate \/ Rank(seen) # Rank(record))
      ELSE UNCHANGED <<record, lostUpdate>>

-----------------------------------------------------------------------------
(* A request arrives and is validated before anything is read.             *)

Malformed(op, arg) == op \in Operations \ {"get", "delete"} /\ ~(arg \subseteq ValidUrls)

\* The requests of an operation: a list, the URL of the path, or nothing.
Requests(op) == CASE op \in {"put", "post"}    -> Lists
                  [] op \in {"head", "remove"} -> {{u} : u \in Urls}
                  [] OTHER                     -> {{}}

Receive(h) ==
    /\ handler[h].pc = "idle"
    /\ \E op \in Serves[h] : \E arg \in Requests(op) :
          LET request == [Idle EXCEPT !.op = op, !.arg = arg, !.pc = "getItem"]
          IN  handler' = [handler EXCEPT ![h] =
                 IF Malformed(op, arg)
                   THEN Answered(request, "badRequest", {}, FALSE)
                   ELSE request]
    /\ UNCHANGED <<record, replica, bucket, now, lostUpdate>>

\* The response leaves and the invocation can take another request.
Reply(h) ==
    /\ handler[h].pc = "done"
    /\ handler' = [handler EXCEPT ![h] = Idle]
    /\ UNCHANGED <<record, replica, bucket, now, lostUpdate>>

-----------------------------------------------------------------------------
(* GetBookmarkByUser and the checks that follow it in each handler.        *)

Load(h, r, phase, body) ==
    handler' = [handler EXCEPT ![h].seen = r, ![h].pc = phase, ![h].body = body]

PutBookmarks(h, r) ==
    IF IsDistributionPending(r) THEN Finish(h, "forbidden")
                                ELSE Load(h, r, "putObject", handler[h].arg)

PostBookmarks(h, r) ==
    IF IsDistributionPending(r) THEN Finish(h, "forbidden")
    ELSE IF Live(r) THEN Load(h, r, "getObject", {})
                    ELSE Load(h, r, "putObject", handler[h].arg)

DeleteBookmarks(h, r) ==
    IF IsDistributionPending(r) \/ ~Live(r) THEN Finish(h, "forbidden")
                                            ELSE Load(h, r, "commit", {})

\* FindAndDeleteBookmarkEntry does not look at the status of a distribution.
FindAndDeleteBookmarkEntry(h, r) ==
    IF Live(r) THEN Load(h, r, "getObject", {}) ELSE Finish(h, "notFound")

GetBookmarksS3Object(h, r) ==
    IF Live(r) THEN Load(h, r, "getObject", {}) ELSE Finish(h, "notFound")

GetItem(h) ==
    /\ \E r \in Snapshots :
          \/ At(h, "getItem", {"put"})    /\ PutBookmarks(h, r)
          \/ At(h, "getItem", {"post"})   /\ PostBookmarks(h, r)
          \/ At(h, "getItem", {"delete"}) /\ DeleteBookmarks(h, r)
          \/ At(h, "getItem", {"remove"}) /\ FindAndDeleteBookmarkEntry(h, r)
          \/ At(h, "getItem", Reads)      /\ GetBookmarksS3Object(h, r)
    /\ UNCHANGED <<record, replica, bucket, now, lostUpdate>>

-----------------------------------------------------------------------------
(* The list of the version that was seen is read.                          *)

\* GetBookmarks, for a page that holds the whole list.  It answers 404 for a
\* page past the end, which the first page of an empty list already is.
GetBookmarks(h, list) ==
    IF list = {} THEN Finish(h, "notFound")
    ELSE handler' = [handler EXCEPT ![h] = Answered(@, "ok", list, FALSE)]

FindBookmarkEntry(h, list) ==
    Finish(h, IF handler[h].arg \subseteq list THEN "ok" ELSE "notFound")

\* Mutant: POST replaces the list.
newBookmarksOnly(h, list) ==
    handler' = [handler EXCEPT ![h].pc = "putObject", ![h].body = handler[h].arg]

getExistingBookmarks(h, list) ==
    handler' = [handler EXCEPT ![h].pc = "putObject", ![h].body = list \union handler[h].arg]

deleteMatchingBookmarks(h, list) ==
    handler' = [handler EXCEPT ![h].pc = "putObject", ![h].body = list \ handler[h].arg]

GetObject(h) ==
    /\ At(h, "getObject", Operations)
    /\ LET list == bucket[handler[h].seen.version]
       IN  /\ list # NoObject
           /\ \/ At(h, "getObject", {"get"})    /\ GetBookmarks(h, list)
              \/ At(h, "getObject", {"head"})   /\ FindBookmarkEntry(h, list)
              \/ At(h, "getObject", {"post"})   /\ getExistingBookmarks(h, list)
              \/ At(h, "getObject", {"remove"}) /\ deleteMatchingBookmarks(h, list)
    /\ UNCHANGED <<record, replica, bucket, now, lostUpdate>>

\* The object is gone, or the call fails: 500 for POST, 404 for the others.
GetObjectFails(h) ==
    /\ At(h, "getObject", Operations)
    /\ \/ bucket[handler[h].seen.version] = NoObject
       \/ "readError" \in Faults
    /\ Finish(h, IF handler[h].op = "post" THEN "error" ELSE "notFound")
    /\ UNCHANGED <<record, replica, bucket, now, lostUpdate>>

-----------------------------------------------------------------------------
(* AddBookmarksInS3Bucket: the list under the next version, the item, and  *)
(* the removal of the list that the handler saw.                           *)

\* Mutant: the item is updated although PutObject returned an error.
AfterPutIgnoringError(s, ok) == [s EXCEPT !.pc = "commit"]

AfterPut(s, ok) == IF ok THEN [s EXCEPT !.pc = "commit"]
                         ELSE Answered(s, "error", {}, s.wrote)

PutObject(h) ==
    /\ At(h, "putObject", Puts)
    /\ LET v == GetIncrementedVersion(handler[h].seen)
       IN  /\ v \in Versions
           /\ \E o \in Outcomes :
                /\ bucket' = IF o.applied THEN [bucket EXCEPT ![v] = handler[h].body]
                                          ELSE bucket
                /\ handler' = [handler EXCEPT ![h] =
                                  AfterPut([@ EXCEPT !.wrote = o.applied], o.ok)]
    /\ UNCHANGED <<record, replica, now, lostUpdate>>

\* Bound: the error path of GetIncrementedVersion, taken where MaxVersion leaves
\* no next version.  strconv.Atoi has room for 2^63 of them.
VersionFails(h) ==
    /\ At(h, "putObject", Puts)
    /\ GetIncrementedVersion(handler[h].seen) \notin Versions
    /\ Finish(h, "error")
    /\ UNCHANGED <<record, replica, bucket, now, lostUpdate>>

\* AddOrUpdateUserBookmarks, after PutObject or for DeleteBookmarks.
NextItem(h) ==
    LET seen == handler[h].seen
    IN  IF handler[h].op = "delete"
          THEN WithDeletedSuffix(seen)
          ELSE WithVersion(seen, GetIncrementedVersion(seen))

\* Mutant: the list that was replaced is not deleted.
AfterCommitKeepingPrevious(s, ok) ==
    Answered(s, IF ok THEN "ok" ELSE "error", {}, s.wrote)

AfterCommit(s, ok) ==
    IF ok /\ Live(s.seen) THEN [s EXCEPT !.pc = "deleteObject"]
    ELSE Answered(s, IF ok THEN "ok" ELSE "error", {}, s.wrote)

Commit(h) ==
    /\ At(h, "commit", Puts \union {"delete"})
    /\ \E o \in Outcomes :
          /\ WriteRecord(handler[h].seen, NextItem(h), o.applied)
          /\ handler' = [handler EXCEPT ![h] =
                AfterCommit([@ EXCEPT !.wrote = handler[h].wrote \/ o.applied], o.ok)]
    /\ UNCHANGED <<replica, bucket, now>>

\* Mutants: the path is taken from the struct after it was given the new
\* version; a list that cannot be deleted is answered with 404.
NewVersion(seen) == GetIncrementedVersion(seen)
AfterDeleteOrNotFound(s, ok) ==
    Answered(s, IF ok THEN "ok" ELSE "notFound", {}, s.wrote)

\* The version of the list that the handler saw and that it removes at its end.
previousVersion(seen) == seen.version

AfterDelete(s, ok) == Answered(s, IF ok THEN "ok" ELSE "error", {}, s.wrote)

DeleteObject(h) ==
    /\ At(h, "deleteObject", Puts \union {"delete"})
    /\ \E o \in Outcomes :
          /\ bucket' = IF o.applied
                         THEN [bucket EXCEPT ![previousVersion(handler[h].seen)] = NoObject]
                         ELSE bucket
          /\ handler' = [handler EXCEPT ![h] = AfterDelete(@, o.ok)]
    /\ UNCHANGED <<record, replica, now, lostUpdate>>

-----------------------------------------------------------------------------
(* Failures and the environment.                                           *)

\* A client for DynamoDB or S3 cannot be built, or the list is not JSON.
ClientFails(h) ==
    /\ "clientError" \in Faults
    /\ \/ At(h, "getItem", Operations) \/ At(h, "getObject", Operations)
       \/ At(h, "putObject", Puts)     \/ At(h, "commit", {"delete"})
    /\ Finish(h, "error")
    /\ UNCHANGED <<record, replica, bucket, now, lostUpdate>>

\* The invocation reaches the Lambda's timeout or dies: its caller gets 5xx.
Kill(h) ==
    /\ "kill" \in Faults
    /\ handler[h].pc \notin {"idle", "done"}
    /\ Finish(h, "error")
    /\ UNCHANGED <<record, replica, bucket, now, lostUpdate>>

\* DynamoDB: the copy that eventually consistent reads use catches up.  It
\* matters only where a read may see it.
Replicate ==
    /\ "staleRead" \in Faults
    /\ replica # record
    /\ replica' = record
    /\ UNCHANGED <<record, bucket, handler, now, lostUpdate>>

Tick ==
    /\ now < MaxTime
    /\ now' = now + 1
    /\ UNCHANGED <<record, replica, bucket, handler, lostUpdate>>

-----------------------------------------------------------------------------
InitLocal ==
    /\ replica = record
    /\ handler = [h \in Handlers |-> Idle]
    /\ now = 1
    /\ lostUpdate = FALSE

\* A user without bookmarks.
InitEmpty ==
    /\ record = NoRecord
    /\ bucket = [v \in Versions |-> NoObject]
    /\ InitLocal

\* Such a user, or one with a first list that was distributed at the time 1,
\* whether the distribution has ended or not.
Init ==
    \/ InitEmpty
    \/ /\ \E status \in {"Pending", "Success"}, list \in SUBSET ValidUrls :
             /\ record = [version |-> 1, deleted |-> FALSE, status |-> status,
                          startTs |-> 1, ended |-> (status = "Success"), modified |-> FALSE]
             /\ bucket = [v \in Versions |-> IF v = 1 THEN list ELSE NoObject]
       /\ InitLocal

Step(h) == \/ Receive(h)   \/ Reply(h)          \/ GetItem(h)
           \/ GetObject(h) \/ GetObjectFails(h) \/ PutObject(h)
           \/ Commit(h)    \/ DeleteObject(h)   \/ ClientFails(h)
           \/ Kill(h)      \/ VersionFails(h)

Next == (\E h \in Handlers : Step(h)) \/ Replicate \/ Tick

Spec == Init /\ [][Next]_apiVars

-----------------------------------------------------------------------------
TypeOK ==
    /\ record \in Records
    /\ replica \in Records
    /\ bucket \in [Versions -> {NoObject} \union Lists]
    /\ handler \in [Handlers -> HandlerStates]
    /\ now \in Times
    /\ lostUpdate \in BOOLEAN

\* The item names an object that exists.
Backed == Live(record) => bucket[record.version] # NoObject

\* Whatever calls interleave, fail, are killed or read a stale item, the item
\* keeps naming a stored list, until some handler writes it over an item that
\* the handler never saw: the order PutObject, update, DeleteObject of
\* AddBookmarksInS3Bucket and DeleteBookmarks.
BackedUnlessLostUpdate == ~lostUpdate => Backed

\* A version that was deleted or followed never comes back, except by such a
\* write: the version counter goes on after "_DELETED".
NeverRollsBack == [][Rank(record') < Rank(record) => lostUpdate']_apiVars

\* A request that was refused with 400, 403 or 404 has changed nothing.
RefusedLeavesNoTrace ==
    \A h \in Handlers :
        handler[h].answer \in {"badRequest", "forbidden", "notFound"} => ~handler[h].wrote

\* When no request is running, no object is stored but the one the item names:
\* a list is left behind only by a fault or by a lost update.
NothingLeftBehind ==
    (Faults \subseteq {"staleRead", "clientError"} /\ ~lostUpdate
        /\ \A h \in Handlers : handler[h].pc \in {"idle", "done"})
      => \A v \in Versions :
            bucket[v] # NoObject => (Live(record) /\ record.version = v)

-----------------------------------------------------------------------------
(* The inductive invariant behind the properties above.                    *)

\* A handler that goes on after GetItem carries what it needs.
Carries(s) ==
    /\ s.pc = "idle" => s = Idle
    /\ s.pc = "done" => s.seen = NoRecord
    /\ s.pc = "commit" /\ s.op \in Puts => GetIncrementedVersion(s.seen) \in Versions
    /\ s.pc = "commit" /\ s.op \notin Puts => Live(s.seen)
    /\ s.pc \in {"getObject", "deleteObject"} => Live(s.seen)

PhaseOK == \A h \in Handlers : Carries(handler[h])

\* Nobody holds an item younger than the one in the table.
NothingFromTheFuture ==
    /\ Rank(replica) <= Rank(record)
    /\ \A h \in Handlers : Rank(handler[h].seen) <= Rank(record)

\* The list that the next item would name has been stored.
NextListStored ==
    \A h \in Handlers :
        LET s == handler[h]
        IN  (s.pc = "commit" /\ s.op \in Puts /\ Rank(s.seen) = Rank(record))
              => bucket[GetIncrementedVersion(s.seen)] # NoObject

\* The list about to be deleted belongs to an item that was followed.
DeletesOnlyThePast ==
    \A h \in Handlers :
        handler[h].pc = "deleteObject" => Rank(record) > 2 * handler[h].seen.version

Consistent == /\ Backed
              /\ NothingFromTheFuture
              /\ NextListStored
              /\ DeletesOnlyThePast

IndInv == TypeOK /\ PhaseOK /\ (~lostUpdate => Consistent)
=============================================================================
