-------------------------- MODULE DistributionApi --------------------------
(***************************************************************************)
(* The distribution of a user's bookmarks, beside the bookmark routes.     *)
(* POST /bookmarks/summary packages the list and starts one execution of   *)
(* the step function per device; GET /bookmarks/pages reports the devices  *)
(* and times out those that take too long.  Their invocations share the    *)
(* user's item, its lists and the clock with the handlers of BookmarkApi.  *)
(* The lambdas that the step function runs are not in the repository: what *)
(* they report is external.                                                *)
(***************************************************************************)
EXTENDS BookmarkApi

CONSTANTS Distributors,   \* concurrent invocations of these two routes
          Routes,         \* Routes[d]: "distribute" and "status" requests reach d
          Devices,        \* the devices a user may own
          MaxRepeat,      \* bound: how often a request names one device
          LastRequest     \* bound: no distribution starts after this time, which
                          \* leaves the clock room to run out its delay

ASSUME DistributionAssumption == /\ Routes \in [Distributors -> SUBSET {"distribute", "status"}]
                                 /\ MaxRepeat \in Nat \ {0}
                                 /\ LastRequest \in 1 .. MaxTime

VARIABLES summary,      \* BOOKMARKS_SUMMARY_BUCKET: the package of each version
          devices,      \* bookmark_distribution: the row of each device
          executions,   \* the inputs of the executions started so far
          job           \* the local state of each distributor

distVars == <<summary, devices, executions, job>>
vars == <<apiVars, distVars>>

DeviceStatuses == {"Pending", "Success", "Failed", "Timeout"}
NoRow == [status |-> NoStatus, startTs |-> ZeroTime, ended |-> FALSE]
Rows  == [status : DeviceStatuses \union {NoStatus}, startTs : Times, ended : BOOLEAN]

\* DownloadBookmarksInput, with the list for its checksum and URL.
Inputs == [device : Devices, version : Versions, deleted : BOOLEAN,
           list : {NoObject} \union Lists]

Counts == [Devices -> 0 .. MaxRepeat]
NoDevices == [dev \in Devices |-> 0]

JobPhases == {"idle", "getItem", "getDevices", "lock", "getObject", "putPackage",
              "addJobs", "addRecord", "startExecution", "final", "fail", "query",
              "rows", "expire", "done"}

\* bodyless is an error of BindJSON; todo counts the devices left in the loop,
\* device is the one in hand; start is currentTime of addDistributionJobs; rows is
\* the result of the query and expired is shouldUpdateDistribution.
Jobs == [op : {"none", "distribute", "status"}, pc : JobPhases,
         bodyless : BOOLEAN, todo : Counts,
         device : Devices \union {"none"}, seen : Records,
         list : {NoObject} \union Lists, start : Times, rows : [Devices -> Rows],
         expired : BOOLEAN, answer : Answers]

NoRows == [dev \in Devices |-> NoRow]
IdleJob == [op |-> "none", pc |-> "idle", bodyless |-> FALSE, todo |-> NoDevices,
            device |-> "none", seen |-> NoRecord, list |-> NoObject, start |-> ZeroTime,
            rows |-> NoRows, expired |-> FALSE, answer |-> "none"]

-----------------------------------------------------------------------------
JobAt(d, phase) == job[d].pc = phase

Enter(d, phase) == job' = [job EXCEPT ![d].pc = phase]

\* BindJSON has already sent 400 when there is no JSON body, and the handler goes
\* on: no later answer replaces that one.
Sent(s, answer) == IF s.bodyless THEN "badRequest" ELSE answer

Done(s, answer) == [IdleJob EXCEPT !.op = s.op, !.pc = "done", !.answer = Sent(s, answer)]

FinishJob(d, answer) == job' = [job EXCEPT ![d] = Done(@, answer)]

\* A request of POST names devices, possibly repeated, or none for all of them; one
\* without a body names none.  Each device is taken up in the order of the request,
\* which is the client's: the loop may take up any.
ReceiveJob(d) ==
    /\ JobAt(d, "idle")
    /\ \/ /\ "distribute" \in Routes[d]
          /\ \E request \in Counts, bodyless \in BOOLEAN :
                /\ bodyless => request = NoDevices
                /\ job' = [job EXCEPT ![d] = [IdleJob EXCEPT !.op = "distribute",
                              !.pc = "getItem", !.todo = request, !.bodyless = bodyless]]
       \/ /\ "status" \in Routes[d]
          /\ job' = [job EXCEPT ![d] = [IdleJob EXCEPT !.op = "status", !.pc = "getItem"]]
    /\ UNCHANGED <<apiVars, summary, devices, executions>>

ReplyJob(d) ==
    /\ JobAt(d, "done")
    /\ job' = [job EXCEPT ![d] = IdleJob]
    /\ UNCHANGED <<apiVars, summary, devices, executions>>

-----------------------------------------------------------------------------
(* DistributeBookmarks.                                                    *)

validateDistribution(d, r) ==
    IF ~Exists(r) \/ IsDistributionPending(r)
      THEN FinishJob(d, "forbidden")
      ELSE job' = [job EXCEPT ![d].seen = r, ![d].pc = "getDevices"]

GetItemForDistribute(d) ==
    /\ JobAt(d, "getItem") /\ job[d].op = "distribute"
    /\ \E r \in Snapshots : validateDistribution(d, r)
    /\ UNCHANGED <<apiVars, summary, devices, executions>>

\* The external service names the devices the user owns now; 400 when there
\* are none or the request names another one.
validateDevices(d) ==
    /\ JobAt(d, "getDevices")
    /\ \E owned \in SUBSET Devices :
          LET named == {dev \in Devices : job[d].todo[dev] > 0}
          IN  IF owned = {} \/ ~(named \subseteq owned)
                THEN FinishJob(d, "badRequest")
                ELSE job' = [job EXCEPT ![d].pc = "lock", ![d].todo =
                        IF named # {} THEN @
                        ELSE [dev \in Devices |-> IF dev \in owned THEN 1 ELSE 0]]
    /\ UNCHANGED <<apiVars, summary, devices, executions>>

\* Mutant: the status is stored as well.
StatusUpdateStored(seen, status) ==
    IF status \in {"BookmarksLocked", "Pending"}
      THEN [seen EXCEPT !.status = status, !.startTs = now]
      ELSE [seen EXCEPT !.status = status, !.ended = TRUE]

\* What updateDistributionStatus changes in the struct: the status it is given
\* only chooses the timestamp.
StatusUpdate(seen, status) ==
    IF status \in {"BookmarksLocked", "Pending"}
      THEN [seen EXCEPT !.startTs = now]
      ELSE [seen EXCEPT !.ended = TRUE]

\* Mutant: the test for the suffix of a deleted version is inverted.
AfterLockInverted(s) == [s EXCEPT !.pc = IF s.seen.deleted THEN "getObject" ELSE "addJobs"]

\* There is nothing to package after a deletion.
AfterLock(s) == [s EXCEPT !.pc = IF s.seen.deleted THEN "addJobs" ELSE "getObject"]

Lock(d) ==
    /\ JobAt(d, "lock")
    /\ \E o \in Outcomes :
          LET locked == StatusUpdate(job[d].seen, "BookmarksLocked")
          IN  /\ WriteRecord(locked, locked, o.applied)
              /\ job' = [job EXCEPT ![d] =
                    IF o.ok THEN AfterLock([@ EXCEPT !.seen = locked])
                            ELSE Done(@, "error")]
    /\ UNCHANGED <<replica, bucket, handler, now, summary, devices, executions>>

\* getBookmarksAndCreatePackage reads the list of the version it saw ...
GetObjectForPackage(d) ==
    /\ JobAt(d, "getObject")
    /\ bucket[job[d].seen.version] # NoObject
    /\ job' = [job EXCEPT ![d].list = bucket[job[d].seen.version], ![d].pc = "putPackage"]
    /\ UNCHANGED <<apiVars, summary, devices, executions>>

GetObjectForPackageFails(d) ==
    /\ JobAt(d, "getObject")
    /\ bucket[job[d].seen.version] = NoObject \/ "readError" \in Faults
    /\ Enter(d, "fail")
    /\ UNCHANGED <<apiVars, summary, devices, executions>>

\* Mutant: an error of PutObject is ignored.
AfterPackageIgnoringError(s, ok) == [s EXCEPT !.pc = "addJobs"]

AfterPackage(s, ok) == [s EXCEPT !.pc = IF ok THEN "addJobs" ELSE "fail"]

\* ... and stores the package under the same version; entries that are not
\* valid URLs are left out of it.
PutPackage(d) ==
    /\ JobAt(d, "putPackage")
    /\ \E o \in Outcomes :
          LET package == job[d].list \intersect ValidUrls
          IN  /\ summary' = IF o.applied
                              THEN [summary EXCEPT ![job[d].seen.version] = package]
                              ELSE summary
              /\ job' = [job EXCEPT ![d] = AfterPackage([@ EXCEPT !.list = package], o.ok)]
    /\ UNCHANGED <<apiVars, devices, executions>>

\* addDistributionJobs takes its currentTime before the first call.
addDistributionJobs(d) ==
    /\ JobAt(d, "addJobs")
    /\ now <= LastRequest
    /\ job' = [job EXCEPT ![d].start = now, ![d].pc = "addRecord"]
    /\ UNCHANGED <<apiVars, summary, devices, executions>>

PendingRow(start) == [status |-> "Pending", startTs |-> start, ended |-> FALSE]

\* Mutant: the execution is started although the row could not be added.
AfterRowIgnoringError(s, dev, ok) == [s EXCEPT !.device = dev, !.pc = "startExecution"]

AfterRow(s, dev, ok) == IF ok THEN [s EXCEPT !.device = dev, !.pc = "startExecution"]
                              ELSE [s EXCEPT !.pc = "fail"]

AddDeviceRecord(d) ==
    /\ JobAt(d, "addRecord")
    /\ \E dev \in Devices, o \in Outcomes :
          /\ job[d].todo[dev] > 0
          /\ devices' = IF o.applied
                          THEN [devices EXCEPT ![dev] = PendingRow(job[d].start)]
                          ELSE devices
          /\ job' = [job EXCEPT ![d] = AfterRow(@, dev, o.ok)]
    /\ UNCHANGED <<apiVars, summary, executions>>

InputOf(s) == [device |-> s.device, version |-> s.seen.version,
               deleted |-> s.seen.deleted, list |-> s.list]

StartExecution(d) ==
    /\ JobAt(d, "startExecution")
    /\ \E o \in Outcomes :
          LET left == [job[d].todo EXCEPT ![job[d].device] = @ - 1]
          IN  /\ executions' = IF o.applied THEN executions \union {InputOf(job[d])}
                                            ELSE executions
              /\ job' = [job EXCEPT ![d] =
                    IF ~o.ok THEN [@ EXCEPT !.pc = "fail"]
                    ELSE [@ EXCEPT !.todo = left, !.device = "none",
                             !.pc = IF left = NoDevices THEN "final" ELSE "addRecord"]]
    /\ UNCHANGED <<apiVars, summary, devices>>

\* Mutant: only the fields of the distribution are written, to the item as it is by
\* now, so that a PUT in between is not undone but its list passes for distributed.
DistributedFieldsOnly(s) == [record EXCEPT !.status = "Pending", !.startTs = s.start,
                                           !.ended = FALSE, !.modified = FALSE]

\* The end of addDistributionJobs: the item becomes Pending.
Distributed(s) == [s.seen EXCEPT !.status = "Pending", !.startTs = s.start,
                                 !.ended = FALSE, !.modified = FALSE]

EndJobs(d) ==
    /\ JobAt(d, "final")
    /\ \E o \in Outcomes :
          LET s == [job[d] EXCEPT !.seen = Distributed(job[d])]
          IN  /\ WriteRecord(s.seen, s.seen, o.applied)
              /\ job' = [job EXCEPT ![d] = IF o.ok THEN Done(s, "ok")
                                                   ELSE [s EXCEPT !.pc = "fail"]]
    /\ UNCHANGED <<replica, bucket, handler, now, summary, devices, executions>>

\* The 500 is prepared, then the item is updated; a failure of that is ignored.
FailJob(d) ==
    /\ JobAt(d, "fail")
    /\ \E o \in Outcomes :
          LET failed == StatusUpdate(job[d].seen, "Failed")
          IN  WriteRecord(failed, failed, o.applied)
    /\ FinishJob(d, "error")
    /\ UNCHANGED <<replica, bucket, handler, now, summary, devices, executions>>

-----------------------------------------------------------------------------
(* GetDistributedBookmarks.                                                *)

GetItemForStatus(d) ==
    /\ JobAt(d, "getItem") /\ job[d].op = "status"
    /\ \E r \in Snapshots :
          IF Exists(r) THEN job' = [job EXCEPT ![d].seen = r, ![d].pc = "query"]
                       ELSE FinishJob(d, "notFound")
    /\ UNCHANGED <<apiVars, summary, devices, executions>>

\* The query of the rows is strongly consistent.
QueryDevices(d) ==
    /\ JobAt(d, "query")
    /\ \/ /\ devices = NoRows
          /\ FinishJob(d, "notFound")
       \/ /\ devices # NoRows
          /\ job' = [job EXCEPT ![d].pc = "rows", ![d].rows = devices, ![d].todo =
                [dev \in Devices |-> IF devices[dev] # NoRow THEN 1 ELSE 0]]
       \/ /\ "readError" \in Faults
          /\ FinishJob(d, "error")
    /\ UNCHANGED <<apiVars, summary, devices, executions>>

\* Mutant: a row counts as delayed only when it has an end.
DelayedIfEnded(row) ==
    row.status = "Pending" /\ row.ended /\ now - row.startTs > DelayedStatusTime

Delayed(row) == row.status = "Pending" /\ now - row.startTs > DelayedStatusTime

TimeoutRow(row) == [row EXCEPT !.status = "Timeout", !.ended = TRUE]

\* One row of the loop: a delayed one is written back as it was read, with its
\* new status.  An error skips the row.
updateDelayedApplainceDistributionToTimeout(d) ==
    /\ JobAt(d, "rows")
    /\ \E dev \in Devices :
          LET row == job[d].rows[dev]
              next(expired) ==
                LET left == [job[d].todo EXCEPT ![dev] = 0]
                IN  [job EXCEPT ![d].todo = left, ![d].expired = @ \/ expired,
                                ![d].rows[dev] = NoRow,
                                ![d].pc = IF left = NoDevices THEN "expire" ELSE "rows"]
          IN  /\ job[d].todo[dev] > 0
              /\ \/ /\ ~Delayed(row)
                    /\ UNCHANGED devices
                    /\ job' = next(FALSE)
                 \/ /\ Delayed(row)
                    /\ \E o \in Outcomes :
                          /\ devices' = IF o.applied
                                          THEN [devices EXCEPT ![dev] = TimeoutRow(row)]
                                          ELSE devices
                          /\ job' = next(o.ok)
    /\ UNCHANGED <<apiVars, summary, executions>>

\* The user's item follows when a row was timed out and so was what it saw of
\* the item; an error is only logged.
ExpireDistribution(d) ==
    /\ JobAt(d, "expire")
    /\ IF job[d].expired /\ job[d].seen.status = "Timeout"
         THEN \E o \in Outcomes : WriteRecord(job[d].seen, job[d].seen, o.applied)
         ELSE UNCHANGED <<record, lostUpdate>>
    /\ FinishJob(d, "ok")
    /\ UNCHANGED <<replica, bucket, handler, now, summary, devices, executions>>

-----------------------------------------------------------------------------
(* Failures and the environment.                                           *)

\* A client cannot be built or the device service fails: 500 before the lock;
\* after it, the item is updated as failed.
JobClientFails(d) ==
    /\ "clientError" \in Faults
    /\ \/ /\ job[d].pc \in {"getItem", "getDevices", "lock"}
          /\ FinishJob(d, "error")
       \/ /\ job[d].pc \in {"putPackage", "addJobs"}
          /\ Enter(d, "fail")
    /\ UNCHANGED <<apiVars, summary, devices, executions>>

KillJob(d) ==
    /\ "kill" \in Faults
    /\ job[d].pc \notin {"idle", "done"}
    /\ job' = [job EXCEPT ![d] = Done([@ EXCEPT !.bodyless = FALSE], "error")]
    /\ UNCHANGED <<apiVars, summary, devices, executions>>

\* External: an execution reports the result of a device.
DeviceReports(dev) ==
    /\ devices[dev].status \in {"Pending", "Timeout"}
    /\ \E e \in executions : e.device = dev
    /\ \E status \in {"Success", "Failed"} :
          devices' = [devices EXCEPT ![dev].status = status, ![dev].ended = TRUE]
    /\ UNCHANGED <<apiVars, summary, executions, job>>

\* External: the step function reports the end of a distribution.
DistributionEnds ==
    /\ record.status = "Pending"
    /\ \A dev \in Devices : devices[dev].status # "Pending"
    /\ \E status \in {"Success", "Failed"} :
          record' = [record EXCEPT !.status = status, !.ended = TRUE]
    /\ UNCHANGED <<replica, bucket, handler, now, lostUpdate, distVars>>

-----------------------------------------------------------------------------
InitDistributions ==
    /\ summary = [v \in Versions |-> NoObject]
    /\ devices = NoRows
    /\ executions = {}
    /\ job = [d \in Distributors |-> IdleJob]

DistInit == InitEmpty /\ InitDistributions

\* The user's first list is stored already.
DistInitStored ==
    /\ record = WithVersion(NoRecord, 1)
    /\ \E list \in SUBSET ValidUrls :
          bucket = [v \in Versions |-> IF v = 1 THEN list ELSE NoObject]
    /\ InitLocal
    /\ InitDistributions

JobStep(d) ==
    \/ ReceiveJob(d)          \/ ReplyJob(d)       \/ GetItemForDistribute(d)
    \/ validateDevices(d)     \/ Lock(d)           \/ GetObjectForPackage(d)
    \/ GetObjectForPackageFails(d)                 \/ PutPackage(d)
    \/ addDistributionJobs(d)
    \/ AddDeviceRecord(d)     \/ StartExecution(d) \/ EndJobs(d)
    \/ FailJob(d)             \/ GetItemForStatus(d) \/ QueryDevices(d)
    \/ updateDelayedApplainceDistributionToTimeout(d)
    \/ ExpireDistribution(d)  \/ JobClientFails(d) \/ KillJob(d)

DistNext ==
    \/ Next /\ UNCHANGED distVars
    \/ \E d \in Distributors : JobStep(d)
    \/ \E dev \in Devices : DeviceReports(dev)
    \/ DistributionEnds

DistSpec == DistInit /\ [][DistNext]_vars

\* Time goes on; nothing is assumed of the invocations, which may be killed.
FairDistSpec ==
    /\ DistInit \/ DistInitStored
    /\ [][DistNext]_vars
    /\ WF_vars(Tick /\ UNCHANGED distVars)

-----------------------------------------------------------------------------
DistTypeOK ==
    /\ TypeOK
    /\ summary \in [Versions -> {NoObject} \union Lists]
    /\ devices \in [Devices -> Rows]
    /\ executions \subseteq Inputs
    /\ job \in [Distributors -> Jobs]

\* An execution never starts before what it works on is there: the row of its
\* device, and the package of its version when it has a list to download.
ExecutionHasItsInputs ==
    \A e \in executions :
        /\ devices[e.device] # NoRow
        /\ ~e.deleted => summary[e.version] # NoObject

\* modifiedBookmarks is cleared only for what was distributed: while it is
\* FALSE, the package of the item's version holds the list the user has, and
\* an execution was given that version.  PUT sets the flag, and the last update
\* of addDistributionJobs clears it several calls after the list was read.
\* It is a property of one writer whose reads are fresh and do not fail: any
\* other writer may store its list under a version that was distributed.
UnmodifiedMeansDistributed ==
    (Exists(record) /\ ~record.modified /\ ~lostUpdate) =>
        /\ Live(record) => summary[record.version] = bucket[record.version]
        /\ \E e \in executions :
              e.version = record.version /\ e.deleted = record.deleted

\* A hypothesis of the next property.
OneDistributor == \A c, d \in Distributors : c = d

\* The same without regard to lost updates, for one distribution at a time beside
\* one writer: also when its last update undoes a PUT, so that the item names an
\* older list, or one that is gone, the flag is clear only for a list that was
\* packaged.
ClearedListWasPackaged ==
    (Exists(record) /\ ~record.modified) =>
        /\ Live(record) => /\ summary[record.version] # NoObject
                           /\ bucket[record.version] \in {NoObject, summary[record.version]}
        /\ \E e \in executions :
              e.version = record.version /\ e.deleted = record.deleted

\* What a request that arrives now sees of the item.
CurrentItem == updateDelayedDistributionToTimeout(record, now)

\* However a distribution ends, killed or half failed, the user's writes are
\* not refused for ever: the status that blocks them expires.
BlockExpires == []<>~IsDistributionPending(CurrentItem)

StatusAnswered == \E d \in Distributors :
    JobAt(d, "done") /\ job[d].op = "status" /\ job[d].answer = "ok"

\* A device that never reports does not stay Pending for ever.  A new distribution
\* gives it a fresh row, and so does one that fails at StartExecution: a user who
\* starts them again and again before the delay has run out keeps the row Pending.
\* But a row whose time has run out for good is timed out, once GET /bookmarks/pages
\* is answered again and again: also when an invocation dies between two rows, and
\* when a fresh row was replaced by the time-out of the one before it.
DevicesExpire ==
    ([]<>StatusAnswered /\ []<>~StatusAnswered) =>
        \A dev \in Devices :
            <>[](now - devices[dev].startTs > DelayedStatusTime)
                => []<>(devices[dev].status # "Pending")

\* The tests expect 403 for a write while a distribution is pending: the
\* version does not move under a pending distribution.
NoWriteWhilePending ==
    [][record'.version # record.version => ~IsDistributionPending(CurrentItem)]_vars

\* UpdateRecordsByKey is documented to store the values of the entity's fields,
\* and a new distribution clears EndTimestamp: a pending one has not ended.
PendingHasNotEnded == record.status = "Pending" => ~record.ended
=============================================================================
