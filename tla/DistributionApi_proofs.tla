----------------------- MODULE DistributionApi_proofs -----------------------
(***************************************************************************)
(* Theorems about DistributionApi, for every set of invocations, devices,  *)
(* URLs and faults, and every bound.  The invariant of the bookmark routes *)
(* is carried over the steps of the distribution; beside it stands what a  *)
(* distributor knows at each of its steps.                                 *)
(***************************************************************************)
EXTENDS DistributionApi, BookmarkApi_proofs

-----------------------------------------------------------------------------
(* The inductive invariant.                                                *)

AfterGetItem == JobPhases \ {"idle", "getItem", "done"}

\* What an execution was started with is there: the row of its device among the
\* rows r, and its package, unless it has none to download, among the packages p.
Fed(e, r, p) ==
    /\ r[e.device] # NoRow
    /\ ~e.deleted => p[e.version] # NoObject

\* What a distributor in the state s can rely on when it goes on.
Ready(s, r, p) ==
    /\ s.pc \in AfterGetItem => Exists(s.seen)
    /\ s.pc = "putPackage" => s.list \in Lists
    /\ s.pc \in {"addJobs", "addRecord", "startExecution"} /\ ~s.seen.deleted
          => p[s.seen.version] # NoObject
    /\ s.pc = "startExecution" => /\ s.device \in Devices
                                  /\ s.todo[s.device] > 0
                                  /\ r[s.device] # NoRow

StorePart == /\ summary \in [Versions -> {NoObject} \union Lists]
             /\ devices \in [Devices -> Rows]
             /\ executions \subseteq Inputs

JobPart == /\ job \in [Distributors -> Jobs]
           /\ \A d \in Distributors : Ready(job[d], devices, summary)

FedPart == \A e \in executions : Fed(e, devices, summary)

DistInv == IndInv /\ StorePart /\ JobPart /\ FedPart

-----------------------------------------------------------------------------
(* The bookmark routes and the item.                                       *)

\* An item of the same version takes the place of the one in the table: what the
\* bookmark routes rely on is the version and the deletion alone.
LEMMA SameVersionKeeps ==
    ASSUME IndInv, record' \in Records, lostUpdate' \in BOOLEAN, lostUpdate => lostUpdate',
           ~lostUpdate' => Rank(record') = Rank(record),
           UNCHANGED <<replica, bucket, handler, now>>
    PROVE  IndInv'
  <1>1. TypeOK' /\ PhaseOK'
    BY DEF IndInv, TypeOK, PhaseOK, Carries
  <1>2. ASSUME ~lostUpdate' PROVE Consistent'
    <2>1. Consistent /\ record \in Records /\ Rank(record') = Rank(record)
      BY <1>2 DEF IndInv, TypeOK
    <2>2. record'.version = record.version /\ record'.deleted = record.deleted
      <3>1. /\ record.version \in Nat /\ record.deleted \in BOOLEAN
            /\ record'.version \in Nat /\ record'.deleted \in BOOLEAN
        BY <2>1 DEF Records, Versions
      <3>2. /\ Rank(record) = 2 * record.version + (IF record.deleted THEN 1 ELSE 0)
            /\ Rank(record)' = 2 * record'.version + (IF record'.deleted THEN 1 ELSE 0)
        BY DEF Rank
      <3> QED
        BY <2>1, <3>1, <3>2 DEF Rank
    <2> QED
      BY <2>1, <2>2 DEF Consistent, Backed, NothingFromTheFuture, NextListStored,
         DeletesOnlyThePast, Live, Exists, Rank, GetIncrementedVersion
  <1> QED
    BY <1>1, <1>2 DEF IndInv

\* A distributor writes the item with the version it saw.
LEMMA RewriteKeeps ==
    ASSUME IndInv, NEW seen \in Records, NEW e \in Records, NEW applied \in BOOLEAN,
           Rank(e) = Rank(seen), WriteRecord(seen, e, applied),
           UNCHANGED <<replica, bucket, handler, now>>
    PROVE  IndInv'
  <1>1. record \in Records /\ lostUpdate \in BOOLEAN
    BY DEF IndInv, TypeOK
  <1>2. CASE applied
    <2>1. record' = Stored(record, seen, e) /\ lostUpdate' = (lostUpdate \/ Rank(seen) # Rank(record))
      BY <1>2 DEF WriteRecord
    <2>2. record' \in Records /\ Rank(record') = Rank(e)
      BY <1>1, <2>1, StoredType
    <2>3. lostUpdate' \in BOOLEAN /\ (lostUpdate => lostUpdate')
      BY <2>1
    <2>4. ~lostUpdate' => Rank(record') = Rank(record)
      BY <2>1, <2>2
    <2> QED
      BY <2>2, <2>3, <2>4, SameVersionKeeps
  <1>3. CASE ~applied
    BY <1>1, <1>3, SameVersionKeeps DEF WriteRecord
  <1> QED
    BY <1>2, <1>3

-----------------------------------------------------------------------------
(* Steps of one distributor.                                               *)

LEMMA IdleJobType == IdleJob \in Jobs /\ IdleJob.pc = "idle"
  <1>1. NoRow \in Rows
    BY BoundsAssumption DEF NoRow, Rows, NoStatus, ZeroTime, Times
  <1>2. NoRows \in [Devices -> Rows] /\ NoDevices \in Counts
    BY <1>1, DistributionAssumption DEF NoRows, NoDevices, Counts
  <1>3. NoRecord \in Records /\ ZeroTime \in Times
    BY NoRecordType, BoundsAssumption DEF ZeroTime, Times
  <1> QED
    BY <1>2, <1>3 DEF IdleJob, Jobs, JobPhases, Answers

\* What a distributor leaves when it answers relies on nothing.
LEMMA DoneType ==
    ASSUME NEW s \in Jobs, NEW answer \in Answers, NEW r, NEW p
    PROVE  Done(s, answer) \in Jobs /\ Ready(Done(s, answer), r, p)
  <1> DEFINE t == Done(s, answer)
  <1>1. Sent(s, answer) \in Answers
    BY DEF Sent, Answers
  <1>2. t \in Jobs
    BY <1>1, IdleJobType DEF Done, Jobs, JobPhases
  <1>3. t.pc = "done"
    BY IdleJobType DEF Done, Jobs
  <1> QED
    BY <1>2, <1>3 DEF Ready, AfterGetItem

\* The rows and packages that are there stay there.
Kept == /\ \A dev \in Devices : devices[dev] # NoRow => devices'[dev] # NoRow
        /\ \A v \in Versions : summary[v] # NoObject => summary'[v] # NoObject

\* What a distributor relies on stays while rows and packages are kept.
LEMMA ReadyKept ==
    ASSUME NEW s \in Jobs, Ready(s, devices, summary), Kept
    PROVE  Ready(s, devices', summary')
  <1>1. s.pc \in {"addJobs", "addRecord", "startExecution"} => s.seen.version \in Versions
    BY DEF Ready, AfterGetItem, JobPhases, Exists, Jobs, Records
  <1> QED
    BY <1>1 DEF Ready, Kept

LEMMA FedKept ==
    ASSUME NEW e \in Inputs, Fed(e, devices, summary), Kept
    PROVE  Fed(e, devices', summary')
  BY DEF Fed, Kept, Inputs

\* One distributor moves to the state s, whatever it writes.
LEMMA JobMoves ==
    ASSUME DistInv, NEW d \in Distributors, NEW s, s \in Jobs, Ready(s, devices', summary'),
           job' = [job EXCEPT ![d] = s],
           IndInv', StorePart', Kept,
           \A e \in executions' : e \in executions \/ Fed(e, devices', summary')
    PROVE  DistInv'
  <1>1. job' \in [Distributors -> Jobs]
    BY DEF DistInv, JobPart
  <1>2. ASSUME NEW g \in Distributors PROVE Ready(job'[g], devices', summary')
    <2>1. job[g] \in Jobs /\ Ready(job[g], devices, summary)
      BY DEF DistInv, JobPart
    <2>2. Ready(job[g], devices', summary')
      BY <2>1, ReadyKept
    <2> QED
      BY <2>2 DEF DistInv, JobPart
  <1>3. ASSUME NEW e \in executions' PROVE Fed(e, devices', summary')
    <2>1. CASE e \in executions
      <3>1. e \in Inputs /\ Fed(e, devices, summary)
        BY <2>1 DEF DistInv, StorePart, FedPart
      <3> QED
        BY <3>1, FedKept
    <2> QED
      BY <2>1
  <1> QED
    BY <1>1, <1>2, <1>3 DEF DistInv, JobPart, FedPart

\* It moves and writes nothing.
LEMMA JobWritesNothing ==
    ASSUME DistInv, NEW d \in Distributors, NEW s, s \in Jobs, Ready(s, devices, summary),
           job' = [job EXCEPT ![d] = s],
           UNCHANGED <<apiVars, summary, devices, executions>>
    PROVE  DistInv'
  <1>1. IndInv'
    BY NextKeepsInv DEF DistInv
  <1>2. StorePart' /\ Kept
    BY DEF DistInv, StorePart, Kept
  <1>3. Ready(s, devices', summary')
    BY DEF Ready
  <1> QED
    BY <1>1, <1>2, <1>3, JobMoves

\* It moves and writes the item, with the version it saw.
LEMMA JobWritesItem ==
    ASSUME DistInv, NEW d \in Distributors, NEW s, s \in Jobs, Ready(s, devices, summary),
           job' = [job EXCEPT ![d] = s],
           NEW seen \in Records, NEW e \in Records, NEW applied \in BOOLEAN,
           Rank(e) = Rank(seen), WriteRecord(seen, e, applied),
           UNCHANGED <<replica, bucket, handler, now, summary, devices, executions>>
    PROVE  DistInv'
  <1>1. IndInv'
    BY RewriteKeeps DEF DistInv
  <1>2. StorePart' /\ Kept
    BY DEF DistInv, StorePart, Kept
  <1>3. Ready(s, devices', summary')
    BY DEF Ready
  <1> QED
    BY <1>1, <1>2, <1>3, JobMoves

\* It answers and writes nothing.
LEMMA JobAnswers ==
    ASSUME DistInv, NEW d \in Distributors, NEW answer \in Answers, FinishJob(d, answer),
           UNCHANGED <<apiVars, summary, devices, executions>>
    PROVE  DistInv'
  <1>1. job[d] \in Jobs
    BY DEF DistInv, JobPart
  <1>2. Done(job[d], answer) \in Jobs /\ Ready(Done(job[d], answer), devices, summary)
    BY <1>1, DoneType
  <1>3. job' = [job EXCEPT ![d] = Done(job[d], answer)]
    BY DEF FinishJob
  <1> QED
    BY <1>2, <1>3, JobWritesNothing

\* The fields of a job, and what it relies on past GetItem.
LEMMA JobFields ==
    ASSUME DistInv, NEW d \in Distributors
    PROVE  /\ job[d] \in Jobs
           /\ Ready(job[d], devices, summary)
           /\ job[d].seen \in Records
           /\ job[d].pc \in AfterGetItem => job[d].seen.version \in Versions
  <1>1. job[d] \in Jobs /\ Ready(job[d], devices, summary) /\ job[d].seen \in Records
    BY DEF DistInv, JobPart, Jobs
  <1>2. job[d].pc \in AfterGetItem => job[d].seen.version \in Versions
    BY <1>1 DEF Ready, Exists, Records
  <1> QED
    BY <1>1, <1>2

\* One lemma per action, that it keeps the invariant.
LEMMA ReceiveJobKeeps ==
    ASSUME DistInv, NEW d \in Distributors, ReceiveJob(d)
    PROVE  DistInv'
  <1>1. CASE \E request \in Counts, bodyless \in BOOLEAN :
                job' = [job EXCEPT ![d] = [IdleJob EXCEPT !.op = "distribute",
                           !.pc = "getItem", !.todo = request, !.bodyless = bodyless]]
    <2>1. PICK request \in Counts, bodyless \in BOOLEAN :
              job' = [job EXCEPT ![d] = [IdleJob EXCEPT !.op = "distribute",
                         !.pc = "getItem", !.todo = request, !.bodyless = bodyless]]
      BY <1>1
    <2> DEFINE s == [IdleJob EXCEPT !.op = "distribute", !.pc = "getItem",
                                    !.todo = request, !.bodyless = bodyless]
    <2>2. s \in Jobs /\ s.pc = "getItem"
      BY IdleJobType DEF Jobs, JobPhases
    <2>3. Ready(s, devices, summary)
      BY <2>2 DEF Ready, AfterGetItem
    <2> QED
      BY <2>1, <2>2, <2>3, JobWritesNothing DEF ReceiveJob
  <1>2. CASE job' = [job EXCEPT ![d] = [IdleJob EXCEPT !.op = "status", !.pc = "getItem"]]
    <2> DEFINE s == [IdleJob EXCEPT !.op = "status", !.pc = "getItem"]
    <2>1. s \in Jobs /\ s.pc = "getItem"
      BY IdleJobType DEF Jobs, JobPhases
    <2>2. Ready(s, devices, summary)
      BY <2>1 DEF Ready, AfterGetItem
    <2> QED
      BY <1>2, <2>1, <2>2, JobWritesNothing DEF ReceiveJob
  <1> QED
    BY <1>1, <1>2 DEF ReceiveJob

LEMMA ReplyJobKeeps ==
    ASSUME DistInv, NEW d \in Distributors, ReplyJob(d)
    PROVE  DistInv'
  <1>1. Ready(IdleJob, devices, summary)
    BY IdleJobType DEF Ready, AfterGetItem
  <1> QED
    BY <1>1, IdleJobType, JobWritesNothing DEF ReplyJob

\* GetBookmarkByUser found the item, and the route goes on with it.
LEMMA SeenKeeps ==
    ASSUME DistInv, NEW d \in Distributors, NEW r \in Records, Exists(r),
           NEW phase \in {"getDevices", "query"},
           job' = [job EXCEPT ![d].seen = r, ![d].pc = phase],
           UNCHANGED <<apiVars, summary, devices, executions>>
    PROVE  DistInv'
  <1> DEFINE s == [job[d] EXCEPT !.seen = r, !.pc = phase]
  <1>1. job[d] \in Jobs
    BY JobFields
  <1>2. s \in Jobs /\ s.pc = phase /\ s.seen = r
    BY <1>1 DEF Jobs, JobPhases
  <1>3. Ready(s, devices, summary)
    BY <1>2 DEF Ready
  <1>4. job' = [job EXCEPT ![d] = s]
    BY <1>1 DEF Jobs, DistInv, JobPart
  <1> QED
    BY <1>2, <1>3, <1>4, JobWritesNothing

LEMMA GetItemKeeps ==
    ASSUME DistInv, NEW d \in Distributors, GetItemForDistribute(d) \/ GetItemForStatus(d)
    PROVE  DistInv'
  <1>1. PICK r \in Snapshots :
          \/ FinishJob(d, "forbidden") \/ FinishJob(d, "notFound")
          \/ Exists(r) /\ job' = [job EXCEPT ![d].seen = r, ![d].pc = "getDevices"]
          \/ Exists(r) /\ job' = [job EXCEPT ![d].seen = r, ![d].pc = "query"]
    BY DEF GetItemForDistribute, GetItemForStatus, validateDistribution
  <1>2. r \in Records
    BY SnapshotsType DEF DistInv, IndInv
  <1>3. UNCHANGED <<apiVars, summary, devices, executions>>
    BY DEF GetItemForDistribute, GetItemForStatus
  <1> QED
    BY <1>1, <1>2, <1>3, JobAnswers, SeenKeeps DEF Answers

LEMMA ValidateDevicesKeeps ==
    ASSUME DistInv, NEW d \in Distributors, validateDevices(d)
    PROVE  DistInv'
  <1>1. job[d] \in Jobs /\ job[d].pc = "getDevices" /\ Exists(job[d].seen)
    BY JobFields DEF validateDevices, JobAt, Ready, AfterGetItem, JobPhases
  <1>2. CASE FinishJob(d, "badRequest")
    BY <1>2, JobAnswers DEF validateDevices, Answers
  <1>3. ASSUME NEW todo \in Counts, job' = [job EXCEPT ![d].pc = "lock", ![d].todo = todo]
        PROVE  DistInv'
    <2> DEFINE s == [job[d] EXCEPT !.pc = "lock", !.todo = todo]
    <2>1. s \in Jobs /\ s.pc = "lock" /\ s.seen = job[d].seen
      BY <1>1 DEF Jobs, JobPhases
    <2>2. Ready(s, devices, summary)
      BY <1>1, <2>1 DEF Ready
    <2>3. job' = [job EXCEPT ![d] = s]
      BY <1>1, <1>3 DEF Jobs, DistInv, JobPart
    <2> QED
      BY <2>1, <2>2, <2>3, JobWritesNothing DEF validateDevices
  <1>4. PICK owned \in SUBSET Devices :
          LET named == {dev \in Devices : job[d].todo[dev] > 0}
          IN  IF owned = {} \/ ~(named \subseteq owned)
                THEN FinishJob(d, "badRequest")
                ELSE job' = [job EXCEPT ![d].pc = "lock", ![d].todo =
                        IF named # {} THEN @
                        ELSE [dev \in Devices |-> IF dev \in owned THEN 1 ELSE 0]]
    BY DEF validateDevices
  <1> DEFINE named == {dev \in Devices : job[d].todo[dev] > 0}
             todo == IF named # {} THEN job[d].todo
                     ELSE [dev \in Devices |-> IF dev \in owned THEN 1 ELSE 0]
  <1>5. todo \in Counts
    <2>1. job[d].todo \in Counts
      BY <1>1 DEF Jobs
    <2>2. [dev \in Devices |-> IF dev \in owned THEN 1 ELSE 0] \in Counts
      BY DistributionAssumption DEF Counts
    <2> QED
      BY <2>1, <2>2
  <1>6. \/ FinishJob(d, "badRequest")
        \/ job' = [job EXCEPT ![d].pc = "lock", ![d].todo = todo]
    <2>1. job \in [Distributors -> Jobs]
      BY DEF DistInv, JobPart
    <2> QED
      BY <1>1, <1>4, <2>1 DEF Jobs
  <1> QED
    BY <1>2, <1>3, <1>5, <1>6

\* What a status update writes has the version that was seen.
LEMMA StatusUpdateType ==
    ASSUME TypeOK, NEW seen \in Records, NEW status
    PROVE  /\ StatusUpdate(seen, status) \in Records
           /\ StatusUpdate(seen, status).version = seen.version
           /\ StatusUpdate(seen, status).deleted = seen.deleted
           /\ Rank(StatusUpdate(seen, status)) = Rank(seen)
  <1> DEFINE e == StatusUpdate(seen, status)
  <1>1. now \in Times
    BY DEF TypeOK
  <1>2. e \in Records /\ e.version = seen.version /\ e.deleted = seen.deleted
    BY <1>1 DEF StatusUpdate, Records
  <1> QED
    BY <1>2 DEF Rank

LEMMA LockKeeps ==
    ASSUME DistInv, NEW d \in Distributors, Lock(d)
    PROVE  DistInv'
  <1> DEFINE locked == StatusUpdate(job[d].seen, "BookmarksLocked")
  <1>1. /\ job[d] \in Jobs /\ job[d].pc = "lock" /\ Exists(job[d].seen)
        /\ job[d].seen \in Records
    BY JobFields DEF Lock, JobAt, Ready, AfterGetItem, JobPhases
  <1>2. PICK o \in Outcomes :
          /\ WriteRecord(locked, locked, o.applied)
          /\ job' = [job EXCEPT ![d] =
                IF o.ok THEN AfterLock([job[d] EXCEPT !.seen = locked])
                        ELSE Done(job[d], "error")]
    BY DEF Lock
  <1>3. /\ locked \in Records /\ locked.version = job[d].seen.version
        /\ locked.deleted = job[d].seen.deleted
    BY <1>1, StatusUpdateType DEF DistInv, IndInv
  <1> DEFINE t == [job[d] EXCEPT !.seen = locked]
             s == IF o.ok THEN AfterLock(t) ELSE Done(job[d], "error")
  <1>4. s \in Jobs /\ Ready(s, devices, summary)
    <2>1. CASE o.ok
      <3>1. t \in Jobs /\ t.seen = locked
        BY <1>1, <1>3 DEF Jobs
      <3>2. /\ AfterLock(t) \in Jobs /\ AfterLock(t).seen = locked
            /\ \/ AfterLock(t).pc = "addJobs" /\ locked.deleted
               \/ AfterLock(t).pc = "getObject"
        BY <3>1 DEF AfterLock, Jobs, JobPhases
      <3>3. Ready(AfterLock(t), devices, summary)
        BY <1>1, <1>3, <3>2 DEF Ready, Exists
      <3> QED
        BY <2>1, <3>2, <3>3
    <2>2. CASE ~o.ok
      BY <1>1, <2>2, DoneType DEF Answers
    <2> QED
      BY <2>1, <2>2
  <1>5. job' = [job EXCEPT ![d] = s]
    BY <1>2
  <1>6. o.applied \in BOOLEAN
    BY OutcomesType
  <1>7. UNCHANGED <<replica, bucket, handler, now, summary, devices, executions>>
    BY DEF Lock
  <1> HIDE DEF s, locked
  <1> QED
    BY <1>2, <1>3, <1>4, <1>5, <1>6, <1>7, JobWritesItem

-----------------------------------------------------------------------------
(* Packages, rows and executions.                                          *)

\* A distributor that holds an item may turn to its failure path.
LEMMA TurnToFail ==
    ASSUME DistInv, NEW d \in Distributors, job[d].pc \in AfterGetItem, Enter(d, "fail"),
           UNCHANGED <<apiVars, summary, devices, executions>>
    PROVE  DistInv'
  <1> DEFINE s == [job[d] EXCEPT !.pc = "fail"]
  <1>1. job[d] \in Jobs /\ Ready(job[d], devices, summary)
    BY JobFields
  <1>2. s \in Jobs /\ s.pc = "fail" /\ s.seen = job[d].seen
    BY <1>1 DEF Jobs, JobPhases
  <1>3. Ready(s, devices, summary)
    BY <1>1, <1>2 DEF Ready
  <1>4. job' = [job EXCEPT ![d] = s]
    BY <1>1 DEF Enter, Jobs, DistInv, JobPart
  <1> QED
    BY <1>2, <1>3, <1>4, JobWritesNothing

LEMMA GetObjectKeeps ==
    ASSUME DistInv, NEW d \in Distributors,
           GetObjectForPackage(d) \/ GetObjectForPackageFails(d)
    PROVE  DistInv'
  <1>1. job[d].pc = "getObject" /\ job[d].pc \in AfterGetItem
    BY DEF GetObjectForPackage, GetObjectForPackageFails, JobAt, AfterGetItem, JobPhases
  <1>2. CASE GetObjectForPackageFails(d)
    BY <1>1, <1>2, TurnToFail DEF GetObjectForPackageFails
  <1>3. CASE GetObjectForPackage(d)
    <2> DEFINE list == bucket[job[d].seen.version]
               s == [job[d] EXCEPT !.list = list, !.pc = "putPackage"]
    <2>1. job[d] \in Jobs /\ Ready(job[d], devices, summary) /\ job[d].seen.version \in Versions
      BY <1>1, JobFields
    <2>2. list \in Lists
      BY <1>3, <2>1 DEF GetObjectForPackage, DistInv, IndInv, TypeOK
    <2>3. s \in Jobs /\ s.pc = "putPackage" /\ s.seen = job[d].seen /\ s.list = list
      BY <2>1, <2>2 DEF Jobs, JobPhases
    <2>4. Ready(s, devices, summary)
      BY <1>1, <2>1, <2>2, <2>3 DEF Ready
    <2>5. job' = [job EXCEPT ![d] = s]
      BY <1>3, <2>1 DEF GetObjectForPackage, Jobs, DistInv, JobPart
    <2> QED
      BY <1>3, <2>3, <2>4, <2>5, JobWritesNothing DEF GetObjectForPackage
  <1> QED
    BY <1>2, <1>3

\* The package is stored before the distributor goes on to the devices.
LEMMA PutPackageKeeps ==
    ASSUME DistInv, NEW d \in Distributors, PutPackage(d)
    PROVE  DistInv'
  <1> DEFINE package == job[d].list \intersect ValidUrls
             v == job[d].seen.version
  <1>1. /\ job[d] \in Jobs /\ Ready(job[d], devices, summary) /\ v \in Versions
        /\ job[d].pc = "putPackage"
    BY JobFields DEF PutPackage, JobAt, AfterGetItem, JobPhases
  <1>2. PICK o \in Outcomes :
          /\ summary' = IF o.applied THEN [summary EXCEPT ![v] = package] ELSE summary
          /\ job' = [job EXCEPT ![d] = AfterPackage([job[d] EXCEPT !.list = package], o.ok)]
    BY DEF PutPackage
  <1>3. package \in Lists /\ package # NoObject
    BY <1>1, ApiAssumption DEF Ready, Lists
  <1> DEFINE t == [job[d] EXCEPT !.list = package]
             s == AfterPackage(t, o.ok)
  <1>4. t \in Jobs /\ t.seen = job[d].seen
    BY <1>1, <1>3 DEF Jobs
  <1>5. /\ s \in Jobs /\ s.seen = job[d].seen
        /\ \/ s.pc = "addJobs" /\ o.ok
           \/ s.pc = "fail"
    BY <1>4 DEF AfterPackage, Jobs, JobPhases
  <1>6. o.ok => summary'[v] # NoObject
    BY <1>1, <1>2, <1>3, OutcomesType DEF DistInv, StorePart
  <1>7. Ready(s, devices', summary')
    BY <1>1, <1>5, <1>6 DEF Ready, AfterGetItem, JobPhases
  <1>8. StorePart' /\ Kept
    BY <1>1, <1>2, <1>3 DEF PutPackage, DistInv, StorePart, Kept
  <1>9. IndInv'
    BY NextKeepsInv DEF PutPackage, DistInv
  <1>10. job' = [job EXCEPT ![d] = s] /\ executions' = executions
    BY <1>2 DEF PutPackage
  <1> HIDE DEF s
  <1> QED
    BY <1>5, <1>7, <1>8, <1>9, <1>10, JobMoves

LEMMA AddJobsKeeps ==
    ASSUME DistInv, NEW d \in Distributors, addDistributionJobs(d)
    PROVE  DistInv'
  <1> DEFINE s == [job[d] EXCEPT !.start = now, !.pc = "addRecord"]
  <1>1. /\ job[d] \in Jobs /\ Ready(job[d], devices, summary)
        /\ job[d].pc = "addJobs" /\ now \in Times
    BY JobFields DEF addDistributionJobs, JobAt, DistInv, IndInv, TypeOK
  <1>2. s \in Jobs /\ s.pc = "addRecord" /\ s.seen = job[d].seen
    BY <1>1 DEF Jobs, JobPhases
  <1>3. Ready(s, devices, summary)
    BY <1>1, <1>2 DEF Ready, AfterGetItem, JobPhases
  <1>4. job' = [job EXCEPT ![d] = s]
    BY <1>1 DEF addDistributionJobs, Jobs, DistInv, JobPart
  <1> QED
    BY <1>2, <1>3, <1>4, JobWritesNothing DEF addDistributionJobs

\* One row is written; no row is taken away.
LEMMA RowWritten ==
    ASSUME DistInv, NEW dev \in Devices, NEW row \in Rows, row # NoRow, NEW applied \in BOOLEAN,
           devices' = IF applied THEN [devices EXCEPT ![dev] = row] ELSE devices,
           UNCHANGED <<summary, executions>>
    PROVE  StorePart' /\ Kept
  BY DEF DistInv, StorePart, Kept

LEMMA AddRecordKeeps ==
    ASSUME DistInv, NEW d \in Distributors, AddDeviceRecord(d)
    PROVE  DistInv'
  <1>1. /\ job[d] \in Jobs /\ Ready(job[d], devices, summary)
        /\ job[d].pc = "addRecord"
    BY JobFields DEF AddDeviceRecord, JobAt
  <1>2. PICK dev \in Devices, o \in Outcomes :
          /\ job[d].todo[dev] > 0
          /\ devices' = IF o.applied THEN [devices EXCEPT ![dev] = PendingRow(job[d].start)]
                                     ELSE devices
          /\ job' = [job EXCEPT ![d] = AfterRow(job[d], dev, o.ok)]
    BY DEF AddDeviceRecord
  <1> DEFINE row == PendingRow(job[d].start)
             s == AfterRow(job[d], dev, o.ok)
  <1>3. row \in Rows /\ row # NoRow
    BY <1>1 DEF PendingRow, NoRow, NoStatus, Rows, DeviceStatuses, Jobs
  <1>4. StorePart' /\ Kept
    BY <1>2, <1>3, OutcomesType, RowWritten DEF AddDeviceRecord
  <1>5. /\ s \in Jobs /\ s.seen = job[d].seen /\ s.todo = job[d].todo
        /\ \/ s.pc = "startExecution" /\ s.device = dev /\ o.ok
           \/ s.pc = "fail"
    BY <1>1 DEF AfterRow, Jobs, JobPhases
  <1>6. o.ok => devices'[dev] # NoRow
    BY <1>2, <1>3, OutcomesType DEF DistInv, StorePart
  <1>7. Ready(s, devices', summary')
    BY <1>1, <1>2, <1>5, <1>6 DEF Ready, AfterGetItem, JobPhases, AddDeviceRecord
  <1>8. IndInv'
    BY NextKeepsInv DEF AddDeviceRecord, DistInv
  <1>9. job' = [job EXCEPT ![d] = s] /\ executions' = executions
    BY <1>2 DEF AddDeviceRecord
  <1> HIDE DEF s
  <1> QED
    BY <1>4, <1>5, <1>7, <1>8, <1>9, JobMoves

\* The execution that is started has the row and the package the distributor
\* relies on.
LEMMA StartExecutionKeeps ==
    ASSUME DistInv, NEW d \in Distributors, StartExecution(d)
    PROVE  DistInv'
  <1> DEFINE dev == job[d].device
             left == [job[d].todo EXCEPT ![dev] = @ - 1]
  <1>1. /\ job[d] \in Jobs /\ Ready(job[d], devices, summary)
        /\ job[d].pc = "startExecution" /\ job[d].seen.version \in Versions
    BY JobFields DEF StartExecution, JobAt, AfterGetItem, JobPhases
  <1>2. dev \in Devices /\ job[d].todo[dev] > 0 /\ devices[dev] # NoRow
    BY <1>1 DEF Ready
  <1>3. PICK o \in Outcomes :
          /\ executions' = IF o.applied THEN executions \union {InputOf(job[d])} ELSE executions
          /\ job' = [job EXCEPT ![d] =
                IF ~o.ok THEN [job[d] EXCEPT !.pc = "fail"]
                ELSE [job[d] EXCEPT !.todo = left, !.device = "none",
                         !.pc = IF left = NoDevices THEN "final" ELSE "addRecord"]]
    BY DEF StartExecution
  <1>4. left \in Counts
    BY <1>1, <1>2, DistributionAssumption DEF Jobs, Counts
  <1> DEFINE s == IF ~o.ok THEN [job[d] EXCEPT !.pc = "fail"]
                  ELSE [job[d] EXCEPT !.todo = left, !.device = "none",
                           !.pc = IF left = NoDevices THEN "final" ELSE "addRecord"]
  <1>5. s \in Jobs /\ s.seen = job[d].seen /\ s.pc \in {"fail", "final", "addRecord"}
    <2>1. CASE ~o.ok
      BY <1>1, <2>1 DEF Jobs, JobPhases
    <2>2. CASE o.ok
      <3> HIDE DEF left
      <3> QED
        BY <1>1, <1>4, <2>2 DEF Jobs, JobPhases
    <2> QED
      BY <2>1, <2>2
  <1>6. Ready(s, devices', summary')
    BY <1>1, <1>5 DEF Ready, AfterGetItem, JobPhases, StartExecution
  <1>7. InputOf(job[d]) \in Inputs /\ Fed(InputOf(job[d]), devices, summary)
    BY <1>1, <1>2 DEF InputOf, Inputs, Jobs, Records, Fed, Ready
  <1>8. StorePart' /\ Kept
    BY <1>3, <1>7 DEF StartExecution, DistInv, StorePart, Kept
  <1>9. \A e \in executions' : e \in executions \/ Fed(e, devices', summary')
    BY <1>3, <1>7 DEF StartExecution
  <1>10. IndInv'
    BY NextKeepsInv DEF StartExecution, DistInv
  <1>11. job' = [job EXCEPT ![d] = s]
    BY <1>3
  <1> HIDE DEF s
  <1> QED
    BY <1>5, <1>6, <1>8, <1>9, <1>10, <1>11, JobMoves

LEMMA EndJobsKeeps ==
    ASSUME DistInv, NEW d \in Distributors, EndJobs(d)
    PROVE  DistInv'
  <1> DEFINE seen == job[d].seen
             e == Distributed(job[d])
             s == [job[d] EXCEPT !.seen = e]
  <1>1. /\ job[d] \in Jobs /\ Ready(job[d], devices, summary)
        /\ seen \in Records /\ Exists(seen)
    BY JobFields DEF EndJobs, JobAt, Ready, AfterGetItem, JobPhases
  <1>2. e \in Records /\ e.version = seen.version
    BY <1>1 DEF Distributed, Jobs, Records, Statuses
  <1>3. s \in Jobs /\ s.seen = e
    BY <1>1, <1>2 DEF Jobs
  <1>4. PICK o \in Outcomes :
          /\ WriteRecord(s.seen, s.seen, o.applied)
          /\ job' = [job EXCEPT ![d] = IF o.ok THEN Done(s, "ok") ELSE [s EXCEPT !.pc = "fail"]]
    BY DEF EndJobs
  <1> DEFINE t == IF o.ok THEN Done(s, "ok") ELSE [s EXCEPT !.pc = "fail"]
  <1>5. t \in Jobs /\ Ready(t, devices, summary)
    <2>1. CASE o.ok
      BY <1>3, <2>1, DoneType DEF Answers
    <2>2. CASE ~o.ok
      <3>1. t \in Jobs /\ t.pc = "fail" /\ t.seen = e
        BY <1>3, <2>2 DEF Jobs, JobPhases
      <3> QED
        BY <1>1, <1>2, <3>1 DEF Ready, Exists
    <2> QED
      BY <2>1, <2>2
  <1>6. job' = [job EXCEPT ![d] = t] /\ o.applied \in BOOLEAN
    BY <1>4, OutcomesType
  <1>7. WriteRecord(e, e, o.applied)
    BY <1>3, <1>4
  <1>8. UNCHANGED <<replica, bucket, handler, now, summary, devices, executions>>
    BY DEF EndJobs
  <1> HIDE DEF t, e
  <1> QED
    BY <1>2, <1>5, <1>6, <1>7, <1>8, JobWritesItem

LEMMA FailJobKeeps ==
    ASSUME DistInv, NEW d \in Distributors, FailJob(d)
    PROVE  DistInv'
  <1> DEFINE failed == StatusUpdate(job[d].seen, "Failed")
             s == Done(job[d], "error")
  <1>1. job[d] \in Jobs /\ job[d].seen \in Records
    BY JobFields
  <1>2. failed \in Records
    BY <1>1, StatusUpdateType DEF DistInv, IndInv
  <1>3. PICK o \in Outcomes : WriteRecord(failed, failed, o.applied)
    BY DEF FailJob
  <1>4. s \in Jobs /\ Ready(s, devices, summary)
    BY <1>1, DoneType DEF Answers
  <1>5. job' = [job EXCEPT ![d] = s]
    BY DEF FailJob, FinishJob
  <1>6. UNCHANGED <<replica, bucket, handler, now, summary, devices, executions>>
    BY DEF FailJob
  <1>7. o.applied \in BOOLEAN
    BY OutcomesType
  <1> HIDE DEF failed, s
  <1> QED
    BY <1>2, <1>3, <1>4, <1>5, <1>6, <1>7, JobWritesItem

LEMMA ExpireKeeps ==
    ASSUME DistInv, NEW d \in Distributors, ExpireDistribution(d)
    PROVE  DistInv'
  <1> DEFINE seen == job[d].seen
             s == Done(job[d], "ok")
  <1>1. job[d] \in Jobs /\ seen \in Records
    BY JobFields
  <1>2. s \in Jobs /\ Ready(s, devices, summary)
    BY <1>1, DoneType DEF Answers
  <1>3. job' = [job EXCEPT ![d] = s]
    BY DEF ExpireDistribution, FinishJob
  <1>4. CASE \E o \in Outcomes : WriteRecord(seen, seen, o.applied)
    <2>1. PICK o \in Outcomes : WriteRecord(seen, seen, o.applied)
      BY <1>4
    <2>2. o.applied \in BOOLEAN
      BY OutcomesType
    <2>3. UNCHANGED <<replica, bucket, handler, now, summary, devices, executions>>
      BY DEF ExpireDistribution
    <2> HIDE DEF s, seen
    <2> QED
      BY <1>1, <1>2, <1>3, <2>1, <2>2, <2>3, JobWritesItem
  <1>5. CASE UNCHANGED <<record, lostUpdate>>
    <2>1. UNCHANGED <<apiVars, summary, devices, executions>>
      BY <1>5 DEF ExpireDistribution, apiVars
    <2> HIDE DEF s
    <2> QED
      BY <1>2, <1>3, <2>1, JobWritesNothing
  <1> QED
    BY <1>4, <1>5 DEF ExpireDistribution

LEMMA QueryKeeps ==
    ASSUME DistInv, NEW d \in Distributors, QueryDevices(d)
    PROVE  DistInv'
  <1>1. CASE FinishJob(d, "notFound") \/ FinishJob(d, "error")
    BY <1>1, JobAnswers DEF QueryDevices, Answers
  <1> DEFINE todo == [dev \in Devices |-> IF devices[dev] # NoRow THEN 1 ELSE 0]
             s == [job[d] EXCEPT !.pc = "rows", !.rows = devices, !.todo = todo]
  <1>2. CASE job' = [job EXCEPT ![d].pc = "rows", ![d].rows = devices, ![d].todo = todo]
    <2>1. /\ job[d] \in Jobs /\ Ready(job[d], devices, summary) /\ job[d].pc = "query"
          /\ devices \in [Devices -> Rows]
      BY JobFields DEF QueryDevices, JobAt, DistInv, StorePart
    <2>2. todo \in Counts
      BY DistributionAssumption DEF Counts
    <2> HIDE DEF todo
    <2>3. s \in Jobs /\ s.pc = "rows" /\ s.seen = job[d].seen
      BY <2>1, <2>2 DEF Jobs, JobPhases
    <2>4. Ready(s, devices, summary)
      BY <2>1, <2>3 DEF Ready, AfterGetItem, JobPhases
    <2>5. job' = [job EXCEPT ![d] = s]
      BY <1>2, <2>1 DEF Jobs, DistInv, JobPart
    <2> HIDE DEF s
    <2> QED
      BY <2>3, <2>4, <2>5, JobWritesNothing DEF QueryDevices
  <1> QED
    BY <1>1, <1>2 DEF QueryDevices

LEMMA RowOfLoopKeeps ==
    ASSUME DistInv, NEW d \in Distributors, updateDelayedApplainceDistributionToTimeout(d)
    PROVE  DistInv'
  <1>1. /\ job[d] \in Jobs /\ Ready(job[d], devices, summary) /\ job[d].pc = "rows"
        /\ job[d].rows \in [Devices -> Rows]
    BY JobFields DEF updateDelayedApplainceDistributionToTimeout, JobAt, Jobs
  <1> DEFINE left(dev) == [job[d].todo EXCEPT ![dev] = 0]
             s(dev, expired) ==
                [job[d] EXCEPT !.todo = left(dev), !.expired = job[d].expired \/ expired,
                               !.rows = [job[d].rows EXCEPT ![dev] = NoRow],
                               !.pc = IF left(dev) = NoDevices THEN "expire" ELSE "rows"]
  <1>2. PICK dev \in Devices :
          LET next(expired) ==
                [job EXCEPT ![d].todo = left(dev), ![d].expired = @ \/ expired,
                            ![d].rows[dev] = NoRow,
                            ![d].pc = IF left(dev) = NoDevices THEN "expire" ELSE "rows"]
          IN  \/ UNCHANGED devices /\ job' = next(FALSE)
              \/ /\ Delayed(job[d].rows[dev])
                 /\ \E o \in Outcomes :
                       /\ devices' = IF o.applied
                                       THEN [devices EXCEPT ![dev] = TimeoutRow(job[d].rows[dev])]
                                       ELSE devices
                       /\ job' = next(o.ok)
    BY DEF updateDelayedApplainceDistributionToTimeout
  <1> DEFINE row == TimeoutRow(job[d].rows[dev])
  <1>3. /\ IndInv'
        /\ StorePart' /\ Kept
        /\ UNCHANGED executions
    <2>1. row \in Rows /\ row # NoRow
      BY <1>1 DEF TimeoutRow, Rows, DeviceStatuses, NoRow, NoStatus
    <2>2. PICK applied \in BOOLEAN :
            devices' = IF applied THEN [devices EXCEPT ![dev] = row] ELSE devices
      <3>1. CASE UNCHANGED devices
        BY <3>1
      <3>2. CASE \E o \in Outcomes :
                   devices' = IF o.applied THEN [devices EXCEPT ![dev] = row] ELSE devices
        BY <3>2, OutcomesType
      <3> QED
        BY <1>2, <3>1, <3>2
    <2>3. UNCHANGED <<apiVars, summary, executions>>
      BY DEF updateDelayedApplainceDistributionToTimeout
    <2> HIDE DEF row
    <2> QED
      BY <2>1, <2>2, <2>3, RowWritten, NextKeepsInv DEF DistInv
  <1>4. PICK expired \in BOOLEAN : job' = [job EXCEPT ![d] = s(dev, expired)]
    <2>1. job \in [Distributors -> Jobs]
      BY DEF DistInv, JobPart
    <2>2. PICK expired \in BOOLEAN :
            job' = [job EXCEPT ![d].todo = left(dev), ![d].expired = @ \/ expired,
                               ![d].rows[dev] = NoRow,
                               ![d].pc = IF left(dev) = NoDevices THEN "expire" ELSE "rows"]
      BY <1>2, OutcomesType
    <2> HIDE DEF left
    <2>3. job' = [job EXCEPT ![d] = s(dev, expired)]
      BY <2>1, <2>2 DEF Jobs
    <2> QED
      BY <2>3
  <1>5. left(dev) \in Counts
    BY <1>1, DistributionAssumption DEF Jobs, Counts
  <1>6. [job[d].rows EXCEPT ![dev] = NoRow] \in [Devices -> Rows]
    <2>1. NoRow \in Rows
      BY BoundsAssumption DEF NoRow, Rows, NoStatus, ZeroTime, Times
    <2> QED
      BY <1>1, <2>1
  <1> DEFINE t == s(dev, expired)
  <1>7. t \in Jobs /\ t.seen = job[d].seen /\ t.pc \in {"expire", "rows"}
    <2>1. (job[d].expired \/ expired) \in BOOLEAN
      OBVIOUS
    <2> HIDE DEF left
    <2> QED
      BY <1>1, <1>5, <1>6, <2>1 DEF Jobs, JobPhases
  <1>8. Ready(t, devices', summary')
    BY <1>1, <1>7 DEF Ready, AfterGetItem, JobPhases
  <1> HIDE DEF s
  <1> QED
    BY <1>3, <1>4, <1>7, <1>8, JobMoves

\* A client that fails, and an invocation that is killed.
LEMMA JobDiesKeeps ==
    ASSUME DistInv, NEW d \in Distributors, JobClientFails(d) \/ KillJob(d)
    PROVE  DistInv'
  <1>1. CASE JobClientFails(d) /\ FinishJob(d, "error")
    BY <1>1, JobAnswers DEF JobClientFails, Answers
  <1>2. CASE job[d].pc \in {"putPackage", "addJobs"} /\ JobClientFails(d) /\ Enter(d, "fail")
    BY <1>2, TurnToFail DEF JobClientFails, AfterGetItem, JobPhases
  <1>3. CASE KillJob(d)
    <2> DEFINE s == [job[d] EXCEPT !.bodyless = FALSE]
    <2>1. s \in Jobs
      BY JobFields DEF Jobs
    <2>2. Done(s, "error") \in Jobs /\ Ready(Done(s, "error"), devices, summary)
      BY <2>1, DoneType DEF Answers
    <2> QED
      BY <1>3, <2>2, JobWritesNothing DEF KillJob
  <1> QED
    BY <1>1, <1>2, <1>3 DEF JobClientFails

-----------------------------------------------------------------------------
(* The environment, and every step.                                        *)

LEMMA DeviceReportsKeeps ==
    ASSUME DistInv, NEW dev \in Devices, DeviceReports(dev)
    PROVE  DistInv'
  <1>1. devices \in [Devices -> Rows]
    BY DEF DistInv, StorePart
  <1>2. PICK status \in {"Success", "Failed"} :
          devices' = [devices EXCEPT ![dev].status = status, ![dev].ended = TRUE]
    BY DEF DeviceReports
  <1> DEFINE row == [devices[dev] EXCEPT !.status = status, !.ended = TRUE]
  <1>3. row \in Rows /\ row # NoRow
    BY <1>1 DEF Rows, DeviceStatuses, NoRow, NoStatus
  <1>4. devices' = [devices EXCEPT ![dev] = row]
    BY <1>1, <1>2 DEF Rows
  <1>5. StorePart' /\ Kept
    BY <1>3, <1>4, RowWritten DEF DeviceReports
  <1>6. IndInv'
    BY NextKeepsInv DEF DeviceReports, DistInv
  <1>7. JobPart'
    BY <1>5, ReadyKept DEF DeviceReports, DistInv, JobPart
  <1>8. FedPart'
    BY <1>5, FedKept DEF DeviceReports, DistInv, StorePart, FedPart
  <1> QED
    BY <1>5, <1>6, <1>7, <1>8 DEF DistInv

\* A step that leaves the distributors, their rows and their packages alone.
LEMMA DistStill ==
    ASSUME DistInv, IndInv', UNCHANGED distVars
    PROVE  DistInv'
  BY DEF DistInv, StorePart, JobPart, FedPart, Fed, Ready, distVars

LEMMA DistributionEndsKeeps ==
    ASSUME DistInv, DistributionEnds
    PROVE  DistInv'
  <1>1. PICK status \in {"Success", "Failed"} :
          record' = [record EXCEPT !.status = status, !.ended = TRUE]
    BY DEF DistributionEnds
  <1>2. record \in Records /\ lostUpdate \in BOOLEAN
    BY DEF DistInv, IndInv, TypeOK
  <1>3. /\ record' \in Records /\ record'.version = record.version
        /\ record'.deleted = record.deleted
    BY <1>1, <1>2 DEF Records, Statuses
  <1>4. Rank(record') = Rank(record)
    BY <1>3 DEF Rank
  <1>5. IndInv'
    BY <1>2, <1>3, <1>4, SameVersionKeeps DEF DistributionEnds, DistInv
  <1> QED
    BY <1>5, DistStill DEF DistributionEnds

LEMMA DistInitInv == DistInit => DistInv
  <1> SUFFICES ASSUME DistInit PROVE DistInv
    OBVIOUS
  <1>1. IndInv
    BY InitType, InitConsistent DEF DistInit, Init, IndInv
  <1>2. StorePart
    <2>1. NoRow \in Rows
      BY BoundsAssumption DEF NoRow, Rows, NoStatus, ZeroTime, Times
    <2> QED
      BY <2>1 DEF DistInit, InitDistributions, StorePart, NoRows
  <1>3. Ready(IdleJob, devices, summary)
    BY IdleJobType DEF Ready, AfterGetItem
  <1> QED
    BY <1>1, <1>2, <1>3, IdleJobType DEF DistInit, InitDistributions, DistInv, JobPart, FedPart

LEMMA DistNextKeeps == DistInv /\ [DistNext]_vars => DistInv'
  <1> SUFFICES ASSUME DistInv, [DistNext]_vars PROVE DistInv'
    OBVIOUS
  <1>1. CASE Next /\ UNCHANGED distVars
    BY <1>1, NextKeepsInv, DistStill DEF DistInv
  <1>2. ASSUME NEW d \in Distributors, JobStep(d) PROVE DistInv'
    BY <1>2, ReceiveJobKeeps, ReplyJobKeeps, GetItemKeeps, ValidateDevicesKeeps, LockKeeps,
       GetObjectKeeps, PutPackageKeeps, AddJobsKeeps, AddRecordKeeps, StartExecutionKeeps,
       EndJobsKeeps, FailJobKeeps, QueryKeeps, RowOfLoopKeeps, ExpireKeeps, JobDiesKeeps
    DEF JobStep
  <1>3. ASSUME NEW dev \in Devices, DeviceReports(dev) PROVE DistInv'
    BY <1>3, DeviceReportsKeeps
  <1>4. CASE DistributionEnds
    BY <1>4, DistributionEndsKeeps
  <1>5. CASE UNCHANGED vars
    BY <1>5, NextKeepsInv, DistStill DEF vars, DistInv
  <1> QED
    BY <1>1, <1>2, <1>3, <1>4, <1>5 DEF DistNext

-----------------------------------------------------------------------------
(* What holds in every execution.                                          *)

\* The invariant of both routes beside the bookmark routes, for every execution.
THEOREM DistInvariance == DistSpec => []DistInv
  BY DistInitInv, DistNextKeeps, PTL DEF DistSpec

\* Every value the two routes and the bookmark routes leave in the tables, the
\* buckets, the executions and the invocations is of its type.
THEOREM DistTypeCorrect == DistSpec => []DistTypeOK
  <1>1. DistInv => DistTypeOK
    BY DEF DistInv, IndInv, StorePart, JobPart, DistTypeOK
  <1> QED
    BY <1>1, DistInvariance, PTL

\* Distributions that run beside the bookmark routes, fail anywhere and write the
\* item back as they saw it do not part the item from its list, unless such a
\* write lands on an item that its writer never saw.
THEOREM DistItemBacked == DistSpec => []BackedUnlessLostUpdate
  <1>1. DistInv => BackedUnlessLostUpdate
    BY DEF DistInv, IndInv, Consistent, BackedUnlessLostUpdate
  <1> QED
    BY <1>1, DistInvariance, PTL

\* Every execution that StartExecution was asked for finds the row of its device
\* and the package of its version, however many distributions run at once and
\* whatever fails.
THEOREM ExecutionsAreFed == DistSpec => []ExecutionHasItsInputs
  <1>1. DistInv => ExecutionHasItsInputs
    BY DEF DistInv, FedPart, Fed, ExecutionHasItsInputs
  <1> QED
    BY <1>1, DistInvariance, PTL

\* What a distribution writes has the version of the item it saw: where that item
\* is the one in the table, the version stays.
LEMMA RewriteStays ==
    ASSUME record \in Records, NEW seen \in Records, NEW e \in Records, NEW applied,
           Rank(e) = Rank(seen), WriteRecord(seen, e, applied), ~lostUpdate'
    PROVE  Rank(record') = Rank(record)
  <1>1. CASE applied
    <2>1. record' = Stored(record, seen, e) /\ Rank(seen) = Rank(record)
      BY <1>1 DEF WriteRecord
    <2>2. Rank(Stored(record, seen, e)) = Rank(e)
      BY StoredType
    <2> QED
      BY <2>1, <2>2
  <1>2. CASE ~applied
    BY <1>2 DEF WriteRecord, Rank
  <1> QED
    BY <1>1, <1>2

LEMMA JobStepStays ==
    ASSUME DistInv, NEW d \in Distributors, JobStep(d), ~lostUpdate'
    PROVE  Rank(record') = Rank(record)
  <1>1. TypeOK /\ record \in Records /\ job[d] \in Jobs /\ job[d].seen \in Records
    BY JobFields DEF DistInv, IndInv, TypeOK
  <1>2. CASE \E seen \in Records : \E e \in Records, o \in Outcomes :
               Rank(e) = Rank(seen) /\ WriteRecord(seen, e, o.applied)
    BY <1>1, <1>2, RewriteStays
  <1>3. CASE Lock(d) \/ FailJob(d)
    <2>1. PICK status \in {"BookmarksLocked", "Failed"}, o \in Outcomes :
            WriteRecord(StatusUpdate(job[d].seen, status), StatusUpdate(job[d].seen, status),
                        o.applied)
      BY <1>3 DEF Lock, FailJob
    <2>2. StatusUpdate(job[d].seen, status) \in Records
      BY <1>1, StatusUpdateType
    <2> QED
      BY <1>2, <2>1, <2>2
  <1>4. CASE EndJobs(d)
    <2> DEFINE e == Distributed(job[d])
    <2>1. e \in Records /\ [job[d] EXCEPT !.seen = e].seen = e
      BY <1>1 DEF Distributed, Jobs, Records, Statuses
    <2>2. PICK o \in Outcomes : WriteRecord(e, e, o.applied)
      BY <1>4, <2>1 DEF EndJobs
    <2> QED
      BY <1>2, <2>1, <2>2
  <1>5. CASE ExpireDistribution(d) /\ record' # record
    BY <1>1, <1>2, <1>5 DEF ExpireDistribution
  <1>6. \/ Lock(d) \/ FailJob(d) \/ EndJobs(d) \/ ExpireDistribution(d)
        \/ record' = record
    BY DEF JobStep, ReceiveJob, ReplyJob, GetItemForDistribute, validateDevices,
       GetObjectForPackage, GetObjectForPackageFails, PutPackage, addDistributionJobs,
       AddDeviceRecord, StartExecution, GetItemForStatus, QueryDevices,
       updateDelayedApplainceDistributionToTimeout, JobClientFails, KillJob, apiVars
  <1> QED
    BY <1>3, <1>4, <1>5, <1>6 DEF Rank

\* A distribution beside the bookmark routes does not take the user's version back
\* either, unless it writes over an item it never saw.
THEOREM DistVersionsGoForward == DistSpec => NeverRollsBack
  <1>1. DistInv /\ [DistNext]_vars => [Rank(record') < Rank(record) => lostUpdate']_apiVars
    <2> SUFFICES ASSUME DistInv, [DistNext]_vars, ~lostUpdate'
                 PROVE  ~(Rank(record') < Rank(record))
      OBVIOUS
    <2>1. IndInv /\ Rank(record) \in Nat /\ record \in Records
      BY RankType DEF DistInv, IndInv, TypeOK
    <2>2. CASE [Next]_apiVars
      BY <2>1, <2>2, NextMovesOn
    <2>3. ASSUME NEW d \in Distributors, JobStep(d) PROVE ~(Rank(record') < Rank(record))
      BY <2>1, <2>3, JobStepStays
    <2>4. CASE DistributionEnds
      <3>1. record'.version = record.version /\ record'.deleted = record.deleted
        BY <2>1, <2>4 DEF DistributionEnds, Records
      <3> QED
        BY <2>1, <3>1 DEF Rank
    <2> QED
      BY <2>2, <2>3, <2>4 DEF DistNext, DeviceReports, vars
  <1> QED
    BY <1>1, DistInvariance, PTL DEF DistSpec, NeverRollsBack
=============================================================================
