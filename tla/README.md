# Verification of the bookmarks API

TLA+ models of the serverless bookmarks API in `src/` (Go, AWS Lambda, DynamoDB,
S3, Step Functions), the TLC configurations that check them, and theorems about
them that TLAPS proves. File names below are relative to `src/`.

## 1. The system

| component | code | state | operations | works with |
|---|---|---|---|---|
| item and helpers | `func/api/helpers/bookmarks_helper.go`, `pkg/dynamodb/model/user_bookmarks.go` | one item per user: `latestVersion` (`1.0.n`, or `1.0.n_DELETED`), `status`, `startTimestamp`, `endTimestamp`, `modifiedBookmarks` | `GetBookmarkByUser`, `AddBookmarksInS3Bucket`, `AddOrUpdateUserBookmarks`, `GetIncrementedVersion`, expiry of a pending distribution | DynamoDB and S3 clients |
| bookmark routes | `func/api/handler/bookmarks_*.go` | none between requests; in a request, the item it read and the list | GET, HEAD, PUT, POST, DELETE `/bookmarks`, DELETE `/bookmarks/:url` | the helpers; the item and the bucket are shared with every other invocation |
| distribution routes | `func/api/handler/distribution_handler.go` | one row per device in `bookmark_distribution`; a package per version in a second bucket | POST `/bookmarks/summary`, GET `/bookmarks/pages` | item, bucket, device service, step function |
| DynamoDB client | `pkg/dynamodb/dynamodb_client.go` | none | single records, queries, pages, batch writes and deletes | the tables |
| batch writes | `AddBatchRecords`, `processEntityBatch`, `pkg/sizedwaitgroup` | goroutines, a bounded channel, a shared result, two channels | add, done, wait, retry | DynamoDB |
| S3 client | `pkg/s3/s3_client.go` | none | put, get, delete object | the buckets |
| step function and device service clients | `pkg/stepfunc`, `pkg/service` | none | `StartExecution`, `GetUserDevices` | external services |
| pages of a table | `GetRecordsByPagination`, `DeleteBatchRecords` | the key is in the caller; the paginator in a call | next page, delete what matches | a table that others write |
| list pages | `paginateBookmarks`, cursor of GET `/bookmarks` | the cursor is in the client | next page | the list read |
| middleware, authorizer, JWT | `func/api/middleware`, `func/authorizer`, `pkg/jwt` | none | puts the user's id into the request | - |
| CloudWatch, SNS, SQS, Kinesis, STS, LaunchDarkly clients | `pkg/...` | none (CloudWatch: a sequence token) | forwarded calls | - |

The invocations never call each other. They interact only through one user's
item, rows and objects. No write has a condition and GetItem is eventually
consistent, so everything hard is an *order of calls of several invocations*:

* a write replaces an item its writer never saw, and then deletes the list that
  item named (`dynamodb_client.go:417`, `bookmarks_helper.go:187`);
* an invocation dies, or a call fails with or without effect, between PutObject,
  the update of the item and DeleteObject (`bookmarks_helper.go:176-190`);
* a GetItem that fails reads as "no item" (`bookmarks_helper.go:43`);
* the check for a pending distribution and the write it guards are far apart, and
  the lock is never stored (`distribution_handler.go:404`);
* a distribution fails for one of several devices after others have started, or
  writes back an item that a PUT has replaced since (`distribution_handler.go:301`);
* a distribution whose invocation died has to stop blocking the user;
* nothing stops two distributions of one user from running at once, and a status
  request times out rows from what it read (`distribution_handler.go:96`, `:222`);
* goroutines of a batch write share one result, one unbuffered channel and a
  bounded number of slots (`dynamodb_client.go:209-240`);
* a client or a caller walks page by page over a list or a table that others
  write, with nothing but a key or a URL to go on from
  (`bookmarks_handler.go:172`, `dynamodb_client.go:394-411`, `:539-563`).

`PROJECT.json` lists each of these at its line under `hazards`.

What makes the parts correct:

* *item and bucket* - the item names an object that exists; versions only go
  forward; a refused request changed nothing; no object is left behind;
* *routes* - seen from outside, a shelf with atomic writes;
* *distribution* - an execution never precedes its row and its package; the
  modified flag is cleared only for what was distributed; a block expires, and so
  does the row of a device that never reports;
* *batch write* - nil means stored; it ends, but for one way to stand still; no
  more goroutines than slots;
* *pages* - what stays in a list or a table during a walk is shown to the one who
  walks; nothing is handed out twice; the walk over a list that has stopped changing
  ends; a deletion that reports no
  error has deleted what matched.

## 2. The modules

| module | models | kind |
|---|---|---|
| `UserBookmarks` | the item, the pure operators of the helpers, the update by fields | operators |
| `BookmarkApi` | the bookmark routes, call by call | specification |
| `BookmarkRepair` | `BookmarkApi` with a history variable: what an answered write is worth after a lost update | history |
| `BookmarkShelf` | what these routes promise a client | abstract specification |
| `ApiImplementsShelf` | the refinement mapping from the first to the second | refinement |
| `DistributionApi` | both distribution routes beside `BookmarkApi`, which it EXTENDS and composes | specification |
| `BatchWriter` | AddBatchRecords over a SizedWaitGroup | specification |
| `ListPages` | the pages of GET `/bookmarks`, a client that follows them, and the writes of the list beside it | specification |
| `TablePages` | GetRecordsByPagination and DeleteBatchRecords over a table that others write | specification |
| `BookmarkApi_proofs` | the theorems about `BookmarkApi` | proofs |
| `BookmarkRepair_proofs` | the theorem about `BookmarkRepair`; it EXTENDS `BookmarkApi_proofs` | proofs |
| `ApiImplementsShelf_proofs` | that the routes implement the shelf, for one writer; it EXTENDS `BookmarkApi_proofs` | proofs |
| `DistributionApi_proofs` | the theorems about `DistributionApi`; it EXTENDS `BookmarkApi_proofs` for its lemmas | proofs |
| `DistributionOneWriter_proofs` | what `modifiedBookmarks` promises beside one writer; it EXTENDS `DistributionApi_proofs` and `ApiImplementsShelf_proofs` | proofs |
| `ListPages_proofs`, `TablePages_proofs` | the theorems about `ListPages` and `TablePages` | proofs |
| `BatchWriter_proofs` | the theorems about `BatchWriter` | proofs |
| `MCBookmarkApi`, `MCBookmarkRepair`, `MCApiImplementsShelf`, `MCDistributionApi`, `MCPageWalks` | instances for TLC; the last one holds `ListPages` and `TablePages` side by side | model values, bounds, symmetry |

`BatchWriter` needs no MC module: its constants are numbers and strings.
Definitions named `...Ignoring...`, `...Unmarked` and the like, marked *Mutant*
in a comment, are wrong forms of the definition that follows them. They are used
by nothing; put in the place of the right form, each makes TLC report the
property it is paired with in `PROJECT.json`.

### UserBookmarks and BookmarkApi

`record` is the user's item, `replica` the copy that an eventually consistent
GetItem may return, `bucket` the list under each version, `handler[h]` the local
state of invocation `h`, `now` the clock. `lostUpdate` is history: it becomes TRUE
when an item is written over one that the writer had not read.

A version `1.0.n` is the number `n`, its `_DELETED` form a flag. Versions go on
after a deletion, so `Rank` puts items in one order. A list is the set of its
URLs: order, repetition and pages make no difference to these steps.

An invocation goes through the phases `getItem -> getObject -> putObject ->
commit -> deleteObject -> done`, one action per call:

| action | code |
|---|---|
| `Receive`, `Reply` | the request and its validation (400); the answer |
| `GetItem` | `GetBookmarkByUser`, then what each handler decides from the item |
| `GetObject`, `GetObjectFails` | the list of the version seen; GET, HEAD, the merge of POST and the removal of DELETE `:url` |
| `PutObject`, `Commit`, `DeleteObject` | `AddBookmarksInS3Bucket`; DELETE `/bookmarks` enters at `commit` |
| `VersionFails` | the error path of `GetIncrementedVersion`, used as the bound of versions |
| `ClientFails`, `Kill` | a client that cannot be built or a list that is not JSON; the 30 s timeout or death of the Lambda |
| `Replicate`, `Tick` | DynamoDB's replica; time |

`Faults` chooses which faults an instance has: `staleRead`, `readError` (an error
of GetItem reads as no item), `writeError` (a write is reported as failed, with or
without effect), `clientError`, `kill`.

`lostUpdate` stays TRUE once it is set, and `BackedUnlessLostUpdate`, `NeverRollsBack`,
`NothingLeftBehind` and `UnmodifiedMeansDistributed` say nothing of the states behind it:
they show that a lost update is the *only* way to part an item from its list, to take
a version back and so on. What holds behind one is the subject of `BookmarkRepair`
and of `ClearedListWasPackaged`.

### BookmarkRepair

Adds no step to `BookmarkApi`, only `undisturbed`: the invocations since whose GetItem no
other one has changed the item or a list. `UndisturbedWriteHolds`: when such an invocation
answers a write with success, its list is stored, named by the item and the one that its
client asked for (or the item is deleted), whatever the item was before - one that names
a missing list, one that rolled back - and whether it was read stale or not at all. So
the next undisturbed PUT or DELETE repairs what a lost update broke. POST and the
removal of an entry need the old list: they are refused as long as it is missing.

### BookmarkShelf and the refinement

A shelf holds a list or nothing. A write takes effect at one instant between its
request and its answer, or not at all; a read that succeeds returns the list of
one instant of its call. The mapping: the shelf is the list under the version
that `record` names, so a write takes effect at `Commit` and nowhere else -
neither at PutObject nor at DeleteObject. A read that has looked but not yet
fetched may lose its list as a write ends, and then answers 404; this is what the
code does and the abstract `EndWrite` says so.

The refinement is one of a single writer: two writers that saw the same version
replace each other's lists. `BookmarkApi` states this as `OneWriter` (of the
invocations that run at once at most one has requests that write; any number may
read), and, as `FreshReads`, that GetItem returns the item of the table. They are
hypotheses of the theorems that need them, not assumptions of the module; the
instance of `api_shelf` is checked to satisfy both.

### DistributionApi

Adds `summary` (packages), `devices` (rows), `executions` (inputs started) and
`job[d]`, the local state of an invocation of the two routes. POST
`/bookmarks/summary` goes through `getItem -> getDevices -> lock -> getObject ->
putPackage -> addJobs -> (addRecord -> startExecution)* -> final`, with `fail` for
the path that marks the item as failed. GET `/bookmarks/pages` goes through
`getItem -> query -> rows* -> expire`. A request may name a device twice. The
results of the step function (`DeviceReports`, `DistributionEnds`) come from
lambdas that are not in the repository; they are external and may do what the
statuses of the rows allow.

A request to distribute that has no JSON body is answered with 400 by gin's BindJSON,
and the handler goes on and distributes to all devices: `bodyless` keeps that answer
(`Sent`). `DistInit` is a new user's first state, `DistInitStored` one with a first list stored.

`ClearedListWasPackaged` is `UnmodifiedMeansDistributed` without its exception for lost
updates. When the last update of a distribution undoes a PUT, the item goes back to
the version that was packaged, whose list the PUT has deleted or will delete. The flag,
cleared by the same update, is then not clear for a list that nobody packaged. It needs that one distribution runs at a time (`OneDistributor`).

`DevicesExpire` is about the row of a device that never reports. A new distribution gives
the device a fresh row, also one that fails at StartExecution, so a user who
starts them again and again keeps it Pending; and a time-out is written from a row read
earlier, so it may replace a result or a fresh row. What holds is that a row whose time has
run out for good is expired by whoever asks for the status, however many of these
requests die on the way, also between two rows.

### BatchWriter

`main` is AddBatchRecords, `worker[b]` the goroutine of batch `b`, `slots` the
channel inside the SizedWaitGroup, `wg` its counter, `err` the named result that
all goroutines assign. `Check` models the race on `err`: the test and the operand
of the send each find the goroutine's own result or what another has written.
A send on the closed channel and the use of a nil result set `crashed`, which
ends the process. `clobbered` is history: an error in `err` was overwritten
with nil. `Blocked` names the state in which the code stands still: the loop waits
for a slot, and each slot is held by a goroutine that waits for the `select` behind
the loop to receive its error.

### ListPages

Here a list is a sequence of URLs, since order and repetition decide what a page
shows. `client` asks page after page (`StartWalk`, `GetBookmarks`), and the routes that write
replace `list` at one instant each, as `BookmarkShelf` promises. The cursor is the
URL of the last entry shown. `Position` and `paginateBookmarks` are the code's:
the first entry with that URL, or the start when there is none; an entry that
would stand alone on the last page goes with the page before; a page past the end is
a 404. `Mangled` are the URLs whose base64 has a plus sign: the cursor is escaped
for a path, sent in a query, and comes back with a blank (`DecodedCursor`).
`walk` is history: what the client was shown, which entries stood in the list all
the time, which were in it at any time (`known`), and whether a write moved what
stays or brought back a URL that had left (`KeepsOrder`). `NoCursor`, the empty
cursor, is no URL: `util.ValidateURL` refuses the empty one
(`pkg/util/url_validator.go`).

### TablePages

A table has a record, or none, under each of the keys `1..K`; `replica` is the copy that
an eventually consistent read may see. `Pages` is what DynamoDB may answer: as many
records as asked for or fewer, in order and without a gap, with a key to go on from
whenever records are left and possibly when none are. `reader` is
GetRecordsByPagination and the caller that hands in the key it was given, until
there is none; a call may take several pages (`NextPage`) and drops what it does not
need of the last. It fails in two ways. When a page cannot be had it returns the key it
was given (`NextPageFails`). When the records it has read cannot be converted it returns the error
beside the key *behind* them, or beside none after the last page (`ConversionFails`); the
caller then goes on from the key it held, or from that one, and in the second case is
`strayed`: it misses records, or gets them again. `HandedOutInOrder` and
`StandingHandedOut` are about callers that have not strayed. An entity without a key is
refused before a page is read, at every call, so a walk over one never starts.
`deleter` is DeleteBatchRecords: `ScanPage`, then `DeleteBatch`, `EmptyBatch`
(DynamoDB refuses a batch without requests, so a page without a match ends the
scan with an error) or `DeleteFails`. Single records are written and deleted
beside both. `standing` and `doomed` are history: the keys that were there, or
that matched, during the whole walk.

## 3. The runs

Deadlock is checked in every run but `page_walks`, where clients and callers may
stop for good; `BatchWriter` has the step `Ended` for the states where it has
finished or is `Blocked`.

| run | instance | shows |
|---|---|---|
| `api_races` | 3 invocations (2 for PUT, POST and DELETE `:url`, 1 for DELETE), versions to 2, stale reads, writers symmetric | `BackedUnlessLostUpdate`, `NothingLeftBehind`, `NeverRollsBack` under every interleaving |
| `api_faults` | 2 invocations of PUT, DELETE `:url`, DELETE; versions to 2; stale reads, read and write errors, kills | the inductive invariant `IndInv`, `RefusedLeavesNoTrace`, and after any lost update `UndisturbedWriteHolds` |
| `api_shelf` | 1 writer and 1 reader, all operations, versions to 3, write errors, client errors, kills | `ImplementsShelf` |
| `dist_races` | 2 distributions at once (symmetric) and 1 writer (PUT), versions to 2 | `ExecutionHasItsInputs`, `UnmodifiedMeansDistributed` under every interleaving |
| `dist_faults` | 1 distribution that names its device up to twice, 1 writer (PUT, DELETE), every write and client may fail | the same where a distribution fails half-way, and `ClearedListWasPackaged` where it undoes a PUT |
| `dist_expires` | distributions one after the other over 2 devices beside status requests, kills, read errors, time to 2 | `BlockExpires`, `DevicesExpire` |
| `batch_writes` | 4 batches, 2 slots, calls that fail, 1 retry, items left unprocessed | `AtMostSize`, `OkMeansStored`, `AlwaysEnds` |
| `page_walks` | lists of up to 4 of 4 URLs, one of them with a lost cursor, limits 1 and 2, 2 writes; tables of 3 keys, pages of 2, 1 change, 1 failing call of either kind, stale reads | `UnwrittenListInFull`, `NothingStandingMissed`, `WalkEnds`; `HandedOutInOrder`, `StandingHandedOut`, `MatchesGone` |
| `dist_lock`, `dist_end_time`, `dist_dangling`, `batch_retries` | small instances | the four disagreements below |

**Bounds.** `MaxVersion` 2 gives a version, its deletion, its successor and the
deletion of that: the hazards need a writer that is one or more of these steps behind. It
is 3 in `api_shelf`, where one writer goes through several writes in a row. Where the bound leaves no next version a write takes the error
path of `GetIncrementedVersion`, so the bound adds no behaviour the code lacks.
`MaxTime` and `DelayedStatusTime` are in ticks: the ten minutes are "more than
`DelayedStatusTime` ticks", and one tick is enough to expire. One user is enough,
as users share no state. `dist_expires` has no writer: it starts from a new user, or
from one with a list. Two concurrent writers and a third invocation are enough
for the orders above: each is a race of two, seen by a third. `LastRequest` bounds
when a distribution starts, so that the clock can pass its expiry; `DevicesExpire` names
what it takes from that bound as its hypothesis. The two runs
of distributions that race or fail have one device and no URL, so that the only
list is the empty one, and a stored object still differs from a missing one: two
devices or two lists pass 10 million states with two distributions. A device
named twice takes the loop of `addDistributionJobs` round twice, so a failure finds an
execution started and a row written; that these are of another device changes
none of the decisions. Two distributions and
failing writes are in different runs for the same reason. `retryAttempt`
is 100 in the code and 1 here, `maxConcurrency` 40 and here 2; what matters is
how they compare with the number of calls that fail and of batches. Lists of 4
entries have, with limits 1 and 2, pages that are full, that are cut, that hold
the lone last entry and that are missing. `MaxSent` bounds what a request sends;
initial lists are any of `MaxLength`. Tables of 3 keys with pages of 2 have a
full page, a short one and a last one; `MaxChanges` and `MaxErrors` are 1, and a
change may come before, between or after any two steps.

**Fairness.** `BlockExpires` assumes only that time goes on (`WF` of `Tick`): no
invocation need finish, as a Lambda may be killed. The expiry is in the
reader, which is why this is enough. `DevicesExpire` assumes the same, and says
itself that status requests go on being answered, and that the row's time runs out
for good, which no one need grant: new distributions may renew it for ever. `AlwaysEnds`
assumes that the Go scheduler runs each goroutine that can run. `WalkEnds` assumes that a
client which was given a cursor asks again and is answered (`WF` of `GetBookmarks`),
and says itself that the list stops changing (`ListSettles`): writes that take away the
entry of the cursor again and again keep a client walking. In the instances the bounds
`LastRequest` and `MaxWrites` make both hypotheses true in the end; the properties claim
nothing for behaviours without them. Every other property is a safety property and
assumes nothing.

**Disagreements** (runs that TLC must find violated):

* `dist_lock`: `updateDistributionStatus` never stores the status it is given, so
  `BookmarksLocked` (`pkg/constant/statuses.go`) never reaches the table, and the
  check of PUT is not atomic with its write: the version moves under a pending
  distribution, which the tests expect PUT to refuse with 403.
* `dist_dangling`: the updates of a distribution write back the version it read;
  after a PUT in between, the item names a list that was deleted and GET is 404.
* `dist_end_time`: clearing `EndTimestamp` has no effect, as `StructToMap` leaves
  zero values out: a second distribution is Pending and has an end.
* `batch_retries`: after the last retry, `processEntityBatch` reads a nil output
  and panics, although an error message is ready for that case.

Some limits of the passing runs are facts about the code:

* `AlwaysEnds` allows AddBatchRecords to stand still in `Blocked`: with fewer
  slots than batches and goroutines that report errors, they keep their slots until the
  loop is over and the loop waits for a slot. The property says that there is no
  other way to wait for ever.
* `OkMeansStored` excludes histories where a goroutine overwrote the error of
  another in `err`: then AddBatchRecords does return nil for a list that is not stored.
* `UnmodifiedMeansDistributed` is a property of one writer whose reads are fresh
  and succeed: a writer with a stale or failed read may replace the list under a
  version that was distributed.
* `WalkEnds` and `UnwrittenListInFull` exclude lists that hold a URL twice, which
  PUT stores, and lists that hold one whose cursor is lost: a walk over them may go
  round for ever. `NothingStandingMissed` excludes writes that change the order
  of the list or bring back a URL that had left it.
* `BackedUnlessLostUpdate`, `NeverRollsBack`, `NothingLeftBehind`, `IndInv` and
  `UnmodifiedMeansDistributed` excuse everything after a write over an item that its
  writer never saw. Such writes do happen, and `dist_dangling` shows one.
* `HandedOutInOrder` and `StandingHandedOut` exclude callers that go on from the key which
  comes with a conversion error. Nothing in the repository says which key to use.
* A time-out may replace a result that came in late or the row of a new distribution, a
  second distribution the rows of the first, and a request without a body reads 400
  though it distributes: the model has all three, and no property forbids them.
* `MatchesGone` excludes calls in which DynamoDB left items unprocessed, which
  DeleteBatchRecords does not look at.

## 4. The proofs

TLAPS proves the theorems below for every value of the constants that satisfies the
named assumptions `BoundsAssumption`, `ApiAssumption`, `DistributionAssumption`,
`BatchAssumption`, `ListAssumption` and `TableAssumption`: any set of invocations, URLs,
devices and faults, any number of batches, slots and retries, any page limit, any bound.
Where a theorem has hypotheses of its own they stand before the arrow.

| theorem | statement |
|---|---|
| `TypeCorrect` | `Spec => []TypeOK` |
| `Invariance` | `Spec => []IndInv` |
| `ItemBacked` | `Spec => []BackedUnlessLostUpdate` |
| `VersionsGoForward` | `Spec => NeverRollsBack` |
| `RefusalIsHarmless` | `Spec => []RefusedLeavesNoTrace` |
| `BucketStaysTidy` | `Spec => []NothingLeftBehind` |
| `UndisturbedWrites` | `RepairSpec => []UndisturbedWriteHolds` |
| `WriterIsSound` | `OneWriter`, `FreshReads`: `Spec => []ShelfInv` |
| `RoutesImplementShelf` | `OneWriter`, `FreshReads`: `Spec => ImplementsShelf` |
| `DistTypeCorrect` | `DistSpec => []DistTypeOK` |
| `DistItemBacked` | `DistSpec => []BackedUnlessLostUpdate` |
| `ExecutionsAreFed` | `DistSpec => []ExecutionHasItsInputs` |
| `DistVersionsGoForward` | `DistSpec => NeverRollsBack` |
| `ClearedMeansDistributed` | `OneWriter`, `FreshReads`: `DistSpec => []UnmodifiedMeansDistributed` |
| `ClearedListsWerePackaged` | `OneWriter`, `FreshReads`, `OneDistributor`: `DistSpec => []ClearedListWasPackaged` |
| `BatchTypeCorrect` | `Spec => []BatchTypeOK` (of `BatchWriter`) |
| `GroupHoldsItsSize` | `Spec => []AtMostSize` |
| `NilMeansStored` | `Spec => []OkMeansStored` |
| `TableTypeCorrect` | `TableSpec => []TableTypeOK` |
| `WalkInOrder` | `TableSpec => []HandedOutInOrder` |
| `WalkIsComplete` | `TableSpec => []StandingHandedOut` |
| `DeletionIsComplete` | `TableSpec => []MatchesGone` |
| `ListTypeCorrect` | `ListSpec => []ListTypeOK` |
| `PagesMakeUpTheList` | `ListSpec => []UnwrittenListInFull` |
| `WalkMissesNothing` | `ListSpec => []NothingStandingMissed` |

**The bookmark routes.** That the item names a stored list (`Backed`) is not
inductive. `IndInv` is, and says as long as no update was lost:

* `NothingFromTheFuture` - no invocation and no replica holds an item younger than
  the stored one; so a write whose reader was up to date moves the item forward;
* `NextListStored` - an invocation about to write the item that follows the stored
  one has already stored its list: the order PutObject, then update;
* `DeletesOnlyThePast` - an invocation about to delete a list has seen its item
  followed: the order update, then DeleteObject;
* `Backed` itself;

with `TypeOK` and `PhaseOK` (what an invocation carries in each phase) in every
state. The proof has one lemma per action. A write whose reader was not up to
date sets `lostUpdate` and owes nothing more; for every other step one shows
that the object named by the item is not the one deleted (`DeletesOnlyThePast`
and `NothingFromTheFuture`), and that an object which is overwritten is overwritten
with a list. `NeverRollsBack` follows from the invariant and the fact that only
`Commit` changes the item. Two properties have an inductive invariant of their own:
`RefusedLeavesNoTrace` (`Honest`: an invocation that can still refuse has not
written) and `NothingLeftBehind` (`NoStrays`: every stored list is the item's, or
in the hands of an invocation that will name it or remove it).

**Undisturbed writes.** `UndisturbedWriteHolds` has no exception for lost updates, so
nothing of `IndInv` but its types can help. `RepairInv` follows the one invocation that
nobody disturbs: what it is about to store is what its client asked for (`Ready`); at the
update its list is stored under the version that follows the item it read; behind the
update the item names that version, and DeleteObject removes another one (`InHand`).
A step of one invocation that touches the item or a list makes the others disturbed, so
only its own steps count (`RepairStep`).

**The refinement.** A write of the abstract shelf computes its list from the list
the shelf has at that instant; the code computed it from the list of a version it read
calls earlier. What joins the two is `ShelfInv`: no update was lost, and each
invocation is `Sound` -

* `OnItsWay` - its phase is one that its operation passes through;
* `UpToDate` - a writer that has not written the item yet has seen the one in the
  table (`Rank`), which holds because no one else moves it and a time-out of the
  status does not change its rank;
* `Composed` - from PutObject to the update the writer holds what its request makes
  (`EffectOn`) of the list that the item names;
* `Uploaded` - at the update that list is stored under the next version.

`IndInv` and `ShelfInv` give the step mapping. An update that takes effect (`Commit`)
is the abstract `Write`, for DELETE with an empty shelf; the DeleteObject behind it,
or the answer, is `EndWrite`, where the abstract step names as losers exactly the
readers that hold the path of the deleted object. `GetItem` of a read is the instant at which it
looks, `GetObject` returns the list it looked at, since an object is replaced or
deleted only by the writer, and only under a version that is not the item's
(`NextListStored`, `DeletesOnlyThePast`). Everything else - PutObject, an update that
did not take effect, the clock - is a stutter; calls that fail and invocations that are killed
end their call. There is one lemma per action for the invariant and one for the mapping.

**The distributions.** `DistInv` is `IndInv` with three parts more. `IndInv` is
carried over by two facts: a step of the bookmark routes keeps it (cited from
`BookmarkApi_proofs`), and whatever a distribution writes has the version and the
deletion of the item it saw (`Rank`), so that it either changes nothing that
`IndInv` speaks of or sets `lostUpdate` (`RewriteKeeps`). `JobPart` says what a distributor
relies on in each phase (`Ready`): the item it saw exists; from `addJobs` to
`startExecution` the package of its version is there, unless the version is a
deletion; in `startExecution` so is the row of its device. `FedPart` says the same of the
executions. Rows and packages are replaced and never removed (`Kept`), so that the
steps of the others take nothing of this away: that is why a second distribution,
or a device named twice, does no harm here.

**The modified flag.** `UnmodifiedMeansDistributed` joins five stores and what several
invocations hold: the item, its list, its package, the executions, and the items
that distributors read calls ago and write back. Its inductive invariant is `FlagInv`:
every list is one of valid URLs (`ValidPart`, so that packing it changes nothing), and
as long as no update was lost `ShelfInv` and `FlagPart` hold. `FlagPart` says the
property of the item in the table (`ItemPart`), and of each distributor that

* it holds no item of the future (`NotYounger`);
* an item that it saw unmodified, if it is still the table's, has been packed and given to
  an execution (`Known`), so that writing it back - as locked, failed, or timed out -
  clears no flag that should be set;
* on its way to clear the flag it holds the list of the item, has packed it from
  `addJobs` on, and has started an execution at `final` (`OnCourse`) - all of this
  only while the item is still the one it saw (`Current`). When the writer has moved
  the item meanwhile, the distributor's next write of it is a lost update.

The steps of the routes move the item, which sets the flag and makes no distributor
`Current`, or leave the item and its list alone (`RoutesMoveItem`). A second
distribution of the same version writes the same package. That the writer is one and
its reads are fresh is needed: a second writer with the same version replaces the
list under a version that may have been distributed.

`ClearedListWasPackaged` cannot lean on `FlagPart`, which ends at the first lost update, and
`PackInv` cannot say that the distributor is `Current`. It says instead that versions and
lists only meet from one side: an item whose flag is clear is `Earned` - its list
was packaged, and is that one or gone - and so is the item that the one distributor holds,
which is never younger than the table's (`Holding`); the writer's, until it has
written, is never older (`InTurn`). So what the writer stores and names lies ahead of every version
that the distributor can write back, and the list of such a version stays, or goes. A second distributor could go back further than the first has, which
is why the theorem asks for one.

**Batch writes.** `BatchInv` has six parts: `TypePart`; `LoopPart` (which goroutines
exist, by where the loop is); `SlotsPart` (the slots in use are the goroutines that
have not released theirs, and the one the loop has taken for the goroutine it is
about to start); `CountPart` (the counter of the group is the number of goroutines
that have not called Done); `StoredPart` (a goroutine past its calls has stored its
batch or has an error); `ErrPart` (as long as no error was overwritten, `err`
holds the error of any goroutine that failed). The cardinalities are reasoned about with
`FiniteSetTheorems`.

**Pages of a table.** `TableInv` has, beside the types, `HistoryPart` (what stood
or matched all the time is in the table and in the replica, so whichever of them a
page is read from has it), `WalkPart` (what was handed out and what the
call holds back are in order, end at the key given and at the position reached), `StandingPart`
(a standing record up to the position has been handed out or is held back) and `DoomedPart` (a
doomed record up to the position is in the batch, or a batch was left unprocessed). The first two
hold as long as the caller has not strayed; `ConversionFails` ends them or restarts the call. A page
is used through one lemma (`PageFacts`): it is in order, behind its start, and
what it leaves out lies behind its last record.

**Pages of a list.** `ListInv` has `KnownPart` (what was shown, what stands and what the
list holds is known), `PassedPart` (as long as nothing moved and the entry of the cursor is in the list, every
entry that stood up to it has been shown; once that entry is taken away the next
request starts from the beginning, and since no URL comes back it owes nothing before) and
`UnwrittenPart` (of a plain list that nobody wrote, exactly the entries up to the
position were shown, none twice). The operators are characterised by
lemmas: `Position` finds the first entry with the URL, a page is the
entries between two positions, and the loops `removeDuplicates` and
`deleteMatchingBookmarks` return lists of URLs no longer than their argument. For the
loops, which are recursive functions, induction is done over a *set* of numbers
(`Induction`: a set with 0 that has, with a number, the next one, has them all), which needs no
operator as a parameter; its base is the well-foundedness of `<` on the natural numbers.

`IndInv` is the formula that the run `api_faults` checks. The other inductive
invariants stand in the modules of the proofs; TLC finds them true on instances of the runs: `DistInv`
on `dist_races`, `dist_faults` and `dist_expires`, `BatchInv` on `batch_writes`,
`NoStrays` on `api_races`, `ShelfInv` on `api_shelf`, `FlagInv` on `dist_races` and
`dist_faults`, `PackInv` on `dist_faults`, `RepairInv` on `api_faults`, `ListInv` and `TableInv` on `page_walks`.

**Only model-checked:** the liveness properties `BlockExpires`, `DevicesExpire`,
`AlwaysEnds` and `WalkEnds`, which are out of the prover's reach. Every safety
property of a passing run, and the refinement, is proved.

## 5. Not modelled

* `GetAllRecords`, `UpdateRecordsByExpression`, conditional deletes of one record, key
  templates: no route calls them, and each is one forwarded call.
* The 1 MB limit of a query: the rows of a user's devices are answered in one page.
* Limits below 1 of GET `/bookmarks`: a negative limit, or 0, makes
  `paginateBookmarks` or its caller index out of range; what it should do is not stated.
* The CloudWatch client: nothing calls it. Which sequence token a caller hands in,
  and what it does after an error, is not in the code; the rest of that protocol
  is the service's.
* Conversion of CSV and JSON, compression, checksums, presigned URLs, logging: data that
  no decision here depends on. Whether a URL is valid is the constant `ValidUrls`.
* Middleware, authorizer, JWT: sequential, no state.
* SNS, SQS, Kinesis, STS, LaunchDarkly clients: one forwarded call each; no route
  decides by a flag. The LaunchDarkly client is made once per container, and an error
  of that is kept for the container's life (listed as a hazard).
* Table and bucket creation, mocks, integration tests: not part of the running API.
* The fields `operationId` and `syncEnabled`: nothing reads them to decide.

## 6. Plan

In this order:

1. An abstract specification of a distribution (requested, running, ended or
   expired) that `DistributionApi` implements for one invocation at a time.
2. Proofs: that this abstract distribution is implemented; that a list of `ListPages`
   is written only as the shelf allows, which joins `ListPages` to `BookmarkApi` by a
   theorem where the modules are now joined by a comment.
3. Tables of 4 keys, and two devices with two distributions, by a reduction of the
   writer's steps.
