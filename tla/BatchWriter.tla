---------------------------- MODULE BatchWriter ----------------------------
(***************************************************************************)
(* AddBatchRecords of pkg/dynamodb: a list of entities, cut into batches,  *)
(* is written by one goroutine per batch, as many at a time as a           *)
(* SizedWaitGroup admits.  The goroutines share the result err of the      *)
(* function, report an error over the channel fatalErrors, and a further   *)
(* goroutine closes wgDone when all have ended.  A batch is its number.    *)
(***************************************************************************)
EXTENDS Integers, FiniteSets

CONSTANTS N,                \* how many batches the list makes
          maxConcurrency,   \* how many goroutines run at a time
          retryAttempt,     \* how often a call that failed is repeated
          Outages           \* what BatchWriteItem may do besides writing a batch

ASSUME BatchAssumption == /\ N \in Nat \ {0}
                          /\ maxConcurrency \in Nat \ {0}
                          /\ retryAttempt \in Nat
                          /\ Outages \subseteq {"callFails", "unprocessed"}

Batches == 1 .. N
Errors  == {"nil", "error"}

VARIABLES main,      \* where AddBatchRecords is
          next,      \* the batch its loop is at
          err,       \* its named result, which every goroutine assigns
          worker,    \* the goroutine of each batch
          slots,     \* len(swg.current)
          wg,        \* the counter of the sync.WaitGroup inside
          closed,    \* fatalErrors is closed
          crashed,   \* a goroutine panicked, and the process with it
          stored,    \* the batches that are in the table
          clobbered  \* history: an error in err was overwritten with nil

vars == <<main, next, err, worker, slots, wg, closed, crashed, stored, clobbered>>

\* own is the result of processEntityBatch, value what is sent.
Workers == [pc : {"none", "write", "check", "send", "release", "done", "ended"},
            tries : 0 .. retryAttempt, own : Errors, value : Errors]

Go == [pc |-> "write", tries |-> 0, own |-> "nil", value |-> "nil"]

WorkerAt(b, phase) == ~crashed /\ worker[b].pc = phase
MainAt(phase)      == ~crashed /\ main = phase

-----------------------------------------------------------------------------
(* The loop: swg.Add blocks for a free slot, then the goroutine starts.    *)

\* Mutant: the channel is one longer.
HasFreeSlotAndOne(n) == n <= maxConcurrency

HasFreeSlot(n) == n < maxConcurrency

Add ==
    /\ MainAt("add")
    /\ HasFreeSlot(slots)
    /\ slots' = slots + 1
    /\ main' = "go"
    /\ UNCHANGED <<next, err, worker, wg, closed, crashed, stored, clobbered>>

Spawn ==
    /\ MainAt("go")
    /\ wg' = wg + 1
    /\ worker' = [worker EXCEPT ![next] = Go]
    /\ next' = next + 1
    /\ main' = IF next = N THEN "select" ELSE "add"
    /\ UNCHANGED <<err, slots, closed, crashed, stored, clobbered>>

-----------------------------------------------------------------------------
(* processEntityBatch.                                                     *)

SetErr(result) ==
    /\ err' = result
    /\ clobbered' = (clobbered \/ (err = "error" /\ result = "nil"))

\* The goroutine assigns the result of its batch to err, whatever is there.
Assign(b, result) ==
    /\ SetErr(result)
    /\ worker' = [worker EXCEPT ![b].pc = "check", ![b].own = result]

WriteBatch(b) ==
    /\ WorkerAt(b, "write")
    /\ stored' = stored \union {b}
    /\ Assign(b, "nil")
    /\ UNCHANGED <<main, next, slots, wg, closed, crashed>>

\* Mutant: the items left unprocessed are not looked at.
UnprocessedUnnoticed(b) ==
    /\ WorkerAt(b, "write")
    /\ "unprocessed" \in Outages
    /\ Assign(b, "nil")
    /\ UNCHANGED <<main, next, slots, wg, closed, crashed, stored>>

\* A call that leaves items unprocessed is an error at once, as is an entity
\* without its keys.
LeaveUnprocessed(b) ==
    /\ WorkerAt(b, "write")
    /\ "unprocessed" \in Outages
    /\ Assign(b, "error")
    /\ UNCHANGED <<main, next, slots, wg, closed, crashed, stored>>

\* Mutant: one repetition more.
RetryOnceMore(tries) == tries <= retryAttempt

MayRetry(tries) == tries < retryAttempt

\* A call that fails is repeated after a second.  The last one has no result,
\* whose unprocessed items are counted all the same: a nil dereference.
CallFails(b) ==
    /\ WorkerAt(b, "write")
    /\ "callFails" \in Outages
    /\ \/ /\ MayRetry(worker[b].tries)
          /\ worker' = [worker EXCEPT ![b].tries = @ + 1]
          /\ UNCHANGED crashed
       \/ /\ ~MayRetry(worker[b].tries)
          /\ crashed' = TRUE
          /\ UNCHANGED worker
    /\ UNCHANGED <<main, next, err, slots, wg, closed, stored, clobbered>>

-----------------------------------------------------------------------------
(* The end of a goroutine.                                                 *)

\* err != nil, then the operand of the send.  Nothing orders these reads and
\* the writes of the others: each finds the goroutine's own result or theirs.
Check(b) ==
    /\ WorkerAt(b, "check")
    /\ \E tested, sent \in {worker[b].own, err} :
          worker' = [worker EXCEPT ![b].pc = IF tested = "error" THEN "send" ELSE "release",
                                   ![b].value = sent]
    /\ UNCHANGED <<main, next, err, slots, wg, closed, crashed, stored, clobbered>>

\* A send on a closed channel panics.
SendOnClosed(b) ==
    /\ WorkerAt(b, "send")
    /\ closed
    /\ crashed' = TRUE
    /\ UNCHANGED <<main, next, err, worker, slots, wg, closed, stored, clobbered>>

\* Done, deferred: the slot first, then the counter.
\* Mutant: Done forgets the slot.
FreedNone(n) == n

Freed(n) == n - 1

ReleaseSlot(b) ==
    /\ WorkerAt(b, "release")
    /\ slots' = Freed(slots)
    /\ worker' = [worker EXCEPT ![b].pc = "done"]
    /\ UNCHANGED <<main, next, err, wg, closed, crashed, stored, clobbered>>

DoneWorker(b) ==
    /\ WorkerAt(b, "done")
    /\ wg' = wg - 1
    /\ worker' = [worker EXCEPT ![b].pc = "ended"]
    /\ UNCHANGED <<main, next, err, slots, closed, crashed, stored, clobbered>>

-----------------------------------------------------------------------------
(* The select, and the return.                                             *)

\* wgDone is closed by a goroutine that starts after the loop and does nothing
\* but wait for the counter.
SelectDone ==
    /\ MainAt("select")
    /\ wg = 0
    /\ main' = "return"
    /\ UNCHANGED <<next, err, worker, slots, wg, closed, crashed, stored, clobbered>>

\* Mutant: no error is received before the goroutines have ended.
SelectNoError(b) == FALSE

SelectError(b) ==
    /\ MainAt("select")
    /\ WorkerAt(b, "send")
    /\ SetErr(worker[b].value)
    /\ worker' = [worker EXCEPT ![b].pc = "release"]
    /\ main' = "close"
    /\ UNCHANGED <<next, slots, wg, closed, crashed, stored>>

CloseErrors ==
    /\ MainAt("close")
    /\ closed' = TRUE
    /\ main' = "return"
    /\ UNCHANGED <<next, err, worker, slots, wg, crashed, stored, clobbered>>

\* The caller gets err as it is now.
Return ==
    /\ MainAt("return")
    /\ main' = IF err = "nil" THEN "ok" ELSE "failed"
    /\ UNCHANGED <<next, err, worker, slots, wg, closed, crashed, stored, clobbered>>

Returned == main \in {"ok", "failed"}

\* The loop waits for a slot, and as many goroutines as there are slots wait for
\* the select behind the loop to receive their errors: nothing can go on.
Blocked == MainAt("add") /\ Cardinality({b \in Batches : WorkerAt(b, "send")}) = maxConcurrency

\* Nothing is left to do, or nothing can be done.
Ended ==
    /\ crashed \/ (Returned /\ wg = 0) \/ Blocked
    /\ UNCHANGED vars
-----------------------------------------------------------------------------
Init ==
    /\ main = "add" /\ next = 1 /\ err = "nil"
    /\ worker = [b \in Batches |-> [Go EXCEPT !.pc = "none"]]
    /\ slots = 0 /\ wg = 0
    /\ closed = FALSE /\ crashed = FALSE
    /\ stored = {} /\ clobbered = FALSE

MainStep == Add \/ Spawn \/ SelectDone \/ CloseErrors \/ Return
               \/ (\E b \in Batches : SelectError(b))

WorkerStep(b) == \/ WriteBatch(b) \/ LeaveUnprocessed(b) \/ CallFails(b) \/ Check(b)
                 \/ SendOnClosed(b) \/ ReleaseSlot(b) \/ DoneWorker(b)

Next == MainStep \/ Ended \/ (\E b \in Batches : WorkerStep(b))

Spec == Init /\ [][Next]_vars

\* The Go scheduler runs every goroutine that can run.
FairSpec == /\ Spec
            /\ WF_vars(MainStep)
            /\ \A b \in Batches : WF_vars(WorkerStep(b))

-----------------------------------------------------------------------------
BatchTypeOK ==
    /\ main \in {"add", "go", "select", "close", "return", "ok", "failed"}
    /\ next \in 1 .. N + 1
    /\ err \in Errors
    /\ worker \in [Batches -> Workers]
    /\ slots \in 0 .. N
    /\ wg \in 0 .. N
    /\ {closed, crashed, clobbered} \subseteq BOOLEAN
    /\ stored \subseteq Batches

\* The SizedWaitGroup admits at most its size of goroutines at once, from before
\* a goroutine starts until its Done.
AtMostSize ==
    Cardinality({b \in Batches : worker[b].pc \in {"write", "check", "send"}}) <= maxConcurrency

\* AddBatchRecords returns nil only when every batch is in the table, unless a
\* goroutine overwrote the error of another in the result that they share.
OkMeansStored == (main = "ok" /\ ~clobbered) => stored = Batches

\* AddBatchRecords comes to an end, whatever its calls do, with a panic at the
\* worst, or else it is Blocked: there is no other way for the goroutines, the
\* slots and the two channels to wait for one another.
AlwaysEnds == <>(crashed \/ Returned \/ Blocked)

\* The message of processEntityBatch promises an error after the last retry.
RetriesEndInAnError == ~crashed
=============================================================================
