------------------------- MODULE BatchWriter_proofs -------------------------
(***************************************************************************)
(* Theorems about BatchWriter, for every number of batches and of slots,   *)
(* every number of retries and every way for calls to fail.                *)
(***************************************************************************)
EXTENDS BatchWriter, FiniteSetTheorems, TLAPS

-----------------------------------------------------------------------------
(* The inductive invariant.                                                *)

\* The goroutines that hold a slot, and those that the WaitGroup counts.
Holding == {b \in Batches : worker[b].pc \in {"write", "check", "send", "release"}}
Counted == {b \in Batches : worker[b].pc \in {"write", "check", "send", "release", "done"}}

TypePart ==
    /\ main \in {"add", "go", "select", "close", "return", "ok", "failed"}
    /\ next \in 1 .. N + 1
    /\ err \in Errors
    /\ worker \in [Batches -> Workers]
    /\ slots \in Nat /\ wg \in Nat
    /\ closed \in BOOLEAN /\ crashed \in BOOLEAN /\ clobbered \in BOOLEAN
    /\ stored \subseteq Batches

\* The loop has started the goroutines of the batches before next.
LoopPart ==
    /\ main \in {"add", "go"} => next <= N
    /\ main \notin {"add", "go"} => next = N + 1
    /\ \A b \in Batches : worker[b].pc = "none" <=> b >= next

\* A slot is taken for each goroutine that has not released it, and for the one
\* that is about to start.
SlotsPart ==
    /\ slots = Cardinality(Holding) + (IF main = "go" THEN 1 ELSE 0)
    /\ slots <= maxConcurrency

CountPart == wg = Cardinality(Counted)

\* A goroutine that is past its batch has stored it, or has an error.
StoredPart ==
    \A b \in Batches : worker[b].pc \notin {"none", "write"} /\ worker[b].own = "nil"
                          => b \in stored

\* Until an error is overwritten it stays in err: that of every goroutine, and
\* one for every goroutine that sends.
ErrPart ==
    ~clobbered =>
        /\ \A b \in Batches : worker[b].own = "error" \/ worker[b].pc = "send" => err = "error"
        /\ main = "close" => err = "error"
        /\ main = "return" => err = "error" \/ \A b \in Batches : worker[b].pc = "ended"
        /\ main = "ok" => \A b \in Batches : worker[b].pc = "ended" /\ worker[b].own = "nil"

BatchInv == TypePart /\ LoopPart /\ SlotsPart /\ CountPart /\ StoredPart /\ ErrPart

-----------------------------------------------------------------------------
(* Counting goroutines.                                                    *)

LEMMA BatchesFinite == IsFiniteSet(Batches) /\ Cardinality(Batches) = N
  BY BatchAssumption, FS_Interval DEF Batches

LEMMA SetsFinite ==
    /\ IsFiniteSet(Holding) /\ Cardinality(Holding) \in Nat
    /\ IsFiniteSet(Counted) /\ Cardinality(Counted) \in Nat
  <1>1. Holding \subseteq Batches /\ Counted \subseteq Batches
    BY DEF Holding, Counted
  <1>2. IsFiniteSet(Holding) /\ IsFiniteSet(Counted)
    BY <1>1, BatchesFinite, FS_Subset
  <1> QED
    BY <1>2, FS_CardinalityType

\* No more goroutines count than the loop has started.
LEMMA StartedBound ==
    ASSUME TypePart, LoopPart
    PROVE  Cardinality(Holding) <= next - 1 /\ Cardinality(Counted) <= next - 1
  <1>1. next \in Int /\ next >= 1 /\ next <= N + 1
    BY BatchAssumption DEF TypePart
  <1>2. Holding \subseteq 1 .. (next - 1) /\ Counted \subseteq 1 .. (next - 1)
    BY <1>1, BatchAssumption DEF Holding, Counted, LoopPart, Batches
  <1>3. IsFiniteSet(1 .. (next - 1)) /\ Cardinality(1 .. (next - 1)) = next - 1
    BY <1>1, FS_Interval
  <1>4. /\ Cardinality(Holding) <= Cardinality(1 .. (next - 1))
        /\ Cardinality(Counted) <= Cardinality(1 .. (next - 1))
    BY <1>2, <1>3, FS_Subset
  <1> QED
    BY <1>3, <1>4

\* The invariant implies the properties that the runs check.
LEMMA InvImplies == BatchInv => BatchTypeOK /\ AtMostSize /\ OkMeansStored
  <1> SUFFICES ASSUME BatchInv PROVE BatchTypeOK /\ AtMostSize /\ OkMeansStored
    OBVIOUS
  <1> USE DEF BatchInv
  <1>1. BatchTypeOK
    <2>1. Cardinality(Holding) <= next - 1 /\ Cardinality(Counted) <= next - 1
      BY StartedBound
    <2>2. slots \in 0 .. N
      BY <2>1, SetsFinite, BatchAssumption DEF SlotsPart, LoopPart, TypePart
    <2>3. wg \in 0 .. N
      BY <2>1, SetsFinite, BatchAssumption DEF CountPart, TypePart
    <2> QED
      BY <2>2, <2>3 DEF TypePart, BatchTypeOK
  <1>2. AtMostSize
    <2> DEFINE Working == {b \in Batches : worker[b].pc \in {"write", "check", "send"}}
    <2>1. Working \subseteq Holding
      BY DEF Holding
    <2>2. Cardinality(Working) <= Cardinality(Holding) /\ Cardinality(Working) \in Nat
      BY <2>1, SetsFinite, FS_Subset, FS_CardinalityType
    <2>3. Cardinality(Holding) <= maxConcurrency
      BY SetsFinite, BatchAssumption DEF SlotsPart, TypePart
    <2> HIDE DEF Working
    <2>4. Cardinality(Working) <= maxConcurrency
      BY <2>2, <2>3, SetsFinite, BatchAssumption
    <2> QED
      BY <2>4 DEF AtMostSize, Working
  <1>3. OkMeansStored
    BY DEF OkMeansStored, ErrPart, StoredPart, TypePart
  <1> QED
    BY <1>1, <1>2, <1>3

-----------------------------------------------------------------------------
(* The first state, and the steps.                                         *)

LEMMA InitInv == Init => BatchInv
  <1> SUFFICES ASSUME Init PROVE BatchInv
    OBVIOUS
  <1>1. \A b \in Batches : worker[b].pc = "none" /\ worker[b].own = "nil"
    BY DEF Init, Go
  <1>2. TypePart
    <2>1. [Go EXCEPT !.pc = "none"] \in Workers
      BY BatchAssumption DEF Go, Workers, Errors
    <2>2. worker \in [Batches -> Workers]
      BY <2>1 DEF Init
    <2>3. next \in 1 .. N + 1
      BY BatchAssumption DEF Init
    <2> QED
      BY <2>2, <2>3 DEF Init, TypePart, Errors
  <1>3. LoopPart
    BY <1>1, BatchAssumption DEF Init, LoopPart, Batches
  <1>4. Holding = {} /\ Counted = {}
    BY <1>1 DEF Holding, Counted
  <1>5. SlotsPart /\ CountPart
    BY <1>4, FS_EmptySet, BatchAssumption DEF Init, SlotsPart, CountPart
  <1>6. StoredPart /\ ErrPart
    BY <1>1 DEF Init, StoredPart, ErrPart
  <1> QED
    BY <1>2, <1>3, <1>5, <1>6 DEF BatchInv

LEMMA AddKeeps == BatchInv /\ Add => BatchInv'
  <1> SUFFICES ASSUME BatchInv, Add PROVE BatchInv'
    OBVIOUS
  <1> USE DEF BatchInv, Add, MainAt
  <1>1. TypePart'
    BY DEF TypePart
  <1>2. LoopPart'
    BY DEF LoopPart
  <1>3. Holding' = Holding /\ Counted' = Counted
    BY DEF Holding, Counted
  <1>4. SlotsPart' /\ CountPart'
    BY <1>3, SetsFinite, BatchAssumption DEF SlotsPart, CountPart, HasFreeSlot, TypePart
  <1>5. StoredPart' /\ ErrPart'
    BY DEF StoredPart, ErrPart
  <1> QED
    BY <1>1, <1>2, <1>4, <1>5

LEMMA SpawnKeeps == BatchInv /\ Spawn => BatchInv'
  <1> SUFFICES ASSUME BatchInv, Spawn PROVE BatchInv'
    OBVIOUS
  <1> USE DEF BatchInv, Spawn, MainAt
  <1>1. next \in Batches /\ next \in Int /\ N \in Nat
    BY BatchAssumption DEF TypePart, LoopPart, Batches
  <1>2. Go \in Workers
    BY BatchAssumption DEF Go, Workers, Errors
  <1>3. worker \in [Batches -> Workers] /\ worker' = [worker EXCEPT ![next] = Go]
    BY DEF TypePart
  <1>4. /\ worker'[next].pc = "write" /\ worker'[next].own = "nil"
        /\ \A b \in Batches : b # next => worker'[b] = worker[b]
    BY <1>1, <1>3 DEF Go
  <1>5. TypePart'
    <2>1. worker' \in [Batches -> Workers]
      BY <1>1, <1>2, <1>3
    <2>2. next' \in 1 .. N + 1 /\ wg' \in Nat
      BY <1>1 DEF TypePart, Batches
    <2> QED
      BY <2>1, <2>2 DEF TypePart
  <1>6. LoopPart'
    <2>1. \A b \in Batches : worker'[b].pc = "none" <=> b >= next + 1
      BY <1>1, <1>4 DEF LoopPart, Batches
    <2> QED
      BY <1>1, <2>1 DEF LoopPart, TypePart
  <1>7. next \notin Holding /\ next \notin Counted
    BY <1>1 DEF Holding, Counted, LoopPart
  <1>8. Holding' = Holding \union {next} /\ Counted' = Counted \union {next}
    BY <1>1, <1>4 DEF Holding, Counted
  <1>9. /\ Cardinality(Holding') = Cardinality(Holding) + 1
        /\ Cardinality(Counted') = Cardinality(Counted) + 1
    BY <1>7, <1>8, SetsFinite, FS_AddElement
  <1>10. SlotsPart' /\ CountPart'
    <2>1. slots = Cardinality(Holding) + 1 /\ slots' = slots /\ main' # "go"
      BY DEF SlotsPart
    <2>2. SlotsPart'
      BY <1>9, <2>1, SetsFinite DEF SlotsPart
    <2> QED
      BY <1>9, <2>2, SetsFinite DEF CountPart
  <1>11. StoredPart' /\ ErrPart'
    BY <1>1, <1>4 DEF StoredPart, ErrPart
  <1> QED
    BY <1>5, <1>6, <1>10, <1>11

\* The end of the batch of a goroutine, which assigns its result to err.
LEMMA AssignKeeps ==
    ASSUME BatchInv, NEW b \in Batches, NEW result \in Errors,
           WorkerAt(b, "write"), Assign(b, result),
           stored' = (IF result = "nil" THEN stored \union {b} ELSE stored),
           UNCHANGED <<main, next, slots, wg, closed, crashed>>
    PROVE  BatchInv'
  <1> USE DEF BatchInv, WorkerAt, Assign, SetErr
  <1>1. worker \in [Batches -> Workers]
    BY DEF TypePart
  <1>2. /\ worker' \in [Batches -> Workers]
        /\ worker'[b].pc = "check" /\ worker'[b].own = result
        /\ \A c \in Batches : c # b => worker'[c] = worker[c]
    BY <1>1 DEF Workers
  <1>3. TypePart'
    BY <1>2 DEF TypePart
  <1>4. LoopPart'
    BY <1>2 DEF LoopPart
  <1>5. Holding' = Holding /\ Counted' = Counted
    BY <1>2 DEF Holding, Counted
  <1>6. SlotsPart' /\ CountPart'
    BY <1>5 DEF SlotsPart, CountPart
  <1>7. StoredPart'
    BY <1>2 DEF StoredPart
  <1>8. ErrPart'
    <2> SUFFICES ASSUME ~clobbered'
                 PROVE  /\ \A c \in Batches :
                              worker'[c].own = "error" \/ worker'[c].pc = "send" => err' = "error"
                        /\ main' = "close" => err' = "error"
                        /\ main' = "return" => err' = "error" \/ \A c \in Batches : worker'[c].pc = "ended"
                        /\ main' = "ok" => \A c \in Batches : worker'[c].pc = "ended" /\ worker'[c].own = "nil"
      BY DEF ErrPart
    <2>1. ~clobbered /\ (err = "error" => err' = "error")
      BY DEF Errors, TypePart
    <2>2. worker[b].pc # "ended"
      OBVIOUS
    <2> QED
      BY <1>2, <2>1, <2>2 DEF ErrPart
  <1> QED
    BY <1>3, <1>4, <1>6, <1>7, <1>8

LEMMA WriteBatchKeeps == ASSUME NEW b \in Batches PROVE BatchInv /\ WriteBatch(b) => BatchInv'
  BY AssignKeeps DEF WriteBatch, Errors

LEMMA LeaveUnprocessedKeeps ==
    ASSUME NEW b \in Batches PROVE BatchInv /\ LeaveUnprocessed(b) => BatchInv'
  BY AssignKeeps DEF LeaveUnprocessed, Errors

\* A goroutine moves on without touching err, the table or the main routine.
LEMMA MoveKeeps ==
    ASSUME BatchInv, NEW b \in Batches,
           worker' \in [Batches -> Workers],
           \A c \in Batches : c # b => worker'[c] = worker[c],
           worker'[b].own = worker[b].own,
           worker[b].pc \notin {"none", "ended"}, worker'[b].pc # "none",
           worker'[b].pc # "write" => worker[b].pc # "write",
           worker'[b].pc = "send" => worker[b].own = "error" \/ err = "error",
           UNCHANGED <<main, next, err, closed, stored, clobbered>>
    PROVE  LoopPart' /\ StoredPart' /\ ErrPart'
  <1> USE DEF BatchInv
  <1>1. LoopPart'
    BY DEF LoopPart
  <1>2. StoredPart'
    BY DEF StoredPart
  <1>3. ErrPart'
    BY DEF ErrPart
  <1> QED
    BY <1>1, <1>2, <1>3

LEMMA CallFailsKeeps == ASSUME NEW b \in Batches PROVE BatchInv /\ CallFails(b) => BatchInv'
  <1> SUFFICES ASSUME BatchInv, CallFails(b) PROVE BatchInv'
    OBVIOUS
  <1> USE DEF WorkerAt, CallFails
  <1>1. worker \in [Batches -> Workers]
    BY DEF TypePart, BatchInv
  <1>2. worker[b].tries \in 0 .. retryAttempt /\ retryAttempt \in Nat
    BY <1>1, BatchAssumption DEF Workers
  <1>3. /\ worker' \in [Batches -> Workers]
        /\ worker'[b].pc = "write" /\ worker'[b].own = worker[b].own
        /\ \A c \in Batches : c # b => worker'[c] = worker[c]
    <2>1. CASE MayRetry(worker[b].tries) /\ worker' = [worker EXCEPT ![b].tries = @ + 1]
      <3>1. worker[b].tries + 1 \in 0 .. retryAttempt
        BY <1>2, <2>1 DEF MayRetry
      <3> QED
        BY <1>1, <2>1, <3>1 DEF Workers
    <2>2. CASE UNCHANGED worker
      BY <1>1, <2>2
    <2> QED
      BY <2>1, <2>2
  <1>4. TypePart'
    BY <1>3 DEF TypePart, BatchInv
  <1>5. LoopPart' /\ StoredPart' /\ ErrPart'
    BY <1>3, MoveKeeps
  <1>6. Holding' = Holding /\ Counted' = Counted
    BY <1>3 DEF Holding, Counted
  <1>7. SlotsPart' /\ CountPart'
    BY <1>6 DEF SlotsPart, CountPart, BatchInv
  <1> QED
    BY <1>4, <1>5, <1>7 DEF BatchInv

LEMMA CheckKeeps == ASSUME NEW b \in Batches PROVE BatchInv /\ Check(b) => BatchInv'
  <1> SUFFICES ASSUME BatchInv, Check(b) PROVE BatchInv'
    OBVIOUS
  <1> USE DEF WorkerAt, Check
  <1>1. worker \in [Batches -> Workers] /\ err \in Errors
    BY DEF TypePart, BatchInv
  <1>2. PICK tested, sent \in {worker[b].own, err} :
            worker' = [worker EXCEPT ![b].pc = IF tested = "error" THEN "send" ELSE "release",
                                     ![b].value = sent]
    OBVIOUS
  <1>3. /\ worker' \in [Batches -> Workers]
        /\ worker'[b].pc \in {"send", "release"} /\ worker'[b].own = worker[b].own
        /\ worker'[b].pc = "send" => worker[b].own = "error" \/ err = "error"
        /\ \A c \in Batches : c # b => worker'[c] = worker[c]
    BY <1>1, <1>2 DEF Workers
  <1>4. TypePart'
    BY <1>3 DEF TypePart, BatchInv
  <1>5. LoopPart' /\ StoredPart' /\ ErrPart'
    BY <1>3, MoveKeeps
  <1>6. Holding' = Holding /\ Counted' = Counted
    BY <1>3 DEF Holding, Counted
  <1>7. SlotsPart' /\ CountPart'
    BY <1>6 DEF SlotsPart, CountPart, BatchInv
  <1> QED
    BY <1>4, <1>5, <1>7 DEF BatchInv

LEMMA SendOnClosedKeeps ==
    ASSUME NEW b \in Batches PROVE BatchInv /\ SendOnClosed(b) => BatchInv'
  <1> SUFFICES ASSUME BatchInv, SendOnClosed(b) PROVE BatchInv'
    OBVIOUS
  <1> USE DEF BatchInv, SendOnClosed
  <1>1. TypePart' /\ LoopPart' /\ StoredPart' /\ ErrPart'
    BY DEF TypePart, LoopPart, StoredPart, ErrPart
  <1>2. Holding' = Holding /\ Counted' = Counted
    BY DEF Holding, Counted
  <1> QED
    BY <1>1, <1>2 DEF SlotsPart, CountPart

LEMMA ReleaseSlotKeeps ==
    ASSUME NEW b \in Batches PROVE BatchInv /\ ReleaseSlot(b) => BatchInv'
  <1> SUFFICES ASSUME BatchInv, ReleaseSlot(b) PROVE BatchInv'
    OBVIOUS
  <1> USE DEF WorkerAt, ReleaseSlot, Freed
  <1>1. worker \in [Batches -> Workers]
    BY DEF TypePart, BatchInv
  <1>2. /\ worker' \in [Batches -> Workers]
        /\ worker'[b].pc = "done" /\ worker'[b].own = worker[b].own
        /\ \A c \in Batches : c # b => worker'[c] = worker[c]
    BY <1>1 DEF Workers
  <1>3. LoopPart' /\ StoredPart' /\ ErrPart'
    BY <1>2, MoveKeeps
  <1>4. b \in Holding /\ Holding' = Holding \ {b} /\ Counted' = Counted
    BY <1>2 DEF Holding, Counted
  <1>5. Cardinality(Holding') = Cardinality(Holding) - 1 /\ Cardinality(Holding') \in Nat
    <2>1. IsFiniteSet(Holding \ {b}) /\ Cardinality(Holding \ {b}) = Cardinality(Holding) - 1
      BY <1>4, SetsFinite, FS_RemoveElement
    <2> QED
      BY <1>4, <2>1, FS_CardinalityType
  <1>6. SlotsPart' /\ slots' \in Nat
    <2>1. slots \in Nat /\ maxConcurrency \in Nat
      BY BatchAssumption DEF TypePart, BatchInv
    <2> QED
      BY <1>5, <2>1, SetsFinite DEF SlotsPart, BatchInv
  <1>7. TypePart'
    BY <1>2, <1>6 DEF TypePart, BatchInv
  <1>8. CountPart'
    BY <1>4 DEF CountPart, BatchInv
  <1> QED
    BY <1>3, <1>6, <1>7, <1>8 DEF BatchInv

LEMMA DoneWorkerKeeps ==
    ASSUME NEW b \in Batches PROVE BatchInv /\ DoneWorker(b) => BatchInv'
  <1> SUFFICES ASSUME BatchInv, DoneWorker(b) PROVE BatchInv'
    OBVIOUS
  <1> USE DEF WorkerAt, DoneWorker
  <1>1. worker \in [Batches -> Workers]
    BY DEF TypePart, BatchInv
  <1>2. /\ worker' \in [Batches -> Workers]
        /\ worker'[b].pc = "ended" /\ worker'[b].own = worker[b].own
        /\ \A c \in Batches : c # b => worker'[c] = worker[c]
    BY <1>1 DEF Workers
  <1>3. LoopPart' /\ StoredPart' /\ ErrPart'
    BY <1>2, MoveKeeps
  <1>4. b \in Counted /\ Counted' = Counted \ {b} /\ Holding' = Holding
    BY <1>2 DEF Holding, Counted
  <1>5. Cardinality(Counted') = Cardinality(Counted) - 1 /\ Cardinality(Counted') \in Nat
    <2>1. IsFiniteSet(Counted \ {b}) /\ Cardinality(Counted \ {b}) = Cardinality(Counted) - 1
      BY <1>4, SetsFinite, FS_RemoveElement
    <2> QED
      BY <1>4, <2>1, FS_CardinalityType
  <1>6. CountPart' /\ wg' \in Nat
    BY <1>5 DEF CountPart, BatchInv
  <1>7. TypePart'
    BY <1>2, <1>6 DEF TypePart, BatchInv
  <1>8. SlotsPart'
    BY <1>4 DEF SlotsPart, BatchInv
  <1> QED
    BY <1>3, <1>6, <1>7, <1>8 DEF BatchInv

-----------------------------------------------------------------------------
(* The select and the return.                                              *)

\* When the counter is zero behind the loop, every goroutine has ended.
LEMMA SelectDoneKeeps == BatchInv /\ SelectDone => BatchInv'
  <1> SUFFICES ASSUME BatchInv, SelectDone PROVE BatchInv'
    OBVIOUS
  <1> USE DEF BatchInv, SelectDone, MainAt
  <1>1. Counted = {}
    BY SetsFinite, FS_EmptySet DEF CountPart
  <1>2. \A b \in Batches : worker[b].pc # "none"
    BY BatchAssumption DEF LoopPart, Batches
  <1>3. \A b \in Batches : worker[b].pc = "ended"
    BY <1>1, <1>2 DEF Counted, TypePart, Workers
  <1>4. Holding' = Holding /\ Counted' = Counted
    BY DEF Holding, Counted
  <1>5. TypePart' /\ LoopPart' /\ StoredPart'
    BY DEF TypePart, LoopPart, StoredPart
  <1>6. SlotsPart' /\ CountPart'
    BY <1>4 DEF SlotsPart, CountPart
  <1>7. ErrPart'
    BY <1>3 DEF ErrPart
  <1> QED
    BY <1>5, <1>6, <1>7

LEMMA SelectErrorKeeps ==
    ASSUME NEW b \in Batches PROVE BatchInv /\ SelectError(b) => BatchInv'
  <1> SUFFICES ASSUME BatchInv, SelectError(b) PROVE BatchInv'
    OBVIOUS
  <1> USE DEF BatchInv, SelectError, MainAt, WorkerAt, SetErr
  <1>1. worker \in [Batches -> Workers] /\ worker[b].value \in Errors
    BY DEF TypePart, Workers
  <1>2. /\ worker' \in [Batches -> Workers]
        /\ worker'[b].pc = "release" /\ worker'[b].own = worker[b].own
        /\ \A c \in Batches : c # b => worker'[c] = worker[c]
    BY <1>1 DEF Workers
  <1>3. TypePart'
    BY <1>1, <1>2 DEF TypePart
  <1>4. LoopPart' /\ StoredPart'
    BY <1>2 DEF LoopPart, StoredPart
  <1>5. Holding' = Holding /\ Counted' = Counted
    BY <1>2 DEF Holding, Counted
  <1>6. SlotsPart' /\ CountPart'
    BY <1>5 DEF SlotsPart, CountPart
  <1>7. ErrPart'
    <2>1. ~clobbered' => err' = "error"
      BY <1>1 DEF ErrPart, Errors
    <2> QED
      BY <2>1 DEF ErrPart
  <1> QED
    BY <1>3, <1>4, <1>6, <1>7

LEMMA CloseErrorsKeeps == BatchInv /\ CloseErrors => BatchInv'
  <1> SUFFICES ASSUME BatchInv, CloseErrors PROVE BatchInv'
    OBVIOUS
  <1> USE DEF BatchInv, CloseErrors, MainAt
  <1>1. TypePart' /\ LoopPart' /\ StoredPart' /\ ErrPart'
    BY DEF TypePart, LoopPart, StoredPart, ErrPart
  <1>2. Holding' = Holding /\ Counted' = Counted
    BY DEF Holding, Counted
  <1> QED
    BY <1>1, <1>2 DEF SlotsPart, CountPart

LEMMA ReturnKeeps == BatchInv /\ Return => BatchInv'
  <1> SUFFICES ASSUME BatchInv, Return PROVE BatchInv'
    OBVIOUS
  <1> USE DEF BatchInv, Return, MainAt
  <1>1. TypePart' /\ LoopPart' /\ StoredPart'
    BY DEF TypePart, LoopPart, StoredPart
  <1>2. Holding' = Holding /\ Counted' = Counted
    BY DEF Holding, Counted
  <1>3. SlotsPart' /\ CountPart'
    BY <1>2 DEF SlotsPart, CountPart
  <1>4. ErrPart'
    <2>1. \A b \in Batches : worker[b].own \in {"nil", "error"}
      BY DEF TypePart, Workers, Errors
    <2> QED
      BY <2>1 DEF ErrPart
  <1> QED
    BY <1>1, <1>3, <1>4

LEMMA NothingKeeps == BatchInv /\ UNCHANGED vars => BatchInv'
  <1> SUFFICES ASSUME BatchInv, UNCHANGED vars PROVE BatchInv'
    OBVIOUS
  <1> USE DEF BatchInv, vars
  <1>1. TypePart' /\ LoopPart' /\ StoredPart' /\ ErrPart'
    BY DEF TypePart, LoopPart, StoredPart, ErrPart
  <1>2. Holding' = Holding /\ Counted' = Counted
    BY DEF Holding, Counted
  <1> QED
    BY <1>1, <1>2 DEF SlotsPart, CountPart

LEMMA NextKeeps == BatchInv /\ [Next]_vars => BatchInv'
  <1> SUFFICES ASSUME BatchInv, [Next]_vars PROVE BatchInv'
    OBVIOUS
  <1>1. CASE MainStep
    BY <1>1, AddKeeps, SpawnKeeps, SelectDoneKeeps, SelectErrorKeeps, CloseErrorsKeeps,
       ReturnKeeps DEF MainStep
  <1>2. ASSUME NEW b \in Batches, WorkerStep(b) PROVE BatchInv'
    BY <1>2, WriteBatchKeeps, LeaveUnprocessedKeeps, CallFailsKeeps, CheckKeeps,
       SendOnClosedKeeps, ReleaseSlotKeeps, DoneWorkerKeeps DEF WorkerStep
  <1>3. CASE Ended \/ UNCHANGED vars
    BY <1>3, NothingKeeps DEF Ended
  <1> QED
    BY <1>1, <1>2, <1>3 DEF Next

-----------------------------------------------------------------------------
(* The theorems.                                                           *)

LEMMA BatchInvariance == Spec => []BatchInv
  BY InitInv, NextKeeps, PTL DEF Spec

\* The loop index, the slots and the counter of the WaitGroup stay within the
\* number of batches, and no call is repeated more than retryAttempt times.
THEOREM BatchTypeCorrect == Spec => []BatchTypeOK
  BY BatchInvariance, InvImplies, PTL

\* Whatever order goroutines start, fail and end in, no more of them are at work
\* than the SizedWaitGroup has slots.
THEOREM GroupHoldsItsSize == Spec => []AtMostSize
  BY BatchInvariance, InvImplies, PTL

\* AddBatchRecords returns nil only when every batch is stored, unless a goroutine
\* overwrote the error of another.
THEOREM NilMeansStored == Spec => []OkMeansStored
  BY BatchInvariance, InvImplies, PTL
=============================================================================
