----------------------- MODULE BookmarkRepair_proofs -----------------------
(***************************************************************************)
(* Theorem about BookmarkRepair, for every set of handlers, every          *)
(* assignment of operations to them, every set of faults and every bound.  *)
(***************************************************************************)
EXTENDS BookmarkRepair, BookmarkApi_proofs

\* The list a handler is about to store, or has stored, is one its client asked for.
Ready(s) ==
    (s.pc \in {"putObject", "commit", "deleteObject"} /\ s.op \in Puts) => Asked(s, s.body)

\* How far an undisturbed handler has come: its list is stored under the next
\* version, then the item names it, and the removal of the old list leaves it so.
InHand(s, r, b) ==
    /\ (s.pc = "commit" /\ s.op \in Puts) => b[GetIncrementedVersion(s.seen)] = s.body
    /\ (s.pc = "deleteObject" /\ s.op \in Puts) =>
          /\ Live(r) /\ r.version = GetIncrementedVersion(s.seen)
          /\ b[r.version] = s.body
    /\ (s.pc = "deleteObject" /\ s.op = "delete") => ~Live(r)
    /\ (s.pc = "done" /\ s.answer = "ok") => AsToldTo(s, r, b)

RepairInv ==
    \A h \in Handlers :
        /\ Ready(handler[h])
        /\ h \in undisturbed => InHand(handler[h], record, bucket)

-----------------------------------------------------------------------------
(* Steps.                                                                  *)

\* A step of one handler leaves the others in hand, unless it disturbs them.
LEMMA RepairStep ==
    ASSUME TypeOK, RepairInv, NEW h \in Handlers, NEW s, Ready(s),
           handler' = [handler EXCEPT ![h] = s], undisturbed' = UndisturbedNow,
           h \in undisturbed' => InHand(s, record', bucket')
    PROVE  RepairInv'
  <1>1. handler'[h] = s /\ \A g \in Handlers \ {h} : handler'[g] = handler[g]
    BY DEF TypeOK
  <1>2. ASSUME NEW g \in Handlers \ {h}, g \in undisturbed'
        PROVE  InHand(handler'[g], record', bucket')
    <2>1. g \in undisturbed /\ record' = record /\ bucket' = bucket
      BY <1>1, <1>2 DEF UndisturbedNow
    <2> QED
      BY <1>1, <2>1 DEF RepairInv
  <1>3. ASSUME NEW g \in Handlers
        PROVE  Ready(handler'[g]) /\ (g \in undisturbed' => InHand(handler'[g], record', bucket'))
    BY <1>1, <1>2 DEF RepairInv
  <1> QED
    BY <1>3 DEF RepairInv

\* An answer other than success promises nothing.
LEMMA RefusalRepair ==
    ASSUME TypeOK, RepairInv, NEW h \in Handlers, NEW answer \in Answers \ {"ok"},
           Finish(h, answer), undisturbed' = UndisturbedNow
    PROVE  RepairInv'
  <1> DEFINE s == Answered(handler[h], answer, {}, handler[h].wrote)
  <1>1. handler[h] \in HandlerStates
    BY DEF TypeOK
  <1>2. s.pc = "done" /\ s.answer = answer
    BY <1>1 DEF Answered, HandlerStates
  <1>3. Ready(s) /\ InHand(s, record', bucket')
    BY <1>2 DEF Ready, InHand
  <1>4. handler' = [handler EXCEPT ![h] = s]
    BY DEF Finish
  <1> QED
    BY <1>3, <1>4, RepairStep

LEMMA LoadRepair ==
    ASSUME TypeOK, RepairInv, NEW h \in Handlers, NEW r, NEW body,
           NEW phase \in {"getObject", "putObject", "commit"},
           Load(h, r, phase, body), undisturbed' = UndisturbedNow,
           phase = "putObject" => handler[h].op \in {"put", "post"} /\ body = handler[h].arg,
           phase = "commit" => handler[h].op = "delete"
    PROVE  RepairInv'
  <1> DEFINE s == [handler[h] EXCEPT !.seen = r, !.pc = phase, !.body = body]
  <1>1. handler[h] \in HandlerStates
    BY DEF TypeOK
  <1>2. s.pc = phase /\ s.op = handler[h].op /\ s.arg = handler[h].arg /\ s.body = body
    BY <1>1 DEF HandlerStates
  <1>3. Ready(s)
    BY <1>2 DEF Ready, Asked, Puts
  <1>4. InHand(s, record', bucket')
    BY <1>2 DEF InHand, Puts
  <1>5. handler' = [handler EXCEPT ![h] = s]
    BY <1>1 DEF Load, HandlerStates, TypeOK
  <1> QED
    BY <1>3, <1>4, <1>5, RepairStep

LEMMA ReceiveRepair ==
    ASSUME TypeOK, RepairInv, NEW h \in Handlers, Receive(h), undisturbed' = UndisturbedNow
    PROVE  RepairInv'
  <1>1. PICK op \in Serves[h] : \E arg \in Requests(op) :
            handler' = [handler EXCEPT ![h] =
                IF Malformed(op, arg)
                  THEN Answered([Idle EXCEPT !.op = op, !.arg = arg, !.pc = "getItem"],
                                "badRequest", {}, FALSE)
                  ELSE [Idle EXCEPT !.op = op, !.arg = arg, !.pc = "getItem"]]
    BY DEF Receive
  <1>2. PICK arg \in Requests(op) :
            handler' = [handler EXCEPT ![h] =
                IF Malformed(op, arg)
                  THEN Answered([Idle EXCEPT !.op = op, !.arg = arg, !.pc = "getItem"],
                                "badRequest", {}, FALSE)
                  ELSE [Idle EXCEPT !.op = op, !.arg = arg, !.pc = "getItem"]]
    BY <1>1
  <1> DEFINE request == [Idle EXCEPT !.op = op, !.arg = arg, !.pc = "getItem"]
  <1>3. Ready(request) /\ InHand(request, record', bucket')
    BY DEF Ready, InHand, Idle
  <1>4. LET s == Answered(request, "badRequest", {}, FALSE)
        IN  Ready(s) /\ InHand(s, record', bucket')
    BY DEF Ready, InHand, Idle, Answered
  <1> QED
    BY <1>2, <1>3, <1>4, RepairStep

LEMMA GetItemRepair ==
    ASSUME TypeOK, RepairInv, NEW h \in Handlers, GetItem(h), undisturbed' = UndisturbedNow
    PROVE  RepairInv'
  <1>1. PICK r \in Snapshots :
          \/ At(h, "getItem", {"put"})    /\ PutBookmarks(h, r)
          \/ At(h, "getItem", {"post"})   /\ PostBookmarks(h, r)
          \/ At(h, "getItem", {"delete"}) /\ DeleteBookmarks(h, r)
          \/ At(h, "getItem", {"remove"}) /\ FindAndDeleteBookmarkEntry(h, r)
          \/ At(h, "getItem", Reads)      /\ GetBookmarksS3Object(h, r)
    BY DEF GetItem
  <1>2. ASSUME NEW answer \in Answers \ {"ok"}, Finish(h, answer) PROVE RepairInv'
    BY <1>2, RefusalRepair
  <1>3. CASE At(h, "getItem", {"put"}) /\ PutBookmarks(h, r)
    BY <1>2, <1>3, LoadRepair DEF At, PutBookmarks, Answers
  <1>4. CASE At(h, "getItem", {"post"}) /\ PostBookmarks(h, r)
    BY <1>2, <1>4, LoadRepair DEF At, PostBookmarks, Answers
  <1>5. CASE At(h, "getItem", {"delete"}) /\ DeleteBookmarks(h, r)
    BY <1>2, <1>5, LoadRepair DEF At, DeleteBookmarks, Answers
  <1>6. CASE At(h, "getItem", {"remove"}) /\ FindAndDeleteBookmarkEntry(h, r)
    BY <1>2, <1>6, LoadRepair DEF FindAndDeleteBookmarkEntry, Answers
  <1>7. CASE At(h, "getItem", Reads) /\ GetBookmarksS3Object(h, r)
    BY <1>2, <1>7, LoadRepair DEF GetBookmarksS3Object, Answers
  <1> QED
    BY <1>1, <1>3, <1>4, <1>5, <1>6, <1>7

ToPut(h, body) ==
    handler' = [handler EXCEPT ![h].pc = "putObject", ![h].body = body]

LEMMA ToPutRepair ==
    ASSUME TypeOK, RepairInv, NEW h \in Handlers, NEW body, ToPut(h, body),
           handler[h].op \in {"post", "remove"}, Asked(handler[h], body),
           undisturbed' = UndisturbedNow
    PROVE  RepairInv'
  <1> DEFINE old == handler[h]
             s   == [old EXCEPT !.pc = "putObject", !.body = body]
  <1>1. old \in HandlerStates
    BY DEF TypeOK
  <1>2. s.pc = "putObject" /\ s.op = old.op /\ s.arg = old.arg /\ s.body = body
    BY <1>1 DEF HandlerStates
  <1>3. Ready(s) /\ InHand(s, record', bucket')
    BY <1>2 DEF Ready, InHand, Asked
  <1>4. handler' = [handler EXCEPT ![h] = s]
    BY <1>1 DEF ToPut, TypeOK, HandlerStates
  <1> QED
    BY <1>3, <1>4, RepairStep

LEMMA GetObjectRepair ==
    ASSUME TypeOK, RepairInv, NEW h \in Handlers, GetObject(h), undisturbed' = UndisturbedNow
    PROVE  RepairInv'
  <1> DEFINE list == bucket[handler[h].seen.version]
             old  == handler[h]
  <1>1. old \in HandlerStates
    BY DEF TypeOK
  <1>2. ASSUME NEW answer \in Answers, NEW body, NEW wrote, old.op \in Reads,
               handler' = [handler EXCEPT ![h] = Answered(old, answer, body, wrote)]
        PROVE  RepairInv'
    <2> DEFINE s == Answered(old, answer, body, wrote)
    <2>1. s.pc = "done" /\ s.op \in Reads
      BY <1>1, <1>2 DEF Answered, HandlerStates
    <2>2. Ready(s) /\ InHand(s, record', bucket')
      BY <2>1 DEF Ready, InHand, AsToldTo, Reads, Puts
    <2> QED
      BY <1>2, <2>2, RepairStep
  <1>3. CASE At(h, "getObject", {"get"}) /\ GetBookmarks(h, list)
    <2>1. old.op \in Reads
      BY <1>3 DEF At, Reads
    <2>2. CASE list = {}
      BY <1>3, <2>2, RefusalRepair DEF GetBookmarks, Answers
    <2>3. CASE list # {}
      <3>1. handler' = [handler EXCEPT ![h] = Answered(old, "ok", list, FALSE)]
        BY <1>3, <2>3 DEF GetBookmarks
      <3> QED
        BY <1>2, <2>1, <3>1 DEF Answers
    <2> QED
      BY <2>2, <2>3
  <1>4. CASE At(h, "getObject", {"head"}) /\ FindBookmarkEntry(h, list)
    <2>1. old.op \in Reads
      BY <1>4 DEF At, Reads
    <2>2. PICK answer \in Answers : Finish(h, answer)
      BY <1>4 DEF FindBookmarkEntry, Answers
    <2>3. handler' = [handler EXCEPT ![h] = Answered(old, answer, {}, old.wrote)]
      BY <2>2 DEF Finish
    <2> QED
      BY <1>2, <2>1, <2>3
  <1>5. CASE At(h, "getObject", {"post"}) /\ getExistingBookmarks(h, list)
    <2>1. Asked(old, list \union old.arg) /\ old.op = "post"
      BY <1>5 DEF At, Asked
    <2>2. ToPut(h, list \union old.arg)
      BY <1>5 DEF getExistingBookmarks, ToPut
    <2> QED
      BY <2>1, <2>2, ToPutRepair
  <1>6. CASE At(h, "getObject", {"remove"}) /\ deleteMatchingBookmarks(h, list)
    <2>1. Asked(old, list \ old.arg) /\ old.op = "remove"
      BY <1>6 DEF At, Asked
    <2>2. ToPut(h, list \ old.arg)
      BY <1>6 DEF deleteMatchingBookmarks, ToPut
    <2> QED
      BY <2>1, <2>2, ToPutRepair
  <1> QED
    BY <1>3, <1>4, <1>5, <1>6 DEF GetObject

\* The caller is told of success only where the call has taken effect.
LEMMA ToldIsDone == \A o \in Outcomes : o.ok => o.applied
  BY DEF Outcomes

LEMMA PutObjectRepair ==
    ASSUME TypeOK, RepairInv, NEW h \in Handlers, PutObject(h), undisturbed' = UndisturbedNow
    PROVE  RepairInv'
  <1> DEFINE old == handler[h]
             v   == GetIncrementedVersion(old.seen)
  <1>1. old \in HandlerStates /\ Ready(old) /\ old.pc = "putObject" /\ old.op \in Puts
        /\ v \in Versions
    BY DEF PutObject, At, TypeOK, RepairInv
  <1>2. PICK o \in Outcomes :
          /\ bucket' = IF o.applied THEN [bucket EXCEPT ![v] = old.body] ELSE bucket
          /\ handler' = [handler EXCEPT ![h] = AfterPut([old EXCEPT !.wrote = o.applied], o.ok)]
    BY DEF PutObject
  <1> DEFINE w == [old EXCEPT !.wrote = o.applied]
             s == AfterPut(w, o.ok)
  <1>3. w.op = old.op /\ w.arg = old.arg /\ w.body = old.body /\ w.seen = old.seen
    BY <1>1 DEF HandlerStates
  <1>4. CASE o.ok
    <2>1. s = [w EXCEPT !.pc = "commit"]
      BY <1>4 DEF AfterPut
    <2>2. s.pc = "commit" /\ s.op = old.op /\ s.arg = old.arg /\ s.body = old.body
          /\ s.seen = old.seen
      BY <1>1, <2>1 DEF HandlerStates
    <2>3. bucket'[v] = old.body
      BY <1>1, <1>2, <1>4, ToldIsDone DEF TypeOK
    <2>4. Ready(s) /\ InHand(s, record', bucket')
      BY <1>1, <2>2, <2>3 DEF Ready, InHand, Asked
    <2> QED
      BY <1>2, <2>4, RepairStep
  <1>5. CASE ~o.ok
    <2>1. s = Answered(w, "error", {}, w.wrote)
      BY <1>5 DEF AfterPut
    <2>2. s.pc = "done" /\ s.answer = "error"
      BY <1>1, <2>1 DEF Answered, HandlerStates
    <2>3. Ready(s) /\ InHand(s, record', bucket')
      BY <2>2 DEF Ready, InHand
    <2> QED
      BY <1>2, <2>3, RepairStep
  <1> QED
    BY <1>4, <1>5

LEMMA CommitRepair ==
    ASSUME TypeOK, PhaseOK, RepairInv, NEW h \in Handlers, Commit(h),
           undisturbed' = UndisturbedNow
    PROVE  RepairInv'
  <1> DEFINE old == handler[h]
             v   == GetIncrementedVersion(old.seen)
             e   == NextItem(h)
  <1>1. old \in HandlerStates /\ old.pc = "commit" /\ old.op \in Puts \union {"delete"}
        /\ Ready(old) /\ Carries(old) /\ old.seen \in Records /\ record \in Records
    BY DEF Commit, At, TypeOK, PhaseOK, RepairInv, HandlerStates
  <1>2. PICK o \in Outcomes :
          /\ WriteRecord(old.seen, e, o.applied)
          /\ handler' = [handler EXCEPT ![h] =
                            AfterCommit([old EXCEPT !.wrote = old.wrote \/ o.applied], o.ok)]
    BY DEF Commit
  <1> DEFINE w == [old EXCEPT !.wrote = old.wrote \/ o.applied]
             s == AfterCommit(w, o.ok)
  <1>3. w.op = old.op /\ w.arg = old.arg /\ w.body = old.body /\ w.seen = old.seen
    BY <1>1 DEF HandlerStates
  <1>4. bucket' = bucket
    BY DEF Commit
  <1>5. CASE ~o.ok
    <2>1. s = Answered(w, "error", {}, w.wrote)
      BY <1>5 DEF AfterCommit
    <2>2. s.pc = "done" /\ s.answer = "error"
      BY <1>1, <2>1 DEF Answered, HandlerStates
    <2>3. Ready(s) /\ InHand(s, record', bucket')
      BY <2>2 DEF Ready, InHand
    <2> QED
      BY <1>2, <2>3, RepairStep
  <1>6. CASE o.ok
    <2>1. record' = Stored(record, old.seen, e)
      BY <1>2, <1>6, ToldIsDone DEF WriteRecord
    <2>2. h \in undisturbed' => h \in undisturbed
      BY <1>1 DEF UndisturbedNow, Early
    <2>3. /\ s.op = old.op /\ s.arg = old.arg /\ s.pc \in {"deleteObject", "done"}
          /\ s.pc = "deleteObject" => s.body = old.body /\ s.seen = old.seen
      <3>1. CASE Live(w.seen)
        <4>1. s = [w EXCEPT !.pc = "deleteObject"]
          BY <1>6, <3>1 DEF AfterCommit
        <4> QED
          BY <1>1, <4>1 DEF HandlerStates
      <3>2. CASE ~Live(w.seen)
        <4>1. s = Answered(w, "ok", {}, w.wrote)
          BY <1>6, <3>2 DEF AfterCommit
        <4> QED
          BY <1>1, <4>1 DEF HandlerStates, Answered
      <3> QED
        BY <3>1, <3>2
    <2>4. Ready(s)
      BY <1>1, <2>3 DEF Ready, Asked
    <2>5. CASE old.op \in Puts
      <3>1. v \in Versions
        BY <1>1, <2>5 DEF Carries
      <3>2. e = WithVersion(old.seen, v)
        BY <2>5 DEF NextItem, Puts
      <3>3. e \in Records /\ Live(e) /\ e.version = v
        BY <1>1, <3>1, <3>2, WithVersionType
      <3>4. Live(record') /\ record'.version = v
        BY <1>1, <2>1, <3>3, StoredType
      <3>5. h \in undisturbed => bucket'[v] = old.body
        BY <1>1, <1>4, <2>5 DEF RepairInv, InHand
      <3>6. old.body # NoObject /\ Asked(s, old.body)
        <4>1. old.body # NoObject
          BY <1>1, ApiAssumption DEF HandlerStates
        <4>2. Asked(old, old.body)
          BY <1>1, <2>5 DEF Ready
        <4> QED
          BY <2>3, <4>1, <4>2 DEF Asked
      <3>7. h \in undisturbed' => InHand(s, record', bucket')
        BY <1>1, <2>2, <2>3, <2>5, <3>4, <3>5, <3>6 DEF InHand, AsToldTo, Puts
      <3> QED
        BY <1>2, <2>4, <3>7, RepairStep
    <2>6. CASE old.op = "delete"
      <3>1. e = WithDeletedSuffix(old.seen) /\ Live(old.seen)
        BY <1>1, <2>6 DEF NextItem, Carries, Puts
      <3>2. e \in Records /\ ~Live(e)
        BY <1>1, <3>1, WithDeletedSuffixType
      <3>3. ~Live(record')
        BY <1>1, <2>1, <3>2, StoredType
      <3>4. InHand(s, record', bucket')
        BY <2>3, <2>6, <3>3 DEF InHand, AsToldTo, Puts
      <3> QED
        BY <1>2, <2>4, <3>4, RepairStep
    <2> QED
      BY <1>1, <2>5, <2>6
  <1> QED
    BY <1>5, <1>6

LEMMA DeleteObjectRepair ==
    ASSUME TypeOK, PhaseOK, RepairInv, NEW h \in Handlers, DeleteObject(h),
           undisturbed' = UndisturbedNow
    PROVE  RepairInv'
  <1> DEFINE old == handler[h]
             past == previousVersion(old.seen)
  <1>1. old \in HandlerStates /\ old.pc = "deleteObject" /\ old.op \in Puts \union {"delete"}
        /\ Ready(old) /\ old.seen \in Records /\ record \in Records
    BY DEF DeleteObject, At, TypeOK, RepairInv, HandlerStates
  <1>2. PICK o \in Outcomes :
          /\ bucket' = IF o.applied THEN [bucket EXCEPT ![past] = NoObject] ELSE bucket
          /\ handler' = [handler EXCEPT ![h] = AfterDelete(old, o.ok)]
    BY DEF DeleteObject
  <1> DEFINE s == AfterDelete(old, o.ok)
  <1>3. record' = record
    BY DEF DeleteObject
  <1>4. s.pc = "done" /\ s.op = old.op /\ s.arg = old.arg
    BY <1>1 DEF AfterDelete, Answered, HandlerStates
  <1>5. Ready(s)
    BY <1>4 DEF Ready
  <1>6. ASSUME h \in undisturbed' PROVE AsToldTo(s, record', bucket')
    <2>1. h \in undisturbed
      BY <1>1, <1>6 DEF UndisturbedNow, Early
    <2>2. InHand(old, record, bucket)
      BY <2>1 DEF RepairInv
    <2>3. CASE old.op \in Puts
      <3>1. Live(record) /\ record.version = GetIncrementedVersion(old.seen)
            /\ bucket[record.version] = old.body
        BY <1>1, <2>2, <2>3 DEF InHand
      <3>2. record.version # past
        BY <1>1, <3>1 DEF previousVersion, GetIncrementedVersion, Records, Versions
      <3>3. bucket'[record.version] = old.body
        BY <1>2, <3>1, <3>2 DEF TypeOK
      <3>4. old.body # NoObject
        BY <1>1, ApiAssumption DEF HandlerStates
      <3>5. Asked(old, old.body)
        BY <1>1, <2>3 DEF Ready
      <3>6. Asked(s, old.body)
        BY <1>4, <3>5 DEF Asked
      <3> QED
        BY <1>3, <1>4, <2>3, <3>1, <3>3, <3>4, <3>6 DEF AsToldTo, Puts
    <2>4. CASE old.op = "delete"
      BY <1>1, <1>3, <1>4, <2>2, <2>4 DEF InHand, AsToldTo, Puts
    <2> QED
      BY <1>1, <2>3, <2>4
  <1>7. h \in undisturbed' => InHand(s, record', bucket')
    BY <1>4, <1>6 DEF InHand
  <1> QED
    BY <1>2, <1>5, <1>7, RepairStep

LEMMA FailureRepair ==
    ASSUME TypeOK, RepairInv, NEW h \in Handlers, undisturbed' = UndisturbedNow,
           GetObjectFails(h) \/ VersionFails(h) \/ ClientFails(h) \/ Kill(h)
    PROVE  RepairInv'
  BY RefusalRepair DEF GetObjectFails, VersionFails, ClientFails, Kill, Answers

\* A step that no handler takes leaves the item and the lists alone.
LEMMA QuietRepair ==
    ASSUME RepairInv, UNCHANGED <<record, bucket, handler>>,
           \A h \in Handlers : h \in undisturbed' => h \in undisturbed \/ handler[h].pc \in Early
    PROVE  RepairInv'
  BY DEF RepairInv, InHand, Early

-----------------------------------------------------------------------------
\* Nothing that went before, and no fault it meets itself, makes a write that is
\* answered with success fail to do what it was asked for, as long as no other
\* write runs beside it: this holds after lost updates as well.
THEOREM UndisturbedWrites == RepairSpec => []UndisturbedWriteHolds
  <1> DEFINE I == TypeOK /\ PhaseOK /\ RepairInv
             N == Next /\ undisturbed' = UndisturbedNow
  <1>1. RepairInit => I
    <2>1. RepairInit => RepairInv
      BY DEF RepairInit, RepairInv, Ready, Init, InitEmpty, InitLocal, Idle
    <2> QED
      BY <2>1, InitType DEF RepairInit
  <1>2. I /\ [N]_repairVars => I'
    <2> SUFFICES ASSUME I, [N]_repairVars PROVE I'
      OBVIOUS
    <2>1. [Next]_apiVars
      BY DEF repairVars
    <2>2. TypeOK' /\ PhaseOK'
      BY <2>1, NextType
    <2>3. ASSUME NEW h \in Handlers, Reply(h), undisturbed' = UndisturbedNow PROVE RepairInv'
      <3>1. Ready(Idle) /\ InHand(Idle, record', bucket')
        BY DEF Ready, InHand, Idle
      <3> QED
        BY <2>3, <3>1, RepairStep DEF Reply
    <2>4. ASSUME NEW h \in Handlers, Step(h), undisturbed' = UndisturbedNow PROVE RepairInv'
      <3> HIDE DEF N
      <3> QED
        BY <2>3, <2>4, ReceiveRepair, GetItemRepair, GetObjectRepair, PutObjectRepair,
           CommitRepair, DeleteObjectRepair, FailureRepair DEF Step
    <2>5. ASSUME Replicate \/ Tick, undisturbed' = UndisturbedNow PROVE RepairInv'
      <3>1. UNCHANGED <<record, bucket, handler>>
        BY <2>5 DEF Replicate, Tick
      <3>2. \A h \in Handlers :
                h \in undisturbed' => h \in undisturbed \/ handler[h].pc \in Early
        BY <2>5 DEF UndisturbedNow
      <3> QED
        BY <3>1, <3>2, QuietRepair
    <2>6. ASSUME UNCHANGED repairVars PROVE RepairInv'
      BY <2>6, QuietRepair DEF repairVars, apiVars
    <2>7. ASSUME N PROVE RepairInv'
      <3>1. undisturbed' = UndisturbedNow /\ Next
        BY <2>7
      <3> QED
        BY <2>4, <2>5, <3>1 DEF Next
    <2> QED
      BY <2>2, <2>6, <2>7
  <1>3. I => UndisturbedWriteHolds
    <2> SUFFICES ASSUME I, NEW h \in Handlers, h \in undisturbed,
                        handler[h].pc = "done", handler[h].answer = "ok"
                 PROVE  AsToldTo(handler[h], record, bucket)
      BY DEF UndisturbedWriteHolds
    <2> QED
      BY DEF RepairInv, InHand
  <1> HIDE DEF I, N
  <1>4. RepairSpec => []I
    BY <1>1, <1>2, PTL DEF RepairSpec, N
  <1> QED
    BY <1>3, <1>4, PTL
=============================================================================
