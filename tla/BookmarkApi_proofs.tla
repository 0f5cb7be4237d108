------------------------- MODULE BookmarkApi_proofs -------------------------
(***************************************************************************)
(* Theorems about BookmarkApi, for every set of handlers, every assignment *)
(* of operations to them, every set of faults and every bound.             *)
(***************************************************************************)
EXTENDS BookmarkApi, TLAPS

-----------------------------------------------------------------------------
(* The operators on items.                                                 *)

\* The rank of an item is a natural number.
LEMMA RankType == ASSUME NEW r \in Records PROVE Rank(r) \in Nat
  BY DEF Rank, Records, Versions

\* Timing a status out keeps an item an item, and its version.
LEMMA TimeoutKeeps ==
    ASSUME NEW r \in Records, NEW t \in Times
    PROVE  /\ updateDelayedDistributionToTimeout(r, t) \in Records
           /\ Rank(updateDelayedDistributionToTimeout(r, t)) = Rank(r)
  BY DEF updateDelayedDistributionToTimeout, Records, Rank, Statuses

LEMMA NoRecordType == NoRecord \in Records /\ Rank(NoRecord) = 0
  BY BoundsAssumption DEF NoRecord, Records, Rank, Statuses, NoStatus, Times, ZeroTime

\* What GetBookmarkByUser returns is an item that is not younger than the table's.
LEMMA SnapshotsType ==
    ASSUME TypeOK, NEW r \in Snapshots
    PROVE  /\ r \in Records
           /\ NothingFromTheFuture => Rank(r) <= Rank(record)
  <1>1. PICK s \in {record, replica} :
            r = updateDelayedDistributionToTimeout(s, now) \/ r = NoRecord
    BY DEF Snapshots
  <1>2. s \in Records /\ record \in Records /\ now \in Times
    BY <1>1 DEF TypeOK
  <1>3. r \in Records /\ (Rank(r) = Rank(s) \/ Rank(r) = 0)
    BY <1>1, <1>2, TimeoutKeeps, NoRecordType
  <1>4. NothingFromTheFuture => Rank(s) <= Rank(record)
    BY <1>1, <1>2, RankType DEF NothingFromTheFuture
  <1> QED
    BY <1>2, <1>3, <1>4, RankType

\* A new version is an item, and outranks the item it follows.
LEMMA WithVersionType ==
    ASSUME NEW r \in Records, NEW v \in Versions, v = GetIncrementedVersion(r)
    PROVE  /\ WithVersion(r, v) \in Records
           /\ Live(WithVersion(r, v))
           /\ WithVersion(r, v).version = v
           /\ Rank(WithVersion(r, v)) = 2 * r.version + 2
           /\ Rank(WithVersion(r, v)) > Rank(r)
  <1> DEFINE e == WithVersion(r, v)
  <1>1. e \in Records /\ e.version = v /\ e.deleted = FALSE
    BY DEF WithVersion, Records, Versions
  <1>2. v = r.version + 1 /\ r.version \in Nat /\ r.deleted \in BOOLEAN /\ v # 0
    BY DEF GetIncrementedVersion, Records, Versions
  <1> QED
    BY <1>1, <1>2 DEF Live, Exists, Rank

\* So is a deletion.
LEMMA WithDeletedSuffixType ==
    ASSUME NEW r \in Records, Live(r)
    PROVE  /\ WithDeletedSuffix(r) \in Records
           /\ ~Live(WithDeletedSuffix(r))
           /\ WithDeletedSuffix(r).version = r.version
           /\ Rank(WithDeletedSuffix(r)) = 2 * r.version + 1
           /\ Rank(WithDeletedSuffix(r)) > Rank(r)
  <1> DEFINE e == WithDeletedSuffix(r)
  <1>1. e \in Records /\ e.version = r.version /\ e.deleted = TRUE
    BY DEF WithDeletedSuffix, Records
  <1>2. r.version \in Nat /\ r.deleted = FALSE
    BY DEF Live, Records, Versions
  <1> QED
    BY <1>1, <1>2 DEF Live, Rank

\* Leaving the zero values out of an update changes neither version nor deletion.
LEMMA StoredType ==
    ASSUME NEW old \in Records, NEW seen \in Records, NEW e \in Records
    PROVE  /\ Stored(old, seen, e) \in Records
           /\ Stored(old, seen, e).version = e.version
           /\ Rank(Stored(old, seen, e)) = Rank(e)
           /\ Live(Stored(old, seen, e)) <=> Live(e)
  <1> DEFINE n == Stored(old, seen, e)
  <1>1. Merge(old, e) \in Records
    BY DEF Merge, Records
  <1>2. Merge(old, e).version = e.version /\ Merge(old, e).deleted = e.deleted
    BY DEF Merge, Records
  <1>3. n \in Records /\ n.version = e.version /\ n.deleted = e.deleted
    BY <1>1, <1>2 DEF Stored
  <1> QED
    BY <1>3 DEF Rank, Live, Exists

-----------------------------------------------------------------------------
(* Types.                                                                  *)

Proper(s) == s \in HandlerStates /\ Carries(s)

LEMMA IdleProper == Proper(Idle)
  BY NoRecordType DEF Proper, Carries, Idle, HandlerStates, Lists, Phases, Answers

\* An answer leaves a proper handler.
LEMMA AnsweredProper ==
    ASSUME NEW s \in HandlerStates, NEW answer \in Answers, NEW body \in Lists,
           NEW wrote \in BOOLEAN
    PROVE  /\ Proper(Answered(s, answer, body, wrote))
           /\ Answered(s, answer, body, wrote).pc = "done"
           /\ Answered(s, answer, body, wrote).seen = NoRecord
           /\ Answered(s, answer, body, wrote).answer = answer
           /\ Answered(s, answer, body, wrote).wrote = wrote
  BY NoRecordType DEF Proper, Carries, Answered, HandlerStates, Phases

\* A step that makes the local state of one handler another proper one keeps
\* all of them proper.
LEMMA OneHandler ==
    ASSUME TypeOK, PhaseOK, NEW h \in Handlers, NEW s, Proper(s),
           handler' = [handler EXCEPT ![h] = s]
    PROVE  handler' \in [Handlers -> HandlerStates] /\ PhaseOK'
  BY DEF TypeOK, PhaseOK, Proper

LEMMA FinishProper ==
    ASSUME TypeOK, PhaseOK, NEW h \in Handlers, NEW answer \in Answers, Finish(h, answer)
    PROVE  handler' \in [Handlers -> HandlerStates] /\ PhaseOK'
  <1>1. handler[h] \in HandlerStates /\ handler[h].wrote \in BOOLEAN /\ {} \in Lists
    BY DEF TypeOK, HandlerStates, Lists
  <1>2. Proper(Answered(handler[h], answer, {}, handler[h].wrote))
    BY <1>1, AnsweredProper
  <1>3. handler' = [handler EXCEPT ![h] = Answered(handler[h], answer, {}, handler[h].wrote)]
    BY DEF Finish
  <1> QED
    BY <1>2, <1>3, OneHandler

LEMMA ReceiveType ==
    ASSUME TypeOK, PhaseOK, NEW h \in Handlers, Receive(h)
    PROVE  TypeOK' /\ PhaseOK'
  <1>0. PICK op \in Serves[h] : \E arg \in Requests(op) :
            handler' = [handler EXCEPT ![h] =
                IF Malformed(op, arg)
                  THEN Answered([Idle EXCEPT !.op = op, !.arg = arg, !.pc = "getItem"],
                                "badRequest", {}, FALSE)
                  ELSE [Idle EXCEPT !.op = op, !.arg = arg, !.pc = "getItem"]]
    BY DEF Receive
  <1>1. PICK arg \in Requests(op) :
            handler' = [handler EXCEPT ![h] =
                IF Malformed(op, arg)
                  THEN Answered([Idle EXCEPT !.op = op, !.arg = arg, !.pc = "getItem"],
                                "badRequest", {}, FALSE)
                  ELSE [Idle EXCEPT !.op = op, !.arg = arg, !.pc = "getItem"]]
    BY <1>0
  <1> DEFINE request == [Idle EXCEPT !.op = op, !.arg = arg, !.pc = "getItem"]
  <1>2. op \in Operations
    BY ApiAssumption
  <1>3. arg \in Lists
    <2>1. CASE op \in {"put", "post"}
      BY <2>1 DEF Requests
    <2>2. CASE op \in {"head", "remove"}
      BY <2>2 DEF Requests, Lists
    <2>3. CASE op \in {"get", "delete"}
      BY <2>3 DEF Requests, Lists
    <2> QED
      BY <1>2, <2>1, <2>2, <2>3 DEF Operations, Reads, Puts
  <1>4. Proper(request)
    <2>1. Idle \in HandlerStates
      BY IdleProper DEF Proper
    <2>2. request \in HandlerStates /\ request.pc = "getItem"
      BY <1>2, <1>3, <2>1 DEF HandlerStates, Phases
    <2> QED
      BY <2>2 DEF Proper, Carries
  <1>5. Proper(Answered(request, "badRequest", {}, FALSE))
    BY <1>4, AnsweredProper DEF Proper, Answers, Lists
  <1>6. handler' \in [Handlers -> HandlerStates] /\ PhaseOK'
    BY <1>1, <1>4, <1>5, OneHandler
  <1> QED
    BY <1>6 DEF Receive, TypeOK

LEMMA ReplyType ==
    ASSUME TypeOK, PhaseOK, NEW h \in Handlers, Reply(h)
    PROVE  TypeOK' /\ PhaseOK'
  <1>1. handler' \in [Handlers -> HandlerStates] /\ PhaseOK'
    BY IdleProper, OneHandler DEF Reply
  <1> QED
    BY <1>1 DEF Reply, TypeOK

LEMMA LoadProper ==
    ASSUME TypeOK, PhaseOK, NEW h \in Handlers, NEW r \in Records, NEW body \in Lists,
           NEW phase \in Phases, Load(h, r, phase, body),
           \/ phase = "putObject"
           \/ phase = "getObject" /\ Live(r)
           \/ phase = "commit" /\ Live(r) /\ handler[h].op = "delete"
    PROVE  handler' \in [Handlers -> HandlerStates] /\ PhaseOK'
  <1> DEFINE s == [handler[h] EXCEPT !.seen = r, !.pc = phase, !.body = body]
  <1>1. handler[h] \in HandlerStates
    BY DEF TypeOK
  <1>2. s \in HandlerStates /\ s.pc = phase /\ s.seen = r /\ s.op = handler[h].op
    BY <1>1 DEF HandlerStates
  <1>3. Carries(s)
    BY <1>2 DEF Carries, Puts
  <1>4. handler' = [handler EXCEPT ![h] = s]
    BY <1>1 DEF Load, HandlerStates, TypeOK
  <1> QED
    BY <1>2, <1>3, <1>4, OneHandler DEF Proper

LEMMA GetItemType ==
    ASSUME TypeOK, PhaseOK, NEW h \in Handlers, GetItem(h)
    PROVE  TypeOK' /\ PhaseOK'
  <1>1. PICK r \in Snapshots :
          \/ At(h, "getItem", {"put"})    /\ PutBookmarks(h, r)
          \/ At(h, "getItem", {"post"})   /\ PostBookmarks(h, r)
          \/ At(h, "getItem", {"delete"}) /\ DeleteBookmarks(h, r)
          \/ At(h, "getItem", {"remove"}) /\ FindAndDeleteBookmarkEntry(h, r)
          \/ At(h, "getItem", Reads)      /\ GetBookmarksS3Object(h, r)
    BY DEF GetItem
  <1>2. r \in Records /\ handler[h].arg \in Lists /\ {} \in Lists
    BY SnapshotsType DEF TypeOK, HandlerStates, Lists
  <1>3. {"forbidden", "notFound"} \subseteq Answers
    BY DEF Answers
  <1>4. {"getObject", "putObject", "commit"} \subseteq Phases
    BY DEF Phases
  <1>5. \/ \E answer \in {"forbidden", "notFound"} : Finish(h, answer)
        \/ \E body \in Lists : Load(h, r, "putObject", body)
        \/ Live(r) /\ Load(h, r, "getObject", {})
        \/ Live(r) /\ handler[h].op = "delete" /\ Load(h, r, "commit", {})
    <2>1. CASE PutBookmarks(h, r)
      BY <1>2, <2>1 DEF PutBookmarks
    <2>2. CASE PostBookmarks(h, r)
      BY <1>2, <2>2 DEF PostBookmarks
    <2>3. CASE At(h, "getItem", {"delete"}) /\ DeleteBookmarks(h, r)
      BY <2>3 DEF DeleteBookmarks, At
    <2>4. CASE FindAndDeleteBookmarkEntry(h, r)
      BY <1>2, <2>4 DEF FindAndDeleteBookmarkEntry
    <2>5. CASE GetBookmarksS3Object(h, r)
      BY <1>2, <2>5 DEF GetBookmarksS3Object
    <2> QED
      BY <1>1, <2>1, <2>2, <2>3, <2>4, <2>5
  <1>6. handler' \in [Handlers -> HandlerStates] /\ PhaseOK'
    BY <1>2, <1>3, <1>4, <1>5, FinishProper, LoadProper
  <1> QED
    BY <1>6 DEF GetItem, TypeOK

LEMMA GetObjectType ==
    ASSUME TypeOK, PhaseOK, NEW h \in Handlers, GetObject(h)
    PROVE  TypeOK' /\ PhaseOK'
  <1> DEFINE list == bucket[handler[h].seen.version]
             old  == handler[h]
  <1>1. old \in HandlerStates /\ old.pc = "getObject" /\ old.arg \in Lists /\ {} \in Lists
    BY DEF GetObject, At, TypeOK, HandlerStates, Lists
  <1>2. list \in Lists
    <2>1. Carries(old) /\ old.seen \in Records
      BY <1>1 DEF PhaseOK, HandlerStates
    <2>2. old.seen.version \in Versions
      BY <1>1, <2>1 DEF Carries, Live, Exists, Records
    <2> QED
      BY <2>2 DEF GetObject, TypeOK
  <1>3. CASE GetBookmarks(h, list)
    <2>1. CASE Finish(h, "notFound")
      BY <2>1, FinishProper DEF GetObject, TypeOK, Answers
    <2>2. CASE handler' = [handler EXCEPT ![h] = Answered(old, "ok", list, FALSE)]
      BY <1>1, <1>2, <2>2, AnsweredProper, OneHandler DEF GetObject, TypeOK, Answers
    <2> QED
      BY <1>3, <2>1, <2>2 DEF GetBookmarks
  <1>4. CASE FindBookmarkEntry(h, list)
    BY <1>4, FinishProper DEF FindBookmarkEntry, GetObject, TypeOK, Answers
  <1>5. ASSUME NEW body \in Lists,
               handler' = [handler EXCEPT ![h].pc = "putObject", ![h].body = body]
        PROVE  TypeOK' /\ PhaseOK'
    <2> DEFINE s == [old EXCEPT !.pc = "putObject", !.body = body]
    <2>1. s \in HandlerStates /\ s.pc = "putObject"
      BY <1>1 DEF HandlerStates, Phases
    <2>2. Carries(s)
      BY <2>1 DEF Carries
    <2>3. handler' = [handler EXCEPT ![h] = s]
      BY <1>1, <1>5 DEF TypeOK, HandlerStates
    <2> QED
      BY <2>1, <2>2, <2>3, OneHandler DEF Proper, GetObject, TypeOK
  <1>6. CASE getExistingBookmarks(h, list)
    BY <1>1, <1>2, <1>5, <1>6 DEF getExistingBookmarks, Lists
  <1>7. CASE deleteMatchingBookmarks(h, list)
    BY <1>1, <1>2, <1>5, <1>7 DEF deleteMatchingBookmarks, Lists
  <1> QED
    BY <1>3, <1>4, <1>6, <1>7 DEF GetObject

\* The outcomes of a write are Booleans, and a call that succeeded was applied.
LEMMA OutcomesType ==
    ASSUME NEW o \in Outcomes
    PROVE  o.applied \in BOOLEAN /\ o.ok \in BOOLEAN /\ (o.ok => o.applied)
  <1>1. o \in {[applied |-> TRUE, ok |-> TRUE], [applied |-> TRUE, ok |-> FALSE],
               [applied |-> FALSE, ok |-> FALSE]}
    BY DEF Outcomes
  <1>2. CASE o = [applied |-> TRUE, ok |-> TRUE]
    BY <1>2
  <1>3. CASE o = [applied |-> TRUE, ok |-> FALSE]
    BY <1>3
  <1>4. CASE o = [applied |-> FALSE, ok |-> FALSE]
    BY <1>4
  <1> QED
    BY <1>1, <1>2, <1>3, <1>4

LEMMA PutObjectType ==
    ASSUME TypeOK, PhaseOK, NEW h \in Handlers, PutObject(h)
    PROVE  TypeOK' /\ PhaseOK'
  <1> DEFINE old == handler[h]
             v   == GetIncrementedVersion(old.seen)
  <1>1. old \in HandlerStates /\ old.body \in Lists /\ v \in Versions /\ old.op \in Puts
    BY DEF PutObject, At, TypeOK, HandlerStates
  <1>2. PICK o \in Outcomes :
          /\ bucket' = IF o.applied THEN [bucket EXCEPT ![v] = old.body] ELSE bucket
          /\ handler' = [handler EXCEPT ![h] = AfterPut([old EXCEPT !.wrote = o.applied], o.ok)]
    BY DEF PutObject
  <1> DEFINE s == [old EXCEPT !.wrote = o.applied]
  <1>3. s \in HandlerStates /\ s.seen = old.seen /\ s.op = old.op /\ s.wrote \in BOOLEAN
    BY <1>1, OutcomesType DEF HandlerStates
  <1>4. Proper(AfterPut(s, o.ok))
    <2>1. CASE o.ok
      <3>1. [s EXCEPT !.pc = "commit"] \in HandlerStates
        BY <1>3 DEF HandlerStates, Phases
      <3>2. Carries([s EXCEPT !.pc = "commit"])
        BY <1>1, <1>3 DEF HandlerStates, Carries
      <3> QED
        BY <2>1, <3>1, <3>2 DEF Proper, AfterPut
    <2>2. CASE ~o.ok
      BY <1>3, <2>2, AnsweredProper DEF AfterPut, Answers, Lists
    <2> QED
      BY <2>1, <2>2
  <1>5. handler' \in [Handlers -> HandlerStates] /\ PhaseOK'
    BY <1>2, <1>4, OneHandler
  <1>6. bucket' \in [Versions -> {NoObject} \union Lists]
    BY <1>1, <1>2 DEF TypeOK
  <1> QED
    BY <1>5, <1>6 DEF PutObject, TypeOK

\* The item a handler is about to write is one, and outranks what it saw.
LEMMA NextItemType ==
    ASSUME TypeOK, PhaseOK, NEW h \in Handlers, At(h, "commit", Puts \union {"delete"})
    PROVE  /\ handler[h].seen \in Records
           /\ NextItem(h) \in Records
           /\ Rank(NextItem(h)) > Rank(handler[h].seen)
           /\ Rank(NextItem(h)) > 2 * handler[h].seen.version
           /\ handler[h].op \in Puts => NextItem(h).version = GetIncrementedVersion(handler[h].seen)
           /\ handler[h].op \notin Puts => ~Live(NextItem(h))
  <1> DEFINE seen == handler[h].seen
  <1>1. seen \in Records /\ Carries(handler[h]) /\ handler[h].pc = "commit"
    BY DEF TypeOK, PhaseOK, HandlerStates, At
  <1>2. seen.version \in Nat
    BY <1>1 DEF Records, Versions
  <1>3. CASE handler[h].op \in Puts
    <2>1. NextItem(h) = WithVersion(seen, GetIncrementedVersion(seen))
      BY <1>3 DEF NextItem, Puts
    <2>2. GetIncrementedVersion(seen) \in Versions
      BY <1>1, <1>3 DEF Carries
    <2> QED
      BY <1>1, <1>2, <1>3, <2>1, <2>2, WithVersionType
  <1>4. CASE handler[h].op = "delete"
    <2>1. NextItem(h) = WithDeletedSuffix(seen) /\ handler[h].op \notin Puts
      BY <1>4 DEF NextItem, Puts
    <2>2. Live(seen)
      BY <1>1, <2>1 DEF Carries
    <2> QED
      BY <1>1, <1>2, <2>1, <2>2, WithDeletedSuffixType
  <1> QED
    BY <1>3, <1>4 DEF At

LEMMA CommitType ==
    ASSUME TypeOK, PhaseOK, NEW h \in Handlers, Commit(h)
    PROVE  TypeOK' /\ PhaseOK'
  <1> DEFINE old == handler[h]
  <1>1. old \in HandlerStates /\ At(h, "commit", Puts \union {"delete"})
    BY DEF Commit, TypeOK
  <1>2. PICK o \in Outcomes :
          /\ WriteRecord(old.seen, NextItem(h), o.applied)
          /\ handler' = [handler EXCEPT ![h] =
                            AfterCommit([old EXCEPT !.wrote = old.wrote \/ o.applied], o.ok)]
    BY DEF Commit
  <1> DEFINE s == [old EXCEPT !.wrote = old.wrote \/ o.applied]
  <1>3. (old.wrote \/ o.applied) \in BOOLEAN
    OBVIOUS
  <1>4. s \in HandlerStates /\ s.seen = old.seen /\ s.op = old.op /\ s.wrote \in BOOLEAN
    BY <1>1, <1>3 DEF HandlerStates
  <1>5. Proper(AfterCommit(s, o.ok))
    <2>1. CASE o.ok /\ Live(s.seen)
      <3>1. [s EXCEPT !.pc = "deleteObject"] \in HandlerStates
        BY <1>4 DEF HandlerStates, Phases
      <3>2. Carries([s EXCEPT !.pc = "deleteObject"])
        BY <1>4, <2>1 DEF HandlerStates, Carries
      <3> QED
        BY <2>1, <3>1, <3>2 DEF Proper, AfterCommit
    <2>2. CASE ~(o.ok /\ Live(s.seen))
      <3>1. {} \in Lists /\ "ok" \in Answers /\ "error" \in Answers
        BY DEF Lists, Answers
      <3> QED
        BY <1>4, <2>2, <3>1, AnsweredProper DEF AfterCommit
    <2> QED
      BY <2>1, <2>2
  <1>6. handler' \in [Handlers -> HandlerStates] /\ PhaseOK'
    BY <1>2, <1>5, OneHandler
  <1>7. record' \in Records /\ lostUpdate' \in BOOLEAN
    <2>1. CASE o.applied
      <3>1. record \in Records /\ old.seen \in Records /\ NextItem(h) \in Records
        BY <1>1, NextItemType DEF TypeOK
      <3>2. record' = Stored(record, old.seen, NextItem(h))
        BY <1>2, <2>1 DEF WriteRecord
      <3>3. lostUpdate' \in BOOLEAN
        BY <1>2, <2>1 DEF WriteRecord
      <3> QED
        BY <3>1, <3>2, <3>3, StoredType
    <2>2. CASE ~o.applied
      BY <1>2, <2>2 DEF WriteRecord, TypeOK
    <2> QED
      BY <2>1, <2>2
  <1> QED
    BY <1>6, <1>7 DEF Commit, TypeOK

LEMMA DeleteObjectType ==
    ASSUME TypeOK, PhaseOK, NEW h \in Handlers, DeleteObject(h)
    PROVE  TypeOK' /\ PhaseOK'
  <1> DEFINE old == handler[h]
  <1>1. old \in HandlerStates /\ old.wrote \in BOOLEAN
    BY DEF TypeOK, HandlerStates
  <1>2. PICK o \in Outcomes :
          /\ bucket' = IF o.applied
                         THEN [bucket EXCEPT ![previousVersion(old.seen)] = NoObject]
                         ELSE bucket
          /\ handler' = [handler EXCEPT ![h] = AfterDelete(old, o.ok)]
    BY DEF DeleteObject
  <1>3. {} \in Lists /\ "ok" \in Answers /\ "error" \in Answers
    BY DEF Lists, Answers
  <1>4. Proper(AfterDelete(old, o.ok))
    BY <1>1, <1>3, AnsweredProper DEF AfterDelete
  <1>5. handler' \in [Handlers -> HandlerStates] /\ PhaseOK'
    BY <1>2, <1>4, OneHandler
  <1>6. bucket' \in [Versions -> {NoObject} \union Lists]
    BY <1>2 DEF TypeOK
  <1> QED
    BY <1>5, <1>6 DEF DeleteObject, TypeOK

\* The steps that end a request at once, with an error or a refusal.
LEMMA FailureType ==
    ASSUME TypeOK, PhaseOK, NEW h \in Handlers,
           GetObjectFails(h) \/ VersionFails(h) \/ ClientFails(h) \/ Kill(h)
    PROVE  TypeOK' /\ PhaseOK'
  <1>1. \E answer \in Answers : Finish(h, answer)
    BY DEF GetObjectFails, VersionFails, ClientFails, Kill, Answers
  <1>2. handler' \in [Handlers -> HandlerStates] /\ PhaseOK'
    BY <1>1, FinishProper
  <1> QED
    BY <1>2 DEF GetObjectFails, VersionFails, ClientFails, Kill, TypeOK

LEMMA InitType == Init => TypeOK /\ PhaseOK
  <1> SUFFICES ASSUME Init PROVE TypeOK /\ PhaseOK
    OBVIOUS
  <1>1. InitLocal
    BY DEF Init, InitEmpty
  <1>2. record \in Records /\ bucket \in [Versions -> {NoObject} \union Lists]
    <2>1. CASE InitEmpty
      BY <2>1, NoRecordType DEF InitEmpty
    <2>2. CASE ~InitEmpty
      <3>1. PICK status \in {"Pending", "Success"}, list \in SUBSET ValidUrls :
              /\ record = [version |-> 1, deleted |-> FALSE, status |-> status, startTs |-> 1,
                           ended |-> (status = "Success"), modified |-> FALSE]
              /\ bucket = [v \in Versions |-> IF v = 1 THEN list ELSE NoObject]
        BY <2>2 DEF Init
      <3>2. status \in Statuses /\ 1 \in Versions /\ 1 \in Times /\ list \in Lists
        BY BoundsAssumption, ApiAssumption DEF Statuses, Versions, Times, ZeroTime, Lists
      <3>3. (status = "Success") \in BOOLEAN
        OBVIOUS
      <3> QED
        BY <3>1, <3>2, <3>3 DEF Records
    <2> QED
      BY <2>1, <2>2
  <1>3. now \in Times
    BY <1>1, BoundsAssumption DEF InitLocal, Times, ZeroTime
  <1>4. handler \in [Handlers -> HandlerStates] /\ PhaseOK
    BY <1>1, IdleProper DEF InitLocal, Proper, PhaseOK
  <1> QED
    BY <1>1, <1>2, <1>3, <1>4 DEF InitLocal, TypeOK

LEMMA NextType == TypeOK /\ PhaseOK /\ [Next]_apiVars => TypeOK' /\ PhaseOK'
  <1> SUFFICES ASSUME TypeOK, PhaseOK, [Next]_apiVars PROVE TypeOK' /\ PhaseOK'
    OBVIOUS
  <1>1. ASSUME NEW h \in Handlers, Step(h) PROVE TypeOK' /\ PhaseOK'
    BY <1>1, ReceiveType, ReplyType, GetItemType, GetObjectType, PutObjectType,
       CommitType, DeleteObjectType, FailureType DEF Step
  <1>2. CASE Replicate
    BY <1>2 DEF Replicate, TypeOK, PhaseOK, Carries
  <1>3. CASE Tick
    <2>1. now' \in Times
      BY <1>3, BoundsAssumption DEF Tick, TypeOK, Times, ZeroTime
    <2> QED
      BY <1>3, <2>1 DEF Tick, TypeOK, PhaseOK, Carries
  <1>4. CASE UNCHANGED apiVars
    BY <1>4 DEF apiVars, TypeOK, PhaseOK, Carries
  <1> QED
    BY <1>1, <1>2, <1>3, <1>4 DEF Next

\* The state keeps its types whatever interleaves, fails or dies: no handler
\* writes an item beyond the last version, and none reads or deletes a list
\* of no version.
THEOREM TypeCorrect == Spec => []TypeOK
  <1>1. Init => TypeOK /\ PhaseOK
    BY InitType
  <1>2. TypeOK /\ PhaseOK /\ [Next]_apiVars => (TypeOK /\ PhaseOK)'
    BY NextType
  <1> QED
    BY <1>1, <1>2, PTL DEF Spec

-----------------------------------------------------------------------------
(* The item names a stored list.                                           *)

\* What Consistent asks of a handler in the state s.
Safe(s) ==
    /\ Rank(s.seen) <= Rank(record)
    /\ (s.pc = "commit" /\ s.op \in Puts /\ Rank(s.seen) = Rank(record))
          => bucket[GetIncrementedVersion(s.seen)] # NoObject
    /\ s.pc = "deleteObject" => Rank(record) > 2 * s.seen.version

LEMMA ConsistentBySafe ==
    Consistent <=> /\ Backed
                   /\ Rank(replica) <= Rank(record)
                   /\ \A h \in Handlers : Safe(handler[h])
  BY DEF Consistent, NothingFromTheFuture, NextListStored, DeletesOnlyThePast, Safe

\* A handler that moves while the table and the bucket stay as they are.
LEMMA LocalStep ==
    ASSUME TypeOK, Consistent, NEW h \in Handlers, NEW s, Safe(s),
           handler' = [handler EXCEPT ![h] = s],
           UNCHANGED <<record, replica, bucket>>
    PROVE  Consistent'
  <1>1. Backed' /\ (Rank(replica) <= Rank(record))'
    BY ConsistentBySafe DEF Backed, Live, Exists, Rank
  <1>2. ASSUME NEW g \in Handlers PROVE Safe(handler[g])'
    <2>1. Safe(handler'[g])
      BY ConsistentBySafe DEF TypeOK
    <2> QED
      BY <2>1 DEF Safe, Rank, GetIncrementedVersion
  <1> QED
    BY <1>1, <1>2 DEF Consistent, NothingFromTheFuture, NextListStored, DeletesOnlyThePast, Safe

\* A handler that saw nothing and is about to write nothing is safe.
LEMMA EmptyHanded ==
    ASSUME TypeOK, NEW s, s.seen = NoRecord, s.pc \in {"idle", "getItem", "done"}
    PROVE  Safe(s)
  <1>1. Rank(record) \in Nat /\ Rank(s.seen) = 0
    BY RankType, NoRecordType DEF TypeOK
  <1> QED
    BY <1>1 DEF Safe

LEMMA FinishConsistent ==
    ASSUME TypeOK, Consistent, NEW h \in Handlers, NEW answer \in Answers,
           Finish(h, answer), UNCHANGED <<record, replica, bucket>>
    PROVE  Consistent'
  <1>1. handler[h] \in HandlerStates /\ handler[h].wrote \in BOOLEAN /\ {} \in Lists
    BY DEF TypeOK, HandlerStates, Lists
  <1>2. Safe(Answered(handler[h], answer, {}, handler[h].wrote))
    BY <1>1, AnsweredProper, EmptyHanded
  <1>3. handler' = [handler EXCEPT ![h] = Answered(handler[h], answer, {}, handler[h].wrote)]
    BY DEF Finish
  <1> QED
    BY <1>2, <1>3, LocalStep

LEMMA ReceiveConsistent ==
    ASSUME TypeOK, Consistent, NEW h \in Handlers, Receive(h)
    PROVE  Consistent'
  <1>1. PICK s : /\ handler' = [handler EXCEPT ![h] = s]
                 /\ s.seen = NoRecord
                 /\ s.pc \in {"getItem", "done"}
    <2>0. PICK op \in Serves[h] : \E arg \in Requests(op) :
              handler' = [handler EXCEPT ![h] =
                  IF Malformed(op, arg)
                    THEN Answered([Idle EXCEPT !.op = op, !.arg = arg, !.pc = "getItem"],
                                  "badRequest", {}, FALSE)
                    ELSE [Idle EXCEPT !.op = op, !.arg = arg, !.pc = "getItem"]]
      BY DEF Receive
    <2>1. PICK arg \in Requests(op) :
              handler' = [handler EXCEPT ![h] =
                  IF Malformed(op, arg)
                    THEN Answered([Idle EXCEPT !.op = op, !.arg = arg, !.pc = "getItem"],
                                  "badRequest", {}, FALSE)
                    ELSE [Idle EXCEPT !.op = op, !.arg = arg, !.pc = "getItem"]]
      BY <2>0
    <2> DEFINE request == [Idle EXCEPT !.op = op, !.arg = arg, !.pc = "getItem"]
    <2>2. request.seen = NoRecord /\ request.pc = "getItem"
      BY DEF Idle
    <2>3. LET s == Answered(request, "badRequest", {}, FALSE)
          IN  s.seen = NoRecord /\ s.pc = "done"
      BY DEF Idle, Answered
    <2> QED
      BY <2>1, <2>2, <2>3
  <1> QED
    BY <1>1, EmptyHanded, LocalStep DEF Receive

LEMMA ReplyConsistent ==
    ASSUME TypeOK, Consistent, NEW h \in Handlers, Reply(h)
    PROVE  Consistent'
  <1>1. Safe(Idle)
    BY EmptyHanded DEF Idle
  <1> QED
    BY <1>1, LocalStep DEF Reply

LEMMA LoadConsistent ==
    ASSUME TypeOK, Consistent, NEW h \in Handlers, NEW r \in Records, NEW body, NEW phase,
           Load(h, r, phase, body), Rank(r) <= Rank(record),
           \/ phase \in {"putObject", "getObject"}
           \/ phase = "commit" /\ handler[h].op = "delete",
           UNCHANGED <<record, replica, bucket>>
    PROVE  Consistent'
  <1> DEFINE s == [handler[h] EXCEPT !.seen = r, !.pc = phase, !.body = body]
  <1>1. handler[h] \in HandlerStates
    BY DEF TypeOK
  <1>2. s.pc = phase /\ s.seen = r /\ s.op = handler[h].op
    BY <1>1 DEF HandlerStates
  <1>3. Safe(s)
    BY <1>2 DEF Safe, Puts
  <1>4. handler' = [handler EXCEPT ![h] = s]
    BY <1>1 DEF Load, HandlerStates, TypeOK
  <1> QED
    BY <1>3, <1>4, LocalStep

LEMMA GetItemConsistent ==
    ASSUME TypeOK, Consistent, NEW h \in Handlers, GetItem(h)
    PROVE  Consistent'
  <1>1. PICK r \in Snapshots :
          \/ At(h, "getItem", {"put"})    /\ PutBookmarks(h, r)
          \/ At(h, "getItem", {"post"})   /\ PostBookmarks(h, r)
          \/ At(h, "getItem", {"delete"}) /\ DeleteBookmarks(h, r)
          \/ At(h, "getItem", {"remove"}) /\ FindAndDeleteBookmarkEntry(h, r)
          \/ At(h, "getItem", Reads)      /\ GetBookmarksS3Object(h, r)
    BY DEF GetItem
  <1>2. r \in Records /\ Rank(r) <= Rank(record)
    BY SnapshotsType DEF Consistent
  <1>3. \/ \E answer \in Answers : Finish(h, answer)
        \/ \E body : Load(h, r, "putObject", body)
        \/ Load(h, r, "getObject", {})
        \/ handler[h].op = "delete" /\ Load(h, r, "commit", {})
    <2>1. CASE PutBookmarks(h, r)
      BY <2>1 DEF PutBookmarks, Answers
    <2>2. CASE PostBookmarks(h, r)
      BY <2>2 DEF PostBookmarks, Answers
    <2>3. CASE At(h, "getItem", {"delete"}) /\ DeleteBookmarks(h, r)
      BY <2>3 DEF DeleteBookmarks, At, Answers
    <2>4. CASE FindAndDeleteBookmarkEntry(h, r)
      BY <2>4 DEF FindAndDeleteBookmarkEntry, Answers
    <2>5. CASE GetBookmarksS3Object(h, r)
      BY <2>5 DEF GetBookmarksS3Object, Answers
    <2> QED
      BY <1>1, <2>1, <2>2, <2>3, <2>4, <2>5
  <1> QED
    BY <1>2, <1>3, FinishConsistent, LoadConsistent DEF GetItem

LEMMA GetObjectConsistent ==
    ASSUME TypeOK, Consistent, NEW h \in Handlers, GetObject(h)
    PROVE  Consistent'
  <1> DEFINE list == bucket[handler[h].seen.version]
             old  == handler[h]
  <1>1. old \in HandlerStates /\ Rank(old.seen) <= Rank(record)
    BY DEF TypeOK, Consistent, NothingFromTheFuture
  <1>2. ASSUME NEW answer \in Answers, Finish(h, answer) PROVE Consistent'
    BY <1>2, FinishConsistent DEF GetObject
  <1>3. CASE GetBookmarks(h, list)
    <2> DEFINE s == Answered(old, "ok", list, FALSE)
    <2>1. s.seen = NoRecord /\ s.pc = "done"
      BY <1>1 DEF Answered, HandlerStates
    <2>2. Safe(s)
      BY <2>1, EmptyHanded
    <2> QED
      BY <1>2, <1>3, <2>2, LocalStep DEF GetBookmarks, GetObject, Answers
  <1>4. CASE FindBookmarkEntry(h, list)
    BY <1>2, <1>4 DEF FindBookmarkEntry, Answers
  <1>5. ASSUME NEW body,
               handler' = [handler EXCEPT ![h].pc = "putObject", ![h].body = body]
        PROVE  Consistent'
    <2> DEFINE s == [old EXCEPT !.pc = "putObject", !.body = body]
    <2>1. s.pc = "putObject" /\ s.seen = old.seen
      BY <1>1 DEF HandlerStates
    <2>2. Safe(s)
      BY <1>1, <2>1 DEF Safe
    <2>3. handler' = [handler EXCEPT ![h] = s]
      BY <1>1, <1>5 DEF TypeOK, HandlerStates
    <2> QED
      BY <2>2, <2>3, LocalStep DEF GetObject
  <1> QED
    BY <1>3, <1>4, <1>5 DEF GetObject, getExistingBookmarks, deleteMatchingBookmarks

\* The steps that end a request at once.
LEMMA FailureConsistent ==
    ASSUME TypeOK, Consistent, NEW h \in Handlers,
           GetObjectFails(h) \/ VersionFails(h) \/ ClientFails(h) \/ Kill(h)
    PROVE  Consistent'
  <1>1. \E answer \in Answers : Finish(h, answer)
    BY DEF GetObjectFails, VersionFails, ClientFails, Kill, Answers
  <1> QED
    BY <1>1, FinishConsistent DEF GetObjectFails, VersionFails, ClientFails, Kill

\* A list more in the bucket takes nothing away, and the version it is stored
\* under is the one the handler's item will name.
LEMMA PutObjectConsistent ==
    ASSUME TypeOK, PhaseOK, Consistent, NEW h \in Handlers, PutObject(h)
    PROVE  Consistent'
  <1> DEFINE old == handler[h]
             v   == GetIncrementedVersion(old.seen)
  <1>1. /\ old \in HandlerStates /\ old.body \in Lists /\ v \in Versions
        /\ Rank(old.seen) <= Rank(record) /\ old.pc = "putObject"
    BY DEF PutObject, At, TypeOK, HandlerStates, Consistent, NothingFromTheFuture
  <1>2. PICK o \in Outcomes :
          /\ bucket' = IF o.applied THEN [bucket EXCEPT ![v] = old.body] ELSE bucket
          /\ handler' = [handler EXCEPT ![h] = AfterPut([old EXCEPT !.wrote = o.applied], o.ok)]
    BY DEF PutObject
  <1> DEFINE s == [old EXCEPT !.wrote = o.applied]
             t == AfterPut(s, o.ok)
  <1>3. \A w \in Versions : bucket[w] # NoObject => bucket'[w] # NoObject
    BY <1>1, <1>2, ApiAssumption DEF TypeOK
  <1>4. record' = record /\ replica' = replica
    BY DEF PutObject
  <1>5. Backed'
    <2>1. Live(record) => record.version \in Versions
      BY DEF TypeOK, Records, Live, Exists
    <2> QED
      BY <1>3, <1>4, <2>1 DEF Consistent, Backed, Live, Exists
  <1>6. \/ t.pc = "done" /\ t.seen = NoRecord
        \/ t.pc = "commit" /\ t.seen = old.seen /\ o.ok
    <2>1. s.seen = old.seen /\ s \in HandlerStates
      BY <1>1, OutcomesType DEF HandlerStates
    <2>2. CASE o.ok
      BY <2>1, <2>2 DEF AfterPut, HandlerStates
    <2>3. CASE ~o.ok
      BY <2>1, <2>3 DEF AfterPut, Answered, HandlerStates
    <2> QED
      BY <2>2, <2>3
  <1>7. Rank(t.seen) <= Rank(record)
    <2>1. Rank(record) \in Nat
      BY RankType DEF TypeOK
    <2> QED
      BY <1>1, <1>6, <2>1, NoRecordType
  <1>8. ASSUME NEW g \in Handlers, g # h
        PROVE  /\ handler'[g] = handler[g]
               /\ handler[g].pc = "commit" /\ handler[g].op \in Puts
                    => GetIncrementedVersion(handler[g].seen) \in Versions
    BY <1>2, <1>8 DEF TypeOK, PhaseOK, Carries
  <1>9. handler'[h] = t
    BY <1>1, <1>2 DEF TypeOK
  <1>10. NothingFromTheFuture'
    <2>1. Rank(replica) <= Rank(record) /\ \A g \in Handlers : Rank(handler[g].seen) <= Rank(record)
      BY DEF Consistent, NothingFromTheFuture
    <2>2. \A g \in Handlers : Rank(handler'[g].seen) <= Rank(record)
      BY <1>7, <1>8, <1>9, <2>1
    <2> QED
      BY <1>4, <2>1, <2>2 DEF NothingFromTheFuture, Rank
  <1>11. DeletesOnlyThePast'
    BY <1>4, <1>6, <1>8, <1>9 DEF Consistent, DeletesOnlyThePast, Rank
  <1>12. NextListStored'
    <2>1. t.pc = "commit" => bucket'[GetIncrementedVersion(t.seen)] # NoObject
      BY <1>1, <1>2, <1>6, OutcomesType, ApiAssumption DEF TypeOK
    <2>2. ASSUME NEW g \in Handlers, g # h, handler[g].pc = "commit", handler[g].op \in Puts,
                 Rank(handler[g].seen) = Rank(record)
          PROVE  bucket'[GetIncrementedVersion(handler[g].seen)] # NoObject
      BY <1>3, <1>8, <2>2 DEF Consistent, NextListStored
    <2>3. ASSUME NEW g \in Handlers, handler'[g].pc = "commit", handler'[g].op \in Puts,
                 Rank(handler'[g].seen) = Rank(record)
          PROVE  bucket'[GetIncrementedVersion(handler'[g].seen)] # NoObject
      BY <1>8, <1>9, <2>1, <2>2, <2>3
    <2> QED
      BY <1>4, <2>3 DEF NextListStored, Rank, GetIncrementedVersion
  <1> QED
    BY <1>5, <1>10, <1>11, <1>12 DEF Consistent

\* The step that moves the item on.  The handler saw the item that is there, so
\* the list it stored for the next one is there, and every other handler is left
\* with an item of the past.
LEMMA CommitConsistent ==
    ASSUME TypeOK, PhaseOK, Consistent, NEW h \in Handlers, Commit(h), ~lostUpdate'
    PROVE  Consistent'
  <1> DEFINE old == handler[h]
             e   == NextItem(h)
  <1>1. /\ old \in HandlerStates /\ old.pc = "commit"
        /\ At(h, "commit", Puts \union {"delete"})
        /\ record \in Records /\ Rank(record) \in Nat
    BY RankType DEF Commit, At, TypeOK
  <1>2. PICK o \in Outcomes :
          /\ WriteRecord(old.seen, e, o.applied)
          /\ handler' = [handler EXCEPT ![h] =
                            AfterCommit([old EXCEPT !.wrote = old.wrote \/ o.applied], o.ok)]
    BY DEF Commit
  <1> DEFINE s == [old EXCEPT !.wrote = old.wrote \/ o.applied]
             t == AfterCommit(s, o.ok)
  <1>3. UNCHANGED <<replica, bucket>>
    BY DEF Commit
  <1>4. \/ t.pc = "done" /\ t.seen = NoRecord
        \/ t.pc = "deleteObject" /\ t.seen = old.seen /\ o.ok
    <2>1. (old.wrote \/ o.applied) \in BOOLEAN
      OBVIOUS
    <2>2. s \in HandlerStates /\ s.seen = old.seen
      BY <1>1, <2>1 DEF HandlerStates
    <2>3. CASE o.ok /\ Live(s.seen)
      BY <2>2, <2>3 DEF AfterCommit, HandlerStates
    <2>4. CASE ~(o.ok /\ Live(s.seen))
      <3>1. t = Answered(s, IF o.ok THEN "ok" ELSE "error", {}, s.wrote)
        BY <2>4 DEF AfterCommit
      <3> QED
        BY <2>2, <3>1 DEF Answered, HandlerStates
    <2> QED
      BY <2>3, <2>4
  <1>5. CASE ~o.applied
    <2>1. record' = record
      BY <1>2, <1>5 DEF WriteRecord
    <2>2. Safe(t)
      BY <1>4, <1>5, OutcomesType, EmptyHanded
    <2> QED
      BY <1>2, <1>3, <2>1, <2>2, LocalStep
  <1>6. CASE o.applied
    <2>1. record' = Stored(record, old.seen, e) /\ Rank(old.seen) = Rank(record)
      BY <1>2, <1>6 DEF WriteRecord
    <2>2. /\ old.seen \in Records /\ e \in Records
          /\ Rank(e) > Rank(old.seen) /\ Rank(e) > 2 * old.seen.version
          /\ old.op \in Puts => e.version = GetIncrementedVersion(old.seen)
          /\ old.op \notin Puts => ~Live(e)
      BY <1>1, NextItemType
    <2>3. /\ record' \in Records
          /\ record'.version = e.version
          /\ Rank(record') = Rank(e)
          /\ Live(record') <=> Live(e)
      BY <1>1, <2>1, <2>2, StoredType
    <2>4. Rank(record') \in Nat /\ Rank(record') > Rank(record)
      BY <2>1, <2>2, <2>3, RankType
    <2>5. Backed'
      <3>1. Live(record') => bucket[record'.version] # NoObject
        BY <1>1, <2>1, <2>2, <2>3 DEF Consistent, NextListStored
      <3> QED
        BY <1>3, <3>1 DEF Backed, Live, Exists
    <2>6. ASSUME NEW g \in Handlers
          PROVE  Rank(handler[g].seen) \in Nat /\ Rank(handler[g].seen) <= Rank(record)
      BY RankType DEF TypeOK, HandlerStates, Consistent, NothingFromTheFuture
    <2>7. ASSUME NEW g \in Handlers
          PROVE  \/ g # h /\ handler'[g] = handler[g]
                 \/ g = h /\ handler'[g] = t
      BY <1>1, <1>2 DEF TypeOK
    <2>8. NothingFromTheFuture'
      <3>1. Rank(replica) \in Nat /\ Rank(replica) <= Rank(record)
        BY RankType DEF TypeOK, Consistent, NothingFromTheFuture
      <3>2. ASSUME NEW g \in Handlers PROVE Rank(handler'[g].seen) <= Rank(record')
        BY <1>1, <1>4, <2>4, <2>6, <2>7, NoRecordType
      <3>3. Rank(replica) <= Rank(record')
        BY <1>1, <2>4, <3>1
      <3> QED
        BY <1>3, <3>2, <3>3 DEF NothingFromTheFuture, Rank
    <2>9. NextListStored'
      <3>1. \A g \in Handlers : Rank(handler'[g].seen) # Rank(record')
        BY <1>1, <1>4, <2>4, <2>6, <2>7, NoRecordType
      <3> QED
        BY <3>1 DEF NextListStored, Rank
    <2>10. DeletesOnlyThePast'
      <3>1. ASSUME NEW g \in Handlers, handler'[g].pc = "deleteObject"
            PROVE  Rank(record') > 2 * handler'[g].seen.version
        <4>1. CASE g = h
          BY <1>4, <2>2, <2>3, <2>7, <3>1, <4>1
        <4>2. CASE g # h
          <5>1. Rank(record) > 2 * handler[g].seen.version /\ handler[g].seen.version \in Nat
            BY <2>7, <3>1, <4>2 DEF TypeOK, HandlerStates, Records, Versions, Consistent, DeletesOnlyThePast
          <5> QED
            BY <1>1, <2>4, <2>7, <4>2, <5>1
        <4> QED
          BY <4>1, <4>2
      <3> QED
        BY <3>1 DEF DeletesOnlyThePast, Rank
    <2> QED
      BY <2>5, <2>8, <2>9, <2>10 DEF Consistent
  <1> QED
    BY <1>5, <1>6

\* The list that is removed belongs to an item that was followed: neither the
\* item there is now nor one about to be written names it.
LEMMA DeleteObjectConsistent ==
    ASSUME TypeOK, PhaseOK, Consistent, NEW h \in Handlers, DeleteObject(h)
    PROVE  Consistent'
  <1> DEFINE old == handler[h]
             v   == old.seen.version
  <1>1. /\ old \in HandlerStates /\ old.wrote \in BOOLEAN /\ v \in Nat
        /\ record \in Records /\ Rank(record) > 2 * v
    BY DEF TypeOK, HandlerStates, Records, Versions, Consistent, DeletesOnlyThePast,
           DeleteObject, At
  <1>2. PICK o \in Outcomes :
          /\ bucket' = IF o.applied THEN [bucket EXCEPT ![v] = NoObject] ELSE bucket
          /\ handler' = [handler EXCEPT ![h] = AfterDelete(old, o.ok)]
    BY DEF DeleteObject, previousVersion
  <1>3. record' = record /\ replica' = replica
    BY DEF DeleteObject
  <1>4. \A w \in Versions : w # v => bucket'[w] = bucket[w]
    BY <1>2 DEF TypeOK
  <1>5. Backed'
    <2>1. Live(record) => record.version \in Versions /\ record.version # v
      BY <1>1 DEF Records, Live, Exists, Rank, Versions
    <2> QED
      BY <1>3, <1>4, <2>1 DEF Consistent, Backed, Live, Exists
  <1> DEFINE t == AfterDelete(old, o.ok)
  <1>6. t.pc = "done" /\ t.seen = NoRecord
    BY <1>1 DEF AfterDelete, Answered, HandlerStates
  <1>7. ASSUME NEW g \in Handlers
        PROVE  \/ g # h /\ handler'[g] = handler[g]
               \/ g = h /\ handler'[g] = t
    BY <1>2 DEF TypeOK
  <1>8. NothingFromTheFuture'
    <2>1. Rank(record) \in Nat
      BY RankType, <1>1
    <2>2. ASSUME NEW g \in Handlers PROVE Rank(handler'[g].seen) <= Rank(record)
      BY <1>6, <1>7, <2>1, NoRecordType DEF Consistent, NothingFromTheFuture
    <2> QED
      BY <1>3, <2>2 DEF Consistent, NothingFromTheFuture, Rank
  <1>9. NextListStored'
    <2>1. ASSUME NEW g \in Handlers, handler'[g].pc = "commit", handler'[g].op \in Puts,
                 Rank(handler'[g].seen) = Rank(record)
          PROVE  bucket'[GetIncrementedVersion(handler'[g].seen)] # NoObject
      <3>1. handler'[g] = handler[g]
        BY <1>6, <1>7, <2>1
      <3>2. handler[g].seen \in Records /\ GetIncrementedVersion(handler[g].seen) \in Versions
        BY <2>1, <3>1 DEF TypeOK, PhaseOK, Carries, HandlerStates
      <3>3. GetIncrementedVersion(handler[g].seen) # v
        BY <1>1, <2>1, <3>1, <3>2 DEF Records, Rank, Versions, GetIncrementedVersion
      <3>4. bucket[GetIncrementedVersion(handler[g].seen)] # NoObject
        BY <2>1, <3>1 DEF Consistent, NextListStored
      <3> QED
        BY <1>4, <3>1, <3>2, <3>3, <3>4
    <2> QED
      BY <1>3, <2>1 DEF NextListStored, Rank, GetIncrementedVersion
  <1>10. DeletesOnlyThePast'
    BY <1>3, <1>6, <1>7 DEF Consistent, DeletesOnlyThePast, Rank
  <1> QED
    BY <1>5, <1>8, <1>9, <1>10 DEF Consistent

LEMMA InitConsistent == Init => Consistent
  <1> SUFFICES ASSUME Init PROVE Consistent
    OBVIOUS
  <1>1. TypeOK
    BY InitType
  <1>2. InitLocal /\ Rank(record) \in Nat
    BY <1>1, RankType DEF Init, InitEmpty, TypeOK
  <1>3. \A h \in Handlers : Safe(handler[h])
    BY <1>1, <1>2, EmptyHanded DEF InitLocal, Idle
  <1>4. Backed
    <2>1. CASE InitEmpty
      BY <2>1 DEF InitEmpty, Backed, Live, Exists, NoRecord
    <2>2. CASE ~InitEmpty
      BY <2>2, ApiAssumption, BoundsAssumption DEF Init, Backed, Versions, Lists
    <2> QED
      BY <2>1, <2>2
  <1> QED
    BY <1>2, <1>3, <1>4, ConsistentBySafe DEF InitLocal

LEMMA NextConsistent ==
    ASSUME TypeOK, PhaseOK, Consistent, [Next]_apiVars, ~lostUpdate'
    PROVE  Consistent'
  <1>1. ASSUME NEW h \in Handlers, Step(h) PROVE Consistent'
    BY <1>1, ReceiveConsistent, ReplyConsistent, GetItemConsistent, GetObjectConsistent,
       PutObjectConsistent, CommitConsistent, DeleteObjectConsistent, FailureConsistent
    DEF Step
  <1>2. CASE Replicate
    <2>1. Rank(record) \in Nat
      BY RankType DEF TypeOK
    <2> QED
      BY <1>2, <2>1 DEF Replicate, Consistent, Backed, NothingFromTheFuture,
         NextListStored, DeletesOnlyThePast, Rank, Live, Exists
  <1>3. CASE Tick \/ UNCHANGED apiVars
    BY <1>3 DEF Tick, apiVars, Consistent, Backed, NothingFromTheFuture,
       NextListStored, DeletesOnlyThePast, Rank, Live, Exists
  <1> QED
    BY <1>1, <1>2, <1>3 DEF Next

\* Once an update was lost it stays so.
LEMMA LostStaysLost ==
    ASSUME TypeOK, [Next]_apiVars, lostUpdate
    PROVE  lostUpdate'
  <1>1. ASSUME NEW h \in Handlers, Commit(h) PROVE lostUpdate'
    BY <1>1 DEF Commit, WriteRecord
  <1> QED
    BY <1>1 DEF Next, Step, Receive, Reply, GetItem, GetObject, GetObjectFails, PutObject,
       DeleteObject, ClientFails, Kill, VersionFails, Replicate, Tick, apiVars

\* A step of the bookmark routes, or none, keeps the invariant.
LEMMA NextKeepsInv == IndInv /\ [Next]_apiVars => IndInv'
  <1> SUFFICES ASSUME IndInv, [Next]_apiVars PROVE IndInv'
    OBVIOUS
  <1>1. TypeOK' /\ PhaseOK'
    BY NextType DEF IndInv
  <1>2. ~lostUpdate' => Consistent'
    BY NextConsistent, LostStaysLost DEF IndInv
  <1> QED
    BY <1>1, <1>2 DEF IndInv

\* The invariant that makes it so, for every execution.
THEOREM Invariance == Spec => []IndInv
  <1>1. Init => IndInv
    BY InitType, InitConsistent DEF IndInv
  <1> QED
    BY <1>1, NextKeepsInv, PTL DEF Spec

\* However many requests interleave, fail, are killed or read a stale item, the
\* item in the table names a list that is in the bucket, unless some handler
\* wrote it over an item that it never saw.
THEOREM ItemBacked == Spec => []BackedUnlessLostUpdate
  <1>1. IndInv => BackedUnlessLostUpdate
    BY DEF IndInv, Consistent, BackedUnlessLostUpdate
  <1> QED
    BY <1>1, Invariance, PTL

\* A write that lands on the item its handler saw moves the item forwards.
LEMMA CommitMovesOn ==
    ASSUME TypeOK, PhaseOK, NEW h \in Handlers, Commit(h), ~lostUpdate'
    PROVE  Rank(record') >= Rank(record)
  <1>1. /\ At(h, "commit", Puts \union {"delete"})
        /\ record \in Records /\ Rank(record) \in Nat
    BY RankType DEF Commit, TypeOK
  <1>2. PICK o \in Outcomes : WriteRecord(handler[h].seen, NextItem(h), o.applied)
    BY DEF Commit
  <1>3. CASE o.applied
    <2>1. record' = Stored(record, handler[h].seen, NextItem(h)) /\ Rank(handler[h].seen) = Rank(record)
      BY <1>2, <1>3 DEF WriteRecord
    <2>2. /\ handler[h].seen \in Records /\ NextItem(h) \in Records
          /\ Rank(NextItem(h)) > Rank(handler[h].seen)
      BY <1>1, NextItemType
    <2>3. Rank(record') = Rank(NextItem(h)) /\ Rank(NextItem(h)) \in Nat
      BY <1>1, <2>1, <2>2, StoredType, RankType
    <2> QED
      BY <1>1, <2>1, <2>2, <2>3
  <1>4. CASE ~o.applied
    BY <1>1, <1>2, <1>4 DEF WriteRecord
  <1> QED
    BY <1>3, <1>4

\* No step of the bookmark routes takes the item back.
LEMMA NextMovesOn ==
    ASSUME IndInv, [Next]_apiVars, ~lostUpdate'
    PROVE  ~(Rank(record') < Rank(record))
  <1>1. TypeOK /\ PhaseOK /\ Rank(record) \in Nat
    BY RankType DEF IndInv, TypeOK
  <1>2. ASSUME NEW h \in Handlers, Commit(h) PROVE ~(Rank(record') < Rank(record))
    <2>1. Rank(record') \in Nat
      BY <1>1, <1>2, CommitType, RankType DEF TypeOK
    <2> QED
      BY <1>1, <1>2, <2>1, CommitMovesOn
  <1>3. CASE record' = record
    BY <1>1, <1>3 DEF Rank
  <1>4. (\E h \in Handlers : Commit(h)) \/ record' = record
    BY DEF Next, Step, Receive, Reply, GetItem, GetObject, GetObjectFails, PutObject,
       DeleteObject, ClientFails, Kill, VersionFails, Replicate, Tick, apiVars
  <1> QED
    BY <1>2, <1>3, <1>4

\* Every step of every execution: the version counter of a user moves back
\* only when a handler writes the item over one it never saw.
THEOREM VersionsGoForward == Spec => NeverRollsBack
  <1>1. IndInv /\ [Next]_apiVars => [Rank(record') < Rank(record) => lostUpdate']_apiVars
    BY NextMovesOn
  <1> QED
    BY <1>1, Invariance, PTL DEF Spec, NeverRollsBack

-----------------------------------------------------------------------------
(* A refusal leaves no trace.                                              *)

Refusals == {"badRequest", "forbidden", "notFound"}

\* What a handler in the state s has done and answered: nothing is written
\* before PutObject, and no answer is given before the end.
Honest(s) ==
    /\ s.pc \in {"idle", "getItem", "getObject", "putObject"} => ~s.wrote
    /\ s.pc # "done" => s.answer = "none"
    /\ s.answer \in Refusals => ~s.wrote

AllHonest == \A h \in Handlers : Honest(handler[h])

LEMMA HonestStep ==
    ASSUME TypeOK, AllHonest, NEW h \in Handlers, NEW s, Honest(s),
           handler' = [handler EXCEPT ![h] = s]
    PROVE  AllHonest'
  BY DEF TypeOK, AllHonest, Honest

LEMMA AnsweredHonest ==
    ASSUME NEW s \in HandlerStates, NEW answer \in Answers, NEW body, NEW wrote \in BOOLEAN,
           answer \in Refusals => ~wrote
    PROVE  Honest(Answered(s, answer, body, wrote))
  BY DEF HandlerStates, Answered, Honest

LEMMA FinishHonest ==
    ASSUME TypeOK, AllHonest, NEW h \in Handlers, NEW answer \in Answers, Finish(h, answer),
           answer \in Refusals => ~handler[h].wrote
    PROVE  AllHonest'
  <1>1. handler[h] \in HandlerStates /\ handler[h].wrote \in BOOLEAN
    BY DEF TypeOK, HandlerStates
  <1>2. Honest(Answered(handler[h], answer, {}, handler[h].wrote))
    BY <1>1, AnsweredHonest
  <1>3. handler' = [handler EXCEPT ![h] = Answered(handler[h], answer, {}, handler[h].wrote)]
    BY DEF Finish
  <1> QED
    BY <1>2, <1>3, HonestStep

LEMMA LoadHonest ==
    ASSUME TypeOK, AllHonest, NEW h \in Handlers, NEW r, NEW body,
           NEW phase \in {"getObject", "putObject", "commit"},
           Load(h, r, phase, body), handler[h].pc = "getItem"
    PROVE  AllHonest'
  <1> DEFINE s == [handler[h] EXCEPT !.seen = r, !.pc = phase, !.body = body]
  <1>1. handler[h] \in HandlerStates /\ Honest(handler[h])
    BY DEF TypeOK, AllHonest
  <1>2. s.pc = phase /\ s.answer = handler[h].answer /\ s.wrote = handler[h].wrote
    BY <1>1 DEF HandlerStates
  <1>3. handler[h].answer = "none" /\ ~handler[h].wrote
    BY <1>1 DEF Honest
  <1>4. Honest(s)
    BY <1>2, <1>3 DEF Honest, Refusals
  <1>5. handler' = [handler EXCEPT ![h] = s]
    BY <1>1 DEF Load, HandlerStates, TypeOK
  <1> QED
    BY <1>4, <1>5, HonestStep

LEMMA ReceiveHonest ==
    ASSUME TypeOK, AllHonest, NEW h \in Handlers, Receive(h)
    PROVE  AllHonest'
  <1>1. PICK op \in Serves[h] : \E arg \in Requests(op) :
            handler' = [handler EXCEPT ![h] =
                IF Malformed(op, arg)
                  THEN Answered([Idle EXCEPT !.op = op, !.arg = arg, !.pc = "getItem"],
                                "badRequest", {}, FALSE)
                  ELSE [Idle EXCEPT !.op = op, !.arg = arg, !.pc = "getItem"]]
    BY DEF Receive
  <1>2. PICK arg \in Requests(op) :
            handler' = [handler EXCEPT ![h] =
                IF Malformed(op, arg)
                  THEN Answered([Idle EXCEPT !.op = op, !.arg = arg, !.pc = "getItem"],
                                "badRequest", {}, FALSE)
                  ELSE [Idle EXCEPT !.op = op, !.arg = arg, !.pc = "getItem"]]
    BY <1>1
  <1> DEFINE request == [Idle EXCEPT !.op = op, !.arg = arg, !.pc = "getItem"]
  <1>3. Honest(request)
    BY DEF Honest, Idle, Refusals
  <1>4. Honest(Answered(request, "badRequest", {}, FALSE))
    BY DEF Honest, Answered, Idle
  <1> QED
    BY <1>2, <1>3, <1>4, HonestStep

LEMMA GetItemHonest ==
    ASSUME TypeOK, AllHonest, NEW h \in Handlers, GetItem(h)
    PROVE  AllHonest'
  <1>1. PICK r \in Snapshots :
          \/ At(h, "getItem", {"put"})    /\ PutBookmarks(h, r)
          \/ At(h, "getItem", {"post"})   /\ PostBookmarks(h, r)
          \/ At(h, "getItem", {"delete"}) /\ DeleteBookmarks(h, r)
          \/ At(h, "getItem", {"remove"}) /\ FindAndDeleteBookmarkEntry(h, r)
          \/ At(h, "getItem", Reads)      /\ GetBookmarksS3Object(h, r)
    BY DEF GetItem
  <1>2. handler[h].pc = "getItem" /\ ~handler[h].wrote
    BY <1>1 DEF At, AllHonest, Honest
  <1>3. \/ \E answer \in Answers : Finish(h, answer)
        \/ \E phase \in {"getObject", "putObject", "commit"} : \E body : Load(h, r, phase, body)
    <2>1. CASE PutBookmarks(h, r)
      BY <2>1 DEF PutBookmarks, Answers
    <2>2. CASE PostBookmarks(h, r)
      BY <2>2 DEF PostBookmarks, Answers
    <2>3. CASE DeleteBookmarks(h, r)
      BY <2>3 DEF DeleteBookmarks, Answers
    <2>4. CASE FindAndDeleteBookmarkEntry(h, r)
      BY <2>4 DEF FindAndDeleteBookmarkEntry, Answers
    <2>5. CASE GetBookmarksS3Object(h, r)
      BY <2>5 DEF GetBookmarksS3Object, Answers
    <2> QED
      BY <1>1, <2>1, <2>2, <2>3, <2>4, <2>5
  <1> QED
    BY <1>2, <1>3, FinishHonest, LoadHonest

LEMMA GetObjectHonest ==
    ASSUME TypeOK, AllHonest, NEW h \in Handlers, GetObject(h)
    PROVE  AllHonest'
  <1> DEFINE list == bucket[handler[h].seen.version]
             old  == handler[h]
  <1>1. old \in HandlerStates /\ old.pc = "getObject" /\ ~old.wrote /\ old.answer = "none"
    BY DEF TypeOK, AllHonest, Honest, GetObject, At
  <1>2. ASSUME NEW answer \in Answers, Finish(h, answer) PROVE AllHonest'
    BY <1>1, <1>2, FinishHonest
  <1>3. CASE GetBookmarks(h, list)
    <2>1. Honest(Answered(old, "ok", list, FALSE))
      BY <1>1, AnsweredHonest DEF Answers
    <2> QED
      BY <1>2, <1>3, <2>1, HonestStep DEF GetBookmarks, Answers
  <1>4. CASE FindBookmarkEntry(h, list)
    BY <1>2, <1>4 DEF FindBookmarkEntry, Answers
  <1>5. ASSUME NEW body,
               handler' = [handler EXCEPT ![h].pc = "putObject", ![h].body = body]
        PROVE  AllHonest'
    <2> DEFINE s == [old EXCEPT !.pc = "putObject", !.body = body]
    <2>1. s.pc = "putObject" /\ s.wrote = old.wrote /\ s.answer = old.answer
      BY <1>1 DEF HandlerStates
    <2>2. Honest(s)
      BY <1>1, <2>1 DEF Honest, Refusals
    <2>3. handler' = [handler EXCEPT ![h] = s]
      BY <1>1, <1>5 DEF TypeOK, HandlerStates
    <2> QED
      BY <2>2, <2>3, HonestStep
  <1> QED
    BY <1>3, <1>4, <1>5 DEF GetObject, getExistingBookmarks, deleteMatchingBookmarks

LEMMA PutObjectHonest ==
    ASSUME TypeOK, AllHonest, NEW h \in Handlers, PutObject(h)
    PROVE  AllHonest'
  <1> DEFINE old == handler[h]
  <1>1. old \in HandlerStates /\ old.answer = "none"
    BY DEF PutObject, At, TypeOK, AllHonest, Honest
  <1>2. PICK o \in Outcomes :
          handler' = [handler EXCEPT ![h] = AfterPut([old EXCEPT !.wrote = o.applied], o.ok)]
    BY DEF PutObject
  <1> DEFINE s == [old EXCEPT !.wrote = o.applied]
  <1>3. s \in HandlerStates /\ s.answer = "none" /\ s.wrote \in BOOLEAN
    BY <1>1, OutcomesType DEF HandlerStates
  <1>4. CASE o.ok
    <2>1. LET t == [s EXCEPT !.pc = "commit"] IN t.pc = "commit" /\ t.answer = "none"
      BY <1>3 DEF HandlerStates
    <2>2. Honest([s EXCEPT !.pc = "commit"])
      BY <2>1 DEF Honest, Refusals
    <2> QED
      BY <1>2, <1>4, <2>2, HonestStep DEF AfterPut
  <1>5. CASE ~o.ok
    <2>1. Honest(Answered(s, "error", {}, s.wrote))
      BY <1>3, AnsweredHonest DEF Answers, Refusals
    <2> QED
      BY <1>2, <1>5, <2>1, HonestStep DEF AfterPut
  <1> QED
    BY <1>4, <1>5

LEMMA CommitHonest ==
    ASSUME TypeOK, AllHonest, NEW h \in Handlers, Commit(h)
    PROVE  AllHonest'
  <1> DEFINE old == handler[h]
  <1>1. old \in HandlerStates /\ old.answer = "none"
    BY DEF Commit, At, TypeOK, AllHonest, Honest
  <1>2. PICK o \in Outcomes :
          handler' = [handler EXCEPT ![h] =
                         AfterCommit([old EXCEPT !.wrote = old.wrote \/ o.applied], o.ok)]
    BY DEF Commit
  <1> DEFINE s == [old EXCEPT !.wrote = old.wrote \/ o.applied]
  <1>3. (old.wrote \/ o.applied) \in BOOLEAN
    OBVIOUS
  <1>4. s \in HandlerStates /\ s.answer = "none" /\ s.wrote \in BOOLEAN
    BY <1>1, <1>3 DEF HandlerStates
  <1>5. CASE o.ok /\ Live(s.seen)
    <2>1. LET t == [s EXCEPT !.pc = "deleteObject"] IN t.pc = "deleteObject" /\ t.answer = "none"
      BY <1>4 DEF HandlerStates
    <2>2. Honest([s EXCEPT !.pc = "deleteObject"])
      BY <2>1 DEF Honest, Refusals
    <2> QED
      BY <1>2, <1>5, <2>2, HonestStep DEF AfterCommit
  <1>6. CASE ~(o.ok /\ Live(s.seen))
    <2>1. \A answer \in {"ok", "error"} : Honest(Answered(s, answer, {}, s.wrote))
      BY <1>4, AnsweredHonest DEF Answers, Refusals
    <2> QED
      BY <1>2, <1>6, <2>1, HonestStep DEF AfterCommit
  <1> QED
    BY <1>5, <1>6

LEMMA DeleteObjectHonest ==
    ASSUME TypeOK, AllHonest, NEW h \in Handlers, DeleteObject(h)
    PROVE  AllHonest'
  <1> DEFINE old == handler[h]
  <1>1. old \in HandlerStates /\ old.wrote \in BOOLEAN
    BY DEF TypeOK, HandlerStates
  <1>2. PICK o \in Outcomes : handler' = [handler EXCEPT ![h] = AfterDelete(old, o.ok)]
    BY DEF DeleteObject
  <1>3. \A answer \in {"ok", "error"} : Honest(Answered(old, answer, {}, old.wrote))
    BY <1>1, AnsweredHonest DEF Answers, Refusals
  <1> QED
    BY <1>2, <1>3, HonestStep DEF AfterDelete

LEMMA FailureHonest ==
    ASSUME TypeOK, AllHonest, NEW h \in Handlers,
           GetObjectFails(h) \/ VersionFails(h) \/ ClientFails(h) \/ Kill(h)
    PROVE  AllHonest'
  <1>1. CASE GetObjectFails(h)
    <2>1. ~handler[h].wrote
      BY <1>1 DEF GetObjectFails, At, AllHonest, Honest
    <2> QED
      BY <1>1, <2>1, FinishHonest DEF GetObjectFails, Answers
  <1>2. CASE VersionFails(h) \/ ClientFails(h) \/ Kill(h)
    BY <1>2, FinishHonest DEF VersionFails, ClientFails, Kill, Answers, Refusals
  <1> QED
    BY <1>1, <1>2

\* A request that is answered with 400, 403 or 404 has written neither the item
\* nor a list, whatever was refused to it and wherever it was.
THEOREM RefusalIsHarmless == Spec => []RefusedLeavesNoTrace
  <1>1. Init => AllHonest
    BY DEF Init, InitEmpty, InitLocal, AllHonest, Honest, Idle, Refusals
  <1>2. TypeOK /\ AllHonest /\ [Next]_apiVars => AllHonest'
    <2> SUFFICES ASSUME TypeOK, AllHonest, [Next]_apiVars PROVE AllHonest'
      OBVIOUS
    <2>1. ASSUME NEW h \in Handlers, Reply(h) PROVE AllHonest'
      <3>1. Honest(Idle)
        BY DEF Honest, Idle, Refusals
      <3> QED
        BY <2>1, <3>1, HonestStep DEF Reply
    <2>2. ASSUME NEW h \in Handlers, Step(h) PROVE AllHonest'
      BY <2>1, <2>2, ReceiveHonest, GetItemHonest, GetObjectHonest, PutObjectHonest,
         CommitHonest, DeleteObjectHonest, FailureHonest DEF Step
    <2>3. CASE handler' = handler
      BY <2>3 DEF AllHonest, Honest
    <2> QED
      BY <2>2, <2>3 DEF Next, Replicate, Tick, apiVars
  <1>3. IndInv => TypeOK
    BY DEF IndInv
  <1>4. AllHonest => RefusedLeavesNoTrace
    BY DEF AllHonest, Honest, Refusals, RefusedLeavesNoTrace
  <1> QED
    BY <1>1, <1>2, <1>3, <1>4, Invariance, PTL DEF Spec

-----------------------------------------------------------------------------
(* Nothing is left behind.                                                 *)

\* The faults that do not stop a handler in the middle of its writes.
Harmless == Faults \subseteq {"staleRead", "clientError"}

\* A handler in the state s will name or remove the list of the version v.
Holds(s, v) ==
    \/ s.pc = "commit" /\ s.op \in Puts /\ v = GetIncrementedVersion(s.seen)
    \/ s.pc = "deleteObject" /\ v = s.seen.version

\* The list of the version v is the item's or in the hands of a handler.
HasOwner(v) == \/ Live(record) /\ record.version = v
           \/ \E h \in Handlers : Holds(handler[h], v)

NoStrays == \A v \in Versions : bucket[v] # NoObject => HasOwner(v)

\* Without other faults a write takes effect and is known to.
LEMMA HarmlessOutcomes ==
    ASSUME Harmless, NEW o \in Outcomes
    PROVE  o.ok = TRUE /\ o.applied = TRUE
  <1>1. o = [applied |-> TRUE, ok |-> TRUE]
    BY DEF Harmless, Outcomes
  <1> QED
    BY <1>1

\* A handler that holds no list moves, and the table and the bucket stay.
LEMMA EmptyHandsMove ==
    ASSUME NoStrays, NEW h \in Handlers,
           \A g \in Handlers : g # h => handler'[g] = handler[g],
           \A v \in Versions : ~Holds(handler[h], v),
           UNCHANGED <<record, bucket>>
    PROVE  NoStrays'
  <1>1. ASSUME NEW v \in Versions, bucket[v] # NoObject
        PROVE  \/ Live(record) /\ record.version = v
               \/ \E g \in Handlers : Holds(handler'[g], v)
    BY <1>1 DEF NoStrays, HasOwner
  <1> QED
    BY <1>1 DEF NoStrays, HasOwner, Holds, Live, Exists, GetIncrementedVersion

\* Everything a handler does but its three writes.
LEMMA OtherStepsTidy ==
    ASSUME TypeOK, NoStrays, Harmless, NEW h \in Handlers,
           \/ Receive(h) \/ Reply(h) \/ GetItem(h) \/ GetObject(h) \/ GetObjectFails(h)
           \/ ClientFails(h) \/ Kill(h) \/ VersionFails(h)
    PROVE  NoStrays'
  <1>1. ~Kill(h)
    BY DEF Kill, Harmless
  <1>2. /\ \/ handler[h].pc \in {"idle", "getItem", "getObject", "putObject", "done"}
           \/ handler[h].op = "delete" /\ handler[h].pc = "commit"
        /\ UNCHANGED <<record, bucket>>
    BY <1>1 DEF Receive, Reply, GetItem, GetObject, GetObjectFails, ClientFails, VersionFails, At
  <1>3. handler \in [Handlers -> HandlerStates]
    BY DEF TypeOK
  <1>4. \E s : handler' = [handler EXCEPT ![h] = s]
    <2>1. ASSUME NEW answer, Finish(h, answer) PROVE \E s : handler' = [handler EXCEPT ![h] = s]
      BY <2>1 DEF Finish
    <2>2. ASSUME NEW r, NEW phase, NEW body, Load(h, r, phase, body)
          PROVE  \E s : handler' = [handler EXCEPT ![h] = s]
      <3>1. handler' = [handler EXCEPT ![h] =
                           [handler[h] EXCEPT !.seen = r, !.pc = phase, !.body = body]]
        BY <1>3, <2>2 DEF Load, HandlerStates
      <3> QED
        BY <3>1
    <2>3. ASSUME NEW body,
                 handler' = [handler EXCEPT ![h].pc = "putObject", ![h].body = body]
          PROVE  \E s : handler' = [handler EXCEPT ![h] = s]
      <3>1. handler' = [handler EXCEPT ![h] =
                           [handler[h] EXCEPT !.pc = "putObject", !.body = body]]
        BY <1>3, <2>3 DEF HandlerStates
      <3> QED
        BY <3>1
    <2>4. CASE Receive(h) \/ Reply(h)
      BY <2>4 DEF Receive, Reply
    <2>5. CASE GetItem(h)
      <3>1. \/ \E answer : Finish(h, answer)
            \/ \E r, phase, body : Load(h, r, phase, body)
        BY <2>5 DEF GetItem, PutBookmarks, PostBookmarks, DeleteBookmarks,
           FindAndDeleteBookmarkEntry, GetBookmarksS3Object
      <3> QED
        BY <2>1, <2>2, <3>1
    <2>6. CASE GetObject(h)
      <3>1. \/ \E answer : Finish(h, answer)
            \/ \E s : handler' = [handler EXCEPT ![h] = s]
            \/ \E body : handler' = [handler EXCEPT ![h].pc = "putObject", ![h].body = body]
        BY <2>6 DEF GetObject, GetBookmarks, FindBookmarkEntry, getExistingBookmarks,
           deleteMatchingBookmarks
      <3> QED
        BY <2>1, <2>3, <3>1
    <2>7. CASE GetObjectFails(h) \/ ClientFails(h) \/ VersionFails(h)
      BY <2>1, <2>7 DEF GetObjectFails, ClientFails, VersionFails
    <2> QED
      BY <1>1, <2>4, <2>5, <2>6, <2>7
  <1>5. \A g \in Handlers : g # h => handler'[g] = handler[g]
    BY <1>3, <1>4
  <1>6. \A v \in Versions : ~Holds(handler[h], v)
    BY <1>2 DEF Holds, Puts
  <1> QED
    BY <1>2, <1>5, <1>6, EmptyHandsMove

\* A list that is stored is in the hands of the handler that stored it.
LEMMA PutObjectTidy ==
    ASSUME TypeOK, NoStrays, Harmless, NEW h \in Handlers, PutObject(h)
    PROVE  NoStrays'
  <1> DEFINE old == handler[h]
             v == GetIncrementedVersion(old.seen)
             t == [[old EXCEPT !.wrote = TRUE] EXCEPT !.pc = "commit"]
  <1>1. old \in HandlerStates /\ old.pc = "putObject" /\ old.op \in Puts /\ v \in Versions
    BY DEF PutObject, At, TypeOK
  <1>2. bucket' = [bucket EXCEPT ![v] = old.body] /\ handler' = [handler EXCEPT ![h] = t]
    <2>1. PICK o \in Outcomes :
            /\ bucket' = IF o.applied THEN [bucket EXCEPT ![v] = old.body] ELSE bucket
            /\ handler' = [handler EXCEPT ![h] = AfterPut([old EXCEPT !.wrote = o.applied], o.ok)]
      BY DEF PutObject
    <2>2. o.ok = TRUE /\ o.applied = TRUE
      BY HarmlessOutcomes
    <2> QED
      BY <2>1, <2>2 DEF AfterPut
  <1>3. Holds(t, v)
    BY <1>1 DEF Holds, HandlerStates, GetIncrementedVersion
  <1>4. handler'[h] = t /\ \A g \in Handlers : g # h => handler'[g] = handler[g]
    BY <1>2 DEF TypeOK
  <1>5. ASSUME NEW w \in Versions, bucket'[w] # NoObject
        PROVE  \/ Live(record) /\ record.version = w
               \/ \E g \in Handlers : Holds(handler'[g], w)
    <2>1. CASE w = v
      BY <1>3, <1>4, <2>1
    <2>2. CASE w # v
      <3>1. bucket[w] # NoObject /\ ~Holds(old, w)
        BY <1>1, <1>2, <1>5, <2>2 DEF TypeOK, Holds
      <3> QED
        BY <1>4, <3>1 DEF NoStrays, HasOwner
    <2> QED
      BY <2>1, <2>2
  <1>6. record' = record
    BY DEF PutObject
  <1> QED
    BY <1>5, <1>6 DEF NoStrays, HasOwner, Holds, Live, Exists, GetIncrementedVersion

\* The handler hands its list to the item, and takes over that of the item before.
LEMMA CommitTidy ==
    ASSUME TypeOK, PhaseOK, NoStrays, Harmless, NEW h \in Handlers, Commit(h), ~lostUpdate'
    PROVE  NoStrays'
  <1> DEFINE old == handler[h]
             e == NextItem(h)
             s == [old EXCEPT !.wrote = TRUE]
             t == AfterCommit(s, TRUE)
  <1>1. /\ old \in HandlerStates /\ old.pc = "commit" /\ old.seen \in Records
        /\ At(h, "commit", Puts \union {"delete"}) /\ Carries(old)
        /\ record \in Records
    BY DEF Commit, At, TypeOK, PhaseOK, HandlerStates
  <1>2. /\ WriteRecord(old.seen, e, TRUE)
        /\ handler' = [handler EXCEPT ![h] = t]
        /\ bucket' = bucket
    <2>1. PICK o \in Outcomes :
            /\ WriteRecord(old.seen, e, o.applied)
            /\ handler' = [handler EXCEPT ![h] =
                   AfterCommit([old EXCEPT !.wrote = old.wrote \/ o.applied], o.ok)]
      BY DEF Commit
    <2>2. o.ok = TRUE /\ o.applied = TRUE
      BY HarmlessOutcomes
    <2>3. (old.wrote \/ TRUE) = TRUE
      OBVIOUS
    <2> QED
      BY <2>1, <2>2, <2>3 DEF Commit
  <1>3. record' = Stored(record, old.seen, e) /\ Rank(old.seen) = Rank(record)
    BY <1>2 DEF WriteRecord
  <1>4. /\ e \in Records
        /\ old.op \in Puts => e.version = GetIncrementedVersion(old.seen)
        /\ record'.version = e.version /\ (Live(record') <=> Live(e))
    <2>1. e \in Records /\ (old.op \in Puts => e.version = GetIncrementedVersion(old.seen))
      BY <1>1, NextItemType
    <2> QED
      BY <1>1, <1>3, <2>1, StoredType
  <1>5. old.op \in Puts => Live(e)
    <2>1. ASSUME old.op \in Puts PROVE Live(e)
      <3>1. e = WithVersion(old.seen, GetIncrementedVersion(old.seen))
        BY <2>1 DEF NextItem, Puts
      <3>2. GetIncrementedVersion(old.seen) \in Versions
        BY <1>1, <2>1 DEF Carries
      <3> QED
        BY <1>1, <3>1, <3>2, WithVersionType
    <2> QED
      BY <2>1
  <1>6. record.version = old.seen.version /\ record.deleted = old.seen.deleted
    <2>1. /\ record.version \in Nat /\ record.deleted \in BOOLEAN
          /\ old.seen.version \in Nat /\ old.seen.deleted \in BOOLEAN
      BY <1>1 DEF Records, Versions
    <2> QED
      BY <1>3, <2>1 DEF Rank
  <1>7. Live(record) => t.pc = "deleteObject" /\ t.seen = old.seen
    <2>1. s \in HandlerStates /\ s.seen = old.seen
      BY <1>1 DEF HandlerStates
    <2>2. Live(record) => Live(s.seen)
      BY <1>6, <2>1 DEF Live, Exists
    <2> QED
      BY <2>1, <2>2 DEF AfterCommit, HandlerStates
  <1>8. handler'[h] = t /\ \A g \in Handlers : g # h => handler'[g] = handler[g]
    BY <1>2 DEF TypeOK
  <1>9. ASSUME NEW v \in Versions, bucket[v] # NoObject
        PROVE  \/ Live(record') /\ record'.version = v
               \/ \E g \in Handlers : Holds(handler'[g], v)
    <2>1. CASE Live(record) /\ record.version = v
      <3>1. Holds(t, v)
        BY <1>6, <1>7, <2>1 DEF Holds
      <3> QED
        BY <1>8, <3>1
    <2>2. CASE Holds(old, v)
      BY <1>1, <1>4, <1>5, <2>2 DEF Holds
    <2>3. ASSUME NEW g \in Handlers, g # h, Holds(handler[g], v)
          PROVE  Holds(handler'[g], v)
      BY <1>8, <2>3
    <2> QED
      BY <1>9, <2>1, <2>2, <2>3 DEF NoStrays, HasOwner
  <1> QED
    BY <1>2, <1>9 DEF NoStrays, HasOwner, Holds, Live, Exists, GetIncrementedVersion

\* The only list that a handler lets go of is the one it has just removed.
LEMMA DeleteObjectTidy ==
    ASSUME TypeOK, NoStrays, Harmless, NEW h \in Handlers, DeleteObject(h)
    PROVE  NoStrays'
  <1> DEFINE old == handler[h]
             v == old.seen.version
  <1>1. PICK s : /\ bucket' = [bucket EXCEPT ![v] = NoObject]
                 /\ handler' = [handler EXCEPT ![h] = s]
    <2>1. PICK o \in Outcomes :
            /\ bucket' = IF o.applied THEN [bucket EXCEPT ![v] = NoObject] ELSE bucket
            /\ handler' = [handler EXCEPT ![h] = AfterDelete(old, o.ok)]
      BY DEF DeleteObject, previousVersion
    <2> QED
      BY <2>1, HarmlessOutcomes
  <1>2. \A g \in Handlers : g # h => handler'[g] = handler[g]
    BY <1>1 DEF TypeOK
  <1>3. ASSUME NEW w \in Versions, bucket'[w] # NoObject
        PROVE  \/ Live(record) /\ record.version = w
               \/ \E g \in Handlers : Holds(handler'[g], w)
    <2>1. w # v /\ bucket[w] # NoObject
      BY <1>1, <1>3 DEF TypeOK
    <2>2. ~Holds(old, w)
      BY <2>1 DEF Holds, DeleteObject, At
    <2> QED
      BY <1>2, <2>1, <2>2 DEF NoStrays, HasOwner
  <1>4. record' = record
    BY DEF DeleteObject
  <1> QED
    BY <1>3, <1>4 DEF NoStrays, HasOwner, Holds, Live, Exists, GetIncrementedVersion

\* Requests that are neither killed nor meet a failing write leave no list in the
\* bucket but the one the item names, unless an update was lost.
THEOREM BucketStaysTidy == Spec => []NothingLeftBehind
  <1> DEFINE Tidy == Harmless /\ ~lostUpdate => NoStrays
  <1>1. Init => Tidy
    BY BoundsAssumption DEF Init, InitEmpty, NoStrays, HasOwner, Live, Exists
  <1>2. IndInv /\ Tidy /\ [Next]_apiVars => Tidy'
    <2> SUFFICES ASSUME IndInv, Tidy, [Next]_apiVars, Harmless, ~lostUpdate' PROVE NoStrays'
      BY DEF Harmless
    <2>1. TypeOK /\ PhaseOK /\ NoStrays
      BY LostStaysLost DEF IndInv
    <2>2. ASSUME NEW h \in Handlers, Step(h) PROVE NoStrays'
      BY <2>1, <2>2, OtherStepsTidy, PutObjectTidy, CommitTidy, DeleteObjectTidy DEF Step
    <2>3. CASE UNCHANGED <<record, bucket, handler>>
      BY <2>1, <2>3 DEF NoStrays, HasOwner, Holds, Live, Exists, GetIncrementedVersion
    <2> QED
      BY <2>2, <2>3 DEF Next, Replicate, Tick, apiVars
  <1>3. Tidy => NothingLeftBehind
    BY DEF NothingLeftBehind, Harmless, NoStrays, HasOwner, Holds
  <1> QED
    BY <1>1, <1>2, <1>3, Invariance, PTL DEF Spec

=============================================================================
