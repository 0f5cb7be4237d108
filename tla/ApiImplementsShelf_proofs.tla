--------------------- MODULE ApiImplementsShelf_proofs ---------------------
(***************************************************************************)
(* The bookmark routes implement the shelf: every step of BookmarkApi is a *)
(* step of BookmarkShelf, or none, for every set of handlers of which one  *)
(* writes, every set of URLs and every bound.                              *)
(***************************************************************************)
EXTENDS ApiImplementsShelf, BookmarkApi_proofs

-----------------------------------------------------------------------------
(* The inductive invariant.                                                *)

Writes == Puts \union {"delete"}

\* What a write of a list makes of the list that the item names.
EffectOn(list, op, arg) ==
    CASE op = "put"    -> arg
      [] op = "post"   -> IF list = NoObject THEN arg ELSE list \union arg
      [] op = "remove" -> list \ arg

\* A phase belongs to the operations that pass through it.
OnItsWay(h) ==
    LET s == handler[h]
    IN  /\ s.pc # "idle" => s.op \in Serves[h]
        /\ s.pc = "getObject" => s.op \in Reads \union {"post", "remove"}
        /\ s.pc = "putObject" => s.op \in Puts
        /\ s.pc \in {"commit", "deleteObject"} => s.op \in Writes

\* A writer that has not written the item yet has seen the one in the table ...
UpToDate(h) ==
    LET s == handler[h]
    IN  (s.pc \in {"getObject", "putObject", "commit"} /\ s.op \in Writes)
          => Rank(s.seen) = Rank(record)

\* ... holds what its request makes of the list of that item ...
Composed(h) ==
    LET s == handler[h]
    IN  (s.pc \in {"putObject", "commit"} /\ s.op \in Puts)
          => /\ s.op = "remove" => Live(record)
             /\ s.body = EffectOn(ListOf(record), s.op, s.arg)

\* ... and has stored it before it writes the item.
Uploaded(h) ==
    LET s == handler[h]
    IN  (s.pc = "commit" /\ s.op \in Puts)
          => bucket[GetIncrementedVersion(s.seen)] = s.body

Sound(h) == OnItsWay(h) /\ UpToDate(h) /\ Composed(h) /\ Uploaded(h)

ShelfInv == ~lostUpdate /\ \A h \in Handlers : Sound(h)

-----------------------------------------------------------------------------
(* Facts that the steps share.                                             *)

\* A rank names a version and whether it is deleted.
LEMMA RankIsInjective ==
    ASSUME NEW r \in Records, NEW q \in Records, Rank(r) = Rank(q)
    PROVE  /\ r.version = q.version /\ r.deleted = q.deleted
           /\ Live(r) <=> Live(q)
  <1>1. /\ r.version \in Nat /\ q.version \in Nat
        /\ r.deleted \in BOOLEAN /\ q.deleted \in BOOLEAN
    BY DEF Records, Versions
  <1>2. r.version = q.version /\ (r.deleted = TRUE <=> q.deleted = TRUE)
    BY <1>1 DEF Rank
  <1> QED
    BY <1>1, <1>2 DEF Live, Exists

\* A fresh read sees the item of the table.
LEMMA FreshSnapshot ==
    ASSUME FreshReads, TypeOK, NEW r \in Snapshots
    PROVE  r \in Records /\ Rank(r) = Rank(record) /\ (Live(r) <=> Live(record))
                         /\ r.version = record.version
  <1>1. r = updateDelayedDistributionToTimeout(record, now)
    BY DEF Snapshots, FreshReads
  <1>2. record \in Records /\ now \in Times
    BY DEF TypeOK
  <1>3. r \in Records /\ Rank(r) = Rank(record)
    BY <1>1, <1>2, TimeoutKeeps
  <1> QED
    BY <1>2, <1>3, RankIsInjective

\* The item of the table names a list.
LEMMA LiveHasList ==
    ASSUME IndInv, ShelfInv, Live(record)
    PROVE  /\ ListOf(record) = bucket[record.version]
           /\ ListOf(record) # NoObject
           /\ ListOf(record) \in Lists
  <1>1. bucket[record.version] # NoObject
    BY DEF IndInv, ShelfInv, Consistent, Backed
  <1>2. record.version \in Versions
    BY DEF IndInv, TypeOK, Records, Live, Exists
  <1> QED
    BY <1>1, <1>2 DEF IndInv, TypeOK, ListOf

\* While a writer works, every other handler reads.
LEMMA OthersRead ==
    ASSUME OneWriter, ShelfInv, NEW h \in Handlers, NEW g \in Handlers \ {h},
           handler[h].pc # "idle", handler[h].op \in Writes
    PROVE  handler[g].pc = "idle" \/ handler[g].op \in Reads
  <1>1. handler[h].op \in Serves[h] /\ handler[h].op \notin Reads
    BY DEF ShelfInv, Sound, OnItsWay, Writes, Puts, Reads
  <1>2. Serves[g] \subseteq Reads
    BY <1>1 DEF OneWriter
  <1> QED
    BY <1>2 DEF ShelfInv, Sound, OnItsWay

\* A step of one handler leaves the others as they have to be, if it leaves the
\* item and the lists alone or is the writer's.
LEMMA OneMoves ==
    ASSUME OneWriter, TypeOK, ShelfInv, NEW h \in Handlers,
           \A g \in Handlers \ {h} : handler'[g] = handler[g],
           \/ UNCHANGED <<record, bucket>>
           \/ handler[h].pc # "idle" /\ handler[h].op \in Writes,
           ~lostUpdate', Sound(h)'
    PROVE  ShelfInv'
  <1>1. SUFFICES ASSUME NEW g \in Handlers \ {h} PROVE Sound(g)'
    BY DEF ShelfInv
  <1>2. handler'[g] = handler[g] /\ Sound(g)
    BY DEF ShelfInv
  <1>3. CASE UNCHANGED <<record, bucket>>
    BY <1>2, <1>3 DEF Sound, OnItsWay, UpToDate, Composed, Uploaded, ListOf
  <1>4. CASE handler[g].pc = "idle" \/ handler[g].op \in Reads
    <2>1. handler[g].pc = "idle" \/ handler[g].op \notin Writes
      BY <1>4 DEF Reads, Writes, Puts
    <2> QED
      BY <1>2, <2>1 DEF Sound, OnItsWay, UpToDate, Composed, Uploaded, Writes
  <1> QED
    BY <1>3, <1>4, OthersRead

-----------------------------------------------------------------------------
(* Each step keeps the invariant.                                          *)

\* A handler that waits, has answered or has just been called owes nothing.
LEMMA NothingOwed ==
    ASSUME NEW h \in Handlers,
           handler'[h].pc \in {"idle", "getItem", "done", "deleteObject"},
           OnItsWay(h)'
    PROVE  Sound(h)'
  BY DEF Sound, UpToDate, Composed, Uploaded

LEMMA OneHandlerOnly ==
    ASSUME TypeOK, NEW h \in Handlers, NEW s, handler' = [handler EXCEPT ![h] = s]
    PROVE  handler'[h] = s /\ \A g \in Handlers \ {h} : handler'[g] = handler[g]
  BY DEF TypeOK

LEMMA AnsweredSound ==
    ASSUME TypeOK, ShelfInv, NEW h \in Handlers, NEW answer, NEW body, NEW wrote,
           handler[h].pc # "idle",
           handler' = [handler EXCEPT ![h] = Answered(handler[h], answer, body, wrote)]
    PROVE  Sound(h)'
  <1>1. handler'[h] = Answered(handler[h], answer, body, wrote)
    BY OneHandlerOnly
  <1>2. handler'[h].pc = "done" /\ handler'[h].op = handler[h].op
    BY <1>1 DEF Answered, TypeOK, HandlerStates
  <1>3. handler[h].op \in Serves[h]
    BY DEF ShelfInv, Sound, OnItsWay
  <1> QED
    BY <1>2, <1>3, NothingOwed DEF OnItsWay

\* An invocation that answers without a write keeps the invariant.
LEMMA FinishSound ==
    ASSUME OneWriter, TypeOK, ShelfInv, NEW h \in Handlers, NEW answer,
           handler[h].pc # "idle", Finish(h, answer),
           UNCHANGED <<record, bucket, lostUpdate>>
    PROVE  ShelfInv'
  <1>1. handler' = [handler EXCEPT ![h] =
                        Answered(handler[h], answer, {}, handler[h].wrote)]
    BY DEF Finish
  <1>2. Sound(h)'
    BY <1>1, AnsweredSound
  <1>3. \A g \in Handlers \ {h} : handler'[g] = handler[g]
    BY <1>1, OneHandlerOnly
  <1> QED
    BY <1>2, <1>3, OneMoves DEF ShelfInv

\* An answered request reaches its handler with an operation that it serves.
LEMMA ReceiveSound ==
    ASSUME OneWriter, TypeOK, ShelfInv, NEW h \in Handlers, Receive(h)
    PROVE  ShelfInv'
  <1>1. PICK op \in Serves[h] : \E arg \in Requests(op) :
            handler' = [handler EXCEPT ![h] =
                IF Malformed(op, arg)
                  THEN Answered([Idle EXCEPT !.op = op, !.arg = arg, !.pc = "getItem"],
                                "badRequest", {}, FALSE)
                  ELSE [Idle EXCEPT !.op = op, !.arg = arg, !.pc = "getItem"]]
    BY DEF Receive
  <1>2. PICK arg \in Requests(op) :
            handler' = [handler EXCEPT ![h] =
                IF Malformed(op, arg)
                  THEN Answered([Idle EXCEPT !.op = op, !.arg = arg, !.pc = "getItem"],
                                "badRequest", {}, FALSE)
                  ELSE [Idle EXCEPT !.op = op, !.arg = arg, !.pc = "getItem"]]
    BY <1>1
  <1>3. /\ handler'[h] = IF Malformed(op, arg)
                  THEN Answered([Idle EXCEPT !.op = op, !.arg = arg, !.pc = "getItem"],
                                "badRequest", {}, FALSE)
                  ELSE [Idle EXCEPT !.op = op, !.arg = arg, !.pc = "getItem"]
        /\ \A g \in Handlers \ {h} : handler'[g] = handler[g]
    BY <1>2, OneHandlerOnly
  <1>4. handler'[h].op = op /\ handler'[h].pc \in {"getItem", "done"}
    BY <1>3 DEF Answered, Idle
  <1>5. Sound(h)'
    BY <1>4, NothingOwed DEF OnItsWay
  <1> QED
    BY <1>3, <1>5, OneMoves DEF Receive, ShelfInv

LEMMA ReplySound ==
    ASSUME OneWriter, TypeOK, ShelfInv, NEW h \in Handlers, Reply(h)
    PROVE  ShelfInv'
  <1>1. handler'[h] = Idle /\ \A g \in Handlers \ {h} : handler'[g] = handler[g]
    BY OneHandlerOnly DEF Reply
  <1>2. Sound(h)'
    BY <1>1, NothingOwed DEF OnItsWay, Idle
  <1> QED
    BY <1>1, <1>2, OneMoves DEF Reply, ShelfInv

\* A handler that goes on after GetItem has seen the item of the table.
LEMMA LoadSound ==
    ASSUME OneWriter, TypeOK, ShelfInv, NEW h \in Handlers, NEW r, NEW phase, NEW body,
           handler[h].pc # "idle", Rank(r) = Rank(record),
           Load(h, r, phase, body), UNCHANGED <<record, bucket, lostUpdate>>,
           \/ phase = "getObject" /\ handler[h].op \in Reads \union {"post", "remove"}
           \/ /\ phase = "putObject" /\ handler[h].op \in Puts
              /\ handler[h].op # "remove"
              /\ body = EffectOn(ListOf(record), handler[h].op, handler[h].arg)
           \/ phase = "commit" /\ handler[h].op = "delete"
    PROVE  ShelfInv'
  <1> DEFINE t == [handler[h] EXCEPT !.seen = r, !.pc = phase, !.body = body]
  <1>1. handler' = [handler EXCEPT ![h] = t]
    BY DEF Load, TypeOK
  <1>2. handler'[h] = t /\ \A g \in Handlers \ {h} : handler'[g] = handler[g]
    BY <1>1, OneHandlerOnly
  <1>3. /\ handler'[h].op = handler[h].op /\ handler'[h].arg = handler[h].arg
        /\ handler'[h].pc = phase /\ handler'[h].seen = r /\ handler'[h].body = body
    BY <1>2 DEF TypeOK, HandlerStates
  <1>4. handler[h].op \in Serves[h]
    BY DEF ShelfInv, Sound, OnItsWay
  <1>5. OnItsWay(h)'
    BY <1>3, <1>4 DEF OnItsWay, Writes
  <1>6. UpToDate(h)'
    BY <1>3 DEF UpToDate
  <1>7. ListOf(record)' = ListOf(record) /\ Live(record)' = Live(record)
    BY DEF ListOf
  <1>8. Composed(h)'
    BY <1>3, <1>7 DEF Composed, Puts
  <1>9. Uploaded(h)'
    BY <1>3 DEF Uploaded, Puts
  <1>10. Sound(h)'
    BY <1>5, <1>6, <1>8, <1>9 DEF Sound
  <1> QED
    BY <1>2, <1>10, OneMoves DEF ShelfInv

LEMMA GetItemSound ==
    ASSUME OneWriter, FreshReads, TypeOK, ShelfInv, NEW h \in Handlers, GetItem(h)
    PROVE  ShelfInv'
  <1>1. PICK r \in Snapshots :
          \/ At(h, "getItem", {"put"})    /\ PutBookmarks(h, r)
          \/ At(h, "getItem", {"post"})   /\ PostBookmarks(h, r)
          \/ At(h, "getItem", {"delete"}) /\ DeleteBookmarks(h, r)
          \/ At(h, "getItem", {"remove"}) /\ FindAndDeleteBookmarkEntry(h, r)
          \/ At(h, "getItem", Reads)      /\ GetBookmarksS3Object(h, r)
    BY DEF GetItem
  <1>2. handler[h].pc = "getItem" /\ UNCHANGED <<record, bucket, lostUpdate>>
    BY <1>1 DEF At, GetItem
  <1>3. Rank(r) = Rank(record) /\ (Live(r) <=> Live(record))
    BY FreshSnapshot
  <1>4. CASE \E answer : Finish(h, answer)
    BY <1>2, <1>4, FinishSound
  <1>5. CASE At(h, "getItem", {"put"}) /\ Load(h, r, "putObject", handler[h].arg)
    <2>1. handler[h].arg = EffectOn(ListOf(record), handler[h].op, handler[h].arg)
      BY <1>5 DEF At, EffectOn
    <2> QED
      BY <1>2, <1>3, <1>5, <2>1, LoadSound DEF At, Puts
  <1>6. CASE At(h, "getItem", {"post"}) /\ ~Live(r) /\ Load(h, r, "putObject", handler[h].arg)
    <2>1. handler[h].arg = EffectOn(ListOf(record), handler[h].op, handler[h].arg)
      BY <1>3, <1>6 DEF At, EffectOn, ListOf
    <2> QED
      BY <1>2, <1>3, <1>6, <2>1, LoadSound DEF At, Puts
  <1>7. CASE At(h, "getItem", {"delete"}) /\ Load(h, r, "commit", {})
    BY <1>2, <1>3, <1>7, LoadSound DEF At
  <1>8. CASE At(h, "getItem", Reads \union {"post", "remove"}) /\ Load(h, r, "getObject", {})
    BY <1>2, <1>3, <1>8, LoadSound DEF At
  <1> QED
    BY <1>1, <1>4, <1>5, <1>6, <1>7, <1>8
       DEF At, PutBookmarks, PostBookmarks, DeleteBookmarks, FindAndDeleteBookmarkEntry,
           GetBookmarksS3Object

\* The writers that read the list get that of the item in the table.
LEMMA GetObjectSound ==
    ASSUME OneWriter, IndInv, ShelfInv, NEW h \in Handlers, GetObject(h)
    PROVE  ShelfInv'
  <1> DEFINE s == handler[h]
             list == bucket[s.seen.version]
             into(body) == [s EXCEPT !.pc = "putObject", !.body = body]
  <1>1. /\ TypeOK /\ s.pc = "getObject" /\ UNCHANGED <<record, bucket, lostUpdate>>
        /\ s \in HandlerStates /\ s.seen \in Records /\ record \in Records
        /\ list # NoObject /\ Live(s.seen)
    BY DEF GetObject, At, IndInv, TypeOK, HandlerStates, PhaseOK, Carries
  <1>2. CASE \E answer : Finish(h, answer)
    BY <1>1, <1>2, FinishSound
  <1>3. CASE \E body : handler' = [handler EXCEPT ![h] = Answered(s, "ok", body, FALSE)]
    <2>1. PICK body : handler' = [handler EXCEPT ![h] = Answered(handler[h], "ok", body, FALSE)]
      BY <1>3
    <2>2. Sound(h)'
      BY <1>1, <2>1, AnsweredSound
    <2>3. \A g \in Handlers \ {h} : handler'[g] = handler[g]
      BY <1>1, <2>1, OneHandlerOnly
    <2> QED
      BY <1>1, <2>2, <2>3, OneMoves DEF ShelfInv
  <1>4. ASSUME NEW body, handler' = [handler EXCEPT ![h] = into(body)],
               s.op \in {"post", "remove"},
               list = ListOf(record) => body = EffectOn(ListOf(record), s.op, s.arg)
        PROVE  ShelfInv'
    <2>1. handler'[h] = into(body) /\ \A g \in Handlers \ {h} : handler'[g] = handler[g]
      BY <1>1, <1>4, OneHandlerOnly
    <2>2. /\ handler'[h].op = s.op /\ handler'[h].arg = s.arg /\ handler'[h].seen = s.seen
          /\ handler'[h].pc = "putObject" /\ handler'[h].body = body
      BY <1>1, <2>1 DEF HandlerStates
    <2>3. s.op \in Serves[h] /\ Rank(s.seen) = Rank(record)
      BY <1>1, <1>4 DEF ShelfInv, Sound, OnItsWay, UpToDate, Writes, Puts
    <2>4. s.seen.version = record.version /\ Live(record)
      BY <1>1, <2>3, RankIsInjective
    <2>5. list = ListOf(record)
      BY <2>4 DEF ListOf
    <2>6. OnItsWay(h)' /\ UpToDate(h)' /\ Uploaded(h)'
      BY <1>1, <1>4, <2>2, <2>3 DEF OnItsWay, UpToDate, Uploaded, Puts
    <2>7. ListOf(record)' = ListOf(record) /\ Live(record)' = Live(record)
      BY <1>1 DEF ListOf
    <2>8. Composed(h)'
      BY <1>4, <2>2, <2>4, <2>5, <2>7 DEF Composed
    <2> QED
      BY <1>1, <2>1, <2>6, <2>8, OneMoves DEF ShelfInv, Sound
  <1>5. ListOf(record) = list => ListOf(record) # NoObject
    BY <1>1
  <1>6. CASE At(h, "getObject", {"post"}) /\ getExistingBookmarks(h, list)
    <2>1. handler' = [handler EXCEPT ![h] = into(list \union s.arg)]
      BY <1>1, <1>6 DEF getExistingBookmarks
    <2>2. list = ListOf(record) => list \union s.arg = EffectOn(ListOf(record), s.op, s.arg)
      BY <1>5, <1>6 DEF At, EffectOn
    <2> QED
      BY <1>4, <1>6, <2>1, <2>2 DEF At
  <1>7. CASE At(h, "getObject", {"remove"}) /\ deleteMatchingBookmarks(h, list)
    <2>1. handler' = [handler EXCEPT ![h] = into(list \ s.arg)]
      BY <1>1, <1>7 DEF deleteMatchingBookmarks
    <2>2. list = ListOf(record) => list \ s.arg = EffectOn(ListOf(record), s.op, s.arg)
      BY <1>7 DEF At, EffectOn
    <2> QED
      BY <1>4, <1>7, <2>1, <2>2 DEF At
  <1> QED
    BY <1>2, <1>3, <1>6, <1>7 DEF GetObject, GetBookmarks, FindBookmarkEntry

\* A version that a writer takes is above all that anybody holds, so that the list
\* of the item stays what it is.
LEMMA NextVersionIsNew ==
    ASSUME IndInv, ShelfInv, NEW h \in Handlers,
           handler[h].pc \in {"putObject", "commit"}, handler[h].op \in Puts
    PROVE  /\ GetIncrementedVersion(handler[h].seen) = record.version + 1
           /\ record.version \in Nat
           /\ \A g \in Handlers : /\ handler[g].seen.version \in Nat
                                  /\ handler[g].seen.version <= record.version
  <1>1. /\ \A g \in Handlers : handler[g].seen \in Records
        /\ record \in Records
    BY DEF IndInv, TypeOK, HandlerStates
  <1>2. handler[h].seen.version = record.version
    BY <1>1, RankIsInjective DEF ShelfInv, Sound, UpToDate, Writes
  <1>3. \A g \in Handlers : Rank(handler[g].seen) <= Rank(record)
    BY DEF IndInv, ShelfInv, Consistent, NothingFromTheFuture
  <1>4. ASSUME NEW q \in Records, NEW r \in Records, Rank(q) <= Rank(r)
        PROVE  q.version \in Nat /\ r.version \in Nat /\ q.version <= r.version
    <2>1. q.version \in Nat /\ r.version \in Nat
      BY DEF Records, Versions
    <2> QED
      BY <1>4, <2>1 DEF Rank
  <1> QED
    BY <1>1, <1>2, <1>3, <1>4 DEF GetIncrementedVersion

LEMMA PutObjectSound ==
    ASSUME OneWriter, IndInv, ShelfInv, NEW h \in Handlers, PutObject(h)
    PROVE  ShelfInv'
  <1> DEFINE s == handler[h]
             v == GetIncrementedVersion(s.seen)
  <1>1. PICK o \in Outcomes :
          /\ bucket' = IF o.applied THEN [bucket EXCEPT ![v] = s.body] ELSE bucket
          /\ handler' = [handler EXCEPT ![h] = AfterPut([s EXCEPT !.wrote = o.applied], o.ok)]
    BY DEF PutObject
  <1>2. /\ TypeOK /\ s.pc = "putObject" /\ s.op \in Puts /\ s \in HandlerStates
        /\ v \in Versions /\ UNCHANGED <<record, lostUpdate>>
        /\ s.op \in Serves[h] /\ s.op \in Writes
    BY DEF PutObject, At, IndInv, TypeOK, ShelfInv, Sound, OnItsWay, Writes
  <1>3. o.ok => o.applied
    BY <1>1 DEF Outcomes
  <1>4. /\ handler'[h] = AfterPut([s EXCEPT !.wrote = o.applied], o.ok)
        /\ \A g \in Handlers \ {h} : handler'[g] = handler[g]
    BY <1>1, <1>2, OneHandlerOnly
  <1>5. ListOf(record)' = ListOf(record) /\ Live(record)' = Live(record)
    <2>1. v # record.version
      BY <1>2, NextVersionIsNew
    <2>2. bucket \in [Versions -> {NoObject} \union Lists]
      BY <1>2 DEF TypeOK
    <2>3. Live(record) => bucket'[record.version] = bucket[record.version]
      <3>1. Live(record) => record.version \in Versions
        BY <1>2 DEF TypeOK, Records, Live, Exists
      <3> QED
        BY <1>1, <2>1, <2>2, <3>1
    <2> QED
      BY <1>2, <2>3 DEF ListOf
  <1>6. CASE o.ok
    <2>1. /\ handler'[h].op = s.op /\ handler'[h].arg = s.arg /\ handler'[h].seen = s.seen
          /\ handler'[h].pc = "commit" /\ handler'[h].body = s.body
      BY <1>2, <1>4, <1>6 DEF AfterPut, HandlerStates
    <2>2. bucket'[v] = s.body
      BY <1>1, <1>2, <1>3, <1>6 DEF TypeOK
    <2>3. OnItsWay(h)' /\ UpToDate(h)'
      BY <1>2, <2>1 DEF ShelfInv, Sound, OnItsWay, UpToDate
    <2>4. Composed(h)'
      BY <1>2, <1>5, <2>1 DEF ShelfInv, Sound, Composed
    <2>5. Uploaded(h)'
      BY <2>1, <2>2 DEF Uploaded
    <2> QED
      BY <1>2, <1>4, <2>3, <2>4, <2>5, OneMoves DEF ShelfInv, Sound
  <1>7. CASE ~o.ok
    <2>1. handler'[h].op = s.op /\ handler'[h].pc = "done"
      BY <1>2, <1>4, <1>7 DEF AfterPut, Answered, HandlerStates
    <2>2. Sound(h)'
      BY <1>2, <2>1, NothingOwed DEF OnItsWay
    <2> QED
      BY <1>2, <1>4, <2>2, OneMoves DEF ShelfInv
  <1> QED
    BY <1>6, <1>7

LEMMA CommitSound ==
    ASSUME OneWriter, IndInv, ShelfInv, NEW h \in Handlers, Commit(h)
    PROVE  ShelfInv'
  <1> DEFINE s == handler[h]
  <1>1. PICK o \in Outcomes :
          /\ WriteRecord(s.seen, NextItem(h), o.applied)
          /\ handler' = [handler EXCEPT ![h] =
                AfterCommit([s EXCEPT !.wrote = s.wrote \/ o.applied], o.ok)]
    BY DEF Commit
  <1>2. /\ TypeOK /\ s.pc = "commit" /\ s.op \in Writes /\ s \in HandlerStates
        /\ s.op \in Serves[h] /\ Rank(s.seen) = Rank(record) /\ lostUpdate = FALSE
    BY DEF Commit, At, IndInv, TypeOK, ShelfInv, Sound, OnItsWay, UpToDate, Writes
  <1>3. ~lostUpdate'
    BY <1>1, <1>2 DEF WriteRecord
  <1>4. /\ handler'[h] = AfterCommit([s EXCEPT !.wrote = s.wrote \/ o.applied], o.ok)
        /\ \A g \in Handlers \ {h} : handler'[g] = handler[g]
    BY <1>1, <1>2, OneHandlerOnly
  <1>5. handler'[h].op = s.op /\ handler'[h].pc \in {"done", "deleteObject"}
    BY <1>2, <1>4 DEF AfterCommit, Answered, HandlerStates
  <1>6. Sound(h)'
    BY <1>2, <1>5, NothingOwed DEF OnItsWay
  <1> QED
    BY <1>2, <1>3, <1>4, <1>6, OneMoves

LEMMA DeleteObjectSound ==
    ASSUME OneWriter, IndInv, ShelfInv, NEW h \in Handlers, DeleteObject(h)
    PROVE  ShelfInv'
  <1> DEFINE s == handler[h]
  <1>1. PICK o \in Outcomes : handler' = [handler EXCEPT ![h] = AfterDelete(s, o.ok)]
    BY DEF DeleteObject
  <1>2. /\ TypeOK /\ s.pc = "deleteObject" /\ s.op \in Writes /\ s \in HandlerStates
        /\ s.op \in Serves[h] /\ ~lostUpdate'
    BY DEF DeleteObject, At, IndInv, TypeOK, ShelfInv, Sound, OnItsWay, Writes
  <1>3. /\ handler' = [handler EXCEPT ![h] =
               Answered(s, IF o.ok THEN "ok" ELSE "error", {}, s.wrote)]
        /\ \A g \in Handlers \ {h} : handler'[g] = handler[g]
    BY <1>1, <1>2, OneHandlerOnly DEF AfterDelete
  <1>4. Sound(h)'
    BY <1>2, <1>3, AnsweredSound
  <1> QED
    BY <1>2, <1>3, <1>4, OneMoves

\* The steps of a failure answer.
LEMMA FailureSound ==
    ASSUME OneWriter, TypeOK, ShelfInv, NEW h \in Handlers,
           GetObjectFails(h) \/ VersionFails(h) \/ ClientFails(h) \/ Kill(h)
    PROVE  ShelfInv'
  <1>1. PICK answer : Finish(h, answer)
    BY DEF GetObjectFails, VersionFails, ClientFails, Kill
  <1>2. handler[h].pc # "idle" /\ UNCHANGED <<record, bucket, lostUpdate>>
    BY DEF GetObjectFails, VersionFails, ClientFails, Kill, At
  <1> QED
    BY <1>1, <1>2, FinishSound

\* A step in which no handler moves and no store changes.
LEMMA RestSound ==
    ASSUME ShelfInv, UNCHANGED <<record, bucket, handler, lostUpdate>>
    PROVE  ShelfInv'
  BY DEF ShelfInv, Sound, OnItsWay, UpToDate, Composed, Uploaded, ListOf

LEMMA NextSound ==
    ASSUME OneWriter, FreshReads, IndInv, ShelfInv, [Next]_apiVars
    PROVE  ShelfInv'
  <1>1. TypeOK
    BY DEF IndInv
  <1>2. ASSUME NEW h \in Handlers, Step(h) PROVE ShelfInv'
    BY <1>1, <1>2, ReceiveSound, ReplySound, GetItemSound, GetObjectSound,
       PutObjectSound, CommitSound, DeleteObjectSound, FailureSound DEF Step
  <1>3. CASE UNCHANGED apiVars \/ Replicate \/ Tick
    BY <1>3, RestSound DEF apiVars, Replicate, Tick
  <1> QED
    BY <1>2, <1>3 DEF Next

LEMMA InitSound == Init => ShelfInv
  <1> SUFFICES ASSUME Init PROVE ShelfInv
    OBVIOUS
  <1>1. lostUpdate = FALSE /\ handler = [h \in Handlers |-> Idle]
    BY DEF Init, InitEmpty, InitLocal
  <1> QED
    BY <1>1 DEF ShelfInv, Sound, OnItsWay, UpToDate, Composed, Uploaded, Idle

-----------------------------------------------------------------------------
(* What a step of one handler is for the shelf.                            *)

calls == [h \in Handlers |-> callOf(handler[h])]

ShelfStep == [Shelf!Next]_(Shelf!vars)

\* The step moves no other handler and leaves the lists that others look at alone.
ListsKept(h) ==
    \A g \in Handlers \ {h} :
        /\ handler'[g] = handler[g]
        /\ (handler[g].op \in Reads /\ handler[g].pc = "getObject")
             => (ListOf(handler[g].seen))' = ListOf(handler[g].seen)

LEMMA SameBucketKeeps ==
    ASSUME NEW h \in Handlers, \A g \in Handlers \ {h} : handler'[g] = handler[g],
           bucket' = bucket
    PROVE  ListsKept(h)
  <1> SUFFICES ASSUME NEW g \in Handlers \ {h}
               PROVE  (ListOf(handler[g].seen))' = ListOf(handler[g].seen)
    BY DEF ListsKept
  <1>1. handler'[g] = handler[g]
    OBVIOUS
  <1> QED
    BY <1>1 DEF ListOf

LEMMA OneCall ==
    ASSUME NEW h \in Handlers, ListsKept(h)
    PROVE  calls' = [calls EXCEPT ![h] = callOf(handler[h])']
  <1>1. ASSUME NEW g \in Handlers \ {h} PROVE callOf(handler[g])' = callOf(handler[g])
    <2>1. handler'[g] = handler[g]
      BY DEF ListsKept
    <2> QED
      BY <2>1 DEF callOf, phaseOf, ListsKept
  <1>2. calls' = [g \in Handlers |-> callOf(handler[g])']
    BY DEF calls
  <1>3. [calls EXCEPT ![h] = callOf(handler[h])'] =
           [g \in Handlers |-> IF g = h THEN callOf(handler[h])' ELSE callOf(handler[g])]
    BY DEF calls
  <1> QED
    BY <1>1, <1>2, <1>3

LEMMA OneCallSameLists ==
    ASSUME NEW h \in Handlers, \A g \in Handlers \ {h} : handler'[g] = handler[g],
           bucket' = bucket
    PROVE  calls' = [calls EXCEPT ![h] = callOf(handler[h])']
  BY SameBucketKeeps, OneCall

\* As long as a request is neither looked at nor answered, the shelf sees nothing.
LEMMA StillCalled ==
    ASSUME NEW h \in Handlers, ListsKept(h),
           phaseOf(handler[h]) = "called", phaseOf(handler'[h]) = "called",
           handler'[h].op = handler[h].op, handler'[h].arg = handler[h].arg,
           handler'[h].answer = handler[h].answer
    PROVE  calls' = calls
  <1>1. callOf(handler[h]) = callOf(handler[h])'
    BY DEF callOf, phaseOf
  <1>2. calls' = [calls EXCEPT ![h] = callOf(handler[h])]
    BY <1>1, OneCall
  <1> QED
    BY <1>2 DEF calls

\* The records of calls.
Call(op, phase, arg, found, answer, body) ==
    [op |-> op, phase |-> phase, arg |-> arg, found |-> found,
     answer |-> answer, body |-> body]

LEMMA CallFields ==
    ASSUME NEW op, NEW phase, NEW arg, NEW found, NEW answer, NEW body
    PROVE  LET c == Call(op, phase, arg, found, answer, body)
           IN  /\ DOMAIN c = {"op", "phase", "arg", "found", "answer", "body"}
               /\ c.op = op /\ c.phase = phase /\ c.arg = arg /\ c.found = found
               /\ c.answer = answer /\ c.body = body
  BY DEF Call

LEMMA CallOfIsCall ==
    ASSUME NEW s
    PROVE  callOf(s) = Call(s.op, phaseOf(s), s.arg,
                            IF s.op \in Reads /\ s.pc = "getObject" THEN ListOf(s.seen)
                                                                   ELSE NoObject,
                            s.answer, IF s.pc = "done" THEN s.body ELSE {})
  BY DEF callOf, Call

LEMMA CallAnswered ==
    ASSUME NEW op, NEW phase, NEW arg, NEW found, NEW answer, NEW body, NEW a, NEW b
    PROVE  Shelf!AnsweredBy(Call(op, phase, arg, found, answer, body), a, b)
              = Call(op, "answered", arg, NoObject, a, b)
  <1> DEFINE c == Call(op, phase, arg, found, answer, body)
             d == Shelf!AnsweredBy(c, a, b)
  <1>1. /\ DOMAIN c = {"op", "phase", "arg", "found", "answer", "body"}
        /\ c.op = op /\ c.arg = arg
    BY CallFields
  <1> HIDE DEF c
  <1>2. d = [x \in DOMAIN c |-> IF x = "body" THEN b
                                ELSE IF x = "answer" THEN a
                                ELSE IF x = "found" THEN NoObject
                                ELSE IF x = "phase" THEN "answered"
                                ELSE c[x]]
    BY DEF Shelf!AnsweredBy
  <1>3. d = Call(op, "answered", arg, NoObject, a, b)
    BY <1>1, <1>2 DEF Call
  <1> QED
    BY <1>3 DEF c

\* A read that has looked, a write that has taken effect, and a read that lost its list.
Looked(c, found) == [c EXCEPT !.phase = "effected", !.found = found]
Effected(c)      == [c EXCEPT !.phase = "effected"]
Lost(c)          == [c EXCEPT !.found = NoObject]

LEMMA CallChanged ==
    ASSUME NEW op, NEW phase, NEW arg, NEW found, NEW answer, NEW body, NEW f
    PROVE  LET c == Call(op, phase, arg, found, answer, body)
           IN  /\ Looked(c, f) = Call(op, "effected", arg, f, answer, body)
               /\ Effected(c)  = Call(op, "effected", arg, found, answer, body)
               /\ Lost(c)      = Call(op, phase, arg, NoObject, answer, body)
  <1> DEFINE c == Call(op, phase, arg, found, answer, body)
  <1>1. /\ DOMAIN c = {"op", "phase", "arg", "found", "answer", "body"}
        /\ c.op = op /\ c.phase = phase /\ c.arg = arg /\ c.found = found
        /\ c.answer = answer /\ c.body = body
    BY CallFields
  <1> HIDE DEF c
  <1>2. Looked(c, f) = [x \in DOMAIN c |-> IF x = "found" THEN f
                                ELSE IF x = "phase" THEN "effected"
                                ELSE c[x]]
    BY DEF Looked
  <1>3. Looked(c, f) = Call(op, "effected", arg, f, answer, body)
    BY <1>1, <1>2 DEF Call
  <1>4. Effected(c) = Call(op, "effected", arg, found, answer, body)
    BY <1>1 DEF Call, Effected
  <1>5. Lost(c) = Call(op, phase, arg, NoObject, answer, body)
    BY <1>1 DEF Call, Lost
  <1> QED
    BY <1>3, <1>4, <1>5 DEF c

LEMMA CallInvoked ==
    ASSUME NEW op, NEW arg
    PROVE  [Shelf!NoCall EXCEPT !.op = op, !.arg = arg, !.phase = "called"]
              = Call(op, "called", arg, NoObject, "none", {})
  <1> DEFINE c == Shelf!NoCall
             d == [c EXCEPT !.op = op, !.arg = arg, !.phase = "called"]
  <1>1. /\ DOMAIN c = {"op", "phase", "arg", "found", "answer", "body"}
        /\ c.found = NoObject /\ c.answer = "none" /\ c.body = {}
    BY DEF Shelf!NoCall
  <1> HIDE DEF c
  <1>2. d = [x \in DOMAIN c |-> IF x = "phase" THEN "called"
                                ELSE IF x = "arg" THEN arg
                                ELSE IF x = "op" THEN op
                                ELSE c[x]]
    OBVIOUS
  <1>3. d = Call(op, "called", arg, NoObject, "none", {})
    BY <1>1, <1>2 DEF Call
  <1> QED
    BY <1>3 DEF c

LEMMA AnsweredByOf ==
    ASSUME NEW s, NEW answer, NEW body
    PROVE  Shelf!AnsweredBy(callOf(s), answer, body)
              = Call(s.op, "answered", s.arg, NoObject, answer, body)
  BY CallOfIsCall, CallAnswered

\* An answer of the code is an answer of the shelf.
LEMMA AnswerOf ==
    ASSUME NEW h \in Handlers, NEW answer, NEW body, ListsKept(h),
           handler'[h].pc = "done", handler'[h].answer = answer, handler'[h].body = body,
           handler'[h].op = handler[h].op, handler'[h].arg = handler[h].arg
    PROVE  Shelf!Answer(h, answer, body)
  <1>1. calls' = [calls EXCEPT ![h] = callOf(handler[h])']
    BY OneCall
  <1>2. callOf(handler[h])' = Call(handler[h].op, "answered", handler[h].arg, NoObject,
                                   answer, body)
    BY DEF callOf, phaseOf, Call
  <1>3. Shelf!AnsweredBy(callOf(handler[h]), answer, body) = callOf(handler[h])'
    BY <1>2, AnsweredByOf
  <1> QED
    BY <1>1, <1>3 DEF Shelf!Answer, calls

\* The fields of a handler that has answered.
LEMMA AnsweredFields ==
    ASSUME TypeOK, NEW h \in Handlers, NEW answer, NEW body, NEW wrote,
           handler' = [handler EXCEPT ![h] = Answered(handler[h], answer, body, wrote)]
    PROVE  /\ \A g \in Handlers \ {h} : handler'[g] = handler[g]
           /\ handler'[h].pc = "done" /\ handler'[h].answer = answer
           /\ handler'[h].body = body /\ handler'[h].op = handler[h].op
           /\ handler'[h].arg = handler[h].arg
  <1>1. /\ handler'[h] = Answered(handler[h], answer, body, wrote)
        /\ \A g \in Handlers \ {h} : handler'[g] = handler[g]
    BY OneHandlerOnly
  <1> QED
    BY <1>1 DEF Answered, TypeOK, HandlerStates

LEMMA AnsweredIsAnswer ==
    ASSUME TypeOK, NEW h \in Handlers, NEW answer, NEW body, NEW wrote,
           handler' = [handler EXCEPT ![h] = Answered(handler[h], answer, body, wrote)],
           bucket' = bucket
    PROVE  Shelf!Answer(h, answer, body)
  <1>1. /\ \A g \in Handlers \ {h} : handler'[g] = handler[g]
        /\ handler'[h].pc = "done" /\ handler'[h].answer = answer
        /\ handler'[h].body = body /\ handler'[h].op = handler[h].op
        /\ handler'[h].arg = handler[h].arg
    BY AnsweredFields
  <1>2. ListsKept(h)
    BY <1>1, SameBucketKeeps
  <1> QED
    BY <1>1, <1>2, AnswerOf

LEMMA FinishIsAnswer ==
    ASSUME TypeOK, NEW h \in Handlers, NEW answer, Finish(h, answer), bucket' = bucket
    PROVE  Shelf!Answer(h, answer, {})
  BY AnsweredIsAnswer DEF Finish

\* A failure before the effect is the shelf's.
LEMMA FailShelf ==
    ASSUME TypeOK, ShelfInv, NEW h \in Handlers, Finish(h, "error"),
           handler[h].pc \notin {"idle", "done", "deleteObject"},
           UNCHANGED <<record, bucket>>
    PROVE  ShelfStep
  <1>1. Shelf!Answer(h, "error", {})
    BY FinishIsAnswer
  <1>2. handler[h].op \in Reads \union Writes /\ handler[h].pc \in Phases
    BY ApiAssumption DEF ShelfInv, Sound, OnItsWay, TypeOK, HandlerStates, Operations, Writes
  <1>3. calls[h].op = handler[h].op /\ calls[h].phase = phaseOf(handler[h])
    BY DEF calls, callOf
  <1>4. Shelf!In(h, "called", Shelf!Reads \union Shelf!Writes) \/ Shelf!In(h, "effected", Shelf!Reads)
    BY <1>2, <1>3 DEF calls, Shelf!In, phaseOf, Shelf!Reads, Shelf!Writes, Reads, Writes, Puts
  <1>5. UNCHANGED ListOf(record)
    BY DEF ListOf
  <1> QED
    BY <1>1, <1>4, <1>5 DEF ShelfStep, Shelf!Fail, Shelf!Next

-----------------------------------------------------------------------------
(* Each action is a step of the shelf.                                     *)

LEMMA ReceiveShelf ==
    ASSUME TypeOK, NEW h \in Handlers, Receive(h)
    PROVE  ShelfStep
  <1> DEFINE request(op, arg) == [Idle EXCEPT !.op = op, !.arg = arg, !.pc = "getItem"]
             next(op, arg) == IF Malformed(op, arg)
                                THEN Answered(request(op, arg), "badRequest", {}, FALSE)
                                ELSE request(op, arg)
  <1>1. PICK op \in Serves[h] : \E arg \in Requests(op) :
            handler' = [handler EXCEPT ![h] = next(op, arg)]
    BY DEF Receive
  <1>2. PICK arg \in Requests(op) : handler' = [handler EXCEPT ![h] = next(op, arg)]
    BY <1>1
  <1>3. /\ handler'[h] = next(op, arg)
        /\ \A g \in Handlers \ {h} : handler'[g] = handler[g]
    BY <1>2, OneHandlerOnly
  <1>4. op \in Operations /\ arg \in Lists
    BY <1>2, ApiAssumption DEF Requests, Lists
  <1>5. Malformed(op, arg) <=> ~(arg \subseteq ValidUrls)
    BY <1>2, <1>4 DEF Malformed, Requests, Operations, Reads, Puts
  <1> DEFINE c == [Shelf!NoCall EXCEPT !.op = op, !.arg = arg, !.phase = "called"]
  <1>6. c = Call(op, "called", arg, NoObject, "none", {})
    BY CallInvoked
  <1>7. Shelf!AnsweredBy(c, "badRequest", {})
           = Call(op, "answered", arg, NoObject, "badRequest", {})
    BY <1>6, CallAnswered
  <1>8. callOf(handler[h])' = IF arg \subseteq ValidUrls THEN c
                              ELSE Shelf!AnsweredBy(c, "badRequest", {})
    <2>1. CASE Malformed(op, arg)
      <3>1. handler'[h] = Answered(request(op, arg), "badRequest", {}, FALSE)
        BY <1>3, <2>1
      <3>2. /\ handler'[h].op = op /\ handler'[h].arg = arg /\ handler'[h].pc = "done"
            /\ handler'[h].answer = "badRequest" /\ handler'[h].body = {}
        BY <3>1 DEF Answered, Idle
      <3>3. callOf(handler[h])' = Call(op, "answered", arg, NoObject, "badRequest", {})
        BY <3>2 DEF callOf, phaseOf, Call
      <3> QED
        BY <1>5, <1>7, <2>1, <3>3
    <2>2. CASE ~Malformed(op, arg)
      <3>1. /\ handler'[h].op = op /\ handler'[h].arg = arg /\ handler'[h].pc = "getItem"
            /\ handler'[h].answer = "none" /\ handler'[h].body = {}
        BY <1>3, <2>2 DEF Idle
      <3>2. callOf(handler[h])' = Call(op, "called", arg, NoObject, "none", {})
        BY <3>1 DEF callOf, phaseOf, Call
      <3> QED
        BY <1>5, <1>6, <2>2, <3>2
    <2> QED
      BY <2>1, <2>2
  <1>9. calls' = [calls EXCEPT ![h] = callOf(handler[h])']
    BY <1>3, OneCallSameLists DEF Receive
  <1>10. calls[h].phase = "idle" /\ UNCHANGED ListOf(record)
    BY DEF calls, callOf, phaseOf, Receive, ListOf
  <1> HIDE DEF c
  <1>11. calls' = [calls EXCEPT ![h] = IF arg \subseteq ValidUrls THEN c
                                       ELSE Shelf!AnsweredBy(c, "badRequest", {})]
    BY <1>8, <1>9
  <1>12. Shelf!Invoke(h)
    BY <1>4, <1>10, <1>11 DEF Shelf!Invoke, calls, c, Lists, Shelf!Lists
  <1> QED
    BY <1>12 DEF ShelfStep, Shelf!Next

LEMMA ReplyShelf ==
    ASSUME TypeOK, NEW h \in Handlers, Reply(h)
    PROVE  ShelfStep
  <1>1. handler'[h] = Idle /\ \A g \in Handlers \ {h} : handler'[g] = handler[g]
    BY OneHandlerOnly DEF Reply
  <1>2. callOf(handler[h])' = Shelf!NoCall
    BY <1>1 DEF Idle, callOf, phaseOf, Shelf!NoCall
  <1>3. calls' = [calls EXCEPT ![h] = Shelf!NoCall]
    BY <1>1, <1>2, OneCallSameLists DEF Reply
  <1>4. calls[h].phase = "answered" /\ UNCHANGED ListOf(record)
    BY DEF calls, callOf, phaseOf, Reply, ListOf
  <1>5. Shelf!Leave(h)
    BY <1>3, <1>4 DEF Shelf!Leave, calls
  <1> QED
    BY <1>5 DEF ShelfStep, Shelf!Next

\* A writer that goes on after GetItem or GetObject is still called.
LEMMA WriterGoesOn ==
    ASSUME TypeOK, NEW h \in Handlers, NEW s, handler' = [handler EXCEPT ![h] = s],
           phaseOf(handler[h]) = "called", phaseOf(s) = "called",
           s.op = handler[h].op, s.arg = handler[h].arg, s.answer = handler[h].answer,
           ListsKept(h), ListOf(record)' = ListOf(record)
    PROVE  ShelfStep
  <1>1. handler'[h] = s
    BY OneHandlerOnly
  <1>2. calls' = calls
    BY <1>1, StillCalled
  <1> QED
    BY <1>2 DEF ShelfStep, Shelf!vars, calls

\* A refusal: 404 when there is no list, 403 for a write.
LEMMA RefuseShelf ==
    ASSUME TypeOK, NEW h \in Handlers, handler[h].pc = "getItem",
           UNCHANGED <<record, bucket>>,
           \/ Finish(h, "notFound") /\ handler[h].op \in {"get", "head", "remove"}
                                    /\ ListOf(record) = NoObject
           \/ Finish(h, "forbidden") /\ handler[h].op \in {"put", "post", "delete"}
    PROVE  ShelfStep
  <1>1. calls[h].op = handler[h].op /\ calls[h].phase = "called"
    BY DEF calls, callOf, phaseOf
  <1>2. UNCHANGED ListOf(record)
    BY DEF ListOf
  <1>3. CASE Finish(h, "notFound") /\ handler[h].op \in {"get", "head", "remove"}
                                   /\ ListOf(record) = NoObject
    <2>1. Shelf!Answer(h, "notFound", {})
      BY <1>3, FinishIsAnswer
    <2>2. Shelf!Refuse(h)
      BY <1>1, <1>2, <1>3, <2>1 DEF Shelf!Refuse, Shelf!In, calls
    <2> QED
      BY <2>2 DEF ShelfStep, Shelf!Next
  <1>4. CASE Finish(h, "forbidden") /\ handler[h].op \in {"put", "post", "delete"}
    <2>1. Shelf!Answer(h, "forbidden", {})
      BY <1>4, FinishIsAnswer
    <2>2. Shelf!Refuse(h)
      BY <1>1, <1>2, <1>4, <2>1 DEF Shelf!Refuse, Shelf!In, calls
    <2> QED
      BY <2>2 DEF ShelfStep, Shelf!Next
  <1> QED
    BY <1>3, <1>4

\* A read that found the item holds the list that the shelf has now.
LEMMA LookShelf ==
    ASSUME IndInv, ShelfInv, NEW h \in Handlers, NEW r,
           handler[h].pc = "getItem", handler[h].op \in Reads,
           Live(r), Live(record), r.version = record.version,
           Load(h, r, "getObject", {}), UNCHANGED <<record, bucket>>
    PROVE  ShelfStep
  <1> DEFINE s == handler[h]
             t == [s EXCEPT !.seen = r, !.pc = "getObject", !.body = {}]
  <1>1. TypeOK /\ s \in HandlerStates
    BY DEF IndInv, TypeOK
  <1>2. handler' = [handler EXCEPT ![h] = t]
    BY <1>1 DEF Load, TypeOK
  <1>3. handler'[h] = t /\ \A g \in Handlers \ {h} : handler'[g] = handler[g]
    BY <1>1, <1>2, OneHandlerOnly
  <1>4. /\ t.op = s.op /\ t.arg = s.arg /\ t.answer = s.answer
        /\ t.pc = "getObject" /\ t.seen = r
    BY <1>1 DEF HandlerStates
  <1> HIDE DEF t
  <1>5. ListOf(r)' = ListOf(record) /\ ListOf(record)' = ListOf(record)
    BY DEF ListOf
  <1>6. callOf(s) = Call(s.op, "called", s.arg, NoObject, s.answer, {})
    BY DEF callOf, phaseOf, Call
  <1>7. callOf(handler[h])' = Call(s.op, "effected", s.arg, ListOf(record), s.answer, {})
    BY <1>3, <1>4, <1>5 DEF callOf, phaseOf, Call
  <1>8. callOf(handler[h])' = Looked(calls[h], ListOf(record))
    BY <1>6, <1>7, CallChanged DEF calls
  <1>9. calls' = [calls EXCEPT ![h] = Looked(calls[h], ListOf(record))]
    BY <1>3, <1>8, OneCallSameLists
  <1>10. calls' = [calls EXCEPT ![h].phase = "effected", ![h].found = ListOf(record)]
    BY <1>9 DEF calls, Looked
  <1>11. calls[h].op \in Shelf!Reads /\ calls[h].phase = "called"
    BY DEF calls, callOf, phaseOf, Shelf!Reads, Reads
  <1>12. Shelf!Look(h)
    BY <1>5, <1>10, <1>11, LiveHasList DEF Shelf!Look, Shelf!In, calls
  <1> QED
    BY <1>12 DEF ShelfStep, Shelf!Next

LEMMA GetItemShelf ==
    ASSUME FreshReads, IndInv, ShelfInv, NEW h \in Handlers, GetItem(h)
    PROVE  ShelfStep
  <1>1. PICK r \in Snapshots :
          \/ At(h, "getItem", {"put"})    /\ PutBookmarks(h, r)
          \/ At(h, "getItem", {"post"})   /\ PostBookmarks(h, r)
          \/ At(h, "getItem", {"delete"}) /\ DeleteBookmarks(h, r)
          \/ At(h, "getItem", {"remove"}) /\ FindAndDeleteBookmarkEntry(h, r)
          \/ At(h, "getItem", Reads)      /\ GetBookmarksS3Object(h, r)
    BY DEF GetItem
  <1>2. /\ TypeOK /\ handler[h].pc = "getItem" /\ UNCHANGED <<record, bucket>>
        /\ handler[h] \in HandlerStates
    BY <1>1 DEF At, GetItem, IndInv, TypeOK
  <1>3. r.version = record.version /\ (Live(r) <=> Live(record))
    BY <1>2, FreshSnapshot
  <1>4. CASE Finish(h, "forbidden") /\ handler[h].op \in {"put", "post", "delete"}
    BY <1>2, <1>4, RefuseShelf
  <1>5. CASE Finish(h, "notFound") /\ ~Live(r) /\ handler[h].op \in {"get", "head", "remove"}
    BY <1>2, <1>3, <1>5, RefuseShelf DEF ListOf
  <1>6. ASSUME NEW phase \in {"getObject", "putObject", "commit"}, NEW body,
               Load(h, r, phase, body), handler[h].op \notin Reads
        PROVE  ShelfStep
    <2> DEFINE t == [handler[h] EXCEPT !.seen = r, !.pc = phase, !.body = body]
    <2>1. handler' = [handler EXCEPT ![h] = t]
      BY <1>2, <1>6 DEF Load, TypeOK
    <2>2. /\ t.op = handler[h].op /\ t.arg = handler[h].arg /\ t.answer = handler[h].answer
          /\ t.pc = phase
      BY <1>2 DEF HandlerStates
    <2> HIDE DEF t
    <2>3. phaseOf(handler[h]) = "called" /\ phaseOf(t) = "called"
      BY <1>2, <1>6, <2>2 DEF phaseOf
    <2>4. ListsKept(h) /\ ListOf(record)' = ListOf(record)
      BY <1>2, <2>1, OneHandlerOnly, SameBucketKeeps DEF ListOf
    <2> QED
      BY <1>2, <2>1, <2>2, <2>3, <2>4, WriterGoesOn
  <1>7. CASE At(h, "getItem", Reads) /\ Live(r) /\ Load(h, r, "getObject", {})
    BY <1>2, <1>3, <1>7, LookShelf DEF At
  <1> QED
    BY <1>1, <1>4, <1>5, <1>6, <1>7
       DEF At, PutBookmarks, PostBookmarks, DeleteBookmarks, FindAndDeleteBookmarkEntry,
           GetBookmarksS3Object, Reads

\* A read that has looked ends: with the list it looked at, or with 404.
LEMMA EndReadShelf ==
    ASSUME TypeOK, PhaseOK, NEW h \in Handlers, handler[h].pc = "getObject",
           handler[h].op \in Reads, UNCHANGED <<record, bucket>>,
           LET list == bucket[handler[h].seen.version]
           IN  \/ list = NoObject /\ Finish(h, "notFound")
               \/ list # NoObject /\ handler[h].op = "get" /\ GetBookmarks(h, list)
               \/ list # NoObject /\ handler[h].op = "head" /\ FindBookmarkEntry(h, list)
    PROVE  ShelfStep
  <1> DEFINE list == bucket[handler[h].seen.version]
  <1>1. Live(handler[h].seen)
    BY DEF PhaseOK, Carries
  <1>2. /\ calls[h].op = handler[h].op /\ calls[h].phase = "effected"
        /\ calls[h].found = list /\ calls[h].arg = handler[h].arg
    BY <1>1 DEF calls, callOf, phaseOf, ListOf
  <1>3. UNCHANGED ListOf(record)
    BY DEF ListOf
  <1>4. CASE list = NoObject /\ Finish(h, "notFound")
    <2>1. Shelf!Answer(h, "notFound", {})
      BY <1>4, FinishIsAnswer
    <2>2. Shelf!EndGet(h) \/ Shelf!EndHead(h)
      BY <1>2, <1>3, <1>4, <2>1 DEF Shelf!EndGet, Shelf!EndHead, Shelf!In, calls, Reads
    <2> QED
      BY <2>2 DEF ShelfStep, Shelf!Next
  <1>5. CASE list # NoObject /\ handler[h].op = "get" /\ GetBookmarks(h, list)
    <2>1. CASE list = {}
      <3>1. Shelf!Answer(h, "notFound", {})
        BY <1>5, <2>1, FinishIsAnswer DEF GetBookmarks
      <3>2. Shelf!EndGet(h)
        BY <1>2, <1>3, <1>5, <2>1, <3>1 DEF Shelf!EndGet, Shelf!In, calls
      <3> QED
        BY <3>2 DEF ShelfStep, Shelf!Next
    <2>2. CASE list # {}
      <3>1. handler' = [handler EXCEPT ![h] = Answered(handler[h], "ok", list, FALSE)]
        BY <1>5, <2>2 DEF GetBookmarks
      <3>2. Shelf!Answer(h, "ok", list)
        BY <3>1, AnsweredIsAnswer
      <3>3. Shelf!EndGet(h)
        BY <1>2, <1>3, <1>5, <2>2, <3>2 DEF Shelf!EndGet, Shelf!In, calls
      <3> QED
        BY <3>3 DEF ShelfStep, Shelf!Next
    <2> QED
      BY <2>1, <2>2
  <1>6. CASE list # NoObject /\ handler[h].op = "head" /\ FindBookmarkEntry(h, list)
    <2>1. Shelf!Answer(h, IF handler[h].arg \subseteq list THEN "ok" ELSE "notFound", {})
      BY <1>6, FinishIsAnswer DEF FindBookmarkEntry
    <2>2. Shelf!EndHead(h)
      BY <1>2, <1>3, <1>6, <2>1 DEF Shelf!EndHead, Shelf!In, calls
    <2> QED
      BY <2>2 DEF ShelfStep, Shelf!Next
  <1> QED
    BY <1>4, <1>5, <1>6

LEMMA GetObjectShelf ==
    ASSUME IndInv, ShelfInv, NEW h \in Handlers, GetObject(h)
    PROVE  ShelfStep
  <1> DEFINE s == handler[h]
             list == bucket[s.seen.version]
  <1>1. /\ TypeOK /\ PhaseOK /\ s.pc = "getObject" /\ UNCHANGED <<record, bucket>>
        /\ s \in HandlerStates /\ list # NoObject
    BY DEF GetObject, At, IndInv, TypeOK
  <1>2. CASE s.op = "get" /\ GetBookmarks(h, list)
    BY <1>1, <1>2, EndReadShelf DEF Reads
  <1>3. CASE s.op = "head" /\ FindBookmarkEntry(h, list)
    BY <1>1, <1>3, EndReadShelf DEF Reads
  <1>4. ASSUME NEW body, s.op \in {"post", "remove"},
               handler' = [handler EXCEPT ![h].pc = "putObject", ![h].body = body]
        PROVE  ShelfStep
    <2> DEFINE t == [s EXCEPT !.pc = "putObject", !.body = body]
    <2>1. handler' = [handler EXCEPT ![h] = t]
      BY <1>1, <1>4 DEF TypeOK
    <2>2. t.op = s.op /\ t.arg = s.arg /\ t.answer = s.answer /\ t.pc = "putObject"
      BY <1>1 DEF HandlerStates
    <2> HIDE DEF t
    <2>3. phaseOf(s) = "called" /\ phaseOf(t) = "called"
      BY <1>1, <1>4, <2>2 DEF phaseOf, Reads
    <2>4. ListsKept(h) /\ ListOf(record)' = ListOf(record)
      BY <1>1, <2>1, OneHandlerOnly, SameBucketKeeps DEF ListOf
    <2> QED
      BY <1>1, <2>1, <2>2, <2>3, <2>4, WriterGoesOn
  <1> QED
    BY <1>2, <1>3, <1>4
       DEF GetObject, At, getExistingBookmarks, deleteMatchingBookmarks

LEMMA GetObjectFailsShelf ==
    ASSUME FreshReads, IndInv, ShelfInv, NEW h \in Handlers, GetObjectFails(h)
    PROVE  ShelfStep
  <1> DEFINE s == handler[h]
  <1>1. /\ TypeOK /\ PhaseOK /\ s.pc = "getObject" /\ UNCHANGED <<record, bucket>>
        /\ s.seen \in Records /\ record \in Records /\ Live(s.seen)
        /\ bucket[s.seen.version] = NoObject
    BY DEF GetObjectFails, At, IndInv, TypeOK, HandlerStates, FreshReads, PhaseOK, Carries
  <1>2. s.op \in Reads \union {"post", "remove"}
    BY <1>1 DEF ShelfInv, Sound, OnItsWay
  <1>3. CASE s.op \in Reads
    <2>1. Finish(h, "notFound")
      BY <1>3 DEF GetObjectFails, Reads
    <2> QED
      BY <1>1, <1>3, <2>1, EndReadShelf
  <1>4. CASE s.op \in {"post", "remove"}
    <2>1. Rank(s.seen) = Rank(record)
      BY <1>1, <1>4 DEF ShelfInv, Sound, UpToDate, Writes, Puts
    <2>2. s.seen.version = record.version /\ Live(record)
      BY <1>1, <2>1, RankIsInjective
    <2> QED
      BY <1>1, <2>2, LiveHasList
  <1> QED
    BY <1>2, <1>3, <1>4

LEMMA PutObjectShelf ==
    ASSUME IndInv, ShelfInv, NEW h \in Handlers, PutObject(h)
    PROVE  ShelfStep
  <1> DEFINE s == handler[h]
             v == GetIncrementedVersion(s.seen)
  <1>1. PICK o \in Outcomes :
          /\ bucket' = IF o.applied THEN [bucket EXCEPT ![v] = s.body] ELSE bucket
          /\ handler' = [handler EXCEPT ![h] = AfterPut([s EXCEPT !.wrote = o.applied], o.ok)]
    BY DEF PutObject
  <1>2. /\ TypeOK /\ PhaseOK /\ s.pc = "putObject" /\ s.op \in Puts /\ s \in HandlerStates
        /\ v \in Versions /\ record' = record
        /\ bucket \in [Versions -> {NoObject} \union Lists]
    BY DEF PutObject, At, IndInv, TypeOK
  <1>3. /\ handler'[h] = AfterPut([s EXCEPT !.wrote = o.applied], o.ok)
        /\ \A g \in Handlers \ {h} : handler'[g] = handler[g]
    BY <1>1, <1>2, OneHandlerOnly
  <1>4. \A n \in Versions \ {v} : bucket'[n] = bucket[n]
    BY <1>1, <1>2
  <1>5. ASSUME NEW r \in Records, r.version \in Nat, r.version <= record.version
        PROVE  Live(r) => r.version \in Versions /\ bucket'[r.version] = bucket[r.version]
    <2>1. r.version # v
      BY <1>2, <1>5, NextVersionIsNew
    <2>2. Live(r) => r.version \in Versions
      BY DEF Live, Exists, Records
    <2> QED
      BY <1>4, <2>1, <2>2
  <1>6. ListOf(record)' = ListOf(record)
    <2>1. record \in Records /\ record.version \in Nat /\ record.version <= record.version
      BY <1>2, NextVersionIsNew DEF TypeOK
    <2>2. Live(record) => bucket'[record.version] = bucket[record.version]
      BY <1>5, <2>1
    <2> QED
      BY <1>2, <2>2 DEF ListOf
  <1>7. ListsKept(h)
    <2>1. SUFFICES ASSUME NEW g \in Handlers \ {h}
                   PROVE  (ListOf(handler[g].seen))' = ListOf(handler[g].seen)
      BY <1>3 DEF ListsKept
    <2>2. handler'[g] = handler[g] /\ handler[g].seen \in Records
      BY <1>2, <1>3 DEF TypeOK, HandlerStates
    <2>3. Live(handler[g].seen) => bucket'[handler[g].seen.version] = bucket[handler[g].seen.version]
      BY <1>2, <1>5, <2>2, NextVersionIsNew
    <2> QED
      BY <2>2, <2>3 DEF ListOf
  <1>8. CASE o.ok
    <2> DEFINE t == [s EXCEPT !.wrote = o.applied, !.pc = "commit"]
    <2>1. handler' = [handler EXCEPT ![h] = t]
      BY <1>1, <1>8 DEF AfterPut
    <2>2. t.op = s.op /\ t.arg = s.arg /\ t.answer = s.answer /\ t.pc = "commit"
      BY <1>2 DEF HandlerStates
    <2> HIDE DEF t
    <2>3. phaseOf(s) = "called" /\ phaseOf(t) = "called"
      BY <1>2, <2>2 DEF phaseOf
    <2> QED
      BY <1>2, <1>6, <1>7, <2>1, <2>2, <2>3, WriterGoesOn
  <1>9. CASE ~o.ok
    <2>1. /\ handler'[h].pc = "done" /\ handler'[h].answer = "error"
          /\ handler'[h].body = {} /\ handler'[h].op = s.op /\ handler'[h].arg = s.arg
      BY <1>2, <1>3, <1>9 DEF AfterPut, Answered, HandlerStates
    <2>2. Shelf!Answer(h, "error", {})
      BY <1>7, <2>1, AnswerOf
    <2>3. calls[h].op = s.op /\ calls[h].phase = "called" /\ s.op \in Shelf!Writes
      BY <1>2 DEF calls, callOf, phaseOf, Shelf!Writes, Puts
    <2>4. Shelf!Fail(h)
      BY <1>6, <2>2, <2>3 DEF Shelf!Fail, Shelf!In, calls
    <2> QED
      BY <2>4 DEF ShelfStep, Shelf!Next
  <1> QED
    BY <1>8, <1>9

\* What a commit that reaches the table makes of the shelf.
LEMMA CommitEffect ==
    ASSUME IndInv, ShelfInv, NEW h \in Handlers, At(h, "commit", Puts \union {"delete"}),
           record' = Stored(record, handler[h].seen, NextItem(h)), bucket' = bucket
    PROVE  /\ ListOf(record)' = Shelf!Effect(handler[h].op, handler[h].arg)
           /\ handler[h].op \in {"remove", "delete"} => ListOf(record) # NoObject
  <1> DEFINE s == handler[h]
  <1>1. /\ TypeOK /\ PhaseOK /\ s.pc = "commit" /\ s.op \in Puts \union {"delete"}
        /\ s.seen \in Records /\ record \in Records /\ Rank(s.seen) = Rank(record)
    BY DEF At, IndInv, TypeOK, HandlerStates, ShelfInv, Sound, UpToDate, Writes
  <1>2. CASE s.op = "delete"
    <2>1. Live(s.seen)
      BY <1>1, <1>2 DEF PhaseOK, Carries, Puts
    <2>2. NextItem(h) = WithDeletedSuffix(s.seen)
      BY <1>2 DEF NextItem
    <2>3. ~Live(record')
      BY <1>1, <2>1, <2>2, WithDeletedSuffixType, StoredType
    <2>4. ListOf(record)' = NoObject
      BY <2>3 DEF ListOf
    <2>5. Shelf!Effect(s.op, s.arg) = NoObject
      BY <1>2 DEF Shelf!Effect
    <2>6. Live(record)
      BY <1>1, <2>1, RankIsInjective
    <2> QED
      BY <2>4, <2>5, <2>6, LiveHasList
  <1>3. CASE s.op \in Puts
    <2> DEFINE v == GetIncrementedVersion(s.seen)
    <2>1. v \in Versions
      BY <1>1, <1>3 DEF PhaseOK, Carries
    <2>2. NextItem(h) = WithVersion(s.seen, v)
      BY <1>3 DEF NextItem, Puts
    <2>3. Live(record') /\ record'.version = v
      BY <1>1, <2>1, <2>2, WithVersionType, StoredType
    <2>4. ListOf(record)' = bucket[v]
      BY <2>3 DEF ListOf
    <2>5. /\ bucket[v] = s.body /\ s.body = EffectOn(ListOf(record), s.op, s.arg)
          /\ s.op = "remove" => Live(record)
      BY <1>1, <1>3 DEF ShelfInv, Sound, Composed, Uploaded
    <2>6. Shelf!Effect(s.op, s.arg) = EffectOn(ListOf(record), s.op, s.arg)
      BY <1>3 DEF Shelf!Effect, EffectOn, Puts
    <2> QED
      BY <1>3, <2>4, <2>5, <2>6, LiveHasList DEF Puts
  <1> QED
    BY <1>1, <1>2, <1>3

LEMMA CommitShelf ==
    ASSUME IndInv, ShelfInv, NEW h \in Handlers, Commit(h)
    PROVE  ShelfStep
  <1> DEFINE s == handler[h]
  <1>1. PICK o \in Outcomes :
          /\ WriteRecord(s.seen, NextItem(h), o.applied)
          /\ handler' = [handler EXCEPT ![h] =
                AfterCommit([s EXCEPT !.wrote = s.wrote \/ o.applied], o.ok)]
    BY DEF Commit
  <1>2. /\ TypeOK /\ PhaseOK /\ At(h, "commit", Puts \union {"delete"}) /\ bucket' = bucket
        /\ s.pc = "commit" /\ s.op \in Puts \union {"delete"} /\ s \in HandlerStates
    BY DEF Commit, At, IndInv, TypeOK
  <1>3. /\ handler'[h] = AfterCommit([s EXCEPT !.wrote = s.wrote \/ o.applied], o.ok)
        /\ \A g \in Handlers \ {h} : handler'[g] = handler[g]
    BY <1>1, <1>2, OneHandlerOnly
  <1>4. ListsKept(h)
    BY <1>2, <1>3, SameBucketKeeps
  <1>5. /\ calls[h].op = s.op /\ calls[h].phase = "called" /\ calls[h].arg = s.arg
        /\ s.op \in Shelf!Writes
    BY <1>2 DEF calls, callOf, phaseOf, Shelf!Writes, Puts
  <1>6. o.ok => o.applied
    BY <1>1 DEF Outcomes
  <1>7. \/ o.ok /\ handler'[h].pc = "deleteObject" /\ handler'[h].answer = s.answer
               /\ handler'[h].op = s.op /\ handler'[h].arg = s.arg
        \/ /\ handler'[h].pc = "done" /\ handler'[h].body = {}
           /\ handler'[h].answer = (IF o.ok THEN "ok" ELSE "error")
           /\ handler'[h].op = s.op /\ handler'[h].arg = s.arg
    BY <1>2, <1>3 DEF AfterCommit, Answered, HandlerStates
  <1>8. ASSUME handler'[h].pc = "done"
        PROVE  Shelf!Answer(h, IF o.ok THEN "ok" ELSE "error", {})
    BY <1>4, <1>7, <1>8, AnswerOf
  <1>9. CASE o.applied
    <2>1. record' = Stored(record, s.seen, NextItem(h))
      BY <1>1, <1>9 DEF WriteRecord
    <2>2. /\ ListOf(record)' = Shelf!Effect(s.op, s.arg)
          /\ s.op \in {"remove", "delete"} => ListOf(record) # NoObject
      BY <1>2, <2>1, CommitEffect
    <2>3. CASE handler'[h].pc = "deleteObject"
      <3>1. callOf(handler[h])' = Call(s.op, "effected", s.arg, NoObject, s.answer, {})
        BY <1>2, <1>7, <2>3 DEF callOf, phaseOf, Call, Reads, Puts
      <3>2. calls[h] = Call(s.op, "called", s.arg, NoObject, s.answer, {})
        BY <1>2 DEF calls, callOf, phaseOf, Call
      <3>3. callOf(handler[h])' = Effected(calls[h])
        BY <3>1, <3>2, CallChanged
      <3>4. calls' = [calls EXCEPT ![h] = Effected(calls[h])]
        BY <1>4, <3>3, OneCall
      <3>5. calls' = [calls EXCEPT ![h].phase = "effected"]
        BY <3>4 DEF calls, Effected
      <3>6. Shelf!Write(h)
        BY <1>5, <2>2, <3>5 DEF Shelf!Write, Shelf!In, calls
      <3> QED
        BY <3>6 DEF ShelfStep, Shelf!Next
    <2>4. CASE handler'[h].pc = "done"
      <3>1. \E answer \in {"ok", "error"} : Shelf!Answer(h, answer, {})
        BY <1>8, <2>4
      <3>2. Shelf!Write(h)
        BY <1>5, <2>2, <3>1 DEF Shelf!Write, Shelf!In, calls
      <3> QED
        BY <3>2 DEF ShelfStep, Shelf!Next
    <2> QED
      BY <1>7, <2>3, <2>4
  <1>10. CASE ~o.applied
    <2>1. Shelf!Answer(h, "error", {})
      BY <1>6, <1>7, <1>8, <1>10
    <2>2. UNCHANGED ListOf(record)
      BY <1>1, <1>2, <1>10 DEF WriteRecord, ListOf
    <2>3. Shelf!Fail(h)
      BY <1>5, <2>1, <2>2 DEF Shelf!Fail, Shelf!In, calls
    <2> QED
      BY <2>3 DEF ShelfStep, Shelf!Next
  <1> QED
    BY <1>9, <1>10

\* A write that took effect has no more to say to the shelf than its answer.
LEMMA EndWriteShelf ==
    ASSUME NEW h \in Handlers, NEW answer \in {"ok", "error"}, ListsKept(h),
           handler[h].pc = "deleteObject", handler[h].op \in Writes,
           handler'[h].pc = "done", handler'[h].answer = answer, handler'[h].body = {},
           handler'[h].op = handler[h].op, handler'[h].arg = handler[h].arg,
           ListOf(record)' = ListOf(record)
    PROVE  ShelfStep
  <1>1. Shelf!Answer(h, answer, {})
    BY AnswerOf
  <1> DEFINE end == [c \in Handlers |->
                        IF c = h THEN Shelf!AnsweredBy(calls[c], answer, {})
                        ELSE IF c \in {} THEN [calls[c] EXCEPT !.found = NoObject]
                        ELSE calls[c]]
  <1>2. calls' = end
    BY <1>1 DEF Shelf!Answer, calls
  <1>3. calls[h].phase = "effected" /\ calls[h].op \in Shelf!Writes
    BY DEF calls, callOf, phaseOf, Shelf!Writes, Writes, Puts
  <1>4. Shelf!EndWrite(h)
    BY <1>2, <1>3 DEF Shelf!EndWrite, Shelf!In, calls
  <1> QED
    BY <1>4 DEF ShelfStep, Shelf!Next

\* The list that is removed is not the shelf's any more; reads that hold it lose it.
LEMMA DeleteObjectShelf ==
    ASSUME IndInv, ShelfInv, NEW h \in Handlers, DeleteObject(h)
    PROVE  ShelfStep
  <1> DEFINE s == handler[h]
             v == s.seen.version
             losers == {g \in Handlers \ {h} : /\ handler[g].op \in Reads
                                               /\ handler[g].pc = "getObject"
                                               /\ handler[g].seen.version = v}
  <1>1. PICK o \in Outcomes :
          /\ bucket' = IF o.applied THEN [bucket EXCEPT ![v] = NoObject] ELSE bucket
          /\ handler' = [handler EXCEPT ![h] = AfterDelete(s, o.ok)]
    BY DEF DeleteObject, previousVersion
  <1>2. /\ TypeOK /\ PhaseOK /\ s.pc = "deleteObject" /\ s.op \in Writes /\ record' = record
        /\ s.seen \in Records /\ record \in Records /\ Live(s.seen)
        /\ bucket \in [Versions -> {NoObject} \union Lists]
    BY DEF DeleteObject, At, IndInv, TypeOK, HandlerStates, Writes, PhaseOK, Carries
  <1> DEFINE answer == IF o.ok THEN "ok" ELSE "error"
  <1>3. handler' = [handler EXCEPT ![h] = Answered(s, answer, {}, s.wrote)]
    BY <1>1 DEF AfterDelete
  <1>4. answer \in {"ok", "error"}
    OBVIOUS
  <1> HIDE DEF answer
  <1>5. /\ \A g \in Handlers \ {h} : handler'[g] = handler[g]
        /\ handler'[h].pc = "done" /\ handler'[h].answer = answer
        /\ handler'[h].body = {} /\ handler'[h].op = s.op /\ handler'[h].arg = s.arg
    BY <1>2, <1>3, AnsweredFields
  <1>6. CASE ~o.applied
    <2>1. bucket' = bucket
      BY <1>1, <1>6
    <2>2. ListsKept(h) /\ ListOf(record)' = ListOf(record)
      BY <1>2, <1>5, <2>1, SameBucketKeeps DEF ListOf
    <2> QED
      BY <1>2, <1>5, <1>4, <2>2, EndWriteShelf
  <1>7. CASE o.applied
    <2>1. v \in Versions /\ bucket'[v] = NoObject
      BY <1>1, <1>2, <1>7 DEF Live, Exists, Records
    <2>2. \A n \in Versions \ {v} : bucket'[n] = bucket[n]
      BY <1>1, <1>2, <1>7
    <2>3. ListOf(record)' = ListOf(record)
      <3>1. Rank(record) > 2 * v
        BY <1>2 DEF IndInv, ShelfInv, Consistent, DeletesOnlyThePast
      <3>2. Live(record) => record.version \in Versions /\ record.version # v
        BY <1>2, <3>1 DEF Rank, Live, Exists, Records, Versions
      <3> QED
        BY <1>2, <2>2, <3>2 DEF ListOf
    <2>4. ASSUME NEW g \in losers PROVE callOf(handler[g])' = Lost(callOf(handler[g]))
      <3>1. handler'[g] = handler[g] /\ handler[g].seen.version = v
        BY <1>5
      <3>2. ListOf(handler[g].seen)' = NoObject
        BY <2>1, <3>1 DEF ListOf
      <3>3. callOf(handler[g])' = Call(handler[g].op, "effected", handler[g].arg, NoObject,
                                       handler[g].answer, {})
        BY <3>1, <3>2 DEF callOf, phaseOf, Call
      <3>4. callOf(handler[g]) = Call(handler[g].op, "effected", handler[g].arg,
                                      ListOf(handler[g].seen), handler[g].answer, {})
        BY DEF callOf, phaseOf, Call
      <3> QED
        BY <3>3, <3>4, CallChanged
    <2>5. ASSUME NEW g \in Handlers \ {h}, g \notin losers
          PROVE  callOf(handler[g])' = callOf(handler[g])
      <3>1. handler'[g] = handler[g] /\ handler[g].seen \in Records
        BY <1>2, <1>5 DEF TypeOK, HandlerStates
      <3>2. CASE handler[g].op \in Reads /\ handler[g].pc = "getObject"
        <4>1. handler[g].seen.version # v /\ Live(handler[g].seen)
          BY <1>2, <2>5, <3>2 DEF PhaseOK, Carries
        <4>2. handler[g].seen.version \in Versions
          BY <3>1, <4>1 DEF Live, Exists, Records
        <4>3. ListOf(handler[g].seen)' = ListOf(handler[g].seen)
          BY <2>2, <3>1, <4>1, <4>2 DEF ListOf
        <4> QED
          BY <3>1, <4>3 DEF callOf, phaseOf
      <3>3. CASE ~(handler[g].op \in Reads /\ handler[g].pc = "getObject")
        BY <3>1, <3>3 DEF callOf, phaseOf
      <3> QED
        BY <3>2, <3>3
    <2>6. callOf(handler[h])' = Shelf!AnsweredBy(callOf(s), answer, {})
      <3>1. callOf(handler[h])' = Call(s.op, "answered", s.arg, NoObject, answer, {})
        BY <1>5 DEF callOf, phaseOf, Call
      <3> QED
        BY <3>1, AnsweredByOf
    <2> DEFINE end == [c \in Handlers |->
                          IF c = h THEN Shelf!AnsweredBy(calls[c], answer, {})
                          ELSE IF c \in losers THEN [calls[c] EXCEPT !.found = NoObject]
                          ELSE calls[c]]
    <2>7. calls' = end
      BY <2>4, <2>5, <2>6 DEF calls, Lost
    <2>8. calls[h].phase = "effected" /\ calls[h].op \in Shelf!Writes
      BY <1>2 DEF calls, callOf, phaseOf, Shelf!Writes, Writes, Puts
    <2>9. \A r \in losers : calls[r].phase = "effected" /\ calls[r].op \in Shelf!Reads
      BY DEF calls, callOf, phaseOf, Shelf!Reads, Reads
    <2>10. losers \in SUBSET Handlers
      OBVIOUS
    <2> HIDE DEF losers
    <2>11. Shelf!EndWrite(h)
      BY <1>4, <2>3, <2>7, <2>8, <2>9, <2>10 DEF Shelf!EndWrite, Shelf!In, calls
    <2> QED
      BY <2>11 DEF ShelfStep, Shelf!Next
  <1> QED
    BY <1>6, <1>7

\* An invocation that is killed while it removes the old list has had its effect.
LEMMA FailureShelf ==
    ASSUME IndInv, ShelfInv, NEW h \in Handlers,
           VersionFails(h) \/ ClientFails(h) \/ Kill(h)
    PROVE  ShelfStep
  <1>1. /\ TypeOK /\ Finish(h, "error") /\ UNCHANGED <<record, bucket>>
        /\ handler[h].pc \notin {"idle", "done"}
    BY DEF VersionFails, ClientFails, Kill, At, IndInv
  <1>2. CASE handler[h].pc # "deleteObject"
    BY <1>1, <1>2, FailShelf
  <1>3. CASE handler[h].pc = "deleteObject"
    <2>1. handler' = [handler EXCEPT ![h] =
                         Answered(handler[h], "error", {}, handler[h].wrote)]
      BY <1>1 DEF Finish
    <2>2. /\ \A g \in Handlers \ {h} : handler'[g] = handler[g]
          /\ handler'[h].pc = "done" /\ handler'[h].answer = "error"
          /\ handler'[h].body = {} /\ handler'[h].op = handler[h].op
          /\ handler'[h].arg = handler[h].arg
      BY <1>1, <2>1, AnsweredFields
    <2>3. ListsKept(h) /\ ListOf(record)' = ListOf(record)
      BY <1>1, <2>2, SameBucketKeeps DEF ListOf
    <2>4. handler[h].op \in Writes
      BY <1>3 DEF ShelfInv, Sound, OnItsWay
    <2> QED
      BY <1>3, <2>2, <2>3, <2>4, EndWriteShelf
  <1> QED
    BY <1>2, <1>3

-----------------------------------------------------------------------------
\* Every step of the routes is a step of the shelf, or changes nothing there.
LEMMA NextShelf ==
    ASSUME FreshReads, IndInv, ShelfInv, [Next]_apiVars
    PROVE  ShelfStep
  <1>1. TypeOK
    BY DEF IndInv
  <1>2. ASSUME NEW h \in Handlers, Step(h) PROVE ShelfStep
    BY <1>1, <1>2, ReceiveShelf, ReplyShelf, GetItemShelf, GetObjectShelf,
       GetObjectFailsShelf, PutObjectShelf, CommitShelf, DeleteObjectShelf, FailureShelf
       DEF Step
  <1>3. CASE UNCHANGED apiVars \/ Replicate \/ Tick
    <2>1. UNCHANGED <<record, bucket, handler>>
      BY <1>3 DEF apiVars, Replicate, Tick
    <2> QED
      BY <2>1 DEF ShelfStep, Shelf!vars, ListOf, callOf, phaseOf
  <1> QED
    BY <1>2, <1>3 DEF Next

\* A user's first state is a shelf.
LEMMA InitShelf == Init => Shelf!Init
  <1> SUFFICES ASSUME Init PROVE Shelf!Init
    OBVIOUS
  <1>1. handler = [h \in Handlers |-> Idle]
    BY DEF Init, InitEmpty, InitLocal
  <1>2. callOf(Idle) = Shelf!NoCall
    BY DEF Shelf!NoCall, Idle, callOf, phaseOf
  <1>3. ListOf(record) \in {NoObject} \union SUBSET ValidUrls
    BY BoundsAssumption
       DEF Init, InitEmpty, InitLocal, ListOf, Live, Exists, NoRecord, Versions
  <1> QED
    BY <1>1, <1>2, <1>3 DEF Shelf!Init

\* The writer holds what its request makes of the user's list, and has stored it
\* before the item names it.
THEOREM WriterIsSound ==
    ASSUME OneWriter, FreshReads
    PROVE  Spec => []ShelfInv
  <1>1. IndInv /\ ShelfInv /\ [Next]_apiVars => ShelfInv'
    BY NextSound
  <1> QED
    BY <1>1, InitSound, Invariance, PTL DEF Spec

\* The routes behave as a shelf: with one writer and any number of readers, any
\* lists, writes that fail with or without effect and invocations that die, a
\* write is visible entirely or not at all and a read returns a list of its time.
THEOREM RoutesImplementShelf ==
    ASSUME OneWriter, FreshReads
    PROVE  Spec => ImplementsShelf
  <1>1. IndInv /\ ShelfInv /\ [Next]_apiVars => [Shelf!Next]_(Shelf!vars)
    BY NextShelf DEF ShelfStep
  <1> QED
    BY <1>1, InitShelf, Invariance, WriterIsSound, PTL DEF Spec, ImplementsShelf, Shelf!Spec
=============================================================================
