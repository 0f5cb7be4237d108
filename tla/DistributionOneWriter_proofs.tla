-------------------- MODULE DistributionOneWriter_proofs --------------------
(***************************************************************************)
(* What modifiedBookmarks promises: theorems about DistributionApi for one *)
(* handler that writes and reads of the item that are fresh and do not     *)
(* fail.  With any number of distributors beside it, until one of them     *)
(* writes the item it saw over a younger one; with one, also afterwards.   *)
(***************************************************************************)
EXTENDS DistributionApi_proofs, ApiImplementsShelf_proofs

-----------------------------------------------------------------------------
(* The inductive invariant.                                                *)

\* Every list, stored or in the hands of a handler, is one of valid URLs: packing it
\* changes nothing.
ValidLists == \A v \in Versions : bucket[v] # NoObject => bucket[v] \subseteq ValidUrls
ValidInHand(h) == handler[h].pc \notin {"idle", "done"} =>
                     /\ handler[h].arg \subseteq ValidUrls
                     /\ handler[h].body \subseteq ValidUrls
ValidPart == ValidLists /\ \A h \in Handlers : ValidInHand(h)

\* The package of the item's version is the user's list ...
Packed   == Live(record) => summary[record.version] = bucket[record.version]
\* ... and an execution was given that version.
Executed == \E e \in executions : e.version = record.version /\ e.deleted = record.deleted

ItemPart == (Exists(record) /\ ~record.modified) => Packed /\ Executed

\* The item that d saw is that of the table, but for its status.
Current(d) == Exists(job[d].seen) /\ Rank(job[d].seen) = Rank(record)

\* No distributor holds an item of the future ...
NotYounger(d) == Exists(job[d].seen) => Rank(job[d].seen) <= Rank(record)

\* ... one that it saw unmodified had been distributed ...
Known(d) == (Current(d) /\ ~job[d].seen.modified) => Packed /\ Executed

\* ... and on its way to clear the flag it holds the user's list, has packed it, and
\* has started an execution.
OnCourse(d) ==
    LET s == job[d]
    IN  /\ s.pc \in {"getObject", "putPackage"} => ~s.seen.deleted
        /\ Current(d) =>
             /\ s.pc = "putPackage" => s.list = bucket[record.version]
             /\ s.pc \in {"addJobs", "addRecord", "startExecution", "final"} => Packed
             /\ s.pc = "final" => Executed

Faithful(d) == NotYounger(d) /\ Known(d) /\ OnCourse(d)

FlagPart == ItemPart /\ \A d \in Distributors : Faithful(d)

FlagInv == ValidPart /\ (~lostUpdate => ShelfInv /\ FlagPart)

-----------------------------------------------------------------------------
(* Lists of valid URLs.                                                    *)

\* One handler moves; it or nobody writes a list.
LEMMA OneMovesValid ==
    ASSUME TypeOK, ValidPart, NEW h \in Handlers, NEW s, handler' = [handler EXCEPT ![h] = s],
           s.pc \notin {"idle", "done"} => s.arg \subseteq ValidUrls /\ s.body \subseteq ValidUrls,
           ValidLists'
    PROVE  ValidPart'
  <1>1. ASSUME NEW g \in Handlers PROVE ValidInHand(g)'
    <2>1. handler'[g] = s \/ handler'[g] = handler[g]
      BY DEF TypeOK
    <2> QED
      BY <2>1 DEF ValidPart, ValidInHand
  <1> QED
    BY <1>1 DEF ValidPart

LEMMA SameLists == ASSUME ValidPart, bucket' = bucket PROVE ValidLists'
  BY DEF ValidPart, ValidLists

LEMMA FinishValid ==
    ASSUME TypeOK, ValidPart, NEW h \in Handlers, NEW answer, NEW body, NEW wrote,
           handler' = [handler EXCEPT ![h] = Answered(handler[h], answer, body, wrote)],
           ValidLists'
    PROVE  ValidPart'
  <1>1. Answered(handler[h], answer, body, wrote).pc = "done"
    BY DEF Answered, TypeOK, HandlerStates
  <1> QED
    BY <1>1, OneMovesValid

LEMMA ReceiveValid ==
    ASSUME TypeOK, ValidPart, NEW h \in Handlers, Receive(h)
    PROVE  ValidPart'
  <1> DEFINE request(op, arg) == [Idle EXCEPT !.op = op, !.arg = arg, !.pc = "getItem"]
             next(op, arg) == IF Malformed(op, arg)
                                THEN Answered(request(op, arg), "badRequest", {}, FALSE)
                                ELSE request(op, arg)
  <1>1. PICK op \in Serves[h] : \E arg \in Requests(op) :
            handler' = [handler EXCEPT ![h] = next(op, arg)]
    BY DEF Receive
  <1>2. PICK arg \in Requests(op) : handler' = [handler EXCEPT ![h] = next(op, arg)]
    BY <1>1
  <1>3. op \in Operations
    BY ApiAssumption
  <1>4. CASE Malformed(op, arg)
    <2>1. next(op, arg).pc = "done"
      BY <1>4 DEF Answered, Idle
    <2> HIDE DEF next
    <2> QED
      BY <1>2, <2>1, SameLists, OneMovesValid DEF Receive
  <1>5. CASE ~Malformed(op, arg)
    <2>1. next(op, arg).arg = arg /\ next(op, arg).body = {}
      BY <1>5 DEF Idle
    <2>2. arg \subseteq ValidUrls
      BY <1>2, <1>3, <1>5 DEF Malformed, Requests, Operations, Reads, Puts
    <2> HIDE DEF next
    <2> QED
      BY <1>2, <2>1, <2>2, SameLists, OneMovesValid DEF Receive
  <1> QED
    BY <1>4, <1>5

LEMMA LoadValid ==
    ASSUME TypeOK, ValidPart, NEW h \in Handlers, NEW r, NEW phase, NEW body,
           Load(h, r, phase, body), body = {} \/ body = handler[h].arg,
           handler[h].pc = "getItem", bucket' = bucket
    PROVE  ValidPart'
  <1> DEFINE s == [handler[h] EXCEPT !.seen = r, !.pc = phase, !.body = body]
  <1>1. handler' = [handler EXCEPT ![h] = s]
    BY DEF Load, TypeOK
  <1>2. s.arg = handler[h].arg /\ s.body = body
    BY DEF TypeOK, HandlerStates
  <1>3. handler[h].arg \subseteq ValidUrls
    BY DEF ValidPart, ValidInHand
  <1> HIDE DEF s
  <1> QED
    BY <1>1, <1>2, <1>3, SameLists, OneMovesValid

LEMMA GetItemValid ==
    ASSUME TypeOK, ValidPart, NEW h \in Handlers, GetItem(h)
    PROVE  ValidPart'
  <1>1. PICK r \in Snapshots :
          \/ At(h, "getItem", {"put"})    /\ PutBookmarks(h, r)
          \/ At(h, "getItem", {"post"})   /\ PostBookmarks(h, r)
          \/ At(h, "getItem", {"delete"}) /\ DeleteBookmarks(h, r)
          \/ At(h, "getItem", {"remove"}) /\ FindAndDeleteBookmarkEntry(h, r)
          \/ At(h, "getItem", Reads)      /\ GetBookmarksS3Object(h, r)
    BY DEF GetItem
  <1>2. handler[h].pc = "getItem" /\ bucket' = bucket
    BY <1>1 DEF At, GetItem
  <1>3. CASE \E answer : Finish(h, answer)
    BY <1>2, <1>3, SameLists, FinishValid DEF Finish
  <1>4. CASE \E phase, body : Load(h, r, phase, body) /\ (body = {} \/ body = handler[h].arg)
    BY <1>2, <1>4, LoadValid
  <1> QED
    BY <1>1, <1>3, <1>4
       DEF PutBookmarks, PostBookmarks, DeleteBookmarks, FindAndDeleteBookmarkEntry,
           GetBookmarksS3Object

LEMMA GetObjectValid ==
    ASSUME TypeOK, PhaseOK, ValidPart, NEW h \in Handlers, GetObject(h)
    PROVE  ValidPart'
  <1> DEFINE s == handler[h]
             list == bucket[s.seen.version]
  <1>1. /\ s.pc = "getObject" /\ bucket' = bucket /\ list # NoObject /\ Live(s.seen)
        /\ s \in HandlerStates
    BY DEF GetObject, At, PhaseOK, Carries, TypeOK
  <1>2. list \subseteq ValidUrls /\ s.arg \subseteq ValidUrls
    BY <1>1 DEF Live, Exists, HandlerStates, Records, ValidPart, ValidLists, ValidInHand
  <1>3. CASE \E answer, body, wrote : handler' = [handler EXCEPT ![h] =
                                          Answered(s, answer, body, wrote)]
    BY <1>1, <1>3, SameLists, FinishValid
  <1>4. ASSUME NEW body, body \subseteq ValidUrls,
               handler' = [handler EXCEPT ![h].pc = "putObject", ![h].body = body]
        PROVE  ValidPart'
    <2> DEFINE t == [s EXCEPT !.pc = "putObject", !.body = body]
    <2>1. handler' = [handler EXCEPT ![h] = t]
      BY <1>4 DEF TypeOK
    <2>2. t.arg = s.arg /\ t.body = body
      BY <1>1 DEF HandlerStates
    <2> HIDE DEF t
    <2> QED
      BY <1>1, <1>2, <1>4, <2>1, <2>2, SameLists, OneMovesValid
  <1>5. list \union s.arg \subseteq ValidUrls /\ list \ s.arg \subseteq ValidUrls
    BY <1>2
  <1>6. \/ GetBookmarks(h, list) \/ FindBookmarkEntry(h, list)
        \/ getExistingBookmarks(h, list) \/ deleteMatchingBookmarks(h, list)
    BY DEF GetObject
  <1>7. CASE GetBookmarks(h, list) \/ FindBookmarkEntry(h, list)
    BY <1>3, <1>7 DEF GetBookmarks, FindBookmarkEntry, Finish
  <1>8. CASE getExistingBookmarks(h, list) \/ deleteMatchingBookmarks(h, list)
    BY <1>4, <1>5, <1>8 DEF getExistingBookmarks, deleteMatchingBookmarks
  <1> QED
    BY <1>6, <1>7, <1>8

LEMMA PutObjectValid ==
    ASSUME TypeOK, ValidPart, NEW h \in Handlers, PutObject(h)
    PROVE  ValidPart'
  <1> DEFINE s == handler[h]
             v == GetIncrementedVersion(s.seen)
  <1>1. PICK o \in Outcomes :
          /\ bucket' = IF o.applied THEN [bucket EXCEPT ![v] = s.body] ELSE bucket
          /\ handler' = [handler EXCEPT ![h] = AfterPut([s EXCEPT !.wrote = o.applied], o.ok)]
    BY DEF PutObject
  <1>2. /\ s.pc = "putObject" /\ v \in Versions /\ s \in HandlerStates
        /\ bucket \in [Versions -> {NoObject} \union Lists]
    BY DEF PutObject, At, TypeOK
  <1>3. s.arg \subseteq ValidUrls /\ s.body \subseteq ValidUrls
    BY <1>2 DEF ValidPart, ValidInHand
  <1>4. ValidLists'
    <2>1. \A n \in Versions : bucket'[n] = bucket[n] \/ bucket'[n] = s.body
      BY <1>1, <1>2
    <2> QED
      BY <1>3, <2>1 DEF ValidPart, ValidLists
  <1> DEFINE t == AfterPut([s EXCEPT !.wrote = o.applied], o.ok)
  <1>5. t.pc = "done" \/ (t.arg = s.arg /\ t.body = s.body)
    BY <1>2 DEF AfterPut, Answered, HandlerStates
  <1> HIDE DEF t
  <1>6. handler' = [handler EXCEPT ![h] = t]
    BY <1>1 DEF t
  <1> QED
    BY <1>3, <1>4, <1>5, <1>6, OneMovesValid

LEMMA CommitValid ==
    ASSUME TypeOK, ValidPart, NEW h \in Handlers, Commit(h)
    PROVE  ValidPart'
  <1> DEFINE s == handler[h]
  <1>1. PICK o \in Outcomes : handler' = [handler EXCEPT ![h] =
                AfterCommit([s EXCEPT !.wrote = s.wrote \/ o.applied], o.ok)]
    BY DEF Commit
  <1>2. s.pc = "commit" /\ bucket' = bucket /\ s \in HandlerStates
    BY DEF Commit, At, TypeOK
  <1>3. s.arg \subseteq ValidUrls /\ s.body \subseteq ValidUrls
    BY <1>2 DEF ValidPart, ValidInHand
  <1> DEFINE t == AfterCommit([s EXCEPT !.wrote = s.wrote \/ o.applied], o.ok)
  <1>4. t.pc = "done" \/ (t.arg = s.arg /\ t.body = s.body)
    BY <1>2 DEF AfterCommit, Answered, HandlerStates
  <1> HIDE DEF t
  <1>5. handler' = [handler EXCEPT ![h] = t]
    BY <1>1 DEF t
  <1> QED
    BY <1>2, <1>3, <1>4, <1>5, SameLists, OneMovesValid

LEMMA DeleteObjectValid ==
    ASSUME TypeOK, PhaseOK, ValidPart, NEW h \in Handlers, DeleteObject(h)
    PROVE  ValidPart'
  <1> DEFINE v == handler[h].seen.version
  <1>1. PICK o \in Outcomes :
          /\ bucket' = IF o.applied THEN [bucket EXCEPT ![v] = NoObject] ELSE bucket
          /\ handler' = [handler EXCEPT ![h] = AfterDelete(handler[h], o.ok)]
    BY DEF DeleteObject, previousVersion
  <1>2. \A n \in Versions : bucket'[n] = bucket[n] \/ bucket'[n] = NoObject
    BY <1>1 DEF TypeOK
  <1>3. ValidLists'
    BY <1>2 DEF ValidPart, ValidLists
  <1> QED
    BY <1>1, <1>3, FinishValid DEF AfterDelete

LEMMA NextValid ==
    ASSUME TypeOK, PhaseOK, ValidPart, [Next]_apiVars
    PROVE  ValidPart'
  <1>1. ASSUME NEW h \in Handlers,
               GetObjectFails(h) \/ VersionFails(h) \/ ClientFails(h) \/ Kill(h)
        PROVE  ValidPart'
    <2>1. PICK answer : Finish(h, answer)
      BY <1>1 DEF GetObjectFails, VersionFails, ClientFails, Kill
    <2>2. bucket' = bucket
      BY <1>1 DEF GetObjectFails, VersionFails, ClientFails, Kill
    <2> QED
      BY <2>1, <2>2, SameLists, FinishValid DEF Finish
  <1>2. ASSUME NEW h \in Handlers, Reply(h) PROVE ValidPart'
    <2>1. Idle.pc = "idle"
      BY DEF Idle
    <2> QED
      BY <1>2, <2>1, SameLists, OneMovesValid DEF Reply
  <1>3. ASSUME NEW h \in Handlers, Step(h) PROVE ValidPart'
    BY <1>1, <1>2, <1>3, ReceiveValid, GetItemValid, GetObjectValid, PutObjectValid,
       CommitValid, DeleteObjectValid DEF Step
  <1>4. CASE UNCHANGED apiVars \/ Replicate \/ Tick
    BY <1>4 DEF apiVars, Replicate, Tick, ValidPart, ValidLists, ValidInHand
  <1> QED
    BY <1>3, <1>4 DEF Next

-----------------------------------------------------------------------------
(* The bookmark routes beside the distributors.                            *)

\* A step that leaves the item and its list alone, or makes the item another that is
\* marked as modified.
ItemStays == /\ UNCHANGED <<record, lostUpdate>>
             /\ Live(record) => bucket'[record.version] = bucket[record.version]
ItemMoves == /\ bucket' = bucket
             /\ record'.modified = TRUE
             /\ Rank(record') > Rank(record)

LEMMA PutObjectStays ==
    ASSUME IndInv, ShelfInv, NEW h \in Handlers, PutObject(h)
    PROVE  ItemStays
  <1> DEFINE v == GetIncrementedVersion(handler[h].seen)
  <1>1. /\ handler[h].pc = "putObject" /\ handler[h].op \in Puts
        /\ UNCHANGED <<record, lostUpdate>>
        /\ bucket \in [Versions -> {NoObject} \union Lists] /\ record \in Records
    BY DEF PutObject, At, IndInv, TypeOK
  <1>2. bucket' = bucket \/ bucket' = [bucket EXCEPT ![v] = handler[h].body]
    BY DEF PutObject
  <1>3. v = record.version + 1 /\ record.version \in Nat
    BY <1>1, NextVersionIsNew
  <1>4. Live(record) => record.version \in Versions
    BY <1>1 DEF Live, Exists, Records
  <1>5. record.version # v
    BY <1>3
  <1> HIDE DEF v
  <1> QED
    BY <1>1, <1>2, <1>4, <1>5 DEF ItemStays

LEMMA DeleteObjectStays ==
    ASSUME IndInv, ShelfInv, NEW h \in Handlers, DeleteObject(h)
    PROVE  ItemStays
  <1> DEFINE v == handler[h].seen.version
  <1>1. /\ handler[h].pc = "deleteObject" /\ UNCHANGED <<record, lostUpdate>>
        /\ bucket \in [Versions -> {NoObject} \union Lists] /\ record \in Records
        /\ handler[h].seen \in Records
    BY DEF DeleteObject, At, IndInv, TypeOK, HandlerStates
  <1>2. bucket' = bucket \/ bucket' = [bucket EXCEPT ![v] = NoObject]
    BY DEF DeleteObject, previousVersion
  <1>3. Rank(record) > 2 * v
    BY <1>1 DEF IndInv, ShelfInv, Consistent, DeletesOnlyThePast
  <1>4. Live(record) => record.version \in Versions /\ record.version # v
    BY <1>1, <1>3 DEF Rank, Live, Exists, Records, Versions
  <1> HIDE DEF v
  <1> QED
    BY <1>1, <1>2, <1>4 DEF ItemStays

LEMMA CommitMoves ==
    ASSUME IndInv, ShelfInv, NEW h \in Handlers, Commit(h)
    PROVE  ItemStays \/ ItemMoves
  <1> DEFINE s == handler[h]
  <1>1. PICK o \in Outcomes : WriteRecord(s.seen, NextItem(h), o.applied)
    BY DEF Commit
  <1>2. /\ TypeOK /\ PhaseOK /\ At(h, "commit", Puts \union {"delete"}) /\ bucket' = bucket
        /\ s.pc = "commit" /\ s.op \in Puts \union {"delete"}
        /\ s.seen \in Records /\ record \in Records /\ Rank(s.seen) = Rank(record)
    BY DEF Commit, At, IndInv, TypeOK, HandlerStates, ShelfInv, Sound, UpToDate, Writes
  <1>3. CASE o.applied
    <2> DEFINE e == NextItem(h)
    <2>1. record' = Stored(record, s.seen, e)
      BY <1>1, <1>3 DEF WriteRecord
    <2>2. e \in Records /\ Rank(e) > Rank(s.seen)
      BY <1>2, NextItemType
    <2>3. e.modified = TRUE
      BY <1>2 DEF NextItem, WithDeletedSuffix, WithVersion, Records
    <2> HIDE DEF e
    <2>4. Rank(record') = Rank(e)
      BY <1>2, <2>1, <2>2, StoredType
    <2>5. record'.modified = TRUE
      BY <2>1, <2>2, <2>3 DEF Stored, Merge, Records
    <2> QED
      BY <1>2, <2>2, <2>4, <2>5 DEF ItemMoves
  <1>4. CASE ~o.applied
    BY <1>1, <1>2, <1>4 DEF WriteRecord, ItemStays
  <1> QED
    BY <1>3, <1>4

LEMMA RoutesMoveItem ==
    ASSUME IndInv, ShelfInv, [Next]_apiVars
    PROVE  ItemStays \/ ItemMoves
  <1>1. ASSUME NEW h \in Handlers, Step(h) PROVE ItemStays \/ ItemMoves
    <2>1. CASE UNCHANGED <<record, bucket, lostUpdate>>
      BY <2>1 DEF ItemStays
    <2>2. CASE PutObject(h) \/ Commit(h) \/ DeleteObject(h)
      BY <2>2, PutObjectStays, CommitMoves, DeleteObjectStays
    <2> QED
      BY <1>1, <2>1, <2>2 DEF Step, Receive, Reply, GetItem, GetObject, GetObjectFails,
         ClientFails, Kill, VersionFails
  <1>2. CASE UNCHANGED apiVars \/ Replicate \/ Tick
    BY <1>2 DEF apiVars, Replicate, Tick, ItemStays
  <1> QED
    BY <1>1, <1>2 DEF Next

\* What the distributors know of the item outlives every step of the routes.
LEMMA RoutesKeepFlag ==
    ASSUME OneWriter, FreshReads, DistInv, FlagInv, Next, UNCHANGED distVars
    PROVE  FlagInv'
  <1>1. IndInv /\ TypeOK /\ PhaseOK /\ record \in Records /\ record' \in Records
    BY NextType DEF DistInv, IndInv, TypeOK
  <1>2. ValidPart'
    BY <1>1, NextValid DEF FlagInv
  <1>3. SUFFICES ASSUME ~lostUpdate' PROVE ShelfInv' /\ FlagPart'
    BY <1>2 DEF FlagInv
  <1>4. ShelfInv /\ FlagPart
    BY <1>1, <1>3, LostStaysLost DEF FlagInv
  <1>5. ShelfInv'
    BY <1>1, <1>4, NextSound
  <1>6. ItemStays \/ ItemMoves
    BY <1>1, <1>4, RoutesMoveItem
  <1>7. CASE ItemStays
    <2>1. Packed' <=> Packed
      BY <1>7 DEF ItemStays, Packed, distVars
    <2>2. Executed' <=> Executed
      BY <1>7 DEF ItemStays, Executed, distVars
    <2>3. ItemPart'
      BY <1>4, <1>7, <2>1, <2>2 DEF ItemStays, FlagPart, ItemPart
    <2>4. ASSUME NEW d \in Distributors PROVE Faithful(d)'
      <3>1. Faithful(d) /\ job'[d] = job[d] /\ record' = record
        BY <1>4, <1>7 DEF FlagPart, ItemStays, distVars
      <3>2. (Current(d)' <=> Current(d)) /\ job[d].seen \in Records
        BY <3>1, JobFields DEF Current
      <3>3. NotYounger(d)' /\ Known(d)'
        BY <2>1, <2>2, <3>1, <3>2 DEF Faithful, NotYounger, Known
      <3>4. Current(d) => job[d].seen.deleted = record.deleted
                          /\ job[d].seen.version = record.version
        BY <1>1, <3>2, RankIsInjective DEF Current
      <3>5. job[d].pc = "putPackage" /\ Current(d) => Live(record)
        BY <3>1, <3>4 DEF Faithful, OnCourse, Live, Exists, Current
      <3>6. OnCourse(d)'
        BY <1>7, <2>1, <2>2, <3>1, <3>2, <3>5 DEF Faithful, OnCourse, ItemStays
      <3> QED
        BY <3>3, <3>6 DEF Faithful
    <2> QED
      BY <1>5, <2>3, <2>4 DEF FlagPart
  <1>8. CASE ItemMoves
    <2>1. ItemPart'
      BY <1>8 DEF ItemMoves, ItemPart
    <2>2. ASSUME NEW d \in Distributors PROVE Faithful(d)'
      <3>1. Faithful(d) /\ job'[d] = job[d] /\ job[d].seen \in Records
        BY <1>4, JobFields DEF FlagPart, distVars
      <3>2. Rank(job[d].seen) \in Nat /\ Rank(record) \in Nat /\ Rank(record') \in Nat
        BY <1>1, <3>1, RankType
      <3>3. Exists(job[d].seen) => Rank(job[d].seen) < Rank(record')
        BY <1>8, <3>1, <3>2 DEF Faithful, NotYounger, ItemMoves
      <3>4. ~Current(d)' /\ NotYounger(d)'
        BY <3>1, <3>2, <3>3 DEF Current, NotYounger
      <3> QED
        BY <3>1, <3>4 DEF Faithful, Known, OnCourse
    <2> QED
      BY <1>5, <2>1, <2>2 DEF FlagPart
  <1> QED
    BY <1>6, <1>7, <1>8

-----------------------------------------------------------------------------
(* What the steps of a distributor share.                                  *)

\* The item keeps its version, what was packed or started stays so, and the flag is
\* cleared only where it may be.
Advances == /\ Rank(record') = Rank(record)
            /\ Packed => Packed'
            /\ Executed => Executed'
            /\ ~record'.modified => ~record.modified \/ (Packed /\ Executed)

\* What the two routes see in the item of a rank they know.
LEMMA SameItem ==
    ASSUME DistInv, DistInv', Rank(record') = Rank(record)
    PROVE  /\ record'.version = record.version /\ record'.deleted = record.deleted
           /\ Live(record') <=> Live(record)
           /\ Exists(record') <=> Exists(record)
  <1>1. record \in Records /\ record' \in Records
    BY DEF DistInv, IndInv, TypeOK
  <1> QED
    BY <1>1, RankIsInjective DEF Exists

LEMMA StandsStill ==
    ASSUME UNCHANGED <<record, bucket, summary>>, executions \subseteq executions'
    PROVE  Advances
  BY DEF Advances, Packed, Executed

\* The bookmark routes rely on the version and the deletion alone.
LEMMA SameItemKeepsShelf ==
    ASSUME DistInv, DistInv', ShelfInv, Rank(record') = Rank(record), ~lostUpdate',
           UNCHANGED <<bucket, handler>>
    PROVE  ShelfInv'
  <1>1. record'.version = record.version /\ (Live(record') <=> Live(record))
    BY SameItem
  <1> QED
    BY <1>1 DEF ShelfInv, Sound, OnItsWay, UpToDate, Composed, Uploaded, ListOf

\* A distributor that the step does not move keeps what it knows.
LEMMA OthersStayFaithful ==
    ASSUME DistInv, DistInv', Advances, UNCHANGED bucket, NEW d \in Distributors,
           Faithful(d), job'[d] = job[d]
    PROVE  Faithful(d)'
  <1>1. Rank(record') = Rank(record) /\ record'.version = record.version
    BY SameItem DEF Advances
  <1>2. (Current(d)' <=> Current(d)) /\ NotYounger(d)'
    BY <1>1 DEF Current, Faithful, NotYounger
  <1>3. Known(d)'
    BY <1>2 DEF Faithful, Known, Advances
  <1>4. OnCourse(d)'
    BY <1>1, <1>2 DEF Faithful, OnCourse, Advances
  <1> QED
    BY <1>2, <1>3, <1>4 DEF Faithful

\* One distributor moves.
LEMMA JobKeepsFlag ==
    ASSUME DistInv, DistInv', FlagInv, NEW d \in Distributors,
           \A g \in Distributors \ {d} : job'[g] = job[g],
           lostUpdate => lostUpdate', UNCHANGED <<bucket, handler>>,
           ~lostUpdate' => Advances /\ Faithful(d)'
    PROVE  FlagInv'
  <1>1. ValidPart'
    BY DEF FlagInv, ValidPart, ValidLists, ValidInHand
  <1>2. SUFFICES ASSUME ~lostUpdate' PROVE ShelfInv' /\ FlagPart'
    BY <1>1 DEF FlagInv
  <1>3. ShelfInv /\ FlagPart /\ Advances /\ Faithful(d)'
    BY <1>2 DEF FlagInv
  <1>4. ShelfInv'
    BY <1>2, <1>3, SameItemKeepsShelf DEF Advances
  <1>5. ItemPart'
    BY <1>3, SameItem DEF FlagPart, ItemPart, Advances
  <1>6. ASSUME NEW g \in Distributors PROVE Faithful(g)'
    BY <1>3, <1>6, OthersStayFaithful DEF FlagPart
  <1> QED
    BY <1>4, <1>5, <1>6 DEF FlagPart

\* It moves to the state s.
LEMMA JobMovesFlag ==
    ASSUME DistInv, DistInv', FlagInv, NEW d \in Distributors, NEW s,
           job' = [job EXCEPT ![d] = s],
           UNCHANGED <<bucket, handler>>, lostUpdate => lostUpdate',
           ~lostUpdate' => Advances /\ Faithful(d)'
    PROVE  FlagInv'
  <1>1. \A g \in Distributors \ {d} : job'[g] = job[g]
    BY DEF DistInv, JobPart
  <1> QED
    BY <1>1, JobKeepsFlag

\* A distributor that holds no item knows nothing of it.
LEMMA NothingKnown ==
    ASSUME NEW d \in Distributors, ~Exists(job'[d].seen),
           job'[d].pc \notin {"getObject", "putPackage"}
    PROVE  Faithful(d)'
  BY DEF Faithful, NotYounger, Known, OnCourse, Current

\* One that holds the item it held, or a rewrite of it, knows what it knew.
LEMMA StillKnown ==
    ASSUME Advances, NEW d \in Distributors, Faithful(d),
           Rank(job'[d].seen) = Rank(job[d].seen),
           Exists(job'[d].seen) <=> Exists(job[d].seen),
           ~job'[d].seen.modified => ~job[d].seen.modified \/ (Current(d) => Packed /\ Executed)
    PROVE  NotYounger(d)' /\ Known(d)' /\ (Current(d)' <=> Current(d))
  BY DEF Faithful, NotYounger, Known, Current, Advances

\* What a distributor leaves when it answers.
LEMMA DoneHoldsNothing ==
    ASSUME DistInv, NEW d \in Distributors, NEW s, NEW answer,
           job' = [job EXCEPT ![d] = Done(s, answer)]
    PROVE  Faithful(d)'
  <1>1. /\ Done(s, answer).pc = "done" /\ ~Exists(Done(s, answer).seen)
    BY DEF Done, IdleJob, Exists, NoRecord
  <1>2. job'[d] = Done(s, answer)
    BY DEF DistInv, JobPart
  <1> QED
    BY <1>1, <1>2, NothingKnown

\* It answers and writes nothing.
LEMMA AnswersKeepFlag ==
    ASSUME DistInv, DistInv', FlagInv, NEW d \in Distributors, NEW answer,
           FinishJob(d, answer), UNCHANGED <<apiVars, summary, devices, executions>>
    PROVE  FlagInv'
  <1>1. job' = [job EXCEPT ![d] = Done(job[d], answer)]
    BY DEF FinishJob
  <1>2. Faithful(d)'
    BY <1>1, DoneHoldsNothing
  <1>3. Advances
    BY StandsStill DEF apiVars
  <1> HIDE DEF Done
  <1> QED
    BY <1>1, <1>2, <1>3, JobMovesFlag DEF apiVars

\* The item is written as the distributor holds it.
LEMMA ItemWritten ==
    ASSUME DistInv, NEW e \in Records, NEW o \in Outcomes, WriteRecord(e, e, o.applied),
           UNCHANGED <<bucket, summary, executions>>, ~lostUpdate',
           (Rank(e) = Rank(record) /\ ~e.modified) => Packed /\ Executed
    PROVE  Advances
  <1>1. record \in Records /\ lostUpdate \in BOOLEAN
    BY DEF DistInv, IndInv, TypeOK
  <1>2. CASE o.applied
    <2>1. record' = Stored(record, e, e) /\ Rank(e) = Rank(record)
      BY <1>2 DEF WriteRecord
    <2>2. record' \in Records /\ Rank(record') = Rank(record)
      BY <1>1, <2>1, StoredType
    <2>3. record'.version = record.version /\ (Live(record') <=> Live(record))
          /\ record'.deleted = record.deleted
      BY <1>1, <2>2, RankIsInjective
    <2>4. record'.modified = e.modified
      BY <2>1 DEF Stored, Merge, Records
    <2> QED
      BY <2>1, <2>2, <2>3, <2>4 DEF Advances, Packed, Executed
  <1>3. CASE ~o.applied
    <2>1. record' = record
      BY <1>3 DEF WriteRecord
    <2> QED
      BY <2>1, StandsStill
  <1> QED
    BY <1>2, <1>3

\* It is written by a distributor that moves to the state s.
LEMMA WriterKeepsFlag ==
    ASSUME DistInv, DistInv', FlagInv, NEW d \in Distributors, NEW s,
           job' = [job EXCEPT ![d] = s],
           NEW e \in Records, NEW o \in Outcomes, WriteRecord(e, e, o.applied),
           UNCHANGED <<bucket, handler, summary, executions>>,
           ~lostUpdate /\ Rank(e) = Rank(record) /\ ~e.modified => Packed /\ Executed,
           ~lostUpdate /\ ~lostUpdate' /\ Advances => Faithful(d)'
    PROVE  FlagInv'
  <1>1. lostUpdate => lostUpdate'
    BY DEF WriteRecord
  <1>2. ASSUME ~lostUpdate' PROVE Advances
    BY <1>1, <1>2, ItemWritten
  <1> QED
    BY <1>1, <1>2, JobMovesFlag

-----------------------------------------------------------------------------
(* One lemma per action of a distributor.                                  *)

\* A distributor that takes a request, or has answered one, holds no item.
LEMMA ReceiveJobMoves ==
    ASSUME NEW d \in Distributors, ReceiveJob(d) \/ ReplyJob(d)
    PROVE  /\ UNCHANGED <<apiVars, summary, executions>>
           /\ \E s : /\ job' = [job EXCEPT ![d] = s] /\ ~Exists(s.seen)
                    /\ s.pc \in {"idle", "getItem"}
  <1>1. UNCHANGED <<apiVars, summary, executions>>
    BY DEF ReceiveJob, ReplyJob
  <1>2. ASSUME NEW s, job' = [job EXCEPT ![d] = s], s.pc \in {"idle", "getItem"},
               ~Exists(s.seen)
        PROVE  \E t : /\ job' = [job EXCEPT ![d] = t] /\ ~Exists(t.seen)
                     /\ t.pc \in {"idle", "getItem"}
    BY <1>2
  <1>3. CASE \E request \in Counts, bodyless \in BOOLEAN :
                job' = [job EXCEPT ![d] = [IdleJob EXCEPT !.op = "distribute",
                           !.pc = "getItem", !.todo = request, !.bodyless = bodyless]]
    <2>1. PICK request \in Counts, bodyless \in BOOLEAN :
              job' = [job EXCEPT ![d] = [IdleJob EXCEPT !.op = "distribute",
                         !.pc = "getItem", !.todo = request, !.bodyless = bodyless]]
      BY <1>3
    <2> DEFINE s == [IdleJob EXCEPT !.op = "distribute", !.pc = "getItem",
                                    !.todo = request, !.bodyless = bodyless]
    <2>2. s.pc = "getItem" /\ ~Exists(s.seen)
      BY DEF IdleJob, Exists, NoRecord
    <2> HIDE DEF s
    <2>3. job' = [job EXCEPT ![d] = s]
      BY <2>1 DEF s
    <2> QED
      BY <1>1, <1>2, <2>2, <2>3
  <1>4. CASE job' = [job EXCEPT ![d] = [IdleJob EXCEPT !.op = "status", !.pc = "getItem"]]
    <2> DEFINE s == [IdleJob EXCEPT !.op = "status", !.pc = "getItem"]
    <2>1. s.pc = "getItem" /\ ~Exists(s.seen)
      BY DEF IdleJob, Exists, NoRecord
    <2> HIDE DEF s
    <2>2. job' = [job EXCEPT ![d] = s]
      BY <1>4 DEF s
    <2> QED
      BY <1>1, <1>2, <2>1, <2>2
  <1>5. CASE job' = [job EXCEPT ![d] = IdleJob]
    <2>1. IdleJob.pc = "idle" /\ ~Exists(IdleJob.seen)
      BY DEF IdleJob, Exists, NoRecord
    <2> QED
      BY <1>1, <1>2, <1>5, <2>1
  <1> QED
    BY <1>3, <1>4, <1>5 DEF ReceiveJob, ReplyJob

LEMMA ReceiveJobFlag ==
    ASSUME DistInv, DistInv', FlagInv, NEW d \in Distributors, ReceiveJob(d) \/ ReplyJob(d)
    PROVE  FlagInv'
  <1>1. /\ UNCHANGED <<apiVars, summary, executions>>
        /\ \E s : /\ job' = [job EXCEPT ![d] = s] /\ ~Exists(s.seen)
                 /\ s.pc \in {"idle", "getItem"}
    BY ReceiveJobMoves
  <1>2. PICK s : /\ job' = [job EXCEPT ![d] = s] /\ ~Exists(s.seen)
                 /\ s.pc \in {"idle", "getItem"}
    BY <1>1
  <1>3. job'[d] = s
    BY <1>2 DEF DistInv, JobPart
  <1>4. Faithful(d)'
    BY <1>2, <1>3, NothingKnown
  <1>5. Advances
    BY <1>1, StandsStill DEF apiVars
  <1> QED
    BY <1>1, <1>2, <1>4, <1>5, JobMovesFlag DEF apiVars

\* GetBookmarkByUser, with a fresh read.
LEMMA FreshFlag ==
    ASSUME FreshReads, TypeOK, NEW r \in Snapshots
    PROVE  r.modified = record.modified /\ (Exists(r) <=> Exists(record))
  <1>1. r = updateDelayedDistributionToTimeout(record, now) /\ record \in Records
    BY DEF Snapshots, FreshReads, TypeOK
  <1>2. r.modified = record.modified /\ r.version = record.version
    BY <1>1 DEF updateDelayedDistributionToTimeout, Records
  <1> QED
    BY <1>2 DEF Exists

LEMMA GetItemFlag ==
    ASSUME FreshReads, DistInv, DistInv', FlagInv, NEW d \in Distributors,
           GetItemForDistribute(d) \/ GetItemForStatus(d)
    PROVE  FlagInv'
  <1>1. PICK r \in Snapshots :
          \/ FinishJob(d, "forbidden") \/ FinishJob(d, "notFound")
          \/ \E phase \in {"getDevices", "query"} :
                job' = [job EXCEPT ![d].seen = r, ![d].pc = phase]
    BY DEF GetItemForDistribute, GetItemForStatus, validateDistribution
  <1>2. UNCHANGED <<apiVars, summary, devices, executions>>
    BY DEF GetItemForDistribute, GetItemForStatus
  <1>3. CASE \E answer : FinishJob(d, answer)
    BY <1>2, <1>3, AnswersKeepFlag
  <1>4. ASSUME NEW phase \in {"getDevices", "query"},
               job' = [job EXCEPT ![d].seen = r, ![d].pc = phase]
        PROVE  FlagInv'
    <2> DEFINE s == [job[d] EXCEPT !.seen = r, !.pc = phase]
    <2>1. job' = [job EXCEPT ![d] = s] /\ job'[d] = s /\ job[d] \in Jobs
      BY <1>4 DEF DistInv, JobPart
    <2>2. s.seen = r /\ s.pc = phase
      BY <2>1 DEF Jobs
    <2> HIDE DEF s
    <2>3. Advances
      BY <1>2, StandsStill DEF apiVars
    <2>4. ASSUME ~lostUpdate PROVE Faithful(d)'
      <3>1. ItemPart /\ TypeOK
        BY <2>4 DEF FlagInv, FlagPart, DistInv, IndInv
      <3>2. /\ r.modified = record.modified /\ (Exists(r) <=> Exists(record))
            /\ Rank(r) = Rank(record) /\ Rank(record) \in Nat
        BY <3>1, FreshFlag, FreshSnapshot, RankType DEF TypeOK
      <3>3. /\ job'[d].seen = r /\ job'[d].pc = phase
            /\ Rank(record') = Rank(record)
        BY <2>1, <2>2, <2>3 DEF Advances
      <3>4. NotYounger(d)' /\ Known(d)'
        BY <2>3, <3>1, <3>2, <3>3 DEF NotYounger, Known, Current, ItemPart, Advances
      <3>5. OnCourse(d)'
        BY <3>3 DEF OnCourse
      <3> QED
        BY <3>4, <3>5 DEF Faithful
    <2> QED
      BY <1>2, <2>1, <2>3, <2>4, JobMovesFlag DEF apiVars
  <1> QED
    BY <1>1, <1>3, <1>4

\* A distributor turns to a phase that asks nothing of it, or goes on: it holds the item
\* that it held.
LEMMA GoesOnFlag ==
    ASSUME DistInv, DistInv', FlagInv, NEW d \in Distributors, NEW s,
           job' = [job EXCEPT ![d] = s], s.seen = job[d].seen,
           UNCHANGED <<apiVars, summary>>, executions \subseteq executions',
           ~lostUpdate /\ Faithful(d) /\ Advances /\ NotYounger(d)' /\ Known(d)'
             /\ (Current(d)' <=> Current(d)) => OnCourse(d)'
    PROVE  FlagInv'
  <1>1. job'[d] = s
    BY DEF DistInv, JobPart
  <1>2. Advances
    BY StandsStill DEF apiVars
  <1>3. ASSUME ~lostUpdate PROVE Faithful(d)'
    <2>1. Faithful(d)
      BY <1>3 DEF FlagInv, FlagPart
    <2>2. NotYounger(d)' /\ Known(d)' /\ (Current(d)' <=> Current(d))
      BY <1>1, <1>2, <2>1, StillKnown
    <2> QED
      BY <1>2, <1>3, <2>1, <2>2 DEF Faithful
  <1> QED
    BY <1>2, <1>3, JobMovesFlag DEF apiVars

\* The phases that ask nothing.
LEMMA AtEaseFlag ==
    ASSUME DistInv, DistInv', FlagInv, NEW d \in Distributors, NEW s,
           job' = [job EXCEPT ![d] = s], s.seen = job[d].seen,
           s.pc \in {"lock", "fail", "rows", "expire"},
           UNCHANGED <<apiVars, summary, executions>>
    PROVE  FlagInv'
  <1>1. job'[d] = s
    BY DEF DistInv, JobPart
  <1>2. OnCourse(d)'
    BY <1>1 DEF OnCourse
  <1> QED
    BY <1>2, GoesOnFlag

LEMMA ValidateDevicesFlag ==
    ASSUME DistInv, DistInv', FlagInv, NEW d \in Distributors, validateDevices(d)
    PROVE  FlagInv'
  <1>1. UNCHANGED <<apiVars, summary, devices, executions>>
    BY DEF validateDevices
  <1>2. CASE FinishJob(d, "badRequest")
    BY <1>1, <1>2, AnswersKeepFlag
  <1>3. ASSUME NEW todo, job' = [job EXCEPT ![d].pc = "lock", ![d].todo = todo]
        PROVE  FlagInv'
    <2> DEFINE s == [job[d] EXCEPT !.pc = "lock", !.todo = todo]
    <2>1. job[d] \in Jobs /\ job' = [job EXCEPT ![d] = s]
      BY <1>3 DEF DistInv, JobPart
    <2>2. s.seen = job[d].seen /\ s.pc = "lock"
      BY <2>1 DEF Jobs
    <2> HIDE DEF s
    <2> QED
      BY <1>1, <2>1, <2>2, AtEaseFlag
  <1>4. FinishJob(d, "badRequest")
        \/ \E todo : job' = [job EXCEPT ![d].pc = "lock", ![d].todo = todo]
    BY DEF validateDevices
  <1> QED
    BY <1>2, <1>3, <1>4

LEMMA LockFlag ==
    ASSUME DistInv, DistInv', FlagInv, NEW d \in Distributors, Lock(d)
    PROVE  FlagInv'
  <1> DEFINE locked == StatusUpdate(job[d].seen, "BookmarksLocked")
  <1>1. /\ job[d] \in Jobs /\ Exists(job[d].seen) /\ job[d].seen \in Records
    BY JobFields DEF Lock, JobAt, Ready, AfterGetItem, JobPhases
  <1>2. PICK o \in Outcomes :
          /\ WriteRecord(locked, locked, o.applied)
          /\ job' = [job EXCEPT ![d] =
                IF o.ok THEN AfterLock([job[d] EXCEPT !.seen = locked])
                        ELSE Done(job[d], "error")]
    BY DEF Lock
  <1>3. /\ locked \in Records /\ Rank(locked) = Rank(job[d].seen)
        /\ locked.version = job[d].seen.version /\ locked.deleted = job[d].seen.deleted
    BY <1>1, StatusUpdateType DEF DistInv, IndInv
  <1>4. locked.modified = job[d].seen.modified
    BY <1>1 DEF StatusUpdate, Records
  <1>5. ~lostUpdate => Faithful(d)
    BY DEF FlagInv, FlagPart
  <1>6. ~lostUpdate /\ Rank(locked) = Rank(record) /\ ~locked.modified => Packed /\ Executed
    BY <1>1, <1>3, <1>4, <1>5 DEF Faithful, Known, Current
  <1> DEFINE t == AfterLock([job[d] EXCEPT !.seen = locked])
  <1>7. t.seen = locked /\ t.pc = (IF locked.deleted THEN "addJobs" ELSE "getObject")
    BY <1>1 DEF AfterLock, Jobs
  <1> HIDE DEF t, locked
  <1>8. CASE ~o.ok
    BY <1>2, <1>3, <1>6, <1>8, DoneHoldsNothing, WriterKeepsFlag DEF Lock
  <1>9. CASE o.ok
    <2>1. job' = [job EXCEPT ![d] = t] /\ job'[d] = t
      BY <1>2, <1>9 DEF t, DistInv, JobPart
    <2>2. ASSUME ~lostUpdate, Advances PROVE Faithful(d)'
      <3>1. NotYounger(d)' /\ Known(d)' /\ (Current(d)' <=> Current(d))
        BY <1>1, <1>3, <1>4, <1>5, <1>7, <2>1, <2>2, StillKnown DEF Exists
      <3>2. Current(d)' => record'.deleted = locked.deleted
        <4>1. record' \in Records
          BY DEF DistInv, IndInv, TypeOK
        <4> QED
          BY <1>3, <1>7, <2>1, <4>1, RankIsInjective DEF Current
      <3>3. OnCourse(d)'
        BY <1>7, <2>1, <3>2 DEF OnCourse, Packed, Live
      <3> QED
        BY <3>1, <3>3 DEF Faithful
    <2> QED
      BY <1>2, <1>3, <1>6, <2>1, <2>2, WriterKeepsFlag DEF Lock
  <1> QED
    BY <1>8, <1>9

\* The list that is read is that of the item, as long as the item is the one it saw.
LEMMA GetObjectFlag ==
    ASSUME DistInv, DistInv', FlagInv, NEW d \in Distributors,
           GetObjectForPackage(d) \/ GetObjectForPackageFails(d)
    PROVE  FlagInv'
  <1>1. /\ job[d].pc = "getObject" /\ job[d] \in Jobs /\ job[d].seen \in Records
        /\ UNCHANGED <<apiVars, summary, devices, executions>>
    BY JobFields DEF GetObjectForPackage, GetObjectForPackageFails, JobAt
  <1>2. CASE GetObjectForPackageFails(d)
    <2> DEFINE s == [job[d] EXCEPT !.pc = "fail"]
    <2>1. job' = [job EXCEPT ![d] = s] /\ s.pc = "fail" /\ s.seen = job[d].seen
      BY <1>1, <1>2 DEF GetObjectForPackageFails, Enter, DistInv, JobPart, Jobs
    <2> HIDE DEF s
    <2> QED
      BY <1>1, <2>1, AtEaseFlag
  <1>3. CASE GetObjectForPackage(d)
    <2> DEFINE list == bucket[job[d].seen.version]
               s == [job[d] EXCEPT !.list = list, !.pc = "putPackage"]
    <2>1. job' = [job EXCEPT ![d] = s] /\ job'[d] = s
      BY <1>1, <1>3 DEF GetObjectForPackage, DistInv, JobPart
    <2>2. s.pc = "putPackage" /\ s.seen = job[d].seen /\ s.list = list
      BY <1>1 DEF Jobs
    <2> HIDE DEF s
    <2>3. ASSUME Faithful(d), Advances, Current(d)' <=> Current(d) PROVE OnCourse(d)'
      <3>1. Current(d) => job[d].seen.version = record.version
        BY <1>1, RankIsInjective DEF Current, DistInv, IndInv, TypeOK
      <3>2. record' = record /\ bucket' = bucket
        BY <1>1 DEF apiVars
      <3>3. ~job[d].seen.deleted
        BY <1>1, <2>3 DEF Faithful, OnCourse
      <3> QED
        BY <2>1, <2>2, <2>3, <3>1, <3>2, <3>3 DEF OnCourse
    <2> QED
      BY <1>1, <2>1, <2>2, <2>3, GoesOnFlag
  <1> QED
    BY <1>2, <1>3

\* A package replaces that of the version it was made for.
LEMMA PackageWritten ==
    ASSUME DistInv, FlagInv, ~lostUpdate, NEW d \in Distributors, job[d].pc = "putPackage",
           NEW o \in Outcomes, UNCHANGED <<apiVars, executions>>,
           summary' = IF o.applied
                        THEN [summary EXCEPT ![job[d].seen.version] =
                                 job[d].list \intersect ValidUrls]
                        ELSE summary
    PROVE  Advances /\ (o.ok /\ Current(d) => Packed')
  <1> DEFINE seen == job[d].seen
             package == job[d].list \intersect ValidUrls
  <1>1. /\ seen \in Records /\ Exists(seen) /\ seen.version \in Versions
        /\ record \in Records /\ summary \in [Versions -> {NoObject} \union Lists]
    BY JobFields DEF DistInv, IndInv, TypeOK, StorePart, Ready, AfterGetItem, JobPhases
  <1>2. Faithful(d) /\ ~seen.deleted
    BY DEF FlagInv, FlagPart, Faithful, OnCourse
  <1>3. ASSUME Live(record), record.version = seen.version
        PROVE  Current(d) /\ package = bucket[record.version]
    <2>1. Rank(seen) = Rank(record)
      BY <1>2, <1>3 DEF Rank, Live
    <2>2. Current(d) /\ job[d].list = bucket[record.version]
      BY <1>1, <1>2, <2>1 DEF Current, Faithful, OnCourse
    <2>3. bucket[record.version] # NoObject
      BY <1>3 DEF DistInv, IndInv, Consistent, Backed
    <2>4. job[d].list \subseteq ValidUrls
      BY <1>1, <1>3, <2>2, <2>3 DEF FlagInv, ValidPart, ValidLists
    <2> QED
      BY <2>2, <2>4
  <1>4. ASSUME Live(record), record.version = seen.version, o.applied
        PROVE  summary'[record.version] = bucket[record.version]
    BY <1>1, <1>3, <1>4
  <1>5. ASSUME Live(record), record.version # seen.version \/ ~o.applied
        PROVE  summary'[record.version] = summary[record.version]
    BY <1>1, <1>5 DEF Live, Exists, Records
  <1>6. record' = record /\ bucket' = bucket
    BY DEF apiVars
  <1>7. Packed => Packed'
    BY <1>4, <1>5, <1>6 DEF Packed
  <1>8. ASSUME o.ok, Current(d) PROVE Packed'
    <2>1. record.version = seen.version
      BY <1>1, <1>8, RankIsInjective DEF Current
    <2> QED
      BY <1>4, <1>6, <1>8, <2>1, OutcomesType DEF Packed
  <1>9. Advances
    BY <1>6, <1>7 DEF Advances, Executed
  <1> QED
    BY <1>8, <1>9

LEMMA PutPackageFlag ==
    ASSUME DistInv, DistInv', FlagInv, NEW d \in Distributors, PutPackage(d)
    PROVE  FlagInv'
  <1> DEFINE package == job[d].list \intersect ValidUrls
  <1>1. PICK o \in Outcomes :
          /\ summary' = IF o.applied THEN [summary EXCEPT ![job[d].seen.version] = package]
                                     ELSE summary
          /\ job' = [job EXCEPT ![d] = AfterPackage([job[d] EXCEPT !.list = package], o.ok)]
    BY DEF PutPackage
  <1>2. job[d].pc = "putPackage" /\ job[d] \in Jobs /\ UNCHANGED <<apiVars, executions>>
    BY JobFields DEF PutPackage, JobAt
  <1> DEFINE s == AfterPackage([job[d] EXCEPT !.list = package], o.ok)
  <1>3. s.seen = job[d].seen /\ s.pc = (IF o.ok THEN "addJobs" ELSE "fail")
    BY <1>2 DEF AfterPackage, Jobs
  <1>4. job' = [job EXCEPT ![d] = s] /\ job'[d] = s
    BY <1>1, <1>2 DEF DistInv, JobPart
  <1> HIDE DEF s
  <1>5. ASSUME ~lostUpdate PROVE Advances /\ Faithful(d)'
    <2>1. Advances /\ (o.ok /\ Current(d) => Packed')
      BY <1>1, <1>2, <1>5, PackageWritten
    <2>2. Faithful(d)
      BY <1>5 DEF FlagInv, FlagPart
    <2>3. NotYounger(d)' /\ Known(d)' /\ (Current(d)' <=> Current(d))
      BY <1>3, <1>4, <2>1, <2>2, StillKnown
    <2>4. OnCourse(d)'
      BY <1>3, <1>4, <2>1, <2>3 DEF OnCourse
    <2> QED
      BY <2>1, <2>3, <2>4 DEF Faithful
  <1> QED
    BY <1>2, <1>4, <1>5, JobMovesFlag DEF apiVars

DeviceLoop(d, s) ==
    /\ job[d].pc \in {"addJobs", "addRecord", "startExecution"}
    /\ job' = [job EXCEPT ![d] = s] /\ s.seen = job[d].seen
    /\ s.pc \in {"addRecord", "startExecution", "fail", "final"}
    /\ s.pc = "final" /\ Current(d) => Executed'

\* Past the package, a distributor goes on to the next phase but the last.
LEMMA DeviceLoopFlag ==
    ASSUME DistInv, DistInv', FlagInv, NEW d \in Distributors, NEW s, DeviceLoop(d, s),
           UNCHANGED <<apiVars, summary>>, executions \subseteq executions'
    PROVE  FlagInv'
  <1>1. job'[d] = s
    BY DEF DeviceLoop, DistInv, JobPart
  <1>2. ASSUME Faithful(d), Advances, Current(d)' <=> Current(d) PROVE OnCourse(d)'
    BY <1>1, <1>2 DEF DeviceLoop, Faithful, OnCourse, Advances
  <1> QED
    BY <1>2, GoesOnFlag DEF DeviceLoop

LEMMA AddJobsFlag ==
    ASSUME DistInv, DistInv', FlagInv, NEW d \in Distributors, addDistributionJobs(d)
    PROVE  FlagInv'
  <1> DEFINE s == [job[d] EXCEPT !.start = now, !.pc = "addRecord"]
  <1>1. job[d].pc = "addJobs" /\ job[d] \in Jobs
    BY JobFields DEF addDistributionJobs, JobAt
  <1>2. s.pc = "addRecord" /\ s.seen = job[d].seen /\ job' = [job EXCEPT ![d] = s]
    BY <1>1 DEF addDistributionJobs, DistInv, JobPart, Jobs
  <1> HIDE DEF s
  <1>3. DeviceLoop(d, s)
    BY <1>1, <1>2 DEF DeviceLoop
  <1> QED
    BY <1>3, DeviceLoopFlag DEF addDistributionJobs

LEMMA AddRecordFlag ==
    ASSUME DistInv, DistInv', FlagInv, NEW d \in Distributors, AddDeviceRecord(d)
    PROVE  FlagInv'
  <1>1. job[d].pc = "addRecord" /\ job[d] \in Jobs
    BY JobFields DEF AddDeviceRecord, JobAt
  <1>2. PICK dev \in Devices, o \in Outcomes :
          job' = [job EXCEPT ![d] = AfterRow(job[d], dev, o.ok)]
    BY DEF AddDeviceRecord
  <1> DEFINE s == AfterRow(job[d], dev, o.ok)
  <1>3. s.seen = job[d].seen /\ s.pc \in {"startExecution", "fail"}
    BY <1>1 DEF AfterRow, Jobs
  <1> HIDE DEF s
  <1>4. job' = [job EXCEPT ![d] = s]
    BY <1>2 DEF s
  <1>5. DeviceLoop(d, s)
    BY <1>1, <1>3, <1>4 DEF DeviceLoop
  <1> QED
    BY <1>5, DeviceLoopFlag DEF AddDeviceRecord

\* The last execution is given the item that the distributor saw.
LEMMA StartExecutionFlag ==
    ASSUME DistInv, DistInv', FlagInv, NEW d \in Distributors, StartExecution(d)
    PROVE  FlagInv'
  <1> DEFINE left == [job[d].todo EXCEPT ![job[d].device] = @ - 1]
             next(ok) == IF ~ok THEN [job[d] EXCEPT !.pc = "fail"]
                         ELSE [job[d] EXCEPT !.todo = left, !.device = "none",
                                  !.pc = IF left = NoDevices THEN "final" ELSE "addRecord"]
  <1>1. /\ job[d].pc = "startExecution" /\ job[d] \in Jobs /\ job[d].seen \in Records
        /\ UNCHANGED <<apiVars, summary>>
    BY JobFields DEF StartExecution, JobAt
  <1>2. PICK o \in Outcomes :
          /\ executions' = IF o.applied THEN executions \union {InputOf(job[d])} ELSE executions
          /\ job' = [job EXCEPT ![d] = next(o.ok)]
    BY DEF StartExecution
  <1> HIDE DEF left
  <1>3. /\ next(o.ok).seen = job[d].seen
        /\ next(o.ok).pc \in {"fail", "final", "addRecord"}
        /\ next(o.ok).pc = "final" => o.ok
    BY <1>1 DEF Jobs
  <1>4. ASSUME Current(d), o.ok PROVE Executed'
    <2>1. job[d].seen.version = record.version /\ job[d].seen.deleted = record.deleted
      BY <1>1, <1>4, RankIsInjective DEF Current, DistInv, IndInv, TypeOK
    <2>2. InputOf(job[d]) \in executions' /\ record' = record
      BY <1>1, <1>2, <1>4, OutcomesType DEF apiVars
    <2>3. InputOf(job[d]).version = record.version /\ InputOf(job[d]).deleted = record.deleted
      BY <2>1 DEF InputOf
    <2> QED
      BY <2>2, <2>3 DEF Executed
  <1>5. executions \subseteq executions'
    BY <1>2
  <1> HIDE DEF next
  <1>6. DeviceLoop(d, next(o.ok))
    BY <1>1, <1>2, <1>3, <1>4 DEF DeviceLoop
  <1> QED
    BY <1>1, <1>5, <1>6, DeviceLoopFlag

\* The flag is cleared on an item that was packed and given to an execution, or on
\* one that the distributor never saw.
LEMMA EndJobsFlag ==
    ASSUME DistInv, DistInv', FlagInv, NEW d \in Distributors, EndJobs(d)
    PROVE  FlagInv'
  <1> DEFINE e == Distributed(job[d])
             s == [job[d] EXCEPT !.seen = e]
             fail == [s EXCEPT !.pc = "fail"]
  <1>1. /\ job[d] \in Jobs /\ job[d].pc = "final"
        /\ job[d].seen \in Records /\ Exists(job[d].seen)
    BY JobFields DEF EndJobs, JobAt, Ready, AfterGetItem, JobPhases
  <1>2. /\ e \in Records /\ e.version = job[d].seen.version
        /\ Rank(e) = Rank(job[d].seen)
    <2>1. e \in Records /\ e.version = job[d].seen.version /\ e.deleted = job[d].seen.deleted
      BY <1>1 DEF Distributed, Jobs, Records, Statuses
    <2> QED
      BY <2>1 DEF Rank
  <1>3. s.seen = e /\ fail.seen = e /\ fail.pc = "fail"
    BY <1>1 DEF Jobs
  <1>4. PICK o \in Outcomes :
          /\ WriteRecord(s.seen, s.seen, o.applied)
          /\ job' = [job EXCEPT ![d] = IF o.ok THEN Done(s, "ok") ELSE [s EXCEPT !.pc = "fail"]]
    BY DEF EndJobs
  <1>5. WriteRecord(e, e, o.applied)
    BY <1>3, <1>4
  <1>6. ~lostUpdate => Faithful(d)
    BY DEF FlagInv, FlagPart
  <1>7. ~lostUpdate /\ Current(d) => Packed /\ Executed
    BY <1>1, <1>6 DEF Faithful, OnCourse
  <1>8. ~lostUpdate /\ Rank(e) = Rank(record) /\ ~e.modified => Packed /\ Executed
    BY <1>1, <1>2, <1>7 DEF Current
  <1>9. UNCHANGED <<bucket, handler, summary, executions>>
    BY DEF EndJobs
  <1> HIDE DEF e, s, fail
  <1>10. CASE o.ok
    <2>1. job' = [job EXCEPT ![d] = Done(s, "ok")]
      BY <1>4, <1>10
    <2> QED
      BY <1>2, <1>5, <1>8, <1>9, <2>1, DoneHoldsNothing, WriterKeepsFlag
  <1>11. CASE ~o.ok
    <2>1. job' = [job EXCEPT ![d] = fail] /\ job'[d] = fail
      BY <1>4, <1>11 DEF fail, DistInv, JobPart
    <2>2. ASSUME ~lostUpdate, Advances PROVE Faithful(d)'
      <3>1. NotYounger(d)' /\ Known(d)'
        BY <1>1, <1>2, <1>3, <1>6, <1>7, <2>1, <2>2, StillKnown DEF Exists
      <3>2. OnCourse(d)'
        BY <1>3, <2>1 DEF OnCourse
      <3> QED
        BY <3>1, <3>2 DEF Faithful
    <2> QED
      BY <1>2, <1>5, <1>8, <1>9, <2>1, <2>2, WriterKeepsFlag
  <1> QED
    BY <1>10, <1>11

LEMMA FailJobFlag ==
    ASSUME DistInv, DistInv', FlagInv, NEW d \in Distributors, FailJob(d)
    PROVE  FlagInv'
  <1> DEFINE failed == StatusUpdate(job[d].seen, "Failed")
  <1>1. /\ job[d] \in Jobs /\ Exists(job[d].seen) /\ job[d].seen \in Records
    BY JobFields DEF FailJob, JobAt, Ready, AfterGetItem, JobPhases
  <1>2. failed \in Records /\ Rank(failed) = Rank(job[d].seen)
    BY <1>1, StatusUpdateType DEF DistInv, IndInv
  <1>3. failed.modified = job[d].seen.modified
    BY <1>1 DEF StatusUpdate, Records
  <1>4. ~lostUpdate /\ Rank(failed) = Rank(record) /\ ~failed.modified => Packed /\ Executed
    BY <1>1, <1>2, <1>3 DEF FlagInv, FlagPart, Faithful, Known, Current
  <1>5. PICK o \in Outcomes : WriteRecord(failed, failed, o.applied)
    BY DEF FailJob
  <1>6. job' = [job EXCEPT ![d] = Done(job[d], "error")]
    BY DEF FailJob, FinishJob
  <1>7. Faithful(d)'
    BY <1>6, DoneHoldsNothing
  <1>8. UNCHANGED <<bucket, handler, summary, executions>>
    BY DEF FailJob
  <1> HIDE DEF failed
  <1> QED
    BY <1>2, <1>4, <1>5, <1>6, <1>7, <1>8, WriterKeepsFlag

LEMMA ExpireFlag ==
    ASSUME DistInv, DistInv', FlagInv, NEW d \in Distributors, ExpireDistribution(d)
    PROVE  FlagInv'
  <1> DEFINE e == job[d].seen
  <1>1. e \in Records /\ Exists(e)
    BY JobFields DEF ExpireDistribution, JobAt, Ready, AfterGetItem, JobPhases
  <1>2. ~lostUpdate /\ Rank(e) = Rank(record) /\ ~e.modified => Packed /\ Executed
    BY <1>1 DEF FlagInv, FlagPart, Faithful, Known, Current
  <1>3. job' = [job EXCEPT ![d] = Done(job[d], "ok")]
    BY DEF ExpireDistribution, FinishJob
  <1>4. Faithful(d)'
    BY <1>3, DoneHoldsNothing
  <1>5. UNCHANGED <<bucket, handler, summary, executions>>
    BY DEF ExpireDistribution
  <1>6. CASE \E o \in Outcomes : WriteRecord(e, e, o.applied)
    <2>1. PICK o \in Outcomes : WriteRecord(e, e, o.applied)
      BY <1>6
    <2> HIDE DEF e
    <2> QED
      BY <1>1, <1>2, <1>3, <1>4, <1>5, <2>1, WriterKeepsFlag
  <1>7. CASE UNCHANGED <<record, lostUpdate>>
    <2>1. Advances
      BY <1>5, <1>7, StandsStill
    <2> QED
      BY <1>3, <1>4, <1>5, <1>7, <2>1, JobMovesFlag
  <1> QED
    BY <1>6, <1>7 DEF ExpireDistribution

LEMMA QueryFlag ==
    ASSUME DistInv, DistInv', FlagInv, NEW d \in Distributors, QueryDevices(d)
    PROVE  FlagInv'
  <1>1. UNCHANGED <<apiVars, summary, devices, executions>> /\ job[d] \in Jobs
    BY JobFields DEF QueryDevices
  <1>2. CASE FinishJob(d, "notFound") \/ FinishJob(d, "error")
    BY <1>1, <1>2, AnswersKeepFlag
  <1>3. ASSUME NEW todo, job' = [job EXCEPT ![d].pc = "rows", ![d].rows = devices,
                                            ![d].todo = todo]
        PROVE  FlagInv'
    <2> DEFINE s == [job[d] EXCEPT !.pc = "rows", !.rows = devices, !.todo = todo]
    <2>1. s.seen = job[d].seen /\ s.pc = "rows"
      BY <1>1 DEF Jobs
    <2>2. job' = [job EXCEPT ![d] = s]
      BY <1>1, <1>3 DEF Jobs, DistInv, JobPart
    <2> HIDE DEF s
    <2> QED
      BY <1>1, <2>1, <2>2, AtEaseFlag
  <1>4. \/ FinishJob(d, "notFound") \/ FinishJob(d, "error")
        \/ \E todo : job' = [job EXCEPT ![d].pc = "rows", ![d].rows = devices, ![d].todo = todo]
    BY DEF QueryDevices
  <1> QED
    BY <1>2, <1>3, <1>4

\* After a row, the loop goes on or ends.
LEMMA RowOfLoopMoves ==
    ASSUME DistInv, NEW d \in Distributors, updateDelayedApplainceDistributionToTimeout(d)
    PROVE  /\ UNCHANGED <<apiVars, summary, executions>>
           /\ \E s : /\ job' = [job EXCEPT ![d] = s] /\ s.seen = job[d].seen
                    /\ s.pc \in {"expire", "rows"}
  <1>1. UNCHANGED <<apiVars, summary, executions>> /\ job[d] \in Jobs
    BY JobFields DEF updateDelayedApplainceDistributionToTimeout
  <1> DEFINE s(todo, expired, rows, phase) ==
                [job[d] EXCEPT !.todo = todo, !.expired = expired, !.rows = rows, !.pc = phase]
  <1>2. \E todo, expired, rows : \E phase \in {"expire", "rows"} :
           job' = [job EXCEPT ![d] = s(todo, expired, rows, phase)]
    <2>1. job \in [Distributors -> Jobs]
      BY DEF DistInv, JobPart
    <2>2. PICK dev \in Devices : \E expired :
            LET left == [job[d].todo EXCEPT ![dev] = 0]
            IN  job' = [job EXCEPT ![d].todo = left, ![d].expired = @ \/ expired,
                                   ![d].rows[dev] = NoRow,
                                   ![d].pc = IF left = NoDevices THEN "expire" ELSE "rows"]
      BY DEF updateDelayedApplainceDistributionToTimeout
    <2> DEFINE left == [job[d].todo EXCEPT ![dev] = 0]
    <2>3. PICK expired :
            job' = [job EXCEPT ![d].todo = left, ![d].expired = @ \/ expired,
                               ![d].rows[dev] = NoRow,
                               ![d].pc = IF left = NoDevices THEN "expire" ELSE "rows"]
      BY <2>2
    <2> DEFINE was  == job[d].expired
               rest == [job[d].rows EXCEPT ![dev] = NoRow]
               phase == IF left = NoDevices THEN "expire" ELSE "rows"
    <2>4. job' = [job EXCEPT ![d] = s(left, was \/ expired, rest, phase)]
      <3> HIDE DEF left
      <3> QED
        BY <2>1, <2>3 DEF Jobs, left
    <2>5. phase \in {"expire", "rows"}
      OBVIOUS
    <2> HIDE DEF left, rest, was, s, phase
    <2> QED
      BY <2>4, <2>5
  <1>3. PICK todo, expired, rows : \E phase \in {"expire", "rows"} :
           job' = [job EXCEPT ![d] = s(todo, expired, rows, phase)]
    BY <1>2
  <1>4. PICK phase \in {"expire", "rows"} :
           job' = [job EXCEPT ![d] = s(todo, expired, rows, phase)]
    BY <1>3
  <1> DEFINE t == s(todo, expired, rows, phase)
  <1>5. t.seen = job[d].seen /\ t.pc = phase
    BY <1>1 DEF Jobs
  <1>6. job' = [job EXCEPT ![d] = t]
    BY <1>4
  <1> HIDE DEF t
  <1> QED
    BY <1>1, <1>5, <1>6

LEMMA RowOfLoopFlag ==
    ASSUME DistInv, DistInv', FlagInv, NEW d \in Distributors,
           updateDelayedApplainceDistributionToTimeout(d)
    PROVE  FlagInv'
  BY RowOfLoopMoves, AtEaseFlag

LEMMA JobDiesFlag ==
    ASSUME DistInv, DistInv', FlagInv, NEW d \in Distributors, JobClientFails(d) \/ KillJob(d)
    PROVE  FlagInv'
  <1>1. UNCHANGED <<apiVars, summary, devices, executions>> /\ job[d] \in Jobs
    BY JobFields DEF JobClientFails, KillJob
  <1>2. CASE FinishJob(d, "error")
    BY <1>1, <1>2, AnswersKeepFlag
  <1>3. CASE Enter(d, "fail")
    <2> DEFINE s == [job[d] EXCEPT !.pc = "fail"]
    <2>1. job' = [job EXCEPT ![d] = s] /\ s.pc = "fail" /\ s.seen = job[d].seen
      BY <1>1, <1>3 DEF Enter, DistInv, JobPart, Jobs
    <2> HIDE DEF s
    <2> QED
      BY <1>1, <2>1, AtEaseFlag
  <1>4. CASE KillJob(d)
    <2> DEFINE s == Done([job[d] EXCEPT !.bodyless = FALSE], "error")
    <2>1. job' = [job EXCEPT ![d] = s]
      BY <1>4 DEF KillJob
    <2>2. Faithful(d)'
      BY <2>1, DoneHoldsNothing
    <2>3. Advances
      BY <1>1, StandsStill DEF apiVars
    <2> HIDE DEF s
    <2> QED
      BY <1>1, <2>1, <2>2, <2>3, JobMovesFlag DEF apiVars
  <1> QED
    BY <1>2, <1>3, <1>4 DEF JobClientFails

-----------------------------------------------------------------------------
(* The environment, and every step.                                        *)

\* No distributor moves, and the item keeps its version and its flag.
LEMMA NobodyMoves ==
    ASSUME DistInv, DistInv', FlagInv, UNCHANGED <<bucket, handler, lostUpdate, job>>, Advances
    PROVE  FlagInv'
  <1>1. ValidPart'
    BY DEF FlagInv, ValidPart, ValidLists, ValidInHand
  <1>2. SUFFICES ASSUME ~lostUpdate' PROVE ShelfInv' /\ FlagPart'
    BY <1>1 DEF FlagInv
  <1>3. ShelfInv /\ FlagPart
    BY <1>2 DEF FlagInv
  <1>4. ShelfInv' /\ ItemPart'
    BY <1>2, <1>3, SameItem, SameItemKeepsShelf DEF Advances, FlagPart, ItemPart
  <1>5. ASSUME NEW d \in Distributors PROVE Faithful(d)'
    BY <1>3, OthersStayFaithful DEF FlagPart
  <1> QED
    BY <1>4, <1>5 DEF FlagPart

LEMMA DistNextFlag ==
    ASSUME OneWriter, FreshReads, DistInv, FlagInv, [DistNext]_vars
    PROVE  FlagInv'
  <1>1. DistInv'
    BY DistNextKeeps
  <1>2. CASE Next /\ UNCHANGED distVars
    BY <1>2, RoutesKeepFlag
  <1>3. ASSUME NEW d \in Distributors, JobStep(d) PROVE FlagInv'
    <2>1. CASE ReceiveJob(d) \/ ReplyJob(d) \/ GetItemForDistribute(d) \/ GetItemForStatus(d)
      BY <1>1, <2>1, ReceiveJobFlag, GetItemFlag
    <2>2. CASE validateDevices(d) \/ Lock(d) \/ GetObjectForPackage(d)
                 \/ GetObjectForPackageFails(d) \/ PutPackage(d)
      BY <1>1, <2>2, ValidateDevicesFlag, LockFlag, GetObjectFlag, PutPackageFlag
    <2>3. CASE addDistributionJobs(d) \/ AddDeviceRecord(d) \/ StartExecution(d) \/ EndJobs(d)
      BY <1>1, <2>3, AddJobsFlag, AddRecordFlag, StartExecutionFlag, EndJobsFlag
    <2>4. CASE FailJob(d) \/ ExpireDistribution(d) \/ QueryDevices(d)
                 \/ updateDelayedApplainceDistributionToTimeout(d)
                 \/ JobClientFails(d) \/ KillJob(d)
      BY <1>1, <2>4, FailJobFlag, ExpireFlag, QueryFlag, RowOfLoopFlag, JobDiesFlag
    <2> QED
      BY <1>3, <2>1, <2>2, <2>3, <2>4 DEF JobStep
  <1>4. CASE \E dev \in Devices : DeviceReports(dev)
    <2>1. UNCHANGED <<apiVars, summary, executions, job>>
      BY <1>4 DEF DeviceReports
    <2>2. Advances
      BY <2>1, StandsStill DEF apiVars
    <2> QED
      BY <1>1, <2>1, <2>2, NobodyMoves DEF apiVars
  <1>5. CASE DistributionEnds
    <2>1. /\ UNCHANGED <<bucket, handler, lostUpdate, job, summary, executions>>
          /\ record \in Records
      BY <1>5 DEF DistributionEnds, distVars, DistInv, IndInv, TypeOK
    <2>2. PICK status : record' = [record EXCEPT !.status = status, !.ended = TRUE]
      BY <1>5 DEF DistributionEnds
    <2>3. /\ record'.version = record.version /\ record'.deleted = record.deleted
          /\ record'.modified = record.modified
      BY <2>1, <2>2 DEF Records
    <2>4. Advances
      BY <2>1, <2>3 DEF Advances, Rank, Packed, Executed, Live, Exists
    <2> QED
      BY <1>1, <2>1, <2>4, NobodyMoves
  <1>6. CASE UNCHANGED vars
    <2>1. UNCHANGED <<record, bucket, summary, executions, handler, lostUpdate, job>>
      BY <1>6 DEF vars, apiVars, distVars
    <2>2. Advances
      BY <2>1, StandsStill
    <2> QED
      BY <1>1, <2>1, <2>2, NobodyMoves
  <1> QED
    BY <1>2, <1>3, <1>4, <1>5, <1>6 DEF DistNext

LEMMA DistInitFlag == DistInit => FlagInv
  <1> SUFFICES ASSUME DistInit PROVE FlagInv
    OBVIOUS
  <1>1. /\ record = NoRecord /\ bucket = [v \in Versions |-> NoObject]
        /\ handler = [h \in Handlers |-> Idle] /\ job = [d \in Distributors |-> IdleJob]
    BY DEF DistInit, InitDistributions, InitEmpty, InitLocal
  <1>2. ShelfInv
    BY InitSound DEF DistInit, Init
  <1>3. ValidPart
    BY <1>1 DEF ValidPart, ValidLists, ValidInHand, Idle
  <1>4. ItemPart
    BY <1>1 DEF ItemPart, Exists, NoRecord
  <1>5. ASSUME NEW d \in Distributors PROVE Faithful(d)
    <2>1. job[d].pc = "idle" /\ ~Exists(job[d].seen)
      BY <1>1 DEF IdleJob, Exists, NoRecord
    <2> QED
      BY <2>1 DEF Faithful, NotYounger, Known, OnCourse, Current
  <1> QED
    BY <1>2, <1>3, <1>4, <1>5 DEF FlagInv, FlagPart

-----------------------------------------------------------------------------
\* modifiedBookmarks is cleared only for what was distributed, and set before the
\* list changes again: with one handler that writes, reads of the item that are fresh
\* and do not fail, any number of distributions and status requests at once, writes
\* that fail with or without effect and invocations that die.  It says nothing from
\* the moment an item is written over one its writer never saw, as the last update of
\* a distribution does to a PUT that came between: see ClearedListsWerePackaged.
THEOREM ClearedMeansDistributed ==
    ASSUME OneWriter, FreshReads
    PROVE  DistSpec => []UnmodifiedMeansDistributed
  <1>1. DistInv /\ FlagInv /\ [DistNext]_vars => FlagInv'
    BY DistNextFlag
  <1>2. FlagInv => UnmodifiedMeansDistributed
    BY DEF FlagInv, FlagPart, ItemPart, Packed, Executed, UnmodifiedMeansDistributed
  <1> QED
    BY <1>1, <1>2, DistInitFlag, DistInvariance, PTL DEF DistSpec

-----------------------------------------------------------------------------
(* The flag without regard to lost updates, for one distribution at a time *)
(* beside one writer: the inductive invariant.                             *)

\* The version v has a package, and its list is that one or is gone.
Shelved(v, p, b) == p[v] # NoObject /\ b[v] \in {NoObject, p[v]}

\* An execution was given the version of r.
Given(r, x) == \E e \in x : e.version = r.version /\ e.deleted = r.deleted

\* If r is not marked as modified, its list was packaged and distributed.
Earned(r, p, b, x) ==
    (Exists(r) /\ ~r.modified) =>
        (Live(r) => Shelved(r.version, p, b)) /\ Given(r, x)

\* On its way to clear the flag, the job s has read the list, packed it and started an
\* execution.
Shown(s, p, b, x) ==
    /\ s.pc \in {"getObject", "putPackage"} => ~s.seen.deleted
    /\ s.pc = "putPackage" => /\ s.list # NoObject /\ s.list \subseteq ValidUrls
                              /\ b[s.seen.version] \in {NoObject, s.list}
    /\ (s.pc \in {"addJobs", "addRecord", "startExecution", "final"} /\ Live(s.seen))
          => Shelved(s.seen.version, p, b)
    /\ s.pc = "final" => Given(s.seen, x)

\* The item it holds is not younger than r, and earned its flag.
Holding(s, r, p, b, x) ==
    /\ Exists(s.seen) => Rank(s.seen) <= Rank(r)
    /\ Earned(s.seen, p, b, x)
    /\ Shown(s, p, b, x)

\* A writer that has not written the item yet saw one that is not older than r.
InTurn(s, r) ==
    (s.pc \in {"getObject", "putObject", "commit"} /\ s.op \in Writes)
        => Rank(r) <= Rank(s.seen)

Served == \A h \in Handlers : handler[h].pc # "idle" => handler[h].op \in Serves[h]
Turns  == Served /\ \A h \in Handlers : InTurn(handler[h], record)

PackPart ==
    /\ Earned(record, summary, bucket, executions)
    /\ \A d \in Distributors : Holding(job[d], record, summary, bucket, executions)

PackInv == ValidPart /\ Turns /\ PackPart

-----------------------------------------------------------------------------
(* What outlives a step.                                                   *)

LEMMA RankOrdersVersions ==
    ASSUME NEW r \in Records, NEW q \in Records, Rank(r) <= Rank(q)
    PROVE  r.version <= q.version /\ r.version \in Nat /\ q.version \in Nat
  <1>1. r.version \in Nat /\ q.version \in Nat
    BY DEF Records, Versions
  <1> QED
    BY <1>1 DEF Rank

LEMMA EarnedKept ==
    ASSUME NEW r, NEW p, NEW b, NEW x, NEW p2, NEW b2, NEW x2, Earned(r, p, b, x), x \subseteq x2,
           Live(r) /\ Shelved(r.version, p, b) => Shelved(r.version, p2, b2)
    PROVE  Earned(r, p2, b2, x2)
  BY DEF Earned, Given

LEMMA HoldingKept ==
    ASSUME NEW s, NEW r, NEW p, NEW b, NEW x, NEW r2, NEW p2, NEW b2, NEW x2,
           Holding(s, r, p, b, x), x \subseteq x2,
           Exists(s.seen) => Rank(s.seen) <= Rank(r2),
           Live(s.seen) /\ Shelved(s.seen.version, p, b) => Shelved(s.seen.version, p2, b2),
           s.pc = "putPackage" => b2[s.seen.version] \in {NoObject, b[s.seen.version]}
    PROVE  Holding(s, r2, p2, b2, x2)
  <1>1. Earned(s.seen, p2, b2, x2)
    BY EarnedKept DEF Holding
  <1>2. Shown(s, p2, b2, x2)
    BY DEF Holding, Shown, Given
  <1> QED
    BY <1>1, <1>2 DEF Holding

\* One handler moves.
LEMMA TurnKept ==
    ASSUME TypeOK, Served, \A g \in Handlers : InTurn(handler[g], record),
           NEW h \in Handlers, NEW s, handler' = [handler EXCEPT ![h] = s],
           s.pc # "idle" => s.op \in Serves[h], InTurn(s, record'),
           record' = record \/ \A g \in Handlers \ {h} : handler[g].pc = "idle"
                                                        \/ handler[g].op \notin Writes
    PROVE  Served' /\ \A g \in Handlers : InTurn(handler'[g], record')
  <1>1. handler'[h] = s /\ \A g \in Handlers \ {h} : handler'[g] = handler[g]
    BY DEF TypeOK
  <1>2. ASSUME NEW g \in Handlers \ {h} PROVE InTurn(handler'[g], record')
    BY <1>1 DEF InTurn
  <1>3. Served'
    BY <1>1 DEF Served
  <1> QED
    BY <1>1, <1>2, <1>3

\* It answers.
LEMMA AnswerTurn ==
    ASSUME TypeOK, Served, \A g \in Handlers : InTurn(handler[g], record), NEW h \in Handlers,
           NEW s \in HandlerStates, s.op = handler[h].op, handler[h].pc # "idle",
           NEW answer, NEW body, NEW wrote,
           handler' = [handler EXCEPT ![h] = Answered(s, answer, body, wrote)],
           record' = record \/ \A g \in Handlers \ {h} : handler[g].pc = "idle"
                                                        \/ handler[g].op \notin Writes
    PROVE  Served' /\ \A g \in Handlers : InTurn(handler'[g], record')
  <1> DEFINE t == Answered(s, answer, body, wrote)
  <1>1. t.pc = "done" /\ t.op = s.op
    BY DEF Answered, HandlerStates
  <1>2. t.op \in Serves[h] /\ InTurn(t, record')
    BY <1>1 DEF Served, InTurn
  <1> HIDE DEF t
  <1>3. handler' = [handler EXCEPT ![h] = t]
    BY DEF t
  <1> QED
    BY <1>2, <1>3, TurnKept

\* It goes on with the item it saw.
LEMMA NextPhaseTurn ==
    ASSUME TypeOK, Served, \A g \in Handlers : InTurn(handler[g], record), NEW h \in Handlers,
           NEW s, handler' = [handler EXCEPT ![h] = s], record' = record,
           s.op = handler[h].op, handler[h].pc # "idle",
           \/ s.pc = "deleteObject"
           \/ s.seen = handler[h].seen /\ handler[h].pc \in {"getObject", "putObject", "commit"}
           \/ Rank(s.seen) = Rank(record) /\ record \in Records
    PROVE  Served' /\ \A g \in Handlers : InTurn(handler'[g], record')
  <1>1. s.op \in Serves[h]
    BY DEF Served
  <1>2. InTurn(s, record')
    BY RankType DEF InTurn
  <1> QED
    BY <1>1, <1>2, TurnKept

-----------------------------------------------------------------------------
(* The bookmark routes, one lemma per action.                              *)

LEMMA ReceiveTurn ==
    ASSUME TypeOK, Turns, NEW h \in Handlers, Receive(h) \/ Reply(h)
    PROVE  Turns'
  <1>1. record' = record
    BY DEF Receive, Reply
  <1>2. CASE Reply(h)
    <2>1. Idle.pc = "idle" /\ InTurn(Idle, record')
      BY DEF Idle, InTurn
    <2> QED
      BY <1>1, <1>2, <2>1, TurnKept DEF Reply, Turns
  <1>3. CASE Receive(h)
    <2> DEFINE request(op, arg) == [Idle EXCEPT !.op = op, !.arg = arg, !.pc = "getItem"]
               next(op, arg) == IF Malformed(op, arg)
                                  THEN Answered(request(op, arg), "badRequest", {}, FALSE)
                                  ELSE request(op, arg)
    <2>1. PICK op \in Serves[h] : \E arg \in Requests(op) :
              handler' = [handler EXCEPT ![h] = next(op, arg)]
      BY <1>3 DEF Receive
    <2>2. PICK arg \in Requests(op) : handler' = [handler EXCEPT ![h] = next(op, arg)]
      BY <2>1
    <2>3. next(op, arg).op = op /\ next(op, arg).pc \in {"getItem", "done"}
      BY DEF Answered, Idle
    <2> HIDE DEF next
    <2>4. InTurn(next(op, arg), record')
      BY <2>3 DEF InTurn
    <2> QED
      BY <1>1, <2>2, <2>3, <2>4, TurnKept DEF Turns
  <1> QED
    BY <1>2, <1>3

LEMMA FinishTurn ==
    ASSUME TypeOK, Turns, NEW h \in Handlers, NEW answer, Finish(h, answer),
           handler[h].pc # "idle", record' = record
    PROVE  Turns'
  <1>1. handler[h] \in HandlerStates
    BY DEF TypeOK
  <1>2. handler' = [handler EXCEPT ![h] = Answered(handler[h], answer, {}, handler[h].wrote)]
    BY DEF Finish
  <1> QED
    BY <1>1, <1>2, AnswerTurn DEF Turns

LEMMA GetItemTurn ==
    ASSUME FreshReads, TypeOK, Turns, NEW h \in Handlers, GetItem(h)
    PROVE  Turns'
  <1>1. PICK r \in Snapshots :
          \/ At(h, "getItem", {"put"})    /\ PutBookmarks(h, r)
          \/ At(h, "getItem", {"post"})   /\ PostBookmarks(h, r)
          \/ At(h, "getItem", {"delete"}) /\ DeleteBookmarks(h, r)
          \/ At(h, "getItem", {"remove"}) /\ FindAndDeleteBookmarkEntry(h, r)
          \/ At(h, "getItem", Reads)      /\ GetBookmarksS3Object(h, r)
    BY DEF GetItem
  <1>2. handler[h].pc = "getItem" /\ record' = record
    BY <1>1 DEF At, GetItem
  <1>3. Rank(r) = Rank(record) /\ record \in Records
    BY FreshSnapshot DEF TypeOK
  <1>4. CASE \E answer : Finish(h, answer)
    BY <1>2, <1>4, FinishTurn
  <1>5. ASSUME NEW phase, NEW body, Load(h, r, phase, body) PROVE Turns'
    <2> DEFINE s == [handler[h] EXCEPT !.seen = r, !.pc = phase, !.body = body]
    <2>1. handler' = [handler EXCEPT ![h] = s]
      BY <1>5 DEF Load, TypeOK
    <2>2. s.op = handler[h].op /\ s.seen = r
      BY DEF TypeOK, HandlerStates
    <2> HIDE DEF s
    <2> QED
      BY <1>2, <1>3, <2>1, <2>2, NextPhaseTurn DEF Turns
  <1> QED
    BY <1>1, <1>4, <1>5
       DEF PutBookmarks, PostBookmarks, DeleteBookmarks, FindAndDeleteBookmarkEntry,
           GetBookmarksS3Object

LEMMA GetObjectTurn ==
    ASSUME TypeOK, Turns, NEW h \in Handlers, GetObject(h)
    PROVE  Turns'
  <1> DEFINE s == handler[h]
             list == bucket[s.seen.version]
  <1>1. s.pc = "getObject" /\ record' = record /\ s \in HandlerStates
    BY DEF GetObject, At, TypeOK
  <1>2. ASSUME NEW answer, NEW body, NEW wrote,
               handler' = [handler EXCEPT ![h] = Answered(s, answer, body, wrote)]
        PROVE  Turns'
    <2>1. handler' = [handler EXCEPT ![h] = Answered(handler[h], answer, body, wrote)]
      BY <1>2
    <2>2. handler[h].pc # "idle" /\ handler[h] \in HandlerStates
      BY <1>1
    <2> HIDE DEF s
    <2> QED
      BY <1>1, <2>1, <2>2, AnswerTurn DEF Turns
  <1>3. ASSUME NEW body, handler' = [handler EXCEPT ![h].pc = "putObject", ![h].body = body]
        PROVE  Turns'
    <2> DEFINE t == [s EXCEPT !.pc = "putObject", !.body = body]
    <2>1. handler' = [handler EXCEPT ![h] = t]
      BY <1>3 DEF TypeOK
    <2>2. t.op = s.op /\ t.seen = s.seen
      BY <1>1 DEF HandlerStates
    <2> HIDE DEF t
    <2> QED
      BY <1>1, <2>1, <2>2, NextPhaseTurn DEF Turns
  <1>4. \/ GetBookmarks(h, list) \/ FindBookmarkEntry(h, list)
        \/ getExistingBookmarks(h, list) \/ deleteMatchingBookmarks(h, list)
    BY DEF GetObject
  <1>5. CASE GetBookmarks(h, list) \/ FindBookmarkEntry(h, list)
    BY <1>2, <1>5 DEF GetBookmarks, FindBookmarkEntry, Finish
  <1>6. CASE getExistingBookmarks(h, list) \/ deleteMatchingBookmarks(h, list)
    BY <1>3, <1>6 DEF getExistingBookmarks, deleteMatchingBookmarks
  <1> QED
    BY <1>4, <1>5, <1>6

LEMMA PutObjectTurn ==
    ASSUME TypeOK, Turns, NEW h \in Handlers, PutObject(h)
    PROVE  Turns'
  <1> DEFINE old == handler[h]
  <1>1. old.pc = "putObject" /\ record' = record /\ old \in HandlerStates
    BY DEF PutObject, At, TypeOK
  <1>2. PICK o \in Outcomes :
          handler' = [handler EXCEPT ![h] = AfterPut([old EXCEPT !.wrote = o.applied], o.ok)]
    BY DEF PutObject
  <1> DEFINE w == [old EXCEPT !.wrote = o.applied]
  <1>3. w \in HandlerStates /\ w.op = old.op /\ w.seen = old.seen
    BY <1>1, OutcomesType DEF HandlerStates
  <1>4. CASE o.ok
    <2> DEFINE t == [w EXCEPT !.pc = "commit"]
    <2>1. handler' = [handler EXCEPT ![h] = t]
      BY <1>2, <1>4 DEF AfterPut
    <2>2. t.op = old.op /\ t.seen = old.seen
      BY <1>3 DEF HandlerStates
    <2> HIDE DEF t
    <2> QED
      BY <1>1, <2>1, <2>2, NextPhaseTurn DEF Turns
  <1>5. CASE ~o.ok
    <2>1. handler' = [handler EXCEPT ![h] = Answered(w, "error", {}, w.wrote)]
      BY <1>2, <1>5 DEF AfterPut
    <2> HIDE DEF w
    <2> QED
      BY <1>1, <1>3, <2>1, AnswerTurn DEF Turns
  <1> QED
    BY <1>4, <1>5

\* While a writer works, the other handlers read.
LEMMA OthersOnlyRead ==
    ASSUME OneWriter, Turns, NEW h \in Handlers, handler[h].pc # "idle", handler[h].op \in Writes
    PROVE  \A g \in Handlers \ {h} : handler[g].pc = "idle" \/ handler[g].op \notin Writes
  <1>1. handler[h].op \in Serves[h] /\ handler[h].op \notin Reads
    BY DEF Turns, Served, Writes, Puts, Reads
  <1>2. \A g \in Handlers \ {h} : Serves[g] \subseteq Reads
    BY <1>1 DEF OneWriter
  <1> QED
    BY <1>2 DEF Turns, Served, Writes, Puts, Reads

LEMMA CommitTurn ==
    ASSUME OneWriter, TypeOK, Turns, NEW h \in Handlers, Commit(h)
    PROVE  Turns'
  <1> DEFINE old == handler[h]
  <1>1. old.pc = "commit" /\ old.op \in Writes /\ old \in HandlerStates
    BY DEF Commit, At, TypeOK, Writes
  <1>2. \A g \in Handlers \ {h} : handler[g].pc = "idle" \/ handler[g].op \notin Writes
    BY <1>1, OthersOnlyRead
  <1>3. PICK o \in Outcomes :
          handler' = [handler EXCEPT ![h] =
                         AfterCommit([old EXCEPT !.wrote = old.wrote \/ o.applied], o.ok)]
    BY DEF Commit
  <1> DEFINE t == AfterCommit([old EXCEPT !.wrote = old.wrote \/ o.applied], o.ok)
  <1>4. t.op = old.op /\ t.pc \in {"deleteObject", "done"}
    BY <1>1 DEF AfterCommit, Answered, HandlerStates
  <1> HIDE DEF t
  <1>5. handler' = [handler EXCEPT ![h] = t]
    BY <1>3 DEF t
  <1>6. t.op \in Serves[h] /\ InTurn(t, record')
    BY <1>1, <1>4 DEF Turns, Served, InTurn
  <1> QED
    BY <1>2, <1>5, <1>6, TurnKept DEF Turns

LEMMA DeleteObjectTurn ==
    ASSUME TypeOK, Turns, NEW h \in Handlers, DeleteObject(h)
    PROVE  Turns'
  <1>1. handler[h].pc = "deleteObject" /\ record' = record /\ handler[h] \in HandlerStates
    BY DEF DeleteObject, At, TypeOK
  <1>2. PICK o \in Outcomes : handler' = [handler EXCEPT ![h] = AfterDelete(handler[h], o.ok)]
    BY DEF DeleteObject
  <1> QED
    BY <1>1, <1>2, AnswerTurn DEF AfterDelete, Turns

LEMMA NextTurn ==
    ASSUME OneWriter, FreshReads, TypeOK, Turns, [Next]_apiVars
    PROVE  Turns'
  <1>1. ASSUME NEW h \in Handlers,
               GetObjectFails(h) \/ VersionFails(h) \/ ClientFails(h) \/ Kill(h)
        PROVE  Turns'
    <2>1. /\ handler[h].pc # "idle" /\ record' = record
          /\ \E answer : Finish(h, answer)
      BY <1>1 DEF GetObjectFails, VersionFails, ClientFails, Kill, At
    <2> QED
      BY <2>1, FinishTurn
  <1>2. ASSUME NEW h \in Handlers, Step(h) PROVE Turns'
    BY <1>1, <1>2, ReceiveTurn, GetItemTurn, GetObjectTurn, PutObjectTurn, CommitTurn,
       DeleteObjectTurn DEF Step
  <1>3. CASE UNCHANGED apiVars \/ Replicate \/ Tick
    BY <1>3 DEF apiVars, Replicate, Tick, Turns, Served, InTurn
  <1> QED
    BY <1>2, <1>3 DEF Next

\* The routes write lists and items of the future alone: the list of a version that the
\* item has reached stays, or goes.
LEMMA RoutesWriteAhead ==
    ASSUME DistInv, PackInv, NEW h \in Handlers, Step(h)
    PROVE  /\ Rank(record) <= Rank(record')
           /\ record' = record \/ record'.modified = TRUE
           /\ \A v \in Versions : v <= record.version => bucket'[v] \in {NoObject, bucket[v]}
  <1> DEFINE s == handler[h]
  <1>1. /\ TypeOK /\ PhaseOK /\ record \in Records /\ s \in HandlerStates /\ s.seen \in Records
        /\ bucket \in [Versions -> {NoObject} \union Lists] /\ InTurn(s, record)
    BY DEF DistInv, IndInv, TypeOK, HandlerStates, PackInv, Turns
  <1>2. Rank(record) \in Nat /\ Rank(s.seen) \in Nat
    BY <1>1, RankType
  <1>3. CASE UNCHANGED <<record, bucket>>
    BY <1>2, <1>3
  <1>4. CASE PutObject(h)
    <2> DEFINE w == GetIncrementedVersion(s.seen)
    <2>1. s.pc = "putObject" /\ s.op \in Puts /\ record' = record
      BY <1>4 DEF PutObject, At
    <2>2. Rank(record) <= Rank(s.seen)
      BY <1>1, <2>1 DEF InTurn, Writes
    <2>3. record.version < w
      BY <1>1, <2>2, RankOrdersVersions DEF GetIncrementedVersion
    <2>4. bucket' = bucket \/ bucket' = [bucket EXCEPT ![w] = s.body]
      BY <1>4 DEF PutObject
    <2>5. record.version \in Nat /\ w \in Nat
      BY <1>1 DEF Records, Versions, GetIncrementedVersion
    <2> HIDE DEF w, s
    <2>6. ASSUME NEW v \in Versions, v <= record.version
          PROVE  bucket'[v] = bucket[v]
      <3>1. v # w
        BY <2>3, <2>5, <2>6 DEF Versions
      <3> QED
        BY <1>1, <2>4, <3>1
    <2> QED
      BY <1>2, <2>1, <2>6
  <1>5. CASE Commit(h)
    <2>1. /\ At(h, "commit", Puts \union {"delete"}) /\ bucket' = bucket
          /\ s.pc = "commit" /\ s.op \in Puts \union {"delete"}
      BY <1>5 DEF Commit, At
    <2>2. PICK o \in Outcomes : WriteRecord(s.seen, NextItem(h), o.applied)
      BY <1>5 DEF Commit
    <2> DEFINE e == NextItem(h)
    <2>3. e \in Records /\ Rank(e) > Rank(s.seen)
      BY <1>1, <2>1, NextItemType
    <2>4. e.modified = TRUE
      BY <1>1 DEF NextItem, WithDeletedSuffix, WithVersion, Records
    <2>5. Rank(record) <= Rank(s.seen)
      BY <1>1, <2>1 DEF InTurn, Writes
    <2> HIDE DEF e
    <2>6. CASE o.applied
      <3>1. record' = Stored(record, s.seen, e)
        BY <2>2, <2>6 DEF WriteRecord, e
      <3>2. Rank(record') = Rank(e) /\ Rank(e) \in Nat
        BY <1>1, <2>3, <3>1, StoredType, RankType
      <3>3. record'.modified = TRUE
        BY <2>3, <2>4, <3>1 DEF Stored, Merge, Records
      <3> QED
        BY <1>2, <2>1, <2>3, <2>5, <3>2, <3>3
    <2>7. CASE ~o.applied
      BY <1>2, <2>1, <2>2, <2>7 DEF WriteRecord
    <2> QED
      BY <2>6, <2>7
  <1>6. CASE DeleteObject(h)
    <2> DEFINE w == previousVersion(s.seen)
    <2>1. record' = record
      BY <1>6 DEF DeleteObject
    <2>2. bucket' = bucket \/ bucket' = [bucket EXCEPT ![w] = NoObject]
      BY <1>6 DEF DeleteObject
    <2> HIDE DEF w
    <2>3. \A v \in Versions : bucket'[v] \in {NoObject, bucket[v]}
      BY <1>1, <2>2
    <2> QED
      BY <1>2, <2>1, <2>3
  <1> QED
    BY <1>3, <1>4, <1>5, <1>6 DEF Step, Receive, Reply, GetItem, GetObject, GetObjectFails,
       ClientFails, Kill, VersionFails

\* What was packed stays so while its list stays or goes.
LEMMA ShelvedStays ==
    ASSUME NEW v, NEW p, NEW b, NEW b2, Shelved(v, p, b), b2[v] \in {NoObject, b[v]}
    PROVE  Shelved(v, p, b2)
  BY DEF Shelved

LEMMA RoutesKeepPack ==
    ASSUME OneWriter, FreshReads, DistInv, PackInv, Next, UNCHANGED distVars
    PROVE  PackInv'
  <1>1. /\ TypeOK /\ PhaseOK /\ record \in Records /\ record' \in Records
        /\ UNCHANGED <<summary, executions, job>>
    BY NextType DEF DistInv, IndInv, TypeOK, distVars
  <1>2. ValidPart' /\ Turns'
    BY <1>1, NextValid, NextTurn DEF PackInv
  <1>3. /\ Rank(record) <= Rank(record')
        /\ record' = record \/ record'.modified = TRUE
        /\ \A v \in Versions : v <= record.version => bucket'[v] \in {NoObject, bucket[v]}
    <2>1. CASE Replicate \/ Tick
      BY <1>1, <2>1, RankType DEF Replicate, Tick
    <2> QED
      BY <2>1, RoutesWriteAhead DEF Next
  <1>4. ASSUME NEW r \in Records, Live(r), Rank(r) <= Rank(record)
        PROVE  bucket'[r.version] \in {NoObject, bucket[r.version]}
    <2>1. r.version \in Versions /\ r.version <= record.version
      BY <1>1, <1>4, RankOrdersVersions DEF Live, Exists, Records
    <2> QED
      BY <1>3, <2>1
  <1>5. Earned(record', summary', bucket', executions')
    <2>1. CASE record'.modified = TRUE
      BY <2>1 DEF Earned
    <2>2. CASE record' = record
      <3>1. Live(record) => bucket'[record.version] \in {NoObject, bucket[record.version]}
        BY <1>1, <1>4, RankType
      <3> QED
        BY <1>1, <2>2, <3>1, EarnedKept, ShelvedStays DEF PackInv, PackPart
    <2> QED
      BY <1>3, <2>1, <2>2
  <1>6. ASSUME NEW d \in Distributors
        PROVE  Holding(job'[d], record', summary', bucket', executions')
    <2> DEFINE s == job[d]
    <2>1. s.seen \in Records /\ Holding(s, record, summary, bucket, executions)
      BY JobFields DEF PackInv, PackPart
    <2>2. Exists(s.seen) => Rank(s.seen) <= Rank(record) /\ Rank(s.seen) <= Rank(record')
      BY <1>1, <1>3, <2>1, RankType DEF Holding
    <2>3. Live(s.seen) => bucket'[s.seen.version] \in {NoObject, bucket[s.seen.version]}
      BY <1>4, <2>1, <2>2 DEF Live
    <2>4. s.pc = "putPackage" => Live(s.seen)
      BY <2>1, JobFields DEF Holding, Shown, Live, Ready, AfterGetItem, JobPhases
    <2> HIDE DEF s
    <2>5. Holding(s, record', summary', bucket', executions')
      BY <1>1, <2>1, <2>2, <2>3, <2>4, HoldingKept, ShelvedStays
    <2> QED
      BY <1>1, <2>5 DEF s
  <1> QED
    BY <1>2, <1>5, <1>6 DEF PackInv, PackPart

-----------------------------------------------------------------------------
(* What the steps of the distributor share.                                *)

\* It moves to the state s and makes the item, if it writes it, none that is younger.
LEMMA JobMovesPack ==
    ASSUME OneDistributor, DistInv, DistInv', PackInv, NEW d \in Distributors, NEW s,
           job' = [job EXCEPT ![d] = s], UNCHANGED <<bucket, handler>>,
           Rank(record') <= Rank(record),
           Earned(record', summary', bucket', executions'),
           Holding(s, record', summary', bucket', executions')
    PROVE  PackInv'
  <1>1. ValidPart'
    BY DEF PackInv, ValidPart, ValidLists, ValidInHand
  <1>2. Turns'
    <2>1. record \in Records /\ record' \in Records
      BY DEF DistInv, IndInv, TypeOK
    <2>2. ASSUME NEW h \in Handlers PROVE InTurn(handler[h], record')
      <3>1. InTurn(handler[h], record) /\ handler[h].seen \in Records
        BY DEF PackInv, Turns, DistInv, IndInv, TypeOK, HandlerStates
      <3>2. /\ Rank(record) \in Nat /\ Rank(record') \in Nat
            /\ Rank(handler[h].seen) \in Nat
        BY <2>1, <3>1, RankType
      <3> QED
        BY <3>1, <3>2 DEF InTurn
    <2> QED
      BY <2>2 DEF PackInv, Turns, Served
  <1>3. \A g \in Distributors : job'[g] = s
    BY DEF OneDistributor, DistInv, JobPart
  <1> QED
    BY <1>1, <1>2, <1>3 DEF PackInv, PackPart

LEMMA HoldsNothing ==
    ASSUME NEW s, ~Exists(s.seen), s.pc \in {"idle", "getItem", "done"},
           NEW r, NEW p, NEW b, NEW x
    PROVE  Holding(s, r, p, b, x)
  BY DEF Holding, Shown, Earned

LEMMA DoneHolds ==
    ASSUME NEW s, NEW answer, NEW r, NEW p, NEW b, NEW x
    PROVE  Holding(Done(s, answer), r, p, b, x)
  <1>1. Done(s, answer).pc = "done" /\ ~Exists(Done(s, answer).seen)
    BY DEF Done, IdleJob, Exists, NoRecord
  <1> QED
    BY <1>1, HoldsNothing

\* It writes nothing.
LEMMA WritesNothingPack ==
    ASSUME OneDistributor, DistInv, DistInv', PackInv, NEW d \in Distributors, NEW s,
           job' = [job EXCEPT ![d] = s], UNCHANGED <<apiVars, summary, executions>>,
           Holding(s, record, summary, bucket, executions)
    PROVE  PackInv'
  <1>1. Earned(record, summary, bucket, executions) /\ Rank(record) <= Rank(record)
    BY RankType DEF PackInv, PackPart, DistInv, IndInv, TypeOK
  <1>2. UNCHANGED <<record, bucket, handler>>
    BY DEF apiVars
  <1>3. /\ Rank(record') <= Rank(record)
        /\ Earned(record', summary', bucket', executions')
        /\ Holding(s, record', summary', bucket', executions')
    BY <1>1, <1>2
  <1> QED
    BY <1>2, <1>3, JobMovesPack

\* It holds what it held, and writes no item.
LEMMA GoesOnPack ==
    ASSUME OneDistributor, DistInv, DistInv', PackInv, NEW d \in Distributors, NEW s,
           job' = [job EXCEPT ![d] = s], s.seen = job[d].seen, UNCHANGED apiVars,
           executions \subseteq executions',
           \A v \in Versions : Shelved(v, summary, bucket) => Shelved(v, summary', bucket),
           Shown(s, summary', bucket, executions')
    PROVE  PackInv'
  <1>1. /\ record \in Records /\ job[d].seen \in Records
        /\ Earned(record, summary, bucket, executions)
        /\ Holding(job[d], record, summary, bucket, executions)
    BY JobFields DEF PackInv, PackPart, DistInv, IndInv, TypeOK
  <1>2. ASSUME NEW r \in Records, Earned(r, summary, bucket, executions)
        PROVE  Earned(r, summary', bucket, executions')
    BY <1>2, EarnedKept DEF Live, Exists, Records
  <1>3. Earned(job[d].seen, summary', bucket, executions')
    BY <1>1, <1>2 DEF Holding
  <1>4. Holding(s, record, summary', bucket, executions')
    BY <1>1, <1>3 DEF Holding
  <1>5. Earned(record, summary', bucket, executions')
    BY <1>1, <1>2
  <1>6. record' = record /\ bucket' = bucket /\ handler' = handler
        /\ Rank(record) <= Rank(record)
    BY <1>1, RankType DEF apiVars
  <1> QED
    BY <1>4, <1>5, <1>6, JobMovesPack

\* It turns to a phase that asks nothing of it.
LEMMA AtEasePack ==
    ASSUME OneDistributor, DistInv, DistInv', PackInv, NEW d \in Distributors, NEW s,
           job' = [job EXCEPT ![d] = s], s.seen = job[d].seen,
           s.pc \in {"lock", "fail", "rows", "expire"},
           UNCHANGED <<apiVars, summary, executions>>
    PROVE  PackInv'
  <1>1. Shown(s, summary', bucket, executions')
    BY DEF Shown
  <1> QED
    BY <1>1, GoesOnPack

\* It answers and writes nothing.
LEMMA AnswersKeepPack ==
    ASSUME OneDistributor, DistInv, DistInv', PackInv, NEW d \in Distributors, NEW s,
           NEW answer, job' = [job EXCEPT ![d] = Done(s, answer)],
           UNCHANGED <<apiVars, summary, executions>>
    PROVE  PackInv'
  <1>1. Holding(Done(s, answer), record, summary, bucket, executions)
    BY DoneHolds
  <1> HIDE DEF Done
  <1> QED
    BY <1>1, WritesNothingPack

\* The item that it held is written, rewritten as e.
LEMMA ItemBack ==
    ASSUME DistInv, PackInv, NEW d \in Distributors, NEW e \in Records, NEW o \in Outcomes,
           WriteRecord(e, e, o.applied), Exists(job[d].seen), Rank(e) = Rank(job[d].seen),
           Earned(e, summary, bucket, executions)
    PROVE  /\ Rank(record') <= Rank(record) /\ Rank(e) <= Rank(record')
           /\ Earned(record', summary, bucket, executions)
  <1>1. /\ record \in Records /\ Earned(record, summary, bucket, executions)
        /\ Rank(e) <= Rank(record)
    BY DEF PackInv, PackPart, Holding, DistInv, IndInv, TypeOK
  <1>2. CASE o.applied
    <2>1. record' = Stored(record, e, e)
      BY <1>2 DEF WriteRecord
    <2>2. record' \in Records /\ Rank(record') = Rank(e) /\ Rank(e) \in Nat
      BY <1>1, <2>1, StoredType, RankType
    <2>3. /\ record'.version = e.version /\ record'.deleted = e.deleted
          /\ Live(record') <=> Live(e)
      BY <2>2, RankIsInjective
    <2>4. record'.modified = e.modified
      BY <2>1 DEF Stored, Merge, Records
    <2>5. Earned(record', summary, bucket, executions)
      BY <2>3, <2>4 DEF Earned, Given, Exists
    <2> QED
      BY <1>1, <2>2, <2>5
  <1>3. CASE ~o.applied
    <2>1. record' = record
      BY <1>3 DEF WriteRecord
    <2> QED
      BY <1>1, <2>1, RankType
  <1> QED
    BY <1>2, <1>3

\* The same, when it goes on in the state s or answers.
LEMMA WriterKeepsPack ==
    ASSUME OneDistributor, DistInv, DistInv', PackInv, NEW d \in Distributors, NEW s,
           job' = [job EXCEPT ![d] = s],
           NEW e \in Records, NEW o \in Outcomes, WriteRecord(e, e, o.applied),
           Exists(job[d].seen), Rank(e) = Rank(job[d].seen),
           Earned(e, summary, bucket, executions),
           UNCHANGED <<bucket, handler, summary, executions>>,
           \/ s.seen = e /\ Shown(s, summary, bucket, executions)
           \/ \A r : Holding(s, r, summary, bucket, executions)
    PROVE  PackInv'
  <1>1. /\ Rank(record') <= Rank(record) /\ Rank(e) <= Rank(record')
        /\ Earned(record', summary', bucket', executions')
    BY ItemBack
  <1>2. Holding(s, record', summary', bucket', executions')
    BY <1>1 DEF Holding
  <1> QED
    BY <1>1, <1>2, JobMovesPack

-----------------------------------------------------------------------------
(* One lemma per action of the distributor.                                *)

LEMMA ReceiveJobPack ==
    ASSUME OneDistributor, DistInv, DistInv', PackInv, NEW d \in Distributors,
           ReceiveJob(d) \/ ReplyJob(d)
    PROVE  PackInv'
  <1>1. /\ UNCHANGED <<apiVars, summary, executions>>
        /\ \E s : /\ job' = [job EXCEPT ![d] = s] /\ ~Exists(s.seen)
                 /\ s.pc \in {"idle", "getItem"}
    BY ReceiveJobMoves
  <1>2. PICK s : /\ job' = [job EXCEPT ![d] = s] /\ ~Exists(s.seen)
                 /\ s.pc \in {"idle", "getItem"}
    BY <1>1
  <1>3. Holding(s, record, summary, bucket, executions)
    BY <1>2, HoldsNothing
  <1> QED
    BY <1>1, <1>2, <1>3, WritesNothingPack

LEMMA GetItemPack ==
    ASSUME OneDistributor, FreshReads, DistInv, DistInv', PackInv, NEW d \in Distributors,
           GetItemForDistribute(d) \/ GetItemForStatus(d)
    PROVE  PackInv'
  <1>1. PICK r \in Snapshots :
          \/ FinishJob(d, "forbidden") \/ FinishJob(d, "notFound")
          \/ \E phase \in {"getDevices", "query"} :
                job' = [job EXCEPT ![d].seen = r, ![d].pc = phase]
    BY DEF GetItemForDistribute, GetItemForStatus, validateDistribution
  <1>2. UNCHANGED <<apiVars, summary, devices, executions>>
    BY DEF GetItemForDistribute, GetItemForStatus
  <1>3. CASE FinishJob(d, "forbidden") \/ FinishJob(d, "notFound")
    BY <1>2, <1>3, AnswersKeepPack DEF FinishJob
  <1>4. ASSUME NEW phase \in {"getDevices", "query"},
               job' = [job EXCEPT ![d].seen = r, ![d].pc = phase]
        PROVE  PackInv'
    <2> DEFINE s == [job[d] EXCEPT !.seen = r, !.pc = phase]
    <2>1. job' = [job EXCEPT ![d] = s] /\ job[d] \in Jobs
      BY <1>4 DEF DistInv, JobPart
    <2>2. s.seen = r /\ s.pc = phase
      BY <2>1 DEF Jobs
    <2> HIDE DEF s
    <2>3. /\ TypeOK /\ record \in Records /\ r \in Records
          /\ Earned(record, summary, bucket, executions)
      BY FreshSnapshot DEF PackInv, PackPart, DistInv, IndInv, TypeOK
    <2>4. /\ Rank(r) = Rank(record) /\ Rank(record) \in Nat
          /\ r.modified = record.modified
      BY <2>3, FreshSnapshot, FreshFlag, RankType
    <2>5. /\ r.version = record.version /\ r.deleted = record.deleted
          /\ Live(r) <=> Live(record)
      BY <2>3, <2>4, RankIsInjective
    <2>6. Earned(r, summary, bucket, executions)
      BY <2>3, <2>4, <2>5 DEF Earned, Given, Exists
    <2>7. Shown(s, summary, bucket, executions)
      BY <2>2 DEF Shown
    <2>8. Holding(s, record, summary, bucket, executions)
      BY <2>2, <2>4, <2>6, <2>7 DEF Holding
    <2> QED
      BY <1>2, <2>1, <2>8, WritesNothingPack
  <1> QED
    BY <1>1, <1>3, <1>4

LEMMA ValidateDevicesPack ==
    ASSUME OneDistributor, DistInv, DistInv', PackInv, NEW d \in Distributors,
           validateDevices(d)
    PROVE  PackInv'
  <1>1. UNCHANGED <<apiVars, summary, devices, executions>>
    BY DEF validateDevices
  <1>2. CASE FinishJob(d, "badRequest")
    BY <1>1, <1>2, AnswersKeepPack DEF FinishJob
  <1>3. ASSUME NEW todo, job' = [job EXCEPT ![d].pc = "lock", ![d].todo = todo]
        PROVE  PackInv'
    <2> DEFINE s == [job[d] EXCEPT !.pc = "lock", !.todo = todo]
    <2>1. job[d] \in Jobs /\ job' = [job EXCEPT ![d] = s]
      BY <1>3 DEF DistInv, JobPart
    <2>2. s.seen = job[d].seen /\ s.pc = "lock"
      BY <2>1 DEF Jobs
    <2> HIDE DEF s
    <2> QED
      BY <1>1, <2>1, <2>2, AtEasePack
  <1>4. FinishJob(d, "badRequest")
        \/ \E todo : job' = [job EXCEPT ![d].pc = "lock", ![d].todo = todo]
    BY DEF validateDevices
  <1> QED
    BY <1>2, <1>3, <1>4

LEMMA LockPack ==
    ASSUME OneDistributor, DistInv, DistInv', PackInv, NEW d \in Distributors, Lock(d)
    PROVE  PackInv'
  <1> DEFINE locked == StatusUpdate(job[d].seen, "BookmarksLocked")
             t == AfterLock([job[d] EXCEPT !.seen = locked])
  <1>1. job[d] \in Jobs /\ Exists(job[d].seen) /\ job[d].seen \in Records
    BY JobFields DEF Lock, JobAt, Ready, AfterGetItem, JobPhases
  <1>2. PICK o \in Outcomes :
          /\ WriteRecord(locked, locked, o.applied)
          /\ job' = [job EXCEPT ![d] =
                IF o.ok THEN AfterLock([job[d] EXCEPT !.seen = locked])
                        ELSE Done(job[d], "error")]
    BY DEF Lock
  <1>3. /\ locked \in Records /\ Rank(locked) = Rank(job[d].seen)
        /\ locked.version = job[d].seen.version /\ locked.deleted = job[d].seen.deleted
    BY <1>1, StatusUpdateType DEF DistInv, IndInv
  <1>4. locked.modified = job[d].seen.modified
    BY <1>1 DEF StatusUpdate, Records
  <1>5. Earned(locked, summary, bucket, executions)
    BY <1>3, <1>4 DEF PackInv, PackPart, Holding, Earned, Given, Live, Exists
  <1>6. t.seen = locked /\ t.pc = (IF locked.deleted THEN "addJobs" ELSE "getObject")
    BY <1>1 DEF AfterLock, Jobs
  <1>7. UNCHANGED <<bucket, handler, summary, executions>>
    BY DEF Lock
  <1> HIDE DEF t, locked
  <1>8. Shown(t, summary, bucket, executions)
    BY <1>6 DEF Shown, Live
  <1>9. CASE o.ok
    <2>1. job' = [job EXCEPT ![d] = t]
      BY <1>2, <1>9 DEF t
    <2> QED
      BY <1>1, <1>2, <1>3, <1>5, <1>6, <1>7, <1>8, <2>1, WriterKeepsPack
  <1>10. CASE ~o.ok
    <2>1. job' = [job EXCEPT ![d] = Done(job[d], "error")]
      BY <1>2, <1>10
    <2>2. \A r : Holding(Done(job[d], "error"), r, summary, bucket, executions)
      BY DoneHolds
    <2> HIDE DEF Done
    <2> QED
      BY <1>1, <1>2, <1>3, <1>5, <1>7, <2>1, <2>2, WriterKeepsPack
  <1> QED
    BY <1>9, <1>10

\* The list it packs is stored, and one of valid URLs.
LEMMA GetObjectPack ==
    ASSUME OneDistributor, DistInv, DistInv', PackInv, NEW d \in Distributors,
           GetObjectForPackage(d) \/ GetObjectForPackageFails(d)
    PROVE  PackInv'
  <1>1. /\ job[d].pc = "getObject" /\ job[d] \in Jobs /\ job[d].seen.version \in Versions
        /\ UNCHANGED <<apiVars, summary, devices, executions>>
    BY JobFields
       DEF GetObjectForPackage, GetObjectForPackageFails, JobAt, AfterGetItem, JobPhases
  <1>2. CASE GetObjectForPackageFails(d)
    <2> DEFINE s == [job[d] EXCEPT !.pc = "fail"]
    <2>1. job' = [job EXCEPT ![d] = s] /\ s.pc = "fail" /\ s.seen = job[d].seen
      BY <1>1, <1>2 DEF GetObjectForPackageFails, Enter, DistInv, JobPart, Jobs
    <2> HIDE DEF s
    <2> QED
      BY <1>1, <2>1, AtEasePack
  <1>3. CASE GetObjectForPackage(d)
    <2> DEFINE list == bucket[job[d].seen.version]
               s == [job[d] EXCEPT !.list = list, !.pc = "putPackage"]
    <2>1. job' = [job EXCEPT ![d] = s] /\ list # NoObject
      BY <1>1, <1>3 DEF GetObjectForPackage, DistInv, JobPart
    <2>2. s.pc = "putPackage" /\ s.seen = job[d].seen /\ s.list = list
      BY <1>1 DEF Jobs
    <2>3. list \subseteq ValidUrls /\ ~job[d].seen.deleted
      BY <1>1, <2>1 DEF PackInv, ValidPart, ValidLists, PackPart, Holding, Shown
    <2> HIDE DEF s
    <2>4. Shown(s, summary', bucket, executions')
      BY <2>1, <2>2, <2>3 DEF Shown
    <2>5. UNCHANGED apiVars /\ UNCHANGED summary /\ executions \subseteq executions'
      BY <1>1
    <2> QED
      BY <2>1, <2>2, <2>4, <2>5, GoesOnPack
  <1> QED
    BY <1>2, <1>3

\* The package is that list: what it replaces, if anything, was the same.
LEMMA PutPackagePack ==
    ASSUME OneDistributor, DistInv, DistInv', PackInv, NEW d \in Distributors, PutPackage(d)
    PROVE  PackInv'
  <1> DEFINE package == job[d].list \intersect ValidUrls
             w == job[d].seen.version
  <1>1. PICK o \in Outcomes :
          /\ summary' = IF o.applied THEN [summary EXCEPT ![w] = package] ELSE summary
          /\ job' = [job EXCEPT ![d] = AfterPackage([job[d] EXCEPT !.list = package], o.ok)]
    BY DEF PutPackage
  <1>2. /\ job[d].pc = "putPackage" /\ job[d] \in Jobs /\ w \in Versions
        /\ UNCHANGED <<apiVars, executions>> /\ summary \in [Versions -> {NoObject} \union Lists]
    BY JobFields DEF PutPackage, JobAt, AfterGetItem, JobPhases, DistInv, StorePart
  <1>3. /\ package = job[d].list /\ package # NoObject
        /\ bucket[w] \in {NoObject, package}
    BY <1>2 DEF PackInv, PackPart, Holding, Shown
  <1> DEFINE s == AfterPackage([job[d] EXCEPT !.list = package], o.ok)
  <1>4. s.seen = job[d].seen /\ s.pc = (IF o.ok THEN "addJobs" ELSE "fail")
    BY <1>2 DEF AfterPackage, Jobs
  <1>5. job' = [job EXCEPT ![d] = s]
    BY <1>1
  <1> HIDE DEF s, package
  <1>6. o.applied => Shelved(w, summary', bucket)
    BY <1>1, <1>2, <1>3 DEF Shelved
  <1>7. ASSUME NEW v \in Versions, Shelved(v, summary, bucket)
        PROVE  Shelved(v, summary', bucket)
    <2>1. CASE v = w /\ o.applied
      BY <1>6, <2>1
    <2>2. CASE v # w \/ ~o.applied
      <3> HIDE DEF w
      <3>1. summary'[v] = summary[v]
        BY <1>1, <1>2, <2>2
      <3> QED
        BY <1>7, <3>1 DEF Shelved
    <2> QED
      BY <2>1, <2>2
  <1>8. Shown(s, summary', bucket, executions')
    BY <1>4, <1>6, OutcomesType DEF Shown
  <1>9. UNCHANGED apiVars /\ executions \subseteq executions'
    BY <1>2
  <1> QED
    BY <1>4, <1>5, <1>7, <1>8, <1>9, GoesOnPack

NextOfLoop(d, s) ==
    /\ job[d].pc \in {"addJobs", "addRecord", "startExecution"}
    /\ job' = [job EXCEPT ![d] = s] /\ s.seen = job[d].seen
    /\ s.pc \in {"addRecord", "startExecution", "fail", "final"}
    /\ s.pc = "final" => Given(s.seen, executions')

\* Past the package, it goes on to the next phase but the last.
LEMMA NextOfLoopPack ==
    ASSUME OneDistributor, DistInv, DistInv', PackInv, NEW d \in Distributors, NEW s,
           NextOfLoop(d, s), UNCHANGED <<apiVars, summary>>, executions \subseteq executions'
    PROVE  PackInv'
  <1>1. Shown(s, summary', bucket, executions')
    BY DEF NextOfLoop, PackInv, PackPart, Holding, Shown
  <1> QED
    BY <1>1, GoesOnPack DEF NextOfLoop

LEMMA AddJobsPack ==
    ASSUME OneDistributor, DistInv, DistInv', PackInv, NEW d \in Distributors,
           addDistributionJobs(d)
    PROVE  PackInv'
  <1> DEFINE s == [job[d] EXCEPT !.start = now, !.pc = "addRecord"]
  <1>1. job[d].pc = "addJobs" /\ job[d] \in Jobs
    BY JobFields DEF addDistributionJobs, JobAt
  <1>2. s.pc = "addRecord" /\ s.seen = job[d].seen /\ job' = [job EXCEPT ![d] = s]
    BY <1>1 DEF addDistributionJobs, DistInv, JobPart, Jobs
  <1> HIDE DEF s
  <1>3. NextOfLoop(d, s)
    BY <1>1, <1>2 DEF NextOfLoop
  <1> QED
    BY <1>3, NextOfLoopPack DEF addDistributionJobs

LEMMA AddRecordPack ==
    ASSUME OneDistributor, DistInv, DistInv', PackInv, NEW d \in Distributors,
           AddDeviceRecord(d)
    PROVE  PackInv'
  <1>1. job[d].pc = "addRecord" /\ job[d] \in Jobs
    BY JobFields DEF AddDeviceRecord, JobAt
  <1>2. PICK dev \in Devices, o \in Outcomes :
          job' = [job EXCEPT ![d] = AfterRow(job[d], dev, o.ok)]
    BY DEF AddDeviceRecord
  <1> DEFINE s == AfterRow(job[d], dev, o.ok)
  <1>3. s.seen = job[d].seen /\ s.pc \in {"startExecution", "fail"}
    BY <1>1 DEF AfterRow, Jobs
  <1> HIDE DEF s
  <1>4. job' = [job EXCEPT ![d] = s]
    BY <1>2 DEF s
  <1>5. NextOfLoop(d, s)
    BY <1>1, <1>3, <1>4 DEF NextOfLoop
  <1> QED
    BY <1>5, NextOfLoopPack DEF AddDeviceRecord

LEMMA StartExecutionPack ==
    ASSUME OneDistributor, DistInv, DistInv', PackInv, NEW d \in Distributors,
           StartExecution(d)
    PROVE  PackInv'
  <1> DEFINE left == [job[d].todo EXCEPT ![job[d].device] = @ - 1]
             next(ok) == IF ~ok THEN [job[d] EXCEPT !.pc = "fail"]
                         ELSE [job[d] EXCEPT !.todo = left, !.device = "none",
                                  !.pc = IF left = NoDevices THEN "final" ELSE "addRecord"]
  <1>1. /\ job[d].pc = "startExecution" /\ job[d] \in Jobs
        /\ UNCHANGED <<apiVars, summary>>
    BY JobFields DEF StartExecution, JobAt
  <1>2. PICK o \in Outcomes :
          /\ executions' = IF o.applied THEN executions \union {InputOf(job[d])} ELSE executions
          /\ job' = [job EXCEPT ![d] = next(o.ok)]
    BY DEF StartExecution
  <1> HIDE DEF left
  <1>3. /\ next(o.ok).seen = job[d].seen
        /\ next(o.ok).pc \in {"fail", "final", "addRecord"}
        /\ next(o.ok).pc = "final" => o.ok
    BY <1>1 DEF Jobs
  <1>4. ASSUME o.ok PROVE Given(job[d].seen, executions')
    <2>1. InputOf(job[d]) \in executions'
      BY <1>2, <1>4, OutcomesType
    <2>2. /\ InputOf(job[d]).version = job[d].seen.version
          /\ InputOf(job[d]).deleted = job[d].seen.deleted
      BY DEF InputOf
    <2> QED
      BY <2>1, <2>2 DEF Given
  <1>5. executions \subseteq executions'
    BY <1>2
  <1> HIDE DEF next
  <1>6. NextOfLoop(d, next(o.ok))
    BY <1>1, <1>2, <1>3, <1>4 DEF NextOfLoop
  <1> QED
    BY <1>1, <1>5, <1>6, NextOfLoopPack

\* The flag is cleared on the item that was packed and given to an execution, be it the
\* one in the table or an older one.
LEMMA EndJobsPack ==
    ASSUME OneDistributor, DistInv, DistInv', PackInv, NEW d \in Distributors, EndJobs(d)
    PROVE  PackInv'
  <1> DEFINE e == Distributed(job[d])
             s == [job[d] EXCEPT !.seen = e]
             fail == [s EXCEPT !.pc = "fail"]
  <1>1. /\ job[d] \in Jobs /\ job[d].pc = "final"
        /\ job[d].seen \in Records /\ Exists(job[d].seen)
    BY JobFields DEF EndJobs, JobAt, Ready, AfterGetItem, JobPhases
  <1>2. e \in Records /\ e.version = job[d].seen.version /\ e.deleted = job[d].seen.deleted
    BY <1>1 DEF Distributed, Jobs, Records, Statuses
  <1>3. Rank(e) = Rank(job[d].seen)
    BY <1>2 DEF Rank
  <1>4. s.seen = e /\ fail.seen = e /\ fail.pc = "fail"
    BY <1>1 DEF Jobs
  <1>5. PICK o \in Outcomes :
          /\ WriteRecord(s.seen, s.seen, o.applied)
          /\ job' = [job EXCEPT ![d] = IF o.ok THEN Done(s, "ok") ELSE [s EXCEPT !.pc = "fail"]]
    BY DEF EndJobs
  <1>6. WriteRecord(e, e, o.applied)
    BY <1>4, <1>5
  <1>7. Earned(e, summary, bucket, executions)
    BY <1>1, <1>2 DEF PackInv, PackPart, Holding, Shown, Earned, Given, Live, Exists
  <1>8. UNCHANGED <<bucket, handler, summary, executions>>
    BY DEF EndJobs
  <1> HIDE DEF e, s, fail
  <1>9. CASE o.ok
    <2>1. job' = [job EXCEPT ![d] = Done(s, "ok")]
      BY <1>5, <1>9
    <2>2. \A r : Holding(Done(s, "ok"), r, summary, bucket, executions)
      BY DoneHolds
    <2> HIDE DEF Done
    <2> QED
      BY <1>1, <1>2, <1>3, <1>6, <1>7, <1>8, <2>1, <2>2, WriterKeepsPack
  <1>10. CASE ~o.ok
    <2>1. job' = [job EXCEPT ![d] = fail]
      BY <1>5, <1>10 DEF fail
    <2>2. Shown(fail, summary, bucket, executions)
      BY <1>4 DEF Shown
    <2> QED
      BY <1>1, <1>2, <1>3, <1>4, <1>6, <1>7, <1>8, <2>1, <2>2, WriterKeepsPack
  <1> QED
    BY <1>9, <1>10

\* The failure path and GET /bookmarks/pages answer with the item as they saw it.
LEMMA LastWritePack ==
    ASSUME OneDistributor, DistInv, DistInv', PackInv, NEW d \in Distributors, NEW answer,
           FinishJob(d, answer), NEW e \in Records, NEW o \in Outcomes,
           WriteRecord(e, e, o.applied), Exists(job[d].seen), job[d].seen \in Records,
           Rank(e) = Rank(job[d].seen), e.modified = job[d].seen.modified,
           UNCHANGED <<bucket, handler, summary, executions>>
    PROVE  PackInv'
  <1>1. /\ e.version = job[d].seen.version /\ e.deleted = job[d].seen.deleted
        /\ Live(e) <=> Live(job[d].seen)
    BY RankIsInjective
  <1>2. Earned(e, summary, bucket, executions)
    BY <1>1 DEF PackInv, PackPart, Holding, Earned, Given, Exists
  <1>3. job' = [job EXCEPT ![d] = Done(job[d], answer)]
    BY DEF FinishJob
  <1>4. \A r : Holding(Done(job[d], answer), r, summary, bucket, executions)
    BY DoneHolds
  <1> HIDE DEF Done
  <1> QED
    BY <1>2, <1>3, <1>4, WriterKeepsPack

LEMMA FailJobPack ==
    ASSUME OneDistributor, DistInv, DistInv', PackInv, NEW d \in Distributors, FailJob(d)
    PROVE  PackInv'
  <1> DEFINE failed == StatusUpdate(job[d].seen, "Failed")
  <1>1. job[d] \in Jobs /\ Exists(job[d].seen) /\ job[d].seen \in Records
    BY JobFields DEF FailJob, JobAt, Ready, AfterGetItem, JobPhases
  <1>2. failed \in Records /\ Rank(failed) = Rank(job[d].seen)
    BY <1>1, StatusUpdateType DEF DistInv, IndInv
  <1>3. failed.modified = job[d].seen.modified
    BY <1>1 DEF StatusUpdate, Records
  <1>4. PICK o \in Outcomes : WriteRecord(failed, failed, o.applied)
    BY DEF FailJob
  <1>5. FinishJob(d, "error") /\ UNCHANGED <<bucket, handler, summary, executions>>
    BY DEF FailJob
  <1> HIDE DEF failed
  <1> QED
    BY <1>1, <1>2, <1>3, <1>4, <1>5, LastWritePack

LEMMA ExpirePack ==
    ASSUME OneDistributor, DistInv, DistInv', PackInv, NEW d \in Distributors,
           ExpireDistribution(d)
    PROVE  PackInv'
  <1> DEFINE e == job[d].seen
  <1>1. e \in Records /\ Exists(e)
    BY JobFields DEF ExpireDistribution, JobAt, Ready, AfterGetItem, JobPhases
  <1>2. FinishJob(d, "ok") /\ UNCHANGED <<replica, bucket, handler, now, summary, executions>>
    BY DEF ExpireDistribution
  <1>3. CASE \E o \in Outcomes : WriteRecord(e, e, o.applied)
    <2>1. PICK o \in Outcomes : WriteRecord(e, e, o.applied)
      BY <1>3
    <2> QED
      BY <1>1, <1>2, <2>1, LastWritePack
  <1>4. CASE UNCHANGED <<record, lostUpdate>>
    BY <1>2, <1>4, AnswersKeepPack DEF FinishJob, apiVars
  <1> QED
    BY <1>3, <1>4 DEF ExpireDistribution

LEMMA QueryPack ==
    ASSUME OneDistributor, DistInv, DistInv', PackInv, NEW d \in Distributors,
           QueryDevices(d)
    PROVE  PackInv'
  <1>1. UNCHANGED <<apiVars, summary, devices, executions>> /\ job[d] \in Jobs
    BY JobFields DEF QueryDevices
  <1>2. CASE FinishJob(d, "notFound") \/ FinishJob(d, "error")
    BY <1>1, <1>2, AnswersKeepPack DEF FinishJob
  <1>3. ASSUME NEW todo, job' = [job EXCEPT ![d].pc = "rows", ![d].rows = devices,
                                            ![d].todo = todo]
        PROVE  PackInv'
    <2> DEFINE s == [job[d] EXCEPT !.pc = "rows", !.rows = devices, !.todo = todo]
    <2>1. s.seen = job[d].seen /\ s.pc = "rows"
      BY <1>1 DEF Jobs
    <2>2. job' = [job EXCEPT ![d] = s]
      BY <1>1, <1>3 DEF Jobs, DistInv, JobPart
    <2> HIDE DEF s
    <2> QED
      BY <1>1, <2>1, <2>2, AtEasePack
  <1>4. \/ FinishJob(d, "notFound") \/ FinishJob(d, "error")
        \/ \E todo : job' = [job EXCEPT ![d].pc = "rows", ![d].rows = devices, ![d].todo = todo]
    BY DEF QueryDevices
  <1> QED
    BY <1>2, <1>3, <1>4

LEMMA RowOfLoopPack ==
    ASSUME OneDistributor, DistInv, DistInv', PackInv, NEW d \in Distributors,
           updateDelayedApplainceDistributionToTimeout(d)
    PROVE  PackInv'
  BY RowOfLoopMoves, AtEasePack

LEMMA JobDiesPack ==
    ASSUME OneDistributor, DistInv, DistInv', PackInv, NEW d \in Distributors,
           JobClientFails(d) \/ KillJob(d)
    PROVE  PackInv'
  <1>1. UNCHANGED <<apiVars, summary, devices, executions>> /\ job[d] \in Jobs
    BY JobFields DEF JobClientFails, KillJob
  <1>2. CASE FinishJob(d, "error")
    BY <1>1, <1>2, AnswersKeepPack DEF FinishJob
  <1>3. CASE Enter(d, "fail")
    <2> DEFINE s == [job[d] EXCEPT !.pc = "fail"]
    <2>1. job' = [job EXCEPT ![d] = s] /\ s.pc = "fail" /\ s.seen = job[d].seen
      BY <1>1, <1>3 DEF Enter, DistInv, JobPart, Jobs
    <2> HIDE DEF s
    <2> QED
      BY <1>1, <2>1, AtEasePack
  <1>4. CASE KillJob(d)
    <2> DEFINE s == [job[d] EXCEPT !.bodyless = FALSE]
    <2>1. job' = [job EXCEPT ![d] = Done(s, "error")]
      BY <1>4 DEF KillJob
    <2> HIDE DEF s
    <2> QED
      BY <1>1, <2>1, AnswersKeepPack
  <1> QED
    BY <1>2, <1>3, <1>4 DEF JobClientFails

-----------------------------------------------------------------------------
(* Every step.                                                             *)

LEMMA JobStepPack ==
    ASSUME OneDistributor, FreshReads, DistInv, DistInv', PackInv, NEW d \in Distributors,
           JobStep(d)
    PROVE  PackInv'
  <1>1. CASE ReceiveJob(d) \/ ReplyJob(d) \/ GetItemForDistribute(d) \/ GetItemForStatus(d)
    BY <1>1, ReceiveJobPack, GetItemPack
  <1>2. CASE validateDevices(d) \/ Lock(d) \/ GetObjectForPackage(d)
               \/ GetObjectForPackageFails(d) \/ PutPackage(d)
    BY <1>2, ValidateDevicesPack, LockPack, GetObjectPack, PutPackagePack
  <1>3. CASE addDistributionJobs(d) \/ AddDeviceRecord(d) \/ StartExecution(d) \/ EndJobs(d)
    BY <1>3, AddJobsPack, AddRecordPack, StartExecutionPack, EndJobsPack
  <1>4. CASE FailJob(d) \/ ExpireDistribution(d) \/ QueryDevices(d)
               \/ updateDelayedApplainceDistributionToTimeout(d)
               \/ JobClientFails(d) \/ KillJob(d)
    BY <1>4, FailJobPack, ExpirePack, QueryPack, RowOfLoopPack, JobDiesPack
  <1> QED
    BY <1>1, <1>2, <1>3, <1>4 DEF JobStep

\* Nobody moves; a distribution that ends keeps the version of its item and the flag.
LEMMA NobodyMovesPack ==
    ASSUME DistInv, DistInv', PackInv, UNCHANGED <<bucket, handler, summary, executions, job>>,
           Rank(record') = Rank(record), record'.modified = record.modified
    PROVE  PackInv'
  <1>1. ValidPart'
    BY DEF PackInv, ValidPart, ValidLists, ValidInHand
  <1>2. Turns'
    BY DEF PackInv, Turns, Served, InTurn
  <1>3. Earned(record', summary, bucket, executions)
    BY SameItem DEF PackInv, PackPart, Earned, Given
  <1>4. ASSUME NEW d \in Distributors
        PROVE  Holding(job[d], record', summary, bucket, executions)
    BY DEF PackInv, PackPart, Holding
  <1> QED
    BY <1>1, <1>2, <1>3, <1>4 DEF PackInv, PackPart

LEMMA DistNextPack ==
    ASSUME OneWriter, FreshReads, OneDistributor, DistInv, PackInv, [DistNext]_vars
    PROVE  PackInv'
  <1>1. DistInv'
    BY DistNextKeeps
  <1>2. CASE Next /\ UNCHANGED distVars
    BY <1>2, RoutesKeepPack
  <1>3. CASE \E d \in Distributors : JobStep(d)
    BY <1>1, <1>3, JobStepPack
  <1>4. CASE \E dev \in Devices : DeviceReports(dev)
    <2>1. UNCHANGED <<apiVars, summary, executions, job>>
      BY <1>4 DEF DeviceReports
    <2> QED
      BY <1>1, <2>1, NobodyMovesPack DEF apiVars
  <1>5. CASE DistributionEnds
    <2>1. /\ UNCHANGED <<bucket, handler, lostUpdate, job, summary, executions>>
          /\ record \in Records
      BY <1>5 DEF DistributionEnds, distVars, DistInv, IndInv, TypeOK
    <2>2. PICK status : record' = [record EXCEPT !.status = status, !.ended = TRUE]
      BY <1>5 DEF DistributionEnds
    <2>3. /\ record'.version = record.version /\ record'.deleted = record.deleted
          /\ record'.modified = record.modified
      BY <2>1, <2>2 DEF Records
    <2>4. Rank(record') = Rank(record)
      BY <2>3 DEF Rank
    <2> QED
      BY <1>1, <2>1, <2>3, <2>4, NobodyMovesPack
  <1>6. CASE UNCHANGED vars
    BY <1>1, <1>6, NobodyMovesPack DEF vars, apiVars, distVars
  <1> QED
    BY <1>2, <1>3, <1>4, <1>5, <1>6 DEF DistNext

LEMMA DistInitPack == DistInit => PackInv
  <1> SUFFICES ASSUME DistInit PROVE PackInv
    OBVIOUS
  <1>1. /\ record = NoRecord /\ handler = [h \in Handlers |-> Idle]
        /\ job = [d \in Distributors |-> IdleJob]
    BY DEF DistInit, InitDistributions, InitEmpty, InitLocal
  <1>2. ValidPart
    BY DistInitFlag DEF FlagInv
  <1>3. Turns
    BY <1>1 DEF Turns, Served, InTurn, Idle
  <1>4. Earned(record, summary, bucket, executions)
    BY <1>1 DEF Earned, Exists, NoRecord
  <1>5. IdleJob.pc = "idle" /\ ~Exists(IdleJob.seen)
    BY DEF IdleJob, Exists, NoRecord
  <1>6. Holding(IdleJob, record, summary, bucket, executions)
    BY <1>5, HoldsNothing
  <1> QED
    BY <1>1, <1>2, <1>3, <1>4, <1>6 DEF PackInv, PackPart

-----------------------------------------------------------------------------
\* With one handler that writes and one distribution at a time beside it, fresh reads
\* that do not fail, writes that fail with or without effect and invocations that die:
\* the flag is clear only for a version whose list was packaged and given to an
\* execution, and the package is that list for as long as it is stored, also when the
\* last update of a distribution undoes a PUT, a POST or a DELETE that came between.
THEOREM ClearedListsWerePackaged ==
    ASSUME OneWriter, FreshReads, OneDistributor
    PROVE  DistSpec => []ClearedListWasPackaged
  <1>1. DistInv /\ PackInv /\ [DistNext]_vars => PackInv'
    BY DistNextPack
  <1>2. PackInv => ClearedListWasPackaged
    BY DEF PackInv, PackPart, Earned, Shelved, Given, ClearedListWasPackaged
  <1> QED
    BY <1>1, <1>2, DistInitPack, DistInvariance, PTL DEF DistSpec
=============================================================================
