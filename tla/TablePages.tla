------------------------------ MODULE TablePages ------------------------------
(***************************************************************************)
(* The two walks over a table of pkg/dynamodb: GetRecordsByPagination,     *)
(* which a caller repeats with the key it was given until there is none,   *)
(* and DeleteBatchRecords, which scans the table and deletes what matches  *)
(* a filter, batch by batch.  Both walk while others write and delete      *)
(* single records, and read with eventual consistency.  A record is its    *)
(* key, a number in the order of the walk; DynamoDB itself is external.    *)
(* One walk of each kind is followed, over any table.                      *)
(***************************************************************************)
EXTENDS Integers, FiniteSets, SequencesExt

CONSTANTS K,              \* bound: the keys are 1 .. K
          pageLimit,      \* how many records a call of the caller asks for
          maxBatchSize,   \* how many records a page of the scan evaluates
          MaxChanges,     \* bound: how often a single record is written or deleted
          MaxErrors       \* bound: how many calls fail

ASSUME TableAssumption == /\ K \in Nat
                          /\ pageLimit \in Nat \ {0}
                          /\ maxBatchSize \in Nat \ {0}
                          /\ MaxChanges \in Nat /\ MaxErrors \in Nat

VARIABLES table,      \* the record of each key: none, one the filter selects, another
          replica,    \* what an eventually consistent read may see of it
          changes,    \* how many single records were written or deleted
          errors,     \* how many calls failed
          reader,     \* GetRecordsByPagination and its caller
          delivered,  \* what the caller has been given during its walk
          standing,   \* history: the keys that were there during all of that walk
          deleter,    \* DeleteBatchRecords
          doomed      \* history: the keys that matched during all of that call

readVars   == <<reader, delivered, standing>>
deleteVars == <<deleter, doomed>>
tableVars  == <<table, replica, changes, errors, readVars, deleteVars>>

Keys    == 1 .. K
Records == {"none", "match", "other"}

Present(view) == {k \in Keys : view[k] # "none"}
Matches(view) == {k \in Keys : view[k] = "match"}

\* Keys in the order of the walk.
Ascending(keys) == \A i, j \in DOMAIN keys : i < j => keys[i] < keys[j]

-----------------------------------------------------------------------------
(* A page of a query or of a scan, external: at most limit records behind  *)
(* start, fewer when they are large, in the order of the walk and without  *)
(* a gap.  more is set when the paginator got a key to go on from: always  *)
(* when records are left, and possibly when the page was cut behind the    *)
(* last one.                                                               *)

Pages(view, start, limit) ==
    LET rest == {k \in Present(view) : k > start}
    IN  {p \in [items : SeqOf(rest, limit), more : BOOLEAN] :
            /\ Ascending(p.items)
            /\ \A k \in rest \ ToSet(p.items) :
                  p.more /\ \A i \in DOMAIN p.items : p.items[i] < k
            /\ p.more => p.items # <<>>}

LastKey(items, start) == IF items = <<>> THEN start ELSE Last(items)

-----------------------------------------------------------------------------
(* GetRecordsByPagination.                                                 *)

\* A call from the key that the caller holds, 0 for none; pos is the state of the
\* paginator.  strayed is history: the caller went on from the key of an error.
Calling(key, strayed) ==
    [pc |-> "query", given |-> key, pos |-> key, got |-> <<>>, strayed |-> strayed]

StartRead ==
    /\ reader.pc = "idle"
    /\ reader' = Calling(0, FALSE)
    /\ delivered' = <<>>
    /\ standing' = Present(table) \intersect Present(replica)
    /\ UNCHANGED <<table, replica, changes, errors, deleteVars>>

\* Mutant: the caller goes on behind the last record that was read.
KeyOfPage(items, pending) == Last(items)

\* buildExclusiveStartKey of the last record that is handed out.
KeyToGoOn(items, pending) == items[pending]

\* Mutant: a page that brings just what is missing is not enough.
EnoughAndMore(n, pending) == n > pending

Enough(n, pending) == n >= pending

\* A page may have more records than are still to be had: the rest of it is
\* dropped and read again.  The paginator that has no more pages ends the walk.
NextPage ==
    /\ reader.pc = "query"
    /\ \E view \in {table, replica} : \E p \in Pages(view, reader.pos, pageLimit) :
          LET pending == pageLimit - Len(reader.got)
          IN  IF Enough(Len(p.items), pending)
                THEN /\ delivered' = delivered \o reader.got \o SubSeq(p.items, 1, pending)
                     /\ reader' = Calling(KeyToGoOn(p.items, pending), reader.strayed)
              ELSE IF p.more
                THEN /\ reader' = [reader EXCEPT !.got = @ \o p.items,
                                                 !.pos = LastKey(p.items, @)]
                     /\ UNCHANGED delivered
              ELSE /\ delivered' = delivered \o reader.got \o p.items
                   /\ reader' = [Calling(0, reader.strayed) EXCEPT !.pc = "ended"]
    /\ UNCHANGED <<table, replica, changes, errors, standing, deleteVars>>

\* Mutant: the key of the page that failed is returned.
KeyReached(r) == r.pos

\* Mutant: no key is returned.
KeyForgotten(r) == 0

\* What a call returns when a page cannot be had: the key it was given, and no
\* records.  (A call whose entity has no key is refused before it reads a page, and
\* always: a walk never starts with it.)
KeyAfterError(r) == r.given

NextPageFails ==
    /\ reader.pc = "query"
    /\ errors < MaxErrors /\ errors' = errors + 1
    /\ reader' = Calling(KeyAfterError(reader), reader.strayed)
    /\ UNCHANGED <<table, replica, changes, delivered, standing, deleteVars>>

\* What was read cannot be converted: the error comes without usable records, but
\* with the key to go on behind them, or with none after the last page.  The caller
\* goes on from the key it held, or from that one.
ConversionFails ==
    /\ reader.pc = "query"
    /\ errors < MaxErrors /\ errors' = errors + 1
    /\ \E view \in {table, replica} : \E p \in Pages(view, reader.pos, pageLimit) :
          LET pending == pageLimit - Len(reader.got)
              enough == Enough(Len(p.items), pending)
              key == IF enough THEN KeyToGoOn(p.items, pending) ELSE 0
          IN  /\ enough \/ ~p.more
              /\ reader.got \o p.items # <<>>
              /\ reader' \in {Calling(reader.given, reader.strayed), Calling(key, TRUE)}
    /\ UNCHANGED <<table, replica, changes, delivered, standing, deleteVars>>

-----------------------------------------------------------------------------
(* DeleteBatchRecords.                                                     *)

Scan(pos) == [pc |-> "scan", pos |-> pos, more |-> TRUE, batch |-> {}, left |-> FALSE]

StartDelete ==
    /\ deleter.pc = "idle"
    /\ deleter' = Scan(0)
    /\ doomed' = Matches(table) \intersect Matches(replica)
    /\ UNCHANGED <<table, replica, changes, errors, readVars>>

\* The filter is applied to the records that the page has evaluated.
ScanPage ==
    /\ deleter.pc = "scan"
    /\ \E view \in {table, replica} : \E p \in Pages(view, deleter.pos, maxBatchSize) :
          deleter' = [deleter EXCEPT !.pc = "write", !.more = p.more,
                         !.pos = LastKey(p.items, @),
                         !.batch = ToSet(p.items) \intersect Matches(view)]
    /\ UNCHANGED <<table, replica, changes, errors, readVars, doomed>>

DeleteItems(S) ==
    /\ table' = [k \in Keys |-> IF k \in S THEN "none" ELSE table[k]]
    /\ standing' = standing \ S
    /\ doomed' = doomed \ S

\* Mutant: a page that is not full is taken for the last one.
EndsShort(d) == [d EXCEPT !.batch = {},
    !.pc = IF d.more /\ Cardinality(d.batch) = maxBatchSize THEN "scan" ELSE "ok"]

AfterBatch(d) == [d EXCEPT !.batch = {}, !.pc = IF d.more THEN "scan" ELSE "ok"]

\* Records that BatchWriteItem leaves unprocessed are not looked at.
DeleteBatch ==
    /\ deleter.pc = "write" /\ deleter.batch # {}
    /\ \E left \in SUBSET deleter.batch :
          /\ DeleteItems(deleter.batch \ left)
          /\ deleter' = AfterBatch([deleter EXCEPT !.left = @ \/ left # {}])
    /\ UNCHANGED <<replica, changes, errors, reader, delivered>>

\* A page without a match makes a batch without requests, which DynamoDB refuses:
\* the scan is given up.
EmptyBatch ==
    /\ deleter.pc = "write" /\ deleter.batch = {}
    /\ deleter' = [deleter EXCEPT !.pc = "failed"]
    /\ UNCHANGED <<table, replica, changes, errors, readVars, doomed>>

\* A call that is reported as failed may have deleted some.
DeleteFails ==
    /\ deleter.pc \in {"scan", "write"}
    /\ errors < MaxErrors /\ errors' = errors + 1
    /\ \E done \in SUBSET deleter.batch : DeleteItems(done)
    /\ deleter' = [deleter EXCEPT !.pc = "failed", !.batch = {}]
    /\ UNCHANGED <<replica, changes, reader, delivered>>

-----------------------------------------------------------------------------
(* Single records, and the replica.                                        *)

Change(k, r) ==
    /\ changes < MaxChanges
    /\ changes' = changes + 1
    /\ table' = [table EXCEPT ![k] = r]
    /\ standing' = IF r = "none" THEN standing \ {k} ELSE standing
    /\ doomed' = IF r = "match" THEN doomed ELSE doomed \ {k}
    /\ UNCHANGED <<replica, errors, reader, delivered, deleter>>

\* PutItem replaces the whole record.
AddRecord == \E k \in Keys, r \in {"match", "other"} : table[k] # r /\ Change(k, r)

DeleteRecordByKey == \E k \in Keys : table[k] # "none" /\ Change(k, "none")

Replicate ==
    /\ \E k \in Keys :
          /\ replica[k] # table[k]
          /\ replica' = [replica EXCEPT ![k] = table[k]]
    /\ UNCHANGED <<table, changes, errors, readVars, deleteVars>>

-----------------------------------------------------------------------------
TableInit ==
    /\ table \in [Keys -> Records] /\ replica = table
    /\ changes = 0 /\ errors = 0
    /\ reader = [Calling(0, FALSE) EXCEPT !.pc = "idle"]
    /\ delivered = <<>> /\ standing = {}
    /\ deleter = [Scan(0) EXCEPT !.pc = "idle"]
    /\ doomed = {}

TableNext == \/ StartRead \/ NextPage \/ NextPageFails \/ ConversionFails
             \/ StartDelete \/ ScanPage \/ DeleteBatch \/ EmptyBatch \/ DeleteFails
             \/ AddRecord \/ DeleteRecordByKey \/ Replicate

TableSpec == TableInit /\ [][TableNext]_tableVars

-----------------------------------------------------------------------------
TableTypeOK ==
    /\ {table, replica} \subseteq [Keys -> Records]
    /\ changes \in 0 .. MaxChanges /\ errors \in 0 .. MaxErrors
    /\ reader \in [pc : {"idle", "query", "ended"}, given : 0 .. K, pos : 0 .. K,
                   got : Seq(Keys), strayed : BOOLEAN]
    /\ Len(reader.got) < pageLimit
    /\ delivered \in Seq(Keys)
    /\ deleter \in [pc : {"idle", "scan", "write", "ok", "failed"}, pos : 0 .. K,
                    more : BOOLEAN, batch : SUBSET Keys, left : BOOLEAN]
    /\ standing \subseteq Keys /\ doomed \subseteq Keys

\* No record is handed out twice, and none out of order: not when a call fails
\* half-way and is repeated with the key the caller held, not when pages come short
\* or are cut, and not when records come and go, or are read stale, behind that key.
\* A caller that goes on from the key of a conversion error has no such promise.
HandedOutInOrder == ~reader.strayed => Ascending(delivered)

\* A record that was there during the whole walk of such a caller is handed out,
\* whatever was dropped from pages and forgotten in errors.
StandingHandedOut ==
    (reader.pc = "ended" /\ ~reader.strayed) => standing \subseteq ToSet(delivered)

\* When DeleteBatchRecords returns no error, every record that matched during the
\* whole call is gone, unless DynamoDB left some of a batch unprocessed.
MatchesGone == (deleter.pc = "ok" /\ ~deleter.left) => doomed = {}
=============================================================================
