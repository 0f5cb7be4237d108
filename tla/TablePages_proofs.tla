------------------------- MODULE TablePages_proofs -------------------------
(***************************************************************************)
(* Theorems about TablePages, for every number of keys, page limit, batch  *)
(* size and bound.                                                         *)
(***************************************************************************)
EXTENDS TablePages, SequenceTheorems, TLAPS

-----------------------------------------------------------------------------
(* Pages.                                                                  *)

LEMMA KeysAreNumbers ==
    K \in Nat /\ Keys \subseteq Nat /\ \A k \in Keys : k \in 0 .. K /\ 1 <= k /\ k <= K
  BY TableAssumption DEF Keys

\* So are those of a sequence of keys.
LEMMA KeysOfSequence ==
    ASSUME NEW s \in Seq(Keys)
    PROVE  /\ DOMAIN s = 1 .. Len(s) /\ Len(s) \in Nat
           /\ \A i \in DOMAIN s : s[i] \in Keys /\ s[i] \in Nat /\ 1 <= s[i] /\ s[i] <= K
  <1>1. \A i \in DOMAIN s : s[i] \in Keys
    OBVIOUS
  <1>2. DOMAIN s = 1 .. Len(s) /\ Len(s) \in Nat
    OBVIOUS
  <1> QED
    BY <1>1, <1>2, KeysAreNumbers

\* A page is in the order of the walk and lies behind its start; what it leaves
\* out lies behind its last record, and nothing is left out of the last page.
LEMMA PageFacts ==
    ASSUME NEW view \in [Keys -> Records], NEW start \in 0 .. K, NEW limit \in Nat,
           NEW p \in Pages(view, start, limit)
    PROVE  /\ p.items \in Seq(Keys) /\ Len(p.items) <= limit /\ p.more \in BOOLEAN
           /\ Ascending(p.items)
           /\ \A i \in DOMAIN p.items : p.items[i] > start
           /\ \A k \in Present(view) : k > start =>
                 \/ k \in ToSet(p.items)
                 \/ p.more /\ \A i \in DOMAIN p.items : p.items[i] < k
           /\ p.more => p.items # <<>>
  <1> DEFINE rest == {k \in Present(view) : k > start}
  <1>1. /\ p \in [items : SeqOf(rest, limit), more : BOOLEAN]
        /\ Ascending(p.items)
        /\ \A k \in rest \ ToSet(p.items) : p.more /\ \A i \in DOMAIN p.items : p.items[i] < k
        /\ p.more => p.items # <<>>
    BY DEF Pages
  <1>2. PICK n \in 0 .. limit : p.items \in [1 .. n -> rest]
    BY <1>1 DEF SeqOf
  <1>3. rest \subseteq Keys
    BY DEF Present
  <1>4. p.items \in Seq(Keys) /\ Len(p.items) = n
    BY <1>2, <1>3
  <1>5. \A i \in DOMAIN p.items : p.items[i] \in rest
    BY <1>2
  <1> QED
    BY <1>1, <1>2, <1>4, <1>5

\* The key of the last record of a page bounds the keys of the page.
LEMMA LastKeyFacts ==
    ASSUME NEW items \in Seq(Keys), Ascending(items), NEW start \in 0 .. K,
           \A i \in DOMAIN items : items[i] > start
    PROVE  /\ LastKey(items, start) \in 0 .. K
           /\ start <= LastKey(items, start)
           /\ \A i \in DOMAIN items : items[i] <= LastKey(items, start)
           /\ items # <<>> => LastKey(items, start) = items[Len(items)]
  <1>1. CASE items = <<>>
    BY <1>1 DEF LastKey
  <1>2. CASE items # <<>>
    <2>1. Len(items) \in DOMAIN items /\ Len(items) \in Nat
      BY <1>2
    <2>2. LastKey(items, start) = items[Len(items)]
      BY <1>2 DEF LastKey, Last
    <2>3. \A i \in DOMAIN items : i \in Nat /\ i <= Len(items)
      OBVIOUS
    <2>4. \A i \in DOMAIN items : items[i] <= items[Len(items)]
      BY KeysOfSequence, <2>1, <2>3 DEF Ascending
    <2> QED
      BY KeysOfSequence, <2>1, <2>2, <2>4
  <1> QED
    BY <1>1, <1>2

\* Two sequences in order are in order behind each other, when the first ends
\* before the second begins.
LEMMA AscendingConcat ==
    ASSUME NEW s \in Seq(Keys), NEW t \in Seq(Keys), Ascending(s), Ascending(t),
           NEW m \in Nat, \A i \in DOMAIN s : s[i] <= m, \A i \in DOMAIN t : m < t[i]
    PROVE  /\ s \o t \in Seq(Keys) /\ Len(s \o t) = Len(s) + Len(t)
           /\ Ascending(s \o t)
           /\ ToSet(s \o t) = ToSet(s) \union ToSet(t)
  <1> DEFINE st == s \o t
  <1>1. /\ st \in Seq(Keys) /\ Len(st) = Len(s) + Len(t)
        /\ Len(s) \in Nat /\ Len(t) \in Nat
        /\ DOMAIN st = 1 .. Len(s) + Len(t)
        /\ \A i \in 1 .. Len(s) + Len(t) :
              st[i] = IF i <= Len(s) THEN s[i] ELSE t[i - Len(s)]
    BY ConcatProperties
  <1>2. DOMAIN s = 1 .. Len(s) /\ DOMAIN t = 1 .. Len(t)
    OBVIOUS
  <1>3. \A i \in DOMAIN s : s[i] \in Nat
    BY KeysOfSequence
  <1>4. \A i \in DOMAIN t : t[i] \in Nat
    BY KeysOfSequence
  <1>5. ASSUME NEW i \in DOMAIN st, NEW j \in DOMAIN st, i < j
        PROVE  st[i] < st[j]
    <2>1. CASE j <= Len(s)
      BY <1>1, <1>2, <1>5, <2>1 DEF Ascending
    <2>2. CASE i > Len(s)
      <3>1. i - Len(s) \in DOMAIN t /\ j - Len(s) \in DOMAIN t /\ i - Len(s) < j - Len(s)
        BY <1>1, <1>2, <1>5, <2>2
      <3> QED
        BY <1>1, <1>5, <2>2, <3>1 DEF Ascending
    <2>3. CASE i <= Len(s) /\ j > Len(s)
      <3>1. i \in DOMAIN s /\ j - Len(s) \in DOMAIN t
        BY <1>1, <1>2, <2>3
      <3>2. st[i] = s[i] /\ st[j] = t[j - Len(s)]
        BY <1>1, <2>3
      <3> QED
        BY <1>3, <1>4, <3>1, <3>2
    <2> QED
      BY <1>1, <2>1, <2>2, <2>3
  <1>6. \A i \in DOMAIN s : i \in DOMAIN st /\ st[i] = s[i]
    BY <1>1, <1>2
  <1>7. \A i \in DOMAIN t : i + Len(s) \in DOMAIN st /\ st[i + Len(s)] = t[i]
    BY <1>1, <1>2
  <1>8. \A i \in DOMAIN st : \/ i \in DOMAIN s /\ st[i] = s[i]
                             \/ i - Len(s) \in DOMAIN t /\ st[i] = t[i - Len(s)]
    BY <1>1, <1>2
  <1>9. ToSet(st) = ToSet(s) \union ToSet(t)
    <2>1. ToSet(st) \subseteq ToSet(s) \union ToSet(t)
      BY <1>8 DEF ToSet
    <2>2. ToSet(s) \subseteq ToSet(st)
      BY <1>6 DEF ToSet
    <2>3. ASSUME NEW k \in ToSet(t) PROVE k \in ToSet(st)
      <3>1. PICK i \in DOMAIN t : k = t[i]
        BY DEF ToSet
      <3>2. i + Len(s) \in DOMAIN st /\ st[i + Len(s)] = k
        BY <1>7, <3>1
      <3> QED
        BY <3>2 DEF ToSet
    <2> QED
      BY <2>1, <2>2, <2>3
  <1> QED
    BY <1>1, <1>5, <1>9 DEF Ascending

\* The first n of a sequence in order: what is left out lies behind the last.
LEMMA AscendingHead ==
    ASSUME NEW s \in Seq(Keys), Ascending(s), NEW n \in 1 .. Len(s)
    PROVE  /\ SubSeq(s, 1, n) \in Seq(Keys) /\ Ascending(SubSeq(s, 1, n))
           /\ s[n] \in Keys
           /\ \A i \in DOMAIN SubSeq(s, 1, n) : i \in DOMAIN s /\ SubSeq(s, 1, n)[i] = s[i]
           /\ \A i \in DOMAIN SubSeq(s, 1, n) : SubSeq(s, 1, n)[i] <= s[n]
           /\ \A k \in ToSet(s) : k <= s[n] => k \in ToSet(SubSeq(s, 1, n))
  <1> DEFINE h == SubSeq(s, 1, n)
  <1>1. /\ h \in Seq(Keys) /\ Len(h) = n
        /\ \A i \in 1 .. n : h[i] = s[i]
    BY SubSeqProperties
  <1>2. DOMAIN h = 1 .. n /\ DOMAIN s = 1 .. Len(s) /\ Len(s) \in Nat /\ n \in DOMAIN s
    BY <1>1
  <1>3. \A i \in DOMAIN s : s[i] \in Nat
    BY KeysOfSequence
  <1>4. Ascending(h)
    BY <1>1, <1>2 DEF Ascending
  <1>5. \A i \in DOMAIN h : i \in DOMAIN s /\ h[i] = s[i] /\ h[i] <= s[n]
    BY <1>1, <1>2, <1>3 DEF Ascending
  <1>6. ASSUME NEW k \in ToSet(s), k <= s[n]
        PROVE  k \in ToSet(h)
    <2>1. PICK i \in DOMAIN s : k = s[i]
      BY DEF ToSet
    <2>2. ~(n < i)
      BY <1>2, <1>3, <1>6, <2>1 DEF Ascending
    <2>3. i \in DOMAIN h /\ h[i] = k
      BY <1>1, <1>2, <2>1, <2>2
    <2> QED
      BY <2>3 DEF ToSet
  <1> QED
    BY <1>1, <1>2, <1>4, <1>5, <1>6
-----------------------------------------------------------------------------
(* The invariant.                                                          *)

\* What stood during a walk is in both views, and so is what matched during a
\* deletion.
HistoryPart ==
    /\ standing \subseteq Present(table) \intersect Present(replica)
    /\ doomed \subseteq Matches(table) \intersect Matches(replica)

\* What has been handed out comes before the key that the caller holds, and what
\* the call has read comes between that key and the position of the paginator.
InOrder ==
    /\ Ascending(delivered) /\ Ascending(reader.got)
    /\ reader.given <= reader.pos
    /\ \A i \in DOMAIN reader.got : reader.given < reader.got[i] /\ reader.got[i] <= reader.pos
    /\ reader.pc # "ended" => \A i \in DOMAIN delivered : delivered[i] <= reader.given

\* No record that stood is skipped on the way there.
NoneSkipped ==
    /\ reader.pc # "ended" =>
          \A k \in standing : /\ k <= reader.given => k \in ToSet(delivered)
                              /\ (reader.given < k /\ k <= reader.pos) => k \in ToSet(reader.got)
    /\ reader.pc = "ended" => \A k \in standing : k \in ToSet(delivered)

\* So it is as long as the caller has not gone on from the key of an error.
WalkPart     == ~reader.strayed => InOrder
StandingPart == ~reader.strayed => NoneSkipped

\* A record that matched and that the scan has passed is in the batch at hand,
\* unless DynamoDB has left one unprocessed.
DoomedPart ==
    /\ deleter.pc = "scan" => deleter.batch = {}
    /\ deleter.pc \in {"scan", "write"} =>
          \A k \in doomed : k <= deleter.pos => (k \in deleter.batch \/ deleter.left)
    /\ (deleter.pc = "write" /\ ~deleter.more) =>
          \A k \in doomed : k \in deleter.batch \/ deleter.left
    /\ MatchesGone

TableInv == TableTypeOK /\ HistoryPart /\ WalkPart /\ StandingPart /\ DoomedPart

-----------------------------------------------------------------------------
(* Fewer records stand, or are doomed.                                     *)

LEMMA FewerStanding ==
    ASSUME StandingPart, standing' \subseteq standing, UNCHANGED <<reader, delivered>>
    PROVE  StandingPart'
  BY DEF StandingPart, NoneSkipped

LEMMA FewerDoomed ==
    ASSUME DoomedPart, doomed' \subseteq doomed, UNCHANGED deleter
    PROVE  DoomedPart'
  BY DEF DoomedPart, MatchesGone

LEMMA SameWalk ==
    ASSUME WalkPart, UNCHANGED <<reader, delivered>>
    PROVE  WalkPart'
  BY DEF WalkPart, InOrder, Ascending

-----------------------------------------------------------------------------
(* GetRecordsByPagination keeps the invariant.                             *)

LEMMA StartReadKeeps ==
    ASSUME TableInv, StartRead
    PROVE  TableInv'
  <1>1. /\ reader' = [pc |-> "query", given |-> 0, pos |-> 0, got |-> <<>>, strayed |-> FALSE]
        /\ delivered' = <<>>
        /\ standing' = Present(table) \intersect Present(replica)
        /\ UNCHANGED <<table, replica, changes, errors, deleter, doomed>>
    BY DEF StartRead, Calling, deleteVars
  <1>2. standing' \subseteq Keys /\ \A k \in standing' : ~(k <= 0)
    BY <1>1, KeysAreNumbers DEF Present
  <1>3. TableTypeOK'
    BY <1>1, <1>2, KeysAreNumbers, TableAssumption DEF TableInv, TableTypeOK
  <1>4. HistoryPart'
    BY <1>1 DEF TableInv, HistoryPart, Present, Matches
  <1>5. WalkPart'
    BY <1>1 DEF WalkPart, InOrder, Ascending
  <1>6. StandingPart'
    BY <1>1, <1>2, KeysAreNumbers DEF StandingPart, NoneSkipped
  <1>7. DoomedPart'
    BY <1>1, FewerDoomed DEF TableInv
  <1> QED
    BY <1>3, <1>4, <1>5, <1>6, <1>7 DEF TableInv

\* A call that hands out nothing is followed by another.
LEMMA CallingKeeps ==
    ASSUME TableInv, NEW key \in 0 .. K, NEW strayed \in BOOLEAN,
           reader' = Calling(key, strayed), reader.pc # "ended",
           strayed \/ (key = reader.given /\ strayed = reader.strayed),
           errors < MaxErrors, errors' = errors + 1,
           UNCHANGED <<table, replica, changes, delivered, standing, deleter, doomed>>
    PROVE  TableInv'
  <1>1. reader' = [pc |-> "query", given |-> key, pos |-> key, got |-> <<>>,
                   strayed |-> strayed]
    BY DEF Calling
  <1>2. errors' \in 0 .. MaxErrors
    BY TableAssumption DEF TableInv, TableTypeOK
  <1>3. TableTypeOK'
    BY <1>1, <1>2, TableAssumption DEF TableInv, TableTypeOK
  <1>4. HistoryPart'
    BY DEF TableInv, HistoryPart, Present, Matches
  <1>5. DoomedPart'
    BY FewerDoomed DEF TableInv
  <1>6. CASE strayed
    BY <1>1, <1>3, <1>4, <1>5, <1>6 DEF TableInv, WalkPart, StandingPart
  <1>7. CASE ~strayed
    <2>1. ~reader.strayed /\ key = reader.given /\ key \in Nat
      BY <1>7, KeysAreNumbers
    <2>2. WalkPart'
      BY <1>1, <2>1 DEF TableInv, WalkPart, InOrder, Ascending
    <2>3. \A k \in standing : k \in Nat /\ ~(key < k /\ k <= key)
      BY <2>1, KeysAreNumbers DEF TableInv, TableTypeOK
    <2>4. StandingPart'
      BY <1>1, <2>1, <2>3 DEF TableInv, StandingPart, NoneSkipped
    <2> QED
      BY <1>3, <1>4, <1>5, <2>2, <2>4 DEF TableInv
  <1> QED
    BY <1>6, <1>7

LEMMA NextPageFailsKeeps ==
    ASSUME TableInv, NextPageFails
    PROVE  TableInv'
  <1>1. reader.given \in 0 .. K /\ reader.strayed \in BOOLEAN
    BY DEF TableInv, TableTypeOK
  <1>2. /\ reader.pc = "query" /\ reader' = Calling(reader.given, reader.strayed)
        /\ errors < MaxErrors /\ errors' = errors + 1
        /\ UNCHANGED <<table, replica, changes, delivered, standing, deleter, doomed>>
    BY DEF NextPageFails, KeyAfterError, deleteVars
  <1> QED
    BY <1>1, <1>2, CallingKeeps

\* The key of a conversion error is one of the table, or none.
LEMMA ConversionFailsKeeps ==
    ASSUME TableInv, ConversionFails
    PROVE  TableInv'
  <1>1. PICK view \in {table, replica} : \E p \in Pages(view, reader.pos, pageLimit) :
          LET pending == pageLimit - Len(reader.got)
              enough == Enough(Len(p.items), pending)
              key == IF enough THEN KeyToGoOn(p.items, pending) ELSE 0
          IN  reader' \in {Calling(reader.given, reader.strayed), Calling(key, TRUE)}
    BY DEF ConversionFails
  <1> DEFINE pending == pageLimit - Len(reader.got)
  <1>2. PICK p \in Pages(view, reader.pos, pageLimit) :
          LET enough == Enough(Len(p.items), pending)
              key == IF enough THEN KeyToGoOn(p.items, pending) ELSE 0
          IN  reader' \in {Calling(reader.given, reader.strayed), Calling(key, TRUE)}
    BY <1>1
  <1> DEFINE key == IF Enough(Len(p.items), pending) THEN KeyToGoOn(p.items, pending) ELSE 0
  <1>3. /\ reader.given \in 0 .. K /\ reader.strayed \in BOOLEAN /\ reader.pos \in 0 .. K
        /\ view \in [Keys -> Records] /\ pageLimit \in Nat
        /\ reader.got \in Seq(Keys) /\ Len(reader.got) < pageLimit
    BY TableAssumption DEF TableInv, TableTypeOK
  <1>4. key \in 0 .. K
    <2>1. p.items \in Seq(Keys)
      BY <1>3, PageFacts
    <2>2. CASE Enough(Len(p.items), pending)
      <3>1. pending \in Nat \ {0} /\ Len(p.items) \in Nat
        BY <1>3, <2>1
      <3> HIDE DEF pending
      <3>2. pending <= Len(p.items)
        BY <2>2, <3>1 DEF Enough
      <3>3. p.items[pending] \in Keys
        BY <2>1, <3>1, <3>2
      <3> QED
        BY <2>2, <3>3, KeysAreNumbers DEF KeyToGoOn
    <2>3. CASE ~Enough(Len(p.items), pending)
      BY <2>3, KeysAreNumbers
    <2> QED
      BY <2>2, <2>3
  <1>5. /\ reader.pc = "query" /\ errors < MaxErrors /\ errors' = errors + 1
        /\ UNCHANGED <<table, replica, changes, delivered, standing, deleter, doomed>>
    BY DEF ConversionFails, deleteVars
  <1>6. reader' = Calling(reader.given, reader.strayed) \/ reader' = Calling(key, TRUE)
    BY <1>2
  <1> HIDE DEF key
  <1> QED
    BY <1>3, <1>4, <1>5, <1>6, CallingKeeps

\* What has been handed out and what the call has read, behind each other, are in
\* order, do not pass the position of the paginator and skip nothing that stood.
LEMMA ReadSoFar ==
    ASSUME TableInv, reader.pc = "query", ~reader.strayed
    PROVE  LET all == delivered \o reader.got
           IN  /\ all \in Seq(Keys) /\ Ascending(all)
               /\ \A i \in DOMAIN all : all[i] <= reader.pos
               /\ \A k \in standing : k <= reader.pos => k \in ToSet(all)
  <1> DEFINE all == delivered \o reader.got
  <1>1. /\ delivered \in Seq(Keys) /\ reader.got \in Seq(Keys)
        /\ reader.given \in Nat /\ reader.pos \in Nat /\ standing \subseteq Keys
    BY KeysAreNumbers DEF TableInv, TableTypeOK
  <1>2. /\ Ascending(delivered) /\ Ascending(reader.got)
        /\ reader.given <= reader.pos
        /\ \A i \in DOMAIN delivered : delivered[i] <= reader.given
        /\ \A i \in DOMAIN reader.got : reader.given < reader.got[i] /\ reader.got[i] <= reader.pos
    BY DEF TableInv, WalkPart, InOrder
  <1>3. all \in Seq(Keys) /\ Ascending(all) /\ ToSet(all) = ToSet(delivered) \union ToSet(reader.got)
    BY <1>1, <1>2, AscendingConcat
  <1>4. ASSUME NEW i \in DOMAIN all PROVE all[i] <= reader.pos
    <2>1. all[i] \in ToSet(delivered) \union ToSet(reader.got)
      BY <1>3 DEF ToSet
    <2>2. CASE all[i] \in ToSet(delivered)
      <3>1. PICK j \in DOMAIN delivered : all[i] = delivered[j]
        BY <2>2 DEF ToSet
      <3>2. delivered[j] \in Nat
        BY <1>1, KeysOfSequence
      <3> QED
        BY <1>1, <1>2, <3>1, <3>2
    <2>3. CASE all[i] \in ToSet(reader.got)
      <3>1. PICK j \in DOMAIN reader.got : all[i] = reader.got[j]
        BY <2>3 DEF ToSet
      <3> QED
        BY <1>2, <3>1
    <2> QED
      BY <2>1, <2>2, <2>3
  <1>5. ASSUME NEW k \in standing, k <= reader.pos PROVE k \in ToSet(all)
    <2>1. k \in Nat
      BY <1>1, KeysAreNumbers
    <2>2. CASE k <= reader.given
      BY <1>3, <2>2 DEF TableInv, StandingPart, NoneSkipped
    <2>3. CASE reader.given < k
      BY <1>3, <1>5, <2>3 DEF TableInv, StandingPart, NoneSkipped
    <2> QED
      BY <1>1, <2>1, <2>2, <2>3
  <1> QED
    BY <1>3, <1>4, <1>5

\* What a page adds to what was read before it, handed out or not.
LEMMA PageBehind ==
    ASSUME NEW s \in Seq(Keys), Ascending(s), NEW pos \in 0 .. K,
           \A i \in DOMAIN s : s[i] <= pos,
           NEW t \in Seq(Keys), Ascending(t), \A i \in DOMAIN t : t[i] > pos
    PROVE  /\ s \o t \in Seq(Keys) /\ Len(s \o t) = Len(s) + Len(t)
           /\ Ascending(s \o t)
           /\ ToSet(s \o t) = ToSet(s) \union ToSet(t)
  <1>1. pos \in Nat
    BY KeysAreNumbers
  <1>2. \A i \in DOMAIN t : pos < t[i]
    BY <1>1, KeysOfSequence
  <1> QED
    BY <1>1, <1>2, AscendingConcat

\* A page keeps what the caller was promised.
LEMMA NextPageInOrder ==
    ASSUME TableInv, NextPage, ~reader.strayed
    PROVE  WalkPart' /\ StandingPart'
  <1>0. PICK view \in {table, replica} : \E p \in Pages(view, reader.pos, pageLimit) :
            LET pending == pageLimit - Len(reader.got)
            IN  IF Enough(Len(p.items), pending)
                  THEN /\ delivered' = delivered \o reader.got \o SubSeq(p.items, 1, pending)
                       /\ reader' = Calling(KeyToGoOn(p.items, pending), reader.strayed)
                ELSE IF p.more
                  THEN /\ reader' = [reader EXCEPT !.got = @ \o p.items,
                                                   !.pos = LastKey(p.items, @)]
                       /\ UNCHANGED delivered
                ELSE /\ delivered' = delivered \o reader.got \o p.items
                     /\ reader' = [Calling(0, reader.strayed) EXCEPT !.pc = "ended"]
    BY DEF NextPage
  <1>1. PICK p \in Pages(view, reader.pos, pageLimit) :
            LET pending == pageLimit - Len(reader.got)
            IN  IF Enough(Len(p.items), pending)
                  THEN /\ delivered' = delivered \o reader.got \o SubSeq(p.items, 1, pending)
                       /\ reader' = Calling(KeyToGoOn(p.items, pending), reader.strayed)
                ELSE IF p.more
                  THEN /\ reader' = [reader EXCEPT !.got = @ \o p.items,
                                                   !.pos = LastKey(p.items, @)]
                       /\ UNCHANGED delivered
                ELSE /\ delivered' = delivered \o reader.got \o p.items
                     /\ reader' = [Calling(0, reader.strayed) EXCEPT !.pc = "ended"]
    BY <1>0
  <1>2. /\ reader.pc = "query"
        /\ UNCHANGED standing
    BY DEF NextPage
  <1>3. /\ reader \in [pc : {"idle", "query", "ended"}, given : 0 .. K, pos : 0 .. K, got : Seq(Keys),
                       strayed : BOOLEAN]
        /\ Len(reader.got) < pageLimit /\ delivered \in Seq(Keys)
        /\ view \in [Keys -> Records] /\ standing \subseteq Present(view)
        /\ pageLimit \in Nat
    BY TableAssumption DEF TableInv, TableTypeOK, HistoryPart
  <1> DEFINE all == delivered \o reader.got
             items == p.items
             pending == pageLimit - Len(reader.got)
  <1>4. /\ items \in Seq(Keys) /\ Ascending(items)
        /\ \A i \in DOMAIN items : items[i] > reader.pos
        /\ \A k \in Present(view) : k > reader.pos =>
              \/ k \in ToSet(items)
              \/ p.more /\ \A i \in DOMAIN items : items[i] < k
        /\ p.more \in BOOLEAN
        /\ p.more => items # <<>>
    BY <1>3, PageFacts
  <1>5. /\ all \in Seq(Keys) /\ Ascending(all)
        /\ \A i \in DOMAIN all : all[i] <= reader.pos
        /\ \A k \in standing : k <= reader.pos => k \in ToSet(all)
    BY <1>2, ReadSoFar
  <1>6. pending \in Nat \ {0} /\ Len(items) \in Nat /\ Len(reader.got) \in Nat
    BY <1>3, <1>4
  <1>7. \A k \in standing : k \in Nat /\ k \in Present(view)
    BY <1>3, KeysAreNumbers DEF Present
  <1>8. reader.pos \in Nat /\ reader.given \in Nat /\ reader.given <= reader.pos
    BY <1>3, KeysAreNumbers DEF TableInv, WalkPart, InOrder
  <1> HIDE DEF all, items, pending
  <1>c. CASE Enough(Len(items), pending)
    <2> DEFINE head == SubSeq(items, 1, pending)
    <2>1. delivered' = all \o head /\ reader' = Calling(items[pending], reader.strayed)
      BY <1>1, <1>c DEF KeyToGoOn, all, items, pending
    <2>2. pending \in 1 .. Len(items)
      BY <1>6, <1>c DEF Enough
    <2>3. /\ head \in Seq(Keys) /\ Ascending(head)
          /\ items[pending] \in Keys /\ items[pending] > reader.pos
          /\ \A i \in DOMAIN head : i \in DOMAIN items /\ head[i] = items[i]
          /\ \A i \in DOMAIN head : head[i] <= items[pending]
          /\ \A k \in ToSet(items) : k <= items[pending] => k \in ToSet(head)
      BY <1>4, <2>2, AscendingHead
    <2>4. reader' = [pc |-> "query", given |-> items[pending], pos |-> items[pending],
                     got |-> <<>>, strayed |-> reader.strayed]
      BY <2>1 DEF Calling
    <2>5. /\ all \o head \in Seq(Keys) /\ Ascending(all \o head)
          /\ ToSet(all \o head) = ToSet(all) \union ToSet(head)
      <3>1. \A i \in DOMAIN head : head[i] > reader.pos
        BY <1>4, <2>3
      <3> QED
        BY <1>3, <1>5, <2>3, <3>1, PageBehind
    <2> HIDE DEF head
    <2>3a. items[pending] \in Nat /\ items[pending] \in 0 .. K
      BY <2>3, KeysAreNumbers
    <2>5a. delivered' \in Seq(Keys) /\ Ascending(delivered')
      BY <2>1, <2>5
    <2>6. \A i \in DOMAIN delivered' : delivered'[i] <= items[pending]
      <3> SUFFICES ASSUME NEW i \in DOMAIN delivered'
                   PROVE  delivered'[i] <= items[pending]
        OBVIOUS
      <3>1. delivered'[i] \in ToSet(all) \union ToSet(head)
        BY <2>1, <2>5 DEF ToSet
      <3>2. CASE delivered'[i] \in ToSet(all)
        <4>1. PICK j \in DOMAIN all : delivered'[i] = all[j]
          BY <3>2 DEF ToSet
        <4>2. all[j] \in Nat /\ items[pending] \in Nat
          BY <1>5, <2>3, KeysOfSequence, KeysAreNumbers
        <4> QED
          BY <1>5, <1>8, <2>3, <4>1, <4>2
      <3>3. CASE delivered'[i] \in ToSet(head)
        BY <2>3, <3>3 DEF ToSet
      <3> QED
        BY <3>1, <3>2, <3>3
    <2>7. WalkPart'
      BY <2>4, <2>6, <2>3a, <2>5a DEF WalkPart, InOrder, Ascending
    <2>8. ASSUME NEW k \in standing, k <= items[pending]
          PROVE  k \in ToSet(delivered')
      <3>1. k \in Nat /\ items[pending] \in Nat /\ pending \in DOMAIN items
        BY <1>4, <1>7, <2>2, <2>3a
      <3>2. CASE k <= reader.pos
        BY <1>5, <2>1, <2>5, <3>2
      <3>3. CASE k > reader.pos
        <4>1. ~(items[pending] < k)
          BY <2>8, <3>1
        <4>2. k \in ToSet(items)
          BY <1>4, <1>7, <3>1, <3>3, <4>1
        <4> QED
          BY <2>1, <2>3, <2>5, <2>8, <4>2
      <3> QED
        BY <1>8, <3>1, <3>2, <3>3
    <2>9. \A k \in standing : ~(items[pending] < k /\ k <= items[pending])
      BY <1>7, <2>3a
    <2>a. StandingPart'
      BY <1>2, <2>4, <2>8, <2>9 DEF StandingPart, NoneSkipped
    <2> QED
      BY <2>7, <2>a
  <1>d. CASE ~Enough(Len(items), pending) /\ p.more
    <2>1. /\ reader' = [reader EXCEPT !.got = @ \o items, !.pos = LastKey(items, @)]
          /\ UNCHANGED delivered
      BY <1>1, <1>d DEF items, pending
    <2> DEFINE last == LastKey(items, reader.pos)
               got == reader.got \o items
    <2>2. /\ last \in 0 .. K /\ reader.pos <= last
          /\ \A i \in DOMAIN items : items[i] <= last
          /\ last = items[Len(items)]
      BY <1>3, <1>4, <1>d, LastKeyFacts
    <2>3. \A i \in DOMAIN reader.got : reader.given < reader.got[i] /\ reader.got[i] <= reader.pos
      BY DEF TableInv, WalkPart, InOrder
    <2>4. /\ got \in Seq(Keys) /\ Len(got) = Len(reader.got) + Len(items)
          /\ Ascending(got) /\ ToSet(got) = ToSet(reader.got) \union ToSet(items)
      BY <1>3, <1>4, <2>3, PageBehind DEF TableInv, WalkPart, InOrder
    <2>6. reader' = [pc |-> "query", given |-> reader.given, pos |-> last, got |-> got,
                     strayed |-> reader.strayed]
      BY <1>2, <1>3, <2>1
    <2>6a. delivered' = delivered
      BY <2>1
    <2> HIDE DEF last, got
    <2>7. \A i \in DOMAIN got : reader.given < got[i] /\ got[i] <= last
      <3> SUFFICES ASSUME NEW i \in DOMAIN got
                   PROVE  reader.given < got[i] /\ got[i] <= last
        OBVIOUS
      <3>1. got[i] \in ToSet(got) /\ got[i] \in Nat /\ last \in Nat
        BY <2>2, <2>4, KeysOfSequence, KeysAreNumbers DEF ToSet
      <3>2. CASE got[i] \in ToSet(reader.got)
        <4>1. reader.given < got[i] /\ got[i] <= reader.pos
          BY <2>3, <3>2 DEF ToSet
        <4> QED
          BY <1>8, <2>2, <3>1, <4>1
      <3>3. CASE got[i] \in ToSet(items)
        <4>1. got[i] > reader.pos /\ got[i] <= last
          BY <1>4, <2>2, <3>3 DEF ToSet
        <4> QED
          BY <1>8, <3>1, <4>1
      <3> QED
        BY <2>4, <3>1, <3>2, <3>3
    <2>8. reader.given <= last
      BY <1>8, <2>2, KeysAreNumbers
    <2>9. WalkPart'
      BY <1>2, <2>4, <2>6, <2>6a, <2>7, <2>8 DEF TableInv, WalkPart, InOrder, Ascending
    <2>a. ASSUME NEW k \in standing, reader.given < k, k <= last
          PROVE  k \in ToSet(got)
      <3>1. CASE k <= reader.pos
        BY <1>2, <2>4, <2>a, <3>1 DEF TableInv, StandingPart, NoneSkipped
      <3>2. CASE k > reader.pos
        <4>1. Len(items) \in DOMAIN items
          BY <1>4, <1>d
        <4>2. ~(last < k)
          BY <1>7, <2>2, <2>a, KeysAreNumbers
        <4>3. k \in ToSet(items)
          BY <1>4, <1>7, <2>2, <3>2, <4>1, <4>2
        <4> QED
          BY <2>4, <4>3
      <3> QED
        BY <1>7, <1>8, <3>1, <3>2
    <2>b. StandingPart'
      BY <1>2, <2>6, <2>6a, <2>a DEF TableInv, StandingPart, NoneSkipped
    <2> QED
      BY <2>9, <2>b
  <1>e. CASE ~Enough(Len(items), pending) /\ ~p.more
    <2>1. /\ delivered' = all \o items
          /\ reader' = [Calling(0, reader.strayed) EXCEPT !.pc = "ended"]
      BY <1>1, <1>e DEF all, items, pending
    <2>2. reader' = [pc |-> "ended", given |-> 0, pos |-> 0, got |-> <<>>,
                     strayed |-> reader.strayed]
      BY <2>1 DEF Calling
    <2>3. /\ all \o items \in Seq(Keys) /\ Ascending(all \o items)
          /\ ToSet(all \o items) = ToSet(all) \union ToSet(items)
      BY <1>3, <1>4, <1>5, PageBehind
    <2>4. \A k \in standing : k \in ToSet(delivered')
      <3> SUFFICES ASSUME NEW k \in standing PROVE k \in ToSet(delivered')
        OBVIOUS
      <3>1. CASE k <= reader.pos
        BY <1>5, <2>1, <2>3, <3>1
      <3>2. CASE k > reader.pos
        BY <1>4, <1>7, <1>e, <2>1, <2>3, <3>2
      <3> QED
        BY <1>7, <1>8, <3>1, <3>2
    <2>5a. delivered' \in Seq(Keys) /\ Ascending(delivered')
      BY <2>1, <2>3
    <2>5. WalkPart'
      BY <2>2, <2>5a DEF WalkPart, InOrder, Ascending
    <2>6. StandingPart'
      BY <1>2, <2>2, <2>4 DEF StandingPart, NoneSkipped
    <2> QED
      BY <2>5, <2>6
  <1> QED
    BY <1>c, <1>d, <1>e

LEMMA NextPageKeeps ==
    ASSUME TableInv, NextPage
    PROVE  TableInv'
  <1>1. PICK view \in {table, replica} : \E p \in Pages(view, reader.pos, pageLimit) :
            LET pending == pageLimit - Len(reader.got)
            IN  IF Enough(Len(p.items), pending)
                  THEN /\ delivered' = delivered \o reader.got \o SubSeq(p.items, 1, pending)
                       /\ reader' = Calling(KeyToGoOn(p.items, pending), reader.strayed)
                ELSE IF p.more
                  THEN /\ reader' = [reader EXCEPT !.got = @ \o p.items,
                                                   !.pos = LastKey(p.items, @)]
                       /\ UNCHANGED delivered
                ELSE /\ delivered' = delivered \o reader.got \o p.items
                     /\ reader' = [Calling(0, reader.strayed) EXCEPT !.pc = "ended"]
    BY DEF NextPage
  <1> DEFINE pending == pageLimit - Len(reader.got)
  <1>2. PICK p \in Pages(view, reader.pos, pageLimit) :
            IF Enough(Len(p.items), pending)
              THEN /\ delivered' = delivered \o reader.got \o SubSeq(p.items, 1, pending)
                   /\ reader' = Calling(KeyToGoOn(p.items, pending), reader.strayed)
            ELSE IF p.more
              THEN /\ reader' = [reader EXCEPT !.got = @ \o p.items,
                                               !.pos = LastKey(p.items, @)]
                   /\ UNCHANGED delivered
            ELSE /\ delivered' = delivered \o reader.got \o p.items
                 /\ reader' = [Calling(0, reader.strayed) EXCEPT !.pc = "ended"]
    BY <1>1
  <1>3. UNCHANGED <<table, replica, changes, errors, standing, deleter, doomed>>
    BY DEF NextPage, deleteVars
  <1>4. /\ reader \in [pc : {"idle", "query", "ended"}, given : 0 .. K, pos : 0 .. K,
                       got : Seq(Keys), strayed : BOOLEAN]
        /\ Len(reader.got) < pageLimit /\ delivered \in Seq(Keys)
        /\ view \in [Keys -> Records] /\ pageLimit \in Nat
    BY TableAssumption DEF TableInv, TableTypeOK
  <1> DEFINE items == p.items
             last == LastKey(items, reader.pos)
             got == reader.got \o items
             head == SubSeq(items, 1, pending)
  <1>5. /\ items \in Seq(Keys) /\ last \in 0 .. K
    BY <1>4, PageFacts, LastKeyFacts
  <1>6. HistoryPart' /\ DoomedPart'
    BY <1>3, FewerDoomed DEF TableInv, HistoryPart, Present, Matches
  <1> HIDE DEF items
  <1>7. CASE Enough(Len(items), pending)
    <2>1. pending \in 1 .. Len(items)
      BY <1>4, <1>5, <1>7 DEF Enough
    <2>2. items[pending] \in 0 .. K /\ head \in Seq(Keys)
      <3>1. items[pending] \in Keys
        BY <1>5, <2>1
      <3>2. head \in Seq(Keys)
        BY <1>5, <2>1, SubSeqProperties
      <3> QED
        BY <3>1, <3>2, KeysAreNumbers
    <2>3. delivered' = (delivered \o reader.got) \o head
      BY <1>2, <1>7 DEF items
    <2>4. delivered' \in Seq(Keys)
      BY <1>4, <2>2, <2>3, ConcatProperties
    <2>5. reader' = [pc |-> "query", given |-> items[pending], pos |-> items[pending],
                     got |-> <<>>, strayed |-> reader.strayed]
      BY <1>2, <1>7 DEF items, Calling, KeyToGoOn
    <2>6. TableTypeOK'
      BY <1>3, <1>4, <2>2, <2>4, <2>5, TableAssumption DEF TableInv, TableTypeOK
    <2>7. CASE reader.strayed
      BY <1>6, <2>5, <2>6, <2>7 DEF TableInv, WalkPart, StandingPart
    <2> QED
      BY <1>6, <2>6, <2>7, NextPageInOrder DEF TableInv
  <1>8. CASE ~Enough(Len(items), pending) /\ p.more
    <2>1. reader' = [pc |-> reader.pc, given |-> reader.given, pos |-> last, got |-> got,
                     strayed |-> reader.strayed]
      BY <1>2, <1>4, <1>8 DEF items
    <2>2. got \in Seq(Keys) /\ Len(got) < pageLimit
      <3>1. got \in Seq(Keys) /\ Len(got) = Len(reader.got) + Len(items)
        BY <1>4, <1>5, ConcatProperties
      <3>2. Len(items) \in Nat /\ Len(reader.got) \in Nat
        BY <1>4, <1>5
      <3> QED
        BY <1>4, <1>8, <3>1, <3>2 DEF Enough
    <2>3. UNCHANGED delivered
      BY <1>2, <1>8 DEF items
    <2>4. TableTypeOK'
      <3> HIDE DEF got, last
      <3> QED
        BY <1>3, <1>4, <1>5, <2>1, <2>2, <2>3 DEF TableInv, TableTypeOK
    <2>5. CASE reader.strayed
      BY <1>6, <2>1, <2>4, <2>5 DEF TableInv, WalkPart, StandingPart
    <2> QED
      BY <1>6, <2>4, <2>5, NextPageInOrder DEF TableInv
  <1>9. CASE ~Enough(Len(items), pending) /\ ~p.more
    <2>1. delivered' = (delivered \o reader.got) \o items
      BY <1>2, <1>9 DEF items
    <2>2. delivered' \in Seq(Keys)
      BY <1>4, <1>5, <2>1, ConcatProperties
    <2>3. reader' = [pc |-> "ended", given |-> 0, pos |-> 0, got |-> <<>>,
                     strayed |-> reader.strayed]
      BY <1>2, <1>9 DEF items, Calling
    <2>4. TableTypeOK'
      BY <1>3, <1>4, <2>2, <2>3, KeysAreNumbers, TableAssumption DEF TableInv, TableTypeOK
    <2>5. CASE reader.strayed
      BY <1>6, <2>3, <2>4, <2>5 DEF TableInv, WalkPart, StandingPart
    <2> QED
      BY <1>6, <2>4, <2>5, NextPageInOrder DEF TableInv
  <1> QED
    BY <1>7, <1>8, <1>9

-----------------------------------------------------------------------------
(* DeleteBatchRecords keeps the invariant.                                 *)

LEMMA StartDeleteKeeps ==
    ASSUME TableInv, StartDelete
    PROVE  TableInv'
  <1>1. /\ deleter' = [pc |-> "scan", pos |-> 0, more |-> TRUE, batch |-> {}, left |-> FALSE]
        /\ doomed' = Matches(table) \intersect Matches(replica)
        /\ UNCHANGED <<table, replica, changes, errors, reader, delivered, standing>>
    BY DEF StartDelete, Scan, readVars
  <1>2. doomed' \subseteq Keys /\ \A k \in doomed' : ~(k <= 0)
    BY <1>1, KeysAreNumbers DEF Matches
  <1>3. TableTypeOK'
    BY <1>1, <1>2, KeysAreNumbers DEF TableInv, TableTypeOK
  <1>4. HistoryPart'
    BY <1>1 DEF TableInv, HistoryPart, Present, Matches
  <1>5. WalkPart' /\ StandingPart'
    BY <1>1, SameWalk, FewerStanding DEF TableInv
  <1>6. DoomedPart'
    BY <1>1, <1>2 DEF DoomedPart, MatchesGone
  <1> QED
    BY <1>3, <1>4, <1>5, <1>6 DEF TableInv

LEMMA ScanPageKeeps ==
    ASSUME TableInv, ScanPage
    PROVE  TableInv'
  <1>0. PICK view \in {table, replica} : \E p \in Pages(view, deleter.pos, maxBatchSize) :
            deleter' = [deleter EXCEPT !.pc = "write", !.more = p.more,
                           !.pos = LastKey(p.items, @),
                           !.batch = ToSet(p.items) \intersect Matches(view)]
    BY DEF ScanPage
  <1>1. PICK p \in Pages(view, deleter.pos, maxBatchSize) :
            deleter' = [deleter EXCEPT !.pc = "write", !.more = p.more,
                           !.pos = LastKey(p.items, @),
                           !.batch = ToSet(p.items) \intersect Matches(view)]
    BY <1>0
  <1> DEFINE items == p.items
             last == LastKey(items, deleter.pos)
             batch == ToSet(items) \intersect Matches(view)
  <1>2. /\ deleter.pc = "scan"
        /\ UNCHANGED <<table, replica, changes, errors, reader, delivered, standing, doomed>>
    BY DEF ScanPage, readVars
  <1>3. /\ deleter \in [pc : {"idle", "scan", "write", "ok", "failed"}, pos : 0 .. K,
                       more : BOOLEAN, batch : SUBSET Keys, left : BOOLEAN]
        /\ view \in [Keys -> Records] /\ doomed \subseteq Matches(view)
        /\ doomed \subseteq Keys
        /\ maxBatchSize \in Nat /\ deleter.pos \in 0 .. K /\ deleter.pos \in Nat
    BY TableAssumption DEF TableInv, TableTypeOK, HistoryPart
  <1>4. /\ items \in Seq(Keys) /\ Ascending(items)
        /\ \A i \in DOMAIN items : items[i] > deleter.pos
        /\ \A k \in Present(view) : k > deleter.pos =>
              \/ k \in ToSet(items)
              \/ p.more /\ \A i \in DOMAIN items : items[i] < k
        /\ p.more \in BOOLEAN
        /\ p.more => items # <<>>
    BY <1>3, PageFacts
  <1>5. /\ last \in 0 .. K /\ last \in Nat /\ deleter.pos <= last
        /\ items # <<>> => last = items[Len(items)] /\ Len(items) \in DOMAIN items
    BY <1>3, <1>4, LastKeyFacts
  <1>6. batch \subseteq Keys
    BY DEF Matches
  <1>7. deleter' = [pc |-> "write", pos |-> last, more |-> p.more, batch |-> batch,
                    left |-> deleter.left]
    BY <1>1, <1>3
  <1>8. \A k \in doomed : k \in Nat /\ k \in Present(view)
    BY <1>3, KeysAreNumbers DEF Matches, Present
  <1>9. \A k \in doomed : k <= deleter.pos => deleter.left
    BY <1>2, <1>3 DEF TableInv, DoomedPart
  <1> HIDE DEF items, last
  <1>10. ASSUME NEW k \in doomed, k <= last \/ ~p.more
         PROVE  k \in batch \/ deleter.left
    <2>1. CASE k <= deleter.pos
      BY <1>9, <2>1
    <2>2. CASE k > deleter.pos
      <3>1. ~(p.more /\ \A i \in DOMAIN items : items[i] < k)
        BY <1>4, <1>5, <1>8, <1>10
      <3>2. k \in ToSet(items)
        BY <1>4, <1>8, <2>2, <3>1
      <3> QED
        BY <1>3, <3>2
    <2> QED
      BY <1>3, <1>8, <2>1, <2>2
  <1> HIDE DEF batch
  <1>11. TableTypeOK'
    BY <1>2, <1>3, <1>4, <1>5, <1>6, <1>7 DEF TableInv, TableTypeOK
  <1>12. HistoryPart'
    BY <1>2 DEF TableInv, HistoryPart, Present, Matches
  <1>13. WalkPart' /\ StandingPart'
    BY <1>2, SameWalk, FewerStanding DEF TableInv
  <1>14. DoomedPart'
    BY <1>2, <1>7, <1>10 DEF DoomedPart, MatchesGone
  <1> QED
    BY <1>11, <1>12, <1>13, <1>14 DEF TableInv

\* What is deleted from the table neither stands nor is doomed any more.
LEMMA DeleteItemsKeeps ==
    ASSUME TableInv, NEW S \in SUBSET Keys, DeleteItems(S),
           UNCHANGED <<replica, reader, delivered>>
    PROVE  /\ table' \in [Keys -> Records]
           /\ standing' \subseteq Keys /\ doomed' \subseteq Keys
           /\ HistoryPart' /\ WalkPart' /\ StandingPart'
  <1>1. table' = [k \in Keys |-> IF k \in S THEN "none" ELSE table[k]]
        /\ standing' = standing \ S /\ doomed' = doomed \ S
    BY DEF DeleteItems
  <1>2. /\ table \in [Keys -> Records] /\ standing \subseteq Keys /\ doomed \subseteq Keys
    BY DEF TableInv, TableTypeOK
  <1>3. table' \in [Keys -> Records]
    BY <1>1, <1>2 DEF Records
  <1>4. HistoryPart'
    BY <1>1, <1>2 DEF TableInv, HistoryPart, Present, Matches
  <1>5. WalkPart' /\ StandingPart'
    BY <1>1, SameWalk, FewerStanding DEF TableInv
  <1> QED
    BY <1>1, <1>2, <1>3, <1>4, <1>5

LEMMA DeleteBatchKeeps ==
    ASSUME TableInv, DeleteBatch
    PROVE  TableInv'
  <1>1. PICK left \in SUBSET deleter.batch :
            /\ DeleteItems(deleter.batch \ left)
            /\ deleter' = AfterBatch([deleter EXCEPT !.left = @ \/ left # {}])
    BY DEF DeleteBatch
  <1>2. /\ deleter.pc = "write"
        /\ UNCHANGED <<replica, changes, errors, reader, delivered>>
    BY DEF DeleteBatch
  <1>3. deleter \in [pc : {"idle", "scan", "write", "ok", "failed"}, pos : 0 .. K,
                     more : BOOLEAN, batch : SUBSET Keys, left : BOOLEAN]
    BY DEF TableInv, TableTypeOK
  <1> DEFINE gone == deleter.batch \ left
             missed == deleter.left \/ left # {}
             after == IF deleter.more THEN "scan" ELSE "ok"
  <1>4. gone \in SUBSET Keys /\ missed \in BOOLEAN /\ doomed' = doomed \ gone
    BY <1>1, <1>3 DEF DeleteItems
  <1>5. deleter' = [pc |-> after, pos |-> deleter.pos, more |-> deleter.more, batch |-> {},
                    left |-> missed]
    BY <1>1, <1>3 DEF AfterBatch
  <1>6. /\ table' \in [Keys -> Records]
        /\ standing' \subseteq Keys /\ doomed' \subseteq Keys
        /\ HistoryPart' /\ WalkPart' /\ StandingPart'
    BY <1>1, <1>2, <1>4, DeleteItemsKeeps
  <1>7. ASSUME NEW k \in doomed', k <= deleter.pos \/ ~deleter.more
        PROVE  missed = TRUE
    <2>1. k \in doomed /\ (k \in deleter.batch \/ deleter.left)
      BY <1>2, <1>4, <1>7 DEF TableInv, DoomedPart
    <2>2. k \in deleter.batch => k \in left
      BY <1>4, <1>7
    <2> QED
      BY <1>4, <2>1, <2>2
  <1> HIDE DEF gone, missed
  <1>8. TableTypeOK'
    BY <1>2, <1>3, <1>4, <1>5, <1>6 DEF TableInv, TableTypeOK
  <1>9. DoomedPart'
    <2>1. CASE deleter.more
      BY <1>5, <1>7, <2>1 DEF DoomedPart, MatchesGone
    <2>2. CASE ~deleter.more
      BY <1>5, <1>7, <2>2 DEF DoomedPart, MatchesGone
    <2> QED
      BY <2>1, <2>2
  <1> QED
    BY <1>6, <1>8, <1>9 DEF TableInv

\* A deletion that has failed promises nothing.
LEMMA DeletionFailed ==
    ASSUME deleter'.pc = "failed"
    PROVE  DoomedPart'
  BY DEF DoomedPart, MatchesGone

LEMMA EmptyBatchKeeps ==
    ASSUME TableInv, EmptyBatch
    PROVE  TableInv'
  <1>1. /\ deleter' = [deleter EXCEPT !.pc = "failed"]
        /\ UNCHANGED <<table, replica, changes, errors, reader, delivered, standing, doomed>>
    BY DEF EmptyBatch, readVars
  <1>2. TableTypeOK' /\ deleter'.pc = "failed"
    BY <1>1 DEF TableInv, TableTypeOK
  <1>3. HistoryPart'
    BY <1>1 DEF TableInv, HistoryPart, Present, Matches
  <1>4. WalkPart' /\ StandingPart'
    BY <1>1, SameWalk, FewerStanding DEF TableInv
  <1> QED
    BY <1>2, <1>3, <1>4, DeletionFailed DEF TableInv

LEMMA DeleteFailsKeeps ==
    ASSUME TableInv, DeleteFails
    PROVE  TableInv'
  <1>1. PICK done \in SUBSET deleter.batch : DeleteItems(done)
    BY DEF DeleteFails
  <1>2. /\ errors \in 0 .. MaxErrors /\ errors < MaxErrors /\ errors' = errors + 1
        /\ deleter' = [deleter EXCEPT !.pc = "failed", !.batch = {}]
        /\ UNCHANGED <<replica, changes, reader, delivered>>
    BY DEF DeleteFails, TableInv, TableTypeOK
  <1>3. deleter \in [pc : {"idle", "scan", "write", "ok", "failed"}, pos : 0 .. K,
                     more : BOOLEAN, batch : SUBSET Keys, left : BOOLEAN]
    BY DEF TableInv, TableTypeOK
  <1>4. /\ table' \in [Keys -> Records]
        /\ standing' \subseteq Keys /\ doomed' \subseteq Keys
        /\ HistoryPart' /\ WalkPart' /\ StandingPart'
    BY <1>1, <1>2, <1>3, DeleteItemsKeeps
  <1>5. errors' \in 0 .. MaxErrors
    BY <1>2, TableAssumption
  <1>6. TableTypeOK' /\ deleter'.pc = "failed"
    BY <1>2, <1>3, <1>4, <1>5 DEF TableInv, TableTypeOK
  <1> QED
    BY <1>4, <1>6, DeletionFailed DEF TableInv

-----------------------------------------------------------------------------
(* So do single records and the replica.                                   *)

LEMMA ChangeKeeps ==
    ASSUME TableInv, NEW k \in Keys, NEW r \in Records, table[k] # r, Change(k, r)
    PROVE  TableInv'
  <1>1. /\ changes \in 0 .. MaxChanges /\ changes < MaxChanges /\ changes' = changes + 1
        /\ table' = [table EXCEPT ![k] = r]
        /\ standing' = IF r = "none" THEN standing \ {k} ELSE standing
        /\ doomed' = IF r = "match" THEN doomed ELSE doomed \ {k}
        /\ UNCHANGED <<replica, errors, reader, delivered, deleter>>
    BY DEF Change, TableInv, TableTypeOK
  <1>2. /\ table \in [Keys -> Records] /\ standing \subseteq Keys /\ doomed \subseteq Keys
        /\ standing' \subseteq standing /\ doomed' \subseteq doomed
    BY <1>1 DEF TableInv, TableTypeOK
  <1>3. changes' \in 0 .. MaxChanges
    BY <1>1, TableAssumption
  <1>4. TableTypeOK'
    BY <1>1, <1>2, <1>3 DEF TableInv, TableTypeOK
  <1>5. HistoryPart'
    <2>1. standing' \subseteq Present(table')
      BY <1>1, <1>2 DEF TableInv, HistoryPart, Present
    <2>2. doomed' \subseteq Matches(table')
      BY <1>1, <1>2 DEF TableInv, HistoryPart, Matches
    <2>3. standing' \subseteq Present(replica) /\ doomed' \subseteq Matches(replica)
      BY <1>2 DEF TableInv, HistoryPart
    <2> QED
      BY <1>1, <2>1, <2>2, <2>3 DEF HistoryPart, Present, Matches
  <1>6. WalkPart' /\ StandingPart' /\ DoomedPart'
    BY <1>1, <1>2, SameWalk, FewerStanding, FewerDoomed DEF TableInv
  <1> QED
    BY <1>4, <1>5, <1>6 DEF TableInv

LEMMA ReplicateKeeps ==
    ASSUME TableInv, Replicate
    PROVE  TableInv'
  <1>1. PICK k \in Keys : replica' = [replica EXCEPT ![k] = table[k]]
    BY DEF Replicate
  <1>2. UNCHANGED <<table, changes, errors, reader, delivered, standing, deleter, doomed>>
    BY DEF Replicate, readVars, deleteVars
  <1>3. {table, replica} \subseteq [Keys -> Records]
    BY DEF TableInv, TableTypeOK
  <1>4. TableTypeOK'
    BY <1>1, <1>2, <1>3 DEF TableInv, TableTypeOK
  <1>5. HistoryPart'
    <2>1. standing \subseteq Present(replica')
      BY <1>1, <1>3 DEF TableInv, HistoryPart, Present
    <2>2. doomed \subseteq Matches(replica')
      BY <1>1, <1>3 DEF TableInv, HistoryPart, Matches
    <2> QED
      BY <1>2, <2>1, <2>2 DEF TableInv, HistoryPart, Present, Matches
  <1>6. WalkPart' /\ StandingPart' /\ DoomedPart'
    BY <1>2, SameWalk, FewerStanding, FewerDoomed DEF TableInv
  <1> QED
    BY <1>4, <1>5, <1>6 DEF TableInv

-----------------------------------------------------------------------------
(* The theorems.                                                           *)

LEMMA TableStarts == TableInit => TableInv
  <1> SUFFICES ASSUME TableInit PROVE TableInv
    OBVIOUS
  <1>1. /\ table \in [Keys -> Records] /\ replica = table
        /\ changes = 0 /\ errors = 0
        /\ reader = [pc |-> "idle", given |-> 0, pos |-> 0, got |-> <<>>, strayed |-> FALSE]
        /\ delivered = <<>> /\ standing = {}
        /\ deleter = [pc |-> "idle", pos |-> 0, more |-> TRUE, batch |-> {}, left |-> FALSE]
        /\ doomed = {}
    BY DEF TableInit, Calling, Scan
  <1>2. TableTypeOK
    BY <1>1, KeysAreNumbers, TableAssumption DEF TableTypeOK
  <1>3. HistoryPart /\ WalkPart
    BY <1>1 DEF HistoryPart, WalkPart, InOrder, Ascending
  <1>4. StandingPart /\ DoomedPart
    BY <1>1 DEF StandingPart, NoneSkipped, DoomedPart, MatchesGone
  <1> QED
    BY <1>2, <1>3, <1>4 DEF TableInv

LEMMA TableStepKeeps == TableInv /\ [TableNext]_tableVars => TableInv'
  <1> SUFFICES ASSUME TableInv, [TableNext]_tableVars
               PROVE  TableInv'
    OBVIOUS
  <1>1. CASE StartRead
    BY <1>1, StartReadKeeps
  <1>2. CASE NextPage
    BY <1>2, NextPageKeeps
  <1>3. CASE NextPageFails \/ ConversionFails
    BY <1>3, NextPageFailsKeeps, ConversionFailsKeeps
  <1>4. CASE StartDelete
    BY <1>4, StartDeleteKeeps
  <1>5. CASE ScanPage
    BY <1>5, ScanPageKeeps
  <1>6. CASE DeleteBatch
    BY <1>6, DeleteBatchKeeps
  <1>7. CASE EmptyBatch
    BY <1>7, EmptyBatchKeeps
  <1>8. CASE DeleteFails
    BY <1>8, DeleteFailsKeeps
  <1>9. CASE AddRecord
    <2>1. PICK k \in Keys, r \in {"match", "other"} : table[k] # r /\ Change(k, r)
      BY <1>9 DEF AddRecord
    <2>2. r \in Records
      BY DEF Records
    <2> QED
      BY <2>1, <2>2, ChangeKeeps
  <1>10. CASE DeleteRecordByKey
    <2>1. PICK k \in Keys : table[k] # "none" /\ Change(k, "none")
      BY <1>10 DEF DeleteRecordByKey
    <2>2. "none" \in Records
      BY DEF Records
    <2> QED
      BY <2>1, <2>2, ChangeKeeps
  <1>11. CASE Replicate
    BY <1>11, ReplicateKeeps
  <1>12. CASE UNCHANGED tableVars
    <2>1. UNCHANGED <<table, replica, changes, errors, reader, delivered, standing, deleter, doomed>>
      BY <1>12 DEF tableVars, readVars, deleteVars
    <2>2. TableTypeOK' /\ HistoryPart'
      BY <2>1 DEF TableInv, TableTypeOK, HistoryPart, Present, Matches
    <2>3. WalkPart' /\ StandingPart' /\ DoomedPart'
      BY <2>1, SameWalk, FewerStanding, FewerDoomed DEF TableInv
    <2> QED
      BY <2>2, <2>3 DEF TableInv
  <1> QED
    BY <1>1, <1>2, <1>3, <1>4, <1>5, <1>6, <1>7, <1>8, <1>9, <1>10, <1>11, <1>12
    DEF TableNext

LEMMA TableInvariance == TableSpec => []TableInv
  <1>1. TableInit => TableInv
    BY TableStarts
  <1>2. TableInv /\ [TableNext]_tableVars => TableInv'
    BY TableStepKeeps
  <1> QED
    BY <1>1, <1>2, PTL DEF TableSpec

\* The state of the two walks has its type: positions are keys, and a call never
\* holds back as many records as it was asked for.
THEOREM TableTypeCorrect == TableSpec => []TableTypeOK
  <1>1. TableInv => TableTypeOK
    BY DEF TableInv
  <1> QED
    BY <1>1, TableInvariance, PTL

\* GetRecordsByPagination hands no record out twice and none out of order, over
\* any number of calls and beside any writes, to a caller that repeats a failed call
\* with the key it held and not with the one that came with the error.
THEOREM WalkInOrder == TableSpec => []HandedOutInOrder
  <1>1. TableInv => HandedOutInOrder
    BY DEF TableInv, WalkPart, InOrder, HandedOutInOrder
  <1> QED
    BY <1>1, TableInvariance, PTL

\* The walk of such a caller that has ended has handed out every record that was
\* there, in the table and in the replica, from its start to its end.
THEOREM WalkIsComplete == TableSpec => []StandingHandedOut
  <1>1. TableInv => StandingHandedOut
    BY DEF TableInv, StandingPart, NoneSkipped, StandingHandedOut
  <1> QED
    BY <1>1, TableInvariance, PTL

\* DeleteBatchRecords that returns no error has deleted every record that matched
\* from its start to its end, unless a batch was left partly unprocessed.
THEOREM DeletionIsComplete == TableSpec => []MatchesGone
  <1>1. TableInv => MatchesGone
    BY DEF TableInv, DoomedPart
  <1> QED
    BY <1>1, TableInvariance, PTL
=============================================================================
