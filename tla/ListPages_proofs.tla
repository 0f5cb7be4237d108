-------------------------- MODULE ListPages_proofs --------------------------
(***************************************************************************)
(* Theorems about ListPages, for every set of URLs, every set of limits    *)
(* and every bound.                                                        *)
(***************************************************************************)
EXTENDS ListPages, SequenceTheorems, WellFoundedInduction, TLAPS

-----------------------------------------------------------------------------
(* Induction, over a set and not over a predicate: the set of the numbers  *)
(* for which something holds.                                              *)

\* A set of natural numbers that is not empty has a least element.
LEMMA LeastNumber ==
    ASSUME NEW S \in SUBSET Nat, S # {}
    PROVE  \E n \in S : \A m \in S : n <= m
  <1> DEFINE Less == OpToRel(<, Nat)
  <1>1. \A m, n \in Nat : m < n => <<m, n>> \in Less
    BY DEF OpToRel
  <1>2. IsWellFoundedOn(Less, Nat)
    BY NatLessThanWellFounded
  <1> HIDE DEF Less
  <1>3. PICK n \in S : \A m \in S : ~(<<m, n>> \in Less)
    BY <1>2, WFMin
  <1>4. ASSUME NEW m \in S PROVE n <= m
    <2>1. m \in Nat /\ n \in Nat /\ ~(m < n)
      BY <1>1, <1>3
    <2> QED
      BY <2>1
  <1> QED
    BY <1>4

\* A set that has 0, and with a number the next one, has them all.
LEMMA Induction ==
    ASSUME NEW S, NEW N \in Nat, 0 \in S, \A n \in 0 .. N - 1 : n \in S => n + 1 \in S
    PROVE  0 .. N \subseteq S
  <1> DEFINE Missing == {n \in 0 .. N : n \notin S}
  <1> SUFFICES ASSUME Missing # {} PROVE FALSE
    OBVIOUS
  <1>0. Missing \in SUBSET Nat
    OBVIOUS
  <1>1. PICK n \in Missing : \A m \in Missing : n <= m
    BY <1>0, LeastNumber
  <1>2. n \in 0 .. N /\ n # 0
    BY <1>1
  <1>3. n - 1 \in 0 .. N - 1 /\ n - 1 \in 0 .. N /\ ~(n <= n - 1)
    BY <1>2
  <1>4. n - 1 \in S
    BY <1>1, <1>3
  <1> QED
    BY <1>1, <1>3, <1>4

\* A loop over 1 .. N: there is a function that has the state behind each round.
Loop(f, N, base, step) ==
    f[0] = base /\ \A n \in 1 .. N : f[n] = step[n][f[n - 1]]

LEMMA LoopStates ==
    ASSUME NEW N \in Nat, NEW S, NEW base \in S, NEW step \in [1 .. N -> [S -> S]]
    PROVE  \E f \in [0 .. N -> S] : Loop(f, N, base, step)
  <1> DEFINE Reaches(m, f) == f[0] = base /\ \A n \in 1 .. m : f[n] = step[n][f[n - 1]]
             Reached == {m \in 0 .. N : \E f \in [0 .. m -> S] : Reaches(m, f)}
  <1>1. 0 \in Reached
    <2> DEFINE g == [n \in 0 .. 0 |-> base]
    <2>1. g \in [0 .. 0 -> S] /\ Reaches(0, g) /\ 0 \in 0 .. N
      OBVIOUS
    <2> HIDE DEF g, Reaches
    <2> QED
      BY <2>1
  <1>2. ASSUME NEW m \in 0 .. N - 1, m \in Reached PROVE m + 1 \in Reached
    <2>1. PICK f \in [0 .. m -> S] : Reaches(m, f)
      BY <1>2
    <2> DEFINE g == [n \in 0 .. m + 1 |-> IF n = m + 1 THEN step[m + 1][f[m]] ELSE f[n]]
    <2>2. m + 1 \in 1 .. N /\ m \in 0 .. m /\ m \in Nat
      OBVIOUS
    <2>3. step[m + 1][f[m]] \in S
      BY <2>1, <2>2
    <2>4. g \in [0 .. m + 1 -> S]
      BY <2>1, <2>2, <2>3
    <2>5. g[0] = base
      BY <2>1, <2>2
    <2>6. \A n \in 1 .. m + 1 : g[n] = step[n][g[n - 1]]
      BY <2>1, <2>2
    <2>7. Reaches(m + 1, g)
      BY <2>5, <2>6
    <2> HIDE DEF g, Reaches
    <2> QED
      BY <2>2, <2>4, <2>7
  <1> HIDE DEF Reached
  <1>3. 0 .. N \subseteq Reached
    BY <1>1, <1>2, Induction
  <1>4. N \in Reached
    BY <1>3
  <1> QED
    BY <1>4 DEF Reached, Loop

-----------------------------------------------------------------------------
(* The writes of a list.                                                   *)

\* Appending a URL.
LEMMA AppendUrl ==
    ASSUME NEW s \in Seq(Urls), NEW url \in Urls
    PROVE  /\ Append(s, url) \in Seq(Urls) /\ Len(Append(s, url)) = Len(s) + 1
           /\ ToSet(Append(s, url)) = ToSet(s) \union {url}
           /\ (IsInjective(s) /\ url \notin ToSet(s)) => IsInjective(Append(s, url))
  <1> DEFINE t == Append(s, url)
  <1>1. /\ t \in Seq(Urls) /\ Len(t) = Len(s) + 1 /\ Len(s) \in Nat
        /\ \A i \in 1 .. Len(s) : t[i] = s[i]
        /\ t[Len(s) + 1] = url
    BY AppendProperties
  <1>2. DOMAIN t = 1 .. Len(s) + 1 /\ DOMAIN s = 1 .. Len(s)
    BY <1>1
  <1> HIDE DEF t
  <1>3. ToSet(t) \subseteq ToSet(s) \union {url}
    BY <1>1, <1>2 DEF ToSet
  <1>4. ToSet(s) \subseteq ToSet(t)
    BY <1>1, <1>2 DEF ToSet
  <1>5. url \in ToSet(t)
    <2>1. Len(s) + 1 \in DOMAIN t /\ t[Len(s) + 1] = url
      BY <1>1, <1>2
    <2> QED
      BY <2>1 DEF ToSet
  <1>6. ASSUME IsInjective(s), url \notin ToSet(s) PROVE IsInjective(t)
    <2>1. \A i \in DOMAIN s : s[i] # url
      BY <1>6 DEF ToSet
    <2>2. ASSUME NEW i \in DOMAIN t, NEW j \in DOMAIN t, t[i] = t[j] PROVE i = j
      <3>1. CASE i \in DOMAIN s /\ j \in DOMAIN s
        BY <1>1, <1>2, <1>6, <2>2, <3>1 DEF IsInjective
      <3>2. CASE i = Len(s) + 1 \/ j = Len(s) + 1
        BY <1>1, <1>2, <2>1, <2>2, <3>2
      <3> QED
        BY <1>1, <1>2, <3>1, <3>2
    <2> QED
      BY <2>2 DEF IsInjective
  <1> QED
    BY <1>1, <1>3, <1>4, <1>5, <1>6 DEF t

\* The rounds of the loop of removeDuplicates.
LEMMA RemoveDuplicatesLoop ==
    ASSUME NEW entries \in Seq(Urls)
    PROVE  \E f : /\ f[0] = <<>>
                  /\ \A n \in 1 .. Len(entries) :
                        f[n] = IF entries[n] \in ToSet(f[n - 1]) THEN f[n - 1]
                               ELSE Append(f[n - 1], entries[n])
                  /\ removeDuplicates(entries) = f[Len(entries)]
  <1> DEFINE N == Len(entries)
             Round(n, s) == IF entries[n] \in ToSet(s) THEN s ELSE Append(s, entries[n])
             step == [n \in 1 .. N |-> [s \in Seq(Urls) |-> Round(n, s)]]
             IsLoop(f) == f = [n \in 0 .. N |-> IF n = 0 THEN <<>> ELSE Round(n, f[n - 1])]
             loop == CHOOSE f : IsLoop(f)
  <1>1. N \in Nat /\ <<>> \in Seq(Urls)
    OBVIOUS
  <1>2. step \in [1 .. N -> [Seq(Urls) -> Seq(Urls)]]
    <2>1. ASSUME NEW n \in 1 .. N, NEW s \in Seq(Urls) PROVE Round(n, s) \in Seq(Urls)
      BY AppendUrl
    <2> HIDE DEF Round
    <2> QED
      BY <2>1
  <1>3. PICK f \in [0 .. N -> Seq(Urls)] :
            f[0] = <<>> /\ \A n \in 1 .. N : f[n] = step[n][f[n - 1]]
    <2> DEFINE S == Seq(Urls)
               base == <<>>
    <2>1. N \in Nat /\ base \in S /\ step \in [1 .. N -> [S -> S]]
      BY <1>1, <1>2
    <2> HIDE DEF step, N, S, base
    <2>2. \E f \in [0 .. N -> S] : Loop(f, N, base, step)
      BY <2>1, LoopStates
    <2> QED
      BY <2>2 DEF S, base, Loop
  <1>4. \A n \in 1 .. N : f[n] = Round(n, f[n - 1])
    <2> SUFFICES ASSUME NEW n \in 1 .. N PROVE f[n] = Round(n, f[n - 1])
      OBVIOUS
    <2>1. f[n - 1] \in Seq(Urls)
      BY <1>1
    <2> HIDE DEF Round
    <2> QED
      BY <1>3, <2>1
  <1>5. IsLoop(f)
    <2> HIDE DEF Round
    <2> QED
      BY <1>1, <1>3, <1>4
  <1>6. IsLoop(loop)
    <2> HIDE DEF IsLoop
    <2> QED
      BY <1>5
  <1>7. loop[0] = <<>> /\ \A n \in 1 .. N : loop[n] = Round(n, loop[n - 1])
    <2> HIDE DEF Round, loop
    <2> QED
      BY <1>1, <1>6
  <1>8. removeDuplicates(entries) = loop[N]
    BY DEF removeDuplicates
  <1> HIDE DEF loop
  <1> QED
    BY <1>7, <1>8

\* removeDuplicates keeps every URL, and each once.
LEMMA RemoveDuplicatesFacts ==
    ASSUME NEW entries \in Seq(Urls)
    PROVE  /\ removeDuplicates(entries) \in Seq(Urls)
           /\ Len(removeDuplicates(entries)) <= Len(entries)
           /\ IsInjective(removeDuplicates(entries))
           /\ ToSet(removeDuplicates(entries)) = ToSet(entries)
  <1> DEFINE N == Len(entries)
  <1>1. N \in Nat /\ DOMAIN entries = 1 .. N
    OBVIOUS
  <1>2. PICK f : /\ f[0] = <<>>
                 /\ \A n \in 1 .. N :
                       f[n] = IF entries[n] \in ToSet(f[n - 1]) THEN f[n - 1]
                              ELSE Append(f[n - 1], entries[n])
                 /\ removeDuplicates(entries) = f[N]
    BY RemoveDuplicatesLoop
  <1> DEFINE Right(n) == /\ f[n] \in Seq(Urls) /\ Len(f[n]) <= n /\ IsInjective(f[n])
                         /\ ToSet(f[n]) = {entries[i] : i \in 1 .. n}
             Good == {n \in 0 .. N : Right(n)}
  <1>3. 0 \in Good
    <2>1. <<>> \in Seq(Urls) /\ Len(<<>>) = 0 /\ DOMAIN <<>> = {}
      OBVIOUS
    <2>2. IsInjective(<<>>) /\ ToSet(<<>>) = {}
      BY <2>1 DEF IsInjective, ToSet
    <2>3. Right(0)
      BY <1>2, <2>1, <2>2
    <2> HIDE DEF Right
    <2> QED
      BY <1>1, <2>3
  <1>4. ASSUME NEW n \in 0 .. N - 1, n \in Good PROVE n + 1 \in Good
    <2>1. n + 1 \in 1 .. N /\ n + 1 \in 0 .. N /\ n \in Nat /\ (n + 1) - 1 = n
      BY <1>1
    <2>2. Right(n)
      BY <1>4
    <2>3. entries[n + 1] \in Urls
      BY <1>1, <2>1
    <2>4. f[n + 1] = IF entries[n + 1] \in ToSet(f[n]) THEN f[n]
                     ELSE Append(f[n], entries[n + 1])
      BY <1>2, <2>1
    <2>5. {entries[i] : i \in 1 .. n + 1} = {entries[i] : i \in 1 .. n} \union {entries[n + 1]}
      BY <2>1
    <2>6. Right(n + 1)
      <3>1. CASE entries[n + 1] \in ToSet(f[n])
        BY <2>1, <2>2, <2>4, <2>5, <3>1
      <3>2. CASE entries[n + 1] \notin ToSet(f[n])
        <4>1. f[n + 1] = Append(f[n], entries[n + 1]) /\ f[n] \in Seq(Urls) /\ Len(f[n]) \in Nat
          BY <2>2, <2>4, <3>2
        <4> QED
          BY <2>1, <2>2, <2>3, <2>5, <3>2, <4>1, AppendUrl
      <3> QED
        BY <3>1, <3>2
    <2> HIDE DEF Right
    <2> QED
      BY <2>1, <2>6
  <1> HIDE DEF Good
  <1>5. 0 .. N \subseteq Good
    BY <1>1, <1>3, <1>4, Induction
  <1>6. N \in Good
    BY <1>1, <1>5
  <1>7. Right(N)
    BY <1>6 DEF Good
  <1> QED
    BY <1>1, <1>2, <1>7 DEF ToSet

\* Those of deleteMatchingBookmarks.
LEMMA DeleteMatchingLoop ==
    ASSUME NEW entries \in Seq(Urls), NEW url \in Urls
    PROVE  \E f : /\ f[0] = <<>>
                  /\ \A n \in 1 .. Len(entries) :
                        f[n] = IF entries[n] = url THEN f[n - 1]
                               ELSE Append(f[n - 1], entries[n])
                  /\ deleteMatchingBookmarks(url, entries) = f[Len(entries)]
  <1> DEFINE N == Len(entries)
             Round(n, s) == IF entries[n] = url THEN s ELSE Append(s, entries[n])
             step == [n \in 1 .. N |-> [s \in Seq(Urls) |-> Round(n, s)]]
             IsLoop(f) == f = [n \in 0 .. N |-> IF n = 0 THEN <<>> ELSE Round(n, f[n - 1])]
             loop == CHOOSE f : IsLoop(f)
  <1>1. N \in Nat /\ <<>> \in Seq(Urls)
    OBVIOUS
  <1>2. step \in [1 .. N -> [Seq(Urls) -> Seq(Urls)]]
    <2>1. ASSUME NEW n \in 1 .. N, NEW s \in Seq(Urls) PROVE Round(n, s) \in Seq(Urls)
      BY AppendUrl
    <2> HIDE DEF Round
    <2> QED
      BY <2>1
  <1>3. PICK f \in [0 .. N -> Seq(Urls)] :
            f[0] = <<>> /\ \A n \in 1 .. N : f[n] = step[n][f[n - 1]]
    <2> DEFINE S == Seq(Urls)
               base == <<>>
    <2>1. N \in Nat /\ base \in S /\ step \in [1 .. N -> [S -> S]]
      BY <1>1, <1>2
    <2> HIDE DEF step, N, S, base
    <2>2. \E f \in [0 .. N -> S] : Loop(f, N, base, step)
      BY <2>1, LoopStates
    <2> QED
      BY <2>2 DEF S, base, Loop
  <1>4. \A n \in 1 .. N : f[n] = Round(n, f[n - 1])
    <2> SUFFICES ASSUME NEW n \in 1 .. N PROVE f[n] = Round(n, f[n - 1])
      OBVIOUS
    <2>1. f[n - 1] \in Seq(Urls)
      BY <1>1
    <2> HIDE DEF Round
    <2> QED
      BY <1>3, <2>1
  <1>5. IsLoop(f)
    <2> HIDE DEF Round
    <2> QED
      BY <1>1, <1>3, <1>4
  <1>6. IsLoop(loop)
    <2> HIDE DEF IsLoop
    <2> QED
      BY <1>5
  <1>7. loop[0] = <<>> /\ \A n \in 1 .. N : loop[n] = Round(n, loop[n - 1])
    <2> HIDE DEF Round, loop
    <2> QED
      BY <1>1, <1>6
  <1>8. deleteMatchingBookmarks(url, entries) = loop[N]
    BY DEF deleteMatchingBookmarks
  <1> HIDE DEF loop
  <1> QED
    BY <1>7, <1>8

\* deleteMatchingBookmarks takes out every entry of the URL, and nothing else.
LEMMA DeleteMatchingFacts ==
    ASSUME NEW entries \in Seq(Urls), NEW url \in Urls
    PROVE  /\ deleteMatchingBookmarks(url, entries) \in Seq(Urls)
           /\ Len(deleteMatchingBookmarks(url, entries)) <= Len(entries)
           /\ ToSet(deleteMatchingBookmarks(url, entries)) = ToSet(entries) \ {url}
  <1> DEFINE N == Len(entries)
  <1>1. N \in Nat /\ DOMAIN entries = 1 .. N
    OBVIOUS
  <1>2. PICK f : /\ f[0] = <<>>
                 /\ \A n \in 1 .. N :
                       f[n] = IF entries[n] = url THEN f[n - 1]
                              ELSE Append(f[n - 1], entries[n])
                 /\ deleteMatchingBookmarks(url, entries) = f[N]
    BY DeleteMatchingLoop
  <1> DEFINE Right(n) == /\ f[n] \in Seq(Urls) /\ Len(f[n]) <= n
                         /\ ToSet(f[n]) = {entries[i] : i \in 1 .. n} \ {url}
             Good == {n \in 0 .. N : Right(n)}
  <1>3. 0 \in Good
    <2>1. <<>> \in Seq(Urls) /\ Len(<<>>) = 0 /\ DOMAIN <<>> = {}
      OBVIOUS
    <2>2. ToSet(<<>>) = {}
      BY <2>1 DEF ToSet
    <2>3. Right(0)
      BY <1>2, <2>1, <2>2
    <2> HIDE DEF Right
    <2> QED
      BY <1>1, <2>3
  <1>4. ASSUME NEW n \in 0 .. N - 1, n \in Good PROVE n + 1 \in Good
    <2>1. n + 1 \in 1 .. N /\ n + 1 \in 0 .. N /\ n \in Nat /\ (n + 1) - 1 = n
      BY <1>1
    <2>2. Right(n)
      BY <1>4
    <2>3. entries[n + 1] \in Urls
      BY <1>1, <2>1
    <2>4. f[n + 1] = IF entries[n + 1] = url THEN f[n] ELSE Append(f[n], entries[n + 1])
      BY <1>2, <2>1
    <2>5. {entries[i] : i \in 1 .. n + 1} = {entries[i] : i \in 1 .. n} \union {entries[n + 1]}
      BY <2>1
    <2>6. Right(n + 1)
      <3>1. CASE entries[n + 1] = url
        BY <2>1, <2>2, <2>4, <2>5, <3>1
      <3>2. CASE entries[n + 1] # url
        <4>1. f[n + 1] = Append(f[n], entries[n + 1]) /\ f[n] \in Seq(Urls) /\ Len(f[n]) \in Nat
          BY <2>2, <2>4, <3>2
        <4> QED
          BY <2>1, <2>2, <2>3, <2>5, <3>2, <4>1, AppendUrl
      <3> QED
        BY <3>1, <3>2
    <2> HIDE DEF Right
    <2> QED
      BY <2>1, <2>6
  <1> HIDE DEF Good
  <1>5. 0 .. N \subseteq Good
    BY <1>1, <1>3, <1>4, Induction
  <1>6. N \in Good
    BY <1>1, <1>5
  <1>7. Right(N)
    BY <1>6 DEF Good
  <1> QED
    BY <1>1, <1>2, <1>7 DEF ToSet

-----------------------------------------------------------------------------
(* Pages.                                                                  *)

\* The position of a URL is that of its first entry, and 0 when it has none.
LEMMA PositionFacts ==
    ASSUME NEW entries \in Seq(Urls), NEW url
    PROVE  /\ Position(entries, url) \in 0 .. Len(entries)
           /\ Position(entries, url) # 0 <=> url \in ToSet(entries)
           /\ url \in ToSet(entries) =>
                 /\ Position(entries, url) \in DOMAIN entries
                 /\ entries[Position(entries, url)] = url
           /\ \A i \in DOMAIN entries : entries[i] = url => Position(entries, url) <= i
  <1> DEFINE I == {i \in 1 .. Len(entries) : entries[i] = url}
  <1>1. Position(entries, url) = IF I # {} THEN Min(I) ELSE 0
    BY DEF Position, SelectInSeq
  <1>2. DOMAIN entries = 1 .. Len(entries) /\ Len(entries) \in Nat
    OBVIOUS
  <1>3. url \in ToSet(entries) <=> I # {}
    BY <1>2 DEF ToSet
  <1>4. CASE I = {}
    BY <1>1, <1>2, <1>3, <1>4
  <1>5. CASE I # {}
    <2>1. I \in SUBSET Nat
      BY <1>2
    <2>2. \E i \in I : \A j \in I : i <= j
      BY <1>5, <2>1, LeastNumber
    <2>3. Min(I) \in I /\ \A j \in I : Min(I) <= j
      <3> HIDE DEF I
      <3> QED
        BY <2>2 DEF Min
    <2> QED
      BY <1>1, <1>2, <1>3, <1>5, <2>3
  <1> QED
    BY <1>4, <1>5

\* A page begins behind the position of the cursor.  Either it goes to the end of
\* the list, or it has as many entries as asked for.
LEMMA PageFacts ==
    ASSUME NEW entries \in Seq(Urls), NEW cursor, NEW limit \in Nat \ {0}
    PROVE  LET page == paginateBookmarks(entries, cursor, limit)
               index == Position(entries, cursor)
           IN  /\ page \in Seq(Urls)
               /\ index + Len(page) <= Len(entries)
               /\ \A i \in DOMAIN page : i + index \in DOMAIN entries /\ page[i] = entries[i + index]
               /\ \A i \in DOMAIN entries : (index < i /\ i <= index + Len(page)) => entries[i] \in ToSet(page)
               /\ index + Len(page) = Len(entries) \/ Len(page) = limit
  <1> DEFINE index == Position(entries, cursor)
             last == IF Len(entries) - 1 > index + limit THEN index + limit ELSE Len(entries)
             page == paginateBookmarks(entries, cursor, limit)
  <1>1. index \in 0 .. Len(entries) /\ Len(entries) \in Nat /\ DOMAIN entries = 1 .. Len(entries)
    BY PositionFacts
  <1>2. page = SubSeq(entries, index + 1, last)
    BY DEF paginateBookmarks
  <1> HIDE DEF page, index
  <1>3. last \in index .. Len(entries) /\ last \in Nat /\ index \in Nat
    BY <1>1
  <1>4. last = Len(entries) \/ last = index + limit
    OBVIOUS
  <1> HIDE DEF last
  <1>5. /\ page \in Seq(Urls) /\ Len(page) = last - index
        /\ \A i \in 1 .. last - index : page[i] = entries[index + i]
    <2>1. index + 1 \in 1 .. Len(entries) + 1 /\ last \in (index + 1) - 1 .. Len(entries)
      BY <1>1, <1>3
    <2>2. CASE last = index
      <3>1. page = <<>>
        BY <1>2, <1>3, <2>2, SubSeqEmpty
      <3> QED
        BY <1>3, <2>2, <3>1
    <2>3. CASE last # index
      BY <1>1, <1>2, <1>3, <2>3, SubSeqProperties
    <2> QED
      BY <2>2, <2>3
  <1>6. DOMAIN page = 1 .. last - index
    BY <1>3, <1>5
  <1>7. \A i \in DOMAIN page : i + index \in DOMAIN entries /\ page[i] = entries[i + index]
    BY <1>1, <1>3, <1>5, <1>6
  <1>8. ASSUME NEW i \in DOMAIN entries, index < i, i <= last PROVE entries[i] \in ToSet(page)
    <2>1. i - index \in DOMAIN page /\ page[i - index] = entries[i]
      BY <1>1, <1>3, <1>5, <1>6, <1>8
    <2> QED
      BY <2>1 DEF ToSet
  <1>9. /\ index + Len(page) = last /\ index + Len(page) <= Len(entries)
        /\ index + Len(page) = Len(entries) \/ Len(page) = limit
    <2>1. Len(page) = last - index /\ last <= Len(entries)
      BY <1>1, <1>3, <1>5
    <2>2. index + Len(page) = last
      BY <1>3, <2>1
    <2>3. limit \in Nat
      OBVIOUS
    <2>4. last = index + limit => Len(page) = limit
      BY <1>3, <2>1, <2>3
    <2> QED
      BY <1>4, <2>1, <2>2, <2>4
  <1>10. \A i \in DOMAIN entries : (index < i /\ i <= index + Len(page)) => entries[i] \in ToSet(page)
    BY <1>8, <1>9
  <1>11. page \in Seq(Urls)
    BY <1>5
  <1> QED
    BY <1>7, <1>9, <1>10, <1>11 DEF page, index

\* A URL of the list whose first entry is not behind the page was passed before it
\* or is on it; the page is made of the list, and its last entry is not behind it.
LEMMA PageCovers ==
    ASSUME NEW entries \in Seq(Urls), NEW cursor, NEW limit \in Nat \ {0}
    PROVE  LET page == paginateBookmarks(entries, cursor, limit)
               index == Position(entries, cursor)
           IN  /\ ToSet(page) \subseteq ToSet(entries)
               /\ \A url \in ToSet(entries) :
                     Position(entries, url) <= index + Len(page) =>
                         Position(entries, url) <= index \/ url \in ToSet(page)
               /\ index + Len(page) = Len(entries) =>
                     \A url \in ToSet(entries) : Position(entries, url) <= index + Len(page)
               /\ Len(page) # 0 => /\ Last(page) \in ToSet(page)
                                  /\ Position(entries, Last(page)) <= index + Len(page)
               /\ IsInjective(entries) =>
                     /\ \A url \in ToSet(page) : /\ ~(Position(entries, url) <= index)
                                                 /\ Position(entries, url) <= index + Len(page)
                     /\ Len(page) # 0 => Position(entries, Last(page)) = index + Len(page)
  <1> DEFINE page == paginateBookmarks(entries, cursor, limit)
             index == Position(entries, cursor)
  <1>1. /\ page \in Seq(Urls)
        /\ \A i \in DOMAIN page : i + index \in DOMAIN entries /\ page[i] = entries[i + index]
        /\ \A i \in DOMAIN entries : (index < i /\ i <= index + Len(page)) => entries[i] \in ToSet(page)
    BY PageFacts
  <1>2. index \in Nat /\ Len(page) \in Nat /\ Len(entries) \in Nat
    BY <1>1, PositionFacts
  <1> HIDE DEF page, index
  <1>3. DOMAIN page = 1 .. Len(page) /\ DOMAIN entries = 1 .. Len(entries)
    BY <1>1
  <1>4. \A url \in ToSet(entries) :
            Position(entries, url) \in DOMAIN entries /\ entries[Position(entries, url)] = url
    BY PositionFacts
  <1>5. \A url : \A i \in DOMAIN entries : entries[i] = url => Position(entries, url) <= i
    BY PositionFacts
  <1>6. ToSet(page) \subseteq ToSet(entries)
    BY <1>1 DEF ToSet
  <1>7. ASSUME NEW url \in ToSet(entries), Position(entries, url) <= index + Len(page),
               ~(Position(entries, url) <= index)
        PROVE  url \in ToSet(page)
    <2>1. Position(entries, url) \in DOMAIN entries /\ entries[Position(entries, url)] = url
      BY <1>4
    <2>2. index < Position(entries, url)
      BY <1>2, <1>3, <1>7, <2>1
    <2> QED
      BY <1>1, <1>7, <2>1, <2>2
  <1>8. ASSUME index + Len(page) = Len(entries), NEW url \in ToSet(entries)
        PROVE  Position(entries, url) <= index + Len(page)
    BY <1>3, <1>4, <1>8
  <1>9. ASSUME Len(page) # 0
        PROVE  /\ Last(page) \in ToSet(page) /\ Len(page) + index \in DOMAIN entries
               /\ entries[Len(page) + index] = Last(page)
               /\ Position(entries, Last(page)) <= index + Len(page)
    <2>1. Len(page) \in DOMAIN page /\ Last(page) = page[Len(page)]
      BY <1>2, <1>3, <1>9 DEF Last
    <2>2. Len(page) + index \in DOMAIN entries /\ entries[Len(page) + index] = Last(page)
      BY <1>1, <2>1
    <2>3. Len(page) + index = index + Len(page)
      BY <1>2
    <2> QED
      BY <1>5, <2>1, <2>2, <2>3 DEF ToSet
  <1>10. ASSUME IsInjective(entries)
         PROVE  \A i \in DOMAIN page : Position(entries, page[i]) = i + index
    <2> SUFFICES ASSUME NEW i \in DOMAIN page PROVE Position(entries, page[i]) = i + index
      OBVIOUS
    <2>1. i + index \in DOMAIN entries /\ page[i] = entries[i + index]
      BY <1>1
    <2>2. page[i] \in ToSet(entries)
      BY <2>1 DEF ToSet
    <2>3. Position(entries, page[i]) \in DOMAIN entries /\ entries[Position(entries, page[i])] = page[i]
      BY <1>4, <2>2
    <2> QED
      BY <1>10, <2>1, <2>3 DEF IsInjective
  <1>11. ASSUME IsInjective(entries)
         PROVE  /\ \A url \in ToSet(page) : /\ ~(Position(entries, url) <= index)
                                            /\ Position(entries, url) <= index + Len(page)
                /\ Len(page) # 0 => Position(entries, Last(page)) = index + Len(page)
    <2>1. ASSUME NEW url \in ToSet(page)
          PROVE  ~(Position(entries, url) <= index) /\ Position(entries, url) <= index + Len(page)
      <3>1. PICK i \in DOMAIN page : url = page[i]
        BY DEF ToSet
      <3>2. Position(entries, url) = i + index
        BY <1>10, <1>11, <3>1
      <3> QED
        BY <1>2, <1>3, <3>2
    <2>2. ASSUME Len(page) # 0 PROVE Position(entries, Last(page)) = index + Len(page)
      <3>1. Len(page) \in DOMAIN page /\ Last(page) = page[Len(page)]
        BY <1>2, <1>3, <2>2 DEF Last
      <3>2. Position(entries, Last(page)) = Len(page) + index
        BY <1>10, <1>11, <3>1
      <3> QED
        BY <1>2, <3>2
    <2> QED
      BY <2>1, <2>2
  <1> QED
    BY <1>6, <1>7, <1>8, <1>9, <1>11 DEF page, index

-----------------------------------------------------------------------------
(* The invariant.                                                          *)

Started == client.limit # 0
Listed  == ToSet(Entries(list))
Held    == DecodedCursor(client.cursor)

\* What the client was shown, and holds, was in the list during the walk.
KnownPart ==
    /\ client.pc = "asking" => Started
    /\ Started => Listed \subseteq walk.known
    /\ walk.standing \subseteq Listed
    /\ client.cursor \in walk.known \union {NoCursor}

\* As long as the entry of the cursor is in the list, the client was shown what
\* stands up to that entry.
PassedPart ==
    /\ (client.pc = "asking" /\ ~walk.moved /\ Held \in Listed) =>
          \A url \in walk.standing :
              Position(Entries(list), url) <= Position(Entries(list), Held) => url \in walk.shown
    /\ NothingStandingMissed

\* In a list that nobody has written it was shown that, once, and nothing else.
UnwrittenPart ==
    /\ (Started /\ ~walk.touched) =>
          walk.standing = Listed /\ client.cursor \in Listed \union {NoCursor}
    /\ (client.pc = "asking" /\ ~walk.touched /\ PlainList) =>
          /\ ~walk.repeated
          /\ walk.shown = {url \in Listed :
                Position(Entries(list), url) <= Position(Entries(list), client.cursor)}
    /\ UnwrittenListInFull

ListInv == ListTypeOK /\ KnownPart /\ PassedPart /\ UnwrittenPart

LEMMA EntriesType ==
    ASSUME ListTypeOK
    PROVE  Entries(list) \in Seq(Urls) /\ Listed \subseteq Urls
  <1>1. Entries(list) \in Seq(Urls)
    BY DEF ListTypeOK, Entries
  <1> QED
    BY <1>1 DEF Listed, ToSet

\* The types of the client and of the history.
Clients == [pc : {"asking", "ended"}, limit : Limits \union {0}, cursor : Urls \union {NoCursor}]
Walks   == [shown : SUBSET Urls, repeated : BOOLEAN, standing : SUBSET Urls,
            known : SUBSET Urls, moved : BOOLEAN, touched : BOOLEAN]

-----------------------------------------------------------------------------
(* The steps of the client keep the invariant.                             *)

LEMMA StartWalkKeeps ==
    ASSUME ListInv, StartWalk
    PROVE  ListInv'
  <1>1. PICK limit \in Limits :
            client' = [pc |-> "asking", limit |-> limit, cursor |-> NoCursor]
    BY DEF StartWalk
  <1>2. /\ walk' = [shown |-> {}, repeated |-> FALSE, standing |-> Listed,
                    known |-> Listed, moved |-> FALSE, touched |-> FALSE]
        /\ UNCHANGED <<list, writes>>
    BY DEF StartWalk, Listed
  <1>3. Entries(list) \in Seq(Urls) /\ Listed \subseteq Urls
    BY EntriesType DEF ListInv
  <1>4. Listed' = Listed /\ Entries(list') = Entries(list)
    BY <1>2 DEF Listed, Entries
  <1>5. limit # 0 /\ NoCursor \notin Listed /\ NoCursor \notin Mangled
    BY <1>3, ListAssumption
  <1>6. \A url \in Listed : ~(Position(Entries(list), url) <= Position(Entries(list), NoCursor))
    <2> SUFFICES ASSUME NEW url \in Listed
                 PROVE  ~(Position(Entries(list), url) <= Position(Entries(list), NoCursor))
      OBVIOUS
    <2>1. Position(Entries(list), NoCursor) = 0
      BY <1>3, <1>5, PositionFacts DEF Listed
    <2>2. Position(Entries(list), url) \in Nat /\ Position(Entries(list), url) # 0
      BY <1>3, PositionFacts DEF Listed
    <2> QED
      BY <2>1, <2>2
  <1>7. ListTypeOK'
    BY <1>1, <1>2, <1>3 DEF ListInv, ListTypeOK
  <1>8. KnownPart'
    BY <1>1, <1>2, <1>4, <1>5 DEF KnownPart, Started
  <1>9. Held' = NoCursor /\ Held' \notin Listed'
    BY <1>1, <1>4, <1>5 DEF Held, DecodedCursor
  <1>10. PassedPart'
    BY <1>1, <1>9 DEF PassedPart, NothingStandingMissed, WalkEnded
  <1>11. UnwrittenPart'
    BY <1>1, <1>2, <1>4, <1>6 DEF UnwrittenPart, UnwrittenListInFull, WalkEnded
  <1> QED
    BY <1>7, <1>8, <1>10, <1>11 DEF ListInv

LEMMA GetBookmarksKeeps ==
    ASSUME ListInv, GetBookmarks
    PROVE  ListInv'
  <1> DEFINE entries == Entries(list)
             limit == client.limit
             page == paginateBookmarks(entries, Held, limit)
             index == Position(entries, Held)
             behind == index + Len(page)
             next == NextToken(page, limit)
  <1>1. /\ client.pc = "asking" /\ UNCHANGED <<list, writes>>
        /\ client' = [client EXCEPT !.cursor = next,
                         !.pc = IF next = NoCursor THEN "ended" ELSE "asking"]
        /\ walk' = [walk EXCEPT !.shown = @ \union ToSet(page),
                       !.repeated = @ \/ (ToSet(page) \intersect walk.shown # {})]
    BY DEF GetBookmarks, Held
  <1>2. entries \in Seq(Urls) /\ Listed \subseteq Urls /\ Listed = ToSet(entries)
    BY EntriesType DEF ListInv, Listed
  <1>3. client \in Clients /\ walk \in Walks
    BY DEF ListInv, ListTypeOK, Clients, Walks
  <1>4. limit \in Nat \ {0}
    BY <1>1, <1>3, ListAssumption DEF Clients, ListInv, KnownPart, Started
  <1>5. /\ page \in Seq(Urls) /\ (behind = Len(entries) \/ Len(page) = limit)
    BY <1>2, <1>4, PageFacts
  <1>6. /\ ToSet(page) \subseteq Listed
        /\ \A url \in Listed : Position(entries, url) <= behind =>
              Position(entries, url) <= index \/ url \in ToSet(page)
        /\ behind = Len(entries) => \A url \in Listed : Position(entries, url) <= behind
        /\ Len(page) # 0 => /\ Last(page) \in ToSet(page)
                           /\ Position(entries, Last(page)) <= behind
        /\ IsInjective(entries) =>
              /\ \A url \in ToSet(page) : /\ ~(Position(entries, url) <= index)
                                          /\ Position(entries, url) <= behind
              /\ Len(page) # 0 => Position(entries, Last(page)) = behind
    BY <1>2, <1>4, PageCovers
  <1>7. index \in Nat /\ behind \in Nat /\ \A url : Position(entries, url) \in Nat
    BY <1>2, <1>5, PositionFacts
  <1>8. Listed' = Listed /\ Entries(list') = entries
    BY <1>1 DEF Listed, Entries
  <1> HIDE DEF entries, page, index, behind
  <1>9. \/ next = NoCursor /\ behind = Len(entries)
        \/ next # NoCursor /\ next = Last(page) /\ Len(page) # 0 /\ next \in Listed
    <2>1. CASE Len(page) = limit
      <3>1. Last(page) \in Listed /\ Last(page) # NoCursor
        BY <1>2, <1>4, <1>6, <2>1, ListAssumption
      <3> QED
        BY <1>4, <2>1, <3>1 DEF NextToken
    <2>2. CASE Len(page) # limit
      BY <1>5, <2>2 DEF NextToken
    <2> QED
      BY <2>1, <2>2
  <1> HIDE DEF next, limit
  <1>10. /\ client' = [pc |-> IF next = NoCursor THEN "ended" ELSE "asking",
                       limit |-> client.limit, cursor |-> next]
         /\ walk' = [shown |-> walk.shown \union ToSet(page),
                     repeated |-> walk.repeated \/ (ToSet(page) \intersect walk.shown # {}),
                     standing |-> walk.standing, known |-> walk.known, moved |-> walk.moved,
                     touched |-> walk.touched]
    BY <1>1, <1>3 DEF Clients, Walks
  <1>11. /\ Started /\ Listed \subseteq walk.known /\ walk.standing \subseteq Listed
         /\ client.limit # 0
    BY <1>1 DEF ListInv, KnownPart, Started
  <1>12. next \in Listed \union {NoCursor}
    BY <1>9
  <1>13. ListTypeOK'
    <2>1. ToSet(page) \subseteq Urls /\ next \in Urls \union {NoCursor}
      BY <1>2, <1>6, <1>12
    <2>2. client' \in Clients
      BY <1>3, <1>10, <2>1 DEF Clients
    <2>3. walk' \in Walks
      BY <1>3, <1>10, <2>1 DEF Walks
    <2>4. walk'.shown \subseteq walk'.known /\ walk'.standing \subseteq walk'.known
      BY <1>6, <1>10, <1>11 DEF ListInv, ListTypeOK
    <2> QED
      BY <1>1, <2>2, <2>3, <2>4 DEF ListInv, ListTypeOK, Clients, Walks
  <1>14. KnownPart'
    BY <1>8, <1>10, <1>11, <1>12 DEF KnownPart, Started
  <1>15. ASSUME ~walk.moved, NEW url \in walk.standing, Position(entries, url) <= behind
         PROVE  url \in walk'.shown
    <2>1. url \in Listed
      BY <1>11
    <2>2. CASE url \in ToSet(page)
      BY <1>10, <2>2
    <2>3. CASE Position(entries, url) <= index
      <3>1. Position(entries, url) # 0
        BY <1>2, <2>1, PositionFacts
      <3>2. index # 0
        BY <1>7, <2>3, <3>1
      <3>3. Held \in Listed
        BY <1>2, <3>2, PositionFacts DEF index
      <3>4. url \in walk.shown
        BY <1>1, <1>15, <2>3, <3>3 DEF ListInv, PassedPart, entries, index
      <3> QED
        BY <1>10, <3>4
    <2> QED
      BY <1>6, <1>15, <2>1, <2>2, <2>3
  <1>16. PassedPart'
    <2>1. CASE next = NoCursor
      <3>1. client'.pc = "ended" /\ walk'.moved = walk.moved /\ walk'.standing = walk.standing
        BY <1>10, <2>1
      <3>2. \A url \in Listed : Position(entries, url) <= behind
        BY <1>6, <1>9, <2>1
      <3>3. ~walk.moved => walk.standing \subseteq walk'.shown
        BY <1>11, <1>15, <3>2
      <3> QED
        BY <3>1, <3>3 DEF PassedPart, NothingStandingMissed
    <2>2. CASE next # NoCursor
      <3>1. /\ client'.pc = "asking" /\ client'.cursor = next
            /\ walk'.moved = walk.moved /\ walk'.standing = walk.standing
        BY <1>10, <2>2
      <3>2. Position(entries, next) <= behind
        BY <1>6, <1>9, <2>2
      <3>3. Held' \in Listed' => Held' = next
        BY <1>2, <1>8, <3>1, ListAssumption DEF Held, DecodedCursor
      <3>4. ASSUME ~walk.moved, NEW url \in walk.standing,
                   Position(entries, url) <= Position(entries, next)
            PROVE  url \in walk'.shown
        <4>1. Position(entries, url) <= behind
          BY <1>7, <3>2, <3>4
        <4> QED
          BY <1>15, <3>4, <4>1
      <3> QED
        BY <1>8, <3>1, <3>3, <3>4 DEF PassedPart, NothingStandingMissed, WalkEnded
    <2> QED
      BY <2>1, <2>2
  <1>17. ASSUME ~walk.touched, PlainList
         PROVE  /\ ~walk'.repeated
                /\ walk'.shown = {url \in Listed : Position(entries, url) <= behind}
    <2>1. IsInjective(entries) /\ Listed \intersect Mangled = {}
      BY <1>17 DEF PlainList, entries, Listed
    <2>2. Held = client.cursor
      BY <1>11, <1>17, <2>1, ListAssumption DEF ListInv, UnwrittenPart, Held, DecodedCursor
    <2>3. /\ ~walk.repeated
          /\ walk.shown = {url \in Listed : Position(entries, url) <= index}
      BY <1>1, <1>17, <2>2 DEF ListInv, UnwrittenPart, entries, index
    <2>4. ~walk'.repeated
      BY <1>6, <1>10, <2>1, <2>3
    <2>5. \A url \in Listed : Position(entries, url) <= index => Position(entries, url) <= behind
      BY <1>5, <1>7 DEF behind
    <2>6. walk'.shown = walk.shown \union ToSet(page)
      BY <1>10
    <2> QED
      BY <1>6, <2>1, <2>3, <2>4, <2>5, <2>6
  <1>18. PlainList' = PlainList
    BY <1>8 DEF PlainList, entries
  <1>19. UnwrittenPart'
    <2>1. CASE next = NoCursor
      <3>1. client'.pc = "ended" /\ client'.cursor = NoCursor /\ walk'.touched = walk.touched
            /\ walk'.standing = walk.standing
        BY <1>10, <2>1
      <3>2. \A url \in Listed : Position(entries, url) <= behind
        BY <1>6, <1>9, <2>1
      <3>3. ~walk.touched => walk.standing = Listed
        BY <1>11 DEF ListInv, UnwrittenPart
      <3>4. (~walk.touched /\ PlainList) => ~walk'.repeated /\ walk'.shown = walk.standing
        BY <1>17, <3>2, <3>3
      <3> QED
        BY <1>8, <1>18, <3>1, <3>3, <3>4 DEF UnwrittenPart, UnwrittenListInFull
    <2>2. CASE next # NoCursor
      <3>1. client'.pc = "asking" /\ client'.cursor = next /\ walk'.touched = walk.touched
            /\ walk'.standing = walk.standing
        BY <1>10, <2>2
      <3>2. ~walk.touched => walk.standing = Listed
        BY <1>11 DEF ListInv, UnwrittenPart
      <3>3. PlainList => Position(entries, next) = behind
        BY <1>6, <1>9, <2>2 DEF PlainList, entries
      <3> QED
        BY <1>8, <1>12, <1>17, <1>18, <3>1, <3>2, <3>3
        DEF UnwrittenPart, UnwrittenListInFull, WalkEnded
    <2> QED
      BY <2>1, <2>2
  <1> QED
    BY <1>13, <1>14, <1>16, <1>19 DEF ListInv

-----------------------------------------------------------------------------
(* So do the writes.                                                       *)

LEMMA WriteKeeps ==
    ASSUME ListInv, NEW new, new = NoList \/ (new \in Seq(Urls) /\ Len(new) <= MaxLength),
           Write(new)
    PROVE  ListInv'
  <1> DEFINE old == Entries(list)
             next == Entries(new)
             moved == walk.moved \/ ~KeepsOrder(old, next)
  <1>1. /\ writes < MaxWrites /\ writes' = writes + 1 /\ list' = new /\ client' = client
        /\ walk' = [walk EXCEPT !.standing = @ \intersect ToSet(next),
                               !.known = @ \union ToSet(next),
                               !.moved = @ \/ ~KeepsOrder(old, next),
                               !.touched = TRUE]
    BY DEF Write
  <1>2. client \in Clients /\ walk \in Walks /\ writes \in 0 .. MaxWrites
    BY DEF ListInv, ListTypeOK, Clients, Walks
  <1>3. old \in Seq(Urls) /\ Listed = ToSet(old)
    BY EntriesType DEF ListInv, Listed
  <1>4. next \in Seq(Urls)
    BY DEF Entries
  <1>5. ToSet(next) \subseteq Urls
    BY <1>4 DEF ToSet
  <1>6. Entries(list') = next /\ Listed' = ToSet(next)
    BY <1>1 DEF Listed, Entries
  <1> HIDE DEF old, next
  <1>7. walk' = [shown |-> walk.shown, repeated |-> walk.repeated,
                 standing |-> walk.standing \intersect ToSet(next),
                 known |-> walk.known \union ToSet(next),
                 moved |-> moved, touched |-> TRUE]
    BY <1>1, <1>2 DEF Walks
  <1>8. moved \in BOOLEAN
    BY <1>2 DEF Walks, KeepsOrder
  <1>9. writes' \in 0 .. MaxWrites
    BY <1>1, <1>2, ListAssumption
  <1>10. ~moved => ~walk.moved /\ KeepsOrder(old, next)
    OBVIOUS
  <1> HIDE DEF moved
  <1>11. ListTypeOK'
    <2>1. walk' \in Walks
      BY <1>2, <1>5, <1>7, <1>8 DEF Walks
    <2>2. walk'.shown \subseteq walk'.known /\ walk'.standing \subseteq walk'.known
      BY <1>7 DEF ListInv, ListTypeOK
    <2> QED
      BY <1>1, <1>2, <1>9, <2>1, <2>2 DEF ListTypeOK, Clients, Walks
  <1>12. KnownPart'
    BY <1>1, <1>6, <1>7 DEF ListInv, KnownPart, Started
  <1>13. ASSUME client.pc = "asking", ~moved, Held \in ToSet(next),
                NEW url \in walk.standing \intersect ToSet(next),
                Position(next, url) <= Position(next, Held)
         PROVE  url \in walk.shown
    <2>1. Held \in walk.known
      BY <1>4, <1>5, <1>13, ListAssumption DEF ListInv, KnownPart, Held, DecodedCursor
    <2>2. Held \in ToSet(old) /\ url \in ToSet(old)
      BY <1>3, <1>10, <1>13, <2>1 DEF KeepsOrder, ListInv, KnownPart
    <2>3. Position(next, url) \in DOMAIN next /\ next[Position(next, url)] = url
          /\ Position(next, Held) \in DOMAIN next /\ next[Position(next, Held)] = Held
      BY <1>4, <1>13, PositionFacts
    <2>4. Position(old, url) \in Nat /\ Position(old, Held) \in Nat
          /\ Position(next, url) \in Nat /\ Position(next, Held) \in Nat
      BY <1>3, <1>4, PositionFacts
    <2>5. Position(old, url) <= Position(old, Held)
      <3>1. CASE Position(next, url) = Position(next, Held)
        BY <2>3, <2>4, <3>1
      <3>2. CASE Position(next, url) < Position(next, Held)
        BY <1>10, <1>13, <2>2, <2>4, <3>2 DEF KeepsOrder
      <3> QED
        BY <1>13, <2>4, <3>1, <3>2
    <2> QED
      BY <1>3, <1>10, <1>13, <2>2, <2>5 DEF ListInv, PassedPart, old
  <1>14. PassedPart'
    <2>1. Held' = Held
      BY <1>1 DEF Held
    <2>2. NothingStandingMissed'
      BY <1>1, <1>7, <1>10 DEF ListInv, PassedPart, NothingStandingMissed, WalkEnded
    <2>3. /\ walk'.moved = moved /\ walk'.standing = walk.standing \intersect ToSet(next)
          /\ walk'.shown = walk.shown
      BY <1>7
    <2>5. client'.pc = client.pc
      BY <1>1
    <2>4. ASSUME client.pc = "asking", ~moved, Held \in ToSet(next)
          PROVE  \A url \in walk.standing \intersect ToSet(next) :
                     Position(next, url) <= Position(next, Held) => url \in walk.shown
      BY <1>13, <2>4
    <2> QED
      BY <1>6, <2>1, <2>2, <2>3, <2>4, <2>5 DEF PassedPart
  <1>15. UnwrittenPart'
    BY <1>7 DEF UnwrittenPart, UnwrittenListInFull
  <1> QED
    BY <1>11, <1>12, <1>14, <1>15 DEF ListInv

LEMMA SentListsType ==
    ASSUME NEW new \in SentLists
    PROVE  new \in Seq(Urls) /\ Len(new) <= MaxLength
  <1>1. PICK n \in 0 .. MaxSent : new \in [1 .. n -> Urls]
    BY DEF SentLists, SeqOf
  <1>2. n \in Nat /\ n <= MaxLength
    BY ListAssumption
  <1> QED
    BY <1>1, <1>2

LEMMA WritesKeep ==
    ASSUME ListInv,
           PutBookmarks \/ PostBookmarks \/ FindAndDeleteBookmarkEntry \/ DeleteBookmarks
    PROVE  ListInv'
  <1>1. CASE PutBookmarks
    BY <1>1, SentListsType, WriteKeeps DEF PutBookmarks
  <1>2. CASE PostBookmarks
    <2>1. PICK new \in SentLists :
              LET merged == IF list = NoList THEN new ELSE removeDuplicates(list \o new)
              IN  Write(merged) /\ Len(merged) <= MaxLength
      BY <1>2 DEF PostBookmarks
    <2>2. new \in Seq(Urls)
      BY SentListsType
    <2>3. CASE list = NoList
      BY <2>1, <2>2, <2>3, WriteKeeps
    <2>4. CASE list # NoList
      <3>1. list \o new \in Seq(Urls)
        BY <2>2, <2>4 DEF ListInv, ListTypeOK
      <3>2. removeDuplicates(list \o new) \in Seq(Urls)
        BY <3>1, RemoveDuplicatesFacts
      <3> QED
        BY <2>1, <2>4, <3>2, WriteKeeps
    <2> QED
      BY <2>3, <2>4
  <1>3. CASE FindAndDeleteBookmarkEntry
    <2>1. PICK url \in Urls : Write(deleteMatchingBookmarks(url, list))
      BY <1>3 DEF FindAndDeleteBookmarkEntry
    <2>2. list \in Seq(Urls) /\ Len(list) <= MaxLength
      BY <1>3 DEF FindAndDeleteBookmarkEntry, ListInv, ListTypeOK
    <2>3. /\ deleteMatchingBookmarks(url, list) \in Seq(Urls)
          /\ Len(deleteMatchingBookmarks(url, list)) <= Len(list)
      BY <2>2, DeleteMatchingFacts
    <2>4. Len(deleteMatchingBookmarks(url, list)) <= MaxLength
      <3>1. Len(list) \in Nat /\ Len(deleteMatchingBookmarks(url, list)) \in Nat
        BY <2>2, <2>3
      <3> QED
        BY <2>2, <2>3, <3>1, ListAssumption
    <2> QED
      BY <2>1, <2>3, <2>4, WriteKeeps
  <1>4. CASE DeleteBookmarks
    BY <1>4, WriteKeeps DEF DeleteBookmarks
  <1> QED
    BY <1>1, <1>2, <1>3, <1>4

-----------------------------------------------------------------------------
(* The theorems.                                                           *)

LEMMA ListStarts == ListInit => ListInv
  <1> SUFFICES ASSUME ListInit PROVE ListInv
    OBVIOUS
  <1>1. /\ list \in BookmarkLists \union {NoList} /\ writes = 0
        /\ client = [pc |-> "ended", limit |-> 0, cursor |-> NoCursor]
        /\ walk = [shown |-> {}, repeated |-> FALSE, standing |-> {},
                   known |-> {}, moved |-> FALSE, touched |-> FALSE]
    BY DEF ListInit
  <1>2. list = NoList \/ (list \in Seq(Urls) /\ Len(list) <= MaxLength)
    <2>1. CASE list \in BookmarkLists
      <3>1. PICK n \in 0 .. MaxLength : list \in [1 .. n -> Urls]
        BY <2>1 DEF BookmarkLists, SeqOf
      <3> QED
        BY <3>1, ListAssumption
    <2> QED
      BY <1>1, <2>1
  <1>3. ListTypeOK
    BY <1>1, <1>2, ListAssumption DEF ListTypeOK
  <1>4. KnownPart
    BY <1>1 DEF KnownPart, Started
  <1>5. PassedPart /\ UnwrittenPart
    BY <1>1 DEF PassedPart, UnwrittenPart, NothingStandingMissed, UnwrittenListInFull,
                WalkEnded, Started
  <1> QED
    BY <1>3, <1>4, <1>5 DEF ListInv

LEMMA ListStepKeeps == ListInv /\ [ListNext]_listVars => ListInv'
  <1> SUFFICES ASSUME ListInv, [ListNext]_listVars
               PROVE  ListInv'
    OBVIOUS
  <1>1. CASE StartWalk
    BY <1>1, StartWalkKeeps
  <1>2. CASE GetBookmarks
    BY <1>2, GetBookmarksKeeps
  <1>3. CASE PutBookmarks \/ PostBookmarks \/ FindAndDeleteBookmarkEntry \/ DeleteBookmarks
    BY <1>3, WritesKeep
  <1>4. CASE UNCHANGED listVars
    <2>1. UNCHANGED <<list, writes, client, walk>>
      BY <1>4 DEF listVars
    <2>2. Entries(list') = Entries(list) /\ Listed' = Listed /\ Started' = Started /\ Held' = Held
      BY <2>1 DEF Entries, Listed, Started, Held
    <2>3. ListTypeOK' /\ KnownPart'
      BY <2>1, <2>2 DEF ListInv, ListTypeOK, KnownPart
    <2>4. PassedPart' /\ UnwrittenPart'
      BY <2>1, <2>2 DEF ListInv, PassedPart, UnwrittenPart, NothingStandingMissed,
                        UnwrittenListInFull, WalkEnded, PlainList
    <2> QED
      BY <2>3, <2>4 DEF ListInv
  <1> QED
    BY <1>1, <1>2, <1>3, <1>4 DEF ListNext

LEMMA ListInvariance == ListSpec => []ListInv
  <1>1. ListInit => ListInv
    BY ListStarts
  <1>2. ListInv /\ [ListNext]_listVars => ListInv'
    BY ListStepKeeps
  <1> QED
    BY <1>1, <1>2, PTL DEF ListSpec

\* The list, the client and what it was shown have their types; only what was in
\* the list during the walk is shown.
THEOREM ListTypeCorrect == ListSpec => []ListTypeOK
  <1>1. ListInv => ListTypeOK
    BY DEF ListInv
  <1> QED
    BY <1>1, ListInvariance, PTL

\* The pages of a list that nobody writes make up the list, each entry on one page,
\* for every limit.
THEOREM PagesMakeUpTheList == ListSpec => []UnwrittenListInFull
  <1>1. ListInv => UnwrittenListInFull
    BY DEF ListInv, UnwrittenPart
  <1> QED
    BY <1>1, ListInvariance, PTL

\* A walk beside any writes that keep the order of the list misses no entry that
\* was there all the time, even when the entry that the cursor names is taken away.
THEOREM WalkMissesNothing == ListSpec => []NothingStandingMissed
  <1>1. ListInv => NothingStandingMissed
    BY DEF ListInv, PassedPart
  <1> QED
    BY <1>1, ListInvariance, PTL
=============================================================================
