------------------------------ MODULE ListPages ------------------------------
(***************************************************************************)
(* The pages of GET /bookmarks.  A client follows the cursors through a    *)
(* user's list while other requests write it.  A page is cut out of the    *)
(* list as it is now, and the cursor is the URL of the last entry shown:   *)
(* the server keeps nothing.  Here a list is a sequence of URLs, and a     *)
(* write replaces it at one instant, which is what BookmarkShelf promises. *)
(***************************************************************************)
EXTENDS Integers, FiniteSets, SequencesExt

CONSTANTS Urls,         \* the URLs in use
          Mangled,      \* those whose cursor the next request does not decode
          NoList,       \* there is no item, or a deleted one
          Limits,       \* the page limits that clients ask for
          MaxLength,    \* bound: how long a list is
          MaxSent,      \* bound: how many entries a request sends
          MaxWrites     \* bound: how often the list is written

NoCursor == ""

\* ValidateURL refuses the empty URL.
ASSUME ListAssumption == /\ Mangled \subseteq Urls /\ NoCursor \notin Urls
                         /\ NoList \notin Seq(Urls)
                         /\ Limits \subseteq Nat \ {0}
                         /\ MaxLength \in Nat /\ MaxSent \in 0 .. MaxLength
                         /\ MaxWrites \in Nat

VARIABLES list,     \* the stored list
          writes,   \* how often it was written
          client,   \* the client and the cursor it holds
          walk      \* history: what the client was shown, what became of the list

listVars == <<list, writes, client, walk>>

BookmarkLists == SeqOf(Urls, MaxLength)
SentLists     == SeqOf(Urls, MaxSent)

Entries(stored) == IF stored = NoList THEN <<>> ELSE stored

-----------------------------------------------------------------------------
(* The pages.                                                              *)

\* A base64 cursor with a "+" comes back with a blank, is not base64 and is
\* dropped: the request is one for the first page.
DecodedCursor(cursor) == IF cursor \in Mangled THEN NoCursor ELSE cursor

\* Mutant: the page starts at the entry of the cursor.
PositionOfEntry(entries, cursor) ==
    IF cursor \in ToSet(entries) THEN SelectInSeq(entries, LAMBDA url : url = cursor) - 1 ELSE 0

\* Mutant: a cursor whose entry is gone is at the end of the list.
PositionOrEnd(entries, cursor) ==
    IF cursor = NoCursor THEN 0
    ELSE IF cursor \in ToSet(entries) THEN SelectInSeq(entries, LAMBDA url : url = cursor)
    ELSE Len(entries)

\* How many entries come before the page: those up to the first that has the URL
\* of the cursor, none when no entry has it.
Position(entries, cursor) == SelectInSeq(entries, LAMBDA url : url = cursor)

\* An entry left alone is shown with the page before it; the empty sequence
\* stands for the 404.
paginateBookmarks(entries, cursor, limit) ==
    LET index == Position(entries, cursor)
    IN  SubSeq(entries, index + 1,
               IF Len(entries) - 1 > index + limit THEN index + limit ELSE Len(entries))

\* Mutant: the cursor is the first entry of the page.
NextTokenOfFirst(page, limit) == IF Len(page) = limit THEN Head(page) ELSE NoCursor

NextToken(page, limit) == IF Len(page) = limit THEN Last(page) ELSE NoCursor

-----------------------------------------------------------------------------
(* The client.                                                             *)

StartWalk ==
    /\ client.pc # "asking"
    /\ \E limit \in Limits :
          client' = [pc |-> "asking", limit |-> limit, cursor |-> NoCursor]
    /\ LET urls == ToSet(Entries(list))
       IN  walk' = [shown |-> {}, repeated |-> FALSE, standing |-> urls,
                    known |-> urls, moved |-> FALSE, touched |-> FALSE]
    /\ UNCHANGED <<list, writes>>

\* One request.  The client stops at a 404 and at a page without a cursor.
GetBookmarks ==
    /\ client.pc = "asking"
    /\ LET page == paginateBookmarks(Entries(list), DecodedCursor(client.cursor), client.limit)
           next == NextToken(page, client.limit)
       IN  /\ client' = [client EXCEPT !.cursor = next,
                            !.pc = IF next = NoCursor THEN "ended" ELSE "asking"]
           /\ walk' = [walk EXCEPT !.shown = @ \union ToSet(page),
                          !.repeated = @ \/ (ToSet(page) \intersect walk.shown # {})]
    /\ UNCHANGED <<list, writes>>

-----------------------------------------------------------------------------
(* The writes.                                                             *)

\* What stays in the list keeps its order, and no URL comes back that had left the
\* list during this walk.
KeepsOrder(old, new) ==
    /\ ToSet(new) \intersect walk.known \subseteq ToSet(old)
    /\ \A url, other \in ToSet(old) \intersect ToSet(new) :
          Position(new, url) < Position(new, other) => Position(old, url) < Position(old, other)

Write(new) ==
    /\ writes < MaxWrites
    /\ writes' = writes + 1
    /\ list' = new
    /\ walk' = [walk EXCEPT
                  !.standing = @ \intersect ToSet(Entries(new)),
                  !.known = @ \union ToSet(Entries(new)),
                  !.moved = @ \/ ~KeepsOrder(Entries(list), Entries(new)),
                  !.touched = TRUE]
    /\ UNCHANGED client

\* PUT stores what it is given, repeated URLs included.
PutBookmarks == \E new \in SentLists : Write(new)

\* The first entry of each URL is kept.
removeDuplicates(entries) ==
    LET kept[n \in 0 .. Len(entries)] ==
          IF n = 0 THEN <<>>
          ELSE IF entries[n] \in ToSet(kept[n - 1]) THEN kept[n - 1]
          ELSE Append(kept[n - 1], entries[n])
    IN  kept[Len(entries)]

\* POST appends, and looks for repeated URLs only when there is a list to append to.
PostBookmarks ==
    \E new \in SentLists :
        LET merged == IF list = NoList THEN new ELSE removeDuplicates(list \o new)
        IN  Write(merged) /\ Len(merged) <= MaxLength

\* Mutant: the copy is not cut to the entries that remain.
RemainingUncut(url, entries) ==
    [i \in DOMAIN entries |-> LET kept == SelectSeq(entries, LAMBDA entry : entry # url)
                              IN  IF i <= Len(kept) THEN kept[i] ELSE ""]

deleteMatchingBookmarks(url, entries) ==
    LET remaining[n \in 0 .. Len(entries)] ==
          IF n = 0 THEN <<>>
          ELSE IF entries[n] = url THEN remaining[n - 1]
          ELSE Append(remaining[n - 1], entries[n])
    IN  remaining[Len(entries)]

\* DELETE /bookmarks/:url; a list without the URL is written again.
FindAndDeleteBookmarkEntry ==
    /\ list # NoList
    /\ \E url \in Urls : Write(deleteMatchingBookmarks(url, list))

\* DELETE /bookmarks.
DeleteBookmarks == list # NoList /\ Write(NoList)

-----------------------------------------------------------------------------
ListInit ==
    /\ list \in BookmarkLists \union {NoList}
    /\ writes = 0
    /\ client = [pc |-> "ended", limit |-> 0, cursor |-> NoCursor]
    /\ walk = [shown |-> {}, repeated |-> FALSE, standing |-> {},
               known |-> {}, moved |-> FALSE, touched |-> FALSE]

ListNext == \/ StartWalk \/ GetBookmarks
            \/ PutBookmarks \/ PostBookmarks
            \/ FindAndDeleteBookmarkEntry \/ DeleteBookmarks

ListSpec == ListInit /\ [][ListNext]_listVars

\* A client that was given a cursor goes on, and is answered.
FairListSpec == ListSpec /\ WF_listVars(GetBookmarks)

-----------------------------------------------------------------------------
\* Only what was in the list during the walk is shown.
ListTypeOK ==
    /\ list = NoList \/ (list \in Seq(Urls) /\ Len(list) <= MaxLength)
    /\ writes \in 0 .. MaxWrites
    /\ client \in [pc : {"asking", "ended"}, limit : Limits \union {0},
                   cursor : Urls \union {NoCursor}]
    /\ walk \in [shown : SUBSET Urls, repeated : BOOLEAN, standing : SUBSET Urls,
                 known : SUBSET Urls, moved : BOOLEAN, touched : BOOLEAN]
    /\ walk.shown \subseteq walk.known /\ walk.standing \subseteq walk.known

WalkEnded == client.pc = "ended" /\ client.limit # 0

\* No URL is twice in the list, and every cursor is decoded: PUT grants neither.
PlainList == LET entries == Entries(list)
             IN  IsInjective(entries) /\ ToSet(entries) \intersect Mangled = {}

\* The pages of a list that nobody writes make up the list: every entry is on one
\* page, though a page may have one entry more than the limit, and a list that is
\* cut without a rest ends in a 404.
UnwrittenListInFull ==
    (WalkEnded /\ ~walk.touched /\ PlainList) =>
        walk.shown = walk.standing /\ ~walk.repeated

\* Writes may fall between the pages, and may take away the entry that the cursor
\* names: the client is shown again what it has seen, but never misses an entry
\* that was in the list all the time, as long as the list keeps its order and no
\* URL comes back that had left it during the walk.
NothingStandingMissed == (WalkEnded /\ ~walk.moved) => walk.standing \subseteq walk.shown

\* A walk ends once the list has stopped changing, unless it holds a repeated URL or
\* a cursor that is lost: an entry that leaves the list may send the walk back to its
\* start, and only writes that take the entry of the cursor away again and again keep
\* it going.
ListSettles == <>[][UNCHANGED list]_listVars
WalkEnds ==
    ListSettles => (client.pc = "asking" ~> (client.pc = "ended" \/ ~PlainList))
=============================================================================
