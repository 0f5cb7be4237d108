------------------------- MODULE ApiImplementsShelf -------------------------
(***************************************************************************)
(* The bookmark routes seen as a BookmarkShelf: the shelf is the list that *)
(* the item names, and the item alone decides when a write takes effect.   *)
(***************************************************************************)
EXTENDS BookmarkApi

\* The list under the version of r.
ListOf(r) == IF Live(r) THEN bucket[r.version] ELSE NoObject

phaseOf(s) ==
    CASE s.pc = "idle"         -> "idle"
      [] s.pc = "done"         -> "answered"
      [] s.pc = "deleteObject" -> "effected"
      [] s.pc = "getObject" /\ s.op \in Reads -> "effected"
      [] OTHER                 -> "called"

callOf(s) ==
    [op     |-> s.op,
     phase  |-> phaseOf(s),
     arg    |-> s.arg,
     found  |-> IF s.op \in Reads /\ s.pc = "getObject" THEN ListOf(s.seen) ELSE NoObject,
     answer |-> s.answer,
     body   |-> IF s.pc = "done" THEN s.body ELSE {}]

Shelf == INSTANCE BookmarkShelf
            WITH shelf  <- ListOf(record),
                 call   <- [h \in Handlers |-> callOf(handler[h])],
                 NoList <- NoObject

\* One writer at a time with readers beside it, consistent reads of the item,
\* writes that fail with or without effect, and invocations killed anywhere:
\* the routes behave as a shelf.  A write is visible entirely or not at all,
\* an acknowledged one is never undone, and a read that succeeds returns a
\* list that was the user's during the read.
ImplementsShelf == Shelf!Spec
=============================================================================
