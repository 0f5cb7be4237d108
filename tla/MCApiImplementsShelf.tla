------------------------ MODULE MCApiImplementsShelf ------------------------
(* One writer and one reader of BookmarkApi for TLC.                      *)
EXTENDS ApiImplementsShelf, TLC

CONSTANTS w, r1, u1, u2, bad

WriterAndReader == {w, r1}
ServesByRole    == (w :> Puts \union {"delete"}) @@ (r1 :> Reads)
WritesMayFail   == {"writeError", "clientError", "kill"}

\* The instance is one that the theorem about the shelf speaks of.
ASSUME ShelfInstance == OneWriter /\ FreshReads
=============================================================================
