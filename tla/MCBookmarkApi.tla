--------------------------- MODULE MCBookmarkApi ---------------------------
(* An instance of BookmarkApi for TLC: requests of every kind interleave   *)
(* where no call fails, but reads may be stale.                            *)
EXTENDS BookmarkApi, TLC

CONSTANTS h1, h2, h3

ThreeHandlers == {h1, h2, h3}

\* Two invocations serve writes, the third deletions.
ServeByKind == (h1 :> Puts) @@ (h2 :> Puts) @@ (h3 :> {"delete"})

StaleReads  == {"staleRead"}

WriterSymmetry == Permutations({h1, h2})
=============================================================================
