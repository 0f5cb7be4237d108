-------------------------- MODULE MCBookmarkRepair --------------------------
(* An instance of BookmarkRepair for TLC, in which everything may fail.    *)
EXTENDS BookmarkRepair, TLC

CONSTANTS h1, h2

TwoHandlers == {h1, h2}
ServeWrites == [h \in Handlers |-> {"put", "remove", "delete"}]
AllFaults   == FaultKinds \ {"clientError"}   \* which has the effect of "kill"

WriterSymmetry == Permutations({h1, h2})
=============================================================================
