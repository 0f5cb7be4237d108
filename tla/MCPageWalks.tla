---------------------------- MODULE MCPageWalks ----------------------------
(* One instance of ListPages and of TablePages for TLC: a behaviour follows *)
(* the pages of a list or those of a table, and the other one is at rest.   *)
EXTENDS ListPages, TablePages

VARIABLE walked

walkVars == <<listVars, tableVars, walked>>

EmptyTable == TableInit /\ table = [k \in Keys |-> "none"]
EmptyList  == ListInit /\ list = NoList

WalkInit == \/ walked = "list" /\ ListInit /\ EmptyTable
            \/ walked = "table" /\ TableInit /\ EmptyList

OnList(step)  == walked = "list" /\ step /\ UNCHANGED <<tableVars, walked>>
OnTable(step) == walked = "table" /\ step /\ UNCHANGED <<listVars, walked>>

WalkNext == OnList(ListNext) \/ OnTable(TableNext)

\* The fairness of FairListSpec.
FairWalkSpec == WalkInit /\ [][WalkNext]_walkVars /\ WF_walkVars(OnList(GetBookmarks))
=============================================================================
