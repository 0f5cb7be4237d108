------------------------- MODULE MCDistributionApi -------------------------
(* Instances of DistributionApi for TLC.                                   *)
EXTENDS DistributionApi, TLC

CONSTANTS h1, d1, d2

NoHandler      == {}
OneHandler     == {h1}
LoneDistributor == {d1}
TwoDistributors == {d1, d2}
OnlyPuts       == [h \in Handlers |-> {"put"}]
PutsAndDeletes == [h \in Handlers |-> {"put", "delete"}]
OnlyDistribute == [d \in Distributors |-> {"distribute"}]
\* One invocation distributes while the other reports.
RouteByRole    == [d \in Distributors |-> IF d = d1 THEN {"distribute"} ELSE {"status"}]

\* Invocations that serve the same route are interchangeable.
DistributorSymmetry == Permutations(TwoDistributors)

NoFaults   == {}
WritesFail == {"writeError", "clientError"}
Kills      == {"kill", "readError"}
=============================================================================
