SPECIFICATION DistSpec
CONSTANTS
  h1 = h1
  d1 = d1
  d2 = d2
  NoObject = NoObject
  MaxVersion = 2
  MaxTime = 1
  DelayedStatusTime = 0
  Handlers <- OneHandler
  Serves <- OnlyPuts
  Urls = {}
  ValidUrls = {}
  Faults <- NoFaults
  Distributors <- TwoDistributors
  Routes <- OnlyDistribute
  Devices = {"a"}
  MaxRepeat = 1
  LastRequest = 1
SYMMETRY DistributorSymmetry
INVARIANTS BackedUnlessLostUpdate ExecutionHasItsInputs UnmodifiedMeansDistributed
