SPECIFICATION DistSpec
CONSTANTS
  h1 = h1
  d1 = d1
  d2 = d2
  NoObject = NoObject
  MaxVersion = 2
  MaxTime = 1
  DelayedStatusTime = 0
  Handlers <- OneHandler
  Serves <- PutsAndDeletes
  Urls = {}
  ValidUrls = {}
  Faults <- WritesFail
  Distributors <- LoneDistributor
  Routes <- OnlyDistribute
  Devices = {"a"}
  MaxRepeat = 2
  LastRequest = 1
INVARIANTS DistTypeOK BackedUnlessLostUpdate ExecutionHasItsInputs UnmodifiedMeansDistributed ClearedListWasPackaged
