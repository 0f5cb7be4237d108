SPECIFICATION DistSpec
CONSTANTS
  h1 = h1
  d1 = d1
  d2 = d2
  NoObject = NoObject
  MaxVersion = 1
  MaxTime = 3
  DelayedStatusTime = 0
  Handlers <- OneHandler
  Serves <- OnlyPuts
  Urls = {"u1"}
  ValidUrls = {"u1"}
  Faults <- NoFaults
  Distributors <- LoneDistributor
  Routes <- OnlyDistribute
  Devices = {"a"}
  MaxRepeat = 1
  LastRequest = 3
INVARIANTS PendingHasNotEnded
