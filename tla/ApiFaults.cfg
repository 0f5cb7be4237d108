SPECIFICATION RepairSpec
CONSTANTS
  h1 = h1
  h2 = h2
  NoObject = NoObject
  MaxVersion = 2
  MaxTime = 1
  DelayedStatusTime = 0
  Handlers <- TwoHandlers
  Serves <- ServeWrites
  Urls = {"u1", "bad"}
  ValidUrls = {"u1"}
  Faults <- AllFaults
SYMMETRY WriterSymmetry
INVARIANTS IndInv RefusedLeavesNoTrace UndisturbedWriteHolds
