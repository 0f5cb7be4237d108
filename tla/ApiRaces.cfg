SPECIFICATION Spec
CONSTANTS
  h1 = h1
  h2 = h2
  h3 = h3
  NoObject = NoObject
  MaxVersion = 2
  MaxTime = 1
  DelayedStatusTime = 0
  Handlers <- ThreeHandlers
  Serves <- ServeByKind
  Urls = {"u1"}
  ValidUrls = {"u1"}
  Faults <- StaleReads
SYMMETRY WriterSymmetry
INVARIANTS TypeOK BackedUnlessLostUpdate NothingLeftBehind
PROPERTY NeverRollsBack
