SPECIFICATION FairSpec
CONSTANTS
  N = 4
  maxConcurrency = 2
  retryAttempt = 1
  Outages = {"callFails", "unprocessed"}
INVARIANTS BatchTypeOK AtMostSize OkMeansStored
PROPERTY AlwaysEnds
