SPECIFICATION FairSpec
CONSTANTS
  N = 3
  maxConcurrency = 2
  retryAttempt = 1
  Outages = {"callFails"}
INVARIANTS RetriesEndInAnError
