SPECIFICATION FairWalkSpec
CONSTANTS
  Urls = {"a", "b", "c", "m"}
  Mangled = {"m"}
  NoList = NoList
  Limits = {1, 2}
  MaxLength = 4
  MaxSent = 2
  MaxWrites = 2
  K = 3
  pageLimit = 2
  maxBatchSize = 2
  MaxChanges = 1
  MaxErrors = 1
INVARIANTS ListTypeOK UnwrittenListInFull NothingStandingMissed
           TableTypeOK HandedOutInOrder StandingHandedOut MatchesGone
PROPERTY WalkEnds
CHECK_DEADLOCK FALSE
