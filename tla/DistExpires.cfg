SPECIFICATION FairDistSpec
CONSTANTS
  h1 = h1
  d1 = d1
  d2 = d2
  NoObject = NoObject
  MaxVersion = 1
  MaxTime = 2
  DelayedStatusTime = 0
  Handlers <- NoHandler
  Serves <- OnlyPuts
  Urls = {}
  ValidUrls = {}
  Faults <- Kills
  Distributors <- TwoDistributors
  Routes <- RouteByRole
  Devices = {"a","b"}
  MaxRepeat = 1
  LastRequest = 1
PROPERTIES BlockExpires DevicesExpire
