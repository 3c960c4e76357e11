CONSTANTS
  Hosts = {h1, h2, h3}
  Allowed = 2
  Prompt = TRUE
  BadProfile = {h3}
  MaxChanges = 4
  MaxRestarts = 1
SPECIFICATION FairDiscoverySpec
PROPERTIES RemovedAfterFailures GoneIsForgotten FoundLater
