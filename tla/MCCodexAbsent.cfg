SPECIFICATION FairSpec
CONSTANTS
  Sends <- MCOne
  News <- MCFirst
  MaxThreads = 1
  Existing = 0
  MaxCalls = 2
  MaxRevision = 1
  MaxFailures = 1
  MaxReceipts = 1
CHECK_DEADLOCK FALSE
PROPERTIES
  AbsentIsFreed
