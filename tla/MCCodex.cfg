SPECIFICATION CodexSpec
CONSTANTS
  Sends <- MCReused
  News <- MCFirst
  MaxThreads = 2
  Existing = 0
  MaxCalls = 3
  MaxRevision = 2
  MaxFailures = 1
  MaxReceipts = 1
  Builds = {1, 2, 3, 4}
  Installed = {1}
  Follows <- MCFollows
  Contracts = {"x", "y"}
  Compatible <- MCCompatible
  Callers = {1}
  MaxBundles = 3
  MaxRestarts = 1
  MaxChanges = 3
  MaxPlanners = 1
  Nothing = Nothing
  Awaited = Awaited
  Failed = Failed
  Contents = {"b1", "b2"}
  Starts = {1, 2}
  Pids = {7}
  MaxSnapshots = 1
  Torn = Torn
  Empty = Empty
  Gone = Gone
  Nobody = Nobody
CHECK_DEADLOCK FALSE
INVARIANTS
  LandsOnce
  AnswersTruthful
  MessagesFenced
  RunsOnlyAccepted
  BundlesKept
  OneReevaluation
  RunsAcceptedBytes
PROPERTIES
  ListSparesSelected
