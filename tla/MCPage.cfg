SPECIFICATION PageSpec
CONSTANTS
  Roots = {r1, r2}
  Blanks = {n1}
  Slots = {1, 2}
  MaxHistory = 1
  MaxAttempts = 2
  MaxDisturbances = 3
  MaxRevision = 2
  RequestIds = {q1, q2}
  Browsers = {b1, b2}
  Patient = {b1}
  ReadSlots = {1, 2}
  MutationKinds = {"planner_command"}
  Commands <- MCCommands
  PreviewOnly <- MCPreviewOnly
  States <- MCStates
  NoState = Nothing
  Effect <- MCEffect
  BaseEligible <- MCBaseEligible
  MaxBatch = 1
  Asked <- MCAsked
  MaxVersion = 2
  MaxCopies = 2
  add = add
  Nothing = Nothing
INVARIANTS
  WishLandsOnce
  ChangesAccounted
PROPERTIES
  TabsConverge
  NeverComposesBackwards
  PollingCatchesUp
  PendingResolves
CHECK_DEADLOCK FALSE
