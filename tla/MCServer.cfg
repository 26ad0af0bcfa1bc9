SPECIFICATION ServerSpec
CONSTANTS
  WeekIds = {0, 3}
  LastDay = 2
  Ratings = {"good"}
  Plans <- SmallPlans
  Statuses = {"planned", "cooked", "flex"}
  MaxCommands = 5
  Meals = {m1, m2}
  Words = {"oil", "salt"}
  Texts = {"a", "b"}
  PrepDates = {1, 2, 3}
  MaxRows = 2
  MaxSteps = 2
  MaxDates = 2
  MaxEntries = 3
  MaxEdits = 3
  ConceptIds = {"c1", "c2"}
  Names = {"oil", "salt", "rice"}
  Rows = {"r1", "r2"}
  MaxVocabulary = 1
  MaxReviewed = 1
  MaxVersions = 3
  Durations = {1, 3}
  MaxTicks = 9
  MaxPauses = 3
  RequestIds = {1, 2, 3, 4}
  MutationKinds <- MCKinds
  Commands <- MCCommands
  PreviewOnly = {}
  States <- MCStates
  NoState = Nothing
  Effect <- MCEffect
  BaseEligible <- MCBaseEligible
  MaxBatch = 1
  MaxVersion = 2
  Asked <- MCAsked
  Callbacks <- MCCallbacks
  Malformed = {}
  Covers <- MCCovers
  Initial <- MCInitial
  Hosts = {1, 2}
  CallLimit = 1
  MaxChildren = 2
  RpcIds = {1}
  Own = {11}
  Foreign = {21}
  SessionTurns = {1}
  MaxDeferred = 2
  MaxQueued = 1
  MaxQuestions = 1
  MaxPages = 2
  MaxEvents = 3
  a = a
  b = b
  Nothing = Nothing
INVARIANTS EffectsAccounted
INVARIANTS NoStrayAnswers NoRequestLost
INVARIANTS LeftoversFromOneCooking PreparedAsWritten CatalogueCoherent TimerKeepsTime
PROPERTIES  ShoppingMarksKept ReviewedAsSeen
CHECK_DEADLOCK FALSE
