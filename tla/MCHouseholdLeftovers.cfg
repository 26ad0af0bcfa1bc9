SPECIFICATION HouseholdSpec
CONSTANTS
  WeekIds = {0, 3}
  LastDay = 2
  Ratings = {"good"}
  Plans <- SmallPlans
  Statuses = {"planned", "cooked", "flex"}
  MaxCommands = 6
  Meals = {m1, m2}
  Words = {"oil", "salt"}
  Texts = {"a", "b"}
  PrepDates = {1, 2, 3}
  MaxRows = 2
  MaxSteps = 2
  MaxDates = 2
  MaxEntries = 3
  MaxEdits = 3
  ConceptIds = {"c1", "c2"}
  Names = {"oil", "salt", "rice"}
  Rows = {"r1", "r2"}
  MaxVocabulary = 1
  MaxReviewed = 1
  MaxVersions = 4
  Durations = {1, 3}
  MaxTicks = 9
  MaxPauses = 3
INVARIANT AssignedMealOnItsDay
CHECK_DEADLOCK FALSE
