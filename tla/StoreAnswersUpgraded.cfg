CONSTANTS
  Births = {8}
  MaxMishaps = 1
SPECIFICATION StoreSpec
INVARIANT AnswersUpgraded
