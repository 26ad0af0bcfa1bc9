SPECIFICATION FeedSpec
CONSTANTS
  Roots = {r1}
  Blanks = {n1}
  Slots = {1, 2}
  MaxHistory = 1
  MaxAttempts = 2
  MaxDisturbances = 4
PROPERTIES NewerSelectionWins
CHECK_DEADLOCK FALSE
