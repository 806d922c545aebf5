SPECIFICATION LoadsSpec
CONSTANTS
  Filters = {"day"}
  Default = "day"
  MaxPages = 2
  MaxRequests = 3
  MaxVersion = 3
INVARIANTS
  LatestWins
CHECK_DEADLOCK FALSE
