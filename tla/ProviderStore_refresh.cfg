\* A cycle, a single-provider refresh and the settings command on one provider.
SPECIFICATION Spec
CONSTANTS
  Accounts = {A}
  Nobody = Nobody
  Records = {r1}
  Refreshers = {cycle, single}
  Settings = Settings
  MaxSize = 2
  MaxClock = 2
SYMMETRY StoreSymmetry
INVARIANTS
  WholeScans
  RunTellsTruth
  ReportsHaveTheirWindows
PROPERTIES
  ClobbersOnlyInTheGap
CHECK_DEADLOCK FALSE
