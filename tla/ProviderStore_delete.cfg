\* The OpenCode Go credential is stored, used by a refresh and deleted.
SPECIFICATION Spec
CONSTANTS
  Accounts = {A}
  Nobody = Nobody
  Records = {r1}
  Refreshers = {cycle}
  Settings = Settings
  MaxSize = 1
  MaxClock = 3
INVARIANTS
  DeletedShowsNothing
CHECK_DEADLOCK FALSE
