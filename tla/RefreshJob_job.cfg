\* Two job slots, both commands, the timer may fire, two providers.  Collectors
\* may hang: only the drivers and their timer are fair.
SPECIFICATION LiveSpec
CONSTANTS
  Jobs = {j1, j2}
  Commands = {"start_refresh", "refresh_all"}
  N = 2
  MayTimeOut = TRUE
INVARIANTS
  TypeOK
  NoOverlap
  OneVerdict
  VerdictIsLast
PROPERTIES
  SyncOnlyAfterSuccess
  ImplementsSlot
  Answers
  SlotReleased
