\* Three concurrent calls of every kind.  The setup block may wait for itself
\* for ever, so a stopped state is no error here: CallsReturn says when one is.
SPECIFICATION LiveSpec
CONSTANTS
  Calls = {c1, c2, c3}
  Kinds = {"row", "view", "collect", "seed"}
  Nobody = Nobody
  WriterPreferring = TRUE
INVARIANTS
  LockOrder
  OnlySetupSelfWaits
  ReadersSeeRegistry
PROPERTIES
  CollectorPanicIsHarmless
  CallsReturn
CHECK_DEADLOCK FALSE
