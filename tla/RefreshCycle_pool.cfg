\* Five adapters, any of their cursors unreadable, collected by three threads.
SPECIFICATION LiveSpec
CONSTANTS
  N = 5
  Workers = {w1, w2, w3}
  Codes = {"", "STORAGE_FAILURE"}
INVARIANTS
  CollectedOnce
  SlotsAreFinal
  OwnData
  OutcomesInOrder
PROPERTIES
  CycleEnds
