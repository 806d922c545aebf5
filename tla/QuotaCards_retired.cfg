\* Gemini alone; a reading that is fresh for one instant of two.
SPECIFICATION CardSpec
CONSTANTS
  Cards = {"google_gemini"}
  LastTime = 1
  FreshFor = 1
INVARIANT OnlyTheRetiredIsHidden
CHECK_DEADLOCK FALSE
