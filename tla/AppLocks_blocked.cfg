\* A collector hangs and takes the UI commands with it.
SPECIFICATION LiveSpec
CONSTANTS
  Calls = {c1, c2}
  Kinds = {"view", "collect"}
  Nobody = Nobody
  WriterPreferring = FALSE
PROPERTIES
  UiReturns
