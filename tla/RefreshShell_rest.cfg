\* Two job slots, no timer: the window comes to rest idle and up to date.
SPECIFICATION ShellSpec
CONSTANTS
  Jobs = {j1, j2}
  Commands = {"start_refresh"}
  N = 1
  MaxWire = 3
  MayTimeOut = FALSE
SYMMETRY SlotSymmetry
INVARIANTS
  WindowSettles
