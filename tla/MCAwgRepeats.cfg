SPECIFICATION UseSpec
CONSTANTS
  spb = 2
  Lengths = {0, 5}
  Modes = {"AO_oneshot"}
  Repeats = {1}
  maxshot = 1
  MaxStores = 1
  MaxCycles = 1
CHECK_DEADLOCK FALSE
INVARIANT RepeatsPlay
