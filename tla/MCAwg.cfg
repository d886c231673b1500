SPECIFICATION UseSpec
CONSTANTS
  spb = 2
  Lengths = {0, 5}
  Modes = {"AO_continuous", "AO_oneshot_rearm"}
  Repeats = {}
  maxshot = 2
  MaxStores = 2
  MaxCycles = 2
CHECK_DEADLOCK FALSE
INVARIANTS PingPongRuns ShotPlaysOut
PROPERTY PlayedInOrder
