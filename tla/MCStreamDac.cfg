SPECIFICATION AllSpec
CONSTANTS
  Clients = {c1}
  backlog = 8
  lastDistributorBuffer = 9
  MaxPairs = 4
  MaxOpens = 2
  MaxLost = 1
CHECK_DEADLOCK FALSE
INVARIANTS OnePlace InTurn FirstWriteFits
PROPERTIES PlayedInOrder StopsReturn
