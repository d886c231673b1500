SPECIFICATION Spec
CONSTANTS
  nbuffers = 4
  OPEN_BACKLOG = 1
  Margins = {1, 2}
  Delays = {FALSE, TRUE}
  MaxBlocks = 9
  MaxOpens = 2
INVARIANT BlocksWhole
PROPERTY AxiImplementsStream
PROPERTY FullHandedOn
CHECK_DEADLOCK FALSE
