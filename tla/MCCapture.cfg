\* One client that captures, stops and captures again, after a stop that left an
\* event of the DMAC latched or did not: every interleaving of the data loop, the
\* reader, the callback and the release.
SPECIFICATION Spec
CONSTANTS
  nbuffers = 4
  Clients = {c1}
  OPEN_BACKLOG = 0
  run_buffers = 0
  quit_on_buffer_exhaustion = FALSE
  SlowStart = FALSE
  MaxBlocks = 4
  MaxOpens = 2
INVARIANTS TypeOK BuffersConserved DmaTargetsInFlight CountersBalance
PROPERTIES OpenBuffersStable ImplementsStream
