\* One client that captures, stops and captures again; capture ends by itself
\* after run_buffers buffers or when the buffers are exhausted.
SPECIFICATION FairSpec
CONSTANTS
  nbuffers = 3
  Clients = {c1}
  OPEN_BACKLOG = 0
  run_buffers = 3
  quit_on_buffer_exhaustion = TRUE
  SlowStart = FALSE
  MaxBlocks = 3
  MaxOpens = 2
INVARIANTS ClosedIsQuiet
PROPERTIES ReleaseCompletes ReadReturns
