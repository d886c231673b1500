\* A reader and the emergency drain of the data loop.
SPECIFICATION Spec
CONSTANTS
  nbuffers = 4
  Clients = {c1}
  OPEN_BACKLOG = 0
  run_buffers = 0
  quit_on_buffer_exhaustion = FALSE
  SlowStart = FALSE
  MaxBlocks = 5
  MaxOpens = 1
INVARIANTS NoListHeadTaken
