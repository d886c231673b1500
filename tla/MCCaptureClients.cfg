\* Two clients that share a capture: opens and releases overlap, a start may
\* fail, and the second open takes the buffers of the first from under it.
\* The system may stop: a release waits for a data loop that another client's
\* failed open left waiting for its first block.
SPECIFICATION Spec
CONSTANTS
  nbuffers = 3
  Clients = {c1, c2}
  OPEN_BACKLOG = 0
  run_buffers = 0
  quit_on_buffer_exhaustion = FALSE
  SlowStart = TRUE
  MaxBlocks = 1
  MaxOpens = 2
SYMMETRY ClientSymmetry
CHECK_DEADLOCK FALSE
INVARIANTS BuffersConserved
