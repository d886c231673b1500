\* A client that opens either minor of bq: a queue of one entry, which is full
\* at once, and one longer than the number of buffers, which overruns when the
\* capture is about to come round to a buffer that waits in the queue.  One of
\* hb0 in the rate limited mode.  Two that write words of two bytes for three,
\* so that a full ring takes more than one.  And nine buffers of a distributor:
\* one segment of eight or two of four, and one left over.
SPECIFICATION AllSpec
CONSTANTS
  BqClients = {c1}
  BQ_MIN_BACKLOG = 2
  BQ_MAX_BACKLOG = 8
  nbuffers = 4
  MaxBlocks = 7
  hb0_no_ratelimit = 0
  MaxHb0Blocks = 5
  MaxSeconds = 4
  SewUsers = {u1, u2}
  SEW_FIFO_LEN = 4
  Payload = 2
  MaxBytes = 5
  AWG_ABCDE_LEN = 2
  DistBuffers = 9
  Letters = 2
  MaxAsked = 3
  MaxChanges = 1
CHECK_DEADLOCK FALSE
INVARIANTS ExactlyOnceInOrder QueuedBuffersDiffer RingsDeliver
PROPERTIES NewerAfterOverrun PairsConsecutive ClientsWoken
