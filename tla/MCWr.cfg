\* A reader and a writer, and sources of both interrupt handlers.
SPECIFICATION FairSpec
CONSTANTS
  Sources <- AllHandlers
  Readers = {r1}
  Writers = {w1}
  MaxEvents = 3
INVARIANT EventsAccounted
PROPERTIES StampsAdvance WaiterWakes
