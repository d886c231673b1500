CONSTANTS
    NBuffers = 7
    BufLen = 6
    NChan = 2
    ShowEs = FALSE
    MaxPre = 8
    MaxPost = 8
    MaxOver = 5
SPECIFICATION Spec
INVARIANTS DataSetMoved ChannelsDemuxed StreamsReduced EventsWhole FiresOnTime AbsoluteKept
CHECK_DEADLOCK FALSE
