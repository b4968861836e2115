SPECIFICATION FairSpec
CONSTANTS
    None = None
    Elems = {e1, e2}
    QItems = 2
    MaxPkts = 2
    MaxFrames = 2
    SeqMod = 3
    Bufs = {b1}
    BufLens = {1, 2}
    MaxLen = 2
    Lows = {FALSE, TRUE}
PROPERTIES
    ReadyDrained
    CloseEnds
    BlockedReaderReleased
CHECK_DEADLOCK FALSE
