SPECIFICATION Spec
CONSTANTS
    None = None
    Elems = {e1}
    QItems = 2
    MaxPkts = 3
    MaxFrames = 2
    SeqMod = 4
    Bufs = {b1}
    BufLens = {3}
    MaxLen = 3
    Lows = {FALSE}
INVARIANT WokenReaderHasFrame
CHECK_DEADLOCK FALSE
