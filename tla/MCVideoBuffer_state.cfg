SPECIFICATION Spec
CONSTANTS
    None = None
    Elems = {e1, e2}
    QItems = 2
    MaxPkts = 3
    MaxFrames = 2
    SeqMod = 4
    Bufs = {b1}
    BufLens = {2, 3}
    MaxLen = 3
    Lows = {FALSE}
INVARIANTS
    TypeOK
    PoolConserved
    SignalledFrameIsWhole
    QuiescentAfterDeinit
    WokenReaderSafe
    CopyStaysInBuffer
CHECK_DEADLOCK FALSE
