SPECIFICATION FairSpec
CONSTANTS
    Callers = {c1, c2}
    High = {c2}
    Nodes = {n1, n2}
    Reqs = {r1, r2}
    Ind = Ind
    None = None
    MaxCalls = 2
    MaxInds = 1
INVARIANTS TypeOK CorruptionNeedsFault AnswerIsMine NoLostWakeup
PROPERTIES ImplementsService CallsReturn
CHECK_DEADLOCK FALSE
