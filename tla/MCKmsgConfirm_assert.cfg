SPECIFICATION Spec
CONSTANTS
    Callers = {c1}
    High = {}
    Nodes = {n1, n2}
    Reqs = {r1}
    Ind = Ind
    None = None
    MaxCalls = 2
    MaxInds = 0
INVARIANTS SetSemaphoreSucceeds
CHECK_DEADLOCK FALSE
