SPECIFICATION Spec
CONSTANTS
    Shells = {s1, s2}
    Apps = {a1}
    Wpas = Wpas
    Bssids = {b1}
    None = None
    MAX_BSS_LIST = 1
    MaxScans = 1
    MaxConnects = 1
INVARIANT HeldNotFreed
CHECK_DEADLOCK FALSE
