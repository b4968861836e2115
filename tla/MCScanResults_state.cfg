SPECIFICATION Spec
CONSTANTS
    Shells = {s1, s2, s3}
    Apps = {a1, a2}
    Wpas = Wpas
    Bssids = {b1, b2, b3}
    None = None
    MAX_BSS_LIST = 2
    MaxScans = 2
    MaxConnects = 1
SYMMETRY Symm
INVARIANTS TypeOK RefCountsHolders LeakNeedsConnect FlagTellsScan OneEntryPerBss
CHECK_DEADLOCK FALSE
