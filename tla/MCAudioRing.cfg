SPECIFICATION Spec
CONSTANTS
    Capacity = 6
    RWP_SAFE_INTERVAL = 2
    SampleBytes = 2
    Counts = {1, 2, 4}
    MaxBytes = 14
INVARIANTS
    TypeOK
    FillIsTrue
    CopyIsClear
    ReportedIsMoved
PROPERTY DeliveredInOrder
