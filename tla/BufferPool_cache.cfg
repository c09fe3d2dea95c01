SPECIFICATION Spec
CONSTANTS
    PoolSize = 2
    MaxPages = 3
    MaxPins = 2
    MaxVersion = 1
    FetchMissing = FALSE
INVARIANTS TypeOK OneFramePerPage PinnedStaysResident NoPinLeak 
PROPERTIES FlushAllMakesDurable 
