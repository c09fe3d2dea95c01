SPECIFICATION Spec
CONSTANTS
    Order = 3
    MaxKey = 6
    Copies = 1
    MaxBulk = 6
    MaxNodes = 16
INVARIANTS SearchAgrees RangeScanAgrees TreeIsSound
