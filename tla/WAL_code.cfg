SPECIFICATION Spec
CONSTANTS
    LogHeaderSize = 35
    Txns = {1, 2}
    MaxLsn = 5
    MaxFile = 5
    MaxCrashes = 1
    TornWrites = TRUE
    DiskErrors = TRUE
    Truncates = TRUE
CHECK_DEADLOCK FALSE
INVARIANTS AckedCommitsAreDurable FlushedLsnIsHonest UndoChainIsComplete
