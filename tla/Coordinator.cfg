SPECIFICATION Spec
CONSTANTS
    Nodes = {n1, n2}
    Unknown = Unknown
    Txns = {t1, t2}
    MaxCalls = 3
    MaxCrashes = 1
INVARIANTS
    CommitNeedsEveryVote
PROPERTIES
    
    EveryCallReturns
