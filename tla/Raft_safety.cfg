SPECIFICATION Spec
CONSTANTS
    Server = {n1, n2, n3}
    Value = {v1}
    MaxTerm = 2
    MaxLog = 2
    MaxInFlight = 1
    Heartbeats = FALSE
    ReplyMatch = FALSE
    Nil = Nil
SYMMETRY Symmetry
CHECK_DEADLOCK FALSE
INVARIANTS LeaderCompleteness AppliedIsAgreed ElectionSafety LogMatching
PROPERTIES CommitsAreReplicated LeaderAppendOnly
