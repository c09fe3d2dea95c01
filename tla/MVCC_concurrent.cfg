SPECIFICATION Spec
CONSTANTS
    Keys = {k1}
    MaxTxns = 3
    Payloads = {p1}
    MaxVersions = 4
    Absent = Absent
    Callers = {"concurrent"}
INVARIANT FirstUpdaterWins
CHECK_DEADLOCK FALSE
