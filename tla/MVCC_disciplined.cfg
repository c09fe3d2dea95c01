SPECIFICATION Spec
CONSTANTS
    Keys = {k1, k2}
    MaxTxns = 4
    Payloads = {p1}
    MaxVersions = 4
    Absent = Absent
    Callers = {}
INVARIANT VersionsAreSound
PROPERTIES ImplementsSnapshotIsolation ReadYourWrites
CHECK_DEADLOCK FALSE
