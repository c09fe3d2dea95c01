SPECIFICATION Spec
CONSTANTS
    Tables = {t1,t2}
    Edited = {t1}
    Texts = {1,3,5}
    GivenIds = {9}
    MaxAuto = 1
    MaxPages = 2
    MaxRows = 2
    PageRoom = 5
    SlotSize = 1
    Tombstone = Tombstone
    Torn = Torn
    Habits = {}
INVARIANTS
    TypeOK
    CheckpointedRowsSurvive
    ChainsAreSound
    
    CounterCoversRows
CHECK_DEADLOCK FALSE
