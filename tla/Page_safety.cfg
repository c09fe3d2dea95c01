SPECIFICATION Spec
CONSTANTS
    PageSize = 14
    HeaderSize = 2
    SlotSize = 2
    Lengths = {1, 2, 4}
    Contents = {c1, c2}
    Habits = {"fragment", "grow"}
INVARIANTS RecordsDoNotOverlap  FreeSpaceIsExact
