SPECIFICATION Spec
CONSTANTS
    Null = Null
    Raised = Raised
    Schema <- QuerySchema
    Indexed <- QueryIndexed
    HashJoinFrom = 4
    VectorSize = 2
    Values = {1, 2}
    MaxRows = 3
    MaxJoinRows = 2
    Habits = {}
INVARIANTS
    SelectMeansSql
    
    GroupsAgree
    EnginesAgree
