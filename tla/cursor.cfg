SPECIFICATION Spec
CONSTANTS
    Ids = {1, 2, 3}
    Sorts = {1, 2}
    NULL = NULL
    NullRank = 0
    Absent = Absent
    Start = Start
    KeyLists <- Orders
    Limits = {1, 2}
    Filters <- Queries
INVARIANTS TypeOK WalkComplete
PROPERTIES ScanInKeyOrder
