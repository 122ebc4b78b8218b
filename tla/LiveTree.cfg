CONSTANT MaxID = 5
SPECIFICATION Spec
INVARIANTS
    LiveNIsExact
    RowsAreLiveChildren
    RunningRowsFirst
    RowsEnd
CHECK_DEADLOCK FALSE
