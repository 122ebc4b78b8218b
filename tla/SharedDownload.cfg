CONSTANTS
    Callers = {c1, c2, c3}
    MaxFlights = 2
SPECIFICATION FairSpec
INVARIANTS
    RefsCountAboard
    FileThereForCopy
    NoForeignCancel
PROPERTIES
    LeftoversGo
    CancelledCallerReturns
CHECK_DEADLOCK FALSE
