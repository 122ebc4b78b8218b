CONSTANTS
    Pools <- OnePool
    Limit <- OneLimit
    Asked = {"io", "control", "map", "isolate"}
    MaxID = 3
SPECIFICATION FairSpec
INVARIANTS
    IsolateReportsFailure
    MapReportsFailure
PROPERTY WaitReturnsUnlessStranded
CHECK_DEADLOCK FALSE
