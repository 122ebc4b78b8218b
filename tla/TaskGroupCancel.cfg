CONSTANTS
    Pools <- OnePool
    Limit <- OneLimit
    Asked = {"io", "control"}
    MaxID = 3
SPECIFICATION FairSpec
PROPERTY CancelUnblocksWait
CHECK_DEADLOCK FALSE
