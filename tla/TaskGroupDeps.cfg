CONSTANTS
    Pools <- OnePool
    Limit <- OneLimit
    Asked = {"io", "control"}
    MaxID = 4
SPECIFICATION Spec
INVARIANTS
    NoBodyAfterFailure
    DepsDoneBeforeRun
    FirstErrorRecorded
    WaitIsQuiescent
    TasksCountsUnfinished
PROPERTY OutcomesStay
CHECK_DEADLOCK FALSE
