CONSTANTS
    Workers = {w1, w2}
    Items = {a, b, c}
    None = None
SPECIFICATION FairSpec
INVARIANTS
    NoSleeperWhileWorkWaits
PROPERTIES
    ImplementsPool
    WorkersLeave
    ItemsAreTaken
CHECK_DEADLOCK FALSE
