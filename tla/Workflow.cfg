CONSTANTS
    Names = {"a", "b", "c", "d"}
    Empty = ""
    Graphs <- AllGraphs
SPECIFICATION FairSpec
INVARIANTS
    OrderIsSchedulable
    OrderIsClosure
    BuildIsTrue
    NoWorkTwice
PROPERTY ClosureReturns
CHECK_DEADLOCK FALSE
