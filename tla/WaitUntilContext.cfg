CONSTANTS
    Waiters = {w1, w2}
    Goals = {g1, g2}
SPECIFICATION FairWaitSpec
PROPERTY ContextEndsWait
CHECK_DEADLOCK FALSE
