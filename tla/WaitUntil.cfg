CONSTANTS
    Waiters = {w1, w2, w3}
    Goals = {g1, g2}
SPECIFICATION FairWaitSpec
INVARIANTS
    NoSleeperOverGoal
    ContextWakesUnlessMissed
PROPERTY GoalEndsWait
CHECK_DEADLOCK FALSE
