SPECIFICATION FairSpec
CONSTANTS
    ui = ui
    other = other
    h1 = h1
    h2 = h2
    Sub = {ui, other}
    Watched <- MCWatched
    Publisher = {h1, h2}
    Value = {"move", "key", "resize", "expose", "density", "close"}
    Cap = 1
    MaxCalls = 2
    Second = {h2}
CHECK_DEADLOCK FALSE
INVARIANT KeptUnlessRaced
INVARIANT ShownIsCurrent
PROPERTY ClosedEndsLoop
