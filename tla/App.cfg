CONSTANTS
  w0 = w0
  w1 = w1
  w2 = w2
  Window <- MCWindow
  First = w0
  None = None
  Hosts <- MCHosts
  JobCap = 1
SPECIFICATION FairSpec
INVARIANT SessionHoldsWindows
INVARIANT SpoiltOnlyByFirst
PROPERTY ContextClosesWindow
PROPERTY RunReturns
CHECK_DEADLOCK FALSE
