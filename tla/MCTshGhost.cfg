SPECIFICATION FairSpec
CONSTANTS
  MAXJOBS = 2
  Pids = {1}
  MaxKeys = 0
  ForkMayFail = FALSE
PROPERTY WaitFgReturns
CHECK_DEADLOCK FALSE
