SPECIFICATION FairSpec
CONSTANTS
  MAXJOBS = 1
  Pids = {1, 2}
  MaxKeys = 1
  ForkMayFail = FALSE
PROPERTIES ChldHandlerReturns ZombiesAreReaped
CHECK_DEADLOCK FALSE
