SPECIFICATION Spec
CONSTANTS
  MAXJOBS = 2
  Pids = {1, 2}
  MaxKeys = 2
  ForkMayFail = TRUE
CHECK_DEADLOCK FALSE
INVARIANT CtrlZSurvives
