SPECIFICATION Spec
CONSTANTS
  MAXJOBS = 2
  Pids = {1, 2}
  MaxKeys = 2
  ForkMayFail = TRUE
INVARIANTS TypeOK AtMostOneFG PromptHasNoFG LiveProcessIsJob KeySparesBackground
PROPERTY AddedBeforeReaped
CHECK_DEADLOCK FALSE
