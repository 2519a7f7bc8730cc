SPECIFICATION FairSpec
CONSTANTS
  Threads = {t1, t2}
  N = 2
  Urls = {a, b}
  NoUrl = NoUrl
  Faults = FALSE
CHECK_DEADLOCK FALSE
PROPERTY HitsComplete
