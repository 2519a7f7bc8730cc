SPECIFICATION Spec
CONSTANTS
  Threads = {t1, t2, t3}
  N = 2
  Urls = {a, b}
  NoUrl = NoUrl
  Faults = TRUE
SYMMETRY ThreadSymmetry
INVARIANTS TypeOK WritersAreAlone HitServesItsUrl VictimFound
CHECK_DEADLOCK FALSE
