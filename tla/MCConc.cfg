SPECIFICATION ConcSpec
CONSTANTS
  Main = main
  Workers = {k1, k2}
  Threads = {main, k1, k2}
  Items = {4, 5, 6}
  None = None
  Sizes = {1}
  Wrap = 1
  Fds = {4, 5, 6}
  Slots = 2
  MaxLines = 2
  Readers = {r1, r2}
  Writers = {w1, w2}
  N = 2
  Npes = 3
  MaxBarriers = 3
PROPERTIES AcceptedIsServed TurnsCome EverybodyGetsIn EverybodyPasses
CHECK_DEADLOCK FALSE
