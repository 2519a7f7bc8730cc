SPECIFICATION AllSpec
CONSTANTS
  Problems <- MCProblems
  Copies <- MCCopies
  MAXREMOTE = 56
  Sets = {s1, s2}
  Tags = {a, b, c}
  NoTag = NoTag
  E = 2
  MaxAccesses = 6
  Length = 4
  RioBuf = 3
  Wants = {0, 1, 2, 3}
  Main = main
  Workers = {k1, k2}
  Threads = {main, k1, k2}
  Items = {4, 5}
  None = None
  Sizes = {1, 2}
  Wrap = 2
  Fds = {4, 5, 6}
  Slots = 2
  MaxLines = 2
  Readers = {r1, r2}
  Writers = {w1, w2}
  N = 2
  Npes = 3
  MaxBarriers = 3
  Nthreads = 2
  PerThread = 3
  BlockNames = {x, y, z}
  MAX_HEAP = 28
  CHUNKSIZE = 8
  Requests = {8, 12, 20}
SYMMETRY BlockSymmetry
INVARIANTS ProgramsTypeOK EachElementOnce LoadsAreLegal EveryElementMoved RemoteStaysMapped
INVARIANTS TagsDistinct SummaryAddsUp BytesKept CallsAreWhole OneOwner CountIsTotal PoolAgrees
INVARIANTS WritersTakeTurns NobodyPassesAlone ResultIsRight
PROPERTIES TwoWayImplementsLRU ImplementsQueue BookImplementsAllocator
CHECK_DEADLOCK FALSE
