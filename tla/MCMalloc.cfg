SPECIFICATION Spec
CONSTANTS
  Ids = {x, y, z}
  MaxHeap = 36
  MAX_POWER = 7
  CHUNK = 8
  Bytes = {0, 8, 13}
SYMMETRY IdSymmetry
INVARIANTS TypeOK HeapIsConsistent ClientKeepsBlocks BestFit
PROPERTY ImplementsAllocator
CHECK_DEADLOCK FALSE
