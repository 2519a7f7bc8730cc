SPECIFICATION Spec
CONSTANTS
  Sets = {s1}
  Tags = {a, b, c}
  NoTag = NoTag
  E = 2
  MaxAccesses = 6
PROPERTY ImplementsLRU
CHECK_DEADLOCK FALSE
