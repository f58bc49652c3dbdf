SPECIFICATION MCFairSpec
CONSTANTS
  Names = {1, 2}
  Blocks = {0, 1}
  InitTree = {}
  MaxMoves = 0
  RenameLast = TRUE
  Faults = {}
  MoveDirty = FALSE
  WornFull = FALSE
  MaxDepth = 3
  Calls = {}
  Settings = {"moves", "deep", "nested", "fails"}
INVARIANTS TreeConsistent FilesSafe
PROPERTIES AllAtomic OperationEnds
CHECK_DEADLOCK FALSE
