SPECIFICATION MCSpec
CONSTANTS
  Idle = Idle
  Values = {v1, v2, v3}
  Blocks = {b1, b2, b3}
  Revisions = 6
  Cycles = 3
  LogSize = 2
  Settings = {"calls", "long", "append", "full", "bad", "fails", "list", "pair"}
INVARIANTS DeviceSafe ListTrue
PROPERTIES FileTrue Atomic
SYMMETRY Symmetry
CHECK_DEADLOCK FALSE
