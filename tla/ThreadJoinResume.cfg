SPECIFICATION MCSpec
CONSTANTS
  idle = idle
  a = a
  b = b
  c = c
  Thread = {idle, a, b, c}
  Idle = idle
  NoThread = NoThread
  Object = {}
  Mutex = {}
  PrioInherit = {}
  Robust = {}
  Forever = Forever
  IdlePriority = 1
  Priority = {1, 2, 3}
  RobinTimeout = 0
  Calls = {}
  Delays = {}
  Sleeps = {}
  TickMod = 1
  JoinersLeftAlone = TRUE
  Settings = {"resumed"}
INVARIANTS Placement
