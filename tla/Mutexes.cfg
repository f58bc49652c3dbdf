SPECIFICATION MCSpec
CONSTANTS
  idle = idle
  a = a
  b = b
  c = c
  m1 = m1
  m2 = m2
  Thread = {idle, a, b, c}
  Idle = idle
  NoThread = NoThread
  Object = {m1, m2}
  Mutex = {m1, m2}
  PrioInherit = {m1, m2}
  Robust = {m1, m2}
  Recursive = {}
  LockLimit = 2
  Forever = Forever
  IdlePriority = 1
  Priority = {1, 2, 3}
  RobinTimeout = 0
  Calls = {}
  Delays = {}
  Sleeps = {}
  TickMod = 1
  JoinersLeftAlone = TRUE
  Settings = {"inherit", "priority", "life"}
INVARIANTS MutexesConsistent BoostRight BoostEnds
PROPERTIES OwnershipStable
SYMMETRY Symmetry
