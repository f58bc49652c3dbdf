SPECIFICATION MCSpec
CONSTANTS
  idle = idle
  a = a
  b = b
  c = c
  m1 = m1
  m2 = m2
  Thread = {idle, a, b, c}
  Idle = idle
  NoThread = NoThread
  Object = {m1, m2}
  Mutex = {m1, m2}
  PrioInherit = {m1, m2}
  Robust = {}
  Recursive = {}
  LockLimit = 2
  Forever = Forever
  IdlePriority = 1
  Priority = {1, 2, 3}
  RobinTimeout = 0
  Calls = {}
  Delays = {}
  Sleeps = {}
  TickMod = 1
  JoinersLeftAlone = TRUE
  Settings = {"orphan"}
INVARIANTS OwnerListed
SYMMETRY Symmetry
