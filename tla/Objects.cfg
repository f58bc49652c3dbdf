SPECIFICATION MCSpec
CONSTANTS
  idle = idle
  a = a
  b = b
  c = c
  o1 = o1
  o2 = o2
  b1 = b1
  b2 = b2
  x = x
  y = y
  z = z
  Thread = {idle, a, b, c}
  Idle = idle
  NoThread = NoThread
  NoService = NoService
  NoMessage = NoMessage
  Object = {}
  Mutex = {}
  PrioInherit = {}
  Robust = {}
  Forever = Forever
  IdlePriority = 1
  Priority = {1, 2}
  RobinTimeout = 0
  Calls = {}
  Delays = {}
  Sleeps = {}
  TickMod = 1
  JoinersLeftAlone = TRUE
  PostLimit = 2
  Settings = {"semaphore", "eventFlags", "priority", "threadFlags", "put", "get", "pool"}
INVARIANTS ObjectsLinked Conserved NobodyOverlooked
PROPERTIES FlagsHonoured ServedInOrder
SYMMETRY Symmetry
