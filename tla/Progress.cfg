SPECIFICATION MCFairSpec
CONSTANTS
  idle = idle
  a = a
  b = b
  z = z
  dt = dt
  x = x
  y = y
  o1 = o1
  Thread = {idle, a, b, z}
  Idle = idle
  NoThread = NoThread
  NoService = NoService
  NoTimer = NoTimer
  NoOwner = NoOwner
  Object = {}
  Mutex = {}
  PrioInherit = {}
  Robust = {}
  Forever = Forever
  IdlePriority = 1
  Priority = {1, 2}
  RobinTimeout = 0
  Calls = {}
  Delays = {}
  Sleeps = {}
  TickMod = 1
  JoinersLeftAlone = TRUE
  PostLimit = 2
  Settings = {"semaphore", "eventFlags", "threadFlags", "timers", "robin", "flash", "spi"}
PROPERTIES Served CallbacksCome SlicesFair CallsReturn
CHECK_DEADLOCK FALSE
