SPECIFICATION MCSpec
CONSTANTS
  idle = idle
  a = a
  b = b
  dt = dt
  x = x
  y = y
  mq = mq
  Thread = {idle, dt, a, b}
  Idle = idle
  NoThread = NoThread
  NoService = NoService
  Object = {mq}
  Mutex = {}
  PrioInherit = {}
  Robust = {}
  Forever = Forever
  IdlePriority = 1
  Priority = {1}
  RobinTimeout = 0
  Calls = {}
  Delays = {}
  Sleeps = {}
  TickMod = 1
  JoinersLeftAlone = TRUE
  PostLimit = 3
  Timer = {x, y}
  NoTimer = NoTimer
  TimerThread = dt
  TimerPriority = 2
  TimerQueue = mq
  QueueSize = 3
  Loads = {1}
  Settings = {"timers", "sleep"}
PROPERTIES AllAccurate CalledInOrder
SYMMETRY Symmetry
CHECK_DEADLOCK FALSE
