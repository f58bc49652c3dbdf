SPECIFICATION MCSpec
CONSTANTS
  idle = idle
  a = a
  b = b
  c = c
  Thread = {idle, a, b, c}
  Idle = idle
  NoThread = NoThread
  Object = {}
  Mutex = {}
  PrioInherit = {}
  Robust = {}
  Forever = Forever
  IdlePriority = 1
  Priority = {1, 2, 3}
  RobinTimeout = 1
  Calls = {"Delay", "DelayUntil"}
  Delays = {1, 3}
  Sleeps = {}
  TickMod = 6
  JoinersLeftAlone = TRUE
  Settings = {"life", "sched", "delay"}
INVARIANTS ThreadsConsistent JoinConsistent
PROPERTIES Dispatched DelaysRight
SYMMETRY Symmetry
