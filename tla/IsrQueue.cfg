SPECIFICATION FairSpec
CONSTANTS
  o1 = o1
  o2 = o2
  Object = {o1, o2}
  Nothing = Nothing
  Isr = {1, 2}
  Size = 2
  Sized = TRUE
INVARIANTS NoOverwrite WorkRequested BlockedQuiet
PROPERTIES Delivered EventuallyHandled
CHECK_DEADLOCK FALSE
