SPECIFICATION MCSpec
CONSTANTS
  a = a
  b = b
  v = v
  Threads = {a, b}
  NoOwner = NoOwner
  Capacity = 8
  Sector = 4
  Page = 2
  Payload <- MCPayload
  Ranges <- MCRanges
  Retries = 1
  MaxCalls = 3
  MaxFaults = 1
  Slow = TRUE
  Size = 5
  Byte = {1, 2, 3}
  Message <- MCMessage
  Writer = {v}
  Typing <- MCTyping
  Requests = {1, 2, 6}
  MaxLength = 3
  MaxXfers = 4
  Align = 2
  Header = 2
  MinSize = 2
  Total = 14
  Width = 64
  Base = 2
  Thread = {a, b}
  NoThread = NoThread
  Sizes = {1, 3}
  Alignments = {3}
  MaxBlocks = 3
  ObjectSizes = {5}
  Settings = {"up", "down", "contents", "faults", "spi", "heap", "aligned"}
INVARIANTS TransfersRight HeapRight
PROPERTIES WholeOrNothing UnreadKept InOrder FlashTrue OnlyAsked FailsOnlyFull
SYMMETRY Symmetry
CHECK_DEADLOCK FALSE
