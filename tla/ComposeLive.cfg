SPECIFICATION ApplicationSpec
CONSTANTS
  Goroutines = {g1, g2}
  Helpers = {}
  Entries = {e1, e2, e3}
  Levels = {2, 5}
  MinLevels = {2, 4}
  HasSampler = FALSE
  HasFallback = FALSE
  OutIsSyncer = TRUE
  NoProc = NoProc
  NoEntry = NoEntry
  Closers = {k1}
  k1 = k1
  Capacity = 1
  DestIsSyncer = TRUE
  g1 = g1
  g2 = g2
  e1 = e1
  e2 = e2
  e3 = e3
PROPERTIES NeverStalled FatalEndsProcess
CHECK_DEADLOCK FALSE
