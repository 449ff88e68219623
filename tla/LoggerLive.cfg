SPECIFICATION FairSpec
CONSTANTS
  Goroutines = {g1, g2}
  Helpers = {h1}
  Entries = {e1}
  Levels = {5}
  MinLevels = {4, 5}
  HasSampler = FALSE
  HasFallback = TRUE
  OutIsSyncer = TRUE
  NoProc = NoProc
  NoEntry = NoEntry
  g1 = g1
  g2 = g2
  h1 = h1
  e1 = e1
INVARIANTS Admitted
PROPERTIES CallsReturn FatalExits HelperEnds TimedSyncReturns
CHECK_DEADLOCK FALSE
