SPECIFICATION Spec
CONSTANTS
  Goroutines = {g1, g2}
  Helpers = {h1, h2}
  Entries = {e1, e2}
  Levels = {5}
  MinLevels = {4}
  HasSampler = FALSE
  HasFallback = TRUE
  OutIsSyncer = TRUE
  NoProc = NoProc
  NoEntry = NoEntry
  g1 = g1
  g2 = g2
  h1 = h1
  h2 = h2
  e1 = e1
  e2 = e2
SYMMETRY Symmetry
INVARIANTS TypeOK OutSerialized HooksFollowWrites FailuresAccounted ExitFlushed SyncCovers
CHECK_DEADLOCK FALSE
