SPECIFICATION AllSpec
CONSTANTS
  Goroutines = {g1, g2}
  Helpers = {}
  Entries = {e1, e2, e3}
  Levels = {2, 5}
  MinLevels = {2}
  HasSampler = TRUE
  HasFallback = FALSE
  OutIsSyncer = TRUE
  NoProc = NoProc
  NoEntry = NoEntry
  Closers = {k1}
  Capacity = 1
  DestIsSyncer = TRUE
  g1 = g1
  g2 = g2
  e1 = e1
  e2 = e2
  e3 = e3
  k1 = k1
SYMMETRY Symmetry
INVARIANTS OrderKept Flushed EntriesAccounted LossBounded
CHECK_DEADLOCK FALSE
