SPECIFICATION MCSpec
CONSTANTS
  Goroutines = {g1, g2, g3}
  N = 3
  MaxCalls = 8
  PerSecond = 2
  Second = 3
  MaxCount = 4
  MaxTime = 9
  Lines = {r1, r2, r3}
  Parsed = {r1, r2}
  Levels = {"INFO", "ERROR"}
  LevelOf <- LineLevel
  Snapshots = {s1, s2}
  MaxLen = 4
  Loggers = {l1, l2, l3, l4}
  None = None
  Entries = {e1, e2, e3, e4}
  Level <- EntryLevel
  Shape <- EntryShape
  Nested <- NestedLevel
  Sinks = {1, 2, 3}
  MinLevel <- Minimums
  CanSync <- Syncers
  e1 = e1
  e2 = e2
  e3 = e3
  e4 = e4
  r1 = r1
  r2 = r2
  r3 = r3
  g1 = g1
  g2 = g2
  g3 = g3
  s1 = s1
  s2 = s2
  l1 = l1
  l2 = l2
  l3 = l3
  l4 = l4
INVARIANTS OneInN WindowExact PhaseOnly SnapshotStable HandedBackOnce NoSilentLoss RescuedOnce AllSynced
CHECK_DEADLOCK FALSE
