SPECIFICATION FairSpec
CONSTANTS
  Callers = {c1, c2}
  Messages = {m1, m2, m3}
  Capacity = 1
  DestIsSyncer = TRUE
  NoMsg = NoMsg
  c1 = c1
  c2 = c2
  m1 = m1
  m2 = m2
  m3 = m3
INVARIANTS TypeOK Intact CloseFlushes Accounted
PROPERTIES QuietAfterSync ImplementsBuffer CloseReturns AcceptedHanded WriteNeverStalls
CHECK_DEADLOCK FALSE
