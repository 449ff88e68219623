SPECIFICATION Spec
CONSTANTS
  Callers = {c1, c2}
  Messages = {m1, m2}
  Capacity = 1
  DestIsSyncer = TRUE
  NoMsg = NoMsg
  c1 = c1
  c2 = c2
  m1 = m1
  m2 = m2
PROPERTIES ClosedWriteReported
CHECK_DEADLOCK FALSE
