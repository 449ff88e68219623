SPECIFICATION Spec
CONSTANTS
  Attrs <- AttrsOf
  Names = {"g"}
  LoggerFields <- FieldsOf
  SlogLevels = {3, 8}
  MaxHandlers = 4
INVARIANT SlogAsDocumented
CHECK_DEADLOCK FALSE
