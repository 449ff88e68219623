SPECIFICATION Spec
CONSTANTS
  Entries = {e1, e2, e3, e4}
  Level <- EntryLevel
  Shape <- EntryShape
  Nested <- NestedLevel
  Sinks = {1, 2, 3}
  MinLevel <- Minimums
  CanSync <- Syncers
  e1 = e1
  e2 = e2
  e3 = e3
  e4 = e4
INVARIANT SinksAsDocumented
