SPECIFICATION Spec
CONSTANTS
  Goroutines = {g1, g2}
  Callers = {c1, c2}
  Groups = {n1, n2}
  Given <- MapsOf
  Typed <- TypedCalls
  Nil = Nil
  Own = Own
  Extractors = {x1}
  Returns <- ReturnsOf
  Listed <- ListedKeys
  Levels = {"ERROR"}
  Options <- OptionsOn
  MaxLoggers = 3
  g1 = g1
  g2 = g2
  c1 = c1
  c2 = c2
  n1 = n1
  n2 = n2
  x1 = x1
SYMMETRY Symmetry
INVARIANT FieldsAsDocumented
CHECK_DEADLOCK FALSE
