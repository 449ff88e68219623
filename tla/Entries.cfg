SPECIFICATION MCSpec
CONSTANTS
  Goroutines = {g1, g2}
  Callers = {c1, c2}
  Groups = {n1, n2}
  Given <- MapsOf
  Typed <- TypedCalls
  Nil = Nil
  Own = Own
  Extractors = {x1}
  Returns <- ReturnsOf
  Listed <- ListedKeys
  Levels = {"ERROR"}
  Options <- OptionsOn
  MaxLoggers = 3
  Attrs <- AttrsOf
  Names = {"g"}
  LoggerFields <- FieldsOf
  SlogLevels = {3, 8}
  MaxHandlers = 4
  Writers = {terminal, file, async, both}
  Inside <- InsideOf
  Terminals = {terminal}
  Out = {file, both}
  LevelVars = {"", "WARN", "LOUD"}
  FormatVars = {"", "logfmt"}
  MinLevels = {1}
  Hooks <- HookSets
  Middleware <- Chains
  Formatters = {"text"}
  MaxOptions = 3
  Bytes = {10, 27, 32, 34, 61, 91, 92, 169, 195, 226}
  CoreOrder <- CoreKeysOf
  UserKeys = {10, 115}
  KeyMaps <- KeyMapsOf
  MaxBytes = 3
  terminal = terminal
  file = file
  async = async
  both = both
  g1 = g1
  g2 = g2
  c1 = c1
  c2 = c2
  n1 = n1
  n2 = n2
  x1 = x1
SYMMETRY Symmetry
INVARIANTS EntryRight ListedGone Handled Configured Encoded
PROPERTY MapsKept
CHECK_DEADLOCK FALSE
