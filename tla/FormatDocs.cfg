SPECIFICATION Spec
CONSTANTS
  Bytes = {27, 91, 92, 109}
  CoreOrder <- CoreKeysOf
  UserKeys = {10}
  KeyMaps <- KeyMapsOf
  MaxBytes = 6
INVARIANT FormatsAsDocumented
CHECK_DEADLOCK FALSE
