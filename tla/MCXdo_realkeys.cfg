\* The package comment's promise, with requests that never fail.
SPECIFICATION XdoSpec
CONSTANTS
  MinKeycode = 8
  MaxKeycode = 10
  Keysyms <- MCKeysyms
  Keys <- MCKeys
  ForeignRows <- MCForeignRows
  Faults = {}
PROPERTIES
  RealKeysNeverOverwritten
