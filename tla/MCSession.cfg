\* Processes are killed at any step, requests fail, the map changes.
SPECIFICATION SessionSpec
VIEW SessionView
CONSTANTS
  MinKeycode = 8
  MaxKeycode = 10
  Keysyms <- MCKeysyms
  Keys <- MCKeys
  ForeignRows <- MCForeignRows
  Faults = {"refused", "broken"}
INVARIANTS
  RestartsDoNotLeak
PROPERTIES
  UpReleasesForPredecessors
