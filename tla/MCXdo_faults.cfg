\* Every request may fail, other clients change any keycode at any time.
SPECIFICATION XdoSpec
CONSTANTS
  MinKeycode = 8
  MaxKeycode = 10
  Keysyms <- MCKeysyms
  Keys <- MCKeys
  ForeignRows <- MCForeignRows
  Faults = {"refused", "broken"}
INVARIANTS
  XdoTypeOK
  UndoTableComplete
  CloseRestores
  LocalMirrorsServer
  ScratchesBound
  ResolvedTypesKeysym
PROPERTIES
  OverwritesOnlyUnseen
