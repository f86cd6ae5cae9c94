\* Every request fails in every way, between any two the map changes.
SPECIFICATION TalkSpec
CONSTANTS
  MinKeycode = 8
  MaxKeycode = 10
  Keysyms <- MCKeysyms
  Keys <- MCKeys
  ForeignRows <- MCForeignRows
  Faults = {"refused", "broken"}
INVARIANTS
  PressTypesNames
PROPERTIES
  ImplementsKeyBinding
