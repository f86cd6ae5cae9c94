\* Two names, three keycodes, every failure.
SPECIFICATION BindingSpec
CONSTANTS
  Keycodes = {8, 9, 10}
  Names = 2
  Faults = {"refused", "broken"}
INVARIANTS
  BindingTypeOK
  HeldIsDown
  HeldIsPressed
  FailedDownLeavesNoKey
