\* The promise of KeyBinding's comment, with requests that never fail.
SPECIFICATION BindingSpec
CONSTANTS
  Keycodes = {8, 9, 10}
  Names = 2
  Faults = {}
INVARIANTS
  RemapLeavesNoKeyStuck
