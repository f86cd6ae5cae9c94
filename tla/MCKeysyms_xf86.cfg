\* The package comment's promise about prefixes.
SPECIFICATION KeysymsSpec
CONSTANTS
  Trees <- MCTrees
  MaxValue <- MCMaxValue
  Inputs <- MCInputs
INVARIANTS
  MacrosMeanThemselves
