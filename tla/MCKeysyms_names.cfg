\* Headers present or missing, with conflicting names, and every kind of input.
SPECIFICATION KeysymsSpec
CONSTANTS
  Trees <- MCTrees
  MaxValue <- MCMaxValue
  Inputs <- MCInputs
INVARIANTS
  FirstDefinitionWins
  CoreNamesKeepKeysyms
  SequenceKeepsEveryName
