\* Every kind of configuration, torn files, devices that come and go.
SPECIFICATION StartupSpec
CONSTANTS
  WordBits = 64
  Nodes <- MCNodes
  Hotplug = {1}
  Caps <- MCCaps
  Uints <- MCUints
  Ints <- MCInts
  Durations <- MCDurations
  Globs <- MCGlobs
  Shorter <- MCShorter
  MaxValue <- MCMaxValue
  Table <- MCTable
  Files <- MCFiles
INVARIANTS
  SetTwiceOnlyAfterZero
  MatchesAreListed
  TornFileNeverListens
  CheckMeansCapability
  ButtonIsConfigured
  SenderMeansLine
