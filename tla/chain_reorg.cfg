CONSTANTS
  None = None
  GenesisDifficulty = 1
  Blocks <- TwoChains
SPECIFICATION SpecReliable
INVARIANT CanonicalLinked
