CONSTANTS
  None = None
  GenesisDifficulty = 1
  Blocks <- LongFork
SPECIFICATION Spec
INVARIANTS
  NoPanic
  AnnouncedKept
PROPERTIES
  HeadImproves
