SPECIFICATION Spec
CONSTANTS
  Backends = {b1, b2}
  ForcedCandidates = {b2}
  Blocks = {0, 1, 2}
  MaxRounds = 2
  MaxBlock = 2
  MaxBlockRanges = {0, 1}
  Words = 16
VIEW ReadsView
INVARIANTS
  TagsNotOlderThanGroup
  TornByAtMostOneRound
  SameBlockIsMeant
  
  RangeWithinLimit
CHECK_DEADLOCK FALSE
