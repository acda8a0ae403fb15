SPECIFICATION Spec
CONSTANTS
  Primaries = {p1}
  Fallbacks = {f1}
  ForcedCandidates = {}
  SkipPeerCountCheck = {}
  SkipIsSyncingCheck = {}
  MinPeerCount = 2
  MaxBlockLag = 1
  BanPeriod = 2
  MaxUpdateThreshold = 1
  MaxUint64 = 4
  Heights = {0, 1}
  TagHeights = {1, 2}
  Hashes = {h1}
  PeerCounts = {2}
  SyncReplies = {"synced"}
  Flaky = {p1}
  Genesis = genesis
  NoHash = none
  SafeBlockDriftThreshold <- NoDrift
  FinalizedBlockDriftThreshold <- NoDrift
VIEW PollerView
INVARIANTS
  CandidatesHaveBlocks
  BadTagsOnlyBeforeCheck
