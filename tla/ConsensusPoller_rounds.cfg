SPECIFICATION FairSpec
CONSTANTS
  Primaries = {p1, p2}
  Fallbacks = {}
  ForcedCandidates = {p1}
  SkipPeerCountCheck = {}
  SkipIsSyncingCheck = {}
  MinPeerCount = 2
  MaxBlockLag = 1
  BanPeriod = 1
  MaxUpdateThreshold = 0
  MaxUint64 = 4
  Heights = {2}
  TagHeights = {1}
  Hashes = {h1}
  PeerCounts = {2}
  SyncReplies = {"synced", "syncing"}
  Flaky = {}
  Genesis = genesis
  NoHash = none
  SafeBlockDriftThreshold <- NoDrift
  FinalizedBlockDriftThreshold <- NoDrift
PROPERTIES
  RoundsEnd
  ImplementsView
