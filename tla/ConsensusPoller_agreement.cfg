SPECIFICATION Spec
CONSTANTS
  Primaries = {p1, p2}
  Fallbacks = {}
  ForcedCandidates = {}
  SkipPeerCountCheck = {}
  SkipIsSyncingCheck = {}
  MinPeerCount = 2
  MaxBlockLag = 1
  BanPeriod = 1
  MaxUpdateThreshold = 0
  MaxUint64 = 4
  Heights = {1, 2}
  TagHeights = {1}
  Hashes = {h1, h2}
  PeerCounts = {2}
  SyncReplies = {"synced", "error"}
  Flaky = {}
  Genesis = genesis
  NoHash = none
  SafeBlockDriftThreshold <- NoDrift
  FinalizedBlockDriftThreshold <- NoDrift
SYMMETRY Symmetry
VIEW PollerView
INVARIANTS
  PublishedWithinMembers
  AgreedOrUnreachable
  ForkBelowConsensusIsSignalled
