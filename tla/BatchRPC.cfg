SPECIFICATION Spec
CONSTANTS
  IDs = {id1, id2, id3}
  Singles = {"malformed", "healthz", "blocked", "accounts", "tx", "badtx", "foreign", "interop", "byHash", "rawHash", "rawTag", "other", "second", "height", "beyond", "receipts"}
  Pairs = {"malformed", "healthz", "tx", "interop", "byHash", "rawHash", "rawTag", "height", "receipts"}
  Triples = {"malformed", "byHash", "other", "second", "height", "beyond"}
  Batches <- MCBatches
  MaxUpstreamBatchSize = 2
  Consensus = TRUE
  Headers = {h1, h2}
  OverrideLims = {"send", "height"}
  HighPrioLims = {"send"}
  GlobalMethods = {"send"}
  SenderLim = TRUE
  InteropSenderLim = TRUE
SYMMETRY Symmetry
VIEW BatchView
INVARIANTS
  EachSlotItsOwnAnswer
  UpstreamIDsDiffer
  
  LimitsApply
CHECK_DEADLOCK FALSE
