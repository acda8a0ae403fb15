SPECIFICATION MCSpec
CONSTANTS
  b1 = b1
  b2 = b2
  r1 = r1
  r2 = r2
  Requests = {r1, r2}
  Group <- Two
  MulticallBackends = {b1, b2, b3}
  WeightedRouting = FALSE
  MaxRetries = 1
  Permits = 1
  Methods = {"plain", "receipts", "badReceipts", "batchedReceipts"}
INVARIANTS
  CallsAccounted
  UnserviceableAfterAll
  
  FirstGoodOrLastBad
  NoSendAfterClose
PROPERTIES
  EveryRequestEnds
CHECK_DEADLOCK FALSE
