SPECIFICATION StrategySpec
CONSTANTS
  Requests = {r1, r2}
  Size = 3
  Timeout = 2
  Supervisors = {s1, s2, s3}
  Accesses = {a1, a2, a3, a4}
  Malformed = bad
  MaxList = 4
  AccessListSizeLimit = 3
INVARIANTS
  AllAccessesChecked
  ExhaustedAfterAll
PROPERTIES
  MulticallKeepsPromise
  KeepsPromise
  EveryRequestAnswered
CHECK_DEADLOCK FALSE
