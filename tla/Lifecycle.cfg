SPECIFICATION FairSpec
CONSTANTS
  Backends = 2
  Deployments <- MCDeployments
  MaxMessages <- MCMaxMessages
  MaxRequests = 1
INVARIANTS
  StreamsInOrder
  DrainedBeforePollersStop
PROPERTIES
  SessionEnds
  
CHECK_DEADLOCK FALSE
