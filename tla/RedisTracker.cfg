SPECIFICATION FairTrackerSpec
CONSTANTS
  Instances = {i1, i2}
  SharedTags = {"latest", "safe"}
  MaxNumber = 2
  MaxElections = 2
  MaxMishaps = 1
  Monotone = TRUE
INVARIANTS
  PostsUnderOwnLock
  OneLeaderWithoutMishaps
PROPERTIES
  
  ElectionsSucceed
