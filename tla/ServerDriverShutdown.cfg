SPECIFICATION FairSpec
CONSTANTS
  UserKinds <- ShutdownKinds
  Implemented <- RedisImplemented
  Redis = TRUE
  BatchSize = 1
  MaxRequests = 2
PROPERTIES ShutdownFinishes
