SPECIFICATION ClientSpec
CONSTANTS
  UserKinds <- LocalKinds
  Implemented <- LocalImplemented
  Redis = FALSE
  BatchSize = 1
  MaxRequests = 3
INVARIANTS ButtonsSettle DiscoveryTried BarSettles
