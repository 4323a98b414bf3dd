SPECIFICATION FairSpec
CONSTANTS
  UserKinds <- LinkKinds
  Implemented <- LocalImplemented
  Redis = FALSE
  BatchSize = 2
  MaxRequests = 2
INVARIANTS TypeOK InOrder InterruptBound
PROPERTIES RequestsAnswered StopStopsWatch CloseTerminates
