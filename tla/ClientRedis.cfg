SPECIFICATION ClientSpec
CONSTANTS
  UserKinds <- RedisKinds
  Implemented <- RedisImplemented
  Redis = TRUE
  BatchSize = 1
  MaxRequests = 3
INVARIANTS LabelSettles
PROPERTIES DeliverySpec
