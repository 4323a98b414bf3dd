SPECIFICATION Spec
CONSTANTS
  d0 = d0
  d1 = d1
  d2 = d2
  unknown = unknown
  Servers <- AllServers
  Start = d0
  MaxRequests = 4
CHECK_DEADLOCK FALSE
INVARIANTS TypeOK ShownStored StoredShown OneDefault DefaultSelected
