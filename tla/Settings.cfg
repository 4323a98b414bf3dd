SPECIFICATION Spec
CONSTANTS
  Connections <- MCConnections
  Clusters <- MCClusters
  Sentinels <- MCSentinels
  MaxEdits = 2
  MaxOpens = 2
  MaxFiles = 3
CHECK_DEADLOCK FALSE
INVARIANTS Restored HeldShown
