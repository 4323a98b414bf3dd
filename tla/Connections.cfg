SPECIFICATION LinkSpec
CONSTANTS
  Backends <- Stores
  Keys = {"k1", "k2"}
  Values = {"v1", "v2"}
  MaxAsks = 4
  ModeLists <- MCModeLists
  MaxScans = 1
  MaxStale = 2
INVARIANTS TypeOK ToldExact HandlesFreed InStep
PROPERTIES SampleLoopsEnd
CHECK_DEADLOCK FALSE
