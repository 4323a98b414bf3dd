SPECIFICATION Spec
CONSTANTS
  Stores = {"redis", "memcached", "ssdb", "rocksdb", "leveldb", "lmdb", "unqlite", "upscaledb"}
  Jobs <- BatchJobs
  Sizes = 4
INVARIANTS
  NotShadowed
  ReadsPassed
  WholeLineSent
  UsageAccepted
  TranslatedRuns
  EachRuns
  AllShown
  LatestShown
