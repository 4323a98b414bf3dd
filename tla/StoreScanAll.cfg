SPECIFICATION Spec
CONSTANTS
  Backends <- AllStores
  Keys <- ThreeKeys
  Limits <- AnyLimits
  MaxLimit = 3
  MaxKeys = 3
  LetterA = 1
  LetterZ = 4
CHECK_DEADLOCK FALSE
INVARIANTS TypeOK KeysMatch KeysFound CountExact FlushEmpties
