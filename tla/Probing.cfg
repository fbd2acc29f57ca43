SPECIFICATION Spec
CONSTANTS
  Keys = {1, 2, 3, 4}
  Invalid = 0
  Hashes <- SmallHashes
  Requests = {0, 2}
  MaxBuckets = 8
  MaxRefused = 1
  Null = NULL
INVARIANTS TableInvariant TakesWhatItIsSizedFor
PROPERTIES ImplementsKeySet
