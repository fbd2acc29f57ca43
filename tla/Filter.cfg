SPECIFICATION FairSpec
CONSTANTS
  Batches = {b1, b2, b3, b4}
  Null = Null
  Filters = {f1, f2}
  BatchSize = 2
  Inputs <- SoundInputs
  Systems = {0, 1, 2}
  Chosen <- FilterChooses
  Meant <- FilterMeans
INVARIANTS BatchInvariant OutputInOrder OutputComplete OutputNotShared
PROPERTIES Terminates
