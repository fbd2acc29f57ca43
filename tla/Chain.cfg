SPECIFICATION FairSpec
CONSTANTS
  Blocks = {b1, b2}
  Poison = Poison
  MaxWorkers = 3
  MaxData = 3
  MaxRuns = 2
  WorkersThrow = TRUE
INVARIANTS RingInvariant FailureHasNoResult
PROPERTIES ImplementsPipeline WaitReturns
