SPECIFICATION Spec
CONSTANTS
  Order = 2
  PerBlock = 2
  EntrySize = 2
  LazyMemories = {0, 5, 9}
  Jobs <- SmallJobs
  PageSize = 2
  MinMapSize = 4
  MagicSize = 2
  InputBuffer = 2
  Inflated <- Words
INVARIANTS OutputIsSortedCounts NeverAborts SorterInvariant
PROPERTIES Finishes
