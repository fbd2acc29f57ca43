SPECIFICATION Spec
CONSTANTS
  Labels = {"S", "X"}
  MaxOpenNts = 3
  TopDownConsNts = 2
  InOrderConsNts = 3
  Cases <- SmallCases
  Unit = 1
  MinSize = 12
  MinActions = 12
  MaxBits = 28
  Everything = 1000
  MoreRows = 2
  MaxRows = 5
INVARIANTS StacksAreWhatActionsSay StorageSuffices NoNegativeSurprisal FindsTheTrees MaxStackSizeIsExact
