SPECIFICATION Spec
CONSTANTS
  Order = 4
  Corpora <- SmallCorpora
  ThresholdLists <- SomeThresholds
  PruneWordSets <- NoneOrOne
  PerBlock = 3
  None = None
  Infinite = 1000
  Fallback <- HalfOneAndAHalf
  Hash <- EvenHash
  OtherModels <- LongAndShort
  Weights <- SomeWeights
  MergedGrams = 3
  InterpolateUnigrams = {TRUE, FALSE}
INVARIANTS ModelSumsToOne StreamInvariant NormalizedProduct InStep
PROPERTIES HandsOnTheRest StreamsComplete
