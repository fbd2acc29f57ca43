SPECIFICATION Spec
CONSTANTS
  Order = 4
  Vocabulary <- MCVocabulary
  Files <- UnheardFiles
  MaxRest = TRUE
  Structures = {"trie"}
  Loads <- SoundLoads
  Bad = Bad
  BOS = 3
  SavedFiles <- NoFiles
  Listings <- MCListings
  Unk <- Unknown
  Hash <- MCHash
  MaxRule = 4
  MaxChart = 2
INVARIANTS ContextsAreKept
