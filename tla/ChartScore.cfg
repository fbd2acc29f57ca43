SPECIFICATION Spec
CONSTANTS
  Order = 4
  Vocabulary <- MCVocabulary
  Files <- MCFiles
  MaxRest = TRUE
  Structures = {"probing", "trie"}
  Loads <- SoundLoads
  Bad = Bad
  BOS = 3
  SavedFiles <- MCSavedFiles
  Listings <- MCListings
  Unk <- Unknown
  Hash <- MCHash
  MaxRule = 4
  MaxChart = 2
INVARIANTS WhatIsLoadedIsComplete TablesAreClosed ScoreOfAnyBracketing StateInvariant StateForgetsNothing RevealingIsJoining
