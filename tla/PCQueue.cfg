SPECIFICATION FairSpec
CONSTANTS
  Producers = {p1, p2}
  Consumers = {c1, c2}
  Values = {v1, v2}
  Size = 2
  Null = Null
  CopyThrows = TRUE
INVARIANTS TokensConserved NoDataRace
PROPERTIES ImplementsFifo Progress
