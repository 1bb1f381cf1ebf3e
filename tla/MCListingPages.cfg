\* Pages of one, two and three items of a list that changes between them.
SPECIFICATION FairSpec
CONSTANTS
  x1 = x1
  x2 = x2
  x3 = x3
  x4 = x4
  x5 = x5
  None = None
  Items <- MCItems
  Lists <- MCLists
  Limits = {0, 1, 2, 9}
  MaxLimit = 3
  DefaultSize = 2
  MaxPages = 9
  MaxInserts = 1
  MaxRemoves = 2
  MaxFaults = 1
CHECK_DEADLOCK FALSE
INVARIANTS
  TypeOK
  MissedOnlyByRemoves
  RepeatedOnlyByInserts
PROPERTIES
  ListingEnds
