\* A book played to its end, with rescans, expiring tokens and failures on the way.
SPECIFICATION FairSpec
CONSTANTS
  a = a
  b = b
  c = c
  d = d
  Absent = Absent
  Tracks <- MCTracks
  SizeOf <- MCSizeOf
  Books = {"from0", "from1", "plain"}
  ListsOf <- MCListsOf
  Chunk = 2
  MaxInt = 15
  SpanEnds = {0, 9}
  Suffixes = {2}
  MaxRescans = 2
  MaxExpiries = 1
  MaxProbes = 1
  MaxFaults = 1
CHECK_DEADLOCK FALSE
INVARIANTS
  TypeOK
  HeardAsListed
  FinishedIsHeard
  ChunkBounded
PROPERTIES
  BookIsPlayed
