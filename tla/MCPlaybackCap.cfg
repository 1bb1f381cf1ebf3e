\* A player that names the largest int64 as the last byte it wants.
SPECIFICATION Spec
CONSTANTS
  a = a
  b = b
  c = c
  d = d
  Absent = Absent
  Tracks <- MCTracks
  SizeOf <- MCSizeOf
  Books = {"from0", "from1", "plain"}
  ListsOf <- MCListsOf
  Chunk = 2
  MaxInt = 15
  SpanEnds = {15}
  Suffixes = {}
  MaxRescans = 0
  MaxExpiries = 0
  MaxProbes = 0
  MaxFaults = 0
CHECK_DEADLOCK FALSE
INVARIANTS
  ChunkBounded
