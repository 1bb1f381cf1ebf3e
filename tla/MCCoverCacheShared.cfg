\* Two Services on one directory, leaders and file operations that fail.
SPECIFICATION SharedSpec
CONSTANTS
  v1 = v1
  v2 = v2
  r1 = r1
  r2 = r2
  r3 = r3
  Services = {v1, v2}
  Requests = {r1, r2, r3}
  Keys = {extracted}
  Extracted = {extracted}
  Size = 2
  None = None
  MaxSourceFaults = 1
  MaxDiskFaults = 1
  MaxCrashes = 0
CHECK_DEADLOCK FALSE
INVARIANTS
  TornIsTransient
  WaitersHaveLeader
PROPERTIES
  EveryRequestReturns
