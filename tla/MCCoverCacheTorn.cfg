\* The old Service and the new one fill the same entry.
SPECIFICATION Spec
CONSTANTS
  v1 = v1
  v2 = v2
  r1 = r1
  r2 = r2
  r3 = r3
  Services = {v1, v2}
  Requests = {r1, r2}
  Keys = {extracted}
  Extracted = {extracted}
  Size = 2
  None = None
  MaxSourceFaults = 0
  MaxDiskFaults = 0
  MaxCrashes = 0
CHECK_DEADLOCK FALSE
INVARIANTS
  EntriesComplete
