\* One Service and no failing file: the documented guarantees, across a restart.
SPECIFICATION Spec
CONSTANTS
  v1 = v1
  v2 = v2
  r1 = r1
  r2 = r2
  r3 = r3
  Services = {v1}
  Requests = {r1, r2, r3}
  Keys = {resized, extracted}
  Extracted = {extracted}
  Size = 2
  None = None
  MaxSourceFaults = 0
  MaxDiskFaults = 0
  MaxCrashes = 1
CHECK_DEADLOCK FALSE
INVARIANTS
  TypeOK
  EntriesComplete
  SingleFlight
PROPERTIES
  ServesLikeStore
