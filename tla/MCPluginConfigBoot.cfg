\* One Configure per process start, concurrent saves, a restart and a failing statement.
SPECIFICATION Spec
CONSTANTS
  Configures = {c1, c2}
  Saves = {p1, p2}
  Boot = Boot
  None = None
  NoClient = NoClient
  Blank = Blank
  u0 = u0
  u1 = u1
  uBad = uBad
  k1 = k1
  k2 = k2
  s1 = s1
  r1 = r1
  rRelative = rRelative
  Urls <- MCUrls
  Keys <- MCKeys
  Secrets <- MCSecrets
  Roots <- MCRoots
  DefaultUrl = u0
  BadUrls = {uBad}
  RelativeRoots = {rRelative}
  HostBodies <- MCHostBodies
  SaveBodies <- MCSaveBodies
  HostCalls = "boot"
  MaxFaults = 1
  MaxCrashes = 1
CHECK_DEADLOCK FALSE
INVARIANTS
  TypeOK
  LiveConfigIsPersisted
  AckedSaveIsLive
PROPERTIES
  ImportReplacesDefaults
  KeepsPromise
