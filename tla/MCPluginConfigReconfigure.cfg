\* Configure calls overlap each other and a save; any step may fail, once.
SPECIFICATION FairSpec
CONSTANTS
  Configures = {c1, c2}
  Saves = {p1}
  Boot = Boot
  None = None
  NoClient = NoClient
  Blank = Blank
  u0 = u0
  u1 = u1
  uBad = uBad
  k1 = k1
  k2 = k2
  s1 = s1
  r1 = r1
  rRelative = rRelative
  Urls <- MCUrls
  Keys <- MCKeys
  Secrets <- MCSecrets
  Roots <- MCRoots
  DefaultUrl = u0
  BadUrls = {uBad}
  RelativeRoots = {rRelative}
  HostBodies <- GoodHostBodies
  SaveBodies <- GoodSaveBodies
  HostCalls = "parallel"
  MaxFaults = 1
  MaxCrashes = 0
CHECK_DEADLOCK FALSE
INVARIANTS
  SavesServeTheRow
  NoPoolLeak
PROPERTIES
  SerialStoreOpen
  EveryCallReturns
