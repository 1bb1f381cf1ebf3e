\* Two saves overlap and one of them leaves the key empty.
SPECIFICATION Spec
CONSTANTS
  Configures = {c1}
  Saves = {p1, p2}
  Boot = Boot
  None = None
  NoClient = NoClient
  Blank = Blank
  u0 = u0
  u1 = u1
  uBad = uBad
  k1 = k1
  k2 = k2
  s1 = s1
  r1 = r1
  rRelative = rRelative
  Urls <- MCUrls
  Keys <- MCKeys
  Secrets <- MCSecrets
  Roots <- MCRoots
  DefaultUrl = u0
  BadUrls = {uBad}
  RelativeRoots = {rRelative}
  HostBodies <- GoodHostBodies
  SaveBodies <- GoodSaveBodies
  HostCalls = "boot"
  MaxFaults = 0
  MaxCrashes = 0
CHECK_DEADLOCK FALSE
PROPERTIES
  BlankKeyKeepsStored
