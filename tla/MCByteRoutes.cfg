\* Two requests for files and covers, while files, mounts and secrets change.
SPECIFICATION Spec
CONSTANTS
  r1 = r1
  r2 = r2
  Up = Up
  Nowhere = Nowhere
  NoKey = NoKey
  NoToken = NoToken
  DotNames = {"..a2"}
  MaxSteps = 7
  Padded = {"padded"}
  Unpadded = {"unpadded"}
  Blanks = {"blank"}
  Requests = {r1, r2}
  Asks <- MCAsks
  FilesOf <- MCFilesOf
  Sidecars <- MCSidecars
  Configs <- MCConfigs
  Portals = {"unpadded", "raw"}
  TokenForms <- MCTokenForms
  Trees <- MCTrees
  Changes <- MCChanges
  MaxEvents = 2
SYMMETRY Symmetry
CHECK_DEADLOCK FALSE
INVARIANTS
  TypeOK
  
  AnswerOfItsTime
  SourcesInOrder
  ServedInside
  
