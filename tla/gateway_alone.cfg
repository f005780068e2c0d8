SPECIFICATION Spec
CONSTANTS
  Requests = {r1, r2, r3}
  Images = {v1, v2}
  DefaultImage = v1
  NoImage = NoImage
  NoCtr = NoCtr
  Generations = {}
  ManagerActs = FALSE
  DockerSlow = FALSE
  RuntimesExit = FALSE
  MaxRestarts = 0
INVARIANTS
  TypeOK
  CreateFindsNameFree
  FreshMeansReady
  LockMatchesSection
  ReadyHasImage
CHECK_DEADLOCK FALSE
