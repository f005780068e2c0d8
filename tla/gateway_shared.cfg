SPECIFICATION FairSpec
CONSTANTS
  Requests = {r1, r2}
  Images = {v1, v2}
  DefaultImage = v1
  NoImage = NoImage
  NoCtr = NoCtr
  Generations = {1}
  ManagerActs = TRUE
  DockerSlow = TRUE
  RuntimesExit = TRUE
  MaxRestarts = 1
INVARIANT LockMatchesSection
PROPERTY AllAnswered
CHECK_DEADLOCK FALSE
