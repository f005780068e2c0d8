SPECIFICATION Spec
CONSTANTS
  Images = {v1}
  NoImage = NoImage
  NoCtr = NoCtr
  Envs = {NoEnv}
  NoEnv = NoEnv
  MaxGen = 3
  MayTimeout = FALSE
  MayCrash = TRUE
  CleanupMayFail = TRUE
  Requests = {r1, r2}
  DefaultImage = v1
  DockerSlow = TRUE
  RuntimesExit = FALSE
  MaxRestarts = 0
SYMMETRY Symmetry
INVARIANTS
  ActiveMeansServing
  CandidateIsOwn
PROPERTY GatewayExpectsIt
CHECK_DEADLOCK FALSE
