SPECIFICATION Spec
CONSTANTS
  Images = {v1, v2}
  Envs = {NoEnv, e1}
  NoEnv = NoEnv
  NoImage = NoImage
  NoCtr = NoCtr
  MaxGen = 3
  MayTimeout = FALSE
  MayCrash = FALSE
  CleanupMayFail = FALSE
PROPERTY PreCutoverFailureKeepsCurrent
CHECK_DEADLOCK FALSE
