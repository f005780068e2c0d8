SPECIFICATION Spec
CONSTANTS
  Images = {v1, v2}
  Envs = {NoEnv, e1}
  NoEnv = NoEnv
  NoImage = NoImage
  NoCtr = NoCtr
  MaxGen = 4
  MayTimeout = TRUE
  MayCrash = TRUE
  CleanupMayFail = TRUE
INVARIANTS
  TypeOK
  PromotedIsCurrent
  RowsAgree
  ActiveRunsCurrent
PROPERTIES
  EndsServing
  ImplementsPromise
  StatusSettles
CHECK_DEADLOCK FALSE
