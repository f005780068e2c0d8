SPECIFICATION Spec
CONSTANTS
  NoUser = NoUser
  NoOp = NoOp
  Ops = {o1, o2, o3}
  Users = {u1, u2}
  Workers = {w1, w2}
  Kinds = {"deploy"}
  Backend = "postgres"
  PoolLimit = 3
  MaxRestarts = 0
  MaxFaults = 0
PROPERTY NoSpuriousConflict
CHECK_DEADLOCK FALSE
