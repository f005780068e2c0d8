SPECIFICATION FairSpec
CONSTANTS
  NoUser = NoUser
  NoOp = NoOp
  Ops = {o1, o2}
  Users = {u1, u2}
  Workers = {w1, w2}
  Kinds = {"deploy"}
  Backend = "postgres"
  PoolLimit = 3
  MaxRestarts = 1
  MaxFaults = 0
PROPERTY AcceptedTerminates
CHECK_DEADLOCK FALSE
