SPECIFICATION Spec
CONSTANTS
  NoUser = NoUser
  NoOp = NoOp
  Ops = {o1, o2, o3}
  Users = {u1, u2}
  Workers = {w1, w2}
  Kinds = {"deploy", "new_user"}
  Backend = "local"
  PoolLimit = 3
  MaxRestarts = 1
  MaxFaults = 1
INVARIANTS
  LockMatchesExecution
  NeverRefused
CHECK_DEADLOCK FALSE
