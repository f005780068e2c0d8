---------------------------- MODULE AdvisoryLock ----------------------------
(***************************************************************************)
(* The per-user lock of the manager (ace_net_manager/services/             *)
(* lock_service.py) together with the connection pool it is reached        *)
(* through (db/database.py: create_engine with SQLAlchemy's defaults, a    *)
(* first-in first-out QueuePool).                                          *)
(*                                                                         *)
(* On Postgres pg_try_advisory_lock takes a SESSION lock: it belongs to    *)
(* the connection that executed it, the same connection may take it        *)
(* again, and only that connection can give it back.  A SQLAlchemy Session *)
(* keeps a connection only until its next commit, so the connection that   *)
(* executes pg_advisory_unlock is whichever is then first in the pool.     *)
(* The "local" backend (any other dialect) is a set of keys guarded by a   *)
(* mutex; it is written here as the single pseudo connection 0.            *)
(***************************************************************************)
EXTENDS Naturals, Sequences

CONSTANTS
  Users,      \* users whose runtimes are managed
  Backend,    \* dialect of the database: "postgres" or "local"
  PoolLimit   \* connections the pool may open (pool_size + max_overflow)

ASSUME BackendAssumption == Backend \in {"postgres", "local"}
ASSUME PoolAssumption == PoolLimit \in Nat \ {0}

VARIABLES
  pool,  \* idle connections, oldest first, and how many were ever opened
  held   \* held[c][u]: how often connection c has taken the lock of user u

LocalConn == 0
Conns == 0 .. PoolLimit

LockTypeOK ==
  /\ pool \in [idle : Seq(Nat), opened : Nat]
  /\ held \in [Conns -> [Users -> Nat]]

(***************************************************************************)
(* The pool: a session checks out the oldest idle connection, or a new one *)
(* when none is idle, and checks it in when its transaction ends.          *)
(***************************************************************************)
NoConnections == [idle |-> << >>, opened |-> 0]
FreshPool == [idle |-> <<1>>, opened |-> 1]
Unlocked == [c \in Conns |-> [u \in Users |-> 0]]

NextConn(p) == IF p.idle = << >> THEN p.opened + 1 ELSE Head(p.idle)

CheckOut(p) ==
  IF p.idle = << >> THEN [idle |-> << >>, opened |-> p.opened + 1]
                    ELSE [idle |-> Tail(p.idle), opened |-> p.opened]

CheckIn(p, c) == [idle |-> Append(p.idle, c), opened |-> p.opened]

\* A transaction that begins and commits without suspending in between.
Transact(p) == CheckIn(CheckOut(p), NextConn(p))

\* A coroutine's run of up to two such transactions.
AfterTransactions(p) == {p, Transact(p), Transact(Transact(p))}

(***************************************************************************)
(* The lock.                                                               *)
(***************************************************************************)
LockConn(p) == IF Backend = "local" THEN LocalConn ELSE NextConn(p)

\* The local set refuses a key it has; Postgres refuses a key that another
\* connection has.
CanLock(c, u) ==
  \A d \in Conns : held[d][u] > 0 => Backend = "postgres" /\ d = c

Lock(c, u) == [held EXCEPT ![c][u] = @ + 1]

\* Mutant: release is never sent.
UnlockForgotten(c, u) == held

\* Giving back a lock this connection does not have only yields a warning.
Unlock(c, u) == [held EXCEPT ![c][u] = IF @ > 0 THEN @ - 1 ELSE 0]

=============================================================================
