--------------------------- MODULE OperationRunner ---------------------------
(***************************************************************************)
(* The control plane of the manager: the API handlers that accept          *)
(* operations (ace_net_manager/api/routes.py), the operation rows          *)
(* (services/operation_service.py), the in-memory queue and the worker     *)
(* tasks that drain it (workers/operation_runner.py), the per-user lock    *)
(* (AdvisoryLock), and the process that is stopped or killed and started   *)
(* again (main.py).  What an operation does to a runtime is abstracted to  *)
(* its outcome; RuntimeOrchestration opens it.                             *)
(*                                                                         *)
(* One asyncio event loop runs everything, and database calls are          *)
(* synchronous, so a step lasts from one await to the next: a handler's    *)
(* check, insert and enqueue are one step (put on an unbounded queue does  *)
(* not suspend).  A crash between commit and enqueue leaves what a crash   *)
(* just after the enqueue leaves, since the queue is lost with the         *)
(* process.                                                                *)
(***************************************************************************)
EXTENDS AdvisoryLock, FiniteSets

CONSTANTS
  Ops,          \* operation ids (uuid4 in the code)
  Workers,      \* worker tasks (ace_max_global_concurrent_ops)
  Kinds,        \* operation types the clients ask for
  NoUser, NoOp, \* "no user" and "no operation"
  MaxRestarts,  \* bound: how often the process stops and starts again
  MaxFaults     \* bound: how often the database fails under a worker

ASSUME OpAssumption == NoOp \notin Ops /\ NoUser \notin Users
ASSUME KindAssumption ==
  Kinds \subseteq {"new_user", "deploy", "rollback", "restart"}

VARIABLES
  up,        \* is the manager process serving?
  status,    \* runtime_operations.status, "none" before the row exists
  userOf,    \* runtime_operations.user_id
  kind,      \* runtime_operations.operation_type
  code,      \* runtime_operations.error_code, "none" for null
  aged,      \* operations created longer ago than the stale grace period
  queue,     \* asyncio.Queue of operation ids, in memory
  phase,     \* what each worker task is suspended in
  job,       \* the operation each worker task has in hand
  session,   \* the connection a worker holds across its suspension, or 0
  restarts,  \* stops so far
  faults     \* database faults so far

rowVars == <<status, userOf, kind, code, aged>>
workerVars == <<phase, job, session>>
lockVars == <<pool, held>>
envVars == <<up, restarts, faults>>
vars == <<rowVars, workerVars, lockVars, envVars, queue>>

Inflight == {"queued", "running"}
Final == {"succeeded", "failed"}
Codes == {"none", "conflict", "operation_timeout", "operation_error",
          "stale_manager_restart"}

\* "granted": in asyncio.wait_for, its inner task not yet begun;
\* "executing": awaiting the runtime's health inside execute;
\* "cleanup": awaiting the restored runtime's health after a timeout.
Active == {"granted", "executing", "cleanup"}
Phases == {"idle", "dead"} \cup Active

TypeOK ==
  /\ LockTypeOK
  /\ up \in BOOLEAN
  /\ status \in [Ops -> {"none"} \cup Inflight \cup Final]
  /\ userOf \in [Ops -> Users \cup {NoUser}]
  /\ kind \in [Ops -> Kinds \cup {"none"}]
  /\ code \in [Ops -> Codes]
  /\ aged \in SUBSET Ops
  /\ queue \in Seq(Ops)
  /\ phase \in [Workers -> Phases]
  /\ job \in [Workers -> Ops \cup {NoOp}]
  /\ session \in [Workers -> Nat]
  /\ restarts \in Nat
  /\ faults \in Nat

Init ==
  /\ pool = FreshPool
  /\ held = Unlocked
  /\ up = TRUE
  /\ status = [o \in Ops |-> "none"]
  /\ userOf = [o \in Ops |-> NoUser]
  /\ kind = [o \in Ops |-> "none"]
  /\ code = [o \in Ops |-> "none"]
  /\ aged = {}
  /\ queue = << >>
  /\ phase = [w \in Workers |-> "idle"]
  /\ job = [w \in Workers |-> NoOp]
  /\ session = [w \in Workers |-> LocalConn]
  /\ restarts = 0
  /\ faults = 0

-----------------------------------------------------------------------------
(***************************************************************************)
(* API handlers.                                                           *)
(***************************************************************************)

\* Mutant: the handlers' check looks at queued operations only.
HasQueued(u) == \E o \in Ops : status[o] = "queued" /\ userOf[o] = u

HasInflight(u) == \E o \in Ops : status[o] \in Inflight /\ userOf[o] = u

\* Mutant: the handler returns without enqueueing.
SubmitUnqueued(o, u, k) ==
  /\ up
  /\ status[o] = "none"
  /\ ~HasInflight(u)
  /\ status' = [status EXCEPT ![o] = "queued"]
  /\ userOf' = [userOf EXCEPT ![o] = u]
  /\ kind' = [kind EXCEPT ![o] = k]
  /\ pool' = Transact(pool)
  /\ UNCHANGED <<code, aged, workerVars, held, envVars, queue>>

\* POST /new-user, /deploy, /rollback, /restart: check, insert, enqueue.
Submit(o, u, k) ==
  /\ up
  /\ status[o] = "none"
  /\ ~HasInflight(u)
  /\ status' = [status EXCEPT ![o] = "queued"]
  /\ userOf' = [userOf EXCEPT ![o] = u]
  /\ kind' = [kind EXCEPT ![o] = k]
  /\ queue' = Append(queue, o)
  /\ pool' = Transact(pool)
  /\ UNCHANGED <<code, aged, workerVars, held, envVars>>

\* GET /status, GET /operations and a POST answered with 409 or 404 use a
\* connection of the pool and change nothing else.
ReadRequest ==
  /\ up
  /\ pool' = Transact(pool)
  /\ UNCHANGED <<rowVars, workerVars, held, envVars, queue>>

-----------------------------------------------------------------------------
(***************************************************************************)
(* Worker tasks: _worker_loop and _process_one.                            *)
(***************************************************************************)

\* mark_running commits, then try_acquire runs on the next connection; the
\* operation is handed to wait_for, which suspends (Python 3.11 makes a task
\* of it) with that connection still checked out.
Acquire(w, o) ==
  LET p == Transact(pool) IN
  /\ CanLock(LockConn(p), userOf[o])
  /\ status' = [status EXCEPT ![o] = "running"]
  /\ held' = Lock(LockConn(p), userOf[o])
  /\ session' = [session EXCEPT ![w] = LockConn(p)]
  /\ pool' = IF Backend = "local" THEN p ELSE CheckOut(p)
  /\ phase' = [phase EXCEPT ![w] = "granted"]
  /\ job' = [job EXCEPT ![w] = o]
  /\ UNCHANGED code

\* Mutant: the worker returns on a refused lock without mark_failed.
ConflictUnmarked(o) ==
  /\ ~CanLock(LockConn(Transact(pool)), userOf[o])
  /\ status' = [status EXCEPT ![o] = "running"]
  /\ pool' = Transact(pool)
  /\ UNCHANGED <<code, held, workerVars>>

\* The lock is refused: the operation fails at once.
Conflict(o) ==
  LET p == Transact(pool) IN
  /\ ~CanLock(LockConn(p), userOf[o])
  /\ status' = [status EXCEPT ![o] = "failed"]
  /\ code' = [code EXCEPT ![o] = "conflict"]
  /\ pool' = Transact(p)
  /\ UNCHANGED <<held, workerVars>>

\* A row that is no longer in flight is skipped.
Attempt(w, o) ==
  IF status[o] \in Inflight
  THEN Acquire(w, o) \/ Conflict(o)
  ELSE /\ pool' = Transact(pool)
       /\ UNCHANGED <<status, code, held, workerVars>>

Take(w) ==
  /\ up
  /\ phase[w] = "idle"
  /\ queue # << >>
  /\ queue' = Tail(queue)
  /\ Attempt(w, Head(queue))
  /\ UNCHANGED <<userOf, kind, aged, envVars>>

\* The inner task begins: set_step commits and gives the connection back,
\* then the service runs, committing, up to its wait for the runtime.
Run(w) ==
  /\ phase[w] = "granted"
  /\ phase' = [phase EXCEPT ![w] = "executing"]
  /\ session' = [session EXCEPT ![w] = LocalConn]
  /\ pool' \in AfterTransactions(IF Backend = "local"
                                 THEN Transact(pool)
                                 ELSE CheckIn(pool, session[w]))
  /\ UNCHANGED <<rowVars, job, held, envVars, queue>>

\* What every ending of _process_one does: mark_succeeded or mark_failed,
\* then release on the connection that is first by then, commit, close.
End(w, s, c) ==
  /\ status' = [status EXCEPT ![job[w]] = s]
  /\ code' = [code EXCEPT ![job[w]] = c]
  /\ \E before \in AfterTransactions(pool) :
       LET p == Transact(before) IN
       /\ held' = Unlock(LockConn(p), userOf[job[w]])
       /\ pool' = IF Backend = "local" THEN p ELSE Transact(p)
  /\ phase' = [phase EXCEPT ![w] = "idle"]
  /\ job' = [job EXCEPT ![w] = NoOp]
  /\ UNCHANGED <<userOf, kind, aged, queue, session, envVars>>

Succeed(w) == phase[w] = "executing" /\ End(w, "succeeded", "none")

\* The service raised OperationError, or anything else.
Fail(w) == phase[w] = "executing" /\ End(w, "failed", "operation_error")

\* Mutant: a status the table's check does not list.
TimeoutUnlisted(w) ==
  /\ phase[w] = "executing"
  /\ End(w, "timed_out", "operation_timeout")

\* wait_for gives up: cleanup that has nothing to wait for ends at once,
\* that of a deploy or restart may first wait for the restored runtime.
Timeout(w) ==
  /\ phase[w] = "executing"
  /\ End(w, "failed", "operation_timeout")

AwaitCleanup(w) ==
  /\ phase[w] = "executing"
  /\ kind[job[w]] \in {"deploy", "restart"}
  /\ phase' = [phase EXCEPT ![w] = "cleanup"]
  /\ pool' \in AfterTransactions(pool)
  /\ UNCHANGED <<rowVars, job, session, held, envVars, queue>>

EndCleanup(w) ==
  /\ phase[w] = "cleanup"
  /\ End(w, "failed", "operation_timeout")

\* The database goes away while a worker handles its operation's failure:
\* mark_failed raises out of _process_one and of _worker_loop, so the task is
\* gone.  Every Postgres session ends, and with it the locks it had; the
\* local set keeps the others' keys.  (Taken only while no worker holds a
\* connection across a suspension.)
LoseWorker(w) ==
  /\ faults < MaxFaults
  /\ phase[w] \in {"executing", "cleanup"}
  /\ \A v \in Workers : session[v] = LocalConn
  /\ faults' = faults + 1
  /\ phase' = [phase EXCEPT ![w] = "dead"]
  /\ job' = [job EXCEPT ![w] = NoOp]
  /\ held' = IF Backend = "local" THEN Unlock(LocalConn, userOf[job[w]])
                                  ELSE Unlocked
  /\ pool' = NoConnections
  /\ UNCHANGED <<rowVars, session, up, restarts, queue>>

-----------------------------------------------------------------------------
(***************************************************************************)
(* The process.                                                            *)
(***************************************************************************)

\* Mutant: shutdown does not cancel the workers.
StopUncancelled ==
  /\ up
  /\ restarts < MaxRestarts
  /\ up' = FALSE
  /\ restarts' = restarts + 1
  /\ queue' = << >>
  /\ UNCHANGED <<rowVars, workerVars, lockVars, faults>>

\* shutdown cancels the workers, which release their locks and leave the
\* rows as they are; a crash does the same, as its connections are closed.
\* Either way queue, tasks and connections are gone.
Stop ==
  /\ up
  /\ restarts < MaxRestarts
  /\ up' = FALSE
  /\ restarts' = restarts + 1
  /\ queue' = << >>
  /\ phase' = [w \in Workers |-> "idle"]
  /\ job' = [w \in Workers |-> NoOp]
  /\ session' = [w \in Workers |-> LocalConn]
  /\ pool' = NoConnections
  /\ held' = Unlocked
  /\ UNCHANGED <<rowVars, faults>>

\* Mutant: the sweep's query forgets the status.
StaleWhateverStatus(o) == o \in aged

Stale(o) == status[o] \in Inflight /\ o \in aged

\* Mutant: startup queues an operation again that is still in flight, and
\* does not ask whether it already ran.
StartRequeueing ==
  /\ ~up
  /\ up' = TRUE
  /\ \E o \in Ops : status[o] \in Inflight /\ queue' = <<o>>
  /\ pool' = FreshPool
  /\ UNCHANGED <<rowVars, workerVars, held, restarts, faults>>

\* Startup: fail what has been in flight for longer than the grace period,
\* then start the workers on an empty queue.
Start ==
  /\ ~up
  /\ up' = TRUE
  /\ status' = [o \in Ops |-> IF Stale(o) THEN "failed" ELSE status[o]]
  /\ code' = [o \in Ops |->
                IF Stale(o) THEN "stale_manager_restart" ELSE code[o]]
  /\ pool' = FreshPool
  /\ UNCHANGED <<userOf, kind, aged, queue, workerVars, held, restarts,
                 faults>>

GraceElapses(o) ==
  /\ status[o] \in Inflight
  /\ o \notin aged
  /\ aged' = aged \cup {o}
  /\ UNCHANGED <<status, userOf, kind, code, queue, workerVars, lockVars,
                 envVars>>

-----------------------------------------------------------------------------
WorkerStep(w) ==
  \/ Take(w)
  \/ Run(w)
  \/ Succeed(w)
  \/ Fail(w)
  \/ Timeout(w)
  \/ AwaitCleanup(w)
  \/ EndCleanup(w)
  \/ LoseWorker(w)

Next ==
  \/ \E o \in Ops, u \in Users, k \in Kinds : Submit(o, u, k)
  \/ ReadRequest
  \/ \E w \in Workers : WorkerStep(w)
  \/ Stop
  \/ Start
  \/ \E o \in Ops : GraceElapses(o)

Spec == Init /\ [][Next]_vars

\* The event loop schedules every ready task; wait_for bounds the wait of
\* execute and the health deadline bounds the wait of cleanup; compose
\* restarts a stopped process; time passes.
Fairness ==
  /\ \A w \in Workers :
       /\ WF_vars(Take(w))
       /\ WF_vars(Run(w))
       /\ WF_vars(Succeed(w) \/ Fail(w) \/ Timeout(w) \/ AwaitCleanup(w))
       /\ WF_vars(EndCleanup(w))
  /\ WF_vars(Start)
  /\ \A o \in Ops : WF_vars(GraceElapses(o))

FairSpec == Spec /\ Fairness

-----------------------------------------------------------------------------
(***************************************************************************)
(* Properties.                                                             *)
(***************************************************************************)

Working(w, u) == phase[w] \in Active /\ userOf[job[w]] = u

\* At most one operation of a user is in flight at any time, across
\* restarts and sweeps: the 409 check of the handlers has no hole.
OneInflightPerUser ==
  \A o, p \in Ops :
    status[o] \in Inflight /\ status[p] \in Inflight /\ userOf[o] = userOf[p]
      => o = p

\* No two workers are ever inside operations of the same user, whatever the
\* lock answers (_process_one's try_acquire and release may miss each other).
ExclusiveExecution ==
  \A v, w \in Workers, u \in Users : Working(v, u) /\ Working(w, u) => v = w

\* While a worker has an operation in hand its row says running: neither the
\* sweep nor another worker ever finishes it underneath.
WorkIsRunning ==
  \A w \in Workers :
    phase[w] \in Active => job[w] \in Ops /\ status[job[w]] = "running"

\* An operation is never delivered twice: a queued id stands for a queued row
\* and stands once, no two workers have the same operation in hand, and a
\* stopped manager has neither queue nor work, so nothing it had runs again.
HeldOnce ==
  /\ \A i \in 1 .. Len(queue) : status[queue[i]] = "queued"
  /\ \A i, j \in 1 .. Len(queue) : queue[i] = queue[j] => i = j
  /\ \A v, w \in Workers :
       phase[v] \in Active /\ phase[w] \in Active /\ job[v] = job[w] => v = w
  /\ ~up => queue = << >> /\ \A w \in Workers : phase[w] \notin Active

\* The inductive invariant of the proofs.
IInv == TypeOK /\ OneInflightPerUser /\ WorkIsRunning /\ HeldOnce

\* While the manager serves, each in-flight row is in the queue or in a
\* worker's hands, so the 409 "already in progress" is true (routes.py).
InflightIsOwned ==
  up => \A o \in Ops : status[o] \in Inflight =>
          \/ \E i \in 1 .. Len(queue) : queue[i] = o
          \/ \E w \in Workers : phase[w] \in Active /\ job[w] = o

\* An operation is refused with "conflict" only while some worker really is
\* inside an operation of the same user (operation_runner.py's message).
NoSpuriousConflict ==
  [][\A o \in Ops : code[o] # "conflict" /\ code'[o] = "conflict"
       => \E w \in Workers : Working(w, userOf[o])]_vars

\* With the local backend no worker is ever refused a lock: what the handlers
\* admit, the queue delivers and the workers release leaves the user of a
\* queued operation without a key in the set.
NeverRefused == \A o \in Ops : code[o] # "conflict"

\* With the local backend a user's lock is taken exactly while a worker is
\* inside an operation of the user.
LockMatchesExecution ==
  \A u \in Users :
    held[LocalConn][u] > 0 <=> \E w \in Workers : Working(w, u)

\* Every accepted operation reaches a final status.
AcceptedTerminates ==
  \A o \in Ops : status[o] = "queued" ~> status[o] \in Final

\* The rows behave as the manager's promise to its callers.
Lifecycle == INSTANCE OperationLifecycle
ImplementsLifecycle == Lifecycle!Spec

=============================================================================
