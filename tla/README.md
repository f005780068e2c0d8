# A verification project for ACE gateway

ACE gives every user a container of their own (the *runtime*). Two services
work on it: the **manager** (`src/ace_net_manager`), which provisions, deploys,
restarts and rolls back runtimes through queued *operations*, and the
**gateway** (`src/gateway`), which makes sure that the user's runtime is up,
proxies chat, WebSocket and messaging traffic to it, and decides which user a
message belongs to. In the runtime itself a small server, **Hermes**
(`routers/hermes_server.py`), runs the agent and streams what it prints. This
directory holds TLA+ models of the parts where the order of events matters, the
instances TLC checks, and proofs that TLAPS checks.

Contents: [the system](#1-the-system) ·
[modules and code](#2-modules-and-the-code-they-model) ·
[runs](#3-what-the-runs-check) · [bounds](#4-bounds) ·
[fairness](#5-fairness) · [proofs](#6-what-is-proved) ·
[disagreements](#7-where-code-and-intent-disagree) ·
[left out](#8-what-is-not-modelled) · [plan](#9-plan)

## 1. The system

| Component | State | Operations | Hard behaviour | What makes it correct |
|---|---|---|---|---|
| Manager API (`ace_net_manager/api/routes.py`) | none of its own | POST new-user, deploy, rollback, restart: check for an in-flight operation, insert a row, enqueue its id; GET status, operation | check and insert are separate statements without a constraint behind them | at most one operation of a user in flight |
| Operation store (`services/operation_service.py`) | `runtime_operations` rows | create, mark running / succeeded / failed, set step, startup sweep | rows outlive the queue that gives them meaning | a row runs once, gets one final status and keeps it |
| Operation runner (`workers/operation_runner.py`, `main.py`) | in-memory queue, worker tasks | take, lock, execute under a deadline, clean up, release; start, shutdown | several workers, timeouts, cleanup after timeouts, restart, a worker task that dies | delivery at most once, exclusion per user, termination |
| User lock and pool (`services/lock_service.py`, `db/database.py`) | Postgres session locks or a process-local set; SQLAlchemy's connection pool | try_acquire, release | the lock belongs to a connection, the session changes connections at each commit | taken exactly while someone works for the user |
| Runtime orchestration (`services/{provision,deploy,restart,rollback,runtime,docker}_service.py`) | `user_runtimes` row, `runtime_generations` rows, the container | provision, deploy, restart safe / forced, rollback, restore, cleanup after a timeout | each operation is a chain of commits and Docker calls, any of which may fail, time out or be the last one before a crash | rows agree with each other and with the container |
| Gateway runtime manager (`gateway/runtime_manager.py`) | per-user asyncio locks, a cache of ready users | `ensure_user_runtime` | concurrent requests, Docker commands that end after the gateway gave up on them, the manager acting on the same container | one request works on the container at a time, every request is answered, "ready" is true |
| Gateway proxies (`routers/agent.py`, `ace_proxy.py`) | the connection to Hermes, a bridge of two tasks per WebSocket | forward, pass errors on, close | which end or direction ends first, two read timeouts of equal length | the client is told the truth, in order, and told at all; both ends are closed |
| Messaging and account linking (`routers/messaging.py`) | auth sessions, address links, background replies | start, callback, relink, administrator's link, webhooks | the callback awaits the code exchange between reading and writing its session; replies outlive the webhook's answer | only who signed in for a number is linked to it and answers it |
| Hermes bridge (`routers/hermes_server.py`) | an agent process per turn | run, stream, WebSocket | two deadlines, one of which can strike in a send; the client or the container goes away | a turn ends once, and when it says "done" everything was said |
| Token verification (`auth/jwt.py`, `deps.py`) | JWKS cache | verify | key rotation within the cache's lifetime | a valid token is accepted |
| Data access (`db/crud.py`, `models.py`) | tables of messaging; refresh tokens and vector tasks, which nothing uses | – | – | – |
| Schema, configuration, deployment | – | – | – | – |

How they interact: a handler *commits* a row and *puts* its id on the runner's
queue; a worker *calls* the services under the user's lock and the deadline of
`asyncio.wait_for`; services and gateway *share* one container name per user
(`utils/naming.py`, `gateway/runtime_manager.py`), with no lock between the two
processes; proxies, WebSocket and messaging routers *await*
`ensure_user_runtime` and then *stream* from Hermes. The hazards this brings are
listed, each at its line and with the properties aimed at it, in `PROJECT.json`
under `hazards`.

## 2. Modules and the code they model

| Module | Models | Kind |
|---|---|---|
| `AdvisoryLock` | `lock_service.py`, the pool of `db/database.py` | operators over lock and pool, used by `OperationRunner` |
| `OperationLifecycle` | what callers of the manager may rely on of an operation | abstract specification |
| `OperationRunner` | `routes.py`, `operation_service.py`, `operation_runner.py`, `main.py` | detailed specification, refines `OperationLifecycle` |
| `RuntimePromise` | what callers may rely on of a runtime's rows | abstract specification |
| `RuntimeOrchestration` | the four services over `runtime_service.py`, `docker_service.py`, `naming.py`, `health_service.py` | detailed specification, refines `RuntimePromise` |
| `GatewayRuntime` | `runtime_manager.py` and its callers | detailed specification with its environment |
| `SharedRuntime` | manager and gateway on one container | composition of the last two |
| `AgentStream` | `hermes_server.py`, `agent.py`, `ace_proxy.py` | detailed specification of one turn, end to end |
| `AccountLinking` | `messaging.py` and its two tables | detailed specification |
| `MCOperationRunner`, `MCSharedRuntime`, `MCAccountLinking` | – | instances: symmetry |
| `OperationRunnerProofs`, `LocalLockProofs`, `RuntimeOrchestrationProofs`, `GatewayRuntimeProofs`, `SharedRuntimeProofs`, `AgentStreamProofs`, `AccountLinkingProofs` | – | theorems |

`RuntimeOrchestration`, `GatewayRuntime`, `AgentStream` and `OperationLifecycle`
need no instance module: model values in the `.cfg` are enough.
`PROJECT.json` maps every definition to the lines it stands for. Operators
whose comment begins with "Mutant" are not part of a model: each is a plausible
bug in the definition that follows it, and replacing the definition by it must
make some property fail.

### OperationRunner and AdvisoryLock

*Grain.* The manager is one process with one event loop (uvicorn with one
worker, `docker-compose.vps.yml`), its handlers are `async` and its database
calls are synchronous. Code between two awaits is therefore one step:
`has_inflight`, `create_operation`, the commit and `enqueue` (an unbounded
`asyncio.Queue.put`, which does not suspend) are the one action `Submit`. Python
3.11's `wait_for` makes a task of the coroutine it waits for, so a worker
suspends between `try_acquire` and the first line of `_execute`; this is the
phase `granted`.

| State | Code |
|---|---|
| `status`, `userOf`, `kind`, `code` | columns of `runtime_operations` |
| `aged` | rows whose `created_at` lies before the sweep's cutoff |
| `queue` | `OperationRunner._queue` |
| `phase`, `job` | where each worker task is suspended, with which operation |
| `session` | the connection a worker's Session keeps across a suspension |
| `pool`, `held` | SQLAlchemy's FIFO `QueuePool`; `pg_locks`, or the set `_locks` |
| `up`, `restarts`, `faults` | the process, and the two bounds |

A Session has a connection only from its first statement to its commit. The
pool hands out the connection that has been idle longest. So
`pg_try_advisory_lock` and `pg_advisory_unlock` of one operation are executed on
whichever connection is first in the pool at the time; `AdvisoryLock` follows
connections through check-outs and check-ins for this reason and no other. How
many transactions a coroutine runs between two suspensions varies with the
operation; up to two (`AfterTransactions`) reach every order of a pool this
small. The local backend has no connections and is the pseudo connection 0.

`Stop` is both a shutdown (which cancels the workers; their `finally` releases
the locks and no row changes, since `CancelledError` is not an `Exception`) and
a crash (the connections, and with them the locks, end). `LoseWorker` is the
database going away while a worker is in its `except` block: `mark_failed`
raises out of `_process_one` and `_worker_loop`, and the task is gone.

### RuntimeOrchestration

One user's runtime. `OperationRunner` shows that at most one operation of a user
is executed at a time, so `op` is that one operation and where it is. A step
ends at each commit and at each change of the container: the points where a
crash leaves something different behind. Deadlines strike only at awaits, and
the services await nothing but the runtime's readiness.

| State | Code |
|---|---|
| `rt` | the `user_runtimes` row: status, current and previous generation and image, health |
| `gens` | `runtime_generations` rows: lifecycle state, image, `env_overrides` in the labels; the number is unique per user |
| `ctr` | the container named `ace-user-<slug>`, with its `ace.generation` label, image, and whether it is stopped, starting or ready: the name ignores the generation, so there is at most one |
| `op` | the executing operation: step, kind, generation, image, overrides, whether the old container was removed, whether this is the cleanup of a timeout |

The wait for readiness (`health_service.wait_until_ready`) is a step of its own
in the main path and in the restore: it ends when the container is ready, by
failure, or by the operation's deadline; the restore inside the cleanup of a
passed deadline has no second one. Cleaning a failed
container up either renames or removes it, depending on
`preserve_failed_containers`; the name is free either way, and nothing looks a
renamed container up again, so both are `Gone`. A request refused before its
first commit changes nothing and is a stuttering step. `OperationRolledBack` has
no code that raises it.

### GatewayRuntime

`ensure_user_runtime` for one user: the cache, the asyncio lock with its FIFO
queue, then one action per Docker command, because each is awaited. The
environment is explicit: the cache's TTL, a runtime that becomes ready or exits,
commands that Docker carries out after `_run_local` killed the client (`late`),
a restart of the gateway, and the manager stopping, removing, creating and
starting the container. A container of the gateway has no generation label
(`NoGeneration`); the manager's have. All callers pass `wait_for_lock=True`, so
the branch that raises `RuntimeProvisioningError` with 409
(`runtime_manager.py:514`) has no state that reaches it, whatever
`ACE_RUNTIME_LOCK_CONFLICT_RETURNS_409` says, and the model has no action for it.
A container on the wrong network or volume, or with wrong labels, is one of the
failing commands (`Fails`).

### SharedRuntime

Instances of the two modules with the variable `ctr` in common; a step is one of
either, the other's own variables unchanged. The container record is the same
type in both, so nothing is translated: a container the gateway makes has
generation 0, and the manager's `assert_container_matches` tells it from one of
its own by this. The composition is checked for two things: what the gateway can
do to the manager (`ActiveMeansServing`, `CandidateIsOwn`), and that the
manager does nothing that `GatewayRuntime`'s environment does not
(`GatewayExpectsIt`, a step simulation). What holds of a gateway with that
environment holds of the composition, the lock (`LockMatchesSection`) and
`gateway_shared`'s answers; the larger instance need not be run for them. All
three are theorems too (section 6).

### AgentStream

One turn from the agent process to the client, over each of the four ways
through the gateway (`via`): the chat stream, its buffered form, the `/ace`
stream and the WebSocket bridge.

| State | Code |
|---|---|
| `agent` | the subprocess: state, lines printed (blank ones apart), whether every copy of its stdout is closed |
| `hermes` | where `_run_hermes_agent` is suspended, lines read (blank ones apart), how it called the turn |
| `due` | the timer of `asyncio.timeout(AGENT_TIMEOUT)` went off and has not been delivered |
| `link`, `wire` | the connection between gateway and Hermes, and what is under way on it |
| `proxy`, `got`, `client` | the gateway's handler, what the client received, whether it is there |

A frame is its type and the number of the line it carries, counted among the
lines that are not blank: Hermes reads a blank line and drops it (`ReadBlank`,
see 7.4). A token is put on the
wire in a step of its own, because the generator is suspended in the response's
send while it yields: the timer can go off there, and then its `TimeoutError` is
raised outside the generator and no handler of it runs (`Abandon`). The runtime's
container can be stopped at any moment (`RuntimeDies`), which takes the agent and
an arbitrary end of the wire with it. What the agent started inherits its stdout
and may print on and keep it open after the agent has exited; only a kill of the
agent, after which nobody reads, counts as the end of both.

### AccountLinking

| State | Code |
|---|---|
| `auth`, `expired` | `auth_sessions` rows (status, sender, user) and whether their time has come |
| `link` | `messaging_links`: user and origin per provider and address |
| `cb` | each callback: not made, waiting for the exchange with the row as it was loaded, done |
| `msg` | each delivery: what the webhook decided and what its background task still does |
| `granted` | history variable: who signed in, or was named by an administrator, for which key |

The handlers are `async` over synchronous SQLAlchemy, so the only suspension
points are the code exchange, the runtime's answer and the posting of a reply.
`Write` is what SQLAlchemy's flush does: it writes the attributes whose value
differs from the one *loaded before the exchange*, not from the one in the
table. `Restart` loses what is suspended and keeps the rows.

## 3. What the runs check

Sizes are distinct states; each run ends within two minutes on two cores.

| Run | Question | Result |
|---|---|---|
| `runner_postgres` (156 k) | Are admission, delivery and exclusion right, and do the rows keep the promise of `OperationLifecycle`, on Postgres, with a restart and the loss of a worker? | yes, although the advisory lock itself cannot be relied on |
| `runner_local` (985 k) | Is the process-local lock taken exactly while a worker works for the user, and is an accepted operation never refused it? | yes: with this lock there are no conflicts, as there should be none |
| `runner_liveness` (192 k) | In a process that is not restarted, is each in-flight row somebody's job, and does each accepted operation end? | yes |
| `runner_stranded` | The same across a restart? | **no**, see 7.1 |
| `runner_conflict` | Is every conflict a real one on Postgres? | **no**, see 7.2 |
| `runtime_faults` (44 k) | Do runtime row, generation rows and container agree through timeouts, crashes between any two commits, and Docker failing inside except blocks? Does an operation that ends leave a settled status, and a serving container where it says active? Do the rows keep `RuntimePromise`? | yes |
| `runtime_early_failure` | Does a deploy that fails before it removes the old container leave it alone? | **no**, see 7.3 |
| `shared` (772 k) | With the gateway making and starting containers under the same name, late commands included, does an operation commit the container it made, and does an active runtime at rest serve? Is the manager what the gateway's model takes it for? | yes |
| `gateway_alone` (101 k) | With three concurrent requests and nobody else at the container, do requests stay out of each other's way, and are the cache and "ready" true? | yes |
| `gateway_shared` (138 k) | With the manager, exits, late commands and a restart, is the lock never leaked or shared and is every request answered? | yes |
| `streams` (55 k) | Is what the client gets of the lines that are not blank in order and true, is it told of every break, and does every turn and every connection end? | yes |
| `linking` (172 k) | With overlapping, failing, expiring and repeated sign-ins, relinking, an administrator and restarts, is a number linked to and answered by nobody who was not granted it, and does a session that made a link keep a user and an answer? | yes |

What the properties say, and a bug that each would notice (the mutants):

* `OneInflightPerUser`, `ExclusiveExecution`: the handlers' check counts only
  queued rows (running ones forgotten). `WorkIsRunning`: shutdown leaves workers
  behind, which the next startup's sweep fails underneath. `HeldOnce`: startup
  queues an in-flight row again without asking whether it already ran.
  `ImplementsLifecycle`: the sweep does not look at the status and fails
  finished operations. `LockMatchesExecution`: the lock is not released.
  `NeverRefused`: the handlers' check again, so that a second operation of a user
  is accepted and meets the first one's lock. `TypeOK`: a timed-out
  operation gets a status the table's check constraint does not list.
  `InflightIsOwned`: a handler forgets to enqueue.
  `AcceptedTerminates`: the worker returns from a refused lock without
  `mark_failed`.
* `PromotedIsCurrent`: a cutover does not retire the old row. `RowsAgree`: the
  cutover moves the pointers before it remembers them. `ActiveRunsCurrent`: a
  timed-out rollback resets the status and leaves its candidate. `EndsServing`:
  an operation whose restore failed is recorded as active. `ImplementsPromise`:
  a used generation number is overwritten instead of refused. `StatusSettles`:
  an except block fails the generation only.
* `ActiveMeansServing`: `docker create` takes a container that has the name
  already. `CandidateIsOwn`: a gateway run that fails on the taken name frees the
  name "behind it". `GatewayExpectsIt`: the manager replaces a container in one
  step instead of two, which the gateway's waiting requests have no room for.
* `CreateFindsNameFree`: no lock. `FreshMeansReady`: the cache is filled when
  the wait ends, however it ends. `LockMatchesSection`, `AllAnswered`: a failing
  command leaves the lock taken. `ReadyHasImage`: the image is not compared.
* `GotInOrder`: after the deadline the generator goes on to the exit code and
  ends the turn twice. `DoneIsTrue`: a blank line is taken for the end of the
  output. `EndingMeansAgentEnded`: the agent that does not exit is left
  running. `ClientIsTold`: a broken connection ends the stream like any other
  end. `RunsEnd`: the timer covers the first line only. `ConnectionsEnd`: the
  handler ends without closing its connection to Hermes.
* `LinksAreGranted`: the link is stored under the other provider.
  `AlreadyLinkedIsTrue`: the session is committed before the link is tried.
  `LinkedSessionKeepsUser`: a callback writes the whole row as it loaded it
  before the exchange, and so undoes what another one wrote meanwhile.
  `RightAnswer`: the query for the link forgets the provider.

`StatusSettles` leaves `rollback_pending` out: `rollback_user` commits it before
it looks for a target and `handle_timeout_cleanup` skips rollbacks, so a runtime
can stay in it; the code says so on its face. `EndsServing` leaves the end of a
timed-out deploy out whose restore failed (see 7.5).

Deadlock is not checked: operations, requests, callbacks and lines are finitely
many, and a system that has served them all may stop.

## 4. Bounds

* *Three operations of two users, two workers* (`runner_postgres`,
  `runner_local`, `runner_conflict`): one operation can
  follow another of the same user while the second user's is being run, which is
  what it takes to mix up connections and to deliver twice. One operation
  is enough to be stranded (`runner_stranded` has two). `runner_liveness`
  has one worker, since its temporal property is checked on every state: what one
  worker could wait for is a lock left behind by itself or an id nobody has, and
  what two do to each other is in the other runs. `PoolLimit = 3` connections:
  two suspended workers and a handler.
* *Kinds*: the kinds of operation differ, for the runner, only in whether their
  cleanup may wait; `deploy` may and need not, so the runs on Postgres have only
  this one, and `runner_local` has `new_user` as well.
* *`MaxRestarts = 1`, `MaxFaults = 1`*: a restart puts no memory into the next
  life of the process but the rows, so what a second restart could find, a first
  one finds; the theorems of section 6 do not depend on either bound.
* *Two images, one override, `MaxGen = 4`* (`runtime_faults`): provision, two
  cutovers and a failed candidate on top. The theorems hold for any `MaxGen`.
* *`shared`*: one image and three generations (provision, a cutover, a failed
  candidate), two requests, crashes, late commands. Which container is whose is
  told by the label, so a second image adds nothing to its properties. Two
  faults are left out because what is claimed is false with them: with a
  deadline, `ActiveMeansServing` fails by 7.5, and a runtime that exits is not
  serving until Docker's restart policy has it up again. The gateway is not
  restarted: a restart forgets, which `gateway_shared` covers, and leaves a
  command late, which `DockerSlow` does too.
* *Three requests, two images* (`gateway_alone`): one in the section, two in the
  queue, with different wishes. `gateway_shared` has two requests, since its
  environment multiplies the states and its temporal property is checked on all
  of them; the theorems hold for any number.
* *Three lines* (`streams`), blank or not in any mixture: one read, one in the
  send and one in the pipe, so that an ending can overtake each of them, and a
  blank one with lines after it. One turn: the next
  one on a WebSocket begins where the first ended.
* *`linking`*: two numbers at two providers, two sessions, three callbacks over
  two connections (two that overlap and one that comes between or finds no
  connection), two messages, three users of whom one has no row in `users` and
  one may be named by an administrator. The theorems hold for any sets.
* Each operation id, request, session id and message is used once; `uuid4` ids
  do not repeat.

The symmetries exchange ids, users, workers, requests, numbers, sessions,
callbacks and messages, which no definition tells apart; they are used with
invariants and with refinements whose steps are symmetric too, never with
liveness.

## 5. Fairness

* Workers: the event loop resumes every task that is ready (`Take`, `Run`);
  `wait_for` bounds the time `execute` can take, and its end is one of success,
  failure, timeout or the start of a cleanup; the cleanup's wait is bounded by
  the health deadline (`EndCleanup`). All weak.
* `Start`: `docker-compose.vps.yml` restarts a stopped manager. `GraceElapses`:
  time passes.
* No fairness for `Submit`, `ReadRequest`, `Stop`, `LoseWorker`: nobody has to
  ask, to crash or to lose the database.
* Gateway: a request that can go on does (`Wake`, `Command`), because every
  Docker command has a timeout and the wait for readiness a deadline. Weak
  fairness of `Wake` is enough because `asyncio.Lock` lets nobody pass the first
  waiter. Nothing is assumed of Docker, the manager or the runtime.
* Streams: the event loops of Hermes and of the gateway run what can run, the
  timer goes off, and a client that stays reads what it is sent. Nothing is
  assumed of the agent, which may print nothing, close its output early or never
  exit, nor of the gateway's own timeouts (`ReadTimesOut`), nor of a direction up
  that ends by itself (`UpEnds`): `RunsEnd` and `ConnectionsEnd` do not need them.
  (`EnsureFails` is the other way `Ensured` may go: the wait for the runtime has a
  deadline, so that one of the two happens.)

## 6. What is proved

Seven modules of proofs, for any values of the constants that satisfy the
assumptions named in the modules (`PoolAssumption`, `KindAssumption`,
`GenAssumption`, `CtrAssumption`, `DefaultAssumption`, `MemberAssumption` and so
on; TLC evaluates each of them).

| Module | Theorem | Statement |
|---|---|---|
| `OperationRunnerProofs` | `Invariance` | `Spec => []IInv` |
| | `TypeCorrect` | `Spec => []TypeOK` |
| | `Admission` | `Spec => []OneInflightPerUser` |
| | `WorkRunning` | `Spec => []WorkIsRunning` |
| | `Delivery` | `Spec => []HeldOnce` |
| | `Exclusion` | `Spec => []ExclusiveExecution` |
| | `Refinement` | `Spec => Lifecycle!Spec` |
| | `Ownership` | `Spec => [](Undisturbed => InflightIsOwned)` |
| `LocalLockProofs` | `LocalLock` | `Spec => []LockMatchesExecution`, if `Backend = "local"` |
| | `LocalNeverRefused` | `Spec => []NeverRefused`, if `Backend = "local"` |
| `RuntimeOrchestrationProofs` | `Invariance` | `Spec => []IInv` |
| | `TypeCorrect` | `Spec => []TypeOK` |
| | `OnePromoted` | `Spec => []PromotedIsCurrent` |
| | `Agreement` | `Spec => []RowsAgree` |
| | `ActiveIsCurrent` | `Spec => []ActiveRunsCurrent` |
| | `EndedActiveServes` | `Spec => EndsServing` |
| | `Settling` | `Spec => StatusSettles` |
| | `Refinement` | `Spec => Promise!Spec` |
| `GatewayRuntimeProofs` | `TypeCorrect` | `Spec => []TypeOK` |
| | `Exclusion` | `Spec => []LockMatchesSection` |
| | `AloneInvariance` | `Spec => []AInv`, if `Alone` |
| | `NameIsFree` | `Spec => []CreateFindsNameFree`, if `Alone` |
| | `CachedIsReady` | `Spec => []FreshMeansReady`, if `Alone` |
| | `ImageIsRight` | `Spec => []ReadyHasImage`, if `Alone` |
| `SharedRuntimeProofs` | `CandidateKept` | `Spec => []CandidateIsOwn` |
| | `ActiveServes` | `Spec => []ActiveMeansServing`, if `~MayTimeout` and `~RuntimesExit` |
| | `Expected` | `Spec => GatewayExpectsIt` |
| | `LockKept` | `Spec => []Gateway!LockMatchesSection` |
| | `PromiseKept` | `Spec => Manager!ImplementsPromise` |
| | `TablesAgree` | `Spec => [](Manager!PromotedIsCurrent /\ Manager!RowsAgree)` |
| | `StatusStillSettles` | `Spec => Manager!StatusSettles` |
| `AgentStreamProofs` | `StreamTyped` | `Spec => []TypeOK` |
| | `InOrderAlways` | `Spec => []GotInOrder` |
| | `DoneTrue` | `Spec => []DoneIsTrue` |
| | `EndingTrue` | `Spec => []EndingMeansAgentEnded` |
| | `StreamTold` | `Spec => []ClientIsTold` |
| `AccountLinkingProofs` | `Invariance` | `Spec => []IInv` |
| | `TypeCorrect` | `Spec => []TypeOK` |
| | `OnlyGranted` | `Spec => []LinksAreGranted` |
| | `CompleteMeansLinked` | `Spec => []AlreadyLinkedIsTrue` |
| | `AnsweredByGranted` | `Spec => []RightAnswer` |
| | `LinkedKept` | `Spec => []LinkedSessionKeepsUser` |

*OperationRunner.* `IInv == TypeOK /\ OneInflightPerUser /\ WorkIsRunning /\
HeldOnce`. None of the last three is inductive alone:

* `OneInflightPerUser` is preserved by `Take` only if the row that becomes
  `running` was in flight, which `Attempt` asks; and by `End` because a status
  only leaves the in-flight set.
* `WorkIsRunning` needs that nobody else finishes a worker's row: no other
  worker has it in hand, no queued id stands for it (`HeldOnce`), and the sweep
  of `Start` meets no workers (the last conjunct of `HeldOnce`).
* `HeldOnce` needs `WorkIsRunning`: a taken id was `queued`, so it is not the
  row of a working worker, whose status is `running`.

`ExclusiveExecution` follows from it in one step: two workers inside operations
of one user would have two in-flight rows of that user (`WorkIsRunning`), which
are one row (`OneInflightPerUser`), which one worker has (`HeldOnce`). The lock
does not occur in this argument. It is the admission check and the queue that
keep two workers apart; the lock could be removed and nothing would change but
the false conflicts of 7.2. The refinement is a step simulation under `IInv`:
`Submit` is `Accept`; taking an id is `Begin`, or `GiveUp` of one row when the
lock is refused; the endings are `Succeed` or `GiveUp`; the sweep is `GiveUp` of
the stale rows, or a stutter if there are none; every other action stutters.

`Ownership` adds `Owning` to `IInv`: while nothing was restarted or lost, the
manager is up and every row in flight is in the queue or in a worker's hands.
The hypothesis `Undisturbed` (no restart, no lost worker so far) is what 7.1 is
about: with either, the sentence is false, and the run `runner_stranded` shows
how.

*The local lock.* `LocalInv == IInv /\ RowsHaveUsers /\ LocalTable`.
`LockMatchesExecution` says of the set of keys only whether a key is in it; to
be preserved by a release it must be known to be in it once, and not at all
while nobody works (`LocalTable`), and the row whose user a release looks up
must have one (`RowsHaveUsers`). The argument of `ExclusiveExecution` is used
here: the worker that ends is the only one inside an operation of that user, so
the key may go. `LocalNeverRefused` joins the two halves of the design: what a
worker takes from the queue is in flight, so by admission nothing of its user is
being executed, so by `LockMatchesExecution` the lock is free (`NotRefused`), and
no row ever gets the code `conflict`.
Both theorems are about `Backend = "local"`, as the properties are; on Postgres
they are false (7.2).

*RuntimeOrchestration.* `IInv == Core /\ SettleReady /\ Vacant /\
ActiveRunsCurrent` with `Core == TypeOK /\ Rows /\ Doing /\ CandidateIsOwn`.
`RowsAgree` and `PromotedIsCurrent` are not inductive because a cutover copies
what the operation holds into the row: `Candidate` says that the generation in
hand is the one after the current and has the image of its row, and `Pointers`
that there is a current image exactly if there is a current generation, which
is what keeps a user from being provisioned twice with generation 1.
`ActiveRunsCurrent` and `EndsServing` need to know what is under the name: from
the moment an operation made its container until it commits it, its own
(`CandidateIsOwn`), ready when a deploy settles (`SettleReady`), and after a
removal nothing until the restore makes one (`Vacant`). `Course` says at which
steps each kind of operation can be, and that the status is not `active`
meanwhile. The refinement maps
`[gen |-> rt.cur, image |-> rt.image]`, the same of the rollback target, and the
promoted rows to `RuntimePromise`'s variables: the commit that ends provisioning
is `Provide`, the cutover of a deploy, restart or rollback is `Switch`, the start
of a restore is `Withdraw` or a stutter (the row may be withdrawn already), its
end is `Reinstate` or a stutter, and every other action stutters.

*GatewayRuntime.* `LInv == TypeOK /\ LockMatchesSection` is inductive with every
environment: each command of a request either stays in the section or leaves it
with the lock (`CommandShape`), the queue has no duplicates, and only its head
leaves it. The other three need a gateway that is `Alone` (no manager, no late commands, no exits, no
restart) and an invariant of what each request can rely on where it is
(`Finds`): the name is free from the look to the run, there is a container from
then on, it is ready at the mark, and it has the named image once that was
compared. A container that is there stays (`Kept`), and of the others no one is
in the section.

*SharedRuntime.* Of `IInv`, `Core` is what survives company: `Vacant` is false
once the gateway may create a container between two calls of the manager, and so
is `ActiveRunsCurrent` when the status was left active by 7.5. `SInv` is `Core` of
the manager and the type of the gateway's requests. The manager's steps keep it
by the lemmas of `RuntimeOrchestrationProofs` (their hypothesis is `Core`, not
`IInv`, for this purpose), the gateway's because they are those of a `Guest`: one
that makes a container under a free name or changes the state of the one there,
never its label or image (`GatewayTouches`, command by command). An operation
makes its container only under a free name and then has it, so what a guest can
do never meets `CandidateIsOwn`. For `ActiveServes` a guest must leave "ready"
alone too (`~RuntimesExit`) and an operation must not be cleaned up after its
deadline (`Patient`, from `~MayTimeout`): without the first the property is false
at once, without the second by 7.5. `Expected` matches what the manager's steps
do to the container (`ContainerStep`) with the environment of `GatewayRuntime`.
The proof modules are instantiated under other names (`M`, `G`) than the
components (`Manager`, `Gateway`, `AnyManager`); the `Same...` lemmas say that the
names stand for the same. `LockKept`, `PromiseKept`, `TablesAgree` and
`StatusStillSettles` are what the two parts prove alone, carried over to the
whole.

*AgentStream.* `Inv == Turn /\ Unconnected /\ Flow /\ Settled`, for any number
of lines. `GotInOrder` speaks of what has arrived, and what arrives next is
under way: `Flow` says that what the client has, followed by what is on the wire,
is the lines from the first on and then at most one ending (`InTransit`), and how
many of them there are at each place of the generator (`Progress`), as one frame
can be counted and not yet sent. When the proxy is through, the wire may have
been cut anywhere (`UpEnds`, `RuntimeDies`), and `Settled` keeps the conclusions
alone. `DoneIsTrue` needs, besides, that Hermes says "done" after it read the end
of the output (`Course`), so that the number of lines told is the number of those
printed that are not blank. `EndingMeansAgentEnded` is about the agent process:
what it started may print on. The facts about sequences (`LinedTyped`,
`OneMore`, `Leaves`, `Arrives` ...) are lemmas of their own.

*AccountLinking.* `IInv` joins the three properties with `SendersKnown` (the row
a callback loaded before the exchange names the number the session still names)
and `InvitedSessionsExist`. The step that matters is `SignIn`: whatever the flush
mixes of the old and the new row, its user was granted for the session's number
(`CompletedRow`), and the link is written in the same commit. `LinkedKept` needs
more than `IInv`: what a callback under way loaded before its exchange had no
user and no answer that the row has lost since (`LoadedStays`). Then a flush,
which skips the attributes equal to what was loaded, can neither empty the user
nor turn an answered session into a pending one. `AdminAssumption` (no session
has the id "admin", which stands for the administrator's metadata) tells the two
origins of a link apart.

*Only model-checked*: liveness under fairness (`AcceptedTerminates`,
`AllAnswered`, `RunsEnd`, `ConnectionsEnd`), which is out of the prover's reach.
Every other property of the passing runs is a theorem, some of them
(`LockMatchesExecution` and `NeverRefused`, `InflightIsOwned`,
`ActiveMeansServing`) under the hypothesis that the run has as a constant, because
they are false without it.

## 7. Where code and intent disagree

The first three are runs that TLC ends with a counterexample. The others were
met while modelling; each can be seen by checking the definition named, which no
run of this project does.

1. **Stranded operations** (`runner_stranded`, `operation_service.py:229`).
   The startup sweep fails operations older than the grace period and nothing
   looks at the younger ones again. After a quick restart such a row stays
   `queued` or `running`, and every later request of its user is answered 409
   "another operation is already in progress".
2. **Conflicts with nobody** (`runner_conflict`, `lock_service.py:41`). The
   release is executed on another connection than the acquisition. The lock
   stays with a pooled connection and a later operation of the user fails with
   `conflict`.
3. **A failed deploy takes the running container with it**
   (`runtime_early_failure`, `deploy_service.py:341`). Candidate and current
   container have one name, so the cleanup of a candidate that was never created
   removes the current container; it is not restored, as the flag that would ask
   for it is set later.
4. **A token for each line** (`hermes_server.py:160`). The
   docstring promises "``token`` events for each line of stdout from the agent";
   blank lines are read and dropped, and the turn ends in "done" all the same. A
   client that joins the tokens again loses the paragraphs of an answer:
   `TokenForEachLine`. What holds, and is proved, is about the other lines
   (`GotInOrder`, `DoneIsTrue`).
5. **Active without a container** (`deploy_service.py:174`).
   `cleanup_timed_out_deploy` records `active` and `healthy` even when the restore
   failed and removed its container: `ActiveMeansServing` of
   `RuntimeOrchestration` with `MayTimeout` true.
6. **Active but not deployable** (`deploy_service.py:211`). The next generation
   is `current + 1`. After a failed deploy whose old container was restored, that
   number belongs to the failed row, and the insert of every later deploy,
   restart or rollback violates the unique key: `ActiveIsDeployable`.
7. **Provisioning over the gateway's container**
   (`provision_service.py:128`). If the gateway made the user's container before
   the user was provisioned, the manager's create fails on the name, its cleanup
   removes the gateway's container, and generation 1 is taken for good, so that
   provisioning cannot be repeated.
8. **A linked session that is not complete** (`messaging.py:747`, `799`). A later
   callback, error or expiry overwrites the status `COMPLETE`, although the link
   stands: `LinkedSessionComplete`. With three overlapping callbacks, session and
   link can even name two users: `LinkMatchesSession`.
9. **Agents nobody waits for** (`hermes_server.py:161`). If the deadline strikes
   in a send, or the client leaves, the generator is cancelled without the
   handlers that kill the agent; the process runs on until it exits by itself.
10. **Frames a bridge had not read** (`agent.py:188`). If the direction up ends
   first, what Hermes sent and the bridge had not read is lost (`UpEnds`). A
   message that is not text ends it too, while Hermes is still talking.

## 8. What is not modelled

* Contents: request schemas, environment values, labels other than generation
  and image, log lines, response bodies, reply texts, tokens kept with a session,
  signatures and payload formats of the webhooks.
* The 64-bit hash of a user id under the advisory lock is taken to be injective.
* Database errors in the middle of a service (the runner's handling of them is
  modelled by `Fail` and `LoseWorker`); a container that exits by itself while
  the manager works on it; cancellation of a gateway request inside
  `ensure_user_runtime` by its client; `proc.kill` of a process that has just
  ended.
* In `agent_chat`, an upstream status from 400 to 499, which is passed on as a
  stream: Hermes has none for the payload the handler builds. Of the processes an
  agent starts, only that they have its stdout.
* The history and status GETs, Hermes's health and memory endpoints: they keep no
  state and order nothing.
* `auth/jwt.py`: a map with one expiry time per key set, filled and read between
  two awaits of one request; a model would restate its guard.
* `db/crud.py`: refresh tokens and vector tasks have no caller in the
  repository, so nothing says how they are used concurrently.
* Migrations, configuration, entry points and deployment scripts have no state of
  their own; the settings that matter (one uvicorn worker, the restart policy,
  `preserve_failed_containers`) are choices named above.

## 9. Plan

The modules planned for the system's own logic are there, and every safety
property of a passing run is proved. What would add to them:

1. `shared` with a gateway that restarts, and with more than one turn in
   `streams`, if the code gains state that outlives either.
2. A theorem for Postgres: which locks can stay behind in the pool (7.2), as an
   invariant of `pool` and `held`.

Runs stay at one per question; those of section 7 give way if the code changes.
