--------------------------- MODULE GatewayRuntime ---------------------------
(***************************************************************************)
(* How the gateway makes sure that a user's runtime is there before it     *)
(* proxies a request (gateway/runtime_manager.py, ensure_user_runtime).    *)
(*                                                                         *)
(* Requests of one user run concurrently on one event loop.  A step lasts  *)
(* from one await to the next, that is, one docker command: between two    *)
(* commands of a request anything else may happen, to the container as     *)
(* well, since the manager works on the container of the same name and     *)
(* Docker may finish a command after the gateway stopped waiting for it.   *)
(***************************************************************************)
EXTENDS Naturals, Sequences

CONSTANTS
  Requests,             \* requests of the user, each made once
  Images,               \* image references
  DefaultImage,         \* ACE_RUNTIME_IMAGE, for requests that name none
  NoImage, NoCtr,       \* no image named, no container under the name
  Generations,          \* ace.generation labels of the manager's containers
  ManagerActs,          \* does the manager work on the container too?
  DockerSlow,           \* can docker commands outlast their timeout?
  RuntimesExit,         \* can a runtime exit by itself?
  MaxRestarts           \* bound: how often the gateway restarts

ASSUME DefaultAssumption == DefaultImage \in Images /\ NoImage \notin Images
ASSUME LabelAssumption == Generations \subseteq Nat \ {0}
ASSUME FlagAssumption ==
  {ManagerActs, DockerSlow, RuntimesExit} \subseteq BOOLEAN

VARIABLES
  ctr,       \* the container named ace-user-<id>, if there is one
  late,      \* commands Docker may still carry out for nobody
  fresh,     \* is the user's entry in _runtime_ready_cache within its TTL?
  lock,      \* the user's asyncio.Lock: taken or not, and who waits for it
  pc,        \* the await each request is at
  req,       \* what each request asks for
  running,   \* did _container_status say "running" to the request?
  answer,    \* what ensure_user_runtime returned or raised
  restarts   \* restarts so far

docker == <<ctr, late>>
local == <<req, running>>
vars == <<docker, fresh, lock, pc, local, answer, restarts>>

\* The callers: /newuser may name an image and wants no cached answer; chat,
\* WebSocket, proxy and messaging do the opposite.  All of them pass
\* wait_for_lock, so none can be refused with 409 while the lock is taken.
Asks ==
  [cached : {FALSE}, image : Images \cup {NoImage}]
    \cup {[cached |-> TRUE, image |-> NoImage]}

InSection == {"prepare", "look", "create", "connect", "inspect", "start",
              "await", "mark"}
Answers == {"none", "ready", "cached", "not_ready", "mismatch", "error",
            "lost"}

\* The gateway's containers have no generation label.
NoGeneration == 0

Container == [gen : Generations \cup {NoGeneration}, image : Images,
              state : {"stopped", "starting", "ready"}]

ASSUME CtrAssumption == NoCtr \notin Container

TypeOK ==
  /\ ctr \in Container \cup {NoCtr}
  /\ late \in SUBSET (Images \cup {"start"})
  /\ fresh \in BOOLEAN
  /\ lock \in [taken : BOOLEAN, queue : Seq(Requests)]
  /\ pc \in [Requests -> {"idle", "waiting", "done"} \cup InSection]
  /\ req \in [Requests -> Asks]
  /\ running \in [Requests -> BOOLEAN]
  /\ answer \in [Requests -> Answers]
  /\ restarts \in Nat

Unlocked == [taken |-> FALSE, queue |-> << >>]

Init ==
  /\ ctr = NoCtr
  /\ late = {}
  /\ fresh = FALSE
  /\ lock = Unlocked
  /\ pc = [r \in Requests |-> "idle"]
  /\ req = [r \in Requests |->
              [cached |-> TRUE, image |-> NoImage]]
  /\ running = [r \in Requests |-> FALSE]
  /\ answer = [r \in Requests |-> "none"]
  /\ restarts = 0

At(r, p) == pc[r] = p
GoTo(r, p) == pc' = [pc EXCEPT ![r] = p]

Answer(r, a) ==
  /\ GoTo(r, "done")
  /\ answer' = [answer EXCEPT ![r] = a]

\* Leaving "async with lock", by return or by exception.
Leave(r, a) == Answer(r, a) /\ lock' = [lock EXCEPT !.taken = FALSE]

-----------------------------------------------------------------------------
(***************************************************************************)
(* Arrival and the lock.  asyncio.Lock is first-come first-served: whoever *)
(* arrives while others wait goes to the end of the queue, even in the     *)
(* moment between a release and the first waiter's resumption.             *)
(***************************************************************************)

\* Mutant: the lock is not asked for.
LockAlwaysFree == TRUE

LockFree == ~lock.taken /\ lock.queue = << >>

Arrive(r, q) ==
  /\ At(r, "idle")
  /\ req' = [req EXCEPT ![r] = q]
  /\ UNCHANGED <<docker, fresh, running, restarts>>

AnswerCached(r, q) ==
  /\ Arrive(r, q)
  /\ q.cached /\ fresh
  /\ Answer(r, "cached")
  /\ UNCHANGED lock

Acquire(r, q) ==
  /\ Arrive(r, q)
  /\ ~(q.cached /\ fresh)
  /\ LockFree
  /\ lock' = [lock EXCEPT !.taken = TRUE]
  /\ GoTo(r, "prepare")
  /\ UNCHANGED answer

Queue(r, q) ==
  /\ Arrive(r, q)
  /\ ~(q.cached /\ fresh)
  /\ ~LockFree
  /\ lock' = [lock EXCEPT !.queue = Append(@, r)]
  /\ GoTo(r, "waiting")
  /\ UNCHANGED answer

\* The first waiter resumes, and looks at the cache again.
Wake(r) ==
  /\ At(r, "waiting")
  /\ ~lock.taken
  /\ Head(lock.queue) = r
  /\ IF req[r].cached /\ fresh
     THEN /\ Answer(r, "cached")
          /\ lock' = [lock EXCEPT !.queue = Tail(@)]
     ELSE /\ GoTo(r, "prepare")
          /\ lock' = [taken |-> TRUE, queue |-> Tail(lock.queue)]
          /\ UNCHANGED answer
  /\ UNCHANGED <<docker, fresh, local, restarts>>

-----------------------------------------------------------------------------
(***************************************************************************)
(* The section under the lock.                                             *)
(***************************************************************************)
Stay == UNCHANGED <<docker, fresh, lock, local, answer, restarts>>

\* Mutant: a failing command leaves the lock taken.
FailsLocked(r) ==
  /\ pc[r] \in InSection \ {"mark"}
  /\ Answer(r, "error")
  /\ UNCHANGED <<docker, fresh, lock, local, restarts>>

\* Mutant: a run that fails, on a taken name too, frees the name behind it.
FailsCleaningUp(r) ==
  /\ pc[r] \in InSection \ {"mark"}
  /\ ctr' = IF At(r, "create") THEN NoCtr ELSE ctr
  /\ Leave(r, "error")
  /\ UNCHANGED <<late, fresh, local, restarts>>

\* Any docker command fails without effect.
Fails(r) ==
  /\ pc[r] \in InSection \ {"mark"}
  /\ Leave(r, "error")
  /\ UNCHANGED <<docker, fresh, local, restarts>>

\* _ensure_network_exists, _ensure_volume_exists.
Prepare(r) == At(r, "prepare") /\ GoTo(r, "look") /\ Stay

\* _container_status.
Look(r) ==
  /\ At(r, "look")
  /\ running' = [running EXCEPT ![r] = ctr # NoCtr /\ ctr.state # "stopped"]
  /\ GoTo(r, IF ctr = NoCtr THEN "create" ELSE "connect")
  /\ UNCHANGED <<docker, fresh, lock, req, answer, restarts>>

\* Mutant: a request that names no image gets none.
NamedImage(r) == req[r].image

ImageOf(r) == IF req[r].image = NoImage THEN DefaultImage ELSE req[r].image

Made(image, state) ==
  [gen |-> NoGeneration, image |-> image, state |-> state]

\* "docker run -d" creates and starts, if the name is free.
Create(r) ==
  /\ At(r, "create")
  /\ ctr = NoCtr
  /\ ctr' = Made(ImageOf(r), "starting")
  /\ GoTo(r, "await")
  /\ UNCHANGED <<late, fresh, lock, local, answer, restarts>>

\* It created the container and could not start it.
CreateHalf(r) ==
  /\ At(r, "create")
  /\ ctr = NoCtr
  /\ ctr' = Made(ImageOf(r), "stopped")
  /\ Leave(r, "error")
  /\ UNCHANGED <<late, fresh, local, restarts>>

\* _run_local kills the docker client; the daemon may have the command.
CreateTimesOut(r) ==
  /\ DockerSlow
  /\ At(r, "create")
  /\ late' = late \cup {ImageOf(r)}
  /\ Leave(r, "error")
  /\ UNCHANGED <<ctr, fresh, local, restarts>>

\* _ensure_connected_to_network.
Connect(r) ==
  /\ At(r, "connect")
  /\ ctr # NoCtr
  /\ GoTo(r, "inspect")
  /\ Stay

\* Mutant: the image is never compared.
MatchesAnyImage(r) == TRUE

\* Only a request that names an image minds which one the container has.
Matches(r) == req[r].image \in {NoImage, ctr.image}

\* _inspect_container, _assert_container_matches.
Inspect(r) ==
  /\ At(r, "inspect")
  /\ ctr # NoCtr
  /\ Matches(r)
  /\ GoTo(r, IF running[r] THEN "await" ELSE "start")
  /\ Stay

Mismatch(r) ==
  /\ At(r, "inspect")
  /\ ctr # NoCtr
  /\ ~Matches(r)
  /\ Leave(r, "mismatch")
  /\ UNCHANGED <<docker, fresh, local, restarts>>

Started == [ctr EXCEPT !.state = IF @ = "stopped" THEN "starting" ELSE @]

\* docker start, of a running container too.
Start(r) ==
  /\ At(r, "start")
  /\ ctr # NoCtr
  /\ ctr' = Started
  /\ GoTo(r, "await")
  /\ UNCHANGED <<late, fresh, lock, local, answer, restarts>>

StartTimesOut(r) ==
  /\ DockerSlow
  /\ At(r, "start")
  /\ late' = late \cup {"start"}
  /\ Leave(r, "error")
  /\ UNCHANGED <<ctr, fresh, local, restarts>>

\* _wait_ready polls until a probe answers or the deadline passes.
Probe(r) ==
  /\ At(r, "await")
  /\ ctr # NoCtr
  /\ ctr.state = "ready"
  /\ GoTo(r, "mark")
  /\ Stay

\* Mutant: the runtime is marked ready when the wait ends, however it ends.
NotReadyMarked(r) ==
  /\ At(r, "await")
  /\ fresh' = TRUE
  /\ Leave(r, "not_ready")
  /\ UNCHANGED <<docker, local, restarts>>

NotReady(r) ==
  /\ At(r, "await")
  /\ Leave(r, "not_ready")
  /\ UNCHANGED <<docker, fresh, local, restarts>>

\* _mark_cached, once the probe's client is closed.
Mark(r) ==
  /\ At(r, "mark")
  /\ fresh' = TRUE
  /\ Leave(r, "ready")
  /\ UNCHANGED <<docker, local, restarts>>

-----------------------------------------------------------------------------
(***************************************************************************)
(* Time, Docker, the process and the manager.                              *)
(***************************************************************************)
CacheExpires ==
  /\ fresh
  /\ fresh' = FALSE
  /\ UNCHANGED <<docker, lock, pc, local, answer, restarts>>

Outside == UNCHANGED <<fresh, lock, pc, local, answer, restarts>>

RuntimeBecomesReady ==
  /\ ctr # NoCtr
  /\ ctr.state = "starting"
  /\ ctr' = [ctr EXCEPT !.state = "ready"]
  /\ Outside /\ UNCHANGED late

\* The restart policy of gateway containers starts them again.
RuntimeExits ==
  /\ RuntimesExit
  /\ ctr # NoCtr
  /\ \E s \in {"stopped", "starting"} : ctr' = [ctr EXCEPT !.state = s]
  /\ Outside /\ UNCHANGED late

\* A late "docker run" finds the name free or fails.
LateCreate ==
  \E i \in late \cap Images :
    /\ late' = late \ {i}
    /\ ctr' = IF ctr = NoCtr THEN Made(i, "starting") ELSE ctr
    /\ Outside

LateStart ==
  /\ "start" \in late
  /\ late' = late \ {"start"}
  /\ ctr' = IF ctr = NoCtr THEN ctr ELSE Started
  /\ Outside

\* Requests, lock and cache are gone; a command at Docker is not.
Restart ==
  /\ restarts < MaxRestarts
  /\ restarts' = restarts + 1
  /\ late' = late \cup {ImageOf(r) : r \in {s \in Requests : At(s, "create")}}
                   \cup {c \in {"start"} : \E r \in Requests : At(r, "start")}
  /\ fresh' = FALSE
  /\ lock' = Unlocked
  /\ pc' = [r \in Requests |-> IF At(r, "idle") THEN "idle" ELSE "done"]
  /\ answer' = [r \in Requests |->
       IF pc[r] \in {"idle", "done"} THEN answer[r] ELSE "lost"]
  /\ UNCHANGED <<ctr, local>>

\* The manager replaces the container: stop and remove, create, start.
ManagerStops ==
  /\ ManagerActs
  /\ ctr # NoCtr
  /\ ctr' = [ctr EXCEPT !.state = "stopped"]
  /\ Outside /\ UNCHANGED late

ManagerRemoves ==
  /\ ManagerActs
  /\ ctr # NoCtr
  /\ ctr' = NoCtr
  /\ Outside /\ UNCHANGED late

ManagerCreates ==
  /\ ManagerActs
  /\ ctr = NoCtr
  /\ \E g \in Generations, i \in Images :
       ctr' = [gen |-> g, image |-> i, state |-> "stopped"]
  /\ Outside /\ UNCHANGED late

ManagerStarts ==
  /\ ManagerActs
  /\ ctr # NoCtr
  /\ ctr' = Started
  /\ Outside /\ UNCHANGED late

-----------------------------------------------------------------------------
Command(r) ==
  \/ Prepare(r) \/ Look(r)
  \/ Create(r) \/ CreateHalf(r) \/ CreateTimesOut(r)
  \/ Connect(r) \/ Inspect(r) \/ Mismatch(r)
  \/ Start(r) \/ StartTimesOut(r)
  \/ Probe(r) \/ NotReady(r) \/ Mark(r)
  \/ Fails(r)

Environment ==
  \/ CacheExpires \/ RuntimeBecomesReady \/ RuntimeExits
  \/ LateCreate \/ LateStart \/ Restart
  \/ ManagerStops \/ ManagerRemoves \/ ManagerCreates \/ ManagerStarts

Next ==
  \/ \E r \in Requests, q \in Asks :
       AnswerCached(r, q) \/ Acquire(r, q) \/ Queue(r, q)
  \/ \E r \in Requests : Wake(r) \/ Command(r)
  \/ Environment

Spec == Init /\ [][Next]_vars

\* Every command is cut off by its timeout and every wait by its deadline,
\* and the event loop resumes whoever can go on.
FairSpec == Spec /\ \A r \in Requests : WF_vars(Wake(r)) /\ WF_vars(Command(r))

-----------------------------------------------------------------------------
(***************************************************************************)
(* Properties.                                                             *)
(***************************************************************************)

\* The lock is taken exactly while one request is in the section, whatever
\* fails in it, and every waiter is in the queue once.
LockMatchesSection ==
  /\ lock.taken <=> \E r \in Requests : pc[r] \in InSection
  /\ \A r, s \in Requests : pc[r] \in InSection /\ pc[s] \in InSection => r = s
  /\ \A r \in Requests :
       At(r, "waiting") <=> \E i \in 1 .. Len(lock.queue) : lock.queue[i] = r
  /\ \A i, j \in 1 .. Len(lock.queue) : lock.queue[i] = lock.queue[j] => i = j

\* If only the gateway touches the container and no command is late, a
\* request that found no container still finds the name free when it runs
\* one: of concurrent first requests, one creates and none collides.
CreateFindsNameFree == \A r \in Requests : At(r, "create") => ctr = NoCtr

\* If nobody but the gateway touches the container and it does not exit, a
\* cached answer leads to a runtime that is ready.
FreshMeansReady == fresh => ctr # NoCtr /\ ctr.state = "ready"

\* If nobody but the gateway touches the container, a request that named an
\* image and was told "ready" has that image, although status and image are
\* looked at by two commands and others may ask for another image.
ReadyHasImage ==
  \A r \in Requests :
    answer[r] = "ready" /\ req[r].image # NoImage
      => ctr # NoCtr /\ ctr.image = req[r].image

\* Every request gets an answer, whatever Docker and the manager do to it and
\* to the requests before it in the queue.
AllAnswered ==
  \A r \in Requests : pc[r] \notin {"idle", "done"} ~> At(r, "done")

=============================================================================
