------------------------- MODULE SharedRuntimeProofs -------------------------
(***************************************************************************)
(* Proofs about the manager and the gateway together.                      *)
(***************************************************************************)
EXTENDS SharedRuntime, TLAPS

M == INSTANCE RuntimeOrchestrationProofs
G == INSTANCE GatewayRuntimeProofs WITH ManagerActs <- TRUE

\* Every request asks for what a caller can ask for.
Asking == req \in [Requests -> Gateway!Asks]

SInv == M!Core /\ Asking

\* The image that a request makes a container of is one there is.
LEMMA ImageThere ==
  ASSUME Asking, NEW r \in Requests
  PROVE  Gateway!ImageOf(r) \in Images
<1>1. req[r].image \in Images \cup {NoImage}
  <2>1. req[r] \in Gateway!Asks
    BY DEF Asking
  <2>2. CASE req[r] \in [cached : {FALSE}, image : Images \cup {NoImage}]
    BY <2>2
  <2>3. CASE req[r] = [cached |-> TRUE, image |-> NoImage]
    BY <2>3
  <2>. QED
    BY <2>1, <2>2, <2>3 DEF Gateway!Asks
<1>. QED
  BY <1>1, ImageAssumption DEF Gateway!ImageOf

\* All that a step of the gateway does to the container.
Touches ==
  \/ ctr' = ctr
  \/ ctr = NoCtr /\ ctr' \in Manager!Container
  \/ /\ ctr # NoCtr
     /\ \E s \in {"stopped", "starting", "ready"} :
          /\ ctr.state = "ready" => s = "ready" \/ RuntimesExit
          /\ ctr' = [ctr EXCEPT !.state = s]

\* What it makes is a container.
LEMMA MadeThere ==
  ASSUME NEW i \in Images, NEW s \in {"stopped", "starting"}
  PROVE  Gateway!Made(i, s) \in Manager!Container
  BY DEF Gateway!Made, Gateway!NoGeneration, Manager!Container,
         Manager!NullGen

\* Starting is a change of state.
LEMMA StartTouches ==
  ASSUME ctr \in Manager!Container, ctr # NoCtr, ctr' = Gateway!Started
  PROVE  Touches
<1>1. ctr.state \in {"stopped", "starting", "ready"}
  BY DEF Manager!Container
<1>2. ctr' = [ctr EXCEPT !.state =
                IF ctr.state = "stopped" THEN "starting" ELSE ctr.state]
  BY DEF Gateway!Started
<1>. QED
  BY <1>1, <1>2 DEF Touches

LEMMA GatewayTouches ==
  ASSUME Asking, ctr \in Manager!Container \cup {NoCtr}, Gateway!Next
  PROVE  Touches
<1>1. ASSUME NEW r \in Requests, NEW q \in Gateway!Asks,
             \/ Gateway!AnswerCached(r, q) \/ Gateway!Acquire(r, q)
             \/ Gateway!Queue(r, q)
      PROVE  Touches
  BY <1>1 DEF Gateway!AnswerCached, Gateway!Acquire, Gateway!Queue,
              Gateway!Arrive, Gateway!docker, Touches
<1>2. ASSUME NEW r \in Requests, Gateway!Wake(r)
      PROVE  Touches
  BY <1>2 DEF Gateway!Wake, Gateway!docker, Touches
<1>3. ASSUME NEW r \in Requests, Gateway!Command(r)
      PROVE  Touches
  <2>1. CASE Gateway!Create(r) \/ Gateway!CreateHalf(r)
    BY <2>1, ImageThere, MadeThere
       DEF Gateway!Create, Gateway!CreateHalf, Touches
  <2>2. CASE Gateway!Start(r)
    BY <2>2, StartTouches DEF Gateway!Start
  <2>3. CASE \/ Gateway!Prepare(r) \/ Gateway!Look(r) \/ Gateway!Connect(r)
             \/ Gateway!Inspect(r) \/ Gateway!Mismatch(r)
             \/ Gateway!Probe(r) \/ Gateway!NotReady(r) \/ Gateway!Mark(r)
             \/ Gateway!Fails(r)
    BY <2>3
       DEF Gateway!Prepare, Gateway!Look, Gateway!Connect, Gateway!Inspect,
           Gateway!Mismatch, Gateway!Probe, Gateway!NotReady, Gateway!Mark,
           Gateway!Fails, Gateway!Stay, Gateway!docker, Touches
  <2>4. CASE Gateway!CreateTimesOut(r) \/ Gateway!StartTimesOut(r)
    BY <2>4
       DEF Gateway!CreateTimesOut, Gateway!StartTimesOut, Touches
  <2>. QED
    BY <1>3, <2>1, <2>2, <2>3, <2>4 DEF Gateway!Command
<1>4. CASE Gateway!CacheExpires \/ Gateway!Restart
  BY <1>4 DEF Gateway!CacheExpires, Gateway!Restart, Gateway!docker, Touches
<1>5. CASE Gateway!RuntimeBecomesReady
  BY <1>5 DEF Gateway!RuntimeBecomesReady, Touches
<1>6. CASE Gateway!RuntimeExits
  BY <1>6 DEF Gateway!RuntimeExits, Touches
<1>7. CASE Gateway!LateCreate
  BY <1>7, MadeThere DEF Gateway!LateCreate, Touches
<1>8. CASE Gateway!LateStart
  BY <1>8, StartTouches DEF Gateway!LateStart, Touches
<1>9. ~(\/ Gateway!ManagerStops \/ Gateway!ManagerRemoves
        \/ Gateway!ManagerCreates \/ Gateway!ManagerStarts)
  BY DEF Gateway!ManagerStops, Gateway!ManagerRemoves,
         Gateway!ManagerCreates, Gateway!ManagerStarts
<1>. QED
  BY <1>1, <1>2, <1>3, <1>4, <1>5, <1>6, <1>7, <1>8, <1>9
     DEF Gateway!Next, Gateway!Environment

\* Only an arrival changes what a request asks for.
LEMMA GatewayAsks ==
  ASSUME Asking, Gateway!Next
  PROVE  Asking'
<1>. USE DEF Asking, Gateway!local
<1>1. ASSUME NEW r \in Requests, NEW q \in Gateway!Asks,
             \/ Gateway!AnswerCached(r, q) \/ Gateway!Acquire(r, q)
             \/ Gateway!Queue(r, q)
      PROVE  Asking'
  BY <1>1 DEF Gateway!AnswerCached, Gateway!Acquire, Gateway!Queue,
              Gateway!Arrive
<1>2. ASSUME NEW r \in Requests, Gateway!Wake(r) \/ Gateway!Command(r)
      PROVE  Asking'
  BY <1>2
     DEF Gateway!Wake, Gateway!Command, Gateway!Prepare, Gateway!Look,
         Gateway!Create, Gateway!CreateHalf, Gateway!CreateTimesOut,
         Gateway!Connect, Gateway!Inspect, Gateway!Mismatch, Gateway!Start,
         Gateway!StartTimesOut, Gateway!Probe, Gateway!NotReady,
         Gateway!Mark, Gateway!Fails, Gateway!Stay
<1>3. CASE Gateway!Environment
  BY <1>3
     DEF Gateway!Environment, Gateway!CacheExpires,
         Gateway!RuntimeBecomesReady, Gateway!RuntimeExits,
         Gateway!LateCreate, Gateway!LateStart, Gateway!Restart,
         Gateway!ManagerStops, Gateway!ManagerRemoves,
         Gateway!ManagerCreates, Gateway!ManagerStarts, Gateway!Outside
<1>. QED
  BY <1>1, <1>2, <1>3 DEF Gateway!Next

-----------------------------------------------------------------------------
(***************************************************************************)
(* RuntimeOrchestrationProofs speaks of the manager's steps by names of    *)
(* its own, which stand for the same.                                      *)
(***************************************************************************)

\* The beginnings of operations.
LEMMA SameBeginnings == Manager!BeginOperation => M!BeginOperation
  BY DEF Manager!BeginOperation, M!BeginOperation, Manager!NewUser, M!NewUser,
         Manager!Deploy, M!Deploy, Manager!BeginDeploy, M!BeginDeploy,
         Manager!NewDisabledUser, M!NewDisabledUser, Manager!SafeRestart,
         M!SafeRestart, Manager!ForceRestart, M!ForceRestart,
         Manager!Rollback, M!Rollback, Manager!Begin, M!Begin, Manager!Idle,
         M!Idle, Manager!At, M!At, Manager!CanProvision, M!CanProvision,
         Manager!CreateGeneration, M!CreateGeneration, Manager!Free, M!Free,
         Manager!Gens, M!Gens, Manager!NullGen, M!NullGen

\* The replacement of the container.
LEMMA SameReplacements == Manager!Replace => M!Replace
  BY DEF Manager!Replace, M!Replace, Manager!FindTarget, M!FindTarget,
         Manager!TargetMissing, M!TargetMissing, Manager!Prepare, M!Prepare,
         Manager!PrepareFails, M!PrepareFails, Manager!RemoveOld,
         M!RemoveOld, Manager!RemoveOldFails, M!RemoveOldFails,
         Manager!Create, M!Create, Manager!Record, M!Record,
         Manager!StartContainer, M!StartContainer, Manager!CandidateFails,
         M!CandidateFails, Manager!Provisioned, M!Provisioned,
         Manager!DeployCutOver, M!DeployCutOver, Manager!DeploySettled,
         M!DeploySettled, Manager!Replaced, M!Replaced, Manager!Begin,
         M!Begin, Manager!Idle, M!Idle, Manager!At, M!At, Manager!GoTo,
         M!GoTo, Manager!Finish, M!Finish, Manager!TargetImage,
         M!TargetImage, Manager!TargetEnv, M!TargetEnv,
         Manager!CreateGeneration, M!CreateGeneration, Manager!Free, M!Free,
         Manager!Gens, M!Gens, Manager!NullGen, M!NullGen,
         Manager!CurrentMatches, M!CurrentMatches, Manager!Gone, M!Gone,
         Manager!Undisturbed, M!Undisturbed, Manager!Stopped, M!Stopped,
         Manager!Started, M!Started, Manager!Serving, M!Serving,
         Manager!CutOver, M!CutOver, Manager!DeployKinds, M!DeployKinds

\* And its repair.
LEMMA SameRepairs == Manager!Repair => M!Repair
  BY DEF Manager!Repair, M!Repair, Manager!CleanUp, M!CleanUp,
         Manager!CleanUpFails, M!CleanUpFails, Manager!FailurePending,
         M!FailurePending, Manager!MarkFailed,
         M!MarkFailed, Manager!BeginRestore, M!BeginRestore,
         Manager!RestoreCreate, M!RestoreCreate, Manager!RestoreRecord,
         M!RestoreRecord, Manager!RestoreStart, M!RestoreStart,
         Manager!Restored, M!Restored, Manager!RestoreFails, M!RestoreFails,
         Manager!RemoveRestored, M!RemoveRestored, Manager!Unrestored,
         M!Unrestored, Manager!Timeout, M!Timeout, Manager!RemoveTimedOut,
         M!RemoveTimedOut, Manager!ProvisionTimedOut, M!ProvisionTimedOut,
         Manager!DeployTimedOut, M!DeployTimedOut, Manager!At, M!At,
         Manager!GoTo, M!GoTo, Manager!Finish, M!Finish, Manager!Idle,
         M!Idle, Manager!Gone, M!Gone, Manager!Undisturbed, M!Undisturbed,
         Manager!Stopped, M!Stopped, Manager!MustRestore, M!MustRestore,
         Manager!Started, M!Started, Manager!Serving, M!Serving,
         Manager!DeployKinds, M!DeployKinds

\* So for every step.
LEMMA SameSteps == Manager!Next => M!Next
  BY SameBeginnings, SameReplacements, SameRepairs
     DEF Manager!Next, M!Next, Manager!Crash, M!Crash,
         Manager!RuntimeBecomesReady, M!RuntimeBecomesReady, Manager!At,
         M!At, Manager!Finish, M!Finish, Manager!Idle, M!Idle

\* And for what is said of the container, before and after a step.
LEMMA SameContainers ==
  /\ M!Container = Manager!Container
  /\ M!CandidateIsOwn <=> Manager!CandidateIsOwn
  /\ M!ActiveMeansServing <=> Manager!ActiveMeansServing
  BY DEF M!Container, Manager!Container, M!Gens, Manager!Gens, M!NullGen,
         Manager!NullGen, M!CandidateIsOwn, Manager!CandidateIsOwn,
         M!ActiveMeansServing, Manager!ActiveMeansServing, M!AtRest,
         Manager!AtRest, M!At, Manager!At, M!CurrentServes,
         Manager!CurrentServes

-----------------------------------------------------------------------------
(***************************************************************************)
(* The invariant.                                                          *)
(***************************************************************************)

\* What RuntimeOrchestration and its proofs assume is assumed here.
LEMMA Assumed ==
  /\ MaxGen \in Nat \ {0} /\ NoEnv \in Envs /\ NoImage \notin Images
  /\ {MayTimeout, MayCrash, CleanupMayFail} \subseteq BOOLEAN
  /\ NoCtr \notin M!Container
  BY GenAssumption, EnvAssumption, ImageAssumption, FlagAssumption,
     CtrAssumption, SameContainers

\* A step of the gateway is that of a guest.
LEMMA GatewayIsGuest ==
  ASSUME SInv, Gateway!Next, UNCHANGED managerVars
  PROVE  M!Guest(RuntimesExit)
<1>1. ctr \in Manager!Container \cup {NoCtr}
  BY SameContainers DEF SInv, M!Core, M!TypeOK
<1>2. Touches
  BY <1>1, GatewayTouches DEF SInv
<1>. QED
  BY <1>2, SameContainers DEF Touches, M!Guest, managerVars

\* Either process keeps the invariant.
LEMMA SharedStep ==
  ASSUME SInv, [Next]_vars
  PROVE  SInv'
<1>1. CASE Manager!Next /\ UNCHANGED gatewayVars
  <2>1. M!Next
    BY <1>1, SameSteps
  <2>2. M!TypeOK'
    BY <2>1, M!TypeStep, Assumed DEF SInv
  <2>3. M!Core'
    BY <2>1, <2>2, M!RowsStep, M!DoingStep, M!OwnStep, Assumed
       DEF SInv, M!Core
  <2>. QED
    BY <1>1, <2>3 DEF SInv, Asking, gatewayVars
<1>2. CASE Gateway!Next /\ UNCHANGED managerVars
  BY <1>2, GatewayIsGuest, GatewayAsks, M!GuestStep, Assumed DEF SInv
<1>3. CASE UNCHANGED vars
  <2>1. M!Guest(FALSE)
    BY <1>3 DEF vars, managerVars, M!Guest
  <2>. QED
    BY <1>3, <2>1, M!GuestStep, Assumed DEF SInv, Asking, vars, gatewayVars
<1>. QED
  BY <1>1, <1>2, <1>3 DEF Next

\* It holds at the start.
LEMMA SharedStart == Init => SInv
<1>. SUFFICES ASSUME Init PROVE SInv
  OBVIOUS
<1>1. M!Init
  BY DEF Init, Manager!Init, M!Init, Manager!NullGen, M!NullGen,
         Manager!Gens, M!Gens, Manager!Idle, M!Idle
<1>2. M!Core
  BY <1>1, M!Start, Assumed DEF M!IInv
<1>3. Asking
  BY DEF Init, Gateway!Init, Asking, Gateway!Asks
<1>. QED
  BY <1>2, <1>3 DEF SInv

\* What the manager's part of the invariant says of both: it holds always.
LEMMA SharedAlways == Spec => []SInv
  BY SharedStart, SharedStep, PTL DEF Spec

\* While no deadline passes and no runtime exits, what is active at rest
\* serves, and what settles is ready.
Serves == M!Patient /\ M!SettleReady /\ M!ActiveMeansServing

\* Either process keeps that.
LEMMA ServesStep ==
  ASSUME SInv, SInv', Serves, ~MayTimeout, ~RuntimesExit, [Next]_vars
  PROVE  Serves'
<1>1. CASE Manager!Next /\ UNCHANGED gatewayVars
  <2>1. M!Next
    BY <1>1, SameSteps
  <2>2. M!TypeOK /\ M!TypeOK'
    BY DEF SInv, M!Core
  <2>3. M!Patient'
    BY <2>1, <2>2, M!PatientStep, Assumed DEF Serves
  <2>4. M!SettleReady' /\ M!ActiveMeansServing'
    BY <2>1, <2>2, M!SettleStep, M!ServingStep, Assumed DEF SInv, Serves
  <2>. QED
    BY <2>3, <2>4 DEF Serves
<1>2. ASSUME UNCHANGED managerVars, M!Guest(FALSE)
      PROVE  Serves'
  <2>1. M!Patient'
    BY <1>2 DEF Serves, M!Patient, managerVars
  <2>. QED
    BY <1>2, <2>1, M!GuestServes, Assumed DEF SInv, Serves
<1>3. CASE Gateway!Next /\ UNCHANGED managerVars
  <2>1. RuntimesExit = FALSE
    BY FlagAssumption
  <2>2. M!Guest(FALSE)
    BY <1>3, <2>1, GatewayIsGuest
  <2>. QED
    BY <1>2, <1>3, <2>2
<1>4. CASE UNCHANGED vars
  <2>1. M!Guest(FALSE)
    BY <1>4 DEF vars, managerVars, M!Guest
  <2>. QED
    BY <1>2, <1>4, <2>1 DEF vars
<1>. QED
  BY <1>1, <1>3, <1>4 DEF Next

\* And it holds at the start.
LEMMA ServesStart == Init => Serves
  BY DEF Init, Manager!Init, Manager!Idle, Serves, M!Patient, M!SettleReady,
         M!ActiveMeansServing, M!At

-----------------------------------------------------------------------------
(***************************************************************************)
(* What GatewayRuntime expects of a manager.                               *)
(***************************************************************************)

\* A gateway that expects a manager does what one does that expects none.
LEMMA GatewayAsEver == Gateway!Next => AnyManager!Next
<1>1. ASSUME NEW r \in Requests, NEW q \in Gateway!Asks,
             \/ Gateway!AnswerCached(r, q) \/ Gateway!Acquire(r, q)
             \/ Gateway!Queue(r, q)
      PROVE  /\ q \in AnyManager!Asks
             /\ \/ AnyManager!AnswerCached(r, q) \/ AnyManager!Acquire(r, q)
                \/ AnyManager!Queue(r, q)
  BY <1>1
     DEF Gateway!Asks, AnyManager!Asks, Gateway!AnswerCached,
         AnyManager!AnswerCached, Gateway!Acquire, AnyManager!Acquire,
         Gateway!Queue, AnyManager!Queue, Gateway!Arrive, AnyManager!Arrive,
         Gateway!LockFree, AnyManager!LockFree, Gateway!Answer,
         AnyManager!Answer, Gateway!At, AnyManager!At, Gateway!GoTo,
         AnyManager!GoTo, Gateway!docker, AnyManager!docker
<1>2. ASSUME NEW r \in Requests, Gateway!Wake(r)
      PROVE  AnyManager!Wake(r)
  BY <1>2
     DEF Gateway!Wake, AnyManager!Wake, Gateway!Answer, AnyManager!Answer,
         Gateway!At, AnyManager!At, Gateway!GoTo, AnyManager!GoTo,
         Gateway!docker, AnyManager!docker, Gateway!local, AnyManager!local
<1>3. ASSUME NEW r \in Requests, Gateway!Command(r)
      PROVE  AnyManager!Command(r)
  BY <1>3
     DEF Gateway!Command, AnyManager!Command, Gateway!Prepare,
         AnyManager!Prepare, Gateway!Look, AnyManager!Look, Gateway!Create,
         AnyManager!Create, Gateway!CreateHalf, AnyManager!CreateHalf,
         Gateway!CreateTimesOut, AnyManager!CreateTimesOut, Gateway!Connect,
         AnyManager!Connect, Gateway!Inspect, AnyManager!Inspect,
         Gateway!Mismatch, AnyManager!Mismatch, Gateway!Start,
         AnyManager!Start, Gateway!StartTimesOut, AnyManager!StartTimesOut,
         Gateway!Probe, AnyManager!Probe, Gateway!NotReady,
         AnyManager!NotReady, Gateway!Mark, AnyManager!Mark, Gateway!Fails,
         AnyManager!Fails, Gateway!InSection, AnyManager!InSection,
         Gateway!Stay, AnyManager!Stay, Gateway!Leave, AnyManager!Leave,
         Gateway!Answer, AnyManager!Answer, Gateway!At, AnyManager!At,
         Gateway!GoTo, AnyManager!GoTo, Gateway!docker, AnyManager!docker,
         Gateway!local, AnyManager!local, Gateway!Made, AnyManager!Made,
         Gateway!NoGeneration, AnyManager!NoGeneration, Gateway!ImageOf,
         AnyManager!ImageOf, Gateway!Started, AnyManager!Started,
         Gateway!Matches, AnyManager!Matches
<1>4. CASE Gateway!Environment
  BY <1>4
     DEF Gateway!Environment, AnyManager!Environment, Gateway!CacheExpires,
         AnyManager!CacheExpires, Gateway!RuntimeBecomesReady,
         AnyManager!RuntimeBecomesReady, Gateway!RuntimeExits,
         AnyManager!RuntimeExits, Gateway!LateCreate, AnyManager!LateCreate,
         Gateway!LateStart, AnyManager!LateStart, Gateway!Restart,
         AnyManager!Restart, Gateway!ManagerStops, Gateway!ManagerRemoves,
         Gateway!ManagerCreates, Gateway!ManagerStarts, Gateway!Outside,
         AnyManager!Outside, Gateway!Unlocked, AnyManager!Unlocked,
         Gateway!At, AnyManager!At, Gateway!docker, AnyManager!docker,
         Gateway!local, AnyManager!local, Gateway!Made, AnyManager!Made,
         Gateway!NoGeneration, AnyManager!NoGeneration, Gateway!ImageOf,
         AnyManager!ImageOf, Gateway!Started, AnyManager!Started,
         AnyManager!Next
<1>. QED
  BY <1>1, <1>2, <1>3, <1>4 DEF Gateway!Next, AnyManager!Next

\* And every step of the manager is one that it expects.
LEMMA ManagerAsExpected ==
  ASSUME SInv, Manager!Next, UNCHANGED gatewayVars
  PROVE  AnyManager!Next \/ UNCHANGED AnyManager!vars
<1>. USE DEF gatewayVars, AnyManager!Next, AnyManager!Environment,
             AnyManager!Outside, AnyManager!local
<1>1. CASE ctr' = ctr
  BY <1>1 DEF AnyManager!vars, AnyManager!docker
<1>2. CASE ctr # NoCtr /\ ctr' = NoCtr
  BY <1>2 DEF AnyManager!ManagerRemoves
<1>3. CASE ctr # NoCtr /\ ctr' = [ctr EXCEPT !.state = "stopped"]
  BY <1>3 DEF AnyManager!ManagerStops
<1>4. CASE /\ ctr = NoCtr
           /\ \E g \in M!Gens, i \in Images :
                ctr' = [gen |-> g, image |-> i, state |-> "stopped"]
  BY <1>4 DEF AnyManager!ManagerCreates, M!Gens, Generations
<1>5. CASE ctr # NoCtr /\ ctr' = M!Started
  BY <1>5 DEF AnyManager!ManagerStarts, M!Started, AnyManager!Started
<1>6. CASE M!RuntimeBecomesReady
  BY <1>6 DEF M!RuntimeBecomesReady, AnyManager!RuntimeBecomesReady
<1>. QED
  BY <1>1, <1>2, <1>3, <1>4, <1>5, <1>6, SameSteps, M!ContainerStep, Assumed
     DEF SInv

\* GatewayRuntimeProofs, too, has names of its own for the same steps.
LEMMA SameGateway ==
  /\ AnyManager!Init => G!Init
  /\ AnyManager!Next => G!Next
  /\ UNCHANGED AnyManager!vars => UNCHANGED G!vars
<1>1. AnyManager!Init => G!Init
  BY DEF AnyManager!Init, G!Init, AnyManager!Unlocked, G!Unlocked
<1>2. ASSUME NEW r \in Requests, NEW q \in AnyManager!Asks,
             \/ AnyManager!AnswerCached(r, q) \/ AnyManager!Acquire(r, q)
             \/ AnyManager!Queue(r, q)
      PROVE  /\ q \in G!Asks
             /\ G!AnswerCached(r, q) \/ G!Acquire(r, q) \/ G!Queue(r, q)
  BY <1>2
     DEF AnyManager!Asks, G!Asks, AnyManager!AnswerCached, G!AnswerCached,
         AnyManager!Acquire, G!Acquire, AnyManager!Queue, G!Queue,
         AnyManager!Arrive, G!Arrive, AnyManager!LockFree, G!LockFree,
         AnyManager!Answer, G!Answer, AnyManager!At, G!At, AnyManager!GoTo,
         G!GoTo, AnyManager!docker, G!docker
<1>3. ASSUME NEW r \in Requests, AnyManager!Wake(r)
      PROVE  G!Wake(r)
  BY <1>3
     DEF AnyManager!Wake, G!Wake, AnyManager!Answer, G!Answer, AnyManager!At,
         G!At, AnyManager!GoTo, G!GoTo, AnyManager!docker, G!docker,
         AnyManager!local, G!local
<1>4. ASSUME NEW r \in Requests, AnyManager!Command(r)
      PROVE  G!Command(r)
  BY <1>4
     DEF AnyManager!Command, G!Command, AnyManager!Prepare, G!Prepare,
         AnyManager!Look, G!Look, AnyManager!Create, G!Create,
         AnyManager!CreateHalf, G!CreateHalf, AnyManager!CreateTimesOut,
         G!CreateTimesOut, AnyManager!Connect, G!Connect, AnyManager!Inspect,
         G!Inspect, AnyManager!Mismatch, G!Mismatch, AnyManager!Start,
         G!Start, AnyManager!StartTimesOut, G!StartTimesOut, AnyManager!Probe,
         G!Probe, AnyManager!NotReady, G!NotReady, AnyManager!Mark, G!Mark,
         AnyManager!Fails, G!Fails, AnyManager!InSection, G!InSection,
         AnyManager!Stay, G!Stay, AnyManager!Leave, G!Leave,
         AnyManager!Answer, G!Answer, AnyManager!At, G!At, AnyManager!GoTo,
         G!GoTo, AnyManager!docker, G!docker, AnyManager!local, G!local,
         AnyManager!Made, G!Made, AnyManager!NoGeneration, G!NoGeneration,
         AnyManager!ImageOf, G!ImageOf, AnyManager!Started, G!Started,
         AnyManager!Matches, G!Matches
<1>5. AnyManager!Environment => G!Environment
  BY DEF AnyManager!Environment, G!Environment, AnyManager!CacheExpires,
      G!CacheExpires, AnyManager!RuntimeBecomesReady, G!RuntimeBecomesReady,
      AnyManager!RuntimeExits, G!RuntimeExits, AnyManager!LateCreate,
      G!LateCreate, AnyManager!LateStart, G!LateStart, AnyManager!Restart,
      G!Restart, AnyManager!ManagerStops, G!ManagerStops,
      AnyManager!ManagerRemoves, G!ManagerRemoves, AnyManager!ManagerCreates,
      G!ManagerCreates, AnyManager!ManagerStarts, G!ManagerStarts,
      AnyManager!Outside, G!Outside, AnyManager!Unlocked, G!Unlocked,
      AnyManager!At, G!At, AnyManager!docker, G!docker, AnyManager!local,
      G!local, AnyManager!Made, G!Made, AnyManager!NoGeneration,
      G!NoGeneration, AnyManager!ImageOf, G!ImageOf, AnyManager!Started,
      G!Started
<1>6. UNCHANGED AnyManager!vars => UNCHANGED G!vars
  BY DEF AnyManager!vars, G!vars, AnyManager!docker, G!docker,
         AnyManager!local, G!local
<1>. QED
  BY <1>1, <1>2, <1>3, <1>4, <1>5, <1>6 DEF AnyManager!Next, G!Next

-----------------------------------------------------------------------------
(***************************************************************************)
(* Theorems.                                                               *)
(***************************************************************************)

\* The container that an operation made is the one it commits or gives up,
\* whatever the gateway creates, starts or has still at Docker in between.
THEOREM CandidateKept == Spec => []CandidateIsOwn
<1>1. SInv => CandidateIsOwn
  BY SameContainers DEF SInv, M!Core, CandidateIsOwn
<1>. QED
  BY <1>1, SharedAlways, PTL

\* If no deadline passes and no runtime exits by itself, a runtime that is
\* active at rest has its current generation's container, ready, whatever
\* the gateway does meanwhile and wherever the manager died.
THEOREM ActiveServes ==
  ASSUME ~MayTimeout, ~RuntimesExit
  PROVE  Spec => []ActiveMeansServing
<1>1. SInv /\ Serves /\ [Next]_vars /\ SInv' => Serves'
  BY ServesStep
<1>2. Serves => ActiveMeansServing
  BY SameContainers DEF Serves, ActiveMeansServing
<1>. QED
  BY <1>1, <1>2, ServesStart, SharedAlways, PTL DEF Spec

\* The manager does nothing to the container that GatewayRuntime, with
\* ManagerActs, does not expect: what is proved of that gateway (its lock,
\* see GatewayRuntimeProofs) holds of this one.
THEOREM Expected == Spec => GatewayExpectsIt
<1>1. Init => AnyManager!Init
  BY DEF Init, Gateway!Init, AnyManager!Init, Gateway!Unlocked,
         AnyManager!Unlocked
<1>2. SInv /\ [Next]_vars => [AnyManager!Next]_(AnyManager!vars)
  <2>1. UNCHANGED vars => UNCHANGED AnyManager!vars
    BY DEF vars, gatewayVars, AnyManager!vars, AnyManager!docker,
           AnyManager!local
  <2>. QED
    BY <2>1, GatewayAsEver, ManagerAsExpected DEF Next
<1>. QED
  BY <1>1, <1>2, SharedAlways, PTL DEF Spec, GatewayExpectsIt, AnyManager!Spec

\* So the gateway's lock is taken exactly while one request is in the section,
\* and every waiter is queued once, whatever the manager does meanwhile.
THEOREM LockKept == Spec => []Gateway!LockMatchesSection
<1>1. AnyManager!Spec => G!Spec
  BY SameGateway, PTL DEF AnyManager!Spec, G!Spec
<1>2. /\ DefaultImage \in Images /\ NoImage \notin Images
      /\ Generations \subseteq Nat \ {0}
      /\ {TRUE, DockerSlow, RuntimesExit} \subseteq BOOLEAN
      /\ NoCtr \notin G!Container
  <2>1. G!Container = Manager!Container
    BY DEF G!Container, Manager!Container, G!NoGeneration, Manager!NullGen,
           Generations, Manager!Gens
  <2>. QED
    BY <2>1, GenAssumption, ImageAssumption, FlagAssumption, CtrAssumption
       DEF Generations
<1>3. G!Spec => []G!LockMatchesSection
  BY <1>2, G!Exclusion
<1>4. G!LockMatchesSection => Gateway!LockMatchesSection
  BY DEF G!LockMatchesSection, Gateway!LockMatchesSection, G!InSection,
         Gateway!InSection, G!At, Gateway!At
<1>. QED
  BY <1>1, <1>3, <1>4, Expected, PTL DEF GatewayExpectsIt

\* The manager's tables keep the promise of RuntimePromise, although what the
\* gateway does decides which candidates fail and which are restored.
THEOREM PromiseKept == Spec => Manager!ImplementsPromise
<1>. USE DEF Manager!Promise!Nothing, M!Promise!Nothing, Manager!Gens,
             M!Gens, Manager!NullGen, M!NullGen
<1>1. Init => Manager!Promise!Init
  BY DEF Init, Manager!Init, Manager!Promise!Init
<1>2. M!Promise!Next => Manager!Promise!Next
  BY DEF M!Promise!Next, Manager!Promise!Next, M!Promise!Provide,
         Manager!Promise!Provide, M!Promise!Switch, Manager!Promise!Switch,
         M!Promise!Withdraw, Manager!Promise!Withdraw, M!Promise!Reinstate,
         Manager!Promise!Reinstate
<1>3. UNCHANGED M!Promise!vars => UNCHANGED Manager!Promise!vars
  BY DEF M!Promise!vars, Manager!Promise!vars
<1>4. ASSUME SInv, SInv', Manager!Next
      PROVE  Manager!Promise!Next \/ UNCHANGED Manager!Promise!vars
  <2>1. M!PromiseStep
    BY <1>4, SameSteps, M!StepRefines, Assumed DEF SInv, M!Core
  <2>. QED
    BY <1>2, <1>3, <2>1 DEF M!PromiseStep
<1>5. UNCHANGED managerVars => UNCHANGED Manager!Promise!vars
  BY DEF managerVars, Manager!Promise!vars
<1>6. SInv /\ SInv' /\ [Next]_vars
        => [Manager!Promise!Next]_(Manager!Promise!vars)
  BY <1>4, <1>5 DEF Next, vars
<1>. QED
  BY <1>1, <1>6, SharedAlways, PTL
     DEF Spec, Manager!ImplementsPromise, Manager!Promise!Spec

\* In company, too, only the current generation's row is promoted, and the
\* runtime row has the images of the generations it names.
THEOREM TablesAgree ==
  Spec => [](Manager!PromotedIsCurrent /\ Manager!RowsAgree)
<1>1. SInv => Manager!PromotedIsCurrent /\ Manager!RowsAgree
  BY DEF SInv, M!Core, M!Rows, M!PromotedIsCurrent, M!RowsAgree, M!Gens,
         M!NullGen, Manager!PromotedIsCurrent, Manager!RowsAgree,
         Manager!Gens, Manager!NullGen
<1>. QED
  BY <1>1, SharedAlways, PTL

\* And an operation that ends other than by death or a Docker failure in an
\* except block leaves no status of the way.
THEOREM StatusStillSettles == Spec => Manager!StatusSettles
<1>1. ASSUME SInv, SInv', Manager!Next, ~Manager!AtRest, Manager!AtRest',
             ~(Manager!Crash \/ Manager!CleanUpFails)
      PROVE  rt'.status \notin {"provisioning", "deploying", "restarting"}
  <2>1. M!Next /\ M!Core /\ M!TypeOK'
    BY <1>1, SameSteps DEF SInv, M!Core
  <2>2. ~M!AtRest /\ M!AtRest'
    BY <1>1 DEF M!AtRest, M!At, Manager!AtRest, Manager!At
  <2>3. ~(M!Crash \/ M!CleanUpFails)
    BY <1>1
       DEF M!Crash, Manager!Crash, M!CleanUpFails, Manager!CleanUpFails,
           M!FailurePending, Manager!FailurePending, M!At, Manager!At,
           M!Finish, Manager!Finish, M!Idle, Manager!Idle, M!Undisturbed,
           Manager!Undisturbed, M!Stopped, Manager!Stopped
  <2>. QED
    BY <2>1, <2>2, <2>3, M!StatusSettlesStep, Assumed
<1>2. UNCHANGED op => Manager!AtRest' = Manager!AtRest
  BY DEF Manager!AtRest, Manager!At
<1>3. SInv /\ SInv' /\ [Next]_vars =>
        [~Manager!AtRest /\ Manager!AtRest'
            /\ ~(Manager!Crash \/ Manager!CleanUpFails)
          => rt'.status \notin
               {"provisioning", "deploying", "restarting"}]_(Manager!vars)
  <2>1. UNCHANGED managerVars \/ UNCHANGED vars => UNCHANGED op
    BY DEF vars, managerVars
  <2>. QED
    BY <1>1, <1>2, <2>1 DEF Next
<1>. QED
  BY <1>3, SharedAlways, PTL DEF Spec, Manager!StatusSettles

=============================================================================
