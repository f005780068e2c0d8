---------------------------- MODULE SharedRuntime ----------------------------
(***************************************************************************)
(* The manager and the gateway work on one container: both name it         *)
(* ace-user-<slug> (utils/naming.py:11, runtime_manager.py:84), they are   *)
(* two processes, and nothing keeps them apart but that Docker gives a     *)
(* name to one container at a time.  RuntimeOrchestration and              *)
(* GatewayRuntime take turns here, each with its own state and the one ctr.*)
(***************************************************************************)
EXTENDS Naturals, Sequences

CONSTANTS
  Images, NoImage, NoCtr,
  Envs, NoEnv, MaxGen, MayTimeout, MayCrash, CleanupMayFail,
  Requests, DefaultImage, DockerSlow, RuntimesExit, MaxRestarts

VARIABLES
  rt, gens, op,                                         \* the manager's
  late, fresh, lock, pc, req, running, answer, restarts, \* the gateway's
  ctr

managerVars == <<rt, gens, op>>
gatewayVars == <<late, fresh, lock, pc, req, running, answer, restarts>>
vars == <<managerVars, gatewayVars, ctr>>

Generations == 1 .. MaxGen

ASSUME GenAssumption == MaxGen \in Nat \ {0}
ASSUME EnvAssumption == NoEnv \in Envs
ASSUME ImageAssumption == DefaultImage \in Images /\ NoImage \notin Images
ASSUME FlagAssumption ==
  {MayTimeout, MayCrash, CleanupMayFail, DockerSlow, RuntimesExit}
    \subseteq BOOLEAN

Manager == INSTANCE RuntimeOrchestration
Gateway == INSTANCE GatewayRuntime WITH ManagerActs <- FALSE

ASSUME CtrAssumption == NoCtr \notin Manager!Container

Init == Manager!Init /\ Gateway!Init

Next ==
  \/ Manager!Next /\ UNCHANGED gatewayVars
  \/ Gateway!Next /\ UNCHANGED managerVars

Spec == Init /\ [][Next]_vars

-----------------------------------------------------------------------------
(***************************************************************************)
(* Properties.                                                             *)
(***************************************************************************)

\* Whatever the gateway creates or starts between two Docker calls of an
\* operation: a runtime that is active at rest has its current generation's
\* container, ready, and neither the gateway's nor a candidate; so a cached
\* answer of the gateway is true then, although no operation tells it that
\* the container was replaced.  Deadlines apart (see EndsServing).
ActiveMeansServing == Manager!ActiveMeansServing

\* The manager does nothing to the container that GatewayRuntime does not
\* expect of it, so what holds there with ManagerActs holds here.
AnyManager == INSTANCE GatewayRuntime WITH ManagerActs <- TRUE

GatewayExpectsIt == AnyManager!Spec

\* The container an operation made is the one it commits, or gives up: the
\* gateway never gets its own under the name in between.
CandidateIsOwn == Manager!CandidateIsOwn

=============================================================================
