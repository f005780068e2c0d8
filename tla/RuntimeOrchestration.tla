------------------------ MODULE RuntimeOrchestration ------------------------
(***************************************************************************)
(* What operations do to one user's runtime: the user_runtimes row, its    *)
(* runtime_generations rows and the container that bears the user's name   *)
(* (ace_net_manager/services/{provision,deploy,restart,rollback}_service.py*)
(* over runtime_service.py and docker_service.py).                         *)
(*                                                                         *)
(* naming.container_name ignores the generation, so the current container, *)
(* a candidate and a restored container all have one name, and at most one *)
(* of them exists.  OperationRunner shows that at most one operation of a  *)
(* user is executed at a time, so there is one operation here.             *)
(*                                                                         *)
(* A step ends at each database commit and each change of the container,   *)
(* the points at which the process can die and leave something different   *)
(* behind.  A deadline can strike only where the code awaits, at the wait  *)
(* for readiness.  An operation that is refused before its first commit is *)
(* rolled back as a whole and is a stuttering step.                        *)
(***************************************************************************)
EXTENDS Naturals

CONSTANTS
  Images,          \* image tags
  Envs,            \* environment overrides a request can carry
  NoEnv,           \* no overrides, {} in the code
  NoImage, NoCtr,  \* a null image tag, no container under the name
  MaxGen,          \* bound: generations numbered 1 .. MaxGen
  MayTimeout,      \* can an operation pass its deadline while it waits?
  MayCrash,        \* can the manager die inside an operation?
  CleanupMayFail   \* can Docker refuse to stop, rename or remove?

ASSUME GenAssumption == MaxGen \in Nat \ {0}
ASSUME EnvAssumption == NoEnv \in Envs
ASSUME ImageAssumption == NoImage \notin Images
ASSUME FaultAssumption == {MayTimeout, MayCrash, CleanupMayFail} \subseteq BOOLEAN

VARIABLES
  rt,    \* the user_runtimes row
  gens,  \* the runtime_generations rows, by generation
  ctr,   \* the container named ace-user-<slug>, if there is one
  op     \* the operation being executed and where it is

vars == <<rt, gens, ctr, op>>

Gens == 1 .. MaxGen
NullGen == 0

RuntimeStatus == {"absent", "provisioning", "active", "deploying",
                  "restarting", "rollback_pending", "failed", "disabled"}
\* role is determined by the lifecycle state: failed and removed rows have
\* the roles failed and retired, all others are active.
Lifecycle == {"none", "creating", "starting", "promoted", "failed", "removed"}
\* A container that the gateway made bears no generation: NullGen.
Container == [gen : Gens \cup {NullGen}, image : Images,
              state : {"stopped", "starting", "ready"}]

ASSUME CtrAssumption == NoCtr \notin Container

\* "restart" is a safe restart, "force" a forced one.
DeployKinds == {"deploy", "restart"}
OpKinds == DeployKinds \cup {"new_user", "force", "rollback"}
Steps == {"idle", "target", "prepare", "remove", "create", "record", "start",
          "await", "settle", "failed", "recover", "restore", "restore_record",
          "restore_start", "restore_await", "restore_failed", "unrestored",
          "timed_out", "timeout_recover"}

TypeOK ==
  /\ rt \in [status : RuntimeStatus, cur : Gens \cup {NullGen},
             image : Images \cup {NoImage}, prevGen : Gens \cup {NullGen},
             prevImage : Images \cup {NoImage},
             health : {"none", "healthy", "failed"}]
  /\ gens \in [Gens -> [life : Lifecycle, image : Images \cup {NoImage},
                        env : Envs]]
  /\ ctr \in Container \cup {NoCtr}
  /\ op \in [pc : Steps, kind : OpKinds, gen : Gens,
             image : Images \cup {NoImage}, env : Envs, removed : BOOLEAN,
             cleaning : BOOLEAN]

Idle == [pc |-> "idle", kind |-> "deploy", gen |-> 1, image |-> NoImage,
         env |-> NoEnv, removed |-> FALSE, cleaning |-> FALSE]

Init ==
  /\ rt = [status |-> "absent", cur |-> NullGen, image |-> NoImage,
           prevGen |-> NullGen, prevImage |-> NoImage, health |-> "none"]
  /\ gens = [g \in Gens |-> [life |-> "none", image |-> NoImage,
                             env |-> NoEnv]]
  /\ ctr = NoCtr
  /\ op = Idle

At(pc) == op.pc = pc
GoTo(pc) == op' = [op EXCEPT !.pc = pc]
Finish == op' = Idle

-----------------------------------------------------------------------------
(***************************************************************************)
(* Beginning an operation.                                                 *)
(***************************************************************************)

\* The insert of create_generation succeeds: unique (user_id, generation).
Free(g) == g \in Gens /\ gens[g].life = "none"

Begin(k, g, image, env) ==
  op' = [Idle EXCEPT !.pc = "prepare", !.kind = k, !.gen = g,
                     !.image = image, !.env = env]

\* Mutant: create_generation overwrites the row of a used number.
UpsertGeneration(g, image, env) ==
  /\ g \in Gens
  /\ gens' = [gens EXCEPT ![g] = [life |-> "creating", image |-> image,
                                  env |-> env]]

\* create_generation with lifecycle_state "creating".
CreateGeneration(g, image, env) ==
  /\ Free(g)
  /\ gens' = [gens EXCEPT ![g] = [life |-> "creating", image |-> image,
                                  env |-> env]]

CanProvision ==
  rt.status \notin {"active", "deploying", "restarting", "rollback_pending"}

\* provision_user: an upsert that keeps every other column of the row.
NewUser(image, env) ==
  /\ At("idle")
  /\ CanProvision
  /\ rt' = [rt EXCEPT !.status = "provisioning"]
  /\ CreateGeneration(1, image, env)
  /\ Begin("new_user", 1, image, env)
  /\ UNCHANGED ctr

\* provision_user with start_immediately false.
NewDisabledUser ==
  /\ At("idle")
  /\ CanProvision
  /\ rt' = [rt EXCEPT !.status = "disabled"]
  /\ UNCHANGED <<gens, ctr, op>>

\* deploy_user up to its first commit.
BeginDeploy(k, image, env) ==
  /\ At("idle")
  /\ rt.status = "active"
  /\ rt.cur >= 1
  /\ rt' = [rt EXCEPT !.status = "deploying"]
  /\ CreateGeneration(rt.cur + 1, image, env)
  /\ Begin(k, rt.cur + 1, image, env)
  /\ UNCHANGED ctr

Deploy(image, env) == BeginDeploy("deploy", image, env)

\* restart_user "safe": a deploy of the active image and overrides.
SafeRestart ==
  /\ rt.image # NoImage
  /\ rt.cur # NullGen
  /\ BeginDeploy("restart", rt.image, gens[rt.cur].env)

\* restart_user "force": any status will do.
ForceRestart ==
  /\ At("idle")
  /\ rt.image # NoImage
  /\ rt' = [rt EXCEPT !.status = "restarting"]
  /\ CreateGeneration(rt.cur + 1, rt.image, gens[rt.cur].env)
  /\ Begin("force", rt.cur + 1, rt.image, gens[rt.cur].env)
  /\ UNCHANGED ctr

\* rollback_user commits its status before it looks for a target.
Rollback ==
  /\ At("idle")
  /\ rt.status # "absent"
  /\ rt' = [rt EXCEPT !.status = "rollback_pending"]
  /\ op' = [Idle EXCEPT !.pc = "target", !.kind = "rollback"]
  /\ UNCHANGED <<gens, ctr>>

TargetImage ==
  IF rt.prevImage = NoImage /\ rt.prevGen # NullGen
  THEN gens[rt.prevGen].image
  ELSE rt.prevImage

TargetEnv == IF rt.prevGen = NullGen THEN NoEnv ELSE gens[rt.prevGen].env

FindTarget ==
  /\ At("target")
  /\ TargetImage # NoImage
  /\ CreateGeneration(rt.cur + 1, TargetImage, TargetEnv)
  /\ Begin("rollback", rt.cur + 1, TargetImage, TargetEnv)
  /\ UNCHANGED <<rt, ctr>>

\* Nothing to roll back to, or the generation number is taken.
TargetMissing ==
  /\ At("target")
  /\ TargetImage = NoImage \/ ~Free(rt.cur + 1)
  /\ Finish
  /\ UNCHANGED <<rt, gens, ctr>>

-----------------------------------------------------------------------------
(***************************************************************************)
(* Replacing the container.                                                *)
(***************************************************************************)

\* A Docker call that raises may have stopped the container first.
Undisturbed == ctr' = ctr
Stopped == ctr # NoCtr /\ ctr' = [ctr EXCEPT !.state = "stopped"]
Gone == ctr' = NoCtr

\* assert_container_matches: labels (generation included) and image.
CurrentMatches ==
  \/ op.kind = "new_user"
  \/ ctr # NoCtr /\ ctr.gen = rt.cur /\ ctr.image = rt.image

\* ensure_network, ensure_volume, assert_container_matches, pull_image.
Prepare ==
  /\ At("prepare")
  /\ CurrentMatches
  /\ GoTo(IF op.kind = "new_user" THEN "create" ELSE "remove")
  /\ UNCHANGED <<rt, gens, ctr>>

PrepareFails ==
  /\ At("prepare")
  /\ GoTo("failed")
  /\ UNCHANGED <<rt, gens, ctr>>

RemoveOld ==
  /\ At("remove")
  /\ Gone
  /\ op' = [op EXCEPT !.pc = "create", !.removed = TRUE]
  /\ UNCHANGED <<rt, gens>>

RemoveOldFails ==
  /\ At("remove")
  /\ CleanupMayFail
  /\ Undisturbed \/ Stopped
  /\ GoTo("failed")
  /\ UNCHANGED <<rt, gens>>

\* Mutant: a name that is taken is taken over, container and all.
CreateAdopting ==
  /\ At("create")
  /\ ctr' = IF ctr = NoCtr
            THEN [gen |-> op.gen, image |-> op.image, state |-> "stopped"]
            ELSE ctr
  /\ GoTo("record")
  /\ UNCHANGED <<rt, gens>>

\* Mutant: a name that is taken is freed and used in one go.
CreateReplacing ==
  /\ At("create")
  /\ ctr' = [gen |-> op.gen, image |-> op.image, state |-> "stopped"]
  /\ GoTo("record")
  /\ UNCHANGED <<rt, gens>>

\* Docker refuses a name that is taken (CandidateFails).
Create ==
  /\ At("create")
  /\ ctr = NoCtr
  /\ ctr' = [gen |-> op.gen, image |-> op.image, state |-> "stopped"]
  /\ GoTo("record")
  /\ UNCHANGED <<rt, gens>>

Record ==
  /\ At("record")
  /\ gens' = [gens EXCEPT ![op.gen].life = "starting"]
  /\ GoTo("start")
  /\ UNCHANGED <<rt, ctr>>

Started == [ctr EXCEPT !.state = IF @ = "stopped" THEN "starting" ELSE @]

StartContainer ==
  /\ At("start")
  /\ ctr # NoCtr
  /\ ctr' = Started
  /\ GoTo("await")
  /\ UNCHANGED <<rt, gens>>

\* create or start raises, or the candidate does not become ready.
CandidateFails ==
  /\ op.pc \in {"create", "start", "await"}
  /\ GoTo("failed")
  /\ UNCHANGED <<rt, gens, ctr>>

-----------------------------------------------------------------------------
(***************************************************************************)
(* Success.                                                                *)
(***************************************************************************)

\* wait_until_ready: /healthz and /readyz answer under the container's name.
Serving == ctr # NoCtr /\ ctr.state = "ready"

Provisioned ==
  /\ At("await")
  /\ Serving
  /\ op.kind = "new_user"
  /\ gens' = [gens EXCEPT ![op.gen].life = "promoted"]
  /\ rt' = [status |-> "active", cur |-> op.gen, image |-> op.image,
            prevGen |-> NullGen, prevImage |-> NoImage, health |-> "healthy"]
  /\ Finish
  /\ UNCHANGED ctr

\* Mutants: the old generation is not retired, or the row's pointers move
\* before they are remembered.
CutOverUnretired(status, health) ==
  /\ rt' = [status |-> status, cur |-> op.gen, image |-> op.image,
            prevGen |-> rt.cur, prevImage |-> rt.image, health |-> health]
  /\ gens' = [gens EXCEPT ![op.gen].life = "promoted"]

CutOverForgetful(status, health) ==
  /\ rt' = [status |-> status, cur |-> op.gen, image |-> op.image,
            prevGen |-> op.gen, prevImage |-> op.image, health |-> health]
  /\ gens' = [gens EXCEPT ![op.gen].life = "promoted",
                          ![rt.cur].life = "removed"]

\* atomic_cutover, with the promotion of the new generation's row and the
\* retirement of the old one's in the same commit.
CutOver(status, health) ==
  /\ rt' = [status |-> status, cur |-> op.gen, image |-> op.image,
            prevGen |-> rt.cur, prevImage |-> rt.image, health |-> health]
  /\ gens' = [gens EXCEPT ![op.gen].life = "promoted",
                          ![rt.cur].life = "removed"]

\* deploy_user leaves "deploying" to a second commit.
DeployCutOver ==
  /\ At("await")
  /\ Serving
  /\ op.kind \in DeployKinds
  /\ CutOver("deploying", rt.health)
  /\ GoTo("settle")
  /\ UNCHANGED ctr

\* Mutant: status and health in each other's place.
DeploySettledSwapped ==
  /\ At("settle")
  /\ rt' = [rt EXCEPT !.status = "healthy", !.health = "active"]
  /\ Finish
  /\ UNCHANGED <<gens, ctr>>

DeploySettled ==
  /\ At("settle")
  /\ rt' = [rt EXCEPT !.status = "active", !.health = "healthy"]
  /\ Finish
  /\ UNCHANGED <<gens, ctr>>

\* restart_user "force" and rollback_user commit once.
Replaced ==
  /\ At("await")
  /\ Serving
  /\ op.kind \in {"force", "rollback"}
  /\ CutOver("active", "healthy")
  /\ Finish
  /\ UNCHANGED ctr

-----------------------------------------------------------------------------
(***************************************************************************)
(* Failure: the except blocks of the services.                             *)
(***************************************************************************)

\* cleanup_failed_container frees the name, whoever has it.
CleanUp ==
  /\ At("failed")
  /\ Gone
  /\ GoTo("recover")
  /\ UNCHANGED <<rt, gens>>

\* cleanup_timed_out_deploy has the candidate's "failed" pending.
FailurePending ==
  \/ At("restore_failed") /\ op.cleaning
  \/ At("timeout_recover") /\ op.kind # "new_user"

\* Docker raises inside a handler, and the exception leaves the service.  The
\* runner rolls back what was not committed; not so when it was cleaning up
\* after a deadline: its mark_failed commits what is pending.
CleanUpFails ==
  /\ CleanupMayFail
  /\ \/ /\ op.pc \in {"failed", "restore_failed", "timed_out"}
        /\ Undisturbed \/ Stopped
     \/ /\ At("timeout_recover") /\ op.kind # "new_user"
        /\ Undisturbed
  /\ gens' = IF FailurePending THEN [gens EXCEPT ![op.gen].life = "failed"]
                               ELSE gens
  /\ Finish
  /\ UNCHANGED rt

\* Restore runs only in deploy_user, and only after the old container went.
MustRestore == op.kind \in DeployKinds /\ op.removed

\* Mutant: the failure is recorded for the generation only.
MarkGenerationFailed ==
  /\ At("recover")
  /\ ~MustRestore
  /\ gens' = [gens EXCEPT ![op.gen].life = "failed"]
  /\ Finish
  /\ UNCHANGED <<rt, ctr>>

\* restart_user and provision_user record the health, rollback_user does not.
MarkFailed ==
  /\ At("recover")
  /\ ~MustRestore
  /\ gens' = [gens EXCEPT ![op.gen].life = "failed"]
  /\ rt' = [rt EXCEPT !.status = "failed",
                      !.health = IF op.kind = "rollback" THEN @ ELSE "failed"]
  /\ Finish
  /\ UNCHANGED ctr

\* The except block of deploy_user passes no env_overrides on.
BeginRestore ==
  /\ At("recover")
  /\ MustRestore
  /\ op' = [op EXCEPT !.pc = "restore", !.env = NoEnv]
  /\ UNCHANGED <<rt, gens, ctr>>

-----------------------------------------------------------------------------
(***************************************************************************)
(* _restore_previous_active.                                               *)
(***************************************************************************)

RestoreCreate ==
  /\ At("restore")
  /\ ctr = NoCtr
  /\ ctr' = [gen |-> rt.cur, image |-> rt.image, state |-> "stopped"]
  /\ GoTo("restore_record")
  /\ UNCHANGED <<rt, gens>>

\* The commit takes the candidate's pending "failed" along.
RestoreRecord ==
  /\ At("restore_record")
  /\ gens' = [gens EXCEPT ![op.gen].life = "failed",
                          ![rt.cur].life = "starting",
                          ![rt.cur].env = op.env]
  /\ GoTo("restore_start")
  /\ UNCHANGED <<rt, ctr>>

RestoreStart ==
  /\ At("restore_start")
  /\ ctr # NoCtr
  /\ ctr' = Started
  /\ GoTo("restore_await")
  /\ UNCHANGED <<rt, gens>>

\* The promoted row's docker_labels_json is written without env_overrides.
Restored ==
  /\ At("restore_await")
  /\ Serving
  /\ gens' = [gens EXCEPT ![rt.cur].life = "promoted", ![rt.cur].env = NoEnv]
  /\ rt' = [rt EXCEPT !.status = "active", !.health = "healthy"]
  /\ Finish
  /\ UNCHANGED ctr

RestoreFails ==
  /\ op.pc \in {"restore", "restore_start", "restore_await"}
  /\ GoTo("restore_failed")
  /\ UNCHANGED <<rt, gens, ctr>>

RemoveRestored ==
  /\ At("restore_failed")
  /\ Gone
  /\ GoTo("unrestored")
  /\ UNCHANGED <<rt, gens>>

\* Mutant: the runtime is called active although nothing was restored.
UnrestoredAlwaysActive ==
  /\ At("unrestored")
  /\ gens' = [gens EXCEPT ![op.gen].life = "failed"]
  /\ rt' = [rt EXCEPT !.status = "active", !.health = "healthy"]
  /\ Finish
  /\ UNCHANGED ctr

\* deploy_user then fails the runtime; cleanup_timed_out_deploy calls it
\* active and healthy.
Unrestored ==
  /\ At("unrestored")
  /\ gens' = [gens EXCEPT ![op.gen].life = "failed"]
  /\ rt' = [rt EXCEPT !.status = IF op.cleaning THEN "active" ELSE "failed",
                      !.health = IF op.cleaning THEN "healthy" ELSE "failed"]
  /\ Finish
  /\ UNCHANGED ctr

-----------------------------------------------------------------------------
(***************************************************************************)
(* Deadline (OperationRunner's wait_for) and death of the process.         *)
(***************************************************************************)

\* Mutant: the deadline of a rollback resets the runtime to active and leaves
\* the candidate.
TimeoutResetsRollback ==
  /\ MayTimeout
  /\ At("await") \/ (At("restore_await") /\ ~op.cleaning)
  /\ IF op.kind = "rollback"
     THEN Finish /\ rt' = [rt EXCEPT !.status = "active"]
     ELSE GoTo("timed_out") /\ UNCHANGED rt
  /\ UNCHANGED <<gens, ctr>>

Timeout ==
  /\ MayTimeout
  /\ At("await") \/ (At("restore_await") /\ ~op.cleaning)
  /\ IF op.kind = "rollback" THEN Finish  \* handle_timeout_cleanup: skipped
                             ELSE GoTo("timed_out")
  /\ UNCHANGED <<rt, gens, ctr>>

\* Both cleanups remove the container of the user's name first.
RemoveTimedOut ==
  /\ At("timed_out")
  /\ Gone
  /\ GoTo("timeout_recover")
  /\ UNCHANGED <<rt, gens>>

\* cleanup_timed_out_provision.
ProvisionTimedOut ==
  /\ At("timeout_recover")
  /\ op.kind = "new_user"
  /\ gens' = [gens EXCEPT ![op.gen].life = "failed"]
  /\ rt' = [rt EXCEPT !.status = "failed", !.health = "failed"]
  /\ Finish
  /\ UNCHANGED ctr

\* cleanup_timed_out_deploy: the candidate is the latest generation.  If the
\* name is still free, the previous one is restored, with its overrides.
DeployTimedOut ==
  /\ At("timeout_recover")
  /\ op.kind # "new_user"
  /\ op' = [op EXCEPT !.pc = IF ctr = NoCtr THEN "restore" ELSE "unrestored",
                      !.env = gens[rt.cur].env, !.cleaning = TRUE]
  /\ UNCHANGED <<rt, gens, ctr>>

\* Startup sweeps operation rows only: rt, gens and ctr stay as they are.
Crash ==
  /\ MayCrash
  /\ ~At("idle")
  /\ Finish
  /\ UNCHANGED <<rt, gens, ctr>>

RuntimeBecomesReady ==
  /\ ctr # NoCtr
  /\ ctr.state = "starting"
  /\ ctr' = [ctr EXCEPT !.state = "ready"]
  /\ UNCHANGED <<rt, gens, op>>

-----------------------------------------------------------------------------
BeginOperation ==
  \/ \E i \in Images, e \in Envs : NewUser(i, e) \/ Deploy(i, e)
  \/ NewDisabledUser
  \/ SafeRestart
  \/ ForceRestart
  \/ Rollback

Replace ==
  \/ FindTarget \/ TargetMissing
  \/ Prepare \/ PrepareFails
  \/ RemoveOld \/ RemoveOldFails
  \/ Create \/ Record \/ StartContainer \/ CandidateFails
  \/ Provisioned \/ DeployCutOver \/ DeploySettled \/ Replaced

Repair ==
  \/ CleanUp \/ CleanUpFails \/ MarkFailed
  \/ BeginRestore \/ RestoreCreate \/ RestoreRecord \/ RestoreStart
  \/ Restored \/ RestoreFails \/ RemoveRestored \/ Unrestored
  \/ Timeout \/ RemoveTimedOut \/ ProvisionTimedOut \/ DeployTimedOut

Next == BeginOperation \/ Replace \/ Repair \/ Crash \/ RuntimeBecomesReady

Spec == Init /\ [][Next]_vars

-----------------------------------------------------------------------------
(***************************************************************************)
(* Properties.                                                             *)
(***************************************************************************)

AtRest == At("idle")

\* Only the current generation's row is ever "promoted", through cutovers,
\* restorations, re-provisioning and crashes between any two commits.
PromotedIsCurrent ==
  \A g \in Gens : gens[g].life = "promoted" => g = rt.cur

\* The runtime row and the generation rows agree: the active image is the
\* image of the current generation, the rollback target that of the previous
\* one, which is older.
RowsAgree ==
  /\ rt.cur # NullGen => rt.image = gens[rt.cur].image
  /\ rt.prevGen # NullGen =>
       rt.prevGen < rt.cur /\ rt.prevImage = gens[rt.prevGen].image

\* When the runtime is at rest and called active, a container under its name
\* is the current generation's, with the image the row names: no candidate
\* that was not cut over to is taken for the runtime.
ActiveRunsCurrent ==
  AtRest /\ rt.status = "active" /\ ctr # NoCtr
    => ctr.gen = rt.cur /\ ctr.image = rt.image

\* Once an operation has made its container, and until it commits that the
\* container is the runtime or gives it up, the container of that name is
\* the one it made.
CandidateIsOwn ==
  /\ op.pc \in {"record", "start", "await", "settle"}
       => ctr # NoCtr /\ ctr.gen = op.gen /\ ctr.image = op.image
  /\ op.pc \in {"restore_record", "restore_start", "restore_await"}
       => ctr # NoCtr /\ ctr.gen = rt.cur /\ ctr.image = rt.image

\* The current generation's container is there, ready and recorded as such.
CurrentServes ==
  /\ rt.health = "healthy"
  /\ ctr # NoCtr /\ ctr.state = "ready"
  /\ ctr.gen = rt.cur /\ ctr.image = rt.image
  /\ gens[rt.cur].life = "promoted"

\* While no operation is under way, "active" and "healthy" mean that the
\* current generation's container exists and is ready.
ActiveMeansServing == AtRest /\ rt.status = "active" => CurrentServes

\* An operation that leaves the runtime active, whether it succeeded or was
\* undone, leaves the current generation's container serving; but for the
\* cleanup of a deadline that could not restore anything.
EndsServing ==
  [][~AtRest /\ AtRest' /\ rt'.status = "active"
       /\ ~(At("unrestored") /\ op.cleaning)
       => CurrentServes']_vars

\* What callers may rely on (RuntimePromise): generations follow one another,
\* the rollback target is what was current before, and only the current
\* generation's row is in force, whatever is provisioned again or restored.
Promise == INSTANCE RuntimePromise WITH
  active <- [gen |-> rt.cur, image |-> rt.image],
  previous <- [gen |-> rt.prevGen, image |-> rt.prevImage],
  inForce <- {g \in Gens : gens[g].life = "promoted"}

ImplementsPromise == Promise!Spec

\* Unless the process dies or Docker fails inside an except block, an
\* operation that ends leaves no runtime in the middle of provisioning,
\* deploying or restarting, whatever earlier crashes left behind.
StatusSettles ==
  [][~AtRest /\ AtRest' /\ ~(Crash \/ CleanUpFails)
       => rt'.status \notin {"provisioning", "deploying", "restarting"}]_vars

\* An operation that fails before the old container was removed leaves the
\* old container alone (test_deploy_pre_cutover_failure_keeps_current_active).
PreCutoverFailureKeepsCurrent ==
  [][op.kind = "deploy" /\ op.pc \in {"prepare", "failed"} /\ ~op.removed
       => ctr' = ctr]_vars

\* A runtime that is active and at rest can be deployed to: its next
\* generation number has not been used.
ActiveIsDeployable ==
  AtRest /\ rt.status = "active" /\ rt.cur < MaxGen => Free(rt.cur + 1)

=============================================================================
