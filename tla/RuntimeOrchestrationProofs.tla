--------------------- MODULE RuntimeOrchestrationProofs ---------------------
(***************************************************************************)
(* Proofs about RuntimeOrchestration for any images, overrides and number  *)
(* of generations, and whether or not deadlines pass, the process dies or  *)
(* Docker fails.                                                           *)
(***************************************************************************)
EXTENDS RuntimeOrchestration, TLAPS

-----------------------------------------------------------------------------
(***************************************************************************)
(* The inductive invariant.                                                *)
(***************************************************************************)

\* A generation number has been taken for the operation.
Underway == op.pc \notin {"idle", "target"}

\* There is a current generation exactly when there is an active image, and
\* number 1 is then taken; the same for the rollback target.
Pointers ==
  /\ rt.cur = NullGen <=> rt.image = NoImage
  /\ rt.cur # NullGen => gens[1].life # "none"
  /\ rt.prevGen = NullGen <=> rt.prevImage = NoImage

\* What the operation works on: the generation after the current one, with
\* the image of its row.
Candidate ==
  /\ Underway /\ op.kind = "new_user" => rt.cur = NullGen /\ op.gen = 1
  /\ Underway /\ op.kind # "new_user" =>
       rt.cur # NullGen /\ op.gen = IF At("settle") THEN rt.cur ELSE rt.cur + 1
  /\ Underway => op.image # NoImage /\ gens[op.gen].image = op.image

\* Where each kind of operation can be, and what it has put into the row.
Course ==
  /\ At("target") => op.kind = "rollback"
  /\ At("settle") => op.kind # "new_user" /\ gens[rt.cur].life = "promoted"
  /\ op.pc \in {"restore", "restore_record", "restore_start",
                "restore_await", "restore_failed", "unrestored"}
       => op.kind # "new_user"
  /\ ~At("idle") => rt.status # "active"
  /\ ~At("idle") /\ op.kind = "rollback" => rt.status = "rollback_pending"

Rows == Pointers /\ RowsAgree /\ PromotedIsCurrent
Doing == Candidate /\ Course

\* What the manager's steps preserve whatever else may create, start or stop
\* a container under a name that is free.
Core == TypeOK /\ Rows /\ Doing /\ CandidateIsOwn

\* What was ready at the cutover is until the second commit.
SettleReady == At("settle") => ctr.state = "ready"

\* The name that a cleanup freed is free: nobody else makes containers.
Vacant ==
  op.pc \in {"recover", "restore", "unrestored", "timeout_recover"}
    => ctr = NoCtr

IInv == Core /\ SettleReady /\ Vacant /\ ActiveRunsCurrent

-----------------------------------------------------------------------------
(***************************************************************************)
(* The types of the rows, by name.                                         *)
(***************************************************************************)
RuntimeRows ==
  [status : RuntimeStatus, cur : Gens \cup {NullGen},
   image : Images \cup {NoImage}, prevGen : Gens \cup {NullGen},
   prevImage : Images \cup {NoImage}, health : {"none", "healthy", "failed"}]
GenerationRow ==
  [life : Lifecycle, image : Images \cup {NoImage}, env : Envs]
GenerationRows == [Gens -> GenerationRow]
Operations ==
  [pc : Steps, kind : OpKinds, gen : Gens, image : Images \cup {NoImage},
   env : Envs, removed : BOOLEAN, cleaning : BOOLEAN]

\* TypeOK, variable by variable.
LEMMA Types ==
  TypeOK <=> /\ rt \in RuntimeRows
             /\ gens \in GenerationRows
             /\ ctr \in Container \cup {NoCtr}
             /\ op \in Operations
  BY DEF TypeOK, RuntimeRows, GenerationRows, GenerationRow, Operations

\* A new status, with or without a new health, makes a runtime row.
LEMMA StatusKeepsType ==
  ASSUME NEW r \in RuntimeRows, NEW s \in RuntimeStatus,
         NEW h \in {"none", "healthy", "failed"}
  PROVE  /\ [r EXCEPT !.status = s] \in RuntimeRows
         /\ [r EXCEPT !.status = s, !.health = h] \in RuntimeRows
  BY DEF RuntimeRows

\* A new lifecycle state, new overrides or a whole new row keep the type of
\* the generation rows.
LEMMA RowKeepsType ==
  ASSUME NEW f \in GenerationRows, NEW g
  PROVE  /\ \A l \in Lifecycle : [f EXCEPT ![g].life = l] \in GenerationRows
         /\ \A e \in Envs : [f EXCEPT ![g].env = e] \in GenerationRows
         /\ \A r \in GenerationRow : [f EXCEPT ![g] = r] \in GenerationRows
<1>1. ASSUME NEW l \in Lifecycle
      PROVE  [f EXCEPT ![g].life = l] \in GenerationRows
  BY DEF GenerationRows, GenerationRow
<1>2. ASSUME NEW e \in Envs
      PROVE  [f EXCEPT ![g].env = e] \in GenerationRows
  BY DEF GenerationRows, GenerationRow
<1>3. ASSUME NEW r \in GenerationRow
      PROVE  [f EXCEPT ![g] = r] \in GenerationRows
  BY DEF GenerationRows, GenerationRow
<1>. QED
  BY <1>1, <1>2, <1>3

\* So do two lifecycle states, and new overrides on top.
LEMMA RowsKeepType ==
  ASSUME NEW f \in GenerationRows, NEW g, NEW l \in Lifecycle,
         NEW h, NEW m \in Lifecycle
  PROVE  /\ [f EXCEPT ![g].life = l, ![h].life = m] \in GenerationRows
         /\ \A e \in Envs : [f EXCEPT ![h].life = m, ![h].env = e]
                              \in GenerationRows
         /\ \A e \in Envs : [f EXCEPT ![g].life = l, ![h].life = m,
                                      ![h].env = e] \in GenerationRows
<1>. DEFINE f1 == [f EXCEPT ![g].life = l]
            f2 == [f1 EXCEPT ![h].life = m]
            f3 == [f EXCEPT ![h].life = m]
<1>1. f1 \in GenerationRows /\ f3 \in GenerationRows
  BY RowKeepsType
<1>. HIDE DEF f1
<1>2. f2 \in GenerationRows
  BY RowKeepsType, <1>1
<1>. HIDE DEF f2, f3
<1>3. \A e \in Envs : /\ [f2 EXCEPT ![h].env = e] \in GenerationRows
                      /\ [f3 EXCEPT ![h].env = e] \in GenerationRows
  BY RowKeepsType, <1>1, <1>2
<1>. QED
  BY <1>2, <1>3 DEF f1, f2, f3

\* Another step of the same operation.
LEMMA GoToKeepsType ==
  ASSUME NEW o \in Operations, NEW p \in Steps
  PROVE  [o EXCEPT !.pc = p] \in Operations
  BY DEF Operations

\* No operation.
LEMMA IdleIsOperation == Idle \in Operations
  BY EnvAssumption, GenAssumption
     DEF Idle, Operations, Steps, OpKinds, DeployKinds, Gens

\* So does the beginning of an operation.
LEMMA BeginKeepsType ==
  ASSUME gens \in GenerationRows, NEW k \in OpKinds, NEW g,
         NEW i \in Images \cup {NoImage}, NEW e \in Envs,
         CreateGeneration(g, i, e), Begin(k, g, i, e)
  PROVE  gens' \in GenerationRows /\ op' \in Operations
<1>1. g \in Gens
  BY DEF CreateGeneration, Free
<1>2. [life |-> "creating", image |-> i, env |-> e] \in GenerationRow
  BY DEF GenerationRow, Lifecycle
<1>3. gens' \in GenerationRows
  BY <1>2, RowKeepsType DEF CreateGeneration
<1>4. op' \in Operations
  BY <1>1, IdleIsOperation DEF Begin, Operations, Steps
<1>. QED
  BY <1>3, <1>4

\* What a cutover does to the rows of the two generations.
LEMMA CutOverRows ==
  ASSUME TypeOK, NEW s, NEW h, CutOver(s, h), rt.cur \in Gens,
         op.gen = rt.cur + 1
  PROVE  \A g \in Gens :
           /\ gens'[g].image = gens[g].image
           /\ gens'[g].life = IF g = rt.cur THEN "removed"
                              ELSE IF g = op.gen THEN "promoted"
                              ELSE gens[g].life
<1>. DEFINE f == [gens EXCEPT ![op.gen].life = "promoted"]
<1>1. f \in GenerationRows
  BY Types, RowKeepsType DEF Lifecycle
<1>2. \A g \in Gens : /\ f[g].image = gens[g].image
                      /\ f[g].life = IF g = op.gen THEN "promoted"
                                     ELSE gens[g].life
  BY DEF TypeOK, Gens
<1>. HIDE DEF f
<1>3. gens' = [f EXCEPT ![rt.cur].life = "removed"]
  BY DEF CutOver, f
<1>. QED
  BY <1>1, <1>2, <1>3 DEF GenerationRows, GenerationRow, Gens

\* What a restoration's first commit does to them.
LEMMA RestoreRecordRows ==
  ASSUME TypeOK, RestoreRecord, rt.cur \in Gens, op.gen = rt.cur + 1
  PROVE  \A g \in Gens :
           /\ gens'[g].image = gens[g].image
           /\ gens'[g].life = IF g = rt.cur THEN "starting"
                              ELSE IF g = op.gen THEN "failed"
                              ELSE gens[g].life
<1>. DEFINE f1 == [gens EXCEPT ![op.gen].life = "failed"]
            f2 == [f1 EXCEPT ![rt.cur].life = "starting"]
<1>1. f1 \in GenerationRows
  BY Types, RowKeepsType DEF Lifecycle
<1>2. \A g \in Gens : /\ f1[g].image = gens[g].image
                      /\ f1[g].life = IF g = op.gen THEN "failed"
                                      ELSE gens[g].life
  BY DEF TypeOK, Gens
<1>. HIDE DEF f1
<1>3. f2 \in GenerationRows
  BY <1>1, RowKeepsType DEF Lifecycle
<1>4. \A g \in Gens : /\ f2[g].image = gens[g].image
                      /\ f2[g].life = IF g = rt.cur THEN "starting"
                                      ELSE f1[g].life
  BY <1>1, <1>2 DEF GenerationRows, GenerationRow, Gens
<1>. HIDE DEF f2
<1>5. gens' = [f2 EXCEPT ![rt.cur].env = op.env]
  BY DEF RestoreRecord, f1, f2
<1>. QED
  BY <1>2, <1>3, <1>4, <1>5 DEF GenerationRows, GenerationRow, Gens

\* And its last one.
LEMMA RestoredRows ==
  ASSUME TypeOK, Restored, rt.cur \in Gens
  PROVE  \A g \in Gens :
           /\ gens'[g].image = gens[g].image
           /\ gens'[g].life = IF g = rt.cur THEN "promoted"
                              ELSE gens[g].life
<1>. DEFINE f == [gens EXCEPT ![rt.cur].life = "promoted"]
<1>1. f \in GenerationRows
  BY Types, RowKeepsType DEF Lifecycle
<1>2. \A g \in Gens : /\ f[g].image = gens[g].image
                      /\ f[g].life = IF g = rt.cur THEN "promoted"
                                     ELSE gens[g].life
  BY DEF TypeOK, Gens
<1>. HIDE DEF f
<1>3. gens' = [f EXCEPT ![rt.cur].env = NoEnv]
  BY DEF Restored, f
<1>. QED
  BY <1>1, <1>2, <1>3 DEF GenerationRows, GenerationRow, Gens

\* The generations that the row names.
LEMMA PointersAreTyped ==
  TypeOK => /\ rt.cur \in Gens \cup {NullGen}
            /\ rt.prevGen \in Gens \cup {NullGen}
  BY DEF TypeOK

\* A cutover to the next generation leaves the rows in agreement.
LEMMA CutOverKeepsRows ==
  ASSUME TypeOK, TypeOK', Rows, NEW s, NEW h, CutOver(s, h), rt.cur \in Gens,
         op.gen = rt.cur + 1, op.image # NoImage,
         gens[op.gen].image = op.image
  PROVE  Rows' /\ gens'[rt'.cur].life = "promoted"
<1>1. op.gen \in Gens
  BY DEF TypeOK
<1>2. /\ rt'.cur = op.gen /\ rt'.image = op.image
      /\ rt'.prevGen = rt.cur /\ rt'.prevImage = rt.image
  BY DEF CutOver
<1>3. \A g \in Gens :
        /\ gens'[g].image = gens[g].image
        /\ gens'[g].life = IF g = rt.cur THEN "removed"
                           ELSE IF g = op.gen THEN "promoted"
                           ELSE gens[g].life
  BY CutOverRows
<1>4. rt.cur # op.gen /\ rt.cur < op.gen /\ rt.cur # NullGen
      /\ op.gen # NullGen /\ 1 \in Gens
  BY <1>1, GenAssumption DEF Gens, NullGen
<1>5. PromotedIsCurrent'
  BY <1>1, <1>2, <1>3, <1>4 DEF Rows, PromotedIsCurrent
<1>6. RowsAgree'
  BY <1>1, <1>2, <1>3, <1>4 DEF Rows, RowsAgree
<1>7. Pointers'
  BY <1>1, <1>2, <1>3, <1>4 DEF Rows, Pointers
<1>. QED
  BY <1>1, <1>2, <1>3, <1>4, <1>5, <1>6, <1>7 DEF Rows

\* Every step keeps the types.
LEMMA TypeStep ==
  ASSUME Core, [Next]_vars
  PROVE  TypeOK'
<1>. USE GenAssumption, EnvAssumption
<1>0. /\ rt \in RuntimeRows /\ gens \in GenerationRows
      /\ ctr \in Container \cup {NoCtr} /\ op \in Operations
  BY Types DEF Core
<1>. SUFFICES /\ rt' \in RuntimeRows
             /\ gens' \in GenerationRows
             /\ ctr' \in Container \cup {NoCtr}
             /\ op' \in Operations
  BY DEF TypeOK, RuntimeRows, GenerationRows, GenerationRow, Operations
<1>1. ASSUME NEW i \in Images, NEW e \in Envs, NewUser(i, e)
      PROVE  /\ rt' \in RuntimeRows /\ gens' \in GenerationRows
             /\ ctr' \in Container \cup {NoCtr} /\ op' \in Operations
  <2>1. rt' \in RuntimeRows
    BY <1>0, <1>1, StatusKeepsType DEF NewUser, RuntimeStatus
  <2>2. gens' \in GenerationRows /\ op' \in Operations
    BY <1>0, <1>1, BeginKeepsType DEF NewUser, OpKinds
  <2>. QED
    BY <1>0, <1>1, <2>1, <2>2 DEF NewUser
<1>2. ASSUME NEW i \in Images, NEW e \in Envs, Deploy(i, e)
      PROVE  /\ rt' \in RuntimeRows /\ gens' \in GenerationRows
             /\ ctr' \in Container \cup {NoCtr} /\ op' \in Operations
  <2>1. rt' \in RuntimeRows
    BY <1>0, <1>2, StatusKeepsType DEF Deploy, BeginDeploy, RuntimeStatus
  <2>2. gens' \in GenerationRows /\ op' \in Operations
    BY <1>0, <1>2, BeginKeepsType
       DEF Deploy, BeginDeploy, OpKinds, DeployKinds
  <2>. QED
    BY <1>0, <1>2, <2>1, <2>2 DEF Deploy, BeginDeploy
<1>3. CASE NewDisabledUser
  BY <1>0, <1>3, StatusKeepsType DEF NewDisabledUser, RuntimeStatus
<1>4. CASE SafeRestart
  <2>1. rt' \in RuntimeRows
    BY <1>0, <1>4, StatusKeepsType DEF SafeRestart, BeginDeploy, RuntimeStatus
  <2>2. rt.image \in Images \cup {NoImage} /\ gens[rt.cur].env \in Envs
    BY <1>0, <1>4 DEF SafeRestart, RuntimeRows, GenerationRows, GenerationRow
  <2>3. gens' \in GenerationRows /\ op' \in Operations
    BY <1>0, <1>4, <2>2, BeginKeepsType
       DEF SafeRestart, BeginDeploy, OpKinds, DeployKinds
  <2>. QED
    BY <1>0, <1>4, <2>1, <2>3 DEF SafeRestart, BeginDeploy
<1>5. CASE ForceRestart
  <2>1. rt' \in RuntimeRows
    BY <1>0, <1>5, StatusKeepsType DEF ForceRestart, RuntimeStatus
  <2>2. rt.image \in Images \cup {NoImage} /\ rt.cur \in Gens
    BY <1>0, <1>5 DEF ForceRestart, RuntimeRows, Core, Rows, Pointers
  <2>3. gens[rt.cur].env \in Envs
    BY <1>0, <2>2 DEF GenerationRows, GenerationRow
  <2>4. gens' \in GenerationRows /\ op' \in Operations
    BY <1>0, <1>5, <2>2, <2>3, BeginKeepsType DEF ForceRestart, OpKinds
  <2>. QED
    BY <1>0, <1>5, <2>1, <2>4 DEF ForceRestart
<1>6. CASE Rollback
  <2>1. rt' \in RuntimeRows
    BY <1>0, <1>6, StatusKeepsType DEF Rollback, RuntimeStatus
  <2>2. op' \in Operations
    BY <1>6, IdleIsOperation DEF Rollback, Operations, Steps, OpKinds
  <2>. QED
    BY <1>0, <1>6, <2>1, <2>2 DEF Rollback
<1>7. CASE FindTarget
  <2>1. TargetImage \in Images \cup {NoImage} /\ TargetEnv \in Envs
    BY <1>0, <1>7
       DEF FindTarget, TargetImage, TargetEnv, RuntimeRows, GenerationRows,
           GenerationRow
  <2>2. gens' \in GenerationRows /\ op' \in Operations
    BY <1>0, <1>7, <2>1, BeginKeepsType DEF FindTarget, OpKinds
  <2>. QED
    BY <1>0, <1>7, <2>2 DEF FindTarget
<1>8. CASE TargetMissing
  BY <1>0, <1>8, IdleIsOperation DEF TargetMissing, Finish
<1>9. CASE Prepare
  BY <1>0, <1>9, GoToKeepsType DEF Prepare, GoTo, Steps
<1>10. CASE PrepareFails
  BY <1>0, <1>10, GoToKeepsType DEF PrepareFails, GoTo, Steps
<1>11. CASE RemoveOld
  BY <1>0, <1>11 DEF RemoveOld, Gone, Operations, Steps
<1>12. CASE RemoveOldFails
  BY <1>0, <1>12, GoToKeepsType
     DEF RemoveOldFails, GoTo, Steps, Undisturbed, Stopped, Container
<1>13. CASE Create
  <2>1. ctr' \in Container
    BY <1>0, <1>13
       DEF Create, Container, Operations, Core, Doing, Candidate, Underway, At
  <2>. QED
    BY <1>0, <1>13, <2>1, GoToKeepsType DEF Create, GoTo, Steps
<1>14. CASE Record
  BY <1>0, <1>14, RowKeepsType, GoToKeepsType
     DEF Record, GoTo, Steps, Lifecycle
<1>15. CASE StartContainer
  BY <1>0, <1>15, GoToKeepsType
     DEF StartContainer, Started, GoTo, Steps, Container
<1>16. CASE CandidateFails
  BY <1>0, <1>16, GoToKeepsType DEF CandidateFails, GoTo, Steps
<1>17. CASE Provisioned
  <2>1. gens' \in GenerationRows
    BY <1>0, <1>17, RowKeepsType DEF Provisioned, Lifecycle
  <2>2. rt' \in RuntimeRows
    BY <1>0, <1>17 DEF Provisioned, RuntimeRows, RuntimeStatus, Operations
  <2>. QED
    BY <1>0, <1>17, <2>1, <2>2, IdleIsOperation DEF Provisioned, Finish
<1>18. CASE DeployCutOver
  <2>1. gens' \in GenerationRows
    BY <1>0, <1>18, RowsKeepType DEF DeployCutOver, CutOver, Lifecycle
  <2>2. rt' \in RuntimeRows
    BY <1>0, <1>18
       DEF DeployCutOver, CutOver, RuntimeRows, RuntimeStatus, Operations
  <2>. QED
    BY <1>0, <1>18, <2>1, <2>2, GoToKeepsType DEF DeployCutOver, GoTo, Steps
<1>19. CASE DeploySettled
  BY <1>0, <1>19, StatusKeepsType, IdleIsOperation
     DEF DeploySettled, Finish, RuntimeStatus
<1>20. CASE Replaced
  <2>1. gens' \in GenerationRows
    BY <1>0, <1>20, RowsKeepType DEF Replaced, CutOver, Lifecycle
  <2>2. rt' \in RuntimeRows
    BY <1>0, <1>20
       DEF Replaced, CutOver, RuntimeRows, RuntimeStatus, Operations
  <2>. QED
    BY <1>0, <1>20, <2>1, <2>2, IdleIsOperation DEF Replaced, Finish
<1>21. CASE CleanUp
  BY <1>0, <1>21, GoToKeepsType DEF CleanUp, Gone, GoTo, Steps
<1>22. CASE CleanUpFails
  <2>1. [gens EXCEPT ![op.gen].life = "failed"] \in GenerationRows
    BY <1>0, RowKeepsType DEF Lifecycle
  <2>2. gens' \in GenerationRows
    BY <1>0, <1>22, <2>1 DEF CleanUpFails
  <2>3. ctr' \in {NoCtr} \cup Container
    BY <1>0, <1>22 DEF CleanUpFails, Undisturbed, Stopped, Container
  <2>. QED
    BY <1>0, <1>22, <2>2, <2>3, IdleIsOperation DEF CleanUpFails, Finish
<1>23. CASE MarkFailed
  <2>1. rt' \in RuntimeRows
    BY <1>0, <1>23 DEF MarkFailed, RuntimeRows, RuntimeStatus
  <2>. QED
    BY <1>0, <1>23, <2>1, RowKeepsType, IdleIsOperation
       DEF MarkFailed, Finish, Lifecycle
<1>24. CASE BeginRestore
  BY <1>0, <1>24 DEF BeginRestore, Operations, Steps
<1>25. CASE RestoreCreate
  <2>1. ctr' \in Container
    BY <1>0, <1>25
       DEF RestoreCreate, Container, RuntimeRows, Core, Rows, Pointers, Doing,
           Candidate, Course, Underway, At
  <2>. QED
    BY <1>0, <1>25, <2>1, GoToKeepsType DEF RestoreCreate, GoTo, Steps
<1>26. CASE RestoreRecord
  <2>1. op.env \in Envs
    BY <1>0 DEF Operations
  <2>2. gens' \in GenerationRows
    BY <1>0, <1>26, <2>1, RowsKeepType DEF RestoreRecord, Lifecycle
  <2>. QED
    BY <1>0, <1>26, <2>2, GoToKeepsType DEF RestoreRecord, GoTo, Steps
<1>27. CASE RestoreStart
  BY <1>0, <1>27, GoToKeepsType
     DEF RestoreStart, Started, GoTo, Steps, Container
<1>28. CASE Restored
  BY <1>0, <1>28, RowsKeepType, StatusKeepsType, IdleIsOperation
     DEF Restored, Finish, RuntimeStatus, Lifecycle
<1>29. CASE RestoreFails
  BY <1>0, <1>29, GoToKeepsType DEF RestoreFails, GoTo, Steps
<1>30. CASE RemoveRestored
  BY <1>0, <1>30, GoToKeepsType DEF RemoveRestored, Gone, GoTo, Steps
<1>31. CASE Unrestored
  <2>1. rt' \in RuntimeRows
    BY <1>0, <1>31 DEF Unrestored, RuntimeRows, RuntimeStatus
  <2>. QED
    BY <1>0, <1>31, <2>1, RowKeepsType, IdleIsOperation
       DEF Unrestored, Finish, Lifecycle
<1>32. CASE Timeout
  BY <1>0, <1>32, GoToKeepsType, IdleIsOperation
     DEF Timeout, GoTo, Finish, Steps
<1>33. CASE RemoveTimedOut
  BY <1>0, <1>33, GoToKeepsType DEF RemoveTimedOut, Gone, GoTo, Steps
<1>34. CASE ProvisionTimedOut
  BY <1>0, <1>34, RowKeepsType, StatusKeepsType, IdleIsOperation
     DEF ProvisionTimedOut, Finish, RuntimeStatus, Lifecycle
<1>35. CASE DeployTimedOut
  <2>1. gens[rt.cur].env \in Envs
    BY <1>0, <1>35
       DEF DeployTimedOut, GenerationRows, GenerationRow, RuntimeRows, Core,
           Doing, Candidate, Underway, At
  <2>2. op' \in Operations
    BY <1>0, <1>35, <2>1 DEF DeployTimedOut, Operations, Steps
  <2>. QED
    BY <1>0, <1>35, <2>2 DEF DeployTimedOut
<1>36. CASE Crash
  BY <1>0, <1>36, IdleIsOperation DEF Crash, Finish
<1>37. CASE RuntimeBecomesReady
  BY <1>0, <1>37 DEF RuntimeBecomesReady, Container
<1>38. CASE UNCHANGED vars
  BY <1>0, <1>38 DEF vars
<1>. QED
  BY <1>1, <1>2, <1>3, <1>4, <1>5, <1>6, <1>7, <1>8, <1>9, <1>10, <1>11,
     <1>12, <1>13, <1>14, <1>15, <1>16, <1>17, <1>18, <1>19, <1>20, <1>21,
     <1>22, <1>23, <1>24, <1>25, <1>26, <1>27, <1>28, <1>29, <1>30, <1>31,
     <1>32, <1>33, <1>34, <1>35, <1>36, <1>37, <1>38
     DEF Next, BeginOperation, Replace, Repair

\* Every step leaves the rows in agreement.
LEMMA RowsStep ==
  ASSUME Core, TypeOK', [Next]_vars
  PROVE  Rows'
<1>. USE GenAssumption
     DEF Core, Rows, Pointers, RowsAgree, PromotedIsCurrent, Doing, Candidate,
         Course, Underway, TypeOK, Gens, NullGen, At
<1>1. ASSUME NEW i \in Images, NEW e \in Envs, NewUser(i, e)
      PROVE  Rows'
  BY <1>1 DEF NewUser, CreateGeneration, Free, Begin, Idle, CanProvision
<1>2. ASSUME NEW i \in Images, NEW e \in Envs, Deploy(i, e)
      PROVE  Rows'
  BY <1>2 DEF Deploy, BeginDeploy, CreateGeneration, Free, Begin, Idle
<1>3. CASE NewDisabledUser
  BY <1>3 DEF NewDisabledUser, CanProvision
<1>4. CASE SafeRestart
  BY <1>4 DEF SafeRestart, BeginDeploy, CreateGeneration, Free, Begin, Idle
<1>5. CASE ForceRestart
  BY <1>5 DEF ForceRestart, CreateGeneration, Free, Begin, Idle
<1>6. CASE Rollback
  BY <1>6 DEF Rollback, Idle
<1>7. CASE FindTarget
  BY <1>7 DEF FindTarget, CreateGeneration, Free, Begin, Idle, TargetImage
<1>8. CASE TargetMissing
  BY <1>8 DEF TargetMissing, Finish, Idle
<1>9. CASE Prepare
  BY <1>9 DEF Prepare, GoTo
<1>10. CASE PrepareFails
  BY <1>10 DEF PrepareFails, GoTo
<1>11. CASE RemoveOld
  BY <1>11 DEF RemoveOld, Gone
<1>12. CASE RemoveOldFails
  BY <1>12 DEF RemoveOldFails, GoTo, Undisturbed, Stopped
<1>13. CASE Create
  BY <1>13 DEF Create, GoTo
<1>14. CASE Record
  BY <1>14 DEF Record, GoTo
<1>15. CASE StartContainer
  BY <1>15 DEF StartContainer, Started, GoTo
<1>16. CASE CandidateFails
  BY <1>16 DEF CandidateFails, GoTo
<1>17. CASE Provisioned
  BY <1>17 DEF Provisioned, Serving, Finish, Idle
<1>18. CASE DeployCutOver
  <2>1. /\ rt.cur \in Gens /\ op.gen = rt.cur + 1
        /\ op.image # NoImage /\ gens[op.gen].image = op.image
    BY <1>18 DEF DeployCutOver, DeployKinds
  <2>2. CutOver("deploying", rt.health)
    BY <1>18 DEF DeployCutOver
  <2>. QED
    BY <2>1, <2>2, CutOverKeepsRows
<1>19. CASE DeploySettled
  BY <1>19 DEF DeploySettled, Finish, Idle
<1>20. CASE Replaced
  <2>1. /\ rt.cur \in Gens /\ op.gen = rt.cur + 1
        /\ op.image # NoImage /\ gens[op.gen].image = op.image
    BY <1>20 DEF Replaced
  <2>2. CutOver("active", "healthy")
    BY <1>20 DEF Replaced
  <2>. QED
    BY <2>1, <2>2, CutOverKeepsRows
<1>21. CASE CleanUp
  BY <1>21 DEF CleanUp, Gone, GoTo
<1>22. CASE CleanUpFails
  BY <1>22 DEF CleanUpFails, Undisturbed, Stopped, Finish, Idle
<1>23. CASE MarkFailed
  BY <1>23 DEF MarkFailed, Finish, Idle, MustRestore
<1>24. CASE BeginRestore
  BY <1>24 DEF BeginRestore, MustRestore
<1>25. CASE RestoreCreate
  BY <1>25 DEF RestoreCreate, GoTo
<1>26. CASE RestoreRecord
  <2>1. rt.cur \in Gens /\ op.gen = rt.cur + 1 /\ rt' = rt
    BY <1>26 DEF RestoreRecord
  <2>. HIDE DEF TypeOK
  <2>. QED
    BY <1>26, <2>1, RestoreRecordRows, PointersAreTyped
<1>27. CASE RestoreStart
  BY <1>27 DEF RestoreStart, Started, GoTo
<1>28. CASE Restored
  <2>1. rt.cur \in Gens
    BY <1>28 DEF Restored
  <2>2. /\ rt'.cur = rt.cur /\ rt'.image = rt.image
        /\ rt'.prevGen = rt.prevGen /\ rt'.prevImage = rt.prevImage
    BY <1>28 DEF Restored
  <2>. HIDE DEF TypeOK
  <2>. QED
    BY <1>28, <2>1, <2>2, RestoredRows, PointersAreTyped
<1>29. CASE RestoreFails
  BY <1>29 DEF RestoreFails, GoTo
<1>30. CASE RemoveRestored
  BY <1>30 DEF RemoveRestored, Gone, GoTo
<1>31. CASE Unrestored
  BY <1>31 DEF Unrestored, Finish, Idle
<1>32. CASE Timeout
  BY <1>32 DEF Timeout, GoTo, Finish, Idle
<1>33. CASE RemoveTimedOut
  BY <1>33 DEF RemoveTimedOut, Gone, GoTo
<1>34. CASE ProvisionTimedOut
  BY <1>34 DEF ProvisionTimedOut, Finish, Idle
<1>35. CASE DeployTimedOut
  BY <1>35 DEF DeployTimedOut
<1>36. CASE Crash
  BY <1>36 DEF Crash, Finish, Idle
<1>37. CASE RuntimeBecomesReady
  BY <1>37 DEF RuntimeBecomesReady
<1>38. CASE UNCHANGED vars
  BY <1>38 DEF vars
<1>. QED
  BY <1>1, <1>2, <1>3, <1>4, <1>5, <1>6, <1>7, <1>8, <1>9, <1>10, <1>11,
     <1>12, <1>13, <1>14, <1>15, <1>16, <1>17, <1>18, <1>19, <1>20, <1>21,
     <1>22, <1>23, <1>24, <1>25, <1>26, <1>27, <1>28, <1>29, <1>30, <1>31,
     <1>32, <1>33, <1>34, <1>35, <1>36, <1>37, <1>38
     DEF Next, BeginOperation, Replace, Repair

\* Every step leaves the operation where its kind can be.
LEMMA DoingStep ==
  ASSUME Core, TypeOK', [Next]_vars
  PROVE  Doing'
<1>. USE GenAssumption
     DEF Core, Rows, Pointers, RowsAgree, PromotedIsCurrent, Doing, Candidate,
         Course, Underway, TypeOK, Gens, NullGen, At
<1>1. ASSUME NEW i \in Images, NEW e \in Envs, NewUser(i, e) PROVE Doing'
  BY <1>1, ImageAssumption
     DEF NewUser, CreateGeneration, Free, Begin, Idle, CanProvision
<1>2. ASSUME NEW i \in Images, NEW e \in Envs, Deploy(i, e) PROVE Doing'
  BY <1>2, ImageAssumption
     DEF Deploy, BeginDeploy, CreateGeneration, Free, Begin, Idle
<1>3. CASE NewDisabledUser
  BY <1>3 DEF NewDisabledUser, CanProvision
<1>4. CASE SafeRestart
  BY <1>4 DEF SafeRestart, BeginDeploy, CreateGeneration, Free, Begin, Idle
<1>5. CASE ForceRestart
  BY <1>5 DEF ForceRestart, CreateGeneration, Free, Begin, Idle
<1>6. CASE Rollback
  BY <1>6 DEF Rollback, Idle
<1>7. CASE FindTarget
  BY <1>7 DEF FindTarget, CreateGeneration, Free, Begin, Idle, TargetImage
<1>8. CASE TargetMissing
  BY <1>8 DEF TargetMissing, Finish, Idle
<1>9. CASE Prepare
  BY <1>9 DEF Prepare, GoTo
<1>10. CASE PrepareFails
  BY <1>10 DEF PrepareFails, GoTo
<1>11. CASE RemoveOld
  BY <1>11 DEF RemoveOld, Gone
<1>12. CASE RemoveOldFails
  BY <1>12 DEF RemoveOldFails, GoTo, Undisturbed, Stopped
<1>13. CASE Create
  BY <1>13 DEF Create, GoTo
<1>14. CASE Record
  BY <1>14 DEF Record, GoTo
<1>15. CASE StartContainer
  BY <1>15 DEF StartContainer, Started, GoTo
<1>16. CASE CandidateFails
  BY <1>16 DEF CandidateFails, GoTo
<1>17. CASE Provisioned
  BY <1>17 DEF Provisioned, Serving, Finish, Idle
<1>18. CASE DeployCutOver
  <2>1. rt.cur \in Gens /\ op.gen = rt.cur + 1 /\ op.kind # "new_user"
    BY <1>18 DEF DeployCutOver, DeployKinds
  <2>2. CutOver("deploying", rt.health)
    BY <1>18 DEF DeployCutOver
  <2>. QED
    BY <1>18, <2>1, <2>2, CutOverRows
       DEF DeployCutOver, CutOver, DeployKinds, GoTo
<1>19. CASE DeploySettled
  BY <1>19 DEF DeploySettled, Finish, Idle
<1>20. CASE Replaced
  BY <1>20 DEF Replaced, CutOver, Serving, Finish, Idle
<1>21. CASE CleanUp
  BY <1>21 DEF CleanUp, Gone, GoTo
<1>22. CASE CleanUpFails
  BY <1>22 DEF CleanUpFails, Undisturbed, Stopped, Finish, Idle
<1>23. CASE MarkFailed
  BY <1>23 DEF MarkFailed, Finish, Idle, MustRestore
<1>24. CASE BeginRestore
  <2>1. op.kind # "new_user" /\ Underway /\ op.pc = "recover"
    BY <1>24 DEF BeginRestore, MustRestore, DeployKinds
  <2>2. /\ op'.pc = "restore" /\ op'.kind = op.kind /\ op'.gen = op.gen
        /\ op'.image = op.image
    BY <1>24 DEF BeginRestore
  <2>3. rt' = rt /\ gens' = gens
    BY <1>24 DEF BeginRestore
  <2>. HIDE DEF TypeOK
  <2>. QED
    BY <2>1, <2>2, <2>3
<1>25. CASE RestoreCreate
  BY <1>25 DEF RestoreCreate, GoTo
<1>26. CASE RestoreRecord
  BY <1>26 DEF RestoreRecord, GoTo
<1>27. CASE RestoreStart
  BY <1>27 DEF RestoreStart, Started, GoTo
<1>28. CASE Restored
  BY <1>28 DEF Restored, Serving, Finish, Idle
<1>29. CASE RestoreFails
  BY <1>29 DEF RestoreFails, GoTo
<1>30. CASE RemoveRestored
  BY <1>30 DEF RemoveRestored, Gone, GoTo
<1>31. CASE Unrestored
  BY <1>31 DEF Unrestored, Finish, Idle
<1>32. CASE Timeout
  BY <1>32 DEF Timeout, GoTo, Finish, Idle
<1>33. CASE RemoveTimedOut
  BY <1>33 DEF RemoveTimedOut, Gone, GoTo
<1>34. CASE ProvisionTimedOut
  BY <1>34 DEF ProvisionTimedOut, Finish, Idle
<1>35. CASE DeployTimedOut
  BY <1>35 DEF DeployTimedOut
<1>36. CASE Crash
  BY <1>36 DEF Crash, Finish, Idle
<1>37. CASE RuntimeBecomesReady
  BY <1>37 DEF RuntimeBecomesReady
<1>38. CASE UNCHANGED vars
  BY <1>38 DEF vars
<1>. QED
  BY <1>1, <1>2, <1>3, <1>4, <1>5, <1>6, <1>7, <1>8, <1>9, <1>10, <1>11,
     <1>12, <1>13, <1>14, <1>15, <1>16, <1>17, <1>18, <1>19, <1>20, <1>21,
     <1>22, <1>23, <1>24, <1>25, <1>26, <1>27, <1>28, <1>29, <1>30, <1>31,
     <1>32, <1>33, <1>34, <1>35, <1>36, <1>37, <1>38
     DEF Next, BeginOperation, Replace, Repair

\* The beginning of an operation leaves the container alone, and a runtime
\* that is not active.
LEMMA Beginnings ==
  ASSUME TypeOK, BeginOperation
  PROVE  /\ At("idle") /\ ctr' = ctr /\ rt'.status # "active"
         /\ op' = op \/ op'.pc \in {"prepare", "target"}
<1>0. \A s : [rt EXCEPT !.status = s].status = s
  BY DEF TypeOK
<1>1. \A k, g, i, e : Begin(k, g, i, e) => op'.pc = "prepare"
  BY DEF Begin, Idle
<1>2. ASSUME NEW i \in Images, NEW e \in Envs, NewUser(i, e)
      PROVE  /\ At("idle") /\ ctr' = ctr /\ rt'.status # "active"
             /\ op'.pc = "prepare"
  BY <1>0, <1>1, <1>2 DEF NewUser
<1>3. ASSUME NEW k, NEW i, NEW e, BeginDeploy(k, i, e)
      PROVE  /\ At("idle") /\ ctr' = ctr /\ rt'.status # "active"
             /\ op'.pc = "prepare"
  BY <1>0, <1>1, <1>3 DEF BeginDeploy
<1>4. CASE NewDisabledUser
  BY <1>0, <1>4 DEF NewDisabledUser
<1>5. CASE SafeRestart
  BY <1>3, <1>5 DEF SafeRestart
<1>6. CASE ForceRestart
  BY <1>0, <1>1, <1>6 DEF ForceRestart
<1>7. CASE Rollback
  BY <1>0, <1>7 DEF Rollback, Idle
<1>. QED
  BY <1>2, <1>3, <1>4, <1>5, <1>6, <1>7 DEF BeginOperation, Deploy

\* What an operation goes to, and what it takes along.
LEMMA Goes ==
  ASSUME TypeOK, NEW p, GoTo(p)
  PROVE  /\ op'.pc = p /\ op'.kind = op.kind /\ op'.gen = op.gen
         /\ op'.image = op.image
  BY DEF TypeOK, GoTo

\* Every step leaves the container that the operation made.
LEMMA OwnStep ==
  ASSUME Core, TypeOK', [Next]_vars
  PROVE  CandidateIsOwn'
<1>. USE DEF Core, CandidateIsOwn, At
<1>0. ASSUME ctr \in Container,
             ctr' = [ctr EXCEPT !.state = "ready"] \/ ctr' = Started
      PROVE  ctr' # NoCtr /\ ctr'.gen = ctr.gen /\ ctr'.image = ctr.image
  BY <1>0, CtrAssumption DEF Started, Container
<1>1. ASSUME ctr # NoCtr PROVE ctr \in Container
  BY <1>1 DEF TypeOK
<1>2. CASE BeginOperation
  BY <1>2, Beginnings
<1>3. CASE op'.pc \notin {"record", "start", "await", "settle",
                          "restore_record", "restore_start",
                          "restore_await"}
  BY <1>3
<1>4. CASE FindTarget \/ TargetMissing \/ Prepare \/ PrepareFails
           \/ RemoveOld \/ RemoveOldFails \/ CandidateFails \/ Provisioned
           \/ DeploySettled \/ Replaced
  <2>1. CASE FindTarget
    BY <1>3, <2>1 DEF FindTarget, Begin, Idle
  <2>2. CASE RemoveOld
    BY <1>3, <2>2 DEF RemoveOld, TypeOK
  <2>3. CASE TargetMissing \/ Provisioned \/ DeploySettled \/ Replaced
    BY <1>3, <2>3
       DEF TargetMissing, Provisioned, DeploySettled, Replaced, Finish, Idle
  <2>4. CASE Prepare \/ PrepareFails \/ RemoveOldFails \/ CandidateFails
    BY <1>3, <2>4, Goes
       DEF Prepare, PrepareFails, RemoveOldFails, CandidateFails
  <2>. QED
    BY <1>4, <2>1, <2>2, <2>3, <2>4
<1>5. CASE CleanUp \/ CleanUpFails \/ MarkFailed \/ BeginRestore
           \/ Restored \/ RestoreFails \/ RemoveRestored \/ Unrestored
           \/ Timeout \/ RemoveTimedOut \/ ProvisionTimedOut
           \/ DeployTimedOut \/ Crash
  <2>1. CASE CleanUpFails \/ MarkFailed \/ Restored \/ Unrestored
             \/ ProvisionTimedOut \/ Crash
    BY <1>3, <2>1
       DEF CleanUpFails, MarkFailed, Restored, Unrestored,
           ProvisionTimedOut, Crash, Finish, Idle
  <2>2. CASE BeginRestore \/ DeployTimedOut
    <3>1. op'.pc \in {"restore", "unrestored"}
      BY <2>2 DEF BeginRestore, DeployTimedOut, TypeOK
    <3>. QED
      BY <1>3, <3>1
  <2>3. CASE Timeout
    BY <1>3, <2>3, Goes DEF Timeout, Finish, Idle
  <2>4. CASE CleanUp \/ RestoreFails \/ RemoveRestored \/ RemoveTimedOut
    BY <1>3, <2>4, Goes
       DEF CleanUp, RestoreFails, RemoveRestored, RemoveTimedOut
  <2>. QED
    BY <1>5, <2>1, <2>2, <2>3, <2>4
<1>6. CASE Create
  <2>1. /\ ctr' = [gen |-> op.gen, image |-> op.image, state |-> "stopped"]
        /\ op'.gen = op.gen /\ op'.image = op.image /\ op'.pc = "record"
    BY <1>6, Goes DEF Create
  <2>2. ctr' # NoCtr
    BY <1>6, <2>1, CtrAssumption
       DEF Create, Container, Doing, Candidate, Underway, TypeOK
  <2>. QED
    BY <2>1, <2>2
<1>7. CASE RestoreCreate
  <2>1. /\ ctr' = [gen |-> rt.cur, image |-> rt.image, state |-> "stopped"]
        /\ rt' = rt /\ op'.pc = "restore_record"
    BY <1>7, Goes DEF RestoreCreate
  <2>2. rt.image \in Images /\ rt.cur \in Gens \cup {NullGen}
    BY <1>7 DEF RestoreCreate, Rows, Pointers, Doing, Candidate, Course,
                Underway, TypeOK
  <2>3. ctr' # NoCtr
    BY <2>1, <2>2, CtrAssumption DEF Container
  <2>. QED
    BY <2>1, <2>3
<1>8. CASE Record \/ RestoreRecord
  BY <1>8, Goes DEF Record, RestoreRecord
<1>9. CASE StartContainer
  BY <1>9, <1>0, <1>1, Goes DEF StartContainer
<1>10. CASE RestoreStart
  BY <1>10, <1>0, <1>1, Goes DEF RestoreStart
<1>11. CASE DeployCutOver
  BY <1>11, Goes DEF DeployCutOver
<1>12. CASE RuntimeBecomesReady
  BY <1>12, <1>0, <1>1 DEF RuntimeBecomesReady
<1>13. CASE UNCHANGED vars
  BY <1>13 DEF vars
<1>. QED
  BY <1>2, <1>4, <1>5, <1>6, <1>7, <1>8, <1>9, <1>10, <1>11, <1>12, <1>13
     DEF Next, Replace, Repair

\* What was ready at the cutover is ready when the operation settles.
LEMMA SettleStep ==
  ASSUME Core, SettleReady, [Next]_vars
  PROVE  SettleReady'
<1>. USE DEF SettleReady, At, Core
<1>1. CASE BeginOperation
  BY <1>1, Beginnings
<1>2. CASE DeployCutOver
  BY <1>2 DEF DeployCutOver, Serving
<1>3. CASE RuntimeBecomesReady \/ UNCHANGED vars
  BY <1>3 DEF RuntimeBecomesReady, vars, TypeOK, Container
<1>4. CASE Replace /\ ~DeployCutOver
  <2>1. CASE FindTarget
    BY <2>1 DEF FindTarget, Begin, Idle
  <2>2. CASE RemoveOld
    BY <2>2 DEF RemoveOld, TypeOK
  <2>3. CASE TargetMissing \/ Provisioned \/ DeploySettled \/ Replaced
    BY <2>3 DEF TargetMissing, Provisioned, DeploySettled, Replaced, Finish,
                Idle
  <2>4. CASE Prepare \/ PrepareFails \/ RemoveOldFails \/ Create \/ Record
             \/ StartContainer \/ CandidateFails
    BY <2>4, Goes
       DEF Prepare, PrepareFails, RemoveOldFails, Create, Record,
           StartContainer, CandidateFails
  <2>. QED
    BY <1>4, <2>1, <2>2, <2>3, <2>4 DEF Replace
<1>5. CASE Repair \/ Crash
  <2>1. CASE CleanUpFails \/ MarkFailed \/ Restored \/ Unrestored
             \/ ProvisionTimedOut \/ Crash
    BY <2>1
       DEF CleanUpFails, MarkFailed, Restored, Unrestored,
           ProvisionTimedOut, Crash, Finish, Idle
  <2>2. CASE BeginRestore \/ DeployTimedOut
    BY <2>2 DEF BeginRestore, DeployTimedOut, TypeOK
  <2>3. CASE Timeout
    BY <2>3, Goes DEF Timeout, Finish, Idle
  <2>4. CASE CleanUp \/ RestoreCreate \/ RestoreRecord \/ RestoreStart
             \/ RestoreFails \/ RemoveRestored \/ RemoveTimedOut
    BY <2>4, Goes
       DEF CleanUp, RestoreCreate, RestoreRecord, RestoreStart, RestoreFails,
           RemoveRestored, RemoveTimedOut
  <2>. QED
    BY <1>5, <2>1, <2>2, <2>3, <2>4 DEF Repair
<1>. QED
  BY <1>1, <1>2, <1>3, <1>4, <1>5 DEF Next

\* If the manager is alone, a name that was freed stays free, and what an end
\* leaves to an active runtime is the current generation's container.
LEMMA NameStep ==
  ASSUME IInv, TypeOK', [Next]_vars
  PROVE  Vacant' /\ ActiveRunsCurrent'
<1>. USE DEF IInv, Core, Vacant, ActiveRunsCurrent, At, AtRest
<1>0. \A s, h : [rt EXCEPT !.status = s, !.health = h].status = s
  BY DEF TypeOK
<1>1. CASE BeginOperation
  BY <1>1, Beginnings
<1>2. CASE FindTarget \/ Prepare \/ PrepareFails \/ RemoveOld
           \/ RemoveOldFails \/ Create \/ Record \/ StartContainer
           \/ CandidateFails \/ DeployCutOver
  <2>1. CASE FindTarget
    BY <2>1 DEF FindTarget, Begin, Idle
  <2>2. CASE RemoveOld
    BY <2>2 DEF RemoveOld, TypeOK
  <2>3. CASE Prepare \/ PrepareFails \/ RemoveOldFails \/ Create \/ Record
             \/ StartContainer \/ CandidateFails \/ DeployCutOver
    BY <2>3, Goes
       DEF Prepare, PrepareFails, RemoveOldFails, Create, Record,
           StartContainer, CandidateFails, DeployCutOver
  <2>. QED
    BY <1>2, <2>1, <2>2, <2>3
<1>3. CASE TargetMissing \/ CleanUpFails \/ Timeout \/ Crash
  <2>1. rt' = rt /\ rt.status # "active"
    BY <1>3 DEF TargetMissing, CleanUpFails, Timeout, Crash, Doing, Course
  <2>2. CASE TargetMissing \/ CleanUpFails \/ Crash
    BY <2>1, <2>2 DEF TargetMissing, CleanUpFails, Crash, Finish, Idle
  <2>3. CASE Timeout
    BY <2>1, <2>3, Goes DEF Timeout, Finish, Idle
  <2>. QED
    BY <1>3, <2>2, <2>3
<1>4. CASE MarkFailed \/ ProvisionTimedOut
  BY <1>0, <1>4
     DEF MarkFailed, ProvisionTimedOut, Finish, Idle
<1>5. CASE Unrestored
  BY <1>5 DEF Unrestored, Finish, Idle
<1>6. CASE Provisioned
  BY <1>6 DEF Provisioned, Serving, CandidateIsOwn, Finish, Idle
<1>7. CASE DeploySettled
  <2>1. /\ ctr # NoCtr /\ ctr.gen = op.gen /\ ctr.image = op.image
        /\ op.gen = rt.cur /\ rt.cur # NullGen
        /\ gens[op.gen].image = op.image
    BY <1>7 DEF DeploySettled, CandidateIsOwn, Doing, Candidate, Course,
                Underway
  <2>2. rt'.cur = rt.cur /\ rt'.image = rt.image /\ ctr' = ctr /\ op' = Idle
    BY <1>7 DEF DeploySettled, Finish, TypeOK
  <2>. QED
    BY <2>1, <2>2 DEF Rows, RowsAgree, Idle
<1>8. CASE Replaced
  BY <1>8 DEF Replaced, CutOver, CandidateIsOwn, Finish, Idle
<1>9. CASE Restored
  <2>1. rt'.cur = rt.cur /\ rt'.image = rt.image
    BY <1>9 DEF Restored, TypeOK
  <2>. QED
    BY <1>9, <2>1 DEF Restored, CandidateIsOwn, Finish, Idle
<1>10. CASE CleanUp \/ RemoveRestored \/ RemoveTimedOut
  BY <1>10, Goes DEF CleanUp, RemoveRestored, RemoveTimedOut, Gone
<1>11. CASE RestoreCreate \/ RestoreRecord \/ RestoreStart \/ RestoreFails
  BY <1>11, Goes
     DEF RestoreCreate, RestoreRecord, RestoreStart, RestoreFails
<1>12. CASE BeginRestore \/ DeployTimedOut
  <2>1. ctr' = NoCtr
    BY <1>12 DEF BeginRestore, DeployTimedOut
  <2>. QED
    BY <2>1
<1>13. CASE RuntimeBecomesReady
  BY <1>13 DEF RuntimeBecomesReady, TypeOK, Container
<1>14. CASE UNCHANGED vars
  BY <1>14 DEF vars
<1>. QED
  BY <1>1, <1>2, <1>3, <1>4, <1>5, <1>6, <1>7, <1>8, <1>9, <1>10, <1>11,
     <1>12, <1>13, <1>14
     DEF Next, Replace, Repair

\* It holds at the start.
LEMMA Start == Init => IInv
<1>. USE GenAssumption, EnvAssumption, ImageAssumption, CtrAssumption
<1>. SUFFICES ASSUME Init PROVE IInv
  OBVIOUS
<1>1. TypeOK
  BY DEF Init, TypeOK, Gens, NullGen, RuntimeStatus, Lifecycle, Idle, Steps,
         OpKinds, DeployKinds
<1>2. Rows
  BY DEF Init, Rows, Pointers, RowsAgree, PromotedIsCurrent, NullGen, Gens
<1>3. /\ Doing /\ CandidateIsOwn
      /\ SettleReady /\ Vacant /\ ActiveRunsCurrent
  BY DEF Init, Idle, Doing, Candidate, Course, Underway, At, CandidateIsOwn,
         SettleReady, Vacant, ActiveRunsCurrent, AtRest
<1>. QED
  BY <1>1, <1>2, <1>3 DEF IInv, Core

-----------------------------------------------------------------------------
(***************************************************************************)
(* Ends of operations.                                                     *)
(***************************************************************************)
\* How an operation can end with the runtime active.
LEMMA EndsInOneOf ==
  ASSUME Core, TypeOK', Next, ~AtRest, AtRest', rt'.status = "active"
  PROVE  Provisioned \/ DeploySettled \/ Replaced \/ Restored \/ Unrestored
  BY EnvAssumption
     DEF Core, TypeOK, Doing, Course, At, AtRest, GoTo, Finish, Idle, Begin,
         Next, BeginOperation, Replace, Repair, NewUser, Deploy, BeginDeploy,
         NewDisabledUser, SafeRestart, ForceRestart, Rollback, FindTarget,
         TargetMissing, Prepare, PrepareFails, RemoveOld, RemoveOldFails,
         Create, Record, StartContainer, CandidateFails, DeployCutOver,
         CleanUp, CleanUpFails, MarkFailed, BeginRestore, RestoreCreate,
         RestoreRecord, RestoreStart, RestoreFails, RemoveRestored, Timeout,
         RemoveTimedOut, ProvisionTimedOut, DeployTimedOut, Crash,
         RuntimeBecomesReady

\* Whichever way, the current generation's container serves.
LEMMA EndsServingStep ==
  ASSUME Core, SettleReady, TypeOK', [Next]_vars, ~AtRest, AtRest',
         rt'.status = "active", ~(At("unrestored") /\ op.cleaning)
  PROVE  CurrentServes'
<1>. USE DEF At, AtRest, CurrentServes
<1>0. Next
  BY DEF vars
<1>1. CASE Provisioned
  <2>1. Serving /\ ctr' = ctr /\ ctr.gen = op.gen /\ ctr.image = op.image
    BY <1>1 DEF Provisioned, Core, CandidateIsOwn
  <2>2. rt'.health = "healthy" /\ rt'.cur = op.gen /\ rt'.image = op.image
    BY <1>1 DEF Provisioned
  <2>3. gens'[op.gen].life = "promoted"
    BY <1>1 DEF Provisioned, Core, TypeOK
  <2>. QED
    BY <2>1, <2>2, <2>3 DEF Serving
<1>2. CASE DeploySettled
  <2>1. /\ ctr' = ctr /\ ctr # NoCtr /\ ctr.gen = op.gen
        /\ ctr.image = op.image /\ ctr.state = "ready"
    BY <1>2 DEF DeploySettled, Core, CandidateIsOwn, SettleReady
  <2>2. /\ op.gen = rt.cur /\ rt.cur \in Gens /\ gens[rt.cur].life = "promoted"
        /\ op.image = gens[rt.cur].image /\ rt.image = gens[rt.cur].image
    BY <1>2
       DEF DeploySettled, Core, Doing, Candidate, Course, Underway, Rows,
           RowsAgree, TypeOK
  <2>3. /\ rt'.health = "healthy" /\ rt'.cur = rt.cur /\ rt'.image = rt.image
        /\ gens' = gens
    BY <1>2 DEF DeploySettled, Core, TypeOK
  <2>. QED
    BY <2>1, <2>2, <2>3
<1>3. CASE Replaced
  <2>1. Serving /\ ctr' = ctr /\ ctr.gen = op.gen /\ ctr.image = op.image
    BY <1>3 DEF Replaced, Core, CandidateIsOwn
  <2>2. rt'.health = "healthy" /\ rt'.cur = op.gen /\ rt'.image = op.image
    BY <1>3 DEF Replaced, CutOver
  <2>3. /\ rt.cur \in Gens /\ op.gen = rt.cur + 1 /\ op.image # NoImage
        /\ gens[op.gen].image = op.image
    BY <1>3 DEF Replaced, Core, Doing, Candidate, Underway, TypeOK
  <2>4. gens'[rt'.cur].life = "promoted"
    BY <1>3, <2>3, CutOverKeepsRows DEF Replaced, Core
  <2>. QED
    BY <2>1, <2>2, <2>4 DEF Serving
<1>4. CASE Restored
  <2>1. Serving /\ ctr' = ctr /\ ctr.gen = rt.cur /\ ctr.image = rt.image
    BY <1>4 DEF Restored, Core, CandidateIsOwn
  <2>2. rt'.health = "healthy" /\ rt'.cur = rt.cur /\ rt'.image = rt.image
    BY <1>4 DEF Restored, Core, TypeOK
  <2>3. rt.cur \in Gens
    BY <1>4 DEF Restored, Core, Doing, Candidate, Course, Underway, TypeOK
  <2>4. gens'[rt.cur].life = "promoted"
    BY <1>4, <2>3, RestoredRows DEF Core
  <2>. QED
    BY <2>1, <2>2, <2>4 DEF Serving
<1>5. CASE Unrestored
  BY <1>5 DEF Unrestored, Core, TypeOK
<1>. QED
  BY <1>0, <1>1, <1>2, <1>3, <1>4, <1>5, EndsInOneOf

\* No end but those excepted leaves a status of the way.
LEMMA StatusSettlesStep ==
  ASSUME Core, TypeOK', [Next]_vars, ~AtRest, AtRest', ~(Crash \/ CleanUpFails)
  PROVE  rt'.status \notin {"provisioning", "deploying", "restarting"}
<1>. USE DEF At, AtRest, GoTo, Finish, Idle
<1>1. CASE BeginOperation
  BY <1>1
     DEF BeginOperation, NewUser, Deploy, BeginDeploy, NewDisabledUser,
         SafeRestart, ForceRestart, Rollback
<1>2. CASE FindTarget \/ Prepare \/ PrepareFails \/ RemoveOld \/ RemoveOldFails
           \/ Create \/ Record \/ StartContainer \/ CandidateFails
           \/ DeployCutOver
  BY <1>2
     DEF FindTarget, Begin, Prepare, PrepareFails, RemoveOld, RemoveOldFails,
         Create, Record, StartContainer, CandidateFails, DeployCutOver, Core,
         TypeOK
<1>3. CASE CleanUp \/ BeginRestore \/ RestoreCreate \/ RestoreRecord
           \/ RestoreStart \/ RestoreFails \/ RemoveRestored
           \/ RemoveTimedOut \/ DeployTimedOut
  BY <1>3
     DEF CleanUp, BeginRestore, RestoreCreate, RestoreRecord, RestoreStart,
         RestoreFails, RemoveRestored, RemoveTimedOut, DeployTimedOut, Core,
         TypeOK
<1>4. CASE TargetMissing \/ Timeout
  BY <1>4 DEF TargetMissing, Timeout, Core, TypeOK, Doing, Course
<1>5. CASE Provisioned \/ Replaced
  BY <1>5 DEF Provisioned, Replaced, CutOver
<1>6. CASE DeploySettled \/ MarkFailed \/ Restored \/ Unrestored
           \/ ProvisionTimedOut
  BY <1>6
     DEF DeploySettled, MarkFailed, Restored, Unrestored, ProvisionTimedOut,
         Core, TypeOK
<1>7. CASE RuntimeBecomesReady \/ UNCHANGED vars
  BY <1>7 DEF RuntimeBecomesReady, vars
<1>. QED
  BY <1>1, <1>2, <1>3, <1>4, <1>5, <1>6, <1>7 DEF Next, Replace, Repair

-----------------------------------------------------------------------------
(***************************************************************************)
(* Refinement of RuntimePromise.                                           *)
(***************************************************************************)
InForce == {g \in Gens : gens[g].life = "promoted"}

PromiseStep == Promise!Next \/ UNCHANGED Promise!vars

\* A step that moves neither the row's pointers nor "promoted" is a stutter.
LEMMA Stutters ==
  ASSUME rt'.cur = rt.cur, rt'.image = rt.image,
         rt'.prevGen = rt.prevGen, rt'.prevImage = rt.prevImage,
         \A g \in Gens :
           gens'[g].life = "promoted" <=> gens[g].life = "promoted"
  PROVE  PromiseStep
<1>1. InForce' = InForce
  BY DEF InForce
<1>. QED
  BY <1>1 DEF PromiseStep, Promise!vars, InForce

\* A cutover is a switch.
LEMMA CutOverSwitches ==
  ASSUME Core, TypeOK', NEW s, NEW h, CutOver(s, h), Underway, ~At("settle"),
         op.kind # "new_user"
  PROVE  PromiseStep
<1>1. /\ rt.cur \in Gens /\ op.gen \in Gens /\ op.gen = rt.cur + 1
      /\ op.image # NoImage /\ gens[op.gen].image = op.image
      /\ op.image \in Images \cup {NoImage}
  BY DEF Core, TypeOK, Doing, Candidate
<1>2. /\ rt'.cur = op.gen /\ rt'.image = op.image
      /\ rt'.prevGen = rt.cur /\ rt'.prevImage = rt.image
  BY DEF CutOver
<1>3. Rows' /\ gens'[rt'.cur].life = "promoted"
  BY <1>1, CutOverKeepsRows DEF Core
<1>4. InForce' = {op.gen}
  BY <1>1, <1>2, <1>3 DEF Rows, PromotedIsCurrent, InForce
<1>5. Promise!Switch
  BY <1>1, <1>2, <1>4, GenAssumption
     DEF Promise!Switch, Promise!Nothing, InForce, Gens, NullGen
<1>. QED
  BY <1>5 DEF PromiseStep, Promise!Next

\* Every step is a step of the promise or a stutter.
LEMMA StepRefines ==
  ASSUME Core, TypeOK', [Next]_vars
  PROVE  PromiseStep
<1>. USE GenAssumption DEF NullGen
<1>0. /\ rt \in RuntimeRows /\ gens \in GenerationRows /\ op \in Operations
  BY Types DEF Core
<1>1. ASSUME rt'.cur = rt.cur, rt'.image = rt.image,
             rt'.prevGen = rt.prevGen, rt'.prevImage = rt.prevImage,
             gens' = gens
      PROVE  PromiseStep
  BY <1>1, Stutters
<1>2. ASSUME rt'.cur = rt.cur, rt'.image = rt.image,
             rt'.prevGen = rt.prevGen, rt'.prevImage = rt.prevImage,
             NEW g, NEW i, NEW e, CreateGeneration(g, i, e)
      PROVE  PromiseStep
  <2>1. \A h \in Gens :
          gens'[h].life = "promoted" <=> gens[h].life = "promoted"
    BY <1>0, <1>2 DEF CreateGeneration, Free, GenerationRows, GenerationRow
  <2>. QED
    BY <1>2, <2>1, Stutters
<1>3. ASSUME rt'.cur = rt.cur, rt'.image = rt.image,
             rt'.prevGen = rt.prevGen, rt'.prevImage = rt.prevImage,
             Underway, ~At("settle"),
             NEW l \in {"starting", "failed"},
             gens' = [gens EXCEPT ![op.gen].life = l]
      PROVE  PromiseStep
  <2>1. op.gen \in Gens /\ gens[op.gen].life # "promoted"
    BY <1>0, <1>3
       DEF Core, Doing, Candidate, Rows, PromotedIsCurrent, Operations,
           RuntimeRows, Gens
  <2>2. \A h \in Gens :
          gens'[h].life = "promoted" <=> gens[h].life = "promoted"
    BY <1>0, <1>3, <2>1 DEF GenerationRows, GenerationRow
  <2>. QED
    BY <1>3, <2>2, Stutters
<1>4. ASSUME NEW s, rt' = [rt EXCEPT !.status = s] 
      PROVE  /\ rt'.cur = rt.cur /\ rt'.image = rt.image
             /\ rt'.prevGen = rt.prevGen /\ rt'.prevImage = rt.prevImage
  BY <1>0, <1>4 DEF RuntimeRows
<1>5. ASSUME NEW s, NEW h, rt' = [rt EXCEPT !.status = s, !.health = h]
      PROVE  /\ rt'.cur = rt.cur /\ rt'.image = rt.image
             /\ rt'.prevGen = rt.prevGen /\ rt'.prevImage = rt.prevImage
  BY <1>0, <1>5 DEF RuntimeRows
<1>6. CASE BeginOperation
  <2>1. ASSUME NEW i \in Images, NEW e \in Envs, NewUser(i, e)
        PROVE  PromiseStep
    BY <1>2, <1>4, <2>1 DEF NewUser
  <2>2. ASSUME NEW i \in Images, NEW e \in Envs, NEW k, BeginDeploy(k, i, e)
        PROVE  PromiseStep
    BY <1>2, <1>4, <2>2 DEF BeginDeploy
  <2>3. CASE SafeRestart
    BY <1>2, <1>4, <2>3 DEF SafeRestart, BeginDeploy
  <2>4. CASE ForceRestart
    BY <1>2, <1>4, <2>4 DEF ForceRestart
  <2>5. CASE NewDisabledUser \/ Rollback
    BY <1>1, <1>4, <2>5 DEF NewDisabledUser, Rollback
  <2>. QED
    BY <1>6, <2>1, <2>2, <2>3, <2>4, <2>5 DEF BeginOperation, Deploy
<1>7. CASE Replace
  <2>1. CASE FindTarget
    BY <1>2, <2>1 DEF FindTarget
  <2>2. CASE TargetMissing \/ Prepare \/ PrepareFails \/ RemoveOld
             \/ RemoveOldFails \/ Create \/ StartContainer \/ CandidateFails
    BY <1>1, <2>2
       DEF TargetMissing, Prepare, PrepareFails, RemoveOld, RemoveOldFails,
           Create, StartContainer, CandidateFails
  <2>3. CASE Record
    BY <1>3, <2>3 DEF Record, Underway, At
  <2>4. CASE Provisioned
    <3>1. /\ rt.cur = 0 /\ rt.image = NoImage
          /\ op.gen = 1 /\ op.image \in Images /\ 1 \in Gens
      BY <1>0, <2>4
         DEF Provisioned, Core, Doing, Candidate, Underway, At, Rows,
             Pointers, Operations, Gens
    <3>2. /\ rt'.cur = 1 /\ rt'.image = op.image
          /\ rt'.prevGen = 0 /\ rt'.prevImage = NoImage
      BY <2>4, <3>1 DEF Provisioned
    <3>3. InForce' = {1}
      BY <1>0, <2>4, <3>1
         DEF Provisioned, InForce, Core, Rows, PromotedIsCurrent,
             GenerationRows, GenerationRow, Gens
    <3>4. Promise!Provide
      BY <3>1, <3>2, <3>3 DEF Promise!Provide, Promise!Nothing, InForce
    <3>. QED
      BY <3>4 DEF PromiseStep, Promise!Next
  <2>5. CASE DeployCutOver
    BY <2>5, CutOverSwitches DEF DeployCutOver, DeployKinds, Underway, At
  <2>6. CASE Replaced
    BY <2>6, CutOverSwitches DEF Replaced, Underway, At
  <2>7. CASE DeploySettled
    BY <1>1, <1>5, <2>7 DEF DeploySettled
  <2>. QED
    BY <1>7, <2>1, <2>2, <2>3, <2>4, <2>5, <2>6, <2>7 DEF Replace
<1>8. CASE Repair
  <2>1. CASE CleanUp \/ BeginRestore \/ RestoreCreate \/ RestoreStart
             \/ RestoreFails \/ RemoveRestored \/ RemoveTimedOut \/ Timeout
             \/ DeployTimedOut \/ (CleanUpFails /\ ~FailurePending)
    BY <1>1, <2>1
       DEF CleanUp, CleanUpFails, BeginRestore, RestoreCreate, RestoreStart,
           RestoreFails, RemoveRestored, RemoveTimedOut, Timeout,
           DeployTimedOut
  <2>2. CASE MarkFailed \/ Unrestored \/ ProvisionTimedOut
             \/ (CleanUpFails /\ FailurePending)
    BY <1>3, <1>5, <2>2
       DEF MarkFailed, Unrestored, ProvisionTimedOut, CleanUpFails,
           FailurePending, Underway, At
  <2>3. CASE RestoreRecord
    <3>1. rt.cur \in Gens /\ op.gen = rt.cur + 1 /\ rt' = rt
      BY <1>0, <2>3
         DEF RestoreRecord, Core, Doing, Candidate, Course, Underway, At,
             RuntimeRows
    <3>2. InForce' = {}
      BY <2>3, <3>1, RestoreRecordRows
         DEF Core, Rows, PromotedIsCurrent, InForce
    <3>3. InForce = {} \/ InForce = {rt.cur}
      BY DEF Core, Rows, PromotedIsCurrent, InForce
    <3>4. CASE InForce = {rt.cur}
      BY <3>1, <3>2, <3>4
         DEF PromiseStep, Promise!Next, Promise!Withdraw, InForce
    <3>5. CASE InForce = {}
      BY <3>1, <3>2, <3>5 DEF PromiseStep, Promise!vars, InForce
    <3>. QED
      BY <3>3, <3>4, <3>5
  <2>4. CASE Restored
    <3>1. rt.cur \in Gens
      BY <1>0, <2>4
         DEF Restored, Core, Doing, Candidate, Course, Underway, At,
             RuntimeRows
    <3>2. /\ rt'.cur = rt.cur /\ rt'.image = rt.image
          /\ rt'.prevGen = rt.prevGen /\ rt'.prevImage = rt.prevImage
      BY <1>5, <2>4 DEF Restored
    <3>3. InForce' = {rt.cur}
      BY <2>4, <3>1, RestoredRows DEF Core, Rows, PromotedIsCurrent, InForce
    <3>4. InForce = {} \/ InForce = {rt.cur}
      BY DEF Core, Rows, PromotedIsCurrent, InForce
    <3>5. rt.cur # 0
      BY <3>1 DEF Gens
    <3>6. CASE InForce = {rt.cur}
      BY <3>2, <3>3, <3>6 DEF PromiseStep, Promise!vars, InForce
    <3>7. CASE InForce = {}
      BY <3>2, <3>3, <3>5, <3>7
         DEF PromiseStep, Promise!Next, Promise!Reinstate, Promise!Nothing,
             InForce
    <3>. QED
      BY <3>4, <3>6, <3>7
  <2>. QED
    BY <1>8, <2>1, <2>2, <2>3, <2>4 DEF Repair
<1>9. CASE Crash \/ RuntimeBecomesReady \/ UNCHANGED vars
  BY <1>1, <1>9 DEF Crash, RuntimeBecomesReady, vars
<1>. QED
  BY <1>6, <1>7, <1>8, <1>9 DEF Next

-----------------------------------------------------------------------------
(***************************************************************************)
(* What SharedRuntimeProofs needs: steps of a manager that is not the only *)
(* one to touch the container.                                             *)
(***************************************************************************)

\* No deadline has passed.
Patient == op.pc \notin {"timed_out", "timeout_recover"} /\ ~op.cleaning

\* None passes in a step.
LEMMA PatientStep ==
  ASSUME TypeOK, Patient, ~MayTimeout, [Next]_vars
  PROVE  Patient'
<1>. USE DEF Patient, At
<1>0. /\ \A p : GoTo(p) => op'.cleaning = op.cleaning
      /\ op' = Idle => Patient'
      /\ \A k, g, i, e : Begin(k, g, i, e) => Patient'
  <2>1. ASSUME NEW p, GoTo(p) PROVE op'.cleaning = op.cleaning
    BY <2>1 DEF TypeOK, GoTo
  <2>2. ASSUME op' = Idle PROVE Patient'
    BY <2>2 DEF Idle
  <2>3. ASSUME NEW k, NEW g, NEW i, NEW e, Begin(k, g, i, e) PROVE Patient'
    BY <2>3 DEF Begin, Idle
  <2>. QED
    BY <2>1, <2>2, <2>3
<1>1. CASE BeginOperation
  BY <1>0, <1>1
     DEF BeginOperation, NewUser, Deploy, BeginDeploy, NewDisabledUser,
         SafeRestart, ForceRestart, Rollback, Idle
<1>2. CASE FindTarget
  BY <1>0, <1>2 DEF FindTarget
<1>3. CASE RemoveOld \/ BeginRestore
  BY <1>3 DEF RemoveOld, BeginRestore, TypeOK
<1>4. CASE TargetMissing \/ Provisioned \/ DeploySettled \/ Replaced
           \/ CleanUpFails \/ MarkFailed \/ Restored \/ Unrestored \/ Crash
           \/ ProvisionTimedOut
  BY <1>0, <1>4
     DEF TargetMissing, Provisioned, DeploySettled, Replaced, CleanUpFails,
         MarkFailed, Restored, Unrestored, Crash, ProvisionTimedOut, Finish
<1>5. CASE Prepare \/ PrepareFails \/ RemoveOldFails \/ Create \/ Record
           \/ StartContainer \/ CandidateFails \/ DeployCutOver
  BY <1>0, <1>5, Goes
     DEF Prepare, PrepareFails, RemoveOldFails, Create, Record,
         StartContainer, CandidateFails, DeployCutOver
<1>6. CASE CleanUp \/ RestoreCreate \/ RestoreRecord \/ RestoreStart
           \/ RestoreFails \/ RemoveRestored
  BY <1>0, <1>6, Goes
     DEF CleanUp, RestoreCreate, RestoreRecord, RestoreStart, RestoreFails,
         RemoveRestored
<1>7. ~(Timeout \/ RemoveTimedOut \/ DeployTimedOut)
  BY DEF Timeout, RemoveTimedOut, DeployTimedOut
<1>8. CASE RuntimeBecomesReady \/ UNCHANGED vars
  BY <1>8 DEF RuntimeBecomesReady, vars
<1>. QED
  BY <1>1, <1>2, <1>3, <1>4, <1>5, <1>6, <1>7, <1>8
     DEF Next, Replace, Repair

\* Then a runtime that is active at rest still serves after a step, and one
\* that comes to rest active serves.
LEMMA ServingStep ==
  ASSUME Core, SettleReady, Patient, ActiveMeansServing, TypeOK', [Next]_vars
  PROVE  ActiveMeansServing'
<1>. SUFFICES ASSUME AtRest', rt'.status = "active"
              PROVE  CurrentServes'
  BY DEF ActiveMeansServing
<1>1. CASE ~AtRest
  BY <1>1, EndsServingStep DEF Patient
<1>2. CASE AtRest
  <2>1. CASE BeginOperation
    BY <2>1, Beginnings DEF Core
  <2>2. CASE RuntimeBecomesReady \/ UNCHANGED vars
    BY <1>2, <2>2
       DEF RuntimeBecomesReady, vars, ActiveMeansServing, CurrentServes
  <2>3. ~(Replace \/ Repair \/ Crash)
    BY <1>2
       DEF AtRest, At, Replace, FindTarget, TargetMissing, Prepare,
           PrepareFails, RemoveOld, RemoveOldFails, Create, Record,
           StartContainer, CandidateFails, Provisioned, DeployCutOver,
           DeploySettled, Replaced, Repair, CleanUp, CleanUpFails,
           MarkFailed, BeginRestore, RestoreCreate, RestoreRecord,
           RestoreStart, Restored, RestoreFails, RemoveRestored, Unrestored,
           Timeout, RemoveTimedOut, ProvisionTimedOut, DeployTimedOut, Crash
  <2>. QED
    BY <2>1, <2>2, <2>3 DEF Next
<1>. QED
  BY <1>1, <1>2

\* All that a step does to the container.
LEMMA ContainerStep ==
  ASSUME Core, [Next]_vars
  PROVE  \/ ctr' = ctr
         \/ ctr' = NoCtr
         \/ ctr # NoCtr /\ ctr' = [ctr EXCEPT !.state = "stopped"]
         \/ /\ ctr = NoCtr
            /\ \E g \in Gens, i \in Images :
                 ctr' = [gen |-> g, image |-> i, state |-> "stopped"]
         \/ ctr # NoCtr /\ ctr' = Started
         \/ RuntimeBecomesReady
<1>1. CASE BeginOperation
  BY <1>1, Beginnings DEF Core
<1>2. CASE Create
  BY <1>2 DEF Create, At, Core, TypeOK, Doing, Candidate, Underway
<1>3. CASE RestoreCreate
  <2>1. rt.cur \in Gens /\ rt.image \in Images
    BY <1>3
       DEF RestoreCreate, At, Core, TypeOK, Rows, Pointers, Doing, Candidate,
           Course, Underway
  <2>. QED
    BY <1>3, <2>1 DEF RestoreCreate
<1>4. CASE StartContainer \/ RestoreStart
  BY <1>4 DEF StartContainer, RestoreStart
<1>5. CASE RemoveOld \/ CleanUp \/ RemoveRestored \/ RemoveTimedOut
  BY <1>5 DEF RemoveOld, CleanUp, RemoveRestored, RemoveTimedOut, Gone
<1>6. CASE RemoveOldFails \/ CleanUpFails
  BY <1>6 DEF RemoveOldFails, CleanUpFails, Undisturbed, Stopped
<1>7. CASE FindTarget \/ TargetMissing \/ Prepare \/ PrepareFails \/ Record
           \/ CandidateFails \/ Provisioned \/ DeployCutOver
           \/ DeploySettled \/ Replaced
  BY <1>7
     DEF FindTarget, TargetMissing, Prepare, PrepareFails, Record,
         CandidateFails, Provisioned, DeployCutOver, DeploySettled, Replaced
<1>8. CASE MarkFailed \/ BeginRestore \/ RestoreRecord \/ Restored
           \/ RestoreFails \/ Unrestored \/ Timeout \/ ProvisionTimedOut
           \/ DeployTimedOut \/ Crash \/ UNCHANGED vars
  BY <1>8
     DEF MarkFailed, BeginRestore, RestoreRecord, Restored, RestoreFails,
         Unrestored, Timeout, ProvisionTimedOut, DeployTimedOut, Crash, vars
<1>. QED
  BY <1>1, <1>2, <1>3, <1>4, <1>5, <1>6, <1>7, <1>8
     DEF Next, Replace, Repair

\* What another process may do: make a container under a free name, or change
\* the state of the one there.  A runtime that is ready stays so unless it
\* exits.
Guest(exits) ==
  /\ UNCHANGED <<rt, gens, op>>
  /\ \/ ctr' = ctr
     \/ ctr = NoCtr /\ ctr' \in Container
     \/ /\ ctr # NoCtr
        /\ \E s \in {"stopped", "starting", "ready"} :
             /\ ctr.state = "ready" => s = "ready" \/ exits
             /\ ctr' = [ctr EXCEPT !.state = s]

\* It leaves the rows, the operation and the container they need.
LEMMA GuestStep ==
  ASSUME Core, NEW exits, Guest(exits)
  PROVE  Core'
<1>. USE DEF Core, Guest
<1>1. ctr # NoCtr =>
        \/ ctr' = ctr
        \/ /\ ctr' \in Container /\ ctr' # NoCtr
           /\ ctr'.gen = ctr.gen /\ ctr'.image = ctr.image
  BY CtrAssumption DEF TypeOK, Container
<1>2. TypeOK'
  BY <1>1 DEF TypeOK, Gens, Container
<1>3. Rows' /\ Doing'
  BY DEF Rows, Pointers, RowsAgree, PromotedIsCurrent, Doing, Candidate,
         Course, Underway, At
<1>4. CandidateIsOwn'
  BY <1>1 DEF CandidateIsOwn
<1>. QED
  BY <1>2, <1>3, <1>4

\* And, if the runtime does not exit, what is ready stays so.
LEMMA GuestServes ==
  ASSUME Core, SettleReady, ActiveMeansServing, Guest(FALSE)
  PROVE  SettleReady' /\ ActiveMeansServing'
<1>. USE DEF Guest
<1>1. ctr # NoCtr /\ ctr.state = "ready" =>
        \/ ctr' = ctr
        \/ /\ ctr' # NoCtr /\ ctr'.state = "ready"
           /\ ctr'.gen = ctr.gen /\ ctr'.image = ctr.image
  BY CtrAssumption DEF Core, TypeOK, Container
<1>2. SettleReady'
  BY <1>1 DEF SettleReady, At, Core, CandidateIsOwn
<1>3. ActiveMeansServing'
  BY <1>1 DEF ActiveMeansServing, CurrentServes, AtRest, At
<1>. QED
  BY <1>2, <1>3

-----------------------------------------------------------------------------
(***************************************************************************)
(* Theorems.                                                               *)
(***************************************************************************)
\* The inductive invariant holds: of every step, TypeStep, RowsStep, DoingStep
\* and OwnStep, SettleStep and NameStep.
THEOREM Invariance == Spec => []IInv
<1>1. IInv /\ [Next]_vars => IInv'
  BY TypeStep, RowsStep, DoingStep, OwnStep, SettleStep,
     NameStep
     DEF IInv, Core
<1>. QED
  BY Start, <1>1, PTL DEF Spec

\* Every row, the container and the operation keep their types.
THEOREM TypeCorrect == Spec => []TypeOK
<1>1. IInv => TypeOK
  BY DEF IInv, Core, Rows
<1>. QED
  BY <1>1, Invariance, PTL

\* Only the current generation's row is promoted, whatever failed or was
\* restored, and wherever the manager died.
THEOREM OnePromoted == Spec => []PromotedIsCurrent
<1>1. IInv => PromotedIsCurrent
  BY DEF IInv, Core, Rows
<1>. QED
  BY <1>1, Invariance, PTL

\* The images in the runtime row are those of the generations it names, and
\* the rollback target is the older.
THEOREM Agreement == Spec => []RowsAgree
<1>1. IInv => RowsAgree
  BY DEF IInv, Core, Rows
<1>. QED
  BY <1>1, Invariance, PTL

\* The container of a runtime that is active and at rest is the current
\* generation's, never a candidate's.
THEOREM ActiveIsCurrent == Spec => []ActiveRunsCurrent
<1>1. IInv => ActiveRunsCurrent
  BY DEF IInv, Core, Rows
<1>. QED
  BY <1>1, Invariance, PTL

\* An operation that ends with the runtime active, done or undone, leaves the
\* current generation's container ready: what the services' last commits claim.
THEOREM EndedActiveServes == Spec => EndsServing
<1>1. IInv /\ [Next]_vars =>
        [~AtRest /\ AtRest' /\ rt'.status = "active"
          /\ ~(At("unrestored") /\ op.cleaning) => CurrentServes']_vars
  BY TypeStep, EndsServingStep DEF IInv
<1>. QED
  BY <1>1, Invariance, PTL DEF Spec, EndsServing

\* No operation that ends other than by death or a Docker failure in an except
\* block leaves the runtime provisioning, deploying or restarting.
THEOREM Settling == Spec => StatusSettles
<1>1. IInv /\ [Next]_vars =>
        [~AtRest /\ AtRest' /\ ~(Crash \/ CleanUpFails)
          => rt'.status \notin
               {"provisioning", "deploying", "restarting"}]_vars
  BY TypeStep, StatusSettlesStep DEF IInv
<1>. QED
  BY <1>1, Invariance, PTL DEF Spec, StatusSettles

\* The two tables implement what callers may rely on (RuntimePromise): a
\* cutover is one step to the next generation with the old one as its target,
\* through candidates that fail, restorations, deadlines and crashes.
THEOREM Refinement == Spec => ImplementsPromise
<1>1. Init => Promise!Init
  BY DEF Init, Promise!Init, Promise!Nothing, NullGen
<1>2. IInv /\ [Next]_vars => [Promise!Next]_(Promise!vars)
  BY TypeStep, StepRefines DEF IInv, PromiseStep
<1>. QED
  BY <1>1, <1>2, Invariance, PTL DEF Spec, ImplementsPromise, Promise!Spec

=============================================================================
