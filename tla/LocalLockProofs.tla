--------------------------- MODULE LocalLockProofs ---------------------------
(***************************************************************************)
(* Proofs about the user lock of OperationRunner with the local backend,   *)
(* for any sets of operations, users and workers and any bounds: the set   *)
(* of keys and the work of the workers never part, and no worker is        *)
(* refused a lock.  (With the Postgres backend they do part: see the run   *)
(* runner_conflict.)                                                       *)
(***************************************************************************)
EXTENDS OperationRunnerProofs

-----------------------------------------------------------------------------
(***************************************************************************)
(* The inductive invariant: IInv, and the two facts below.                 *)
(***************************************************************************)
\* A row that exists is some user's.
RowsHaveUsers == \A o \in Ops : status[o] # "none" => userOf[o] \in Users

\* Only the local set is used, and has a key once while a worker is inside
\* an operation of the user.
LocalTable ==
  \A u \in Users :
    /\ held[LocalConn][u] = IF \E w \in Workers : Working(w, u) THEN 1 ELSE 0
    /\ \A d \in Conns : d # LocalConn => held[d][u] = 0

LocalInv == IInv /\ RowsHaveUsers /\ LocalTable

\* The local set is one of the tables.
LEMMA LocalConnThere == LocalConn \in Conns
BY PoolAssumption DEF LocalConn, Conns

\* What taking a key does to the set.
LEMMA LockLocal ==
  ASSUME TypeOK, NEW u \in Users, held' = Lock(LocalConn, u)
  PROVE  /\ held'[LocalConn][u] = held[LocalConn][u] + 1
         /\ \A v \in Users : v # u => held'[LocalConn][v] = held[LocalConn][v]
         /\ \A d \in Conns : d # LocalConn => held'[d] = held[d]
BY LocalConnThere DEF TypeOK, LockTypeOK, Lock

\* What giving it back does.
LEMMA UnlockLocal ==
  ASSUME TypeOK, NEW u \in Users, held' = Unlock(LocalConn, u)
  PROVE  /\ held[LocalConn][u] = 1 => held'[LocalConn][u] = 0
         /\ \A v \in Users : v # u => held'[LocalConn][v] = held[LocalConn][v]
         /\ \A d \in Conns : d # LocalConn => held'[d] = held[d]
BY LocalConnThere DEF TypeOK, LockTypeOK, Unlock

\* The set refuses a key exactly while it has it.
LEMMA CanLockLocal ==
  ASSUME Backend = "local", TypeOK, LocalTable, NEW u \in Users
  PROVE  CanLock(LocalConn, u) <=> ~\E w \in Workers : Working(w, u)
BY LocalConnThere DEF CanLock, LocalTable

\* A worker in hand of an operation is inside one of its user.
LEMMA WorkHasUser ==
  ASSUME IInv, RowsHaveUsers, NEW w \in Workers, phase[w] \in Active
  PROVE  userOf[job[w]] \in Users /\ Working(w, userOf[job[w]])
BY DEF IInv, WorkIsRunning, RowsHaveUsers, Working

\* What a worker takes is a queued row, and so somebody's.
LEMMA HeadQueued ==
  ASSUME IInv, NEW w \in Workers, Take(w)
  PROVE  Head(queue) \in Ops /\ status[Head(queue)] = "queued"
<1>1. queue \in Seq(Ops) /\ queue # << >>
  BY DEF IInv, TypeOK, Take
<1>2. 1 \in 1 .. Len(queue) /\ Head(queue) = queue[1]
  BY <1>1
<1>. QED
  BY <1>1, <1>2 DEF IInv, HeldOnce

-----------------------------------------------------------------------------
(***************************************************************************)
(* Every step keeps it.                                                    *)
(***************************************************************************)
\* A row gets its user with its existence, and keeps it.
LEMMA UsersStep ==
  ASSUME IInv, RowsHaveUsers, [Next]_vars
  PROVE  RowsHaveUsers'
<1>. USE DEF IInv, TypeOK
<1>1. CASE \E o \in Ops, u \in Users, k \in Kinds : Submit(o, u, k)
  BY <1>1 DEF Submit, RowsHaveUsers
<1>2. CASE ~\E o \in Ops, u \in Users, k \in Kinds : Submit(o, u, k)
  <2>1. userOf' = userOf
    BY <1>2
       DEF Next, WorkerStep, Take, Run, Succeed, Fail, Timeout, End,
           AwaitCleanup, EndCleanup, LoseWorker, ReadRequest, Stop, Start,
           GraceElapses, vars, rowVars
  <2>2. ASSUME NEW o \in Ops, status[o] = "none"
        PROVE  status'[o] = "none"
    <3>1. ASSUME NEW w \in Workers, phase[w] \in Active
          PROVE  job[w] \in Ops /\ job[w] # o
      BY <2>2, <3>1 DEF WorkIsRunning
    <3>2. CASE \E w \in Workers : Take(w)
      <4>1. PICK w \in Workers : Take(w)
        BY <3>2
      <4>2. Head(queue) \in Ops /\ Head(queue) # o
        BY <2>2, <4>1, HeadQueued
      <4>3. \A p \in Ops : p # Head(queue) => status'[p] = status[p]
        BY <4>1, <4>2 DEF Take, Attempt, Acquire, Conflict
      <4>. QED
        BY <2>2, <4>2, <4>3
    <3>3. CASE \E w \in Workers :
                 Succeed(w) \/ Fail(w) \/ Timeout(w) \/ EndCleanup(w)
      <4>1. PICK w \in Workers :
              Succeed(w) \/ Fail(w) \/ Timeout(w) \/ EndCleanup(w)
        BY <3>3
      <4>2. phase[w] \in Active
        BY <4>1 DEF Succeed, Fail, Timeout, EndCleanup, Active
      <4>3. job[w] \in Ops /\ job[w] # o
        BY <3>1, <4>2
      <4>4. \E e \in Final : status' = [status EXCEPT ![job[w]] = e]
        BY <4>1 DEF Succeed, Fail, Timeout, EndCleanup, End, Final
      <4>. QED
        BY <2>2, <4>3, <4>4
    <3>4. CASE Start
      BY <2>2, <3>4 DEF Start, Stale, Inflight
    <3>. QED
      BY <1>2, <2>2, <3>2, <3>3, <3>4
         DEF Next, WorkerStep, Run, AwaitCleanup, LoseWorker, ReadRequest,
             Stop, GraceElapses, vars, rowVars
  <2>. QED
    BY <2>1, <2>2 DEF RowsHaveUsers
<1>. QED
  BY <1>1, <1>2

\* The worker's operation is over, and with it the key.
LEMMA TableReleased ==
  ASSUME LocalInv, NEW w \in Workers, phase[w] \in Active,
         held' = Unlock(LocalConn, userOf[job[w]]), userOf' = userOf,
         phase'[w] \notin Active,
         \A v \in Workers : v # w => phase'[v] = phase[v] /\ job'[v] = job[v]
  PROVE  LocalTable'
<1>0. IInv /\ RowsHaveUsers /\ LocalTable /\ TypeOK
  BY DEF LocalInv, IInv
<1>1. PICK u \in Users : u = userOf[job[w]] /\ Working(w, u)
  BY <1>0, WorkHasUser
<1>2. held[LocalConn][u] = 1
  BY <1>0, <1>1 DEF LocalTable
<1>3. /\ held'[LocalConn][u] = 0
      /\ \A v \in Users : v # u => held'[LocalConn][v] = held[LocalConn][v]
      /\ \A d \in Conns : d # LocalConn => held'[d] = held[d]
  BY <1>0, <1>1, <1>2, UnlockLocal
<1>4. ASSUME NEW v \in Workers
      PROVE  ~Working(v, u)'
  <2>1. CASE v = w
    BY <2>1 DEF Working
  <2>2. CASE v # w
    <3>1. ~Working(v, u)
      BY <1>0, <1>1, <2>2
         DEF IInv, OneInflightPerUser, WorkIsRunning, HeldOnce, Working,
             Inflight
    <3>. QED
      BY <2>2, <3>1 DEF Working
  <2>. QED
    BY <2>1, <2>2
<1>5. ASSUME NEW x \in Users, x # u, NEW v \in Workers
      PROVE  Working(v, x)' <=> Working(v, x)
  <2>1. CASE v = w
    BY <1>1, <1>5, <2>1 DEF Working
  <2>2. CASE v # w
    BY <2>2 DEF Working
  <2>. QED
    BY <2>1, <2>2
<1>6. ASSUME NEW x \in Users
      PROVE  /\ held'[LocalConn][x]
                  = IF \E v \in Workers : Working(v, x)' THEN 1 ELSE 0
             /\ \A d \in Conns : d # LocalConn => held'[d][x] = 0
  <2>1. CASE x = u
    BY <1>0, <1>3, <1>4, <2>1 DEF LocalTable
  <2>2. CASE x # u
    BY <1>0, <1>3, <1>5, <2>2 DEF LocalTable
  <2>. QED
    BY <2>1, <2>2
<1>. QED
  BY <1>6 DEF LocalTable

\* A worker that takes an operation takes the key nobody works under.
LEMMA TableTake ==
  ASSUME Backend = "local", LocalInv, NEW w \in Workers, Take(w)
  PROVE  LocalTable'
<1>0. IInv /\ RowsHaveUsers /\ LocalTable /\ TypeOK
  BY DEF LocalInv, IInv
<1>1. PICK o \in Ops : o = Head(queue) /\ userOf[o] \in Users
  BY <1>0, HeadQueued DEF RowsHaveUsers
<1>2. PICK u \in Users : u = userOf[o]
  BY <1>1
<1>3. userOf' = userOf
  BY DEF Take
<1>4. CASE Acquire(w, o)
  <2>1. /\ CanLock(LocalConn, u) /\ held' = Lock(LocalConn, u)
        /\ phase'[w] \in Active /\ job'[w] = o /\ phase[w] \notin Active
        /\ \A v \in Workers : v # w => phase'[v] = phase[v] /\ job'[v] = job[v]
    BY <1>0, <1>2, <1>4 DEF Acquire, LockConn, TypeOK, Active, Take
  <2>2. \A v \in Workers : ~Working(v, u)
    BY <1>0, <1>1, <2>1, CanLockLocal
  <2>3. /\ held'[LocalConn][u] = held[LocalConn][u] + 1
        /\ \A v \in Users : v # u => held'[LocalConn][v] = held[LocalConn][v]
        /\ \A d \in Conns : d # LocalConn => held'[d] = held[d]
    BY <1>0, <1>1, <2>1, LockLocal
  <2>4. held[LocalConn][u] = 0
    BY <1>0, <1>1, <2>2 DEF LocalTable
  <2>5. Working(w, u)'
    BY <1>2, <1>3, <2>1 DEF Working
  <2>6. ASSUME NEW x \in Users, x # u, NEW v \in Workers
        PROVE  Working(v, x)' <=> Working(v, x)
    <3>1. CASE v = w
      BY <1>2, <1>3, <2>1, <2>6, <3>1 DEF Working
    <3>2. CASE v # w
      BY <1>3, <2>1, <3>2 DEF Working
    <3>. QED
      BY <3>1, <3>2
  <2>7. ASSUME NEW x \in Users
        PROVE  /\ held'[LocalConn][x]
                    = IF \E v \in Workers : Working(v, x)' THEN 1 ELSE 0
               /\ \A d \in Conns : d # LocalConn => held'[d][x] = 0
    <3>1. CASE x = u
      BY <1>0, <2>3, <2>4, <2>5, <3>1 DEF LocalTable
    <3>2. CASE x # u
      BY <1>0, <2>3, <2>6, <3>2 DEF LocalTable
    <3>. QED
      BY <3>1, <3>2
  <2>. QED
    BY <2>7 DEF LocalTable
<1>5. CASE UNCHANGED <<held, workerVars>>
  BY <1>0, <1>3, <1>5 DEF LocalTable, Working, workerVars
<1>. QED
  BY <1>1, <1>4, <1>5 DEF Take, Attempt, Conflict

\* Every step keeps key and work together.
LEMMA TableStep ==
  ASSUME Backend = "local", LocalInv, [Next]_vars
  PROVE  LocalTable'
<1>0. IInv /\ RowsHaveUsers /\ LocalTable /\ TypeOK
  BY DEF LocalInv, IInv
<1>1. ASSUME NEW o \in Ops, NEW u \in Users, NEW k \in Kinds, Submit(o, u, k)
      PROVE  LocalTable'
  <2>1. /\ UNCHANGED <<phase, job, held>> /\ status[o] = "none"
        /\ userOf' = [userOf EXCEPT ![o] = u]
    BY <1>1 DEF Submit, workerVars
  <2>2. ASSUME NEW w \in Workers, NEW x \in Users
        PROVE  Working(w, x)' <=> Working(w, x)
    <3>1. phase[w] \in Active => job[w] \in Ops /\ job[w] # o
      BY <1>0, <2>1 DEF IInv, WorkIsRunning
    <3>. QED
      BY <1>0, <2>1, <3>1 DEF Working, TypeOK
  <2>. QED
    BY <1>0, <2>1, <2>2 DEF LocalTable
<1>2. ASSUME NEW w \in Workers, Run(w) \/ AwaitCleanup(w)
      PROVE  LocalTable'
  <2>1. /\ UNCHANGED <<job, held, userOf>>
        /\ \A v \in Workers : phase'[v] \in Active <=> phase[v] \in Active
    BY <1>0, <1>2 DEF Run, AwaitCleanup, TypeOK, rowVars, Active
  <2>. QED
    BY <1>0, <2>1 DEF LocalTable, Working
<1>3. ASSUME NEW w \in Workers,
             Succeed(w) \/ Fail(w) \/ Timeout(w) \/ EndCleanup(w)
      PROVE  LocalTable'
  <2>1. /\ phase[w] \in Active
        /\ held' = Unlock(LocalConn, userOf[job[w]]) /\ userOf' = userOf
        /\ phase' = [phase EXCEPT ![w] = "idle"]
        /\ job' = [job EXCEPT ![w] = NoOp]
    BY <1>3 DEF Succeed, Fail, Timeout, EndCleanup, End, Active, LockConn
  <2>2. /\ phase'[w] \notin Active
        /\ \A v \in Workers : v # w => phase'[v] = phase[v] /\ job'[v] = job[v]
    BY <1>0, <2>1 DEF TypeOK, Active
  <2>. QED
    BY <2>1, <2>2, TableReleased
<1>4. ASSUME NEW w \in Workers, LoseWorker(w)
      PROVE  LocalTable'
  <2>1. /\ phase[w] \in Active
        /\ held' = Unlock(LocalConn, userOf[job[w]]) /\ userOf' = userOf
        /\ phase' = [phase EXCEPT ![w] = "dead"]
        /\ job' = [job EXCEPT ![w] = NoOp]
    BY <1>4 DEF LoseWorker, Active, rowVars
  <2>2. /\ phase'[w] \notin Active
        /\ \A v \in Workers : v # w => phase'[v] = phase[v] /\ job'[v] = job[v]
    BY <1>0, <2>1 DEF TypeOK, Active
  <2>. QED
    BY <2>1, <2>2, TableReleased
<1>5. ASSUME NEW w \in Workers, Take(w)
      PROVE  LocalTable'
  BY <1>5, TableTake
<1>6. CASE Stop
  <2>1. /\ held' = Unlocked /\ \A w \in Workers : phase'[w] = "idle"
    BY <1>6 DEF Stop
  <2>. QED
    BY <2>1, LocalConnThere DEF LocalTable, Unlocked, Working, Active
<1>7. CASE \/ Start \/ ReadRequest \/ UNCHANGED vars
           \/ \E o \in Ops : GraceElapses(o)
  <2>1. UNCHANGED <<phase, job, held, userOf>>
    BY <1>7 DEF Start, ReadRequest, GraceElapses, vars, rowVars, workerVars,
                lockVars
  <2>. QED
    BY <1>0, <2>1 DEF LocalTable, Working
<1>. QED
  BY <1>1, <1>2, <1>3, <1>4, <1>5, <1>6, <1>7 DEF Next, WorkerStep

-----------------------------------------------------------------------------
(***************************************************************************)
(* The theorems.                                                           *)
(***************************************************************************)
\* The invariant holds of every behaviour.
LEMMA AlwaysLocal ==
  ASSUME Backend = "local"
  PROVE  Spec => []LocalInv
<1>1. Init => RowsHaveUsers /\ LocalTable
  BY LocalConnThere
     DEF Init, RowsHaveUsers, LocalTable, Unlocked, Working, Active
<1>2. IInv /\ RowsHaveUsers /\ LocalTable /\ [Next]_vars
        => RowsHaveUsers' /\ LocalTable'
  BY UsersStep, TableStep DEF LocalInv
<1>. QED
  BY <1>1, <1>2, Invariance, PTL DEF Spec, LocalInv

\* With the local backend a user's key is in the set exactly while a worker
\* is inside an operation of the user, whatever stops, restarts and faults.
THEOREM LocalLock ==
  ASSUME Backend = "local"
  PROVE  Spec => []LockMatchesExecution
<1>1. LocalInv => LockMatchesExecution
  <2>. SUFFICES ASSUME LocalInv, NEW u \in Users
                PROVE  held[LocalConn][u] > 0
                         <=> \E w \in Workers : Working(w, u)
    BY DEF LockMatchesExecution
  <2>1. held[LocalConn][u]
          = IF \E w \in Workers : Working(w, u) THEN 1 ELSE 0
    BY DEF LocalInv, LocalTable
  <2>. QED
    BY <2>1
<1>. QED
  BY <1>1, AlwaysLocal, PTL

\* A refusal would be of a queued operation whose user has a key in the set,
\* and so another operation under way.
LEMMA NotRefused ==
  ASSUME Backend = "local", LocalInv, NeverRefused, [Next]_vars
  PROVE  NeverRefused'
<1>0. IInv /\ RowsHaveUsers /\ LocalTable /\ TypeOK
  BY DEF LocalInv, IInv
<1>1. ASSUME NEW w \in Workers, Take(w)
      PROVE  code' = code
  <2>. DEFINE o == Head(queue)
  <2>1. o \in Ops /\ status[o] = "queued" /\ userOf[o] \in Users
    BY <1>0, <1>1, HeadQueued DEF RowsHaveUsers
  <2>2. \A v \in Workers : ~Working(v, userOf[o])
    BY <1>0, <2>1
       DEF IInv, OneInflightPerUser, WorkIsRunning, Working, Inflight
  <2>3. CanLock(LocalConn, userOf[o])
    BY <1>0, <2>1, <2>2, CanLockLocal
  <2>. QED
    BY <1>1, <2>3 DEF Take, Attempt, Acquire, Conflict, LockConn
<1>2. ASSUME NEW w \in Workers,
             Succeed(w) \/ Fail(w) \/ Timeout(w) \/ EndCleanup(w)
      PROVE  NeverRefused'
  BY <1>0, <1>2
     DEF Succeed, Fail, Timeout, EndCleanup, End, TypeOK, NeverRefused
<1>3. CASE Start
  BY <1>3 DEF Start, NeverRefused
<1>. QED
  BY <1>1, <1>2, <1>3
     DEF NeverRefused, Next, WorkerStep, Submit, ReadRequest, Run,
         AwaitCleanup, LoseWorker, Stop, GraceElapses, vars, rowVars

\* With the local backend no worker is ever refused a lock.
THEOREM LocalNeverRefused ==
  ASSUME Backend = "local"
  PROVE  Spec => []NeverRefused
<1>1. Init => NeverRefused
  BY DEF Init, NeverRefused
<1>2. LocalInv /\ NeverRefused /\ [Next]_vars => NeverRefused'
  BY NotRefused
<1>. QED
  BY <1>1, <1>2, AlwaysLocal, PTL DEF Spec

=============================================================================
