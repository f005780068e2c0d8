------------------------ MODULE OperationRunnerProofs ------------------------
(***************************************************************************)
(* Proofs about OperationRunner for any sets of operations, users and      *)
(* workers, any kinds, either backend and any bounds.                      *)
(***************************************************************************)
EXTENDS OperationRunner, TLAPS

-----------------------------------------------------------------------------
(***************************************************************************)
(* The pool keeps its type through every operation on it.                  *)
(***************************************************************************)
Pools == [idle : Seq(Nat), opened : Nat]

\* The oldest idle connection, or the next new one, is a number.
LEMMA NextConnType == ASSUME NEW p \in Pools PROVE NextConn(p) \in Nat
  BY DEF Pools, NextConn

\* Checking out leaves a pool.
LEMMA CheckOutType == ASSUME NEW p \in Pools PROVE CheckOut(p) \in Pools
  BY DEF Pools, CheckOut

\* Checking in leaves a pool.
LEMMA CheckInType ==
  ASSUME NEW p \in Pools, NEW c \in Nat PROVE CheckIn(p, c) \in Pools
  BY DEF Pools, CheckIn

\* A transaction leaves a pool.
LEMMA TransactType == ASSUME NEW p \in Pools PROVE Transact(p) \in Pools
  BY NextConnType, CheckOutType, CheckInType DEF Transact

\* So do the transactions of a coroutine.
LEMMA AfterTransactionsType ==
  ASSUME NEW p \in Pools, NEW q \in AfterTransactions(p) PROVE q \in Pools
  BY TransactType DEF AfterTransactions

\* The connection that executes a lock call is a number.
LEMMA LockConnType == ASSUME NEW p \in Pools PROVE LockConn(p) \in Nat
  BY NextConnType DEF LockConn, LocalConn

Locks == [Conns -> [Users -> Nat]]

\* Taking and releasing leave a lock table, whoever asks.
LEMMA LockType ==
  ASSUME held \in Locks, NEW c, NEW u
  PROVE  Lock(c, u) \in Locks /\ Unlock(c, u) \in Locks
<1>1. ASSUME NEW d \in Conns, NEW v \in Users
      PROVE  held[d][v] + 1 \in Nat
             /\ (IF held[d][v] > 0 THEN held[d][v] - 1 ELSE 0) \in Nat
  BY DEF Locks
<1>2. Lock(c, u) \in Locks
  BY <1>1 DEF Locks, Lock
<1>3. Unlock(c, u) \in Locks
  BY <1>1 DEF Locks, Unlock
<1>. QED BY <1>2, <1>3

\* The empty lock table is one.
LEMMA UnlockedType == Unlocked \in Locks
  BY DEF Unlocked, Locks

\* So are the pools of a starting and of a stopped process.
LEMMA FreshPoolType == FreshPool \in Pools /\ NoConnections \in Pools
  BY DEF FreshPool, NoConnections, Pools

-----------------------------------------------------------------------------
(***************************************************************************)
(* Type correctness.                                                       *)
(***************************************************************************)
\* The initial state has the declared types.
LEMMA TypeInit == Init => TypeOK
<1>. SUFFICES ASSUME Init PROVE TypeOK
  OBVIOUS
<1>1. LockTypeOK
  BY FreshPoolType, UnlockedType DEF Init, LockTypeOK, Pools, Locks
<1>. QED
  BY <1>1 DEF Init, TypeOK, Codes, Phases, LocalConn

\* One lemma for the three ways an operation ends in a worker's hands.
LEMMA TypeEnd ==
  ASSUME TypeOK, WorkIsRunning, NEW w \in Workers, phase[w] \in Active,
         NEW s \in Final, NEW c \in Codes, End(w, s, c)
  PROVE  TypeOK'
<1>1. job[w] \in Ops
  BY DEF WorkIsRunning
<1>2. LockTypeOK'
  <2>1. pool \in Pools /\ held \in Locks
    BY DEF TypeOK, LockTypeOK, Pools, Locks
  <2>2. PICK before \in AfterTransactions(pool) :
          /\ held' = Unlock(LockConn(Transact(before)), userOf[job[w]])
          /\ pool' = IF Backend = "local" THEN Transact(before)
                     ELSE Transact(Transact(before))
    BY DEF End
  <2>3. pool' \in Pools
    BY <2>1, <2>2, AfterTransactionsType, TransactType
  <2>4. held' \in Locks
    BY <2>1, <2>2, LockType
  <2>. QED
    BY <2>3, <2>4 DEF LockTypeOK, Pools, Locks
<1>3. /\ status' \in [Ops -> {"none"} \cup Inflight \cup Final]
      /\ code' \in [Ops -> Codes]
      /\ phase' \in [Workers -> Phases]
      /\ job' \in [Workers -> Ops \cup {NoOp}]
  BY <1>1 DEF End, TypeOK, Phases
<1>. QED
  BY <1>2, <1>3 DEF End, TypeOK, envVars

\* Taking an operation from the queue keeps the types.
LEMMA TypeTake ==
  ASSUME TypeOK, NEW w \in Workers, Take(w)
  PROVE  TypeOK'
<1>. DEFINE o == Head(queue)
            p == Transact(pool)
<1>1. o \in Ops /\ queue' \in Seq(Ops)
  BY DEF TypeOK, Take
<1>2. pool \in Pools /\ held \in Locks
  BY DEF TypeOK, LockTypeOK, Pools, Locks
<1>3. p \in Pools /\ CheckOut(p) \in Pools /\ Transact(p) \in Pools
      /\ LockConn(p) \in Nat
  BY <1>2, TransactType, CheckOutType, LockConnType
<1>4. Lock(LockConn(p), userOf[o]) \in Locks
  BY <1>2, LockType
<1>5. CASE status[o] \in Inflight /\ Acquire(w, o)
  <2>. USE DEF Acquire
  <2>1. LockTypeOK'
    BY <1>3, <1>4, <1>5 DEF LockTypeOK, Pools, Locks
  <2>2. /\ status' \in [Ops -> {"none"} \cup Inflight \cup Final]
        /\ code' \in [Ops -> Codes]
        /\ phase' \in [Workers -> Phases]
        /\ job' \in [Workers -> Ops \cup {NoOp}]
        /\ session' \in [Workers -> Nat]
    BY <1>1, <1>3, <1>5 DEF TypeOK, Inflight, Phases, Active
  <2>. QED
    BY <1>1, <2>1, <2>2 DEF Take, TypeOK, envVars
<1>6. CASE status[o] \in Inflight /\ Conflict(o)
  <2>. USE DEF Conflict
  <2>1. LockTypeOK'
    BY <1>2, <1>3, <1>6 DEF LockTypeOK, Pools, Locks
  <2>2. /\ status' \in [Ops -> {"none"} \cup Inflight \cup Final]
        /\ code' \in [Ops -> Codes]
    BY <1>1, <1>6 DEF TypeOK, Final, Codes
  <2>. QED
    BY <1>1, <1>6, <2>1, <2>2 DEF Take, TypeOK, envVars, workerVars
<1>7. CASE /\ pool' = Transact(pool)
           /\ UNCHANGED <<status, code, held, workerVars>>
  <2>1. LockTypeOK'
    BY <1>2, <1>3, <1>7 DEF LockTypeOK, Pools, Locks
  <2>. QED
    BY <1>1, <1>7, <2>1 DEF Take, TypeOK, envVars, workerVars
<1>. QED
  BY <1>5, <1>6, <1>7 DEF Take, Attempt

\* Every step of a worker keeps the types.
LEMMA TypeWorkerStep ==
  ASSUME TypeOK, WorkIsRunning, NEW w \in Workers, WorkerStep(w)
  PROVE  TypeOK'
<1>1. pool \in Pools /\ held \in Locks /\ session[w] \in Nat
  BY DEF TypeOK, LockTypeOK, Pools, Locks
<1>2. CASE Run(w)
  <2>1. pool' \in Pools
    <3>1. Transact(pool) \in Pools /\ CheckIn(pool, session[w]) \in Pools
      BY <1>1, TransactType, CheckInType
    <3>. QED
      BY <1>2, <3>1, AfterTransactionsType DEF Run
  <2>2. LockTypeOK'
    BY <1>1, <1>2, <2>1 DEF Run, LockTypeOK, Pools, Locks
  <2>3. phase' \in [Workers -> Phases] /\ session' \in [Workers -> Nat]
    BY <1>2 DEF Run, TypeOK, Phases, Active, LocalConn
  <2>. QED
    BY <1>2, <2>2, <2>3 DEF Run, TypeOK, rowVars, envVars
<1>3. CASE AwaitCleanup(w)
  <2>1. LockTypeOK'
    BY <1>1, <1>3, AfterTransactionsType
       DEF AwaitCleanup, LockTypeOK, Pools, Locks
  <2>2. phase' \in [Workers -> Phases]
    BY <1>3 DEF AwaitCleanup, TypeOK, Phases, Active
  <2>. QED
    BY <1>3, <2>1, <2>2 DEF AwaitCleanup, TypeOK, rowVars, envVars
<1>4. CASE LoseWorker(w)
  <2>1. LockTypeOK'
    BY <1>1, <1>4, LockType, UnlockedType, FreshPoolType
       DEF LoseWorker, LockTypeOK, Pools, Locks
  <2>2. /\ phase' \in [Workers -> Phases]
        /\ job' \in [Workers -> Ops \cup {NoOp}]
        /\ faults' \in Nat
    BY <1>4 DEF LoseWorker, TypeOK, Phases
  <2>. QED
    BY <1>4, <2>1, <2>2 DEF LoseWorker, TypeOK, rowVars
<1>5. CASE Take(w)
  BY <1>5, TypeTake
<1>6. CASE Succeed(w) \/ Fail(w) \/ Timeout(w) \/ EndCleanup(w)
  BY <1>6, TypeEnd
     DEF Succeed, Fail, Timeout, EndCleanup, Active, Final, Codes
<1>. QED
  BY <1>2, <1>3, <1>4, <1>5, <1>6 DEF WorkerStep

\* Every step keeps the types; an ending needs to know that its worker has
\* an operation, which is what WorkIsRunning adds.
LEMMA TypeStep == TypeOK /\ WorkIsRunning /\ [Next]_vars => TypeOK'
<1>. SUFFICES ASSUME TypeOK, WorkIsRunning, [Next]_vars
              PROVE  TypeOK'
  OBVIOUS
<1>1. pool \in Pools /\ held \in Locks
  BY DEF TypeOK, LockTypeOK, Pools, Locks
<1>2. ASSUME NEW o \in Ops, NEW u \in Users, NEW k \in Kinds, Submit(o, u, k)
      PROVE  TypeOK'
  <2>1. LockTypeOK'
    BY <1>1, <1>2, TransactType DEF Submit, LockTypeOK, Pools, Locks
  <2>2. /\ status' \in [Ops -> {"none"} \cup Inflight \cup Final]
        /\ userOf' \in [Ops -> Users \cup {NoUser}]
        /\ kind' \in [Ops -> Kinds \cup {"none"}]
        /\ queue' \in Seq(Ops)
    BY <1>2 DEF Submit, TypeOK, Inflight
  <2>. QED
    BY <1>2, <2>1, <2>2 DEF Submit, TypeOK, workerVars, envVars
<1>3. CASE ReadRequest
  <2>1. LockTypeOK'
    BY <1>1, <1>3, TransactType DEF ReadRequest, LockTypeOK, Pools, Locks
  <2>. QED
    BY <1>3, <2>1 DEF ReadRequest, TypeOK, rowVars, workerVars, envVars
<1>4. CASE \E w \in Workers : WorkerStep(w)
  BY <1>4, TypeWorkerStep
<1>5. CASE Stop
  <2>1. LockTypeOK'
    BY <1>5, FreshPoolType, UnlockedType DEF Stop, LockTypeOK, Pools, Locks
  <2>2. /\ phase' \in [Workers -> Phases]
        /\ job' \in [Workers -> Ops \cup {NoOp}]
        /\ session' \in [Workers -> Nat]
    BY <1>5 DEF Stop, Phases, LocalConn
  <2>3. queue' \in Seq(Ops)
    <3>1. << >> \in Seq(Ops)
      OBVIOUS
    <3>. QED
      BY <1>5, <3>1 DEF Stop
  <2>4. restarts \in Nat => restarts + 1 \in Nat
    OBVIOUS
  <2>5. up' \in BOOLEAN /\ restarts' \in Nat
    BY <1>5, <2>4 DEF Stop, TypeOK
  <2>. QED
    BY <1>5, <2>1, <2>2, <2>3, <2>5 DEF Stop, TypeOK, rowVars
<1>6. CASE Start
  <2>1. LockTypeOK'
    BY <1>1, <1>6, FreshPoolType DEF Start, LockTypeOK, Pools, Locks
  <2>2. /\ status' \in [Ops -> {"none"} \cup Inflight \cup Final]
        /\ code' \in [Ops -> Codes]
    BY <1>6 DEF Start, TypeOK, Final, Codes
  <2>. QED
    BY <1>6, <2>1, <2>2 DEF Start, TypeOK, workerVars
<1>7. CASE \E o \in Ops : GraceElapses(o)
  BY <1>7 DEF GraceElapses, TypeOK, LockTypeOK, workerVars, lockVars, envVars
<1>8. CASE UNCHANGED vars
  BY <1>8 DEF vars, TypeOK, LockTypeOK, rowVars, workerVars, lockVars, envVars
<1>. QED
  BY <1>2, <1>3, <1>4, <1>5, <1>6, <1>7, <1>8 DEF Next

-----------------------------------------------------------------------------
(***************************************************************************)
(* Admission and delivery.                                                 *)
(***************************************************************************)

\* What the safety part of IInv says, apart from types.
Safe == OneInflightPerUser /\ WorkIsRunning /\ HeldOnce

\* Nothing is in flight at the start.
LEMMA SafeInit == Init => Safe
  BY DEF Init, Safe, OneInflightPerUser, WorkIsRunning, HeldOnce, Inflight,
         Active

\* A handler adds the one operation of a user that has none, at the end of
\* the queue.
LEMMA SafeSubmit ==
  ASSUME TypeOK, Safe, NEW o \in Ops, NEW u \in Users, NEW k \in Kinds,
         Submit(o, u, k)
  PROVE  Safe'
<1>. USE DEF TypeOK, Submit, Safe
<1>1. \A p \in Ops : p # o =>
        status'[p] = status[p] /\ userOf'[p] = userOf[p]
  OBVIOUS
<1>2. status'[o] = "queued" /\ userOf'[o] = u
  OBVIOUS
<1>3. OneInflightPerUser'
  <2>1. ASSUME NEW p \in Ops, p # o, status[p] \in Inflight
        PROVE  userOf[p] # u
    BY <2>1 DEF HasInflight
  <2>. QED
    BY <1>1, <1>2, <2>1 DEF OneInflightPerUser
<1>4. WorkIsRunning'
  BY <1>1 DEF WorkIsRunning, workerVars
<1>5. \A i \in 1 .. Len(queue) : queue[i] \in Ops /\ queue[i] # o
  BY DEF HeldOnce
<1>6. /\ Len(queue') = Len(queue) + 1 /\ Len(queue) \in Nat
      /\ \A i \in 1 .. Len(queue) : queue'[i] = queue[i]
      /\ queue'[Len(queue) + 1] = o
  OBVIOUS
<1>7. \A i \in 1 .. Len(queue') : i \in 1 .. Len(queue) \/ i = Len(queue) + 1
  BY <1>6
<1>8. \A i \in 1 .. Len(queue') : status'[queue'[i]] = "queued"
  BY <1>1, <1>2, <1>5, <1>6, <1>7 DEF HeldOnce
<1>9. \A i, j \in 1 .. Len(queue') : queue'[i] = queue'[j] => i = j
  BY <1>5, <1>6, <1>7 DEF HeldOnce
<1>10. HeldOnce'
  BY <1>8, <1>9 DEF HeldOnce, workerVars, envVars
<1>. QED
  BY <1>3, <1>4, <1>10

\* The operation taken leaves the queue, and nothing else is touched.
LEMMA SafeTake ==
  ASSUME TypeOK, Safe, NEW w \in Workers, Take(w)
  PROVE  Safe'
<1>. DEFINE o == Head(queue)
<1>. USE DEF TypeOK, Safe
<1>1. /\ queue # << >> /\ queue' = Tail(queue) /\ up /\ up' = up
      /\ userOf' = userOf
  BY DEF Take, envVars
<1>2. /\ Len(queue) \in Nat \ {0} /\ Len(queue') = Len(queue) - 1
      /\ o = queue[1] /\ o \in Ops
      /\ \A i \in 1 .. Len(queue') : queue'[i] = queue[i + 1]
  BY <1>1
<1>3. status[o] = "queued"
  BY <1>2 DEF HeldOnce
<1>4. \A i \in 1 .. Len(queue') :
        /\ i + 1 \in 1 .. Len(queue)
        /\ queue'[i] \in Ops /\ queue'[i] # o /\ status[queue'[i]] = "queued"
  <2>. TAKE i \in 1 .. Len(queue')
  <2>1. i + 1 \in 1 .. Len(queue) /\ 1 \in 1 .. Len(queue) /\ i + 1 # 1
    BY <1>2
  <2>2. queue'[i] = queue[i + 1] /\ o = queue[1]
    BY <1>2
  <2>3. queue[i + 1] \in Ops
    BY <2>1
  <2>4. queue[i + 1] # queue[1] /\ status[queue[i + 1]] = "queued"
    BY <2>1 DEF HeldOnce
  <2>. QED
    BY <2>1, <2>2, <2>3, <2>4
<1>5. \A i, j \in 1 .. Len(queue') : queue'[i] = queue'[j] => i = j
  <2>. SUFFICES ASSUME NEW i \in 1 .. Len(queue'), NEW j \in 1 .. Len(queue'),
                       queue'[i] = queue'[j]
                PROVE  i = j
    OBVIOUS
  <2>1. queue[i + 1] = queue[j + 1]
    BY <1>2
  <2>2. i + 1 \in 1 .. Len(queue) /\ j + 1 \in 1 .. Len(queue)
    BY <1>4
  <2>3. i + 1 = j + 1
    BY <2>1, <2>2 DEF HeldOnce
  <2>4. i \in Nat /\ j \in Nat
    BY <1>2
  <2>. QED
    BY <2>3, <2>4
<1>6. \A p \in Ops : p # o => status'[p] = status[p]
  BY <1>2 DEF Take, Attempt, Acquire, Conflict
<1>7. \A i \in 1 .. Len(queue') : status'[queue'[i]] = "queued"
  BY <1>4, <1>6
<1>8. \A v \in Workers : phase[v] \in Active => job[v] # o
  BY <1>3 DEF WorkIsRunning
<1>9. OneInflightPerUser'
  BY <1>1, <1>2, <1>3, <1>6 DEF OneInflightPerUser, Inflight
<1>10. CASE Acquire(w, o)
  <2>1. /\ status'[o] = "running" /\ phase'[w] = "granted" /\ job'[w] = o
        /\ \A v \in Workers : v # w => phase'[v] = phase[v] /\ job'[v] = job[v]
    BY <1>2, <1>10 DEF Acquire
  <2>2. WorkIsRunning'
    BY <1>2, <1>6, <1>8, <2>1 DEF WorkIsRunning
  <2>3. \A v, x \in Workers :
          phase'[v] \in Active /\ phase'[x] \in Active /\ job'[v] = job'[x]
            => v = x
    BY <1>8, <2>1 DEF HeldOnce
  <2>. QED
    BY <1>1, <1>5, <1>7, <1>9, <2>2, <2>3 DEF HeldOnce
<1>11. CASE UNCHANGED workerVars
  <2>1. phase' = phase /\ job' = job
    BY <1>11 DEF workerVars
  <2>2. WorkIsRunning'
    BY <1>6, <1>8, <2>1 DEF WorkIsRunning
  <2>. QED
    BY <1>1, <1>5, <1>7, <1>9, <2>1, <2>2 DEF HeldOnce
<1>. QED
  BY <1>10, <1>11 DEF Take, Attempt, Conflict

\* An ending finishes the row its worker has in hand, and no other.
LEMMA SafeEnd ==
  ASSUME TypeOK, Safe, NEW w \in Workers, phase[w] \in Active,
         NEW s \in Final, NEW c \in Codes, End(w, s, c)
  PROVE  Safe'
<1>. DEFINE o == job[w]
<1>. USE DEF TypeOK, Safe
<1>1. o \in Ops /\ status[o] = "running"
  BY DEF WorkIsRunning
<1>2. /\ status'[o] = s /\ userOf' = userOf /\ queue' = queue /\ up' = up
      /\ \A p \in Ops : p # o => status'[p] = status[p]
      /\ phase'[w] = "idle"
      /\ \A v \in Workers : v # w => phase'[v] = phase[v] /\ job'[v] = job[v]
  BY <1>1 DEF End, envVars
<1>3. OneInflightPerUser'
  BY <1>2 DEF OneInflightPerUser, Inflight, Final
<1>4. WorkIsRunning'
  BY <1>2 DEF WorkIsRunning, HeldOnce, Active
<1>5. \A i \in 1 .. Len(queue) : queue[i] \in Ops /\ queue[i] # o
  BY <1>1 DEF HeldOnce
<1>6. \A i \in 1 .. Len(queue) : status'[queue[i]] = "queued"
  BY <1>2, <1>5 DEF HeldOnce
<1>7. up'
  BY <1>2 DEF HeldOnce
<1>8. \A v, x \in Workers :
        phase'[v] \in Active /\ phase'[x] \in Active /\ job'[v] = job'[x]
          => v = x
  BY <1>2 DEF HeldOnce, Active
<1>9. HeldOnce'
  BY <1>2, <1>6, <1>7, <1>8 DEF HeldOnce
<1>. QED
  BY <1>3, <1>4, <1>9

\* Every step of a worker keeps admission and delivery.
LEMMA SafeWorkerStep ==
  ASSUME TypeOK, Safe, NEW w \in Workers, WorkerStep(w)
  PROVE  Safe'
<1>1. CASE Run(w) \/ AwaitCleanup(w)
  <2>1. /\ status' = status /\ userOf' = userOf /\ queue' = queue
        /\ up' = up /\ job' = job
        /\ \A v \in Workers : phase'[v] \in Active <=> phase[v] \in Active
    BY <1>1 DEF Run, AwaitCleanup, TypeOK, rowVars, envVars, Active
  <2>. QED
    BY <2>1 DEF Safe, OneInflightPerUser, WorkIsRunning, HeldOnce
<1>2. CASE LoseWorker(w)
  <2>1. /\ status' = status /\ userOf' = userOf /\ queue' = queue
        /\ up' = up /\ phase'[w] = "dead"
        /\ \A v \in Workers : v # w => phase'[v] = phase[v] /\ job'[v] = job[v]
    BY <1>2 DEF LoseWorker, TypeOK, rowVars
  <2>. QED
    BY <2>1 DEF Safe, OneInflightPerUser, WorkIsRunning, HeldOnce, Active
<1>3. CASE Take(w)
  BY <1>3, SafeTake
<1>4. CASE Succeed(w) \/ Fail(w) \/ Timeout(w) \/ EndCleanup(w)
  BY <1>4, SafeEnd
     DEF Succeed, Fail, Timeout, EndCleanup, Active, Final, Codes
<1>. QED
  BY <1>1, <1>2, <1>3, <1>4 DEF WorkerStep

\* So does every step; the sweep finds no worker at work, as a stopped
\* process has none.
LEMMA SafeStep == TypeOK /\ Safe /\ [Next]_vars => Safe'
<1>. SUFFICES ASSUME TypeOK, Safe, [Next]_vars
              PROVE  Safe'
  OBVIOUS
<1>1. ASSUME NEW o \in Ops, NEW u \in Users, NEW k \in Kinds, Submit(o, u, k)
      PROVE  Safe'
  BY <1>1, SafeSubmit
<1>2. CASE \E w \in Workers : WorkerStep(w)
  BY <1>2, SafeWorkerStep
<1>3. CASE Stop
  <2>1. /\ status' = status /\ userOf' = userOf /\ queue' = << >>
        /\ \A w \in Workers : phase'[w] = "idle"
    BY <1>3 DEF Stop, rowVars
  <2>. QED
    BY <2>1 DEF Safe, OneInflightPerUser, WorkIsRunning, HeldOnce, Active
<1>4. CASE Start
  <2>1. /\ queue = << >> /\ queue' = queue /\ userOf' = userOf
        /\ phase' = phase
        /\ \A w \in Workers : phase[w] \notin Active
    BY <1>4 DEF Start, Safe, HeldOnce, workerVars
  <2>2. \A o \in Ops : status'[o] \in Inflight => status[o] \in Inflight
    BY <1>4 DEF Start, Inflight
  <2>3. OneInflightPerUser'
    BY <2>1, <2>2 DEF Safe, OneInflightPerUser
  <2>4. WorkIsRunning' /\ HeldOnce'
    BY <2>1 DEF WorkIsRunning, HeldOnce
  <2>. QED
    BY <2>3, <2>4 DEF Safe
<1>5. CASE ReadRequest \/ (\E o \in Ops : GraceElapses(o)) \/ UNCHANGED vars
  <2>1. /\ status' = status /\ userOf' = userOf /\ queue' = queue
        /\ phase' = phase /\ job' = job /\ up' = up
    BY <1>5 DEF ReadRequest, GraceElapses, vars, rowVars, workerVars, envVars
  <2>. QED
    BY <2>1 DEF Safe, OneInflightPerUser, WorkIsRunning, HeldOnce
<1>. QED
  BY <1>1, <1>2, <1>3, <1>4, <1>5 DEF Next

-----------------------------------------------------------------------------
(***************************************************************************)
(* Refinement of OperationLifecycle.                                       *)
(***************************************************************************)
LifecycleStep == Lifecycle!Next \/ UNCHANGED <<status, userOf>>

\* Giving up one operation in flight is a step of the promise.
LEMMA GiveUpOne ==
  ASSUME TypeOK, NEW o \in Ops, status[o] \in Inflight, userOf' = userOf,
         status' = [status EXCEPT ![o] = "failed"]
  PROVE  LifecycleStep
<1>1. status' = [p \in Ops |-> IF p \in {o} THEN "failed" ELSE status[p]]
  BY DEF TypeOK
<1>2. Lifecycle!GiveUp({o})
  BY <1>1 DEF Lifecycle!GiveUp, Lifecycle!Inflight, Inflight
<1>. QED
  BY <1>2 DEF LifecycleStep, Lifecycle!Next

\* A worker's every step is a step of the promise, or changes no row.
LEMMA WorkerStepRefines ==
  ASSUME TypeOK, Safe, NEW w \in Workers, WorkerStep(w)
  PROVE  LifecycleStep
<1>1. ASSUME NEW s \in Final, NEW c, phase[w] \in Active, End(w, s, c)
      PROVE  LifecycleStep
  <2>1. job[w] \in Ops /\ status[job[w]] = "running"
    BY <1>1 DEF Safe, WorkIsRunning
  <2>2. userOf' = userOf /\ status' = [status EXCEPT ![job[w]] = s]
    BY <1>1 DEF End
  <2>3. CASE s = "succeeded"
    BY <2>1, <2>2, <2>3 DEF LifecycleStep, Lifecycle!Next, Lifecycle!Succeed
  <2>4. CASE s = "failed"
    BY <2>1, <2>2, <2>4, GiveUpOne DEF Inflight
  <2>. QED
    BY <2>3, <2>4 DEF Final
<1>2. CASE Take(w)
  <2>. DEFINE o == Head(queue)
  <2>1. o \in Ops /\ o = queue[1] /\ 1 \in 1 .. Len(queue) /\ userOf' = userOf
    BY <1>2 DEF Take, TypeOK
  <2>2. status[o] = "queued"
    BY <2>1 DEF Safe, HeldOnce
  <2>3. CASE Acquire(w, o)
    BY <2>1, <2>2, <2>3
       DEF Acquire, LifecycleStep, Lifecycle!Next, Lifecycle!Begin
  <2>4. CASE Conflict(o)
    BY <2>1, <2>2, <2>4, GiveUpOne DEF Conflict, Inflight
  <2>. QED
    BY <1>2, <2>2, <2>3, <2>4 DEF Take, Attempt, Inflight
<1>3. CASE Run(w) \/ AwaitCleanup(w) \/ LoseWorker(w)
  BY <1>3 DEF Run, AwaitCleanup, LoseWorker, rowVars, LifecycleStep
<1>4. CASE Succeed(w) \/ Fail(w) \/ Timeout(w) \/ EndCleanup(w)
  BY <1>1, <1>4
     DEF Succeed, Fail, Timeout, EndCleanup, Active, Final
<1>. QED
  BY <1>2, <1>3, <1>4 DEF WorkerStep

\* The sweep gives up the stale operations together.
LEMMA StartRefines == ASSUME TypeOK, Start PROVE LifecycleStep
<1>. DEFINE S == {o \in Ops : Stale(o)}
<1>1. status' = [o \in Ops |-> IF o \in S THEN "failed" ELSE status[o]]
      /\ userOf' = userOf
  BY DEF Start
<1>2. CASE S = {}
  <2>1. status' = status
    BY <1>1, <1>2 DEF TypeOK
  <2>. QED
    BY <1>1, <2>1 DEF LifecycleStep
<1>3. CASE S # {}
  <2>1. Lifecycle!GiveUp(S)
    BY <1>1, <1>3 DEF Stale, Lifecycle!GiveUp, Lifecycle!Inflight, Inflight
  <2>2. S \in SUBSET Ops
    OBVIOUS
  <2>. QED
    BY <2>1, <2>2 DEF LifecycleStep, Lifecycle!Next
<1>. QED
  BY <1>2, <1>3

\* Every step of the manager is a step of the promise, or changes no row.
LEMMA StepRefines ==
  ASSUME TypeOK, Safe, [Next]_vars
  PROVE  LifecycleStep
<1>1. ASSUME NEW o \in Ops, NEW u \in Users, NEW k \in Kinds, Submit(o, u, k)
      PROVE  LifecycleStep
  <2>1. Lifecycle!Accept(o, u)
    BY <1>1 DEF Submit, HasInflight, Inflight, Lifecycle!Accept,
                Lifecycle!Busy, Lifecycle!Inflight
  <2>. QED
    BY <2>1 DEF LifecycleStep, Lifecycle!Next
<1>2. CASE \E w \in Workers : WorkerStep(w)
  BY <1>2, WorkerStepRefines
<1>3. CASE Start
  BY <1>3, StartRefines
<1>4. CASE \/ ReadRequest \/ Stop \/ UNCHANGED vars
           \/ \E o \in Ops : GraceElapses(o)
  BY <1>4 DEF ReadRequest, Stop, GraceElapses, vars, rowVars, LifecycleStep
<1>. QED
  BY <1>1, <1>2, <1>3, <1>4 DEF Next

-----------------------------------------------------------------------------
(***************************************************************************)
(* Ownership, as long as the process is not stopped and no worker is lost. *)
(***************************************************************************)
Undisturbed == restarts = 0 /\ faults = 0

\* An operation is in the queue, or in a worker's hands.
Owned(o) ==
  \/ \E i \in 1 .. Len(queue) : queue[i] = o
  \/ \E w \in Workers : phase[w] \in Active /\ job[w] = o

\* A manager that was never stopped is up, and owns what is in flight.
Owning ==
  Undisturbed => up /\ \A o \in Ops : status[o] \in Inflight => Owned(o)

\* What a handler accepts goes to the end of the queue.
LEMMA OwnedSubmit ==
  ASSUME TypeOK, NEW o \in Ops, NEW u \in Users, NEW k \in Kinds,
         Submit(o, u, k), NEW p \in Ops,
         status[p] \in Inflight => Owned(p), status'[p] \in Inflight
  PROVE  Owned(p)'
<1>. USE DEF TypeOK, Submit
<1>1. /\ Len(queue') = Len(queue) + 1 /\ Len(queue) \in Nat
      /\ \A i \in 1 .. Len(queue) : queue'[i] = queue[i]
      /\ queue'[Len(queue) + 1] = o
      /\ \A i \in 1 .. Len(queue) : i \in 1 .. Len(queue')
      /\ Len(queue) + 1 \in 1 .. Len(queue')
  OBVIOUS
<1>2. CASE p = o
  BY <1>1, <1>2 DEF Owned
<1>3. CASE p # o
  <2>1. Owned(p)
    BY <1>3
  <2>2. CASE \E i \in 1 .. Len(queue) : queue[i] = p
    BY <1>1, <2>2 DEF Owned
  <2>3. CASE \E w \in Workers : phase[w] \in Active /\ job[w] = p
    BY <2>3 DEF Owned, workerVars
  <2>. QED
    BY <2>1, <2>2, <2>3 DEF Owned
<1>. QED
  BY <1>2, <1>3

\* What a worker takes it has in hand, unless it is final at once.
LEMMA OwnedTake ==
  ASSUME TypeOK, Safe, NEW w \in Workers, Take(w), NEW p \in Ops,
         status[p] \in Inflight => Owned(p), status'[p] \in Inflight
  PROVE  Owned(p)'
<1>. DEFINE o == Head(queue)
<1>. USE DEF TypeOK
<1>1. /\ queue # << >> /\ queue' = Tail(queue)
      /\ phase[w] = "idle" /\ phase[w] \notin Active
  BY DEF Take, Active
<1>2. /\ Len(queue) \in Nat \ {0} /\ Len(queue') = Len(queue) - 1
      /\ o = queue[1] /\ o \in Ops
      /\ \A i \in 1 .. Len(queue') : queue'[i] = queue[i + 1]
  BY <1>1
<1>3. \A v \in Workers : v # w => phase'[v] = phase[v] /\ job'[v] = job[v]
  BY DEF Take, Attempt, Acquire, Conflict, workerVars
<1>4. CASE p = o
  <2>1. Acquire(w, o)
    BY <1>2, <1>4 DEF Take, Attempt, Conflict, Inflight
  <2>2. phase'[w] \in Active /\ job'[w] = o
    BY <1>2, <2>1 DEF Acquire, Active
  <2>. QED
    BY <1>4, <2>2 DEF Owned
<1>5. CASE p # o
  <2>1. status'[p] = status[p]
    BY <1>2, <1>5 DEF Take, Attempt, Acquire, Conflict
  <2>2. Owned(p)
    BY <2>1
  <2>3. CASE \E i \in 1 .. Len(queue) : queue[i] = p
    <3>1. PICK i \in 1 .. Len(queue) : queue[i] = p
      BY <2>3
    <3>2. i # 1
      BY <1>2, <1>5, <3>1
    <3>3. i - 1 \in 1 .. Len(queue') /\ (i - 1) + 1 = i
      BY <1>2, <3>2
    <3>4. queue'[i - 1] = p
      BY <1>2, <3>1, <3>3
    <3>. QED
      BY <3>3, <3>4 DEF Owned
  <2>4. CASE \E v \in Workers : phase[v] \in Active /\ job[v] = p
    <3>1. PICK v \in Workers : phase[v] \in Active /\ job[v] = p
      BY <2>4
    <3>2. v # w
      BY <1>1, <3>1
    <3>. QED
      BY <1>3, <3>1, <3>2 DEF Owned
  <2>. QED
    BY <2>2, <2>3, <2>4 DEF Owned
<1>. QED
  BY <1>4, <1>5

\* What a worker ends is not in flight any more, and the others keep theirs.
LEMMA OwnedEnd ==
  ASSUME TypeOK, Safe, NEW w \in Workers, phase[w] \in Active,
         NEW s \in Final, NEW c, End(w, s, c), NEW p \in Ops,
         status[p] \in Inflight => Owned(p), status'[p] \in Inflight
  PROVE  Owned(p)'
<1>. USE DEF TypeOK
<1>1. /\ job[w] \in Ops
      /\ status' = [status EXCEPT ![job[w]] = s] /\ queue' = queue
      /\ \A v \in Workers : v # w => phase'[v] = phase[v] /\ job'[v] = job[v]
  BY DEF End, Safe, WorkIsRunning
<1>2. p # job[w] /\ status'[p] = status[p]
  BY <1>1 DEF Inflight, Final
<1>3. Owned(p)
  BY <1>2
<1>. QED
  BY <1>1, <1>2, <1>3 DEF Owned

\* Every step but a stop and the loss of a worker keeps what is in flight
\* owned.
LEMMA OwningStep ==
  ASSUME TypeOK, Safe, Owning, [Next]_vars
  PROVE  Owning'
<1>. SUFFICES ASSUME Undisturbed'
              PROVE  up' /\ \A p \in Ops :
                               status'[p] \in Inflight => Owned(p)'
  BY DEF Owning
<1>1. restarts' = 0 /\ faults' = 0
  BY DEF Undisturbed
<1>2. ~Stop
  BY <1>1 DEF Stop, TypeOK
<1>3. \A w \in Workers : ~LoseWorker(w)
  BY <1>1 DEF LoseWorker, TypeOK
<1>4. CASE \E o \in Ops, u \in Users, k \in Kinds : Submit(o, u, k)
  <2>1. Undisturbed /\ up'
    BY <1>1, <1>4 DEF Submit, envVars, Undisturbed
  <2>. QED
    BY <1>4, <2>1, OwnedSubmit DEF Owning
<1>5. CASE \E w \in Workers : WorkerStep(w)
  <2>1. PICK w \in Workers : WorkerStep(w)
    BY <1>5
  <2>2. UNCHANGED envVars
    BY <1>3, <2>1
       DEF WorkerStep, Take, Run, Succeed, Fail, Timeout, AwaitCleanup,
           EndCleanup, End
  <2>3. up' /\ \A p \in Ops : status[p] \in Inflight => Owned(p)
    BY <1>1, <2>2 DEF envVars, Owning, Undisturbed
  <2>4. CASE Take(w)
    BY <2>3, <2>4, OwnedTake
  <2>5. CASE Succeed(w) \/ Fail(w) \/ Timeout(w) \/ EndCleanup(w)
    <3>1. PICK s \in Final, c \in Codes : End(w, s, c) /\ phase[w] \in Active
      BY <2>5 DEF Succeed, Fail, Timeout, EndCleanup, Active, Final, Codes
    <3>. QED
      BY <2>3, <3>1, OwnedEnd
  <2>6. CASE Run(w) \/ AwaitCleanup(w)
    <3>1. /\ status' = status /\ queue' = queue /\ job' = job
          /\ \A v \in Workers : phase'[v] \in Active <=> phase[v] \in Active
      BY <2>6 DEF Run, AwaitCleanup, TypeOK, rowVars, envVars, Active
    <3>. QED
      BY <2>3, <3>1 DEF Owned
  <2>. QED
    BY <1>3, <2>1, <2>4, <2>5, <2>6 DEF WorkerStep
<1>6. CASE Start
  <2>1. ~up /\ restarts = 0 /\ faults = 0
    BY <1>1, <1>6 DEF Start
  <2>. QED
    BY <2>1 DEF Owning, Undisturbed
<1>7. CASE ReadRequest \/ (\E o \in Ops : GraceElapses(o)) \/ UNCHANGED vars
  <2>1. /\ status' = status /\ queue' = queue /\ phase' = phase
        /\ job' = job /\ UNCHANGED envVars
    BY <1>7 DEF ReadRequest, GraceElapses, vars, rowVars, workerVars, envVars
  <2>. QED
    BY <1>1, <2>1 DEF envVars, Owning, Undisturbed, Owned
<1>. QED
  BY <1>2, <1>4, <1>5, <1>6, <1>7 DEF Next

-----------------------------------------------------------------------------
(***************************************************************************)
(* The theorems.                                                           *)
(***************************************************************************)

\* IInv is inductive: it holds at the start and every step keeps it.
THEOREM Invariance == Spec => []IInv
<1>1. Init => IInv
  BY TypeInit, SafeInit DEF IInv, Safe
<1>2. IInv /\ [Next]_vars => IInv'
  BY TypeStep, SafeStep DEF IInv, Safe
<1>. QED
  BY <1>1, <1>2, PTL DEF Spec

\* Every variable keeps its type, the lock and the pool included.
THEOREM TypeCorrect == Spec => []TypeOK
<1>1. IInv => TypeOK
  BY DEF IInv
<1>. QED
  BY <1>1, Invariance, PTL

\* The handlers' 409 check admits at most one in-flight operation per user.
THEOREM Admission == Spec => []OneInflightPerUser
<1>1. IInv => OneInflightPerUser
  BY DEF IInv
<1>. QED
  BY <1>1, Invariance, PTL

\* Operations in a worker's hands are running, and are held once.
THEOREM Delivery == Spec => [](WorkIsRunning /\ HeldOnce)
<1>1. IInv => WorkIsRunning /\ HeldOnce
  BY DEF IInv
<1>. QED
  BY <1>1, Invariance, PTL

\* While a worker has an operation in hand its row says running: neither the
\* sweep nor another worker ever finishes it underneath.
THEOREM WorkRunning == Spec => []WorkIsRunning
<1>1. IInv => WorkIsRunning
  BY DEF IInv
<1>. QED
  BY <1>1, Invariance, PTL

\* Until the process is stopped or a worker is lost, every row in flight is
\* in the queue or in a worker's hands.
THEOREM Ownership == Spec => [](Undisturbed => InflightIsOwned)
<1>1. Init => Owning
  BY DEF Init, Owning, Inflight
<1>2. IInv /\ Owning /\ [Next]_vars => Owning'
  BY OwningStep DEF IInv, Safe
<1>3. Owning => (Undisturbed => InflightIsOwned)
  BY DEF Owning, InflightIsOwned, Owned
<1>. QED
  BY <1>1, <1>2, <1>3, Invariance, PTL DEF Spec

\* No two workers are inside operations of one user.  IInv says nothing of
\* who has the lock: exclusion follows from admission and delivery alone.
THEOREM Exclusion == Spec => []ExclusiveExecution
<1>1. IInv => ExclusiveExecution
  BY DEF IInv, OneInflightPerUser, WorkIsRunning, HeldOnce,
         ExclusiveExecution, Working, Inflight
<1>. QED
  BY <1>1, Invariance, PTL

\* The rows implement the promise OperationLifecycle makes to callers: run at
\* most once, one final status, one operation of a user in flight.
THEOREM Refinement == Spec => ImplementsLifecycle
<1>1. Init => Lifecycle!Init
  BY DEF Init, Lifecycle!Init
<1>2. IInv /\ [Next]_vars => [Lifecycle!Next]_(Lifecycle!vars)
  BY StepRefines DEF IInv, Safe, LifecycleStep, Lifecycle!vars
<1>. QED
  BY <1>1, <1>2, Invariance, PTL DEF Spec, ImplementsLifecycle, Lifecycle!Spec

=============================================================================
