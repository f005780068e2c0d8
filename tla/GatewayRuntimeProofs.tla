------------------------- MODULE GatewayRuntimeProofs -------------------------
(***************************************************************************)
(* Proofs about GatewayRuntime for any requests, images and generations.   *)
(* The lock is right whatever Docker, the manager and restarts do; what    *)
(* the requests find under the container's name is proved for a gateway    *)
(* that is alone.                                                          *)
(***************************************************************************)
EXTENDS GatewayRuntime, TLAPS

-----------------------------------------------------------------------------
(***************************************************************************)
(* The lock.                                                               *)
(***************************************************************************)
LInv == TypeOK /\ LockMatchesSection

\* Where a request can be, and what the lock can be.
Places == {"idle", "waiting", "done"} \cup InSection
Locks == [taken : BOOLEAN, queue : Seq(Requests)]

\* A command that fails, times out or is the last leaves the section.
Leaves(r) == \E a \in Answers : Leave(r, a)

\* Any other command of a request stays in it.
GoesOn(r) == (\E p \in InSection : GoTo(r, p)) /\ UNCHANGED <<lock, answer>>

\* The image a request gets is one there is.
LEMMA ImageThere ==
  ASSUME TypeOK, NEW r \in Requests
  PROVE  ImageOf(r) \in Images
<1>1. req[r] \in Asks
  BY DEF TypeOK
<1>2. CASE req[r] \in [cached : {FALSE}, image : Images \cup {NoImage}]
  <2>1. req[r].image \in Images \cup {NoImage}
    BY <1>2
  <2>. QED
    BY <2>1, DefaultAssumption DEF ImageOf
<1>3. CASE req[r] = [cached |-> TRUE, image |-> NoImage]
  <2>1. req[r].image = NoImage
    BY <1>3
  <2>. QED
    BY <2>1, DefaultAssumption DEF ImageOf
<1>. QED
  BY <1>1, <1>2, <1>3 DEF Asks

\* A request that goes to a place or is answered leaves the types alone.
LEMMA PlaceTyped ==
  ASSUME TypeOK, NEW r \in Requests, NEW p \in Places, GoTo(r, p)
  PROVE  pc' \in [Requests -> Places]
  BY DEF TypeOK, GoTo, Places

\* The same of an answer.
LEMMA AnswerTyped ==
  ASSUME TypeOK, NEW r \in Requests, NEW a \in Answers, Answer(r, a)
  PROVE  pc' \in [Requests -> Places] /\ answer' \in [Requests -> Answers]
<1>1. pc' \in [Requests -> Places]
  BY DEF TypeOK, Answer, GoTo, Places
<1>2. answer' \in [Requests -> Answers]
  BY DEF TypeOK, Answer
<1>. QED
  BY <1>1, <1>2

\* Every command of a request is made in the section.
LEMMA CommandShape ==
  ASSUME NEW r \in Requests, Command(r)
  PROVE  /\ pc[r] \in InSection
         /\ Leaves(r) \/ GoesOn(r)
         /\ UNCHANGED <<req, restarts>>
<1>. USE DEF InSection, Answers, Leaves, GoesOn, Stay, local
<1>1. CASE Prepare(r) \/ Look(r)
  BY <1>1 DEF Prepare, Look, At, GoTo
<1>2. CASE Create(r) \/ CreateHalf(r) \/ CreateTimesOut(r)
  BY <1>2 DEF Create, CreateHalf, CreateTimesOut, At
<1>3. CASE Connect(r) \/ Mismatch(r)
  BY <1>3 DEF Connect, Mismatch, At
<1>4. CASE Inspect(r)
  BY <1>4 DEF Inspect, At
<1>5. CASE Start(r) \/ StartTimesOut(r)
  BY <1>5 DEF Start, StartTimesOut, At
<1>6. CASE Probe(r) \/ NotReady(r) \/ Mark(r) \/ Fails(r)
  BY <1>6 DEF Probe, NotReady, Mark, Fails, At
<1>. QED
  BY <1>1, <1>2, <1>3, <1>4, <1>5, <1>6 DEF Command

\* Every command keeps the types.
LEMMA CommandTyped ==
  ASSUME TypeOK, NEW r \in Requests, Command(r)
  PROVE  TypeOK'
<1>0. pc[r] \in InSection /\ UNCHANGED <<req, restarts>>
  BY CommandShape
<1>1. ImageOf(r) \in Images
  BY ImageThere
<1>2. /\ Made(ImageOf(r), "starting") \in Container
      /\ Made(ImageOf(r), "stopped") \in Container
      /\ ctr # NoCtr => Started \in Container
  BY <1>1 DEF TypeOK, Container, Made, Started
<1>3. /\ ctr' \in Container \cup {NoCtr}
      /\ late' \in SUBSET (Images \cup {"start"})
  BY <1>1, <1>2
     DEF TypeOK, Command, Prepare, Look, Create, CreateHalf, CreateTimesOut,
         Connect, Inspect, Mismatch, Start, StartTimesOut, Probe, NotReady,
         Mark, Fails, Stay, docker
<1>4. fresh' \in BOOLEAN /\ running' \in [Requests -> BOOLEAN]
  BY DEF TypeOK, Command, Prepare, Look, Create, CreateHalf, CreateTimesOut,
         Connect, Inspect, Mismatch, Start, StartTimesOut, Probe, NotReady,
         Mark, Fails, Stay, local
<1>5. /\ lock' \in Locks
      /\ pc' \in [Requests -> Places]
      /\ answer' \in [Requests -> Answers]
  <2>1. CASE Leaves(r)
    <3>1. PICK a \in Answers : Leave(r, a)
      BY <2>1 DEF Leaves
    <3>2. lock' \in Locks
      BY <3>1 DEF Leave, TypeOK, Locks
    <3>. QED
      BY <3>1, <3>2, AnswerTyped DEF Leave
  <2>2. CASE GoesOn(r)
    <3>1. PICK p \in InSection : GoTo(r, p)
      BY <2>2 DEF GoesOn
    <3>. QED
      BY <2>2, <3>1, PlaceTyped DEF GoesOn, TypeOK, Places, Locks
  <2>. QED
    BY <2>1, <2>2, CommandShape
<1>. QED
  BY <1>0, <1>3, <1>4, <1>5 DEF TypeOK, Places, Locks

\* So does every other step.
LEMMA TypeStep ==
  ASSUME LInv, [Next]_vars
  PROVE  TypeOK'
<1>0. TypeOK
  BY DEF LInv
<1>1. ASSUME NEW r \in Requests, NEW q \in Asks,
             AnswerCached(r, q) \/ Acquire(r, q) \/ Queue(r, q)
      PROVE  TypeOK'
  <2>1. /\ UNCHANGED <<docker, fresh, running, restarts>>
        /\ req' = [req EXCEPT ![r] = q]
    BY <1>1 DEF AnswerCached, Acquire, Queue, Arrive
  <2>2. /\ lock' \in Locks
        /\ pc' \in [Requests -> Places]
        /\ answer' \in [Requests -> Answers]
    <3>1. CASE AnswerCached(r, q)
      BY <1>0, <3>1
         DEF AnswerCached, Answer, GoTo, TypeOK, Answers, Places, Locks
    <3>2. CASE Acquire(r, q)
      BY <1>0, <3>2 DEF Acquire, GoTo, TypeOK, InSection, Places, Locks
    <3>3. CASE Queue(r, q)
      <4>1. Append(lock.queue, r) \in Seq(Requests)
        BY <1>0 DEF TypeOK
      <4>2. lock' \in Locks
        BY <1>0, <3>3, <4>1 DEF Queue, TypeOK, Locks
      <4>3. pc' \in [Requests -> Places]
        BY <1>0, <3>3, PlaceTyped DEF Queue, Places
      <4>. QED
        BY <1>0, <3>3, <4>2, <4>3 DEF Queue, TypeOK
    <3>. QED
      BY <1>1, <3>1, <3>2, <3>3
  <2>. QED
    BY <1>0, <2>1, <2>2 DEF TypeOK, docker, Places, Locks
<1>2. ASSUME NEW r \in Requests, Wake(r)
      PROVE  TypeOK'
  <2>1. UNCHANGED <<docker, fresh, local, restarts>>
    BY <1>2 DEF Wake
  <2>2. lock.queue # << >>
    BY <1>2 DEF Wake, LInv, LockMatchesSection, TypeOK
  <2>3. Tail(lock.queue) \in Seq(Requests)
    BY <1>0, <2>2 DEF TypeOK
  <2>4. /\ lock' \in Locks
        /\ pc' \in [Requests -> Places]
        /\ answer' \in [Requests -> Answers]
    <3>1. CASE req[r].cached /\ fresh
      <4>1. Answer(r, "cached") /\ lock' = [lock EXCEPT !.queue = Tail(@)]
        BY <1>2, <3>1 DEF Wake
      <4>2. lock' \in Locks
        BY <1>0, <2>3, <4>1 DEF TypeOK, Locks
      <4>. QED
        BY <1>0, <4>1, <4>2, AnswerTyped DEF Answers
    <3>2. CASE ~(req[r].cached /\ fresh)
      <4>1. /\ GoTo(r, "prepare") /\ answer' = answer
            /\ lock' = [taken |-> TRUE, queue |-> Tail(lock.queue)]
        BY <1>2, <3>2 DEF Wake
      <4>2. lock' \in Locks
        BY <2>3, <4>1 DEF Locks
      <4>. QED
        BY <1>0, <4>1, <4>2, PlaceTyped DEF Places, InSection, TypeOK
    <3>. QED
      BY <3>1, <3>2
  <2>. QED
    BY <1>0, <2>1, <2>4 DEF TypeOK, docker, local, Places, Locks
<1>3. ASSUME NEW r \in Requests, Command(r)
      PROVE  TypeOK'
  BY <1>0, <1>3, CommandTyped
<1>4. CASE Environment
  <2>0. ASSUME ctr # NoCtr
        PROVE  /\ Started \in Container
               /\ \A s \in {"stopped", "starting", "ready"} :
                    [ctr EXCEPT !.state = s] \in Container
    BY <1>0, <2>0 DEF TypeOK, Container, Started
  <2>1. CASE CacheExpires
    BY <1>0, <2>1 DEF CacheExpires, TypeOK, docker, local
  <2>2. CASE Restart
    <3>1. \A s \in Requests : ImageOf(s) \in Images
      BY <1>0, ImageThere
    <3>2. late' \in SUBSET (Images \cup {"start"})
      BY <1>0, <2>2, <3>1 DEF Restart, TypeOK
    <3>3. /\ fresh' \in BOOLEAN /\ restarts' \in Nat
          /\ lock' \in Locks
          /\ pc' \in [Requests -> Places]
          /\ answer' \in [Requests -> Answers]
      <4>1. << >> \in Seq(Requests)
        OBVIOUS
      <4>2. lock' \in Locks
        BY <2>2, <4>1 DEF Restart, Unlocked, Locks
      <4>3. pc' \in [Requests -> Places]
        BY <2>2 DEF Restart, Places
      <4>4. answer' \in [Requests -> Answers]
        BY <1>0, <2>2 DEF Restart, TypeOK, Answers
      <4>5. fresh' \in BOOLEAN
        BY <2>2 DEF Restart
      <4>6. restarts \in Nat /\ restarts' = restarts + 1
        BY <1>0, <2>2 DEF Restart, TypeOK
      <4>. QED
        BY <4>2, <4>3, <4>4, <4>5, <4>6
    <3>. QED
      BY <1>0, <2>2, <3>2, <3>3 DEF Restart, TypeOK, local, Places, Locks
  <2>3. CASE RuntimeBecomesReady \/ RuntimeExits
    BY <1>0, <2>0, <2>3
       DEF RuntimeBecomesReady, RuntimeExits, Outside, TypeOK, local
  <2>4. CASE LateCreate
    <3>1. \A i \in Images : Made(i, "starting") \in Container
      BY DEF Made, Container
    <3>2. /\ ctr' \in Container \cup {NoCtr}
          /\ late' \in SUBSET (Images \cup {"start"}) /\ Outside
      BY <1>0, <2>4, <3>1 DEF LateCreate, TypeOK
    <3>. QED
      BY <1>0, <3>2 DEF Outside, TypeOK, local
  <2>5. CASE LateStart
    BY <1>0, <2>0, <2>5 DEF LateStart, Outside, TypeOK, local
  <2>6. CASE ManagerStops \/ ManagerRemoves \/ ManagerStarts
    BY <1>0, <2>0, <2>6
       DEF ManagerStops, ManagerRemoves, ManagerStarts, Outside, TypeOK, local
  <2>7. CASE ManagerCreates
    <3>1. \A g \in Generations, i \in Images :
            [gen |-> g, image |-> i, state |-> "stopped"] \in Container
      BY DEF Container
    <3>. QED
      BY <1>0, <2>7, <3>1 DEF ManagerCreates, Outside, TypeOK, local
  <2>. QED
    BY <1>4, <2>1, <2>2, <2>3, <2>4, <2>5, <2>6, <2>7 DEF Environment
<1>5. CASE UNCHANGED vars
  BY <1>0, <1>5 DEF vars, TypeOK, docker, local
<1>. QED
  BY <1>1, <1>2, <1>3, <1>4, <1>5 DEF Next

\* Moving within the section, and whatever touches neither the lock nor any
\* request's place, leaves the lock right.
LEMMA GoesOnLock ==
  ASSUME LInv, NEW r \in Requests, pc[r] \in InSection, GoesOn(r)
  PROVE  LockMatchesSection'
<1>1. \A s \in Requests : pc'[s] \in InSection <=> pc[s] \in InSection
  BY DEF LInv, TypeOK, GoesOn, GoTo
<1>2. \A s \in Requests : At(s, "waiting")' <=> At(s, "waiting")
  BY DEF LInv, TypeOK, GoesOn, GoTo, At, InSection
<1>. QED
  BY <1>1, <1>2 DEF LInv, LockMatchesSection, GoesOn

\* Leaving the section gives the lock back.
LEMMA LeavesLock ==
  ASSUME LInv, NEW r \in Requests, pc[r] \in InSection, Leaves(r)
  PROVE  LockMatchesSection'
<1>1. /\ lock'.taken = FALSE /\ lock'.queue = lock.queue
      /\ pc' = [pc EXCEPT ![r] = "done"]
  BY DEF Leaves, Leave, Answer, GoTo, LInv, TypeOK
<1>2. \A s \in Requests : pc'[s] \notin InSection
  BY <1>1 DEF LInv, TypeOK, LockMatchesSection, InSection
<1>3. \A s \in Requests : At(s, "waiting")' <=> At(s, "waiting")
  BY <1>1 DEF LInv, TypeOK, At, InSection
<1>. QED
  BY <1>1, <1>2, <1>3 DEF LInv, LockMatchesSection

\* The first waiter leaves the queue, into the section or with the cached
\* answer, and the others stay in it in their order.
LEMMA WakeLock ==
  ASSUME LInv, NEW r \in Requests, Wake(r)
  PROVE  LockMatchesSection'
<1>. DEFINE q == lock.queue
<1>1. /\ q \in Seq(Requests) /\ q # << >> /\ q[1] = r /\ ~lock.taken
  BY DEF Wake, LInv, LockMatchesSection, TypeOK
<1>2. /\ lock'.queue = Tail(q)
      /\ \/ lock'.taken = FALSE /\ pc' = [pc EXCEPT ![r] = "done"]
         \/ lock'.taken = TRUE /\ pc' = [pc EXCEPT ![r] = "prepare"]
  BY DEF Wake, Answer, GoTo, LInv, TypeOK
<1>3. /\ Len(Tail(q)) = Len(q) - 1 /\ Len(q) \in Nat
      /\ \A i \in 1 .. Len(Tail(q)) : Tail(q)[i] = q[i + 1]
      /\ \A i \in 1 .. Len(Tail(q)) : i + 1 \in 1 .. Len(q)
  BY <1>1
<1>4. \A i \in 1 .. Len(Tail(q)) : Tail(q)[i] # r
  BY <1>1, <1>3 DEF LInv, LockMatchesSection
<1>5. \A s \in Requests : pc[s] \notin InSection
  BY <1>1 DEF LInv, LockMatchesSection
<1>6. \A s \in Requests :
        pc'[s] = IF s # r THEN pc[s]
                 ELSE IF lock'.taken THEN "prepare" ELSE "done"
  BY <1>2 DEF LInv, TypeOK
<1>7. ASSUME NEW s \in Requests
      PROVE  At(s, "waiting")' <=>
               \E i \in 1 .. Len(lock'.queue) : lock'.queue[i] = s
  <2>1. CASE s = r
    BY <1>2, <1>4, <1>6, <2>1 DEF At
  <2>2. CASE s # r
    <3>1. At(s, "waiting")' <=> \E i \in 1 .. Len(q) : q[i] = s
      BY <1>6, <2>2 DEF At, LInv, LockMatchesSection
    <3>2. ASSUME NEW i \in 1 .. Len(q), q[i] = s
          PROVE  i - 1 \in 1 .. Len(Tail(q)) /\ Tail(q)[i - 1] = s
      <4>1. i # 1
        BY <1>1, <2>2, <3>2
      <4>. QED
        BY <1>3, <3>2, <4>1
    <3>. QED
      BY <1>2, <1>3, <3>1, <3>2
  <2>. QED
    BY <2>1, <2>2
<1>8. \A i, j \in 1 .. Len(lock'.queue) :
        lock'.queue[i] = lock'.queue[j] => i = j
  BY <1>2, <1>3 DEF LInv, LockMatchesSection
<1>9. /\ lock'.taken <=> \E s \in Requests : pc'[s] \in InSection
      /\ \A s, t \in Requests :
           pc'[s] \in InSection /\ pc'[t] \in InSection => s = t
  BY <1>2, <1>5, <1>6 DEF InSection
<1>. QED
  BY <1>7, <1>8, <1>9 DEF LockMatchesSection

\* A request that has to wait goes to the end of the queue, once.
LEMMA QueueLock ==
  ASSUME LInv, NEW r \in Requests, NEW q \in Asks, Queue(r, q)
  PROVE  LockMatchesSection'
<1>1. /\ lock.queue \in Seq(Requests) /\ pc[r] = "idle"
      /\ lock'.taken = lock.taken /\ lock'.queue = Append(lock.queue, r)
      /\ pc' = [pc EXCEPT ![r] = "waiting"]
  BY DEF Queue, Arrive, At, GoTo, LInv, TypeOK
<1>2. \A i \in 1 .. Len(lock.queue) : lock.queue[i] # r
  BY <1>1 DEF LInv, LockMatchesSection, At
<1>3. /\ Len(lock'.queue) = Len(lock.queue) + 1 /\ Len(lock.queue) \in Nat
      /\ \A i \in 1 .. Len(lock.queue) : lock'.queue[i] = lock.queue[i]
      /\ lock'.queue[Len(lock.queue) + 1] = r
  BY <1>1
<1>4. \A s \in Requests : pc'[s] = IF s = r THEN "waiting" ELSE pc[s]
  BY <1>1 DEF LInv, TypeOK
<1>5. ASSUME NEW s \in Requests
      PROVE  At(s, "waiting")' <=>
               \E i \in 1 .. Len(lock'.queue) : lock'.queue[i] = s
  <2>1. CASE s = r
    <3>1. Len(lock.queue) + 1 \in 1 .. Len(lock'.queue)
      BY <1>3
    <3>. QED
      BY <1>3, <1>4, <2>1, <3>1 DEF At
  <2>2. CASE s # r
    <3>1. At(s, "waiting")' <=>
            \E i \in 1 .. Len(lock.queue) : lock.queue[i] = s
      BY <1>4, <2>2 DEF At, LInv, LockMatchesSection
    <3>2. \A i \in 1 .. Len(lock'.queue) :
            lock'.queue[i] = s => i \in 1 .. Len(lock.queue)
      BY <1>3, <2>2
    <3>. QED
      BY <1>3, <3>1, <3>2
  <2>. QED
    BY <2>1, <2>2
<1>6. ASSUME NEW i \in 1 .. Len(lock'.queue), NEW j \in 1 .. Len(lock'.queue),
             lock'.queue[i] = lock'.queue[j]
      PROVE  i = j
  <2>1. CASE i \in 1 .. Len(lock.queue) /\ j \in 1 .. Len(lock.queue)
    BY <1>3, <1>6, <2>1 DEF LInv, LockMatchesSection
  <2>. QED
    BY <1>2, <1>3, <1>6, <2>1
<1>7. /\ lock'.taken <=> \E s \in Requests : pc'[s] \in InSection
      /\ \A s, t \in Requests :
           pc'[s] \in InSection /\ pc'[t] \in InSection => s = t
  BY <1>1, <1>4 DEF LInv, LockMatchesSection, InSection
<1>. QED
  BY <1>5, <1>6, <1>7 DEF LockMatchesSection

\* Every step leaves the lock right.
LEMMA LockStep ==
  ASSUME LInv, [Next]_vars
  PROVE  LockMatchesSection'
<1>1. ASSUME NEW r \in Requests, NEW q \in Asks, AnswerCached(r, q)
      PROVE  LockMatchesSection'
  <2>1. /\ pc[r] = "idle" /\ lock' = lock /\ pc' = [pc EXCEPT ![r] = "done"]
    BY <1>1 DEF AnswerCached, Arrive, Answer, GoTo, At
  <2>2. \A s \in Requests : /\ pc'[s] \in InSection <=> pc[s] \in InSection
                            /\ At(s, "waiting")' <=> At(s, "waiting")
    BY <2>1 DEF LInv, TypeOK, At, InSection
  <2>. QED
    BY <2>1, <2>2 DEF LInv, LockMatchesSection
<1>2. ASSUME NEW r \in Requests, NEW q \in Asks, Acquire(r, q)
      PROVE  LockMatchesSection'
  <2>1. /\ pc[r] = "idle" /\ ~lock.taken
        /\ lock'.taken = TRUE /\ lock'.queue = lock.queue
        /\ pc' = [pc EXCEPT ![r] = "prepare"]
    BY <1>2 DEF Acquire, Arrive, LockFree, GoTo, At, LInv, TypeOK
  <2>2. \A s \in Requests : /\ pc'[s] \in InSection <=> s = r
                            /\ At(s, "waiting")' <=> At(s, "waiting")
    BY <2>1 DEF LInv, TypeOK, LockMatchesSection, At, InSection
  <2>. QED
    BY <2>1, <2>2 DEF LInv, LockMatchesSection
<1>3. ASSUME NEW r \in Requests, NEW q \in Asks, Queue(r, q)
      PROVE  LockMatchesSection'
  BY <1>3, QueueLock
<1>4. ASSUME NEW r \in Requests, Wake(r)
      PROVE  LockMatchesSection'
  BY <1>4, WakeLock
<1>5. ASSUME NEW r \in Requests, Command(r)
      PROVE  LockMatchesSection'
  BY <1>5, CommandShape, GoesOnLock, LeavesLock
<1>6. CASE Restart
  <2>1. /\ lock'.taken = FALSE /\ lock'.queue = << >>
        /\ \A s \in Requests : pc'[s] \in {"idle", "done"}
    BY <1>6 DEF Restart, Unlocked
  <2>. QED
    BY <2>1 DEF LockMatchesSection, At, InSection
<1>7. CASE UNCHANGED <<pc, lock>>
  BY <1>7 DEF LInv, LockMatchesSection, At
<1>8. CASE Environment \/ UNCHANGED vars
  BY <1>6, <1>7, <1>8
     DEF Environment, CacheExpires, RuntimeBecomesReady, RuntimeExits,
         LateCreate, LateStart, ManagerStops, ManagerRemoves, ManagerCreates,
         ManagerStarts, Outside, vars
<1>. QED
  BY <1>1, <1>2, <1>3, <1>4, <1>5, <1>8 DEF Next

\* At the start nobody has or waits for the lock.
LEMMA LockStart == Init => LInv
<1>. SUFFICES ASSUME Init PROVE LInv
  OBVIOUS
<1>1. TypeOK
  <2>1. << >> \in Seq(Requests)
    OBVIOUS
  <2>2. lock \in [taken : BOOLEAN, queue : Seq(Requests)]
    BY <2>1 DEF Init, Unlocked
  <2>3. [cached |-> TRUE, image |-> NoImage] \in Asks
    BY DEF Asks
  <2>4. /\ req \in [Requests -> Asks]
        /\ pc \in [Requests -> {"idle", "waiting", "done"} \cup InSection]
        /\ answer \in [Requests -> Answers]
        /\ running \in [Requests -> BOOLEAN]
    BY <2>3 DEF Init, Answers
  <2>. QED
    BY <2>2, <2>4 DEF Init, TypeOK
<1>2. LockMatchesSection
  BY DEF Init, LockMatchesSection, Unlocked, At, InSection
<1>. QED
  BY <1>1, <1>2 DEF LInv

\* Both hold, whatever Docker, the runtime, the manager and restarts do.
THEOREM LockInvariance == Spec => []LInv
<1>1. LInv /\ [Next]_vars => LInv'
  BY TypeStep, LockStep DEF LInv
<1>. QED
  BY LockStart, <1>1, PTL DEF Spec

\* Every variable keeps its type.
THEOREM TypeCorrect == Spec => []TypeOK
<1>1. LInv => TypeOK
  BY DEF LInv
<1>. QED
  BY <1>1, LockInvariance, PTL

\* The lock is neither leaked nor shared, and every waiter is in its queue
\* once, whatever fails under it.
THEOREM Exclusion == Spec => []LockMatchesSection
<1>1. LInv => LockMatchesSection
  BY DEF LInv
<1>. QED
  BY <1>1, LockInvariance, PTL

-----------------------------------------------------------------------------
(***************************************************************************)
(* A gateway that is alone: nobody else works on the container, no command *)
(* outlasts its timeout, runtimes stay up and the process is not           *)
(* restarted.                                                              *)
(***************************************************************************)
Alone == ~ManagerActs /\ ~DockerSlow /\ ~RuntimesExit /\ MaxRestarts = 0

\* What a request can rely on at the place it has got to.
Finds(r) ==
  /\ At(r, "create") => ctr = NoCtr
  /\ pc[r] \in {"connect", "inspect", "start", "await", "mark"} => ctr # NoCtr
  /\ At(r, "mark") => ctr.state = "ready"
  /\ /\ pc[r] \in {"start", "await", "mark"} \/ answer[r] = "ready"
     /\ req[r].image # NoImage
     => ctr # NoCtr /\ ctr.image = req[r].image
  /\ pc[r] # "done" => answer[r] = "none"

AInv == late = {} /\ FreshMeansReady /\ \A r \in Requests : Finds(r)

\* The container, once there, stays, with its image, and ready once it is.
Kept ==
  ctr # NoCtr =>
    /\ ctr' # NoCtr /\ ctr'.image = ctr.image
    /\ ctr.state = "ready" => ctr'.state = "ready"

\* The entry in the cache is as good after the step.
FreshKept == fresh' => fresh \/ (ctr' # NoCtr /\ ctr'.state = "ready")

\* A container that is started, or becomes ready, is the same container.
LEMMA SameContainer ==
  ASSUME TypeOK, ctr # NoCtr, NEW s \in {"starting", "ready"},
         ctr.state = "ready" => s = "ready",
         ctr' = [ctr EXCEPT !.state = s]
  PROVE  /\ ctr' # NoCtr /\ ctr'.image = ctr.image
         /\ ctr.state = "ready" => ctr'.state = "ready"
<1>1. ctr \in Container
  BY DEF TypeOK
<1>2. /\ ctr' \in Container /\ ctr'.image = ctr.image /\ ctr'.state = s
  BY <1>1 DEF Container
<1>. QED
  BY <1>2, CtrAssumption

\* Starting it is such a step.
LEMMA StartedKept ==
  ASSUME TypeOK, ctr # NoCtr, ctr' = Started
  PROVE  ctr' # NoCtr /\ Kept
<1>1. ctr \in Container
  BY DEF TypeOK
<1>2. CASE ctr.state = "stopped"
  BY <1>2, SameContainer DEF Started, Kept
<1>3. CASE ctr.state # "stopped"
  <2>1. /\ ctr' = [ctr EXCEPT !.state = ctr.state]
        /\ ctr.state \in {"starting", "ready"}
    BY <1>1, <1>3 DEF Started, Container
  <2>. QED
    BY <2>1, SameContainer DEF Kept
<1>. QED
  BY <1>2, <1>3

\* A new container is one, and has the image the request named.
LEMMA MadeThere ==
  ASSUME TypeOK, NEW r \in Requests, NEW s \in {"stopped", "starting"},
         ctr' = Made(ImageOf(r), s)
  PROVE  /\ ctr' # NoCtr
         /\ req[r].image # NoImage => ctr'.image = req[r].image
<1>1. ctr' \in Container /\ ctr'.image = ImageOf(r)
  BY ImageThere DEF Made, Container
<1>. QED
  BY <1>1, CtrAssumption DEF ImageOf

\* What a request relies on survives the steps of others.
LEMMA Bystander ==
  ASSUME NEW s \in Requests, Finds(s), Kept,
         pc'[s] = pc[s], answer'[s] = answer[s], req'[s] = req[s],
         At(s, "create") => ctr' = ctr
  PROVE  Finds(s)'
  BY DEF Finds, Kept, At

\* A command finds what the one before it left, and leaves what the next one
\* needs.
LEMMA CommandAlone ==
  ASSUME Alone, LInv, AInv, NEW r \in Requests, Command(r)
  PROVE  late' = {} /\ Kept /\ FreshKept /\ Finds(r)'
<1>0. TypeOK /\ late = {} /\ Finds(r) /\ UNCHANGED req
  BY CommandShape DEF LInv, AInv
<1>1. ASSUME NEW p \in Places, p # "done", GoTo(r, p), UNCHANGED answer
      PROVE  pc'[r] = p /\ answer'[r] = "none"
  BY <1>0, <1>1, CommandShape DEF TypeOK, GoTo, Finds, Places, InSection
<1>2. ASSUME NEW a \in Answers, Leave(r, a)
      PROVE  pc'[r] = "done" /\ answer'[r] = a
  BY <1>0, <1>2 DEF TypeOK, Leave, Answer, GoTo
<1>3. CASE Prepare(r)
  BY <1>0, <1>1, <1>3
     DEF Prepare, Stay, docker, local, Kept, FreshKept, Finds, At, Places,
         InSection
<1>4. CASE Look(r)
  <2>1. /\ UNCHANGED <<docker, fresh, answer>>
        /\ GoTo(r, IF ctr = NoCtr THEN "create" ELSE "connect")
    BY <1>4 DEF Look
  <2>2. pc'[r] = (IF ctr = NoCtr THEN "create" ELSE "connect")
        /\ answer'[r] = "none"
    BY <1>1, <2>1 DEF Places, InSection
  <2>. QED
    BY <1>0, <2>1, <2>2 DEF docker, Kept, FreshKept, Finds, At
<1>5. CASE Create(r)
  <2>1. /\ ctr = NoCtr /\ ctr' = Made(ImageOf(r), "starting")
        /\ GoTo(r, "await") /\ UNCHANGED <<late, fresh, answer>>
    BY <1>5 DEF Create
  <2>2. pc'[r] = "await" /\ answer'[r] = "none"
    BY <1>1, <2>1 DEF Places, InSection
  <2>3. ctr' # NoCtr /\ (req[r].image # NoImage => ctr'.image = req[r].image)
    BY <1>0, <2>1, MadeThere
  <2>. QED
    BY <1>0, <2>1, <2>2, <2>3 DEF Kept, FreshKept, Finds, At
<1>6. CASE CreateHalf(r)
  <2>1. ctr = NoCtr /\ Leave(r, "error") /\ UNCHANGED <<late, fresh>>
    BY <1>6 DEF CreateHalf
  <2>2. pc'[r] = "done" /\ answer'[r] = "error"
    BY <1>2, <2>1 DEF Answers
  <2>. QED
    BY <1>0, <2>1, <2>2 DEF Kept, FreshKept, Finds, At
<1>7. CASE Connect(r)
  BY <1>0, <1>1, <1>7
     DEF Connect, Stay, docker, local, Kept, FreshKept, Finds, At, Places,
         InSection
<1>8. CASE Inspect(r)
  <2>1. /\ ctr # NoCtr /\ Matches(r) /\ UNCHANGED <<docker, fresh, answer>>
        /\ GoTo(r, IF running[r] THEN "await" ELSE "start")
    BY <1>8 DEF Inspect, Stay
  <2>2. pc'[r] \in {"await", "start"} /\ answer'[r] = "none"
    BY <1>1, <2>1 DEF Places, InSection
  <2>. QED
    BY <1>0, <2>1, <2>2 DEF docker, Kept, FreshKept, Finds, At, Matches
<1>9. CASE Start(r)
  <2>1. /\ ctr # NoCtr /\ ctr' = Started /\ At(r, "start")
        /\ GoTo(r, "await") /\ UNCHANGED <<late, fresh, answer>>
    BY <1>9 DEF Start
  <2>2. pc'[r] = "await" /\ answer'[r] = "none"
    BY <1>1, <2>1 DEF Places, InSection
  <2>3. ctr' # NoCtr /\ Kept
    BY <1>0, <2>1, StartedKept
  <2>. QED
    BY <1>0, <2>1, <2>2, <2>3 DEF Kept, FreshKept, Finds, At
<1>10. CASE Probe(r)
  BY <1>0, <1>1, <1>10
     DEF Probe, Stay, docker, local, Kept, FreshKept, Finds, At, Places,
         InSection
<1>11. CASE Mark(r)
  <2>1. /\ At(r, "mark") /\ fresh' = TRUE /\ Leave(r, "ready")
        /\ UNCHANGED docker
    BY <1>11 DEF Mark
  <2>2. pc'[r] = "done" /\ answer'[r] = "ready"
    BY <1>2, <2>1 DEF Answers
  <2>. QED
    BY <1>0, <2>1, <2>2 DEF docker, Kept, FreshKept, Finds, At
<1>12. CASE Mismatch(r) \/ NotReady(r) \/ Fails(r)
  <2>1. /\ \E a \in Answers \ {"ready"} : Leave(r, a)
        /\ UNCHANGED <<docker, fresh>>
    BY <1>12 DEF Mismatch, NotReady, Fails, Answers
  <2>2. pc'[r] = "done" /\ answer'[r] # "ready"
    BY <1>2, <2>1
  <2>. QED
    BY <1>0, <2>1, <2>2 DEF docker, Kept, FreshKept, Finds, At
<1>13. ~CreateTimesOut(r) /\ ~StartTimesOut(r)
  BY DEF Alone, CreateTimesOut, StartTimesOut
<1>. QED
  BY <1>3, <1>4, <1>5, <1>6, <1>7, <1>8, <1>9, <1>10, <1>11, <1>12, <1>13
     DEF Command

\* A request that arrives or resumes disturbs nobody.
LEMMA ArrivalAlone ==
  ASSUME LInv, AInv, NEW r \in Requests,
         \/ \E q \in Asks : AnswerCached(r, q) \/ Acquire(r, q) \/ Queue(r, q)
         \/ Wake(r)
  PROVE  /\ UNCHANGED <<docker, fresh>> /\ Finds(r)'
         /\ \A s \in Requests \ {r} :
              /\ pc'[s] = pc[s] /\ answer'[s] = answer[s] /\ req'[s] = req[s]
<1>1. UNCHANGED <<docker, fresh>>
  BY DEF AnswerCached, Acquire, Queue, Arrive, Wake
<1>2. TypeOK /\ Finds(r) /\ pc[r] # "done"
  BY DEF LInv, AInv, AnswerCached, Acquire, Queue, Arrive, Wake, At
<1>3. /\ \/ Answer(r, "cached")
         \/ GoTo(r, "prepare") /\ UNCHANGED answer
         \/ GoTo(r, "waiting") /\ UNCHANGED answer
      /\ \/ UNCHANGED req
         \/ \E q \in Asks : req' = [req EXCEPT ![r] = q]
  BY DEF AnswerCached, Acquire, Queue, Arrive, Wake, local
<1>4. /\ pc'[r] \in {"done", "prepare", "waiting"}
      /\ answer'[r] # "ready"
      /\ pc'[r] # "done" => answer'[r] = "none"
  BY <1>2, <1>3 DEF TypeOK, Answer, GoTo, Finds
<1>5. \A s \in Requests \ {r} :
        pc'[s] = pc[s] /\ answer'[s] = answer[s] /\ req'[s] = req[s]
  BY <1>2, <1>3 DEF TypeOK, Answer, GoTo
<1>. QED
  BY <1>1, <1>4, <1>5 DEF Finds, At

\* What happens around a gateway that is alone is the passing of time and the
\* runtime getting ready.
LEMMA AroundAlone ==
  ASSUME Alone, LInv, AInv, Environment \/ UNCHANGED vars
  PROVE  /\ late' = {} /\ Kept /\ FreshKept /\ UNCHANGED <<pc, answer, req>>
         /\ ctr = NoCtr => ctr' = ctr
<1>0. TypeOK /\ late = {} /\ restarts \in Nat
  BY DEF LInv, AInv, TypeOK
<1>1. CASE CacheExpires \/ UNCHANGED vars
  BY <1>0, <1>1 DEF CacheExpires, vars, docker, local, Kept, FreshKept
<1>2. CASE RuntimeBecomesReady
  <2>1. /\ ctr # NoCtr /\ ctr' = [ctr EXCEPT !.state = "ready"]
        /\ UNCHANGED <<late, fresh, pc, answer, req>>
    BY <1>2 DEF RuntimeBecomesReady, Outside, local
  <2>2. Kept
    BY <1>0, <2>1, SameContainer DEF Kept
  <2>. QED
    BY <1>0, <2>1, <2>2 DEF FreshKept
<1>3. ~LateCreate /\ ~LateStart
  BY <1>0 DEF LateCreate, LateStart
<1>4. ~Restart
  BY <1>0 DEF Alone, Restart
<1>5. /\ ~RuntimeExits /\ ~ManagerStops /\ ~ManagerRemoves
      /\ ~ManagerCreates /\ ~ManagerStarts
  BY DEF Alone, RuntimeExits, ManagerStops, ManagerRemoves, ManagerCreates,
         ManagerStarts
<1>. QED
  BY <1>1, <1>2, <1>3, <1>4, <1>5 DEF Environment

\* Every step of a gateway that is alone keeps what its requests rely on.
LEMMA AloneStep ==
  ASSUME Alone, LInv, AInv, [Next]_vars
  PROVE  AInv'
<1>0. TypeOK /\ late = {} /\ FreshMeansReady /\ \A s \in Requests : Finds(s)
  BY DEF LInv, AInv
<1>1. ASSUME NEW r \in Requests, Command(r)
      PROVE  AInv'
  <2>1. late' = {} /\ Kept /\ FreshKept /\ Finds(r)'
    BY <1>1, CommandAlone
  <2>2. ASSUME NEW s \in Requests, s # r
        PROVE  Finds(s)'
    <3>1. pc'[s] = pc[s] /\ answer'[s] = answer[s] /\ req'[s] = req[s]
      <4>1. \/ \E a \in Answers : Leave(r, a)
            \/ (\E p \in InSection : GoTo(r, p)) /\ UNCHANGED answer
        BY <1>1, CommandShape DEF Leaves, GoesOn
      <4>2. UNCHANGED req
        BY <1>1, CommandShape
      <4>. QED
        BY <1>0, <2>2, <4>1, <4>2 DEF TypeOK, Leave, Answer, GoTo
    <3>2. pc[s] \notin InSection
      BY <1>1, <2>2, CommandShape DEF LInv, LockMatchesSection
    <3>. QED
      BY <1>0, <2>1, <3>1, <3>2, Bystander DEF At, InSection
  <2>. QED
    BY <1>0, <2>1, <2>2 DEF AInv, Kept, FreshKept, FreshMeansReady
<1>2. ASSUME NEW r \in Requests,
             \/ \E q \in Asks :
                  AnswerCached(r, q) \/ Acquire(r, q) \/ Queue(r, q)
             \/ Wake(r)
      PROVE  AInv'
  <2>1. /\ UNCHANGED <<docker, fresh>> /\ Finds(r)'
        /\ \A s \in Requests \ {r} :
             pc'[s] = pc[s] /\ answer'[s] = answer[s] /\ req'[s] = req[s]
    BY <1>2, ArrivalAlone
  <2>2. Kept /\ ctr' = ctr /\ late' = late /\ fresh' = fresh
    BY <2>1 DEF Kept, docker
  <2>3. \A s \in Requests \ {r} : Finds(s)'
    BY <1>0, <2>1, <2>2, Bystander
  <2>. QED
    BY <1>0, <2>1, <2>2, <2>3 DEF AInv, FreshMeansReady
<1>3. CASE Environment \/ UNCHANGED vars
  <2>1. /\ late' = {} /\ Kept /\ FreshKept /\ UNCHANGED <<pc, answer, req>>
        /\ ctr = NoCtr => ctr' = ctr
    BY <1>3, AroundAlone
  <2>2. ASSUME NEW s \in Requests
        PROVE  Finds(s)'
    <3>1. At(s, "create") => ctr' = ctr
      BY <1>0, <2>1 DEF Finds
    <3>. QED
      BY <1>0, <2>1, <3>1, Bystander
  <2>. QED
    BY <1>0, <2>1, <2>2 DEF AInv, Kept, FreshKept, FreshMeansReady
<1>. QED
  BY <1>1, <1>2, <1>3 DEF Next

\* Nothing has been found or promised at the start.
LEMMA AloneStart == Init => AInv
  BY DEF Init, AInv, FreshMeansReady, Finds, At

\* In a gateway that is alone every request can rely on what it found.
THEOREM AloneInvariance ==
  ASSUME Alone
  PROVE  Spec => []AInv
<1>1. LInv /\ AInv /\ [Next]_vars => AInv'
  BY AloneStep
<1>. QED
  BY AloneStart, LockInvariance, <1>1, PTL DEF Spec

\* Of concurrent first requests of a gateway that is alone, one creates the
\* container, and none runs into the name of another's.
THEOREM NameIsFree ==
  ASSUME Alone
  PROVE  Spec => []CreateFindsNameFree
<1>1. AInv => CreateFindsNameFree
  BY DEF AInv, Finds, CreateFindsNameFree
<1>. QED
  BY <1>1, AloneInvariance, PTL

\* A cached answer of a gateway that is alone leads to a ready runtime.
THEOREM CachedIsReady ==
  ASSUME Alone
  PROVE  Spec => []FreshMeansReady
<1>1. AInv => FreshMeansReady
  BY DEF AInv
<1>. QED
  BY <1>1, AloneInvariance, PTL

\* A request to a gateway that is alone, told "ready", has the image it named.
THEOREM ImageIsRight ==
  ASSUME Alone
  PROVE  Spec => []ReadyHasImage
<1>1. AInv => ReadyHasImage
  BY DEF AInv, Finds, ReadyHasImage
<1>. QED
  BY <1>1, AloneInvariance, PTL

=============================================================================
