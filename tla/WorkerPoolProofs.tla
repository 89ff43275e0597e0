-------------------------- MODULE WorkerPoolProofs --------------------------
(***************************************************************************)
(* Theorems about WorkerPool: types, the two caps on running workers, and   *)
(* the time an adopted worker is left alone.                                *)
(***************************************************************************)
EXTENDS WorkerPool, FiniteSetTheorems, TLAPS

-----------------------------------------------------------------------------
(* Counting *)

\* Every set of workers is finite; a subset has no more members, and one more
\* worker adds at most one.
LEMMA WorkerCount ==
  ASSUME NEW S \in SUBSET Workers
  PROVE  /\ Cardinality(S) \in Nat
         /\ \A T \in SUBSET S : Cardinality(T) <= Cardinality(S)
         /\ \A w \in Workers : Cardinality(S \cup {w}) <= Cardinality(S) + 1
<1>1. IsFiniteSet(S)
  BY FS_Subset, PoolAssumption
<1>2. Cardinality(S) \in Nat
  BY <1>1, FS_CardinalityType
<1>3. \A T \in SUBSET S : Cardinality(T) <= Cardinality(S)
  BY <1>1, FS_Subset
<1>4. ASSUME NEW w \in Workers PROVE Cardinality(S \cup {w}) <= Cardinality(S) + 1
  <2>1. Cardinality(S \cup {w}) = IF w \in S THEN Cardinality(S) ELSE Cardinality(S) + 1
    BY <1>1, FS_AddElement
  <2>. QED
    BY <1>2, <2>1
<1>. QED
  BY <1>2, <1>3, <1>4

\* What the scale policy may start: never more than the free slots, and never
\* more than the cap leaves.
LEMMA PolicyBounds ==
  ASSUME NEW q \in Nat, NEW i \in Nat, NEW r \in Nat, NEW m \in Nat, NEW f \in Nat
  PROVE  /\ StartWorkers(q, i, r, m, f) \in Nat
         /\ StartWorkers(q, i, r, m, f) <= f
         /\ StartWorkers(q, i, r, m, f) > 0 => StartWorkers(q, i, r, m, f) + r <= m
         /\ StopIdleWorkers(q, i, m) \in Nat
  BY DEF StartWorkers, StopIdleWorkers, AtLeast0, Lesser

-----------------------------------------------------------------------------
(* Types *)

\* A function updated with a value of its range stays in its function set.
LEMMA Updated ==
  ASSUME NEW S, NEW T, NEW f \in [S -> T], NEW x, NEW t \in T
  PROVE  [f EXCEPT ![x] = t] \in [S -> T]
  OBVIOUS

\* What the operators of the registry select are sets of workers.
LEMMA Selections ==
  ASSUME TypeOK, NEW j, NEW p
  PROVE  /\ UpIn(j) \in SUBSET Workers
         /\ PoolOf(j) \in SUBSET Workers
         /\ IdleOf(j, p) \in SUBSET Workers
         /\ StaleOf(j, p) \in SUBSET Workers
  BY DEF TypeOK, UpIn, PoolOf, PairOf, IdleOf, StaleOf

\* Where the pass is bound to a project, a profile or a worker, there is one.
CursorOK ==
    /\ pc \in {"sync", "profiles", "decide", "start", "register", "stop", "revoke"}
          => current \in Projects
    /\ pc \in {"decide", "start", "register", "stop", "revoke"} => pair \in Profiles
    /\ pc \in {"register", "revoke"} => subject \in Workers
    /\ pc = "register" => starts > 0

LEMMA TypeInit == Init => TypeOK /\ CursorOK
  BY PoolAssumption DEF Init, TypeOK, CursorOK, Calls, Steps

\* A step of the supervisor keeps the types.
LEMMA TypeSupervise ==
  ASSUME TypeOK, CursorOK, Supervise
  PROVE  TypeOK' /\ CursorOK'
<1>. USE DEF containers, registry, work, cursor, plan
<1>1. CASE BeginPass
  <2>1. AtLeast0(MaxWorkers - Cardinality(up)) \in Nat
    BY WorkerCount, PoolAssumption DEF AtLeast0, TypeOK
  <2>. QED
    BY <1>1, <2>1 DEF BeginPass, TypeOK, CursorOK, Steps
<1>2. CASE \E j \in Projects : ListProject(j)
  BY <1>2, Selections DEF ListProject, TypeOK, CursorOK, Steps
<1>3. CASE SyncFromProvider
  <2>1. pool' \in SUBSET Workers
    BY <1>3 DEF SyncFromProvider, TypeOK
  <2>2. busy' \in [Workers -> BOOLEAN] /\ age' \in [Workers -> 0 .. IdleTtl + 1]
    BY <1>3, PoolAssumption DEF SyncFromProvider, TypeOK
  <2>. QED
    BY <1>3, <2>1, <2>2 DEF SyncFromProvider, TypeOK, CursorOK, Steps
<1>4. CASE \E p \in Profiles : CountQueued(p)
  <2>1. \A p \in Profiles : queued[<<current, p>>] \in Nat \/ pc # "profiles"
    BY DEF TypeOK, CursorOK, Backlogs
  <2>. QED
    BY <1>4, <2>1 DEF CountQueued, TypeOK, CursorOK, Steps
<1>5. CASE Decide
  <2>1. /\ Cardinality(IdleOf(current, pair)) \in Nat
        /\ Cardinality(StaleOf(current, pair)) \in Nat
        /\ Cardinality(PoolOf(current)) \in Nat
    BY Selections, WorkerCount
  <2>2. MaxConcurrent[current] \in Nat /\ MinIdle[current] \in Nat
    BY <1>5, PoolAssumption DEF Decide, CursorOK
  <2>3. starts' \in Nat /\ stops' \in Nat
    BY <1>5, <2>1, <2>2, PolicyBounds DEF Decide, TypeOK
  <2>. QED
    BY <1>5, <2>3 DEF Decide, TypeOK, CursorOK, Steps
<1>6. CASE \E w \in Workers : StartWorker(w)
  BY <1>6 DEF StartWorker, TypeOK, CursorOK, Steps
<1>7. CASE Register
  <2>1. starts' \in Nat /\ slots' \in Nat
    BY <1>7 DEF Register, TypeOK, CursorOK, AtLeast0
  <2>2. age' \in [Workers -> 0 .. IdleTtl + 1]
    <3>1. 0 \in 0 .. IdleTtl + 1
      BY PoolAssumption
    <3>2. age \in [Workers -> 0 .. IdleTtl + 1] /\ age' = [age EXCEPT ![subject] = 0]
      BY <1>7 DEF Register, TypeOK
    <3>. QED
      BY <3>1, <3>2, Updated
  <2>. QED
    BY <1>7, <2>1, <2>2 DEF Register, TypeOK, CursorOK, Steps
<1>8. CASE PickStale
  BY <1>8, Selections DEF PickStale, TypeOK, CursorOK, Steps
<1>9. CASE \E w \in Workers : StopWorker(w)
  BY <1>9 DEF StopWorker, TypeOK, CursorOK, Steps
<1>10. CASE RemoveWorker
  <2>1. age' \in [Workers -> 0 .. IdleTtl + 1]
    <3>1. 0 \in 0 .. IdleTtl + 1
      BY PoolAssumption
    <3>2. age \in [Workers -> 0 .. IdleTtl + 1] /\ age' = [age EXCEPT ![subject] = 0]
      BY <1>10 DEF RemoveWorker, TypeOK
    <3>. QED
      BY <3>1, <3>2, Updated
  <2>. QED
    BY <1>10, <2>1 DEF RemoveWorker, TypeOK, CursorOK, Steps
<1>11. CASE NextProfile
  BY <1>11 DEF NextProfile, TypeOK, CursorOK, Steps
<1>12. CASE NextProject
  BY <1>12 DEF NextProject, TypeOK, CursorOK, Steps
<1>13. CASE EndPass
  BY <1>13 DEF EndPass, TypeOK, CursorOK, Steps
<1>. QED
  BY <1>1, <1>2, <1>3, <1>4, <1>5, <1>6, <1>7, <1>8, <1>9, <1>10, <1>11, <1>12, <1>13
     DEF Supervise

\* What goes on beside the supervisor keeps the types.
LEMMA TypeBeside ==
  ASSUME TypeOK, CursorOK, Next \/ UNCHANGED vars, ~Supervise
  PROVE  TypeOK' /\ CursorOK'
<1>. USE DEF containers, registry, work, pass, cursor, plan
<1>1. CASE UNCHANGED vars
  BY <1>1 DEF vars, TypeOK, CursorOK
<1>2. CASE AbortPass
  BY <1>2, PoolAssumption DEF AbortPass, PassOver, TypeOK, CursorOK, Steps
<1>3. CASE RestartHost
  BY <1>3, PoolAssumption DEF RestartHost, PassOver, TypeOK, CursorOK, Steps, Calls
<1>4. CASE Tick
  <2>1. \A n \in 0 .. IdleTtl + 1 : Lesser(n + 1, IdleTtl + 1) \in 0 .. IdleTtl + 1
    BY PoolAssumption DEF Lesser
  <2>2. age' \in [Workers -> 0 .. IdleTtl + 1] /\ uptime' \in 0 .. IdleTtl + 1
    BY <1>4, <2>1 DEF Tick, TypeOK
  <2>. QED
    BY <1>4, <2>2 DEF Tick, TypeOK, CursorOK
<1>5. CASE \E b \in Backlogs : Arrive(b)
  BY <1>5 DEF Arrive, TypeOK, CursorOK
<1>6. ASSUME NEW w \in Workers, NEW j \in Projects, ClaimItem(w, j)
      PROVE  TypeOK' /\ CursorOK'
  <2>1. queued' \in [Backlogs -> Nat]
    <3>. DEFINE b == <<j, profile[w]>>
    <3>1. /\ queued \in [Backlogs -> Nat] /\ queued[b] > 0
          /\ queued' = [queued EXCEPT ![b] = queued[b] - 1]
      BY <1>6 DEF ClaimItem, TypeOK
    <3>2. CASE b \in Backlogs
      <4>1. queued[b] - 1 \in Nat
        BY <3>1, <3>2
      <4>. QED
        BY <3>1, <4>1, Updated
    <3>3. CASE b \notin Backlogs
      <4>. HIDE DEF b
      <4>. QED
        BY <3>1, <3>3
    <3>. QED
      BY <3>2, <3>3
  <2>. QED
    BY <1>6, <2>1 DEF ClaimItem, TypeOK, CursorOK, Calls
<1>7. ASSUME NEW w \in Workers, HeartbeatItem(w) \/ FinishItem(w)
      PROVE  TypeOK' /\ CursorOK'
  BY <1>7 DEF HeartbeatItem, FinishItem, TypeOK, CursorOK, Calls
<1>8. ASSUME NEW w \in Workers, DropItem(w) \/ LoseLease(w)
      PROVE  TypeOK' /\ CursorOK'
  BY <1>8 DEF DropItem, LoseLease, TypeOK, CursorOK
<1>9. ASSUME NEW w \in Workers, ReadEntry(w)
      PROVE  TypeOK' /\ CursorOK'
  <2>1. call' \in [Workers -> Calls]
    BY <1>9 DEF ReadEntry, TypeOK, Calls
  <2>. QED
    BY <1>9, <2>1 DEF ReadEntry, TypeOK, CursorOK
<1>10. ASSUME NEW w \in Workers, WriteEntry(w)
       PROVE  TypeOK' /\ CursorOK'
  <2>1. age' \in [Workers -> 0 .. IdleTtl + 1] /\ busy' \in [Workers -> BOOLEAN]
    BY <1>10, PoolAssumption DEF WriteEntry, TypeOK
  <2>. QED
    BY <1>10, <2>1 DEF WriteEntry, TypeOK, CursorOK, Calls
<1>11. ASSUME NEW w \in Workers, Die(w)
       PROVE  TypeOK' /\ CursorOK'
  BY <1>11, PoolAssumption DEF Die, TypeOK, CursorOK
<1>12. ASSUME NEW w \in Workers, ExpireToken(w)
       PROVE  TypeOK' /\ CursorOK'
  BY <1>12 DEF ExpireToken, TypeOK, CursorOK
<1>. QED
  BY <1>1, <1>2, <1>3, <1>4, <1>5, <1>6, <1>7, <1>8, <1>9, <1>10, <1>11, <1>12 DEF Next

\* Every reachable state of the pool is well typed, for every set of projects,
\* profiles and workers and every setting (TypeOK).
THEOREM PoolTypeCorrect == Spec => [](TypeOK /\ CursorOK)
<1>1. TypeOK /\ CursorOK /\ [Next]_vars => (TypeOK /\ CursorOK)'
  BY TypeSupervise, TypeBeside
<1>. QED
  BY TypeInit, <1>1, PTL DEF Spec

-----------------------------------------------------------------------------
(* The caps on running workers *)

\* No running worker of the project escapes the pass: what was listed, and from
\* the synchronisation on the registry, covers them all - except the worker that
\* is started and not registered yet.
Covered ==
    /\ pc = "sync" => UpIn(current) \subseteq listed
    /\ pc \in {"profiles", "decide", "start", "stop", "revoke"} => UpIn(current) \subseteq pool
    /\ pc = "register" => UpIn(current) \subseteq pool \cup {subject}
    /\ pc = "revoke" => subject \notin up

\* What the pass still means to start fits under the project's cap and into the
\* slots it has left; between start and registration one of both is spent.
Pending == IF pc = "register" THEN starts - 1 ELSE starts
Free    == IF pc = "register" THEN slots - 1 ELSE slots
Reserved ==
    /\ pc \in {"start", "register"} =>
          /\ Pending + Cardinality(UpIn(current)) <= MaxConcurrent[current]
          /\ starts <= slots
    /\ pc # "idle" => Free + Cardinality(up) <= MaxWorkers

CapInv == Covered /\ Reserved /\ CapRespected /\ CapacityRespected

LEMMA CapInit == Init => CapInv
<1>1. Init => up = {} /\ pc = "idle"
  BY DEF Init
<1>2. ASSUME up = {} PROVE Cardinality(up) = 0 /\ \A j : UpIn(j) = {} /\ Cardinality(UpIn(j)) = 0
  <2>1. Cardinality({}) = 0
    BY FS_EmptySet
  <2>2. \A j : UpIn(j) = {}
    BY <1>2 DEF UpIn
  <2>. QED
    BY <1>2, <2>1, <2>2
<1>. QED
  BY <1>1, <1>2, PoolAssumption
     DEF CapInv, Covered, Reserved, CapRespected, CapacityRespected

\* A step that starts no container leaves each project with no more workers, so
\* it keeps both caps.
LEMMA NoneStarted ==
  ASSUME TypeOK, up' \subseteq up, project' = project
  PROVE  /\ \A j : /\ UpIn(j)' \subseteq UpIn(j)
                   /\ Cardinality(UpIn(j)) \in Nat /\ Cardinality(UpIn(j)') \in Nat
                   /\ Cardinality(UpIn(j)') <= Cardinality(UpIn(j))
         /\ Cardinality(up) \in Nat /\ Cardinality(up') \in Nat
         /\ Cardinality(up') <= Cardinality(up)
         /\ CapRespected => CapRespected'
         /\ CapacityRespected => CapacityRespected'
<1>1. up \in SUBSET Workers /\ up' \in SUBSET up /\ up' \in SUBSET Workers
  BY DEF TypeOK
<1>2. ASSUME NEW j
      PROVE  /\ UpIn(j)' \subseteq UpIn(j)
             /\ Cardinality(UpIn(j)) \in Nat /\ Cardinality(UpIn(j)') \in Nat
             /\ Cardinality(UpIn(j)') <= Cardinality(UpIn(j))
  <2>1. UpIn(j) \in SUBSET Workers /\ UpIn(j)' \in SUBSET UpIn(j) /\ UpIn(j)' \in SUBSET Workers
    BY <1>1 DEF UpIn
  <2>. QED
    BY <2>1, WorkerCount
<1>3. Cardinality(up) \in Nat /\ Cardinality(up') \in Nat /\ Cardinality(up') <= Cardinality(up)
  BY <1>1, WorkerCount
<1>4. CapRespected => CapRespected'
  <2>1. \A j \in Projects : MaxConcurrent[j] \in Nat
    BY PoolAssumption
  <2>2. SUFFICES ASSUME CapRespected, NEW j \in Projects
                 PROVE  Cardinality(UpIn(j)') <= MaxConcurrent[j]
    BY DEF CapRespected
  <2>3. Cardinality(UpIn(j)) <= MaxConcurrent[j]
    BY <2>2 DEF CapRespected
  <2>. QED
    BY <1>2, <2>1, <2>3
<1>5. CapacityRespected => CapacityRespected'
  BY <1>3, PoolAssumption DEF CapacityRespected
<1>. QED
  BY <1>2, <1>3, <1>4, <1>5

\* A start is paid for: the worker it adds was reserved under the cap of its
\* project and among the slots.
LEMMA CapStart ==
  ASSUME TypeOK, CursorOK, CapInv, NEW w \in Workers, StartWorker(w)
  PROVE  CapInv'
<1>1. /\ pc = "start" /\ pc' = "register" /\ starts > 0 /\ starts' = starts /\ slots' = slots
      /\ w \notin up /\ subject' = w /\ pool' = pool /\ current' = current
      /\ up' = up \cup {w} /\ project' = [project EXCEPT ![w] = current]
  BY DEF StartWorker, Fresh, registry, cursor
<1>2. up \in SUBSET Workers /\ project \in [Workers -> Projects \cup {None}]
      /\ current \in Projects /\ starts \in Nat /\ slots \in Nat
  BY <1>1 DEF TypeOK, CursorOK
<1>4. UpIn(current)' = UpIn(current) \cup {w}
  BY <1>1, <1>2 DEF UpIn
<1>5. \A j : j # current => UpIn(j)' = UpIn(j)
  BY <1>1, <1>2 DEF UpIn
<1>6. /\ Cardinality(UpIn(current)) \in Nat /\ Cardinality(UpIn(current)') \in Nat
      /\ Cardinality(UpIn(current)') <= Cardinality(UpIn(current)) + 1
  <2>1. UpIn(current) \in SUBSET Workers /\ UpIn(current)' \in SUBSET Workers
    BY <1>2, <1>4 DEF UpIn
  <2>. QED
    BY <1>4, <2>1, WorkerCount
<1>7. /\ Cardinality(up) \in Nat /\ Cardinality(up') \in Nat
      /\ Cardinality(up') <= Cardinality(up) + 1
  <2>1. up' \in SUBSET Workers
    BY <1>1, <1>2
  <2>. QED
    BY <1>1, <1>2, <2>1, WorkerCount
<1>8. /\ starts + Cardinality(UpIn(current)) <= MaxConcurrent[current]
      /\ starts <= slots /\ slots + Cardinality(up) <= MaxWorkers
      /\ MaxConcurrent[current] \in Nat /\ MaxWorkers \in Nat
      /\ UpIn(current) \subseteq pool
  BY <1>1, <1>2, PoolAssumption DEF CapInv, Reserved, Covered, Pending, Free
<1>9. Covered'
  BY <1>1, <1>4, <1>8 DEF Covered
<1>10. Reserved'
  BY <1>1, <1>2, <1>4, <1>6, <1>7, <1>8 DEF Reserved, Pending, Free
<1>11. CapacityRespected'
  BY <1>1, <1>2, <1>7, <1>8 DEF CapacityRespected
<1>12. CapRespected'
  <2>1. \A j \in Projects : j # current => Cardinality(UpIn(j)') <= MaxConcurrent[j]
    BY <1>5 DEF CapInv, CapRespected
  <2>2. Cardinality(UpIn(current)') <= MaxConcurrent[current]
    BY <1>1, <1>2, <1>6, <1>8
  <2>3. \A j \in Projects : j = current => UpIn(j)' = UpIn(current)'
    BY <1>1 DEF UpIn
  <2>. QED
    BY <2>1, <2>2, <2>3 DEF CapRespected
<1>. QED
  BY <1>9, <1>10, <1>11, <1>12 DEF CapInv

\* Every other step of the supervisor starts no container.
LEMMA CapSupervise ==
  ASSUME TypeOK, CursorOK, CapInv, Supervise
  PROVE  CapInv'
<1>. USE DEF containers, registry, work, cursor, plan
<1>0. CASE \E w \in Workers : StartWorker(w)
  BY <1>0, CapStart
<1>. SUFFICES ASSUME ~ \E w \in Workers : StartWorker(w)
              PROVE  CapInv'
  BY <1>0
<1>1. up' \subseteq up /\ project' = project
  BY DEF Supervise, BeginPass, ListProject, SyncFromProvider, CountQueued, Decide, Register,
         PickStale, StopWorker, RemoveWorker, NextProfile, NextProject, EndPass
<1>2. CapRespected' /\ CapacityRespected'
  BY <1>1, NoneStarted DEF CapInv
<1>3. /\ \A j : /\ UpIn(j)' \subseteq UpIn(j)
                /\ Cardinality(UpIn(j)) \in Nat /\ Cardinality(UpIn(j)') \in Nat
                /\ Cardinality(UpIn(j)') <= Cardinality(UpIn(j))
      /\ Cardinality(up) \in Nat /\ Cardinality(up') \in Nat
      /\ Cardinality(up') <= Cardinality(up)
  BY <1>1, NoneStarted
<1>4. current' = current =>
        /\ UpIn(current)' \subseteq UpIn(current)
        /\ Cardinality(UpIn(current)') \in Nat
        /\ Cardinality(UpIn(current)') <= Cardinality(UpIn(current))
  <2>1. current' = current => \A j : j = current => UpIn(current)' = UpIn(j)'
    BY DEF UpIn
  <2>. QED
    BY <1>3, <2>1
<1>5. Cardinality(UpIn(current)) \in Nat
  BY <1>3
<1>6. slots \in Nat /\ starts \in Nat /\ MaxWorkers \in Nat
      /\ \A j \in Projects : MaxConcurrent[j] \in Nat
  BY PoolAssumption DEF TypeOK
<1>7. CASE BeginPass
  <2>1. Cardinality(up) <= MaxWorkers
    BY DEF CapInv, CapacityRespected
  <2>2. slots' + Cardinality(up') <= MaxWorkers
    BY <1>3, <1>6, <1>7, <2>1 DEF BeginPass, AtLeast0
  <2>. QED
    BY <1>2, <1>7, <2>2 DEF BeginPass, CapInv, Covered, Reserved, Free
<1>8. CASE \E j \in Projects : ListProject(j)
  <2>1. PICK j \in Projects : ListProject(j)
    BY <1>8
  <2>2. Covered'
    BY <2>1 DEF ListProject, Covered, UpIn
  <2>3. Reserved'
    BY <1>3, <1>6, <2>1 DEF ListProject, CapInv, Reserved, Free
  <2>. QED
    BY <1>2, <2>2, <2>3 DEF CapInv
<1>9. CASE SyncFromProvider
  <2>1. UpIn(current)' \subseteq pool'
    <3>1. UpIn(current)' \subseteq listed
      BY <1>4, <1>9 DEF SyncFromProvider, CapInv, Covered
    <3>2. listed \subseteq pool'
      BY <1>9 DEF SyncFromProvider
    <3>. QED
      BY <3>1, <3>2
  <2>. QED
    BY <1>2, <1>3, <1>6, <1>9, <2>1 DEF SyncFromProvider, CapInv, Covered, Reserved, Free
<1>10. CASE \E p \in Profiles : CountQueued(p)
  BY <1>2, <1>3, <1>4, <1>6, <1>10 DEF CountQueued, CapInv, Covered, Reserved, Free
<1>11. CASE Decide
  <2>1. UpIn(current)' \subseteq pool' /\ UpIn(current) \subseteq PoolOf(current)
    BY <1>4, <1>11 DEF Decide, CapInv, Covered, PoolOf, UpIn
  <2>2. /\ Cardinality(IdleOf(current, pair)) \in Nat
        /\ Cardinality(PoolOf(current)) \in Nat
        /\ Cardinality(UpIn(current)) <= Cardinality(PoolOf(current))
    BY <2>1, Selections, WorkerCount
  <2>3. current \in Projects /\ backlog \in Nat
    BY <1>11 DEF Decide, CursorOK, TypeOK
  <2>4. /\ starts' \in Nat /\ starts' <= slots
        /\ starts' > 0 => starts' + Cardinality(PoolOf(current)) <= MaxConcurrent[current]
    BY <1>6, <1>11, <2>2, <2>3, PolicyBounds DEF Decide
  <2>5. Cardinality(UpIn(current)) <= MaxConcurrent[current]
    BY <2>3 DEF CapInv, CapRespected
  <2>6. starts' + Cardinality(UpIn(current)) <= MaxConcurrent[current]
    BY <1>5, <1>6, <2>2, <2>3, <2>4, <2>5
  <2>7. current' = current /\ pc = "decide" /\ pc' = "start" /\ slots' = slots
    BY <1>11 DEF Decide
  <2>8. Covered'
    BY <2>1, <2>7 DEF Covered
  <2>9. Reserved'
    BY <1>3, <1>4, <1>5, <1>6, <2>3, <2>4, <2>6, <2>7 DEF CapInv, Reserved, Pending, Free
  <2>. QED
    BY <1>2, <2>8, <2>9 DEF CapInv
<1>12. CASE Register
  <2>1. /\ pc = "register" /\ pc' = "start" /\ current' = current /\ pool' = pool \cup {subject}
        /\ slots' = AtLeast0(slots - 1) /\ starts' = starts - 1 /\ starts > 0
        /\ current \in Projects
    BY <1>12 DEF Register, CursorOK
  <2>2. Covered'
    BY <1>4, <2>1 DEF CapInv, Covered
  <2>3. slots' = slots - 1
    BY <1>6, <2>1 DEF AtLeast0, CapInv, Reserved
  <2>4. Reserved'
    BY <1>3, <1>4, <1>5, <1>6, <2>1, <2>3 DEF CapInv, Reserved, Pending, Free
  <2>. QED
    BY <1>2, <2>2, <2>4 DEF CapInv
<1>13. CASE PickStale
  BY <1>2, <1>3, <1>4, <1>6, <1>13 DEF PickStale, CapInv, Covered, Reserved, Free
<1>14. CASE \E w \in Workers : StopWorker(w)
  BY <1>2, <1>3, <1>4, <1>6, <1>14 DEF StopWorker, CapInv, Covered, Reserved, Free
<1>15. CASE RemoveWorker
  <2>1. Covered'
    BY <1>1, <1>4, <1>15 DEF RemoveWorker, CapInv, Covered, UpIn
  <2>. QED
    BY <1>2, <1>3, <1>6, <1>15, <2>1 DEF RemoveWorker, CapInv, Reserved, Free
<1>16. CASE NextProfile
  BY <1>2, <1>3, <1>4, <1>6, <1>16 DEF NextProfile, CapInv, Covered, Reserved, Free
<1>17. CASE NextProject
  BY <1>2, <1>3, <1>6, <1>17 DEF NextProject, CapInv, Covered, Reserved, Free
<1>18. CASE EndPass
  BY <1>2, <1>18 DEF EndPass, CapInv, Covered, Reserved
<1>. QED
  BY <1>7, <1>8, <1>9, <1>10, <1>11, <1>12, <1>13, <1>14, <1>15, <1>16, <1>17, <1>18
     DEF Supervise

\* What goes on beside the supervisor starts no container and takes nothing out
\* of the registry before the pass is over.
LEMMA CapBeside ==
  ASSUME TypeOK, CursorOK, CapInv, Next \/ UNCHANGED vars, ~Supervise
  PROVE  CapInv'
<1>. USE DEF containers, registry, work, pass, cursor, plan
<1>1. /\ up' \subseteq up /\ project' = project
      /\ \/ pc' = "idle"
         \/ /\ pc' = pc /\ current' = current /\ listed' = listed /\ subject' = subject
            /\ starts' = starts /\ slots' = slots /\ pool \subseteq pool'
  BY DEF Next, vars, AbortPass, RestartHost, PassOver, Tick, Arrive, ClaimItem, HeartbeatItem,
         FinishItem, DropItem, LoseLease, ReadEntry, WriteEntry, Die, ExpireToken
<1>2. CapRespected' /\ CapacityRespected'
  BY <1>1, NoneStarted DEF CapInv
<1>3. CASE pc' = "idle"
  BY <1>2, <1>3 DEF CapInv, Covered, Reserved
<1>4. CASE /\ pc' = pc /\ current' = current /\ listed' = listed /\ subject' = subject
           /\ starts' = starts /\ slots' = slots /\ pool \subseteq pool'
  <2>1. \A j : /\ UpIn(j)' \subseteq UpIn(j)
               /\ Cardinality(UpIn(j)) \in Nat /\ Cardinality(UpIn(j)') \in Nat
               /\ Cardinality(UpIn(j)') <= Cardinality(UpIn(j))
    BY <1>1, NoneStarted
  <2>2. \A j : j = current => UpIn(current)' = UpIn(j)'
    BY <1>4 DEF UpIn
  <2>3. /\ UpIn(current)' \subseteq UpIn(current)
        /\ Cardinality(UpIn(current)) \in Nat /\ Cardinality(UpIn(current)') \in Nat
        /\ Cardinality(UpIn(current)') <= Cardinality(UpIn(current))
    BY <2>1, <2>2
  <2>4. /\ Cardinality(up) \in Nat /\ Cardinality(up') \in Nat
        /\ Cardinality(up') <= Cardinality(up)
    BY <1>1, NoneStarted
  <2>5. /\ slots \in Nat /\ starts \in Nat /\ MaxWorkers \in Nat
    BY PoolAssumption DEF TypeOK
  <2>6. Covered'
    BY <1>1, <1>4, <2>3 DEF CapInv, Covered
  <2>7. ASSUME pc \in {"start", "register"}
        PROVE  (Pending + Cardinality(UpIn(current)) <= MaxConcurrent[current])'
    <3>1. current \in Projects /\ MaxConcurrent[current] \in Nat
      BY <2>7, PoolAssumption DEF CursorOK
    <3>2. Pending + Cardinality(UpIn(current)) <= MaxConcurrent[current]
      BY <2>7 DEF CapInv, Reserved
    <3>3. Pending \in Int /\ Pending' = Pending
      BY <1>4, <2>5 DEF Pending
    <3>. QED
      BY <1>4, <2>3, <3>1, <3>2, <3>3
  <2>8. Reserved'
    BY <1>4, <2>4, <2>5, <2>7 DEF CapInv, Reserved, Free
  <2>. QED
    BY <1>2, <2>6, <2>8 DEF CapInv
<1>. QED
  BY <1>1, <1>3, <1>4

\* No project ever runs more workers than its cap, for any number of projects,
\* profiles and workers, any settings and any run of faults (CapRespected).
THEOREM CapHolds == Spec => []CapRespected
<1>1. TypeOK /\ CursorOK /\ CapInv /\ [Next]_vars => (TypeOK /\ CursorOK /\ CapInv)'
  BY TypeSupervise, TypeBeside, CapSupervise, CapBeside
<1>2. CapInv => CapRespected
  BY DEF CapInv
<1>. QED
  BY TypeInit, CapInit, <1>1, <1>2, PTL DEF Spec

\* All projects together never run more workers than the provider has slots, for
\* every number of projects that share them (CapacityRespected).
THEOREM CapacityHolds == Spec => []CapacityRespected
<1>1. TypeOK /\ CursorOK /\ CapInv /\ [Next]_vars => (TypeOK /\ CursorOK /\ CapInv)'
  BY TypeSupervise, TypeBeside, CapSupervise, CapBeside
<1>2. CapInv => CapacityRespected
  BY DEF CapInv
<1>. QED
  BY TypeInit, CapInit, <1>1, <1>2, PTL DEF Spec

-----------------------------------------------------------------------------
(* Adopted workers *)

\* No entry of the registry is older than the host, and the pass only holds
\* victims once the host is older than the TTL.
AgeInv ==
    /\ \A w \in Workers : age[w] <= uptime
    /\ victims # {} => uptime > IdleTtl

LEMMA AgeInit == Init => AgeInv
  BY DEF Init, AgeInv

LEMMA AgeSupervise ==
  ASSUME TypeOK, CursorOK, AgeInv, Supervise
  PROVE  AgeInv'
<1>. USE DEF containers, registry, work, cursor, plan
<1>1. \A w \in Workers : age[w] \in 0 .. IdleTtl + 1
  BY DEF TypeOK
<1>2. uptime \in Nat /\ uptime' = uptime
  <2>1. uptime' = uptime
    BY DEF Supervise, BeginPass, ListProject, SyncFromProvider, CountQueued, Decide,
         StartWorker, Register, PickStale, StopWorker, RemoveWorker, NextProfile,
         NextProject, EndPass
  <2>2. uptime \in Nat
    BY PoolAssumption DEF TypeOK
  <2>. QED
    BY <2>1, <2>2
<1>3. ASSUME NEW w \in Workers PROVE age'[w] <= uptime'
  <2>1. age'[w] = age[w] \/ age'[w] = 0
    <3>1. age \in [Workers -> 0 .. IdleTtl + 1]
      BY DEF TypeOK
    <3>. QED
      BY <3>1 DEF Supervise, BeginPass, ListProject, SyncFromProvider, CountQueued, Decide,
         StartWorker, Register, PickStale, StopWorker, RemoveWorker, NextProfile,
         NextProject, EndPass
  <2>. QED
    BY <1>2, <2>1 DEF AgeInv
<1>4. victims' # {} => uptime' > IdleTtl
  <2>1. CASE PickStale
    <3>1. StaleOf(current, pair) # {} => uptime > IdleTtl
      <4>1. SUFFICES ASSUME NEW w \in StaleOf(current, pair) PROVE uptime > IdleTtl
        OBVIOUS
      <4>2. w \in Workers /\ age[w] > IdleTtl
        BY <4>1 DEF StaleOf, IdleOf, PairOf, PoolOf, TypeOK
      <4>. QED
        BY <1>1, <1>2, <4>2, PoolAssumption DEF AgeInv
    <3>2. victims' \subseteq StaleOf(current, pair)
      BY <2>1 DEF PickStale
    <3>. QED
      BY <1>2, <3>1, <3>2
  <2>2. CASE ~PickStale
    <3>1. victims' \subseteq victims
      BY <2>2 DEF Supervise, BeginPass, ListProject, SyncFromProvider, CountQueued, Decide,
         StartWorker, Register, StopWorker, RemoveWorker, NextProfile, NextProject, EndPass
    <3>. QED
      BY <1>2, <3>1 DEF AgeInv
  <2>. QED
    BY <2>1, <2>2
<1>. QED
  BY <1>3, <1>4 DEF AgeInv

LEMMA AgeBeside ==
  ASSUME TypeOK, AgeInv, Next \/ UNCHANGED vars, ~Supervise
  PROVE  AgeInv'
<1>. USE DEF containers, registry, work, pass, cursor, plan
<1>1. age \in [Workers -> 0 .. IdleTtl + 1] /\ uptime \in 0 .. IdleTtl + 1
  BY DEF TypeOK
<1>2. CASE Tick
  <2>1. uptime' = Lesser(uptime + 1, IdleTtl + 1) /\ uptime' >= uptime /\ victims' = victims
    BY <1>1, <1>2, PoolAssumption DEF Tick, Lesser
  <2>2. ASSUME NEW w \in Workers PROVE age'[w] <= uptime'
    <3>1. age[w] <= uptime /\ age[w] \in Nat /\ uptime \in Nat
      BY <1>1, PoolAssumption DEF AgeInv
    <3>2. age'[w] = Lesser(age[w] + 1, IdleTtl + 1) \/ age'[w] = age[w]
      BY <1>2 DEF Tick
    <3>. QED
      BY <2>1, <3>1, <3>2, PoolAssumption DEF Lesser
  <2>3. victims' # {} => uptime' > IdleTtl
    BY <1>1, <2>1, PoolAssumption DEF AgeInv, Lesser
  <2>. QED
    BY <2>2, <2>3 DEF AgeInv
<1>3. CASE RestartHost
  BY <1>3 DEF RestartHost, PassOver, AgeInv
<1>4. CASE AbortPass
  BY <1>4 DEF AbortPass, PassOver, AgeInv
<1>5. CASE \E w \in Workers : WriteEntry(w)
  <2>1. uptime' = uptime /\ victims' = victims
    BY <1>5 DEF WriteEntry
  <2>2. ASSUME NEW w \in Workers PROVE age'[w] <= uptime'
    <3>1. age'[w] = age[w] \/ age'[w] = 0
      BY <1>1, <1>5 DEF WriteEntry
    <3>2. age[w] <= uptime /\ uptime \in Nat
      BY <1>1, PoolAssumption DEF AgeInv
    <3>. QED
      BY <2>1, <3>1, <3>2
  <2>. QED
    BY <2>1, <2>2 DEF AgeInv
<1>6. CASE ~(Tick \/ RestartHost \/ AbortPass \/ \E w \in Workers : WriteEntry(w))
  <2>1. age' = age /\ uptime' = uptime /\ victims' = victims
    BY <1>6 DEF Next, vars, Arrive, ClaimItem, HeartbeatItem, FinishItem, DropItem, LoseLease,
         ReadEntry, Die, ExpireToken
  <2>. QED
    BY <2>1 DEF AgeInv
<1>. QED
  BY <1>2, <1>3, <1>4, <1>5, <1>6

\* The supervisor stops no worker before the host has been up for a whole idle
\* TTL, so one adopted after a restart is spared that long (AdoptedGetFullTtl).
THEOREM AdoptedSpared == Spec => AdoptedGetFullTtl
<1>1. TypeOK /\ CursorOK /\ AgeInv /\ [Next]_vars => (TypeOK /\ CursorOK /\ AgeInv)'
  BY TypeSupervise, TypeBeside, AgeSupervise, AgeBeside
<1>2. AgeInv => [\A w \in Workers : StopWorker(w) => uptime > IdleTtl]_vars
  BY DEF AgeInv, StopWorker
<1>. QED
  BY TypeInit, AgeInit, <1>1, <1>2, PTL DEF Spec, AdoptedGetFullTtl

-----------------------------------------------------------------------------
(* The contract of the pool *)

\* A running worker was started for a project.
LabelOK == \A w \in up : project[w] \in Projects

PoolInv == TypeOK /\ CursorOK /\ CapInv /\ LabelOK

LEMMA LabelStep ==
  ASSUME TypeOK, CursorOK, LabelOK, [Next]_vars
  PROVE  LabelOK'
<1>1. CASE \E w \in Workers : StartWorker(w)
  <2>1. PICK w \in Workers : StartWorker(w)
    BY <1>1
  <2>2. /\ current \in Projects /\ up' = up \cup {w}
        /\ project' = [project EXCEPT ![w] = current]
    BY <2>1 DEF StartWorker, CursorOK
  <2>. QED
    BY <2>2 DEF LabelOK, TypeOK
<1>2. CASE ~ \E w \in Workers : StartWorker(w)
  <2>1. up' \subseteq up /\ project' = project
    BY <1>2 DEF Next, vars, containers, Supervise, BeginPass, ListProject, SyncFromProvider,
         CountQueued, Decide, Register, PickStale, StopWorker, RemoveWorker, NextProfile,
         NextProject, EndPass, AbortPass, RestartHost, Tick, Arrive, ClaimItem, HeartbeatItem,
         FinishItem, DropItem, LoseLease, ReadEntry, WriteEntry, Die, ExpireToken
  <2>. QED
    BY <2>1 DEF LabelOK
<1>. QED
  BY <1>1, <1>2

LEMMA PoolInvariant == Spec => []PoolInv
<1>1. Init => PoolInv
  BY TypeInit, CapInit DEF Init, LabelOK, PoolInv
<1>2. PoolInv /\ [Next]_vars => PoolInv'
  BY TypeSupervise, TypeBeside, CapSupervise, CapBeside, LabelStep DEF PoolInv
<1>. QED
  BY <1>1, <1>2, PTL DEF Spec

\* Where a worker runs, as the contract sees it.
RunsFor == [w \in Workers |-> IF w \in up THEN project[w] ELSE None]

LEMMA RunningMapped ==
  ASSUME PoolInv
  PROVE  /\ Contract!Running = up
         /\ \A j \in Projects : Contract!In(j) = UpIn(j)
  BY PoolAssumption
     DEF PoolInv, LabelOK, TypeOK, Contract!Running, Contract!In, UpIn

\* The contract counts as the pool does.
LEMMA SameCount == \A S : Contract!Cardinality(S) = Cardinality(S)
  BY DEF Contract!Cardinality, Cardinality

\* A start has room: what the pass decided on what it had read still fits.
LEMMA StartMapped ==
  ASSUME PoolInv, NEW w \in Workers, StartWorker(w)
  PROVE  \E j \in Projects : Contract!Start(w, j)
<1>. PICK j \in Projects : j = current
  BY DEF StartWorker, PoolInv, CursorOK
<1>1. /\ pc = "start" /\ starts > 0 /\ w \notin up
      /\ up' = up \cup {w} /\ project' = [project EXCEPT ![w] = j]
      /\ UNCHANGED <<busy, age, victims, faults>>
  BY DEF StartWorker, Fresh, registry
<1>2. /\ starts \in Nat /\ slots \in Nat /\ MaxWorkers \in Nat /\ MaxConcurrent[j] \in Nat
      /\ up \in SUBSET Workers /\ project \in [Workers -> Projects \cup {None}]
  BY PoolAssumption DEF PoolInv, TypeOK
<1>3. Cardinality(up) \in Nat /\ Cardinality(UpIn(j)) \in Nat
  BY <1>2, WorkerCount, Selections DEF PoolInv
<1>4. Cardinality(UpIn(j)) < MaxConcurrent[j] /\ Cardinality(up) < MaxWorkers
  BY <1>1, <1>2, <1>3 DEF PoolInv, CapInv, Reserved, Pending, Free
<1>5. RunsFor' = [RunsFor EXCEPT ![w] = j] /\ RunsFor[w] = None
  BY <1>1, <1>2 DEF RunsFor
<1>. QED
  BY <1>1, <1>4, <1>5, RunningMapped, SameCount DEF Contract!Start, RunsFor

\* A stop is that of a condemned worker.
LEMMA StopMapped ==
  ASSUME PoolInv, NEW w \in Workers, StopWorker(w)
  PROVE  Contract!Stop(w)
<1>1. /\ w \in victims /\ victims' = victims \ {w} /\ up' = up \ {w}
      /\ project' = project /\ UNCHANGED <<busy, age, faults>>
  BY DEF StopWorker, registry
<1>2. RunsFor' = [RunsFor EXCEPT ![w] = None]
  BY <1>1 DEF RunsFor
<1>. QED
  BY <1>1, <1>2 DEF Contract!Stop, RunsFor

\* The list of victims is drawn from workers that are idle for too long.
LEMMA PickMapped ==
  ASSUME PoolInv, PickStale
  PROVE  \E V \in SUBSET Workers : Contract!Condemn(V)
<1>1. PICK V \in SUBSET StaleOf(current, pair) : victims' = V
  BY DEF PickStale
<1>2. UNCHANGED <<up, project, busy, age, faults>>
  BY DEF PickStale, containers, registry
<1>3. V \in SUBSET Workers /\ \A w \in V : ~busy[w] /\ age[w] > IdleTtl
  BY <1>1, Selections DEF PoolInv, StaleOf, IdleOf
<1>4. RunsFor' = RunsFor
  BY <1>2 DEF RunsFor
<1>. QED
  BY <1>1, <1>2, <1>3, <1>4 DEF Contract!Condemn, RunsFor

\* What resets entries of the registry is, to the contract, a sign of life.
LEMMA HearMapped ==
  ASSUME PoolInv, PoolInv', NEW V \in SUBSET Workers,
         UNCHANGED <<up, project, victims, faults>>,
         \A w \in V : age'[w] = 0,
         \A w \in Workers \ V : age'[w] = age[w] /\ busy'[w] = busy[w]
  PROVE  Contract!Hear(V)
<1>1. /\ busy' \in [Workers -> BOOLEAN]
      /\ age' = [w \in Workers |-> IF w \in V THEN 0 ELSE age[w]]
  BY DEF PoolInv, TypeOK
<1>2. RunsFor' = RunsFor
  BY DEF RunsFor
<1>. QED
  BY <1>1, <1>2 DEF Contract!Hear, RunsFor

LEMMA SuperviseMapped ==
  ASSUME PoolInv, PoolInv', Supervise
  PROVE  [Contract!Next]_(Contract!contractVars)
<1>a. age \in [Workers -> 0 .. IdleTtl + 1] /\ busy \in [Workers -> BOOLEAN]
  BY DEF PoolInv, TypeOK
<1>1. CASE \E w \in Workers : StartWorker(w)
  BY <1>1, StartMapped DEF Contract!Next
<1>2. CASE \E w \in Workers : StopWorker(w)
  BY <1>2, StopMapped DEF Contract!Next
<1>3. CASE PickStale
  BY <1>3, PickMapped DEF Contract!Next
<1>4. CASE SyncFromProvider
  <2>1. /\ UNCHANGED <<up, project, victims, faults>>
        /\ busy' = [w \in Workers |-> busy[w] /\ w \in pool' \ (listed \ pool)]
        /\ age'  = [w \in Workers |-> IF w \in pool' \ (listed \ pool) THEN age[w] ELSE 0]
    BY <1>4 DEF SyncFromProvider, containers, plan
  <2>. DEFINE V == Workers \ (pool' \ (listed \ pool))
  <2>2. /\ V \in SUBSET Workers /\ \A w \in V : age'[w] = 0
        /\ \A w \in Workers \ V : age'[w] = age[w]
    BY <2>1
  <2>3. \A w \in Workers \ V : busy'[w] = busy[w]
    BY <1>a, <2>1
  <2>. HIDE DEF V
  <2>4. Contract!Hear(V)
    BY <2>1, <2>2, <2>3, HearMapped
  <2>. QED
    BY <2>2, <2>4 DEF Contract!Next
<1>5. CASE Register \/ RemoveWorker
  <2>1. /\ UNCHANGED <<up, project, victims, faults>> /\ subject \in Workers
        /\ busy' = [busy EXCEPT ![subject] = FALSE] /\ age' = [age EXCEPT ![subject] = 0]
    BY <1>5 DEF Register, RemoveWorker, containers, PoolInv, CursorOK
  <2>2. Contract!Hear({subject})
    BY <1>a, <2>1, HearMapped
  <2>. QED
    BY <2>1, <2>2 DEF Contract!Next
<1>6. ASSUME UNCHANGED <<up, project, busy, age, victims, faults>>
      PROVE  UNCHANGED Contract!contractVars
  BY <1>6 DEF Contract!contractVars
<1>7. CASE BeginPass \/ Decide \/ NextProfile \/ NextProject \/ EndPass
           \/ (\E j \in Projects : ListProject(j)) \/ (\E p \in Profiles : CountQueued(p))
  BY <1>6, <1>7 DEF BeginPass, Decide, NextProfile, NextProject, EndPass, ListProject,
                    CountQueued, containers, registry, plan
<1>. QED
  BY <1>1, <1>2, <1>3, <1>4, <1>5, <1>7 DEF Supervise

LEMMA BesideMapped ==
  ASSUME PoolInv, PoolInv', Next \/ UNCHANGED vars, ~Supervise
  PROVE  [Contract!Next]_(Contract!contractVars)
<1>. USE DEF containers, registry, pass, plan
<1>a. age \in [Workers -> 0 .. IdleTtl + 1] /\ busy \in [Workers -> BOOLEAN]
  BY DEF PoolInv, TypeOK
<1>1. CASE AbortPass
  <2>1. /\ UNCHANGED <<up, project, busy, age>> /\ faults' = faults + 1 /\ victims' = {}
    BY <1>1 DEF AbortPass, PassOver
  <2>. QED
    BY <2>1 DEF Contract!Next, Contract!Relent, Contract!Fault
<1>2. CASE RestartHost
  <2>1. /\ UNCHANGED <<up, project>> /\ faults' = faults + 1 /\ victims' = {}
        /\ busy' = [w \in Workers |-> FALSE] /\ age' = [w \in Workers |-> 0]
    BY <1>2 DEF RestartHost, PassOver
  <2>. QED
    BY <2>1 DEF Contract!Next, Contract!Forget, Contract!Fault
<1>3. CASE Tick
  <2>1. /\ UNCHANGED <<up, project, busy, victims, faults>>
        /\ age' \in [Workers -> 0 .. IdleTtl + 1]
    BY <1>3 DEF Tick, PoolInv, TypeOK
  <2>2. \A w \in Workers : age'[w] \in {age[w], age[w] + 1}
    <3>1. \A n \in 0 .. IdleTtl + 1 : Lesser(n + 1, IdleTtl + 1) \in {n, n + 1}
      BY PoolAssumption DEF Lesser
    <3>. QED
      BY <1>3, <1>a, <3>1 DEF Tick
  <2>. QED
    BY <2>1, <2>2 DEF Contract!Next, Contract!Pass
<1>4. ASSUME NEW w \in Workers, WriteEntry(w) PROVE Contract!Next
  <2>1. /\ UNCHANGED <<up, project, victims, faults>>
        /\ age' = [age EXCEPT ![w] = 0] /\ busy' = [busy EXCEPT ![w] = call[w] = "putBusy"]
    BY <1>4 DEF WriteEntry
  <2>2. Contract!Hear({w})
    BY <1>a, <2>1, HearMapped
  <2>. QED
    BY <2>2 DEF Contract!Next
<1>5. ASSUME NEW w \in Workers, Die(w) PROVE Contract!Next
  <2>1. /\ up' = up \ {w} /\ faults' = faults + 1
        /\ UNCHANGED <<project, busy, age, victims>>
    BY <1>5 DEF Die
  <2>2. RunsFor' = [RunsFor EXCEPT ![w] = None]
    BY <2>1 DEF RunsFor
  <2>3. Contract!Lose(w)
    BY <2>1, <2>2 DEF Contract!Lose, Contract!Fault, RunsFor
  <2>. QED
    BY <2>3 DEF Contract!Next
<1>6. ASSUME UNCHANGED <<up, project, busy, age, victims, faults>>
      PROVE  UNCHANGED Contract!contractVars
  BY <1>6 DEF Contract!contractVars
<1>7. ASSUME ~AbortPass, ~RestartHost, ~Tick,
             ~ \E w \in Workers : WriteEntry(w) \/ Die(w)
      PROVE  UNCHANGED <<up, project, busy, age, victims, faults>>
  BY <1>7 DEF Next, vars, Arrive, ClaimItem, HeartbeatItem, FinishItem, DropItem, LoseLease,
              ReadEntry, ExpireToken
<1>. QED
  BY <1>1, <1>2, <1>3, <1>4, <1>5, <1>6, <1>7

\* The pool keeps its contract, for any projects, profiles, workers and settings:
\* a start has room under both caps when it is made, although the pass decided it
\* on what it read before; a stop is that of a worker the same pass found idle
\* beyond the TTL; and all else that happens to a worker is a counted fault.
THEOREM PoolKeepsContract == Spec => KeepsContract
<1>1. Init => Contract!Init
  <2>. SUFFICES ASSUME Init PROVE Contract!Init
    OBVIOUS
  <2>1. RunsFor = [w \in Workers |-> None]
    BY DEF Init, RunsFor
  <2>. QED
    BY <2>1 DEF Init, Contract!Init, RunsFor
<1>2. PoolInv /\ PoolInv' /\ [Next]_vars => [Contract!Next]_(Contract!contractVars)
  BY SuperviseMapped, BesideMapped
<1>. QED
  BY <1>1, <1>2, PoolInvariant, PTL DEF Spec, KeepsContract, Contract!Spec
=============================================================================
