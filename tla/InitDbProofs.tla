----------------------------- MODULE InitDbProofs -----------------------------
(***************************************************************************)
(* For any list of databases, any pods and any backoffLimit: the hook Job  *)
(* implements EnsureDatabases, and a Job that fails through collisions     *)
(* alone has made as much progress as it has failed.                       *)
(***************************************************************************)
EXTENDS InitDb, FiniteSetTheorems, TLAPS

Last == Len(Order)

\* What lies behind a pod's loop exists; what it is about to create is a
\* database of the list.
LoopBehind ==
    \A p \in Pods : pc[p] # "off" =>
        /\ \A k \in DOMAIN Order : k < at[p] => Order[k] \in created
        /\ pc[p] = "create" => at[p] <= Last

\* The Job counts only a running pod, and only while it is active.
OwnerRuns == owner # NoPod => job = "active" /\ pc[owner] # "off"

CompleteMeansAll == job = "complete" => created = Databases

\* A database that failed a pod exists, and no later pod tries to create it.
CollidedOnce ==
    /\ IsFiniteSet(created)
    /\ collided \subseteq created
    /\ owner # NoPod /\ pc[owner] = "create" => Order[at[owner]] \notin collided
    /\ ~hiccup => failures <= Cardinality(collided)

IInv == TypeOK /\ LoopBehind /\ OwnerRuns /\ CompleteMeansAll /\ CollidedOnce

USE LimitsAssumption

\* The list as a function, and its elements.
LEMMA OrderFacts ==
    /\ Last \in Nat
    /\ DOMAIN Order = 1 .. Last
    /\ \A k \in 1 .. Last : Order[k] \in Databases
    /\ \A d \in Databases : \E k \in 1 .. Last : Order[k] = d
  BY OrderAssumption DEF Last, Databases

\* The invariant holds initially.
LEMMA InitIInv == Init => IInv
<1> SUFFICES ASSUME Init PROVE IInv
  OBVIOUS
<1>1. TypeOK
  <2>1. at \in [Pods -> 1 .. Len(Order) + 1]
    BY OrderFacts DEF Init, Last
  <2>2. failures \in 0 .. BackoffLimit + 1 /\ failures # BackoffLimit + 1
    BY DEF Init
  <2>3. syncs \in 0 .. MaxSyncs
    BY DEF Init
  <2> QED
    BY <2>1, <2>2, <2>3 DEF Init, TypeOK
<1>2. LoopBehind /\ OwnerRuns /\ CompleteMeansAll
  BY DEF Init, LoopBehind, OwnerRuns, CompleteMeansAll
<1>3. CollidedOnce
  BY FS_EmptySet DEF Init, CollidedOnce
<1> QED
  BY <1>1, <1>2, <1>3 DEF IInv
\* Argo CD and the Job controller, and a pod that waits for Postgres.
LEMMA ControlKeeps ==
    ASSUME IInv, StartHook \/ PgDown \/ PgUp \/ \E p \in Pods : CreatePod(p) \/ Ready(p)
    PROVE  IInv'
<1> USE DEF IInv, StartHook, PgDown, PgUp, CreatePod, Ready, sync
<1>1. TypeOK'
  <2>1. /\ created' = created /\ pg' \in BOOLEAN /\ owner' \in Pods \cup {NoPod}
        /\ pc' \in [Pods -> {"off", "wait", "check", "create"}]
        /\ collided' \subseteq Databases
    BY DEF TypeOK
  <2>2. at' \in [Pods -> 1 .. Len(Order) + 1]
    BY OrderFacts DEF TypeOK, Last
  <2>3. syncs' \in 0 .. MaxSyncs /\ failures' \in 0 .. BackoffLimit + 1
    BY DEF TypeOK
  <2>4. /\ job' \in {"none", "active", "complete", "failed"}
        /\ failures' = BackoffLimit + 1 <=> job' = "failed"
    BY DEF TypeOK
  <2>5. hiccup' \in BOOLEAN
    BY DEF TypeOK
  <2> QED
    BY <2>1, <2>2, <2>3, <2>4, <2>5 DEF TypeOK
<1>2. LoopBehind' /\ OwnerRuns' /\ CompleteMeansAll'
  BY OrderFacts DEF TypeOK, LoopBehind, OwnerRuns, CompleteMeansAll
<1>3. CollidedOnce'
  <2>1. CASE StartHook
    <3>1. /\ collided' = {} /\ failures' = 0 /\ owner' = NoPod /\ created' = created
      BY <2>1
    <3>2. failures' <= Cardinality(collided')
      BY <3>1, FS_EmptySet
    <3> QED
      BY <3>1, <3>2 DEF CollidedOnce
  <2>2. CASE ~StartHook
    <3>1. UNCHANGED <<created, collided, failures, hiccup>>
      BY <2>2
    <3>2. owner' # NoPod /\ pc'[owner'] = "create"
             => owner' = owner /\ pc[owner] = "create" /\ at'[owner] = at[owner]
      BY <2>2 DEF TypeOK
    <3> QED
      BY <3>1, <3>2 DEF CollidedOnce
  <2> QED
    BY <2>1, <2>2
<1> QED
  BY <1>1, <1>2, <1>3

\* A pod's loop advances over a database that exists, or finds one missing.
LEMMA LoopKeeps ==
    ASSUME IInv, NEW p \in Pods, Exists(p) \/ Missing(p)
    PROVE  IInv'
<1> USE DEF IInv, Exists, Missing, Looping, sync
<1>1. at[p] \in 1 .. Last
  BY OrderFacts DEF TypeOK, Last
<1>2. TypeOK'
  <2>1. at' \in [Pods -> 1 .. Len(Order) + 1]
    BY <1>1, OrderFacts DEF TypeOK, Last
  <2> QED
    BY <2>1 DEF TypeOK
<1>3. LoopBehind'
  <2>1. CASE Exists(p)
    <3>1. \A k \in DOMAIN Order : k < at'[p] => Order[k] \in created
      BY <1>1, <2>1, OrderFacts DEF TypeOK, LoopBehind
    <3> QED
      BY <2>1, <3>1 DEF TypeOK, LoopBehind
  <2>2. CASE Missing(p)
    BY <1>1, <2>2, OrderFacts DEF TypeOK, LoopBehind
  <2> QED
    BY <2>1, <2>2
<1>4. OwnerRuns' /\ CompleteMeansAll'
  BY DEF TypeOK, OwnerRuns, CompleteMeansAll
<1>5. CollidedOnce'
  BY DEF TypeOK, CollidedOnce
<1> QED
  BY <1>2, <1>3, <1>4, <1>5

\* CREATE DATABASE adds the database the pod is at, and the pod moves on.
LEMMA CreateKeeps ==
    ASSUME IInv, NEW p \in Pods, Create(p)
    PROVE  IInv'
<1> USE DEF IInv, Create, sync
<1>1. at[p] \in 1 .. Last
  BY OrderFacts DEF TypeOK, LoopBehind, Last
<1>2. Order[at[p]] \in Databases
  BY <1>1, OrderFacts
<1>3. TypeOK'
  <2>1. at' \in [Pods -> 1 .. Len(Order) + 1]
    BY <1>1, OrderFacts DEF TypeOK, Last
  <2> QED
    BY <1>2, <2>1 DEF TypeOK
<1>4. LoopBehind'
  BY <1>1, OrderFacts DEF TypeOK, LoopBehind, Last
<1>5. OwnerRuns' /\ CompleteMeansAll'
  BY <1>2 DEF TypeOK, OwnerRuns, CompleteMeansAll
<1>6. IsFiniteSet(created')
  BY FS_AddElement DEF CollidedOnce
<1>7. CollidedOnce'
  BY <1>6 DEF TypeOK, CollidedOnce
<1> QED
  BY <1>3, <1>4, <1>5, <1>7

\* The exit of a failing pod, whatever it did to the databases before.
LEMMA FailureFacts ==
    ASSUME IInv, NEW p \in Pods, CountFailure(p), pc[p] # "off"
    PROVE  /\ owner' \in Pods \cup {NoPod} /\ syncs' \in 0 .. MaxSyncs
           /\ pc' \in [Pods -> {"off", "wait", "check", "create"}]
           /\ failures' \in 0 .. BackoffLimit + 1
           /\ job' \in {"none", "active", "complete", "failed"}
           /\ failures' = BackoffLimit + 1 <=> job' = "failed"
           /\ job' = "complete" => job = "complete"
           /\ OwnerRuns'
<1> USE DEF IInv
<1>1. CASE owner # p
  BY <1>1 DEF TypeOK, OwnerRuns, CountFailure
<1>2. CASE owner = p
  <2>1. job = "active" /\ failures \in 0 .. BackoffLimit
    BY <1>2 DEF TypeOK, OwnerRuns
  <2>2. /\ owner' = NoPod /\ failures' = failures + 1 /\ syncs' = syncs
        /\ job' = IF failures = BackoffLimit THEN "failed" ELSE job
        /\ pc' = [pc EXCEPT ![p] = "off"]
    BY <1>2 DEF CountFailure
  <2>3. failures' \in 0 .. BackoffLimit + 1
    BY <2>1, <2>2
  <2>4. /\ job' \in {"active", "failed"}
        /\ failures' = BackoffLimit + 1 <=> job' = "failed"
    BY <2>1, <2>2
  <2> QED
    BY <2>2, <2>3, <2>4 DEF TypeOK, OwnerRuns
<1> QED
  BY <1>1, <1>2

\* A collision costs an attempt, and the database it collided on exists.
LEMMA CollideKeeps ==
    ASSUME IInv, NEW p \in Pods, Collide(p)
    PROVE  IInv'
<1> USE DEF IInv
<1> DEFINE d == Order[at[p]]
<1>1. /\ pc[p] = "create" /\ d \in created /\ CountFailure(p)
      /\ collided' = IF owner = p THEN collided \cup {d} ELSE collided
      /\ UNCHANGED <<created, pg, at, hiccup>>
  BY DEF Collide
<1>2. pc' = [pc EXCEPT ![p] = "off"]
  BY <1>1 DEF CountFailure
<1>3. TypeOK'
  BY <1>1, FailureFacts DEF TypeOK
<1>4. LoopBehind'
  BY <1>1, <1>2 DEF TypeOK, LoopBehind
<1>5. OwnerRuns' /\ CompleteMeansAll'
  BY <1>1, FailureFacts DEF CompleteMeansAll
<1>6. CASE owner = p
  <2>1. d \notin collided /\ IsFiniteSet(collided)
    BY <1>1, <1>6, FS_Subset, LimitsAssumption DEF CollidedOnce
  <2>2. Cardinality(collided \cup {d}) = Cardinality(collided) + 1 /\ Cardinality(collided) \in Nat
    BY <2>1, FS_AddElement, FS_CardinalityType
  <2>3. owner' = NoPod /\ failures' = failures + 1
    BY <1>1, <1>6 DEF CountFailure
  <2> HIDE DEF d
  <2>4. ~hiccup' => failures' <= Cardinality(collided')
    BY <1>1, <1>6, <2>2, <2>3 DEF TypeOK, CollidedOnce
  <2> QED
    BY <1>1, <1>3, <1>4, <1>5, <1>6, <2>3, <2>4 DEF CollidedOnce
<1>7. CASE owner # p
  <2>1. UNCHANGED <<owner, failures, collided>>
    BY <1>1, <1>7 DEF CountFailure
  <2>2. CollidedOnce'
    BY <1>1, <1>2, <1>7, <2>1 DEF TypeOK, CollidedOnce
  <2> QED
    BY <1>3, <1>4, <1>5, <2>2
<1> QED
  BY <1>6, <1>7

\* Any other failure is recorded as one, and frees the Job from its bound.
LEMMA PodFailsKeeps ==
    ASSUME IInv, NEW p \in Pods, PodFails(p)
    PROVE  IInv'
<1> USE DEF IInv
<1>1. /\ pc[p] # "off" /\ CountFailure(p)
      /\ created \subseteq created'
      /\ hiccup' = (hiccup \/ owner = p)
      /\ UNCHANGED <<pg, at, collided>>
  BY DEF PodFails
<1>2. created' \subseteq Databases /\ IsFiniteSet(created')
  <2>1. pc[p] = "create" => Order[at[p]] \in Databases
    BY OrderFacts DEF TypeOK, LoopBehind, Last
  <2> QED
    BY <2>1, FS_AddElement DEF PodFails, TypeOK, CollidedOnce
<1>3. pc' = [pc EXCEPT ![p] = "off"]
  BY <1>1 DEF CountFailure
<1>4. TypeOK'
  <2>1. hiccup' \in BOOLEAN
    BY <1>1 DEF TypeOK
  <2> QED
    BY <1>1, <1>2, <2>1, FailureFacts DEF TypeOK
<1>5. LoopBehind'
  BY <1>1, <1>3 DEF TypeOK, LoopBehind
<1>6. OwnerRuns' /\ CompleteMeansAll'
  BY <1>1, <1>2, FailureFacts DEF TypeOK, CompleteMeansAll
<1>7. CollidedOnce'
  <2>1. CASE owner = p
    <3>1. owner' = NoPod /\ hiccup'
      BY <1>1, <2>1, LimitsAssumption DEF CountFailure
    <3> QED
      BY <1>1, <1>2, <3>1 DEF CollidedOnce
  <2>2. CASE owner # p
    <3>1. UNCHANGED <<owner, failures>> /\ hiccup' = hiccup
      BY <1>1, <2>2 DEF CountFailure, TypeOK
    <3> QED
      BY <1>1, <1>2, <1>3, <2>2, <3>1 DEF TypeOK, CollidedOnce
  <2> QED
    BY <2>1, <2>2
<1> QED
  BY <1>4, <1>5, <1>6, <1>7

\* A pod reaches the end of its loop only when every database exists.
LEMMA FinishKeeps ==
    ASSUME IInv, NEW p \in Pods, Finish(p)
    PROVE  IInv' /\ created = Databases
<1> USE DEF IInv, Finish
<1>1. created = Databases
  <2>1. \A k \in 1 .. Last : k < at[p]
    BY OrderFacts DEF TypeOK, Last
  <2>2. \A k \in 1 .. Last : Order[k] \in created
    BY <2>1, OrderFacts DEF LoopBehind
  <2>3. created \subseteq Databases
    BY DEF TypeOK
  <2>4. \A d \in Databases : d \in created
    BY ONLY <2>2, OrderFacts
  <2> QED
    BY ONLY <2>3, <2>4
<1>2. OwnerRuns' /\ CompleteMeansAll' /\ LoopBehind'
  BY <1>1 DEF TypeOK, OwnerRuns, CompleteMeansAll, LoopBehind
<1>3. TypeOK'
  <2>1. job' \in {"none", "active", "complete", "failed"} /\ owner' \in Pods \cup {NoPod}
    BY DEF TypeOK
  <2>2. failures' = BackoffLimit + 1 <=> job' = "failed"
    BY DEF TypeOK, OwnerRuns
  <2> QED
    BY <2>1, <2>2 DEF TypeOK
<1>4. CollidedOnce'
  BY DEF TypeOK, CollidedOnce
<1> QED
  BY <1>1, <1>2, <1>3, <1>4

\* Every step of the specification, and a stutter, keeps the invariant.
LEMMA StepKeepsIInv == IInv /\ [Next]_vars => IInv'
<1> SUFFICES ASSUME IInv, [Next]_vars PROVE IInv'
  OBVIOUS
<1>1. CASE Next
  BY <1>1, ControlKeeps, LoopKeeps, CreateKeeps, CollideKeeps, PodFailsKeeps, FinishKeeps
  DEF Next, Advance
<1>2. CASE UNCHANGED vars
  BY <1>2 DEF vars, IInv, TypeOK, LoopBehind, OwnerRuns, CompleteMeansAll, CollidedOnce
<1> QED
  BY <1>1, <1>2

\* The invariant holds in every reachable state.
LEMMA SpecIInv == Spec => []IInv
  BY InitIInv, StepKeepsIInv, PTL DEF Spec

\* The types of the Job, its pods and the databases (TypeOK): in particular a
\* Job has given up exactly when backoffLimit + 1 of its pods have failed.
THEOREM InitDbTypes == Spec => []TypeOK
  BY SpecIInv, PTL DEF IInv

\* Without outages the Job's failures are paid for by databases (CollisionsPaid):
\* it gives up only if the pod it overlaps with has made the progress.
THEOREM CollisionsArePaid == Spec => []CollisionsPaid
<1>1. IInv => CollisionsPaid
  <2> SUFFICES ASSUME IInv, ~hiccup PROVE failures <= Cardinality(created)
    BY DEF CollisionsPaid
  <2>1. IsFiniteSet(created) /\ collided \in SUBSET created /\ failures <= Cardinality(collided)
    BY DEF IInv, CollidedOnce
  <2>2. Cardinality(collided) <= Cardinality(created)
    BY <2>1, FS_Subset
  <2>3. Cardinality(collided) \in Nat /\ Cardinality(created) \in Nat /\ failures \in Nat
    BY <2>1, FS_Subset, FS_CardinalityType DEF IInv, TypeOK
  <2> QED
    BY <2>1, <2>2, <2>3
<1> QED
  BY <1>1, SpecIInv, PTL

\* Every step is a step of EnsureDatabases or leaves its variables alone.
LEMMA StepImplements == IInv /\ IInv' /\ [Next]_vars => [Promise!Next]_(Promise!vars)
<1> SUFFICES ASSUME IInv, IInv', [Next]_vars PROVE [Promise!Next]_(Promise!vars)
  OBVIOUS
<1> USE DEF Promise!Next, Promise!vars, Promise!Add, Promise!Report, Promise!Resync
<1>1. CASE StartHook \/ PgDown \/ PgUp \/ UNCHANGED vars
  BY <1>1 DEF StartHook, PgDown, PgUp, vars, sync
<1>2. ASSUME NEW p \in Pods, CreatePod(p) \/ Ready(p) \/ Exists(p) \/ Missing(p)
      PROVE  UNCHANGED <<created, job>>
  BY <1>2 DEF CreatePod, Ready, Exists, Missing, sync
<1>3. ASSUME NEW p \in Pods, Create(p)
      PROVE  Promise!Next
  <2>1. Order[at[p]] \in Databases
    BY <1>3, OrderFacts DEF IInv, TypeOK, LoopBehind, Create, Last
  <2> QED
    BY <1>3, <2>1 DEF Create, sync
<1>4. ASSUME NEW p \in Pods, Collide(p)
      PROVE  [Promise!Next]_(Promise!vars)
  <2>1. (job' = "complete") = (job = "complete")
    BY <1>4, FailureFacts DEF Collide, CountFailure, IInv, OwnerRuns, TypeOK
  <2> QED
    BY <1>4, <2>1 DEF Collide
<1>5. ASSUME NEW p \in Pods, PodFails(p)
      PROVE  [Promise!Next]_(Promise!vars)
  <2>1. (job' = "complete") = (job = "complete")
    BY <1>5, FailureFacts DEF PodFails, CountFailure, IInv, OwnerRuns, TypeOK
  <2>2. pc[p] = "create" => Order[at[p]] \in Databases
    BY <1>5, OrderFacts DEF IInv, TypeOK, LoopBehind, Last
  <2> QED
    BY <1>5, <2>1, <2>2 DEF PodFails
<1>6. ASSUME NEW p \in Pods, Finish(p)
      PROVE  [Promise!Next]_(Promise!vars)
  <2>1. created = Databases
    BY <1>6, FinishKeeps
  <2> QED
    BY <1>6, <2>1 DEF Finish
<1> QED
  BY <1>1, <1>2, <1>3, <1>4, <1>5, <1>6 DEF Next, Advance

\* The hook keeps its promise (KeepsPromise) under every interleaving of
\* overlapping pods, outages of Postgres and new syncs.
THEOREM InitDbKeepsPromise == Spec => KeepsPromise
<1>1. Init => Promise!Init
  BY DEF Init, Promise!Init
<1> QED
  BY <1>1, StepImplements, SpecIInv, PTL DEF Spec, KeepsPromise, Promise!Spec

-----------------------------------------------------------------------------
(* The end of the Job.  JobEnds itself needs the fairness of the pods; that *)
(* an active Job only ever gets closer to its end does not.                 *)

\* How far the Job's own pod is: not there, waiting, or in the loop.
Position ==
    IF owner = NoPod THEN 0
    ELSE IF pc[owner] = "wait" THEN 1
    ELSE IF pc[owner] = "check" THEN 2 * at[owner] ELSE 2 * at[owner] + 1

\* A step of the Job controller or of the Job's own pod.
OwnStep ==
    \/ owner = NoPod /\ \E p \in Pods : CreatePod(p)
    \/ \E p \in Pods : p = owner /\ (Ready(p) \/ Advance(p) \/ PodFails(p))

\* There are finitely many positions and failures.
JobIsBounded ==
    job = "active" => failures <= BackoffLimit /\ Position \in 0 .. 2 * Last + 2

\* An active Job that is neither replaced nor over: each of its own steps moves
\* its pod on or is one more failure, and no step of another pod, of Postgres
\* or of Argo CD takes it back.
JobGoesForward ==
    [][job = "active" /\ job' = "active" /\ syncs' = syncs =>
          IF OwnStep THEN \/ failures' = failures + 1
                          \/ failures' = failures /\ Position < Position'
                     ELSE failures' = failures /\ Position' = Position]_vars

LEMMA PositionFacts ==
    ASSUME IInv
    PROVE  /\ failures \in Nat /\ (job = "active" => failures <= BackoffLimit)
           /\ Position \in 0 .. 2 * Last + 2
           /\ owner # NoPod => owner \in Pods /\ at[owner] \in 1 .. Last + 1
                               /\ pc[owner] \in {"wait", "check", "create"}
<1>1. failures \in Nat /\ (job = "active" => failures <= BackoffLimit)
  BY DEF IInv, TypeOK
<1>2. owner # NoPod => owner \in Pods /\ at[owner] \in 1 .. Last + 1
                       /\ pc[owner] \in {"wait", "check", "create"}
  BY DEF IInv, TypeOK, OwnerRuns, Last
<1>3. owner # NoPod /\ pc[owner] = "create" => at[owner] <= Last
  BY <1>2 DEF IInv, LoopBehind
<1>4. Position \in 0 .. 2 * Last + 2
  BY <1>2, <1>3, OrderFacts DEF Position
<1> QED
  BY <1>1, <1>2, <1>4

LEMMA OwnStepForward ==
    ASSUME IInv, IInv', OwnStep, job = "active", job' = "active"
    PROVE  \/ failures' = failures + 1
           \/ failures' = failures /\ Position < Position'
<1>1. ASSUME NEW p \in Pods, owner = NoPod, CreatePod(p)
      PROVE  failures' = failures /\ Position < Position'
  <2>1. owner' = p /\ pc'[p] = "wait" /\ p # NoPod /\ failures' = failures
    BY <1>1 DEF CreatePod, IInv, TypeOK
  <2> QED
    BY <1>1, <2>1 DEF Position
<1>2. ASSUME NEW p \in Pods, p = owner, PodFails(p) \/ Collide(p)
      PROVE  failures' = failures + 1
  BY <1>2 DEF PodFails, Collide, CountFailure
<1>3. ASSUME NEW p \in Pods, p = owner, Finish(p)
      PROVE  FALSE
  BY <1>3 DEF Finish
<1>4. ASSUME NEW p \in Pods, p = owner, Ready(p) \/ Exists(p) \/ Missing(p) \/ Create(p)
      PROVE  failures' = failures /\ Position < Position'
  <2>1. owner' = owner /\ failures' = failures
    BY <1>4 DEF Ready, Exists, Missing, Create, sync
  <2>2. owner # NoPod /\ at[p] \in Nat /\ at[p] >= 1
    BY <1>4, PositionFacts, OrderFacts
  <2>3. \/ pc[p] = "wait" /\ pc'[p] = "check" /\ at'[p] = at[p]
        \/ pc[p] = "check" /\ pc'[p] = "check" /\ at'[p] = at[p] + 1
        \/ pc[p] = "check" /\ pc'[p] = "create" /\ at'[p] = at[p]
        \/ pc[p] = "create" /\ pc'[p] = "check" /\ at'[p] = at[p] + 1
    BY <1>4 DEF Ready, Exists, Missing, Create, Looping, IInv, TypeOK
  <2> QED
    BY <1>4, <2>1, <2>2, <2>3 DEF Position
<1> QED
  BY <1>1, <1>2, <1>3, <1>4 DEF OwnStep, Advance

LEMMA OtherStepStays ==
    ASSUME IInv, Next, ~OwnStep, job = "active", syncs' = syncs
    PROVE  failures' = failures /\ Position' = Position
<1>1. CASE StartHook
  BY <1>1 DEF StartHook, IInv, TypeOK
<1>2. CASE PgDown \/ PgUp
  BY <1>2 DEF PgDown, PgUp, sync, Position
<1>3. ASSUME NEW p \in Pods, p # owner, Ready(p) \/ Advance(p) \/ PodFails(p)
      PROVE  failures' = failures /\ Position' = Position
  <2>1. owner' = owner /\ failures' = failures
    BY <1>3 DEF Ready, Advance, Exists, Missing, Create, Collide, Finish, PodFails,
      CountFailure, sync
  <2>2. owner # NoPod => pc'[owner] = pc[owner] /\ at'[owner] = at[owner]
    BY <1>3, PositionFacts DEF Ready, Advance, Exists, Missing, Create, Collide, Finish,
      PodFails, CountFailure, IInv, TypeOK
  <2> QED
    BY <2>1, <2>2 DEF Position
<1>4. \A p \in Pods : CreatePod(p) => OwnStep
  BY DEF CreatePod, OwnStep
<1>5. \A p \in Pods : p = owner /\ (Ready(p) \/ Advance(p) \/ PodFails(p)) => OwnStep
  BY DEF OwnStep
<1> QED
  BY <1>1, <1>2, <1>3, <1>4, <1>5 DEF Next

\* For any list of databases and any backoffLimit: a hook Job that is not
\* replaced has only so many steps, whatever overlaps with it.
THEOREM JobAdvances == Spec => []JobIsBounded /\ JobGoesForward
<1>1. IInv => JobIsBounded
  BY PositionFacts DEF JobIsBounded
<1>2. IInv /\ IInv' /\ [Next]_vars =>
        [job = "active" /\ job' = "active" /\ syncs' = syncs =>
            IF OwnStep THEN \/ failures' = failures + 1
                            \/ failures' = failures /\ Position < Position'
                       ELSE failures' = failures /\ Position' = Position]_vars
  BY OwnStepForward, OtherStepStays
<1> QED
  BY <1>1, <1>2, SpecIInv, PTL DEF Spec, JobGoesForward
=============================================================================
