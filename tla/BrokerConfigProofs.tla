------------------------- MODULE BrokerConfigProofs -------------------------
(***************************************************************************)
(* For any texts, any number of rollouts and of script runs: the types of  *)
(* the broker's configuration, that a fix that reaches DONE leaves no      *)
(* broker on a configuration older than the script's own write, and that   *)
(* rollouts keep a broker ready.  Then the assumption behind it, about the *)
(* Applications that own the broker's resources: nothing removes them.     *)
(***************************************************************************)
EXTENDS BrokerConfig, TLAPS

\* The ConfigMap never holds a text the history does not know.
CmSeen == cm \in seen \cup {Absent}

\* Which commands belong to which script.
CommandOfScript ==
    /\ at = "none" <=> script = "none"
    /\ at \in {"delete_cm", "create_cm", "wait_ready", "verify", "restart_storage"}
         => script = "defs"
    /\ at \in {"apply_cm", "rollout", "rollout_status"} => script = "pwd"

\* Only a scaled ReplicaSet has a pod, and no revision is newer than gen.
PodsOfReplicaSets ==
    /\ \A g \in Gens : phase[g] # "none" => g \in rs
    /\ \A g \in rs : g <= gen

\* After the forced deletion of "defs" every container is fresh; after the
\* rollout of "pwd", whose deletion may have failed, the newest one is.
Fresh(g) == Up(g) => cfg[g] \in seen

FreshSinceWrite ==
    /\ at \in {"wait_ready", "verify", "restart_storage"} => \A g \in Gens : Fresh(g)
    /\ at = "rollout_status" => Fresh(gen)

IInv ==
    /\ TypeOK
    /\ CmSeen
    /\ CommandOfScript
    /\ PodsOfReplicaSets
    /\ FreshSinceWrite

USE BoundsAssumption DEF Scripts, Gens, Commands

\* The invariant holds initially.
LEMMA InitIInv == Init => IInv
<1> SUFFICES ASSUME Init PROVE IInv
  OBVIOUS
<1>1. TypeOK
  <2>1. givenUp \in BOOLEAN
    BY DEF Init
  <2>2. /\ git = GitText /\ cm = GitText /\ gen = 1 /\ rs = {1}
        /\ phase = [g \in Gens |-> IF g = 1 THEN "ready" ELSE "none"]
        /\ cfg = [g \in Gens |-> IF g = 1 THEN GitText ELSE Absent]
        /\ script = "none" /\ at = "none" /\ runs = 0 /\ seen = {GitText}
        /\ recap = [s \in Scripts |-> "never"]
    BY DEF Init
  <2> QED
    BY <2>1, <2>2, TextsAssumption DEF TypeOK
<1>2. CmSeen /\ CommandOfScript /\ PodsOfReplicaSets /\ FreshSinceWrite
  BY DEF Init, CmSeen, CommandOfScript, PodsOfReplicaSets, FreshSinceWrite
<1> QED
  BY <1>1, <1>2 DEF IInv

\* Git and Argo CD touch neither the pods nor the script, and what Argo CD
\* puts back is added to the history.
LEMMA GitKeeps ==
    ASSUME IInv, SelfHeal \/ SyncFails \/ ManualSync \/ \E t \in Texts : Commit(t)
    PROVE  IInv'
<1> USE DEF IInv, SelfHeal, SyncFails, ManualSync, ApplyGit, Commit, deployment, operator
<1>1. TypeOK' /\ CmSeen'
  BY DEF TypeOK, CmSeen
<1>2. CommandOfScript' /\ PodsOfReplicaSets'
  BY DEF TypeOK, CommandOfScript, PodsOfReplicaSets
<1>3. FreshSinceWrite'
  BY DEF TypeOK, FreshSinceWrite, Fresh, Up
<1> QED
  BY <1>1, <1>2, <1>3

\* A container starts, or restarts, with the ConfigMap's text or its own.
LEMMA PodKeeps ==
    ASSUME IInv, NEW g \in Gens, Controllers(g) \/ ContainerDies(g)
    PROVE  IInv'
<1> USE DEF IInv
<1>1. /\ phase' \in [Gens -> {"none", "creating", "starting", "ready"}]
      /\ \A h \in Gens \ {g} : phase'[h] = phase[h] /\ cfg'[h] = cfg[h]
      /\ phase'[g] # "none" /\ g \in rs
      /\ UNCHANGED <<git, givenUp, cm, gen, rs, operator, seen>>
  BY DEF TypeOK, PodsOfReplicaSets, Controllers, CreatePod, StartContainer, BecomeReady,
         CrashLoop, ContainerDies
<1>2. /\ cfg' \in [Gens -> Texts \cup {Absent}]
      /\ cfg'[g] \in Texts <=> phase'[g] \in {"starting", "ready"}
      /\ cfg'[g] \in Texts => cfg'[g] = cm \/ (cfg'[g] = cfg[g] /\ Up(g))
  BY TextsAssumption
  DEF TypeOK, Up, Controllers, CreatePod, StartContainer, BecomeReady, CrashLoop,
      ContainerDies
<1>3. TypeOK'
  BY <1>1, <1>2 DEF TypeOK, operator
<1>4. CmSeen' /\ CommandOfScript'
  BY <1>1 DEF CmSeen, CommandOfScript, operator
<1>5. PodsOfReplicaSets'
  BY <1>1 DEF PodsOfReplicaSets
<1>6. FreshSinceWrite'
  <2>1. \A h \in Gens : Fresh(h) => Fresh(h)'
    BY <1>1, <1>2, TextsAssumption DEF TypeOK, CmSeen, Fresh, Up
  <2> QED
    BY <1>1, <2>1 DEF TypeOK, FreshSinceWrite, operator
<1> QED
  BY <1>3, <1>4, <1>5, <1>6

\* Rollouts: the new revision has no pod yet, and old pods only disappear.
LEMMA RolloutKeeps ==
    ASSUME IInv, ScaleDownOld \/ SyncDeployment \/ Rollout
    PROVE  IInv'
<1> USE DEF IInv
<1>1. CASE ScaleDownOld
  <2>1. TypeOK'
    BY <1>1, TextsAssumption DEF TypeOK, ScaleDownOld, operator
  <2>2. CmSeen' /\ CommandOfScript' /\ PodsOfReplicaSets'
    BY <1>1 DEF TypeOK, CmSeen, CommandOfScript, PodsOfReplicaSets, ScaleDownOld, operator
  <2>3. FreshSinceWrite'
    BY <1>1 DEF TypeOK, FreshSinceWrite, Fresh, Up, ScaleDownOld, operator
  <2> QED
    BY <2>1, <2>2, <2>3
<1>2. CASE SyncDeployment \/ Rollout
  <2>1. /\ gen' = gen + 1 /\ gen' \in Gens /\ rs' = rs \cup {gen + 1}
        /\ UNCHANGED <<git, givenUp, cm, phase, cfg, seen>>
    BY <1>2 DEF TypeOK, SyncDeployment, Rollout, StartRollout
  <2>2. TypeOK'
    BY <1>2, <2>1 DEF TypeOK, SyncDeployment, Rollout, GoTo, operator
  <2>3. CmSeen' /\ CommandOfScript' /\ PodsOfReplicaSets'
    BY <1>2, <2>1
    DEF TypeOK, CmSeen, CommandOfScript, PodsOfReplicaSets, SyncDeployment, Rollout,
        GoTo, operator
  <2>4. phase[gen'] = "none"
    BY <2>1 DEF TypeOK, PodsOfReplicaSets
  <2>5. FreshSinceWrite'
    BY <1>2, <2>1, <2>4
    DEF TypeOK, FreshSinceWrite, Fresh, Up, SyncDeployment, Rollout, GoTo, operator
  <2> QED
    BY <2>2, <2>3, <2>5
<1> QED
  BY <1>1, <1>2

\* The scripts' writes restart the history; their deletions leave no container
\* that predates them.
LEMMA WriteKeeps ==
    ASSUME IInv, DeleteCm \/ CreateCm \/ ApplyCm
    PROVE  IInv'
<1> USE DEF IInv, DeleteCm, CreateCm, ApplyCm, GoTo, deployment
<1>1. TypeOK' /\ CmSeen'
  BY TextsAssumption DEF TypeOK, CmSeen
<1>2. CommandOfScript' /\ PodsOfReplicaSets'
  BY DEF TypeOK, CommandOfScript, PodsOfReplicaSets
<1>3. FreshSinceWrite'
  BY DEF FreshSinceWrite
<1> QED
  BY <1>1, <1>2, <1>3

\* Deleting every pod leaves no container, so none that is stale.
LEMMA DeleteKeeps ==
    ASSUME IInv, DeletePods \/ DeletePodsIgnored
    PROVE  IInv'
<1>0. at' \in Commands
  BY DEF DeletePods, DeletePodsIgnored, GoTo
<1>1. TypeOK' /\ CmSeen'
  <2>1. CASE DeletePods
    BY <1>0, <2>1, TextsAssumption DEF IInv, TypeOK, CmSeen, DeletePods, GoTo
  <2>2. CASE DeletePodsIgnored
    BY <1>0, <2>2 DEF IInv, TypeOK, CmSeen, DeletePodsIgnored, GoTo, deployment
  <2> QED
    BY <2>1, <2>2
<1> USE DEF IInv, DeletePods, DeletePodsIgnored, GoTo, deployment
<1>2. CommandOfScript' /\ PodsOfReplicaSets'
  BY DEF TypeOK, CommandOfScript, PodsOfReplicaSets
<1>3. FreshSinceWrite'
  BY DEF TypeOK, CommandOfScript, FreshSinceWrite, Fresh, Up
<1> QED
  BY <1>1, <1>2, <1>3

\* Commands that only look, the end of a script and its start.
LEMMA ControlKeeps ==
    ASSUME IInv,
           \/ WaitReady \/ Verify \/ RestartStorage \/ RolloutStatus \/ Abort
           \/ \E s \in Scripts : Launch(s)
    PROVE  IInv'
<1> USE DEF IInv, WaitReady, Verify, RestartStorage, RolloutStatus, Abort, Launch, FirstOf,
        GoTo, End, deployment
<1>1. UNCHANGED <<git, givenUp, cm, seen, gen, rs, phase, cfg>>
  OBVIOUS
<1>2. TypeOK' /\ CmSeen'
  <2>1. script' \in Scripts \cup {"none"} /\ at' \in Commands
    BY DEF TypeOK
  <2>2. runs' \in 0 .. MaxRuns
    BY DEF TypeOK
  <2>3. recap' \in [Scripts -> {"never", "done", "aborted"}]
    BY DEF TypeOK
  <2> QED
    BY <1>1, <2>1, <2>2, <2>3 DEF TypeOK, CmSeen
<1>3. CommandOfScript' /\ PodsOfReplicaSets'
  BY DEF TypeOK, CommandOfScript, PodsOfReplicaSets
<1>4. FreshSinceWrite'
  BY DEF TypeOK, FreshSinceWrite, Fresh, Up
<1> QED
  BY <1>2, <1>3, <1>4

\* Every step of the specification, and a stutter, keeps the invariant.
LEMMA StepKeepsIInv == IInv /\ [Next]_vars => IInv'
<1> SUFFICES ASSUME IInv, [Next]_vars PROVE IInv'
  OBVIOUS
<1>1. CASE Next
  BY <1>1, GitKeeps, PodKeeps, RolloutKeeps, WriteKeeps, DeleteKeeps, ControlKeeps
  DEF Next, ScriptStep
<1>2. CASE UNCHANGED vars
  BY <1>2 DEF vars, deployment, operator, IInv, TypeOK, CmSeen, CommandOfScript,
              PodsOfReplicaSets, FreshSinceWrite, Fresh, Up
<1> QED
  BY <1>1, <1>2

\* The invariant holds in every reachable state.
LEMMA SpecIInv == Spec => []IInv
  BY InitIInv, StepKeepsIInv, PTL DEF Spec

\* The types of the ConfigMap, the rollout and the scripts (TypeOK), whatever
\* the texts and the bounds.
THEOREM BrokerConfigTypes == Spec => []TypeOK
  BY SpecIInv, PTL DEF IInv

\* However Argo CD, the controllers and commits interleave with a fix, the
\* broker it leaves was started after the fix's own write.
THEOREM FixLeavesNoStaleBroker == Spec => NoStaleAfterFix
<1> DEFINE AllFresh == Finish => \A g \in Gens : Up(g) => cfg[g] \in seen
<1>1. IInv => AllFresh
  <2> SUFFICES ASSUME IInv, Finish, NEW g \in Gens, Up(g) PROVE cfg[g] \in seen
    OBVIOUS
  <2>1. CASE RestartStorage
    BY <2>1 DEF IInv, FreshSinceWrite, Fresh, RestartStorage
  <2>2. CASE RolloutStatus
    <3>1. g = gen
      BY <2>2 DEF IInv, PodsOfReplicaSets, Up, RolloutStatus
    <3> QED
      BY <2>2, <3>1 DEF IInv, FreshSinceWrite, Fresh, RolloutStatus
  <2> QED
    BY <2>1, <2>2 DEF Finish
<1>2. IInv /\ [Next]_vars => [AllFresh]_vars
  BY <1>1
<1> QED
  BY <1>2, SpecIInv, PTL DEF NoStaleAfterFix, Spec

\* A pod's own steps act on a pod that is not ready and leave it at least as
\* far as it was; nothing else is ready for them or ceases to be.
LEMMA PodStepKeepsReady ==
    ASSUME IInv, NEW g \in Gens, Controllers(g), NEW h \in Gens, phase[h] = "ready"
    PROVE  phase'[h] = "ready"
<1>1. phase \in [Gens -> {"none", "creating", "starting", "ready"}]
  BY DEF IInv, TypeOK
<1>2. CASE CreatePod(g)
  BY <1>1, <1>2 DEF CreatePod
<1>3. CASE StartContainer(g)
  BY <1>1, <1>3 DEF StartContainer
<1>4. CASE BecomeReady(g)
  BY <1>1, <1>4 DEF BecomeReady
<1>5. CASE CrashLoop(g)
  BY <1>5 DEF CrashLoop
<1> QED
  BY <1>2, <1>3, <1>4, <1>5 DEF Controllers

\* The steps of scripts, of Argo CD and of rollouts, but for the forced
\* deletion, leave a ready broker.
LEMMA OtherStepKeepsReady ==
    ASSUME IInv, SomeReady,
           \/ SelfHeal \/ SyncFails \/ ManualSync \/ \E t \in Texts : Commit(t)
           \/ ScaleDownOld \/ SyncDeployment
           \/ \E s \in Scripts : Launch(s)
           \/ ScriptStep /\ ~DeletePods
    PROVE  SomeReady'
<1>1. CASE ScaleDownOld
  <2>1. gen \in Gens /\ phase'[gen] = "ready"
    BY <1>1 DEF IInv, TypeOK, ScaleDownOld
  <2> QED
    BY <2>1 DEF SomeReady
<1>2. CASE UNCHANGED phase
  BY <1>2 DEF SomeReady
<1> QED
  BY <1>1, <1>2
  DEF SelfHeal, SyncFails, ManualSync, Commit, SyncDeployment, Launch, ScriptStep, DeleteCm, CreateCm, ApplyCm,
      DeletePodsIgnored, WaitReady, Verify, RestartStorage, Rollout, RolloutStatus, Abort,
      deployment

\* However rollouts, scripts, commits and Argo CD interleave, only a dying
\* container or a script's forced deletion takes the last ready broker away.
THEOREM RolloutsKeepABroker == Spec => RolloutKeepsBroker
<1> DEFINE Keeps == SomeReady /\ ~SomeReady'
                      => DeletePods \/ \E g \in Gens : ContainerDies(g)
<1>1. IInv /\ [Next]_vars => [Keeps]_vars
  <2> SUFFICES ASSUME IInv, Next, SomeReady, ~DeletePods, ~\E g \in Gens : ContainerDies(g)
               PROVE  SomeReady'
    OBVIOUS
  <2>1. ASSUME NEW g \in Gens, Controllers(g) PROVE SomeReady'
    <3>1. PICK h \in Gens : phase[h] = "ready"
      BY DEF SomeReady
    <3>2. phase'[h] = "ready"
      BY <2>1, <3>1, PodStepKeepsReady
    <3> QED
      BY <3>2 DEF SomeReady
  <2> QED
    BY <2>1, OtherStepKeepsReady DEF Next
<1> QED
  BY <1>1, SpecIInv, PTL DEF RolloutKeepsBroker, Spec

-----------------------------------------------------------------------------
(* The safety part of BrokerReturns.                                         *)

\* The commands a script has before it, at most.
CommandsLeft ==
    [none |-> 0, restart_storage |-> 1, rollout_status |-> 1, rollout |-> 2, verify |-> 2,
     wait_ready |-> 3, delete_pods |-> 4, create_cm |-> 5, apply_cm |-> 5, delete_cm |-> 6]

\* What operators and commits of the Deployment can still do to the pods.
Disturbances == 7 * (MaxRuns - runs) + (MaxRollouts - gen) + CommandsLeft[at]

\* A container that cannot load its text is further from being ready when
\* there is another one to try.
PodLeft(g) ==
    CASE phase[g] = "none"     -> 4
      [] phase[g] = "creating" -> 3
      [] phase[g] = "starting" -> IF cfg[g] \in Bootable THEN 1 ELSE IF cfg[g] = cm THEN 2 ELSE 3
      [] phase[g] = "ready"    -> 0

PodsAsBefore(S) == \A g \in S : PodLeft(g)' = PodLeft(g)

\* While no broker is ready, each step uses up one of the disturbances, or puts
\* the ConfigMap back to git's text, or brings a pod nearer to being ready and
\* no other one away from it; a commit, a failed operation or the button that
\* has nothing to put back changes neither.
RecoveryAdvances ==
    [][~SomeReady =>
        \/ Disturbances' < Disturbances
        \/ /\ Disturbances' = Disturbances
           /\ \/ cm # git /\ cm' = git /\ git' = git
              \/ cm' = cm /\ PodsAsBefore(Gens) /\ (git' # git \/ givenUp' # givenUp)
              \/ /\ cm' = cm /\ git' = git /\ givenUp' = givenUp
                 /\ \E g \in Gens : PodLeft(g)' < PodLeft(g) /\ PodsAsBefore(Gens \ {g})]_vars

\* The guards of a pod's own steps.
PodGoesOn(g) ==
    \/ phase[g] = "none" /\ g \in rs
    \/ phase[g] = "creating" /\ cm # Absent
    \/ phase[g] = "starting" /\ cfg[g] \in Bootable
    \/ phase[g] = "starting" /\ cfg[g] \notin Bootable /\ cm \notin {Absent, cfg[g]}

\* With a good text in git, self-heal or the current revision's pod can go on,
\* but for an Argo CD that has given up with no ConfigMap that boots.
NoDeadEnd ==
    ~SomeReady /\ git \in Bootable =>
        \/ cm # git /\ ~givenUp
        \/ PodGoesOn(gen)
        \/ givenUp /\ cm \notin Bootable

LEMMA PodAdvances ==
    ASSUME IInv, NEW g \in Gens, Controllers(g)
    PROVE  PodLeft(g)' < PodLeft(g) /\ PodsAsBefore(Gens \ {g})
<1>1. /\ phase \in [Gens -> {"none", "creating", "starting", "ready"}]
      /\ cfg \in [Gens -> Texts \cup {Absent}]
      /\ cm' = cm
  BY DEF IInv, TypeOK, Controllers, CreatePod, StartContainer, BecomeReady, CrashLoop
<1>2. \A h \in Gens \ {g} : phase'[h] = phase[h] /\ cfg'[h] = cfg[h]
  BY <1>1 DEF Controllers, CreatePod, StartContainer, BecomeReady, CrashLoop
<1>3. PodsAsBefore(Gens \ {g})
  BY <1>1, <1>2 DEF PodsAsBefore, PodLeft
<1>4. CASE CreatePod(g)
  BY <1>1, <1>3, <1>4 DEF CreatePod, PodLeft
<1>5. CASE StartContainer(g)
  BY <1>1, <1>3, <1>5 DEF StartContainer, PodLeft
<1>6. CASE BecomeReady(g)
  BY <1>1, <1>3, <1>6 DEF BecomeReady, PodLeft
<1>7. CASE CrashLoop(g)
  <2>1. phase[g] = "starting" /\ cfg[g] \notin Bootable /\ cfg[g] # cm
    BY <1>7 DEF CrashLoop
  <2>2. phase'[g] = "starting" /\ cfg'[g] = cm
    BY <1>1, <1>7, <2>1 DEF CrashLoop
  <2> QED
    BY <1>1, <1>3, <2>1, <2>2 DEF PodLeft
<1> QED
  BY <1>3, <1>4, <1>5, <1>6, <1>7 DEF Controllers

\* A run uses up more than its commands, and each command is one less.
LEMMA CommandAdvances ==
    ASSUME IInv, ScriptStep \/ \E s \in Scripts : Launch(s)
    PROVE  Disturbances' < Disturbances
<1>1. /\ runs \in Nat /\ gen \in Nat /\ MaxRuns \in Nat /\ MaxRollouts \in Nat
      /\ at \in Commands /\ (at = "none" <=> script = "none")
  BY DEF IInv, TypeOK, CommandOfScript
<1>2. CommandsLeft[at] \in 0 .. 6
  BY <1>1 DEF CommandsLeft
<1>3. CASE \E s \in Scripts : Launch(s)
  <2>1. runs' = runs + 1 /\ gen' = gen /\ CommandsLeft[at'] \in 0 .. 6
    BY <1>3 DEF Launch, FirstOf, deployment, CommandsLeft
  <2> QED
    BY <1>1, <1>2, <2>1 DEF Disturbances
<1>4. CASE Rollout
  <2>1. runs' = runs /\ gen' = gen + 1 /\ CommandsLeft[at'] = CommandsLeft[at] - 1
    BY <1>4 DEF Rollout, StartRollout, GoTo, CommandsLeft
  <2> QED
    BY <1>1, <1>2, <2>1 DEF Disturbances
<1>5. CASE ScriptStep /\ ~Rollout
  <2>1. runs' = runs /\ gen' = gen
    BY <1>5 DEF ScriptStep, DeleteCm, CreateCm, ApplyCm, DeletePods, DeletePodsIgnored, WaitReady,
                Verify, RestartStorage, RolloutStatus, Abort, GoTo, End, deployment
  <2>2. at # "none"
    BY <1>1, <1>5 DEF ScriptStep, DeleteCm, CreateCm, ApplyCm, DeletePods, DeletePodsIgnored,
                      WaitReady, Verify, RestartStorage, RolloutStatus, Abort
  <2>3. CommandsLeft[at'] \in 0 .. 6 /\ CommandsLeft[at'] < CommandsLeft[at]
    <3>1. CASE at' = "none"
      BY <1>1, <2>2, <3>1 DEF CommandsLeft
    <3>2. CASE at' # "none"
      BY <1>5, <3>2
      DEF ScriptStep, DeleteCm, CreateCm, ApplyCm, DeletePods, DeletePodsIgnored, WaitReady,
          Verify, RestartStorage, RolloutStatus, Abort, GoTo, End, CommandsLeft
    <3> QED
      BY <3>1, <3>2
  <2> QED
    BY <1>1, <1>2, <2>1, <2>3 DEF Disturbances
<1> QED
  BY <1>3, <1>4, <1>5

\* Whatever a script deleted before it died, however rollouts, commits, failed
\* operations and self-heal interleave with it: the way back to a ready broker
\* has a bounded number of steps between two acts of Argo CD, a commit or the
\* button, and it does not end before there is a broker, or git holds a text it
\* does not boot with, or Argo CD has given up and left no ConfigMap that boots.
THEOREM BrokerIsOnItsWay == Spec => RecoveryAdvances /\ []NoDeadEnd
<1> DEFINE Advance ==
        ~SomeReady =>
        \/ Disturbances' < Disturbances
        \/ /\ Disturbances' = Disturbances
           /\ \/ cm # git /\ cm' = git /\ git' = git
              \/ cm' = cm /\ PodsAsBefore(Gens) /\ (git' # git \/ givenUp' # givenUp)
              \/ /\ cm' = cm /\ git' = git /\ givenUp' = givenUp
                 /\ \E g \in Gens : PodLeft(g)' < PodLeft(g) /\ PodsAsBefore(Gens \ {g})
<1>1. IInv => NoDeadEnd
  <2> SUFFICES ASSUME IInv, ~SomeReady, cm \in Bootable
               PROVE  PodGoesOn(gen)
    BY DEF NoDeadEnd
  <2>1. gen \in Gens /\ gen \in rs /\ phase[gen] \in {"none", "creating", "starting"}
    BY DEF IInv, TypeOK, SomeReady
  <2>2. cm # Absent
    BY TextsAssumption
  <2> QED
    BY <2>1, <2>2 DEF PodGoesOn
<1>2. IInv /\ [Next]_vars => [Advance]_vars
  <2> SUFFICES ASSUME IInv, Next, ~SomeReady, vars' # vars PROVE Advance
    OBVIOUS
  <2>1. CASE ScriptStep \/ \E s \in Scripts : Launch(s)
    BY <2>1, CommandAdvances
  <2>2. CASE SelfHeal
    BY <2>2 DEF SelfHeal, ApplyGit, Disturbances, deployment, operator
  <2>3. ASSUME UNCHANGED <<cm, gen, phase, cfg, at, runs>>, git' # git \/ givenUp' # givenUp
        PROVE  Advance
    BY <2>3 DEF Disturbances, PodsAsBefore, PodLeft
  <2>4. ASSUME NEW t \in Texts, Commit(t) PROVE Advance
    <3>1. git' # git \/ givenUp' # givenUp
      BY <2>4 DEF Commit
    <3> HIDE DEF Advance
    <3> QED
      BY <2>3, <2>4, <3>1 DEF Commit, deployment, operator
  <2>5. CASE SyncFails \/ ManualSync
    <3>1. /\ UNCHANGED <<git, gen, rs, phase, cfg, script, at, runs, recap>>
          /\ \/ cm' = git /\ seen' = seen \cup {git}
             \/ cm' = cm /\ seen' = seen
      BY <2>5 DEF SyncFails, ManualSync, ApplyGit, deployment, operator
    <3>2. CASE cm # git /\ cm' = git
      BY <3>1, <3>2 DEF Disturbances
    <3>3. CASE cm' = cm
      <4>1. cm = git => git \in seen
        BY TextsAssumption DEF IInv, TypeOK, CmSeen
      <4>2. seen' = seen
        BY <3>1, <3>3, <4>1
      <4>3. givenUp' # givenUp
        BY <3>1, <3>3, <4>2 DEF vars
      <4> HIDE DEF Advance
      <4> QED
        BY <2>3, <3>1, <3>3, <4>3
    <3> QED
      BY <3>1, <3>2, <3>3
  <2>6. ASSUME NEW g \in Gens, Controllers(g) PROVE Advance
    <3>1. UNCHANGED <<git, givenUp, cm, gen, at, runs>>
      BY <2>6 DEF Controllers, CreatePod, StartContainer, BecomeReady, CrashLoop, operator
    <3> QED
      BY <2>6, <3>1, PodAdvances DEF Disturbances
  <2>7. ~ScaleDownOld /\ \A g \in Gens : ~ContainerDies(g)
    BY DEF ScaleDownOld, ContainerDies, SomeReady, IInv, TypeOK
  <2>8. CASE SyncDeployment
    <3>1. gen' = gen + 1 /\ at' = at /\ runs' = runs
      BY <2>8 DEF SyncDeployment, StartRollout, operator
    <3>2. runs \in Nat /\ gen \in Nat /\ MaxRuns \in Nat /\ MaxRollouts \in Nat
          /\ CommandsLeft[at] \in 0 .. 6
      BY DEF IInv, TypeOK, CommandsLeft
    <3> QED
      BY <3>1, <3>2 DEF Disturbances
  <2> HIDE DEF Advance
  <2> QED
    BY <2>1, <2>2, <2>4, <2>5, <2>6, <2>7, <2>8 DEF Next
<1> QED
  BY <1>1, <1>2, SpecIInv, PTL DEF Spec, RecoveryAdvances

-----------------------------------------------------------------------------
(* What the model takes for granted of Argo CD: it has no step in which    *)
(* Argo CD removes the ConfigMap or the Deployment.  They are resources of *)
(* osdu-deps, a child of the root osdu, and no operation, deletion or      *)
(* commit in GitopsSync takes the resources of a child away.               *)

CONSTANTS Roots, Children, Lone, Parent, Automated, Finalized, Late, MaxActs

VARIABLES text, listed, policy, apps, auto, live, op, stuck, acts

Argo == INSTANCE GitopsSync

\* What GitopsSync assumes of its constants.
Committed == Argo!AppsAssumption /\ Argo!ActsAssumption

\* A commit is one of the acts that are counted, so that no version is beyond
\* those there are.
VersionsOK == \A w \in Argo!Workloads : text[w] <= acts + 1

ArgoInv == Argo!TypeOK /\ VersionsOK

LEMMA ArgoInit == Committed /\ Argo!Init => ArgoInv
BY DEF Committed, Argo!AppsAssumption, Argo!ActsAssumption, Argo!Init, ArgoInv, VersionsOK,
       Argo!TypeOK, Argo!Idle, Argo!Ops, Argo!Versions, Argo!Gone, Argo!Apps, Argo!Workloads

\* What an application of a child's manifest may carry, wave by wave, and what
\* a step of an operation leaves of it.
LEMMA ArgoOps ==
    ASSUME Committed, ArgoInv, NEW a \in Argo!Apps,
           NEW s \in {"idle", "late", "prune"},
           s \in {"late", "prune"} => a \in Roots,
           op[a] # Argo!Idle,
           Argo!Step(a, s)
    PROVE  /\ op' \in [Argo!Apps -> Argo!Ops]
           /\ \A b \in Argo!Apps :
                 /\ op'[b] # Argo!Idle => op[b] # Argo!Idle
                 /\ op'[b].step \in {"late", "prune"} => b \in Roots
                 /\ op'[b].step # "idle" /\ b \in Argo!Workloads => op'[b].text # Argo!Gone
<1> USE DEF Argo!Gone
<1>1. /\ op \in [Argo!Apps -> Argo!Ops]
      /\ \A b \in Argo!Apps :
            /\ op[b].step \in {"late", "prune"} => b \in Roots
            /\ op[b].step # "idle" /\ b \in Argo!Workloads => op[b].text # Argo!Gone
  BY DEF ArgoInv, Argo!TypeOK
<1>2. Argo!Idle \in Argo!Ops /\ Argo!Idle.step = "idle"
  BY DEF Argo!Idle, Argo!Ops
<1>3. [op[a] EXCEPT !.step = s] \in Argo!Ops
  <2>1. op[a] \in Argo!Ops
    BY <1>1
  <2> QED
    BY <2>1 DEF Argo!Ops
<1>4. [op[a] EXCEPT !.step = s].step = s /\ [op[a] EXCEPT !.step = s].text = op[a].text
  BY <1>1 DEF Argo!Ops
<1>5. /\ op' \in [Argo!Apps -> Argo!Ops]
      /\ op'[a] = IF s = "idle" THEN Argo!Idle ELSE [op[a] EXCEPT !.step = s]
      /\ \A b \in Argo!Apps \ {a} : op'[b] = op[b]
  BY <1>1, <1>2, <1>3 DEF Argo!Step
<1>6. a \in Roots => a \notin Argo!Workloads
  BY DEF Committed, Argo!AppsAssumption, Argo!Workloads
<1> QED
  BY <1>1, <1>2, <1>4, <1>5, <1>6

\* Acts are counted up to their bound, and a step that leaves the texts alone
\* keeps the versions within them.
LEMMA ActsNat ==
    ASSUME Committed, ArgoInv
    PROVE  MaxActs \in Nat /\ acts \in Nat /\ acts <= MaxActs
BY DEF Committed, Argo!ActsAssumption, ArgoInv, Argo!TypeOK

LEMMA ActsCounted ==
    ASSUME Committed, ArgoInv, Argo!Act
    PROVE  /\ acts' = acts + 1 /\ acts' \in 0 .. MaxActs
           /\ text' = text => VersionsOK'
<1>1. MaxActs \in Nat /\ acts \in Nat /\ acts < MaxActs /\ acts' = acts + 1
  BY ActsNat DEF Argo!Act
<1>2. \A w \in Argo!Workloads : text[w] \in Nat /\ text[w] <= acts + 1
  BY DEF ArgoInv, Argo!TypeOK, VersionsOK, Argo!Versions
<1> QED
  BY <1>1, <1>2 DEF VersionsOK

\* Which parts a step may disturb.  A set of deleted Applications S takes its
\* operations along.
LEMMA ArgoRemove ==
    ASSUME Committed, ArgoInv, NEW S \in SUBSET Argo!Apps, NEW a \in Argo!Apps,
           Argo!Remove(S),
           op' = [b \in Argo!Apps |-> IF b = a \/ b \in S THEN Argo!Idle ELSE op[b]],
           UNCHANGED Argo!main,
           acts' \in {acts, acts + 1} /\ acts' \in 0 .. MaxActs
    PROVE  ArgoInv'
<1>1. Argo!Idle \in Argo!Ops /\ Argo!Idle.step = "idle"
  BY DEF Argo!Idle, Argo!Ops, Argo!Gone
<1>2. UNCHANGED <<text, listed, policy>>
  BY DEF Argo!main
<1>3. VersionsOK'
  BY <1>2, ActsNat DEF VersionsOK, ArgoInv, Argo!TypeOK, Argo!Versions
<1>4. /\ apps' \in SUBSET Argo!Apps
      /\ auto' \in SUBSET apps'
      /\ stuck' \in SUBSET apps'
      /\ live' \in [Argo!Workloads -> Argo!Versions \cup {Argo!Gone, Argo!Edited}]
  BY DEF ArgoInv, Argo!TypeOK, Argo!Remove
<1>5. op' \in [Argo!Apps -> Argo!Ops]
  BY <1>1 DEF ArgoInv, Argo!TypeOK
<1>6. \A b \in Argo!Apps :
         /\ op'[b] # Argo!Idle => b \in apps'
         /\ op'[b].step \in {"late", "prune"} => b \in Roots
         /\ op'[b].step # "idle" /\ b \in Argo!Workloads => op'[b].text # Argo!Gone
  BY <1>1 DEF ArgoInv, Argo!TypeOK, Argo!Remove
<1> QED
  BY <1>2, <1>3, <1>4, <1>5, <1>6 DEF ArgoInv, Argo!TypeOK

\* An operation that is begun carries the revision of the moment.
LEMMA ArgoBegin ==
    ASSUME Committed, ArgoInv, NEW a \in Argo!Apps, Argo!Begin(a),
           stuck' \in SUBSET stuck
    PROVE  ArgoInv'
<1> DEFINE new == IF a \in Roots
                  THEN [step |-> "apply", text |-> Argo!Gone, listed |-> listed, policy |-> policy]
                  ELSE [step |-> "apply", text |-> text[a], listed |-> {}, policy |-> {}]
<1>1. a \notin Roots => a \in Argo!Workloads
  BY DEF Argo!Apps, Argo!Workloads
<1>2. a \in Roots => a \notin Argo!Workloads
  BY DEF Committed, Argo!AppsAssumption, Argo!Workloads
<1>3. new \in Argo!Ops
  BY <1>1 DEF Argo!Ops, ArgoInv, Argo!TypeOK
<1>4. new.step = "apply" /\ (a \in Argo!Workloads => new.text # Argo!Gone)
  BY <1>1, <1>2 DEF ArgoInv, Argo!TypeOK, Argo!Versions, Argo!Gone
<1>5. op' = [op EXCEPT ![a] = new]
  BY DEF Argo!Begin
<1>6. a \in apps /\ UNCHANGED <<text, listed, policy, apps, auto, live, acts>>
  BY DEF Argo!Begin, Argo!main
<1> HIDE DEF new
<1>7. /\ op' \in [Argo!Apps -> Argo!Ops]
      /\ \A b \in Argo!Apps :
            /\ op'[b] # Argo!Idle => b \in apps'
            /\ op'[b].step \in {"late", "prune"} => b \in Roots
            /\ op'[b].step # "idle" /\ b \in Argo!Workloads => op'[b].text # Argo!Gone
  BY <1>3, <1>4, <1>5, <1>6 DEF ArgoInv, Argo!TypeOK
<1> QED
  BY <1>6, <1>7 DEF ArgoInv, Argo!TypeOK, VersionsOK

\* No step of a reconciliation or of a person leaves the invariant.
LEMMA ArgoNextInv ==
    ASSUME Committed, ArgoInv, [Argo!Next]_(Argo!vars)
    PROVE  ArgoInv'
<1>1. CASE UNCHANGED Argo!vars
  BY <1>1 DEF Argo!vars, ArgoInv, Argo!TypeOK, VersionsOK
<1>2. ASSUME NEW a \in Argo!Apps, Argo!AutoSync(a) \/ Argo!ManualSync(a)
      PROVE  ArgoInv'
  <2>1. Argo!Begin(a) /\ stuck' \in SUBSET stuck
    BY <1>2 DEF Argo!AutoSync, Argo!ManualSync, ArgoInv, Argo!TypeOK
  <2> QED
    BY <2>1, ArgoBegin
<1>3. ASSUME NEW w \in Argo!Workloads, Argo!ApplyWorkload(w)
      PROVE  ArgoInv'
  <2>1. w \in Argo!Apps
    BY DEF Argo!Apps, Argo!Workloads
  <2>2. op[w] # Argo!Idle /\ op[w].text \in Argo!Versions \cup {Argo!Gone}
    BY <1>3, <2>1 DEF Argo!ApplyWorkload, Argo!Idle, ArgoInv, Argo!TypeOK, Argo!Ops
  <2>3. Argo!Step(w, "idle") /\ UNCHANGED <<text, listed, policy, apps, auto, stuck, acts>>
    BY <1>3 DEF Argo!ApplyWorkload, Argo!main
  <2>4. live' \in [Argo!Workloads -> Argo!Versions \cup {Argo!Gone, Argo!Edited}]
    BY <1>3, <2>2 DEF Argo!ApplyWorkload, ArgoInv, Argo!TypeOK
  <2> QED
    BY <2>1, <2>2, <2>3, <2>4, ArgoOps DEF ArgoInv, Argo!TypeOK, VersionsOK
<1>4. ASSUME NEW r \in Argo!Apps, Argo!ApplyChildren(r)
      PROVE  ArgoInv'
  <2> DEFINE s == IF op[r].step = "apply" THEN "late" ELSE "prune"
  <2>1. r \in Roots /\ op[r] # Argo!Idle
    BY <1>4 DEF Argo!ApplyChildren, Argo!Idle
  <2>2. Argo!Step(r, s) /\ s \in {"idle", "late", "prune"}
    BY <1>4 DEF Argo!ApplyChildren
  <2>3. UNCHANGED <<text, listed, policy, live, stuck, acts>>
    BY <1>4 DEF Argo!ApplyChildren, Argo!main
  <2>4. PICK wave \in SUBSET Children :
           apps' = apps \cup wave /\ auto' = (auto \ wave) \cup (wave \cap op[r].policy)
    <3> DEFINE wave == {c \in Argo!ChildrenOf(r) \cap op[r].listed :
                          (c \in Late) = (op[r].step = "late")}
    <3>1. wave \in SUBSET Children
      BY DEF Argo!ChildrenOf
    <3>2. apps' = apps \cup wave /\ auto' = (auto \ wave) \cup (wave \cap op[r].policy)
      BY <1>4 DEF Argo!ApplyChildren
    <3> QED
      BY <3>1, <3>2
  <2>5. apps' \in SUBSET Argo!Apps /\ auto' \in SUBSET apps' /\ apps \subseteq apps'
    BY <2>4 DEF ArgoInv, Argo!TypeOK, Argo!Apps
  <2> HIDE DEF s
  <2> QED
    BY <2>1, <2>2, <2>3, <2>5, ArgoOps DEF ArgoInv, Argo!TypeOK, VersionsOK
<1>5. ASSUME NEW r \in Argo!Apps, Argo!PruneChildren(r)
      PROVE  ArgoInv'
  <2> DEFINE S == Argo!ChildrenOf(r) \ op[r].listed
  <2>1. S \in SUBSET Argo!Apps
    BY DEF Argo!ChildrenOf, Argo!Apps
  <2>2. /\ Argo!Remove(S)
        /\ op' = [b \in Argo!Apps |-> IF b = r \/ b \in S THEN Argo!Idle ELSE op[b]]
        /\ UNCHANGED Argo!main /\ acts' = acts
    BY <1>5 DEF Argo!PruneChildren
  <2>3. acts' \in 0 .. MaxActs
    BY <2>2 DEF ArgoInv, Argo!TypeOK
  <2> HIDE DEF S
  <2> QED
    BY <2>1, <2>2, <2>3, ArgoRemove
<1>6. ASSUME NEW a \in Argo!Apps, Argo!OpFails(a)
      PROVE  ArgoInv'
  <2>1. Argo!Step(a, "idle") /\ op[a] # Argo!Idle /\ stuck' = stuck \cup {a}
    BY <1>6 DEF Argo!OpFails
  <2>2. UNCHANGED <<text, listed, policy, apps, auto, live>>
    BY <1>6 DEF Argo!OpFails, Argo!main
  <2>3. a \in apps
    BY <2>1 DEF ArgoInv, Argo!TypeOK
  <2>4. acts' = acts + 1 /\ acts' \in 0 .. MaxActs /\ VersionsOK'
    BY <1>6, <2>2, ActsCounted DEF Argo!OpFails
  <2> QED
    BY <2>1, <2>2, <2>3, <2>4, ArgoOps DEF ArgoInv, Argo!TypeOK
<1>7. ASSUME Argo!Commit
      PROVE  ArgoInv'
  <2>1. stuck' = {} /\ UNCHANGED <<apps, auto, live, op>>
    BY <1>7 DEF Argo!Commit
  <2>2. acts' = acts + 1 /\ acts' \in 0 .. MaxActs /\ acts < MaxActs
    BY <1>7, ActsCounted DEF Argo!Commit, Argo!Act
  <2>3. text' \in [Argo!Workloads -> Argo!Versions] /\ VersionsOK'
    <3>1. CASE text' = text
      BY <3>1, <2>2, ActsNat DEF ArgoInv, Argo!TypeOK, VersionsOK, Argo!Versions
    <3>2. ASSUME NEW w \in Argo!Workloads, text' = [text EXCEPT ![w] = @ + 1]
          PROVE  text' \in [Argo!Workloads -> Argo!Versions] /\ VersionsOK'
      <4>1. text[w] \in Nat \ {0} /\ text[w] + 1 <= acts + 2 /\ text[w] + 1 \in Argo!Versions
        BY <2>2, ActsNat DEF ArgoInv, Argo!TypeOK, VersionsOK, Argo!Versions
      <4>2. text' \in [Argo!Workloads -> Argo!Versions]
        BY <3>2, <4>1 DEF ArgoInv, Argo!TypeOK
      <4>3. \A v \in Argo!Workloads : text'[v] = IF v = w THEN text[w] + 1 ELSE text[v]
        BY <3>2 DEF ArgoInv, Argo!TypeOK
      <4>4. \A v \in Argo!Workloads : text[v] \in Nat /\ text[v] <= acts + 1
        BY DEF ArgoInv, Argo!TypeOK, VersionsOK, Argo!Versions
      <4>5. acts \in Nat
        BY ActsNat
      <4>6. \A v \in Argo!Workloads : text'[v] <= acts' + 1
        BY <4>1, <4>3, <4>4, <4>5, <2>2
      <4> QED
        BY <4>2, <4>6 DEF VersionsOK
    <3> QED
      BY <1>7, <3>1, <3>2 DEF Argo!Commit
  <2>4. listed' \in SUBSET Children /\ policy' \in SUBSET Argo!Apps
    BY <1>7 DEF Argo!Commit, ArgoInv, Argo!TypeOK, Argo!Apps
  <2> QED
    BY <2>1, <2>2, <2>3, <2>4 DEF ArgoInv, Argo!TypeOK
<1>8. ASSUME NEW w \in Argo!Workloads, Argo!EditWorkload(w)
      PROVE  ArgoInv'
  <2>1. UNCHANGED <<text, listed, policy, apps, auto, op, stuck>>
    BY <1>8 DEF Argo!EditWorkload, Argo!main
  <2>2. live' \in [Argo!Workloads -> Argo!Versions \cup {Argo!Gone, Argo!Edited}]
    BY <1>8 DEF Argo!EditWorkload, ArgoInv, Argo!TypeOK
  <2>3. acts' \in 0 .. MaxActs /\ VersionsOK'
    BY <1>8, <2>1, ActsCounted DEF Argo!EditWorkload
  <2> QED
    BY <2>1, <2>2, <2>3 DEF ArgoInv, Argo!TypeOK
<1>9. ASSUME NEW a \in Argo!Apps, Argo!EditPolicy(a) \/ Argo!ApplyApp(a)
      PROVE  ArgoInv'
  <2>1. UNCHANGED <<text, listed, policy, live, op, stuck>>
    BY <1>9 DEF Argo!EditPolicy, Argo!ApplyApp, Argo!main
  <2>2. apps' \in SUBSET Argo!Apps /\ apps \subseteq apps' /\ auto' \in SUBSET apps'
    BY <1>9 DEF Argo!EditPolicy, Argo!ApplyApp, ArgoInv, Argo!TypeOK
  <2>3. acts' \in 0 .. MaxActs /\ VersionsOK'
    BY <1>9, <2>1, ActsCounted DEF Argo!EditPolicy, Argo!ApplyApp
  <2> QED
    BY <2>1, <2>2, <2>3 DEF ArgoInv, Argo!TypeOK
<1>10. ASSUME NEW a \in Argo!Apps, Argo!DeleteApp(a)
       PROVE  ArgoInv'
  <2>1. acts' = acts + 1 /\ acts' \in 0 .. MaxActs
    BY <1>10, ActsCounted DEF Argo!DeleteApp, Argo!main
  <2>2. Argo!Remove({a}) /\ UNCHANGED Argo!main
    BY <1>10 DEF Argo!DeleteApp
  <2>3. op' = [b \in Argo!Apps |-> IF b = a \/ b \in {a} THEN Argo!Idle ELSE op[b]]
    BY <1>10 DEF Argo!DeleteApp, ArgoInv, Argo!TypeOK
  <2>4. {a} \in SUBSET Argo!Apps
    OBVIOUS
  <2> QED
    BY <2>1, <2>2, <2>3, <2>4, ArgoRemove
<1> QED
  BY <1>1, <1>2, <1>3, <1>4, <1>5, <1>6, <1>7, <1>8, <1>9, <1>10
  DEF Argo!Next, Argo!ArgoStep, Argo!PeopleStep

\* Only a child with the finalizer loses its resources, and no child has it:
\* an operation applies a version, and an edit is not a removal.
LEMMA ArgoKeepsResources ==
    ASSUME Committed, Finalized \cap Children = {}, ArgoInv, Argo!Next,
           NEW c \in Children, live[c] # Argo!Gone
    PROVE  live'[c] # Argo!Gone
<1>1. c \in Argo!Workloads /\ c \notin Finalized
  BY DEF Argo!Workloads
<1>2. ASSUME NEW w \in Argo!Workloads, Argo!ApplyWorkload(w)
      PROVE  live'[c] # Argo!Gone
  <2>1. w \in Argo!Apps
    BY DEF Argo!Apps, Argo!Workloads
  <2>2. op[w].text # Argo!Gone
    BY <1>2, <2>1 DEF Argo!ApplyWorkload, ArgoInv, Argo!TypeOK
  <2> QED
    BY <1>1, <1>2, <2>2 DEF Argo!ApplyWorkload, ArgoInv, Argo!TypeOK
<1>3. ASSUME NEW w \in Argo!Workloads, Argo!EditWorkload(w)
      PROVE  live'[c] # Argo!Gone
  <2>1. Argo!Edited # Argo!Gone
    BY DEF Committed, Argo!ActsAssumption, Argo!Edited, Argo!Gone
  <2> QED
    BY <1>1, <1>3, <2>1 DEF Argo!EditWorkload, ArgoInv, Argo!TypeOK
<1>4. ASSUME NEW S, Argo!Remove(S)
      PROVE  live'[c] # Argo!Gone
  BY <1>1, <1>4 DEF Argo!Remove, ArgoInv, Argo!TypeOK
<1>5. ASSUME NEW a \in Argo!Apps, Argo!DeleteApp(a) \/ Argo!PruneChildren(a)
      PROVE  live'[c] # Argo!Gone
  BY <1>4, <1>5 DEF Argo!DeleteApp, Argo!PruneChildren
<1>6. CASE UNCHANGED live
  BY <1>6
<1> QED
  BY <1>2, <1>3, <1>5, <1>6
  DEF Argo!Next, Argo!ArgoStep, Argo!PeopleStep, Argo!AutoSync, Argo!ManualSync, Argo!Begin,
      Argo!ApplyChildren, Argo!OpFails, Argo!Commit, Argo!EditPolicy, Argo!ApplyApp

\* However operations of roots and children, commits, hand edits, deletions and
\* failures interleave: an operation belongs to an Application that exists, only
\* a root's has waves and prunes, and none of a workload applies nothing.
THEOREM GitopsTypes ==
    ASSUME Committed
    PROVE  Argo!Spec => []Argo!TypeOK
<1>1. Argo!Init => ArgoInv
  BY ArgoInit
<1>2. ArgoInv /\ [Argo!Next]_(Argo!vars) => ArgoInv'
  BY ArgoNextInv
<1>3. ArgoInv => Argo!TypeOK
  BY DEF ArgoInv
<1> QED
  BY <1>1, <1>2, <1>3, PTL DEF Argo!Spec

\* As long as no child has the finalizer, nothing removes the resources of a
\* child that has run, the ConfigMap and the Deployment of the broker among
\* them.
THEOREM ResourcesAlwaysStay ==
    ASSUME Committed, Finalized \cap Children = {}
    PROVE  Argo!Spec => Argo!ResourcesStay
<1>1. Argo!Init => ArgoInv
  BY ArgoInit
<1>2. ArgoInv /\ [Argo!Next]_(Argo!vars) => ArgoInv'
  BY ArgoNextInv
<1>3. ArgoInv /\ [Argo!Next]_(Argo!vars)
      => [\A c \in Children : live[c] # Argo!Gone => live'[c] # Argo!Gone]_(Argo!vars)
  BY ArgoKeepsResources
<1> QED
  BY <1>1, <1>2, <1>3, PTL DEF Argo!Spec, Argo!ResourcesStay
-----------------------------------------------------------------------------
(* The safety part of Converges.  Between two acts of people or failures the *)
(* steps of Argo CD, and of whoever presses the button, run out: each brings *)
(* one Application nearer to git, and only a root's step moves others, its   *)
(* own children.  With the steps left of the roots before those of the       *)
(* workloads that is a lexicographic order on naturals.                      *)

\* The operation of a root carries what git says now.
OfThisRevision(r) == op[r].listed = listed /\ op[r].policy = policy

\* Of the children in S, the listed ones are as committed.
Applied(r, S) ==
    \A c \in Argo!ChildrenOf(r) \cap S :
        c \in listed => c \in apps /\ (c \in auto <=> c \in policy)

Useful(r) ==
    /\ OfThisRevision(r)
    /\ op[r].step = "late" => Applied(r, Children \ Late)
    /\ op[r].step = "prune" => Applied(r, Children)

\* An operation that cannot bring its root to git's state has to end first, and
\* another one to be begun.
WaveLeft(r) ==
    IF op[r].step = "apply" THEN 3 ELSE IF op[r].step = "late" THEN 2 ELSE 1

RootLeft(r) ==
    IF op[r].step = "idle" THEN IF Argo!RootDrifts(r) THEN 4 ELSE 0
    ELSE IF Useful(r) THEN WaveLeft(r) ELSE WaveLeft(r) + 4

WorkLeft(w) ==
    IF op[w] = Argo!Idle THEN IF live[w] = text[w] THEN 0 ELSE 2
    ELSE IF op[w].text = text[w] THEN 1 ELSE 3

StepsLeft(a) == IF a \in Roots THEN RootLeft(a) ELSE WorkLeft(a)

Nearer(a) ==
    /\ StepsLeft(a)' < StepsLeft(a)
    /\ \A b \in Argo!Apps \ {a} :
          StepsLeft(b)' = StepsLeft(b) \/ (a \in Roots /\ b \in Argo!ChildrenOf(a))

WindsDown == [][acts' = acts => \E a \in Argo!Apps : Nearer(a)]_(Argo!vars)

\* Nothing under way, and nothing Argo CD would begin by itself.
AtRest ==
    \A a \in Argo!Apps :
        op[a] = Argo!Idle /\ ~(a \in auto \ stuck /\ Argo!Drifts(a) /\ Argo!Prunable(a))

\* Which kind an Application is of, and whose child.
LEMMA AppKinds ==
    ASSUME Committed, NEW a \in Argo!Apps
    PROVE  /\ a \in Roots <=> a \notin Argo!Workloads
           /\ \A r \in Roots : a \in Roots => a \notin Argo!ChildrenOf(r)
           /\ \A r, q \in Roots : r # q /\ a \in Argo!ChildrenOf(r) => a \notin Argo!ChildrenOf(q)
BY DEF Committed, Argo!AppsAssumption, Argo!Apps, Argo!Workloads, Argo!ChildrenOf

\* What the steps left of a root depend on.
LEMMA RootSame ==
    ASSUME NEW r \in Roots, op'[r] = op[r], listed' = listed, policy' = policy,
           \A c \in Argo!ChildrenOf(r) :
              (c \in apps' <=> c \in apps) /\ (c \in auto' <=> c \in auto)
    PROVE  RootLeft(r)' = RootLeft(r)
<1>1. Argo!ChildrenOf(r) \cap apps' = Argo!ChildrenOf(r) \cap apps
  OBVIOUS
<1>2. Argo!RootDrifts(r)' <=> Argo!RootDrifts(r)
  BY <1>1 DEF Argo!RootDrifts, Argo!ChildrenOf
<1>3. \A S \in {Children, Children \ Late} : Applied(r, S)' <=> Applied(r, S)
  BY DEF Applied, Argo!ChildrenOf
<1>4. Useful(r)' <=> Useful(r)
  BY <1>3 DEF Useful, OfThisRevision
<1> QED
  BY <1>2, <1>4 DEF RootLeft, WaveLeft

\* A step that touches no more than one Application and its children leaves
\* every other one where it was.
LEMMA OthersSame ==
    ASSUME Committed, NEW a \in Argo!Apps, UNCHANGED Argo!main,
           \A b \in Argo!Apps \ {a} :
              \/ a \in Roots /\ b \in Argo!ChildrenOf(a)
              \/ /\ op'[b] = op[b]
                 /\ b \in apps' <=> b \in apps
                 /\ b \in auto' <=> b \in auto
                 /\ b \in Argo!Workloads => live'[b] = live[b],
           a \notin Roots => (a \in apps' <=> a \in apps) /\ (a \in auto' <=> a \in auto)
    PROVE  \A b \in Argo!Apps \ {a} :
              StepsLeft(b)' = StepsLeft(b) \/ (a \in Roots /\ b \in Argo!ChildrenOf(a))
<1> SUFFICES ASSUME NEW b \in Argo!Apps \ {a}, ~(a \in Roots /\ b \in Argo!ChildrenOf(a))
             PROVE  StepsLeft(b)' = StepsLeft(b)
  OBVIOUS
<1>1. op'[b] = op[b] /\ UNCHANGED <<text, listed, policy>>
  BY DEF Argo!main
<1>2. CASE b \in Roots
  <2>1. \A c \in Argo!ChildrenOf(b) : c \in Argo!Apps /\ ~(a \in Roots /\ c \in Argo!ChildrenOf(a))
    BY <1>2, AppKinds DEF Argo!ChildrenOf, Argo!Apps
  <2>2. \A c \in Argo!ChildrenOf(b) :
           (c \in apps' <=> c \in apps) /\ (c \in auto' <=> c \in auto)
    <3> SUFFICES ASSUME NEW c \in Argo!ChildrenOf(b)
                 PROVE  (c \in apps' <=> c \in apps) /\ (c \in auto' <=> c \in auto)
      OBVIOUS
    <3>1. CASE c = a
      <4>1. a \notin Roots
        BY <1>2, <3>1, AppKinds
      <4> QED
        BY <3>1, <4>1
    <3>2. CASE c # a
      BY <2>1, <3>2
    <3> QED
      BY <3>1, <3>2
  <2>3. RootLeft(b)' = RootLeft(b)
    BY <1>1, <1>2, <2>2, RootSame
  <2> QED
    BY <1>2, <2>3 DEF StepsLeft
<1>3. CASE b \notin Roots
  <2>1. live'[b] = live[b]
    BY <1>3, AppKinds
  <2> QED
    BY <1>1, <1>3, <2>1 DEF StepsLeft, WorkLeft, Argo!Idle, Argo!Gone
<1> QED
  BY <1>2, <1>3

\* An operation that is begun carries git's revision.
LEMMA BeginNearer ==
    ASSUME Committed, ArgoInv, NEW a \in Argo!Apps, Argo!Drifts(a), Argo!Begin(a)
    PROVE  Nearer(a)
<1>1. /\ op[a] = Argo!Idle /\ op \in [Argo!Apps -> Argo!Ops]
      /\ UNCHANGED <<text, listed, policy, apps, auto, live>>
  BY DEF Argo!Begin, Argo!main, ArgoInv, Argo!TypeOK
<1>2. op[a].step = "idle"
  BY <1>1 DEF Argo!Idle
<1>3. \A b \in Argo!Apps \ {a} : op'[b] = op[b]
  BY <1>1 DEF Argo!Begin
<1>4. StepsLeft(a)' < StepsLeft(a)
  <2>1. CASE a \in Roots
    <3>1. op'[a] = [step |-> "apply", text |-> Argo!Gone, listed |-> listed, policy |-> policy]
      BY <1>1, <2>1 DEF Argo!Begin
    <3>2. Useful(a)' /\ op'[a].step = "apply"
      BY <1>1, <3>1 DEF Useful, OfThisRevision
    <3>3. RootLeft(a)' = 3
      BY <3>2 DEF RootLeft, WaveLeft
    <3>4. RootLeft(a) = 4
      BY <1>2, <2>1 DEF RootLeft, Argo!Drifts
    <3> QED
      BY <2>1, <3>3, <3>4 DEF StepsLeft
  <2>2. CASE a \notin Roots
    <3>1. op'[a] = [step |-> "apply", text |-> text[a], listed |-> {}, policy |-> {}]
      BY <1>1, <2>2 DEF Argo!Begin
    <3>2. op'[a].step = "apply" /\ op'[a].text = text'[a]
      BY <1>1, <3>1
    <3>3. op'[a] # Argo!Idle'
      BY <3>2 DEF Argo!Idle
    <3>4. WorkLeft(a)' = 1
      BY <3>2, <3>3 DEF WorkLeft
    <3>5. WorkLeft(a) = 2
      BY <1>1, <2>2 DEF WorkLeft, Argo!Drifts
    <3> QED
      BY <2>2, <3>4, <3>5 DEF StepsLeft
  <2> QED
    BY <2>1, <2>2
<1>5. UNCHANGED Argo!main
  BY <1>1 DEF Argo!main
<1> QED
  BY <1>1, <1>3, <1>4, <1>5, OthersSame DEF Nearer

LEMMA WorkloadNearer ==
    ASSUME Committed, ArgoInv, NEW w \in Argo!Workloads, Argo!ApplyWorkload(w)
    PROVE  Nearer(w)
<1>1. w \in Argo!Apps /\ w \notin Roots
  BY AppKinds DEF Argo!Apps, Argo!Workloads
<1>2. /\ op \in [Argo!Apps -> Argo!Ops] /\ live \in [Argo!Workloads -> Argo!Versions \cup {Argo!Gone, Argo!Edited}]
      /\ op[w].step = "apply"
      /\ UNCHANGED <<text, listed, policy, apps, auto>> /\ UNCHANGED Argo!main
  BY DEF Argo!ApplyWorkload, Argo!main, ArgoInv, Argo!TypeOK
<1>3. op'[w] = Argo!Idle' /\ live'[w] = op[w].text
  BY <1>1, <1>2 DEF Argo!ApplyWorkload, Argo!Step, Argo!Idle, Argo!Gone
<1>4. \A b \in Argo!Apps \ {w} : op'[b] = op[b] /\ (b \in Argo!Workloads => live'[b] = live[b])
  BY <1>2 DEF Argo!ApplyWorkload, Argo!Step
<1>5. op[w] # Argo!Idle
  BY <1>2 DEF Argo!Idle
<1>6. WorkLeft(w)' < WorkLeft(w)
  <2>1. CASE op[w].text = text[w]
    BY <1>2, <1>3, <1>5, <2>1 DEF WorkLeft
  <2>2. CASE op[w].text # text[w]
    BY <1>2, <1>3, <1>5, <2>2 DEF WorkLeft
  <2> QED
    BY <2>1, <2>2
<1>7. StepsLeft(w)' < StepsLeft(w)
  BY <1>1, <1>6 DEF StepsLeft
<1> QED
  BY <1>1, <1>2, <1>4, <1>7, OthersSame DEF Nearer

\* A wave leaves its children as the operation says, and a useful operation
\* useful.
LEMMA WaveNearer ==
    ASSUME Committed, ArgoInv, NEW r \in Argo!Apps, Argo!ApplyChildren(r)
    PROVE  Nearer(r)
<1> DEFINE wave == {c \in Argo!ChildrenOf(r) \cap op[r].listed :
                       (c \in Late) = (op[r].step = "late")}
           s == IF op[r].step = "apply" THEN "late" ELSE "prune"
<1>1. /\ r \in Roots /\ op[r].step \in {"apply", "late"}
      /\ apps' = apps \cup wave /\ auto' = (auto \ wave) \cup (wave \cap op[r].policy)
      /\ op \in [Argo!Apps -> Argo!Ops]
      /\ UNCHANGED <<text, listed, policy, live>> /\ UNCHANGED Argo!main
  BY DEF Argo!ApplyChildren, Argo!main, ArgoInv, Argo!TypeOK
<1>2. op[r] \in Argo!Ops
  BY <1>1
<1>3. /\ op'[r].step = s /\ op'[r].listed = op[r].listed /\ op'[r].policy = op[r].policy
      /\ \A b \in Argo!Apps \ {r} : op'[b] = op[b]
  <2>1. op' = [op EXCEPT ![r] = [op[r] EXCEPT !.step = s]]
    BY <1>1 DEF Argo!ApplyChildren, Argo!Step
  <2>2. op'[r] = [op[r] EXCEPT !.step = s]
    BY <1>1, <2>1
  <2> QED
    BY <1>1, <1>2, <2>1, <2>2 DEF Argo!Ops
<1>4. Useful(r) => Useful(r)'
  <2> SUFFICES ASSUME Useful(r) PROVE Useful(r)'
    OBVIOUS
  <2>1. op[r].listed = listed /\ op[r].policy = policy
    BY DEF Useful, OfThisRevision
  <2>2. OfThisRevision(r)'
    BY <1>1, <1>3, <2>1 DEF OfThisRevision
  <2>3. CASE op[r].step = "apply"
    <3>1. Applied(r, Children \ Late)'
      BY <1>1, <2>1, <2>3 DEF Applied, Argo!ChildrenOf
    <3> QED
      BY <1>3, <2>2, <2>3, <3>1 DEF Useful
  <2>4. CASE op[r].step = "late"
    <3>1. Applied(r, Children \ Late)
      BY <2>4 DEF Useful
    <3>2. Applied(r, Children)'
      BY <1>1, <2>1, <2>4, <3>1 DEF Applied, Argo!ChildrenOf
    <3> QED
      BY <1>3, <2>2, <2>4, <3>2 DEF Useful
  <2> QED
    BY <1>1, <2>3, <2>4
<1>5. RootLeft(r)' < RootLeft(r)
  <2>1. op'[r].step # "idle" /\ op[r].step # "idle" /\ WaveLeft(r)' = WaveLeft(r) - 1
        /\ WaveLeft(r) \in {2, 3}
    BY <1>1, <1>3 DEF WaveLeft
  <2> QED
    BY <1>4, <2>1 DEF RootLeft
<1>6. \A b \in Argo!Apps \ {r} : b \notin Argo!ChildrenOf(r) =>
         (b \in apps' <=> b \in apps) /\ (b \in auto' <=> b \in auto)
  BY <1>1
<1> HIDE DEF wave, s
<1>7. StepsLeft(r)' < StepsLeft(r)
  BY <1>1, <1>5 DEF StepsLeft
<1> QED
  BY <1>1, <1>3, <1>6, <1>7, OthersSame DEF Nearer

\* The prune of a useful operation leaves its root without a difference.
LEMMA PruneNearer ==
    ASSUME Committed, ArgoInv, NEW r \in Argo!Apps, Argo!PruneChildren(r)
    PROVE  Nearer(r)
<1> DEFINE S == Argo!ChildrenOf(r) \ op[r].listed
<1>1. /\ r \in Roots /\ op[r].step = "prune"
      /\ apps' = apps \ S /\ auto' = auto \ S
      /\ op' = [a \in Argo!Apps |-> IF a = r \/ a \in S THEN Argo!Idle ELSE op[a]]
      /\ live' = [w \in Argo!Workloads |-> IF w \in S \cap Finalized THEN Argo!Gone ELSE live[w]]
      /\ UNCHANGED <<text, listed, policy>> /\ UNCHANGED Argo!main
  BY DEF Argo!PruneChildren, Argo!Remove, Argo!main
<1>2. op'[r].step = "idle"
  BY <1>1 DEF Argo!Idle
<1>3. Useful(r) => ~Argo!RootDrifts(r)'
  <2> SUFFICES ASSUME Useful(r) PROVE ~Argo!RootDrifts(r)'
    OBVIOUS
  <2>1. op[r].listed = listed /\ Applied(r, Children)
    BY <1>1 DEF Useful, OfThisRevision
  <2>2. \A c \in Argo!ChildrenOf(r) : c \in Children
    BY DEF Argo!ChildrenOf
  <2>3. \A c \in Argo!ChildrenOf(r) :
           /\ c \in apps' <=> c \in listed
           /\ c \in apps' => (c \in auto' <=> c \in policy)
    BY <1>1, <2>1, <2>2 DEF Applied
  <2> QED
    BY <1>1, <2>3 DEF Argo!RootDrifts, Argo!ChildrenOf
<1>4. RootLeft(r)' < RootLeft(r)
  <2>1. op[r].step # "idle" /\ WaveLeft(r) = 1
    BY <1>1 DEF WaveLeft
  <2> QED
    BY <1>2, <1>3, <2>1 DEF RootLeft
<1>5. \A b \in Argo!Apps \ {r} : b \notin Argo!ChildrenOf(r) =>
         /\ op'[b] = op[b]
         /\ (b \in apps' <=> b \in apps) /\ (b \in auto' <=> b \in auto)
         /\ b \in Argo!Workloads => live'[b] = live[b]
  BY <1>1
<1> HIDE DEF S
<1>6. StepsLeft(r)' < StepsLeft(r)
  BY <1>1, <1>4 DEF StepsLeft
<1> QED
  BY <1>1, <1>5, <1>6, OthersSame DEF Nearer

\* What people do and what fails is counted.
LEMMA NotAnAct == Committed /\ ArgoInv /\ Argo!Act => acts' # acts
BY ActsNat DEF Argo!Act

LEMMA StepNearer ==
    ASSUME Committed, ArgoInv, Argo!Next, acts' = acts
    PROVE  \E a \in Argo!Apps : Nearer(a)
<1>1. \A w \in Argo!Workloads : w \in Argo!Apps
  BY DEF Argo!Apps, Argo!Workloads
<1>2. ~Argo!Act
  BY NotAnAct
<1>3. \/ \E a \in Argo!Apps :
            \/ Argo!AutoSync(a) \/ Argo!ManualSync(a)
            \/ Argo!ApplyChildren(a) \/ Argo!PruneChildren(a)
      \/ \E w \in Argo!Workloads : Argo!ApplyWorkload(w)
  BY <1>2 DEF Argo!Next, Argo!ArgoStep, Argo!PeopleStep, Argo!OpFails, Argo!EditPolicy,
              Argo!DeleteApp, Argo!ApplyApp, Argo!EditWorkload, Argo!Commit
<1>4. ASSUME NEW a \in Argo!Apps, Argo!AutoSync(a) \/ Argo!ManualSync(a)
      PROVE  Nearer(a)
  BY <1>4, BeginNearer DEF Argo!AutoSync, Argo!ManualSync
<1> QED
  BY <1>1, <1>3, <1>4, WorkloadNearer, WaveNearer, PruneNearer

\* Between two acts, whatever they left and in the middle of which operations,
\* every step of Argo CD and of the button brings one Application nearer to git,
\* by a bounded number, and sets back at most the children of a root that came
\* nearer itself. When nothing is left to do, the cluster is what git says.
THEOREM ArgoWindsDown ==
    ASSUME Committed
    PROVE  Argo!Spec => WindsDown /\ [](AtRest => Argo!Converged)
<1>1. Argo!Init => ArgoInv
  BY ArgoInit
<1>2. ArgoInv /\ [Argo!Next]_(Argo!vars) => ArgoInv'
  BY ArgoNextInv
<1>3. ArgoInv /\ [Argo!Next]_(Argo!vars)
      => [acts' = acts => \E a \in Argo!Apps : Nearer(a)]_(Argo!vars)
  BY StepNearer
<1>4. AtRest => Argo!Converged
  <2> SUFFICES ASSUME AtRest, NEW r \in Roots, Argo!Reconciles(r)
               PROVE  /\ Argo!ChildrenOf(r) \cap apps = Argo!ChildrenOf(r) \cap listed
                      /\ \A c \in Argo!ChildrenOf(r) \cap apps :
                            /\ c \in auto <=> c \in policy
                            /\ c \in auto \ stuck => live[c] = text[c]
    BY DEF Argo!Converged
  <2>1. ~Argo!RootDrifts(r)
    BY DEF AtRest, Argo!Apps, Argo!Reconciles, Argo!Drifts
  <2>2. \A c \in Argo!ChildrenOf(r) : c \in Argo!Apps /\ c \notin Roots
    BY AppKinds DEF Argo!ChildrenOf, Argo!Apps
  <2>3. \A c \in Argo!ChildrenOf(r) : c \in auto \ stuck => live[c] = text[c]
    BY <2>2 DEF AtRest, Argo!Drifts, Argo!Prunable
  <2> QED
    BY <2>1, <2>3 DEF Argo!RootDrifts
<1> QED
  BY <1>1, <1>2, <1>3, <1>4, PTL DEF Argo!Spec, WindsDown
=============================================================================
