---------------------------- MODULE BrokerConfig ----------------------------
(***************************************************************************)
(* The RabbitMQ broker's configuration: the ConfigMap                      *)
(* osdu-rabbitmq-config, the Deployment whose pods read it, Argo CD's      *)
(* self-healing Application osdu-deps that keeps the ConfigMap at the text *)
(* in git, and the two scripts that rewrite it behind Argo CD's back:      *)
(*                                                                         *)
(*   "defs"  scripts/fix-rabbitmq-definitions.sh   (kubectl delete+create) *)
(*   "pwd"   scripts/fix-rabbitmq-password.sh      (kubectl apply)         *)
(*                                                                         *)
(* A pod mounts the files with subPath: they are the ConfigMap's text when *)
(* its container starts and do not follow later updates.  The Deployment   *)
(* has one replica and the default rolling update, so a rollout keeps the  *)
(* old pod until the new one is ready.  One operator runs the scripts.     *)
(***************************************************************************)
EXTENDS Naturals, FiniteSets

CONSTANTS
    Texts,       \* the texts of the ConfigMap
    GitText,     \* rabbitmq-deploy.yaml at this commit
    DefsText,    \* what the "defs" script writes
    PwdText,     \* what the "pwd" script writes
    Bootable,    \* the texts a broker starts with
    Absent,      \* no such ConfigMap
    MaxRollouts, \* bound: rollouts of the Deployment
    MaxRuns      \* bound: script runs

ASSUME TextsAssumption ==
    /\ Bootable \subseteq Texts
    /\ {GitText, DefsText, PwdText} \subseteq Bootable
    /\ Absent \notin Texts

ASSUME BoundsAssumption == MaxRollouts \in Nat \ {0} /\ MaxRuns \in Nat

Scripts == {"defs", "pwd"}
Gens == 1 .. MaxRollouts

VARIABLES
    git,    \* the text on the main branch
    givenUp, \* the last operation of osdu-deps failed, and there was no commit since
    cm,     \* the ConfigMap in osdu-data
    gen,    \* the Deployment's current revision
    rs,     \* the revisions whose ReplicaSet is scaled to 1
    phase,  \* the pod of each revision
    cfg,    \* the text its container started with, Absent before that
    script, \* the script the operator is running, or "none"
    at,     \* the command it is at
    runs,   \* script runs so far
    recap,  \* how the last run of each script ended
    seen    \* history: the texts cm has had since a script last wrote it

vars == <<git, givenUp, cm, gen, rs, phase, cfg, script, at, runs, recap, seen>>
deployment == <<gen, rs, phase, cfg>>
operator == <<script, at, runs, recap>>

Commands == {"none", "delete_cm", "create_cm", "apply_cm", "delete_pods",
             "wait_ready", "verify", "restart_storage", "rollout",
             "rollout_status"}

TypeOK ==
    /\ git \in Texts
    /\ givenUp \in BOOLEAN
    /\ cm \in Texts \cup {Absent}
    /\ gen \in Gens
    /\ rs \subseteq Gens /\ gen \in rs
    /\ phase \in [Gens -> {"none", "creating", "starting", "ready"}]
    /\ cfg \in [Gens -> Texts \cup {Absent}]
    /\ \A g \in Gens : cfg[g] \in Texts <=> phase[g] \in {"starting", "ready"}
    /\ script \in Scripts \cup {"none"}
    /\ at \in Commands
    /\ runs \in 0 .. MaxRuns
    /\ recap \in [Scripts -> {"never", "done", "aborted"}]
    /\ seen \subseteq Texts

\* osdu-deps is synced and its broker is up, as before either fix.
Init ==
    /\ git = GitText
    /\ givenUp = FALSE
    /\ cm = GitText
    /\ gen = 1
    /\ rs = {1}
    /\ phase = [g \in Gens |-> IF g = 1 THEN "ready" ELSE "none"]
    /\ cfg = [g \in Gens |-> IF g = 1 THEN GitText ELSE Absent]
    /\ script = "none"
    /\ at = "none"
    /\ runs = 0
    /\ recap = [s \in Scripts |-> "never"]
    /\ seen = {GitText}

Up(g) == phase[g] \in {"starting", "ready"}

SomeReady == \E g \in Gens : phase[g] = "ready"

-----------------------------------------------------------------------------
(* Git and Argo CD.                                                        *)

\* Every manifest is in one repository: a commit elsewhere is a new revision of
\* osdu-deps too, which Argo CD tries again.
Commit(t) ==
    /\ git # t \/ givenUp
    /\ git' = t
    /\ givenUp' = FALSE
    /\ UNCHANGED <<cm, seen, deployment, operator>>

\* The ConfigMap is applied as it is in git.
ApplyGit ==
    /\ cm' = git
    /\ seen' = seen \cup {git}

\* Fault: only drift of an existing ConfigMap is healed.
SelfHealExisting ==
    /\ ~givenUp
    /\ cm \notin {git, Absent}
    /\ ApplyGit
    /\ UNCHANGED <<git, givenUp, deployment, operator>>

\* Application osdu-deps: automated, selfHeal. A missing or different
\* ConfigMap is out of sync and is applied again, but there is no retry policy:
\* a revision whose operation failed is left alone.
SelfHeal ==
    /\ ~givenUp
    /\ cm # git
    /\ ApplyGit
    /\ UNCHANGED <<git, givenUp, deployment, operator>>

\* An operation of osdu-deps fails, before it applies the ConfigMap or after, as
\* when its initdb hook does.
SyncFails ==
    /\ ApplyGit \/ UNCHANGED <<cm, seen>>
    /\ givenUp' = TRUE
    /\ UNCHANGED <<git, deployment, operator>>

\* The button.
ManualSync ==
    /\ ApplyGit
    /\ givenUp' = FALSE
    /\ UNCHANGED <<git, deployment, operator>>

-----------------------------------------------------------------------------
(* The Deployment: one pod per scaled ReplicaSet.                          *)

CreatePod(g) ==
    /\ g \in rs
    /\ phase[g] = "none"
    /\ phase' = [phase EXCEPT ![g] = "creating"]
    /\ UNCHANGED <<git, givenUp, cm, gen, rs, cfg, operator, seen>>

\* Fault: the volume is optional and the container starts without its files.
StartContainerAnyway(g) ==
    /\ phase[g] = "creating"
    /\ phase' = [phase EXCEPT ![g] = "starting"]
    /\ cfg' = [cfg EXCEPT ![g] = cm]
    /\ UNCHANGED <<git, givenUp, cm, gen, rs, operator, seen>>

\* The volume cannot be set up while the ConfigMap is missing.
StartContainer(g) ==
    /\ phase[g] = "creating"
    /\ cm # Absent
    /\ phase' = [phase EXCEPT ![g] = "starting"]
    /\ cfg' = [cfg EXCEPT ![g] = cm]
    /\ UNCHANGED <<git, givenUp, cm, gen, rs, operator, seen>>

\* load_definitions succeeds and rabbitmq-diagnostics check_running passes.
BecomeReady(g) ==
    /\ phase[g] = "starting"
    /\ cfg[g] \in Bootable
    /\ phase' = [phase EXCEPT ![g] = "ready"]
    /\ UNCHANGED <<git, givenUp, cm, gen, rs, cfg, operator, seen>>

\* A broker that cannot load its definitions exits; the restarted container
\* mounts the files again.
CrashLoop(g) ==
    /\ phase[g] = "starting"
    /\ cfg[g] \notin Bootable
    /\ cm \notin {Absent, cfg[g]}
    /\ cfg' = [cfg EXCEPT ![g] = cm]
    /\ UNCHANGED <<git, givenUp, cm, gen, rs, phase, operator, seen>>

\* The liveness probe fails or the process is killed: the container restarts
\* with the ConfigMap's text, or with the copy the kubelet still has.
ContainerDies(g) ==
    /\ phase[g] = "ready"
    /\ phase' = [phase EXCEPT ![g] = "starting"]
    /\ \E t \in {cfg[g], cm} \ {Absent} : cfg' = [cfg EXCEPT ![g] = t]
    /\ UNCHANGED <<git, givenUp, cm, gen, rs, operator, seen>>

\* Fault: strategy Recreate, the old pod goes before the new one is ready.
ScaleDownOldFirst ==
    /\ rs # {gen}
    /\ rs' = {gen}
    /\ phase' = [g \in Gens |-> IF g = gen THEN phase[g] ELSE "none"]
    /\ cfg' = [g \in Gens |-> IF g = gen THEN cfg[g] ELSE Absent]
    /\ UNCHANGED <<git, givenUp, cm, gen, operator, seen>>

\* RollingUpdate with one replica (maxUnavailable rounds down to 0): the old
\* ReplicaSets go to 0 once the new pod is ready.
ScaleDownOld ==
    /\ rs # {gen}
    /\ phase[gen] = "ready"
    /\ rs' = {gen}
    /\ phase' = [g \in Gens |-> IF g = gen THEN phase[g] ELSE "none"]
    /\ cfg' = [g \in Gens |-> IF g = gen THEN cfg[g] ELSE Absent]
    /\ UNCHANGED <<git, givenUp, cm, gen, operator, seen>>

\* A new ReplicaSet for a changed pod template.
StartRollout ==
    /\ gen < MaxRollouts
    /\ gen' = gen + 1
    /\ rs' = rs \cup {gen + 1}

\* Argo CD applies a commit that changes the Deployment itself.
SyncDeployment ==
    /\ StartRollout
    /\ UNCHANGED <<git, givenUp, cm, phase, cfg, operator, seen>>

-----------------------------------------------------------------------------
(* The scripts, one kubectl command per action. `set -e` ends a script at   *)
(* the first command that fails.                                           *)

FirstOf(s) == IF s = "defs" THEN "delete_cm" ELSE "apply_cm"

Launch(s) ==
    /\ script = "none"
    /\ runs < MaxRuns
    /\ script' = s
    /\ at' = FirstOf(s)
    /\ runs' = runs + 1
    /\ UNCHANGED <<git, givenUp, cm, seen, deployment, recap>>

GoTo(command) ==
    /\ at' = command
    /\ UNCHANGED <<script, runs, recap>>

End(result) ==
    /\ script' = "none"
    /\ at' = "none"
    /\ recap' = [recap EXCEPT ![script] = result]
    /\ UNCHANGED runs

\* Any command may fail or time out (--timeout=120s, the API server).
Abort ==
    /\ script # "none"
    /\ End("aborted")
    /\ UNCHANGED <<git, givenUp, cm, seen, deployment>>

\* kubectl delete cm --ignore-not-found
DeleteCm ==
    /\ at = "delete_cm"
    /\ cm' = Absent
    /\ GoTo("create_cm")
    /\ UNCHANGED <<git, givenUp, deployment, seen>>

\* kubectl create fails with AlreadyExists once Argo CD has healed the gap.
CreateCm ==
    /\ at = "create_cm"
    /\ cm = Absent
    /\ cm' = DefsText
    /\ seen' = {DefsText}
    /\ GoTo("delete_pods")
    /\ UNCHANGED <<git, givenUp, deployment>>

\* kubectl create --dry-run=client -o yaml | kubectl apply -f -
ApplyCm ==
    /\ at = "apply_cm"
    /\ cm' = PwdText
    /\ seen' = {PwdText}
    /\ GoTo("delete_pods")
    /\ UNCHANGED <<git, givenUp, deployment>>

\* Fault: only the current revision's pod is deleted.
DeleteCurrentPod ==
    /\ at = "delete_pods"
    /\ phase' = [phase EXCEPT ![gen] = "none"]
    /\ cfg' = [cfg EXCEPT ![gen] = Absent]
    /\ GoTo(IF script = "defs" THEN "wait_ready" ELSE "rollout")
    /\ UNCHANGED <<git, givenUp, cm, gen, rs, seen>>

\* kubectl delete pod -l app=osdu-rabbitmq --force --grace-period=0
DeletePods ==
    /\ at = "delete_pods"
    /\ phase' = [g \in Gens |-> "none"]
    /\ cfg' = [g \in Gens |-> Absent]
    /\ GoTo(IF script = "defs" THEN "wait_ready" ELSE "rollout")
    /\ UNCHANGED <<git, givenUp, cm, gen, rs, seen>>

\* "pwd" goes on when the deletion fails (|| true).
DeletePodsIgnored ==
    /\ at = "delete_pods"
    /\ script = "pwd"
    /\ GoTo("rollout")
    /\ UNCHANGED <<git, givenUp, cm, deployment, seen>>

\* kubectl wait --for=condition=ready: every pod that matches, at least one.
WaitReady ==
    /\ at = "wait_ready"
    /\ SomeReady
    /\ \A g \in Gens : phase[g] \in {"none", "ready"}
    /\ GoTo("verify")
    /\ UNCHANGED <<git, givenUp, cm, seen, deployment>>

\* rabbitmqctl list_* in a running pod: printed, compared with nothing.
Verify ==
    /\ at = "verify"
    /\ SomeReady
    /\ GoTo("restart_storage")
    /\ UNCHANGED <<git, givenUp, cm, seen, deployment>>

\* kubectl rollout restart deploy/osdu-storage and rollout status.
RestartStorage ==
    /\ at = "restart_storage"
    /\ End("done")
    /\ UNCHANGED <<git, givenUp, cm, seen, deployment>>

\* kubectl rollout restart deploy/osdu-rabbitmq
Rollout ==
    /\ at = "rollout"
    /\ StartRollout
    /\ GoTo("rollout_status")
    /\ UNCHANGED <<git, givenUp, cm, phase, cfg, seen>>

\* kubectl rollout status: the new pod is available, the old ones are gone.
RolloutStatus ==
    /\ at = "rollout_status"
    /\ rs = {gen}
    /\ phase[gen] = "ready"
    /\ End("done")
    /\ UNCHANGED <<git, givenUp, cm, seen, deployment>>

ScriptStep ==
    \/ DeleteCm \/ CreateCm \/ ApplyCm
    \/ DeletePods \/ DeletePodsIgnored
    \/ WaitReady \/ Verify \/ RestartStorage
    \/ Rollout \/ RolloutStatus
    \/ Abort

Controllers(g) ==
    CreatePod(g) \/ StartContainer(g) \/ BecomeReady(g) \/ CrashLoop(g)

Next ==
    \/ \E t \in Texts : Commit(t)
    \/ SelfHeal \/ SyncFails \/ ManualSync
    \/ \E g \in Gens : Controllers(g) \/ ContainerDies(g)
    \/ ScaleDownOld
    \/ SyncDeployment
    \/ \E s \in Scripts : Launch(s)
    \/ ScriptStep

Spec == Init /\ [][Next]_vars

\* Argo CD's and Kubernetes' controllers keep reconciling, and a script that
\* was started runs to its end. Commits, the button, script starts and broker
\* crashes are nobody's obligation.
FairSpec ==
    /\ Spec
    /\ WF_vars(SelfHeal)
    /\ \A g \in Gens : WF_vars(Controllers(g))
    /\ WF_vars(ScaleDownOld)
    /\ WF_vars(ScriptStep)

-----------------------------------------------------------------------------
(* Properties.                                                             *)

Finish == RestartStorage \/ RolloutStatus

\* A fix that reaches DONE leaves no broker on a configuration older than the
\* script's own write: every running container was started on a text the
\* ConfigMap has had since then (the script's, or one Argo CD put back).
NoStaleAfterFix ==
    [][Finish => \A g \in Gens : Up(g) => cfg[g] \in seen]_vars

\* The namespace is never left without a ready broker by a rollout: only a
\* dying container or a script's forced deletion takes the last one away.
RolloutKeepsBroker ==
    [][SomeReady /\ ~SomeReady'
         => DeletePods \/ \E g \in Gens : ContainerDies(g)]_vars

\* Whatever a script deleted before it died, and whatever was committed
\* before, a broker comes back as long as git holds a text it boots with; but
\* Argo CD must not have given up on osdu-deps while the ConfigMap is gone or
\* holds a text that does not boot: then it takes a commit or the button.
BrokerReturns ==
    []<>(SomeReady \/ git \notin Bootable \/ (givenUp /\ cm \notin Bootable))

\* fix-rabbitmq-definitions.sh: "Recreating ConfigMap with full definitions",
\* "Deleting RabbitMQ pod to reload ConfigMap", "Verify queues and exchanges
\* created". When it reaches DONE the broker runs the script's definitions.
DefinitionsLoaded ==
    [][RestartStorage => \A g \in Gens : Up(g) => cfg[g] = DefsText]_vars
=============================================================================
