------------------------- MODULE LoadBalancerProofs -------------------------
(***************************************************************************)
(* What playbooks 30 and 31 guarantee, for any set of concurrent sessions, *)
(* any set of file contents and any history of edits and failures.         *)
(***************************************************************************)
EXTENDS LoadBalancer, Naturals, TLAPS

\* Each playbook's sessions are at one of its own tasks.
TaskOfPlay ==
    \A s \in Sessions :
        task[s] \in (IF play[s] = "p30" THEN DOMAIN Then30 ELSE DOMAIN Then31)
                        \cup {"idle"}

\* `changed` is set by the write and outlives the restart in no run.
ChangedIsPending ==
    \A s \in Sessions :
        /\ task[s] \in {"idle", "dir", "install", "write"} => ~changed[s]
        /\ play[s] = "p30" /\ task[s] \in {"status", "save"} => ~changed[s]

\* Past the package installation the file exists.
InstalledByThen ==
    /\ \A s \in Sessions : task[s] \notin {"idle", "dir", "install"} => disk # NoFile
    /\ disk = NoFile => proc = Down

IInv ==
    /\ TypeOK
    /\ TaskOfPlay
    /\ ChangedIsPending
    /\ InstalledByThen
    /\ DriftAccounted

USE DEF Playbooks

\* What follows a task stays inside the playbook of the session, and a run
\* only ends with a change pending if it has been told to run the handler.
LEMMA FollowingStays ==
    ASSUME IInv, NEW s \in Sessions, task[s] # "idle"
    PROVE  /\ Following(s) \in Tasks
           /\ Following(s) \in (IF play[s] = "p30" THEN DOMAIN Then30 ELSE DOMAIN Then31)
                                  \cup {"idle"}
           /\ Following(s) \notin {"dir"}
           /\ Following(s) = "install" => task[s] = "dir"
           /\ Following(s) = "write" => task[s] = "install"
           /\ Following(s) = "idle" => task[s] \in {"save", "handler"}
           /\ Following(s) = "idle" /\ task[s] = "save" => ~changed[s]
           /\ play[s] = "p30" /\ Following(s) \in {"status", "save"}
                => task[s] \in {"restart", "status"}
  BY DEF IInv, TypeOK, TaskOfPlay, ChangedIsPending, Following, Then30, Then31, Tasks

\* The invariant holds initially.
LEMMA InitIInv == Init => IInv
<1> SUFFICES ASSUME Init PROVE IInv
  OBVIOUS
<1>1. TypeOK
  BY ContentsAssumption DEF Init, TypeOK, Tasks
<1>2. TaskOfPlay
  BY DEF Init, TaskOfPlay
<1>3. ChangedIsPending
  BY DEF Init, ChangedIsPending
<1>4. InstalledByThen /\ DriftAccounted
  BY DEF Init, InstalledByThen, DriftAccounted
<1> QED
  BY <1>1, <1>2, <1>3, <1>4 DEF IInv

\* What every failing task leaves behind.
LEMMA AbortKeeps ==
    ASSUME IInv, NEW s \in Sessions, Abort(s), UNCHANGED <<repo, disk, play, alone>>,
           proc' = proc \/ (proc' = Down /\ proc # disk /\ disk # NoFile)
    PROVE  IInv'
<1>1. TypeOK'
  BY DEF IInv, TypeOK, Abort, Tasks
<1>2. TaskOfPlay'
  BY DEF IInv, TypeOK, TaskOfPlay, Abort
<1>3. ChangedIsPending'
  BY DEF IInv, TypeOK, ChangedIsPending, Abort
<1>4. InstalledByThen'
  BY DEF IInv, TypeOK, InstalledByThen, Abort
<1>5. DriftAccounted'
  <2>1. CASE disk = NoFile \/ stale \/ proc = disk
    BY <2>1 DEF DriftAccounted, Abort
  <2>2. CASE proc # disk /\ \E t \in Sessions : changed[t]
    <3>1. PICK t \in Sessions : changed[t]
      BY <2>2
    <3>2. CASE t = s
      BY <2>2, <3>1, <3>2 DEF DriftAccounted, Abort
    <3>3. CASE t # s
      BY <3>1, <3>3 DEF IInv, TypeOK, DriftAccounted, Abort
    <3> QED
      BY <3>2, <3>3
  <2> QED
    BY <2>1, <2>2 DEF IInv, DriftAccounted
<1> QED
  BY <1>1, <1>2, <1>3, <1>4, <1>5 DEF IInv

\* Going on to the next task keeps the bookkeeping parts of the invariant
\* when the task itself disturbs neither the change flag nor the file.
LEMMA ProceedKeeps ==
    ASSUME IInv, NEW s \in Sessions, task[s] \notin {"idle", "write", "restart", "handler"},
           Proceed(s), UNCHANGED <<play, changed, alone>>
    PROVE  /\ task' \in [Sessions -> Tasks]
           /\ recap' \in [Playbooks -> {"never", "ok", "failed"}]
           /\ TaskOfPlay'
           /\ ChangedIsPending'
<1> USE FollowingStays
<1>1. task' \in [Sessions -> Tasks] /\ recap' \in [Playbooks -> {"never", "ok", "failed"}]
  BY DEF IInv, TypeOK, Proceed
<1>2. TaskOfPlay'
  BY DEF IInv, TypeOK, TaskOfPlay, Proceed
<1>3. ChangedIsPending'
  <2> SUFFICES ASSUME NEW t \in Sessions
               PROVE  /\ task'[t] \in {"idle", "dir", "install", "write"} => ~changed[t]
                      /\ play[t] = "p30" /\ task'[t] \in {"status", "save"} => ~changed[t]
    BY DEF ChangedIsPending
  <2>1. CASE t # s
    BY <2>1 DEF IInv, TypeOK, ChangedIsPending, Proceed
  <2>2. CASE t = s
    <3>1. task'[s] = Following(s)
      BY DEF IInv, TypeOK, Proceed
    <3> QED
      BY <2>2, <3>1 DEF IInv, ChangedIsPending
  <2> QED
    BY <2>1, <2>2
<1> QED
  BY <1>1, <1>2, <1>3

\* A session starts at the first task of its playbook with nothing pending.
LEMMA LaunchKeeps ==
    ASSUME IInv, NEW s \in Sessions, NEW p \in Playbooks, Launch(s, p)
    PROVE  IInv'
<1>1. TypeOK'
  BY DEF IInv, TypeOK, Launch, Tasks
<1>2. TaskOfPlay'
  BY DEF IInv, TypeOK, TaskOfPlay, Launch, Then30, Then31
<1>3. ChangedIsPending' /\ InstalledByThen' /\ DriftAccounted'
  BY DEF IInv, TypeOK, ChangedIsPending, InstalledByThen, DriftAccounted, Launch
<1> QED
  BY <1>1, <1>2, <1>3 DEF IInv

\* Tasks that leave the host, or bring it up from the file, and go on.
LEMMA QuietTaskKeeps ==
    ASSUME IInv, NEW s \in Sessions,
           Evidence(s) \/ Install(s) \/ Validate(s) \/ Start(s) \/ Status(s),
           UNCHANGED alone
    PROVE  IInv'
<1> USE FollowingStays
<1>1. /\ Proceed(s)
      /\ UNCHANGED <<repo, play, changed>>
      /\ task[s] \in {"dir", "evidence", "save", "install", "validate", "start", "status"}
  BY DEF Evidence, Install, Validate, Start, Status
<1>2. TypeOK'
  BY <1>1, ProceedKeeps, ContentsAssumption
  DEF IInv, TypeOK, Evidence, Install, Validate, Start, Status
<1>3. TaskOfPlay' /\ ChangedIsPending'
  BY <1>1, ProceedKeeps
<1>4. task'[s] = Following(s) /\ \A t \in Sessions \ {s} : task'[t] = task[t]
  BY <1>1 DEF IInv, TypeOK, Proceed
<1>5. InstalledByThen' /\ DriftAccounted'
  <2>1. CASE Install(s)
    BY <1>1, <1>4, <2>1, ContentsAssumption
    DEF IInv, InstalledByThen, DriftAccounted, Install
  <2>2. CASE Start(s)
    BY <1>1, <1>4, <2>2, ContentsAssumption
    DEF IInv, InstalledByThen, DriftAccounted, Start
  <2>3. CASE Evidence(s) \/ Validate(s) \/ Status(s)
    <3>1. UNCHANGED <<disk, proc, changed, stale>>
      BY <2>3 DEF Evidence, Validate, Status
    <3>2. disk = NoFile => task[s] \in {"dir", "install"}
      BY <1>1 DEF IInv, InstalledByThen
    <3>3. task[s] # "install"
      BY <2>3 DEF Evidence, Validate, Status
    <3>4. disk = NoFile => Following(s) = "install"
      BY <3>2, <3>3 DEF Following, Then30, Then31
    <3> QED
      BY <1>1, <1>4, <3>1, <3>4 DEF IInv, InstalledByThen, DriftAccounted
  <2> QED
    BY <2>1, <2>2, <2>3
<1> QED
  BY <1>2, <1>3, <1>5 DEF IInv

\* A write that changes the file leaves its run with a restart pending.
LEMMA WriteConfigKeeps ==
    ASSUME IInv, NEW s \in Sessions, WriteConfig(s), UNCHANGED alone
    PROVE  IInv'
<1> USE FollowingStays
<1>1. task'[s] = Following(s) /\ \A t \in Sessions \ {s} : task'[t] = task[t]
  BY DEF IInv, TypeOK, WriteConfig, Proceed
<1>2. /\ changed'[s] = (disk # disk')
      /\ \A t \in Sessions \ {s} : changed'[t] = changed[t]
  BY DEF IInv, TypeOK, WriteConfig
<1>3. TypeOK'
  BY DEF IInv, TypeOK, WriteConfig, Proceed
<1>4. TaskOfPlay'
  BY <1>1 DEF IInv, TaskOfPlay, WriteConfig
<1>5. ChangedIsPending'
  BY <1>1, <1>2 DEF IInv, TypeOK, ChangedIsPending, WriteConfig
<1>6. InstalledByThen'
  BY <1>1, ContentsAssumption DEF IInv, TypeOK, InstalledByThen, WriteConfig
<1>7. DriftAccounted'
  BY <1>1, <1>2 DEF IInv, TypeOK, ChangedIsPending, InstalledByThen, DriftAccounted, WriteConfig
<1> QED
  BY <1>3, <1>4, <1>5, <1>6, <1>7 DEF IInv

\* A restart loads the file and clears what was pending.
LEMMA RestartKeeps ==
    ASSUME IInv, NEW s \in Sessions, Restart(s), UNCHANGED alone
    PROVE  IInv'
<1> USE FollowingStays
<1>1. task'[s] = Following(s) /\ \A t \in Sessions \ {s} : task'[t] = task[t]
  BY DEF IInv, TypeOK, Restart, Proceed
<1>2. ~changed'[s] /\ \A t \in Sessions \ {s} : changed'[t] = changed[t]
  BY DEF IInv, TypeOK, Restart
<1>3. TypeOK'
  BY DEF IInv, TypeOK, Restart, Proceed
<1>4. TaskOfPlay'
  BY <1>1 DEF IInv, TaskOfPlay, Restart
<1>5. ChangedIsPending'
  BY <1>1, <1>2 DEF IInv, TypeOK, ChangedIsPending, Restart
<1>6. InstalledByThen' /\ DriftAccounted'
  BY <1>1, ContentsAssumption DEF IInv, InstalledByThen, DriftAccounted, Restart
<1> QED
  BY <1>3, <1>4, <1>5, <1>6 DEF IInv

\* A task that stops the run, whatever made it stop.
LEMMA FailureKeeps ==
    ASSUME IInv, NEW s \in Sessions,
           ValidateFails(s) \/ StartFails(s) \/ RestartFails(s) \/ TaskFails(s),
           UNCHANGED alone
    PROVE  IInv'
<1>1. Abort(s) /\ UNCHANGED <<repo, disk, play>>
  BY DEF ValidateFails, StartFails, RestartFails, TaskFails
<1>2. proc' = proc \/ (proc' = Down /\ proc # disk /\ disk # NoFile)
  <2>1. CASE RestartFails(s)
    BY <2>1, ContentsAssumption DEF IInv, TypeOK, InstalledByThen, RestartFails
  <2>2. CASE ValidateFails(s) \/ StartFails(s) \/ TaskFails(s)
    BY <2>2 DEF ValidateFails, StartFails, TaskFails
  <2> QED
    BY <2>1, <2>2
<1> QED
  BY <1>1, <1>2, AbortKeeps

\* A reboot starts haproxy from the file, or records that it could not.
LEMMA RebootKeeps ==
    ASSUME IInv, Reboot
    PROVE  IInv'
<1>1. TypeOK'
  BY DEF IInv, TypeOK, Reboot, Tasks
<1>2. TaskOfPlay' /\ ChangedIsPending'
  BY DEF IInv, TaskOfPlay, ChangedIsPending, Reboot
<1>3. InstalledByThen' /\ DriftAccounted'
  BY DEF IInv, InstalledByThen, DriftAccounted, Reboot
<1> QED
  BY <1>1, <1>2, <1>3 DEF IInv

\* A commit does not touch the host.
LEMMA EditRepoKeeps ==
    ASSUME IInv, NEW p \in Playbooks, NEW c \in Contents, EditRepo(p, c)
    PROVE  IInv'
  BY DEF IInv, TypeOK, TaskOfPlay, ChangedIsPending, InstalledByThen,
         DriftAccounted, EditRepo

\* Every step of the specification, and a stutter, keeps the invariant.
LEMMA StepKeepsIInv == IInv /\ [Next]_vars => IInv'
<1> SUFFICES ASSUME IInv, [Next]_vars PROVE IInv'
  OBVIOUS
<1>1. ASSUME NEW s \in Sessions, NEW p \in Playbooks, Launch(s, p) PROVE IInv'
  BY <1>1, LaunchKeeps
<1>2. ASSUME NEW s \in Sessions, RunTask(s) PROVE IInv'
  BY <1>2, QuietTaskKeeps, WriteConfigKeeps, RestartKeeps, FailureKeeps DEF RunTask
<1>3. CASE Reboot
  BY <1>3, RebootKeeps
<1>4. ASSUME NEW p \in Playbooks, NEW c \in Contents \ {Distro}, EditRepo(p, c) PROVE IInv'
  BY <1>4, EditRepoKeeps
<1>5. CASE UNCHANGED vars
  BY <1>5 DEF vars, IInv, TypeOK, TaskOfPlay, ChangedIsPending, InstalledByThen,
              DriftAccounted
<1> QED
  BY <1>1, <1>2, <1>3, <1>4, <1>5 DEF Next

\* The invariant holds in every reachable state.
LEMMA SpecIInv == Spec => []IInv
  BY InitIInv, StepKeepsIInv, PTL DEF Spec

\* The types of the host, of the sessions and of the recaps (TypeOK), for any
\* sessions and contents.
THEOREM LoadBalancerTypes == Spec => []TypeOK
  BY SpecIInv, PTL DEF IInv

\* However many playbook runs interleave, and wherever they fail, haproxy only
\* differs from the file for a restart still due or a run that was cut short.
THEOREM DriftIsAccounted == Spec => []DriftAccounted
  BY SpecIInv, PTL DEF IInv

-----------------------------------------------------------------------------
(* While a run is the only one, nothing changes the file between playbook   *)
(* 30's validation and its restart, nor behind its status check.            *)

NobodyElse == \A s \in Sessions :
    alone[s] /\ task[s] # "idle" => \A r \in Sessions \ {s} : task[r] = "idle"

ValidBeforeRestart == \A s \in Sessions :
    alone[s] /\ play[s] = "p30" /\ task[s] = "restart" => disk \in Valid

UpAfterStart ==
    \A s \in Sessions :
        alone[s] =>
            ( \/ play[s] = "p30" /\ task[s] = "save"
              \/ play[s] = "p31" /\ task[s] \in {"evidence", "status", "save", "handler"}
              => proc # Down )

SoleInv == IInv /\ NobodyElse /\ ValidBeforeRestart /\ UpAfterStart

\* Every step keeps the stronger invariant.
LEMMA StepKeepsSole ==
    ASSUME SoleInv, [Next]_vars
    PROVE  SoleInv'
<1>0. IInv'
  BY StepKeepsIInv DEF SoleInv
<1> USE DEF SoleInv
<1> DEFINE Goal == NobodyElse' /\ ValidBeforeRestart' /\ UpAfterStart'
<1> SUFFICES Goal
  BY <1>0
<1>1. ASSUME NEW s \in Sessions, NEW p \in Playbooks, Launch(s, p) PROVE Goal
  <2>1. /\ task'[s] = "dir" /\ \A t \in Sessions \ {s} : task'[t] = task[t] /\ play'[t] = play[t]
        /\ \A t \in Sessions : alone'[t] = ( \/ t # s /\ task[t] = "idle"
                                            \/ \A r \in Sessions \ {s} : task[r] = "idle" )
        /\ UNCHANGED <<disk, proc>>
    BY <1>1 DEF IInv, TypeOK, Launch
  <2> QED
    BY <2>1 DEF NobodyElse, ValidBeforeRestart, UpAfterStart
<1>2. ASSUME NEW s \in Sessions, RunTask(s) PROVE Goal
  <2>0. UNCHANGED alone
    BY <1>2 DEF RunTask
  <2>a. task[s] # "idle" /\ (alone[s] => \A r \in Sessions \ {s} : task[r] = "idle")
    BY <1>2 DEF NobodyElse, RunTask, Evidence, Install, WriteConfig, Validate, ValidateFails,
                Start, StartFails, Restart, RestartFails, Status, TaskFails
  <2>b. \A r \in Sessions \ {s} : alone[r] => task[r] = "idle"
    BY <2>a DEF NobodyElse
  <2> USE <2>0, <2>a, <2>b DEF IInv, TypeOK, TaskOfPlay, Following, Then30, Then31,
          NobodyElse, ValidBeforeRestart, UpAfterStart
  <2>1. CASE Evidence(s)
    BY <2>1 DEF Evidence, Proceed
  <2>2. CASE Install(s)
    BY <2>2 DEF Install, Proceed
  <2>3. CASE WriteConfig(s)
    BY <2>3 DEF WriteConfig, Proceed
  <2>4. CASE Validate(s)
    BY <2>4 DEF Validate, Proceed
  <2>5. CASE Start(s)
    BY <2>5, ContentsAssumption DEF Start, Proceed
  <2>6. CASE Restart(s)
    BY <2>6, ContentsAssumption DEF Restart, Proceed
  <2>7. CASE Status(s)
    BY <2>7 DEF Status, StatusOk, Proceed
  <2>8. CASE ValidateFails(s) \/ StartFails(s) \/ RestartFails(s) \/ TaskFails(s)
    BY <2>8 DEF ValidateFails, StartFails, RestartFails, TaskFails, Abort
  <2> QED
    BY <1>2, <2>1, <2>2, <2>3, <2>4, <2>5, <2>6, <2>7, <2>8 DEF RunTask
<1>3. CASE Reboot
  BY <1>3 DEF Reboot, NobodyElse, ValidBeforeRestart, UpAfterStart
<1>4. ASSUME NEW p \in Playbooks, NEW c \in Contents \ {Distro}, EditRepo(p, c) PROVE Goal
  BY <1>4 DEF EditRepo, NobodyElse, ValidBeforeRestart, UpAfterStart
<1>5. CASE UNCHANGED vars
  BY <1>5 DEF vars, NobodyElse, ValidBeforeRestart, UpAfterStart
<1> QED
  BY <1>1, <1>2, <1>3, <1>4, <1>5 DEF Next

\* The stronger invariant holds in every reachable state.
LEMMA SpecSole == Spec => []SoleInv
<1>1. Init => SoleInv
  BY InitIInv DEF Init, SoleInv, NobodyElse, ValidBeforeRestart, UpAfterStart
<1>2. SoleInv /\ [Next]_vars => SoleInv'
  BY StepKeepsSole
<1> QED
  BY <1>1, <1>2, PTL DEF Spec

\* Run alone, playbook 30 never stops a serving haproxy for a file the new
\* process refuses: the validation it has just passed still holds.
THEOREM Playbook30IsSafe == Spec => ValidatedRestart
<1>1. SoleInv => ~ \E s \in Sessions : alone[s] /\ play[s] = "p30" /\ RestartFails(s)
  BY DEF SoleInv, IInv, TaskOfPlay, ValidBeforeRestart, RestartFails, Then30
<1>2. SoleInv /\ [Next]_vars
        => [\A s \in Sessions : alone[s] => ~(play[s] = "p30" /\ RestartFails(s))]_vars
  BY <1>1
<1> QED
  BY <1>2, SpecSole, PTL DEF ValidatedRestart, Spec

\* Run alone, a playbook whose recap is ok leaves haproxy running on the file
\* the next reboot reads, unless an earlier run was cut short.
THEOREM SuccessIsDurable == Spec => SuccessSurvivesReboot
<1> DEFINE Durable ==
      \A s \in Sessions :
         alone[s] /\ FinishedOk(s) =>
            /\ proc' # Down
            /\ stale' \/ (proc' = disk' /\ disk' \in Valid)
<1>1. ASSUME SoleInv, SoleInv', [Next]_vars, NEW s \in Sessions, alone[s], FinishedOk(s)
      PROVE  proc' # Down /\ (stale' \/ (proc' = disk' /\ disk' \in Valid))
  <2>1. \A t \in Sessions \ {s} : task[t] = "idle" /\ ~changed[t]
    BY <1>1 DEF FinishedOk, SoleInv, IInv, NobodyElse, ChangedIsPending
  <2>2. /\ play[s] \in Playbooks
        /\ task[s] \in {"save", "handler"}
        /\ task'[s] = "idle"
        /\ recap'[play[s]] = "ok"
    BY <1>1 DEF FinishedOk, SoleInv, IInv, TypeOK
  <2>3. CASE Evidence(s)
    <3>1. task[s] = "save" /\ Following(s) = "idle" /\ ~changed[s]
      BY <1>1, <2>2, <2>3, FollowingStays
      DEF SoleInv, IInv, TypeOK, Evidence, Proceed
    <3>2. proc # Down /\ disk # NoFile
      BY <1>1, <2>2, <3>1 DEF SoleInv, IInv, InstalledByThen, UpAfterStart
    <3>3. proc = disk \/ stale
      BY <1>1, <2>1, <3>1, <3>2 DEF SoleInv, IInv, DriftAccounted
    <3> QED
      BY <1>1, <2>3, <3>2, <3>3 DEF SoleInv, IInv, TypeOK, Evidence
  <2>4. CASE Restart(s)
    BY <2>4, ContentsAssumption DEF Restart
  <2>5. CASE ValidateFails(s) \/ StartFails(s) \/ RestartFails(s) \/ TaskFails(s)
    BY <1>1, <2>2, <2>5
    DEF ValidateFails, StartFails, RestartFails, TaskFails, Abort, SoleInv, IInv, TypeOK
  <2>6. CASE Install(s) \/ WriteConfig(s) \/ Validate(s) \/ Start(s) \/ Status(s)
    BY <2>2, <2>6 DEF Install, WriteConfig, Validate, Start, Status
  <2>7. ASSUME NEW t \in Sessions, NEW p \in Playbooks, Launch(t, p) PROVE FALSE
    BY <1>1, <2>2, <2>7 DEF Launch, SoleInv, IInv, TypeOK
  <2>8. CASE Reboot
    BY <1>1, <2>2, <2>8 DEF Reboot, SoleInv, IInv, TypeOK
  <2>9. CASE UNCHANGED task
    BY <2>2, <2>9
  <2>10. CASE RunTask(s)
    BY <2>10, <2>3, <2>4, <2>5, <2>6 DEF RunTask
  <2>11. ASSUME NEW t \in Sessions, RunTask(t) PROVE t = s
    BY <2>1, <2>11 DEF RunTask, Evidence, Install, WriteConfig, Validate, ValidateFails,
                      Start, StartFails, Restart, RestartFails, Status, TaskFails
  <2> QED
    BY <1>1, <2>7, <2>8, <2>9, <2>10, <2>11 DEF Next, EditRepo, vars
<1>2. SoleInv /\ SoleInv' /\ [Next]_vars => [Durable]_vars
  BY <1>1
<1> QED
  BY <1>2, SpecSole, PTL DEF SuccessSurvivesReboot, Spec
-----------------------------------------------------------------------------
(* The safety part of DriftEnds.                                             *)

\* The tasks a session has before it, at most.
TasksLeft(s) ==
    [dir |-> 9, install |-> 8, write |-> 7, validate |-> 6, start |-> 6, restart |-> 5,
     evidence |-> 5, status |-> 4, save |-> 3, handler |-> 2, idle |-> 1][task[s]]

Drifting == disk # NoFile /\ proc # disk /\ ~stale

\* While the running proxy is not the file, and no run that died is to blame, a
\* run that changed the file is under way; none of those ends, or goes back,
\* before the drift is over or a run has died over it.
DriftIsDealtWith ==
    /\ [](Drifting => \E s \in Sessions : changed[s] /\ task[s] # "idle")
    /\ [][Drifting /\ Drifting' =>
            \A s \in Sessions : changed[s] =>
               /\ changed'[s]
               /\ TasksLeft(s)' <= TasksLeft(s)
               /\ RunTask(s) => TasksLeft(s)' < TasksLeft(s)]_vars

LEMMA FollowingIsCloser ==
    ASSUME IInv, NEW s \in Sessions, task[s] # "idle", task'[s] = Following(s)
    PROVE  TasksLeft(s)' < TasksLeft(s)
<1>1. task[s] \in Tasks
  BY DEF IInv, TypeOK
<1>2. CASE play[s] = "p30"
  BY <1>1, <1>2 DEF IInv, TaskOfPlay, Tasks, Following, Then30, TasksLeft
<1>3. CASE play[s] # "p30"
  BY <1>1, <1>3 DEF IInv, TaskOfPlay, Tasks, Following, Then31, TasksLeft
<1> QED
  BY <1>2, <1>3

\* A run that holds a change neither loses it nor stays while the drift lasts: a
\* restart ends the drift, and a task that fails leaves it to a run that died.
LEMMA OwnTask ==
    ASSUME IInv, NEW s \in Sessions, changed[s], Drifting, Drifting', RunTask(s)
    PROVE  changed'[s] /\ TasksLeft(s)' < TasksLeft(s)
<1>1. task[s] \notin {"idle", "write"}
  BY DEF IInv, ChangedIsPending
<1>2. CASE Evidence(s) \/ Install(s) \/ Validate(s) \/ Start(s) \/ Status(s)
  <2>1. Proceed(s) /\ changed' = changed
    BY <1>2 DEF Evidence, Install, Validate, Start, Status
  <2>2. task'[s] = Following(s)
    BY <2>1 DEF Proceed, IInv, TypeOK
  <2> QED
    BY <1>1, <2>1, <2>2, FollowingIsCloser
<1>3. CASE WriteConfig(s)
  BY <1>1, <1>3 DEF WriteConfig
<1>4. CASE Restart(s)
  BY <1>4 DEF Restart, Drifting
<1>5. CASE Abort(s)
  BY <1>5 DEF Abort, Drifting
<1> QED
  BY <1>2, <1>3, <1>4, <1>5 DEF RunTask, ValidateFails, StartFails, RestartFails, TaskFails

\* Nobody else's step touches the session, but for a reboot, after which there
\* is no drift that is not accounted for.
LEMMA OthersTask ==
    ASSUME IInv, NEW s \in Sessions, changed[s], Drifting', Next, ~RunTask(s)
    PROVE  changed'[s] /\ task'[s] = task[s]
<1>1. task[s] # "idle"
  BY DEF IInv, ChangedIsPending
<1>2. ASSUME NEW t \in Sessions, NEW p \in Playbooks, Launch(t, p)
      PROVE  changed'[s] /\ task'[s] = task[s]
  BY <1>1, <1>2 DEF Launch, IInv, TypeOK
<1>3. ASSUME NEW t \in Sessions, RunTask(t)
      PROVE  changed'[s] /\ task'[s] = task[s]
  <2>1. t # s
    BY <1>3
  <2>2. \/ Proceed(t) /\ \/ changed' = changed
                         \/ \E c \in BOOLEAN : changed' = [changed EXCEPT ![t] = c]
        \/ Abort(t)
    BY <1>3 DEF RunTask, Evidence, Install, WriteConfig, Validate, ValidateFails, Start, StartFails,
                Restart, RestartFails, Status, TaskFails
  <2> QED
    BY <2>1, <2>2 DEF Proceed, Abort, IInv, TypeOK
<1>4. ~Reboot
  BY DEF Reboot, Drifting
<1>5. ASSUME NEW p \in Playbooks, NEW c \in Contents, EditRepo(p, c)
      PROVE  changed'[s] /\ task'[s] = task[s]
  BY <1>5 DEF EditRepo
<1> QED
  BY <1>2, <1>3, <1>4, <1>5 DEF Next

\* For any sessions and contents, the drift between the running proxy and its
\* file is always in the hands of runs that only go forward, until one of them
\* has restarted haproxy or died. With the fairness of a run's own tasks that is
\* DriftEnds.
THEOREM DriftGetsDealtWith == Spec => DriftIsDealtWith
<1> DEFINE Forward ==
        Drifting /\ Drifting' =>
           \A s \in Sessions : changed[s] =>
              /\ changed'[s]
              /\ TasksLeft(s)' <= TasksLeft(s)
              /\ RunTask(s) => TasksLeft(s)' < TasksLeft(s)
<1>1. IInv => (Drifting => \E s \in Sessions : changed[s] /\ task[s] # "idle")
  BY DEF IInv, DriftAccounted, Drifting, ChangedIsPending
<1>2. IInv /\ [Next]_vars => [Forward]_vars
  <2> SUFFICES ASSUME IInv, Next, Drifting, Drifting', NEW s \in Sessions, changed[s]
               PROVE  /\ changed'[s]
                      /\ TasksLeft(s)' <= TasksLeft(s)
                      /\ RunTask(s) => TasksLeft(s)' < TasksLeft(s)
    OBVIOUS
  <2>1. TasksLeft(s) \in Nat
    BY DEF TasksLeft, IInv, TypeOK, Tasks
  <2>2. CASE RunTask(s)
    <3>1. changed'[s] /\ TasksLeft(s)' < TasksLeft(s)
      BY <2>2, OwnTask
    <3>2. TasksLeft(s)' \in Nat
      <4>1. task'[s] \in Tasks
        BY StepKeepsIInv DEF IInv, TypeOK
      <4> QED
        BY <4>1 DEF TasksLeft, Tasks
    <3> QED
      BY <2>1, <3>1, <3>2
  <2>3. CASE ~RunTask(s)
    <3>1. changed'[s] /\ task'[s] = task[s]
      BY <2>3, OthersTask
    <3>2. TasksLeft(s)' = TasksLeft(s)
      BY <3>1 DEF TasksLeft
    <3> QED
      BY <2>1, <2>3, <3>1, <3>2
  <2> QED
    BY <2>2, <2>3
<1> QED
  BY <1>1, <1>2, SpecIInv, PTL DEF Spec, DriftIsDealtWith
=============================================================================
