# A TLA+ model of infra-osdu-do

The repository installs and operates an OSDU data platform on a DigitalOcean
Kubernetes cluster: Ansible playbooks prepare the machines, Argo CD applies the
manifests under `k8s/`, and shell scripts under `scripts/` initialise and repair
what manifests cannot. There is no server of its own in it; the program is the
set of procedures, and what is hard about them is that they run against systems
that keep moving: controllers that reconcile, services that cache, machines
that reboot, operators that start a failed procedure again.

This directory models those procedures in TLA+, checks them with TLC and proves
the main results with TLAPS.

The repository also vendors the Ansible collection `community.general`. Three of
its modules are modelled as well, because they have a protocol or a state of
their own and the playbooks are written against them: `modprobe`,
`iptables_state` and `deploy_helper`.

## Inventory

| # | Part | State it keeps | Operations | Hard behaviour |
|---|---|---|---|---|
| 1 | HAProxy endpoint (playbooks 30 and 31, `haproxy.cfg.j2`) | `/etc/haproxy/haproxy.cfg`, the running process | copy/template, validate, restart, notified handler | failing tasks drop handlers; two playbooks own one file; concurrent sessions; reboots |
| 2 | RabbitMQ configuration (`rabbitmq-deploy.yaml`, Argo CD's `osdu-deps`, two fix scripts) | ConfigMap, ReplicaSets, pods and what their containers mounted | delete/create/apply, force delete, rollout, self-heal | the script races with self-heal, which gives up after a failed operation; `subPath` files do not follow updates; rollouts |
| 3 | Partition properties (six scripts, the Redis cache, the services) | properties, cached copy, the copies of each service's pods | POST, PATCH, FLUSHALL, rollout restart and status | silent HTTP failures; order of flush and restart; old pods that serve during a rollout; which script ran last |
| 4 | Postgres initdb hook (`postgres-initdb-job.yaml`) | databases, Job status, pods | wait, check, create, retry | overlapping pods of two syncs; backoff limit; outage in the loop |
| 5 | Node baseline and packages (playbooks 20 and 21) | files on the node, its running system | swap, modules (`modprobe`), sysctl, containerd, apt, hold, kubelet | disk against live state, reboots, torn files, upgrades |
| 6 | GitOps (`k8s/gitops`, `k8s/argocd`) | git's version, Applications, their policy, live objects, operations | sync, self-heal, prune, waves, failing operations | two levels of reconciliation; an unautomated tree; no retry |
| 7 | SSH hardening (playbooks 10 and 11) | sshd drop-in, running sshd | write, test, reload, try a new session, roll back | the file stays after a failed test; the reload comes before the new session |
| 8 | OpenSearch index bootstrap | indices, aliases | create if missing | script and Job overlap |
| 9 | Entitlements bootstrap (scripts 02, 03, step 20) | members, groups, memberships | INSERT ... ON CONFLICT, UPDATE, flush | partial failure between commands |
| 10 | Record flow and its two end-to-end tests | records in Storage, the indexer's queue, indices, documents; each test run's counters | put, publish, index, search, delete, confirm | asynchronous unordered indexing without retries; a broker that forgets the queue; runs that overlap; lost answers |
| 11 | `iptables_state` (action plugin and module) | rules in force, source file, backup ("cookie"), starter file | save, test, load, confirm, roll back | two sides without a common clock; fixed paths; a network that the change itself may cut |
| 12 | `deploy_helper` | release folders, unfinished markers, `current`, a temporary link | present, finalize, clean, absent | sessions that overlap or die between two system calls; which folder is old |

They interact as follows. The playbooks (1, 5, 7) run from ToolServer01 over SSH;
5 and 7 share the node they run on, and what 7 does to sshd decides whether 5
gets in. The modules 11 and 12 have no caller in the playbooks of this commit. Argo CD (6) applies parts 2 and 4 from git
and undoes what scripts change behind its back. Part 4 creates the databases the
services of part 3 read; part 3's scripts go through the Partition API and end
in Redis and in the memory of the services. Part 2's broker carries the events
of part 10.

What makes each part correct: (1) the running proxy is the file on disk or a
failed run says so, and a success survives a reboot; (2) a fix leaves no broker
on the old configuration, and a broker comes back as long as somebody applies
the ConfigMap; (3) after a flush and a restart nobody works with old properties; (4) a sync reported as done has all
its databases; (5) a node reported as ready is ready, now and after a reboot,
and a failed run can be repeated; (6) the live state converges to git; (7) an
operator is never locked out; (8)-(10) repeated bootstraps converge, and a
stored record becomes searchable; (11) a mistake in the rules costs nobody the
access to the host; (12) what is served is never missing, and never cleaned up.

`PROJECT.json` lists the components, with those that are not modelled, and the
hazards of the code, each at its line and with the properties that cover it.

## Modules

| Module | Models | State ↔ code |
|---|---|---|
| `LoadBalancer` | part 1 | `disk`/`proc` are the file and the process; `task[s]` is the task a session is at; `changed[s]` is Ansible's notified handler (and playbook 30's unconditional restart); `recap` is the PLAY RECAP |
| `BrokerConfig` | part 2 | `cm` is the ConfigMap, `git` the committed one, `givenUp` an Argo CD that leaves `osdu-deps` alone; `gen`, `rs`, `phase` and `cfg` are the Deployment's revisions, their scale, their pod and what its container mounted; `at` is the script's command |
| `PartitionSeed` | part 3 | `props` the stored properties, `cache` Redis, `mem[s]` the copy of a service's newest pod, `old[s]` that of the pod a rollout has yet to replace; `Program` lists each script's commands |
| `InitDb`, `EnsureDatabases` | part 4, its promise | `created` the databases; `job`, `owner`, `failures` the Job controller; `pc`, `at` the loop of each pod |
| `NodeBaseline` | parts 5 and 7 | `disk` the files, `live` the running system, `Play10`, `Play11`, `Play20`, `Play21` the task lists, `at` the task; `sshText` is what the repository has playbook 10 write |
| `RecordFlow` | parts 10 and 8 | `store`, `queue`, `index` are Storage, the indexer's queue and OpenSearch; `declared` and `indices` are what somebody made in advance; `at[s]` is the section of the script a run is in, `failed` and `warned` its counters, `created` whether it was told an id |
| `GitopsSync` | part 6 | `text`, `listed`, `policy` are git: each workload's version, the manifests in the roots' directories, who is automated; `apps`, `auto`, `live` the cluster; `op[a]` an operation with the revision it was started on; `stuck` the Applications whose operation failed |
| `IptablesState` | part 11 | `rules`, `file`, `cookie`, `starter` the host; `ctl[p]` the action plugin's place, `job[p]` the module's; `check`, `scope` the task's options |
| `DeployHelper` | part 12 | `built`, `unfinished`, `newer` the folders, their markers and times; `link`, `tmp` the two links; `at[s]` the next system call of a session, `todo` and `victim` what its cleanup has listed and chosen |

Each module has an `MC...` module and one `.cfg` per run; `...Proofs` modules
hold the theorems. The definitions whose comment starts with "Fault:" are
plausible mistakes in the code they stand next to (a handler forgotten, a check
dropped, two commands swapped). No specification uses them: each one, put in
place of the definition after it, breaks one property, which shows that the
property depends on the code.

The parts share little state. `RecordFlow` has the replacement of part 2's broker
as one step of its own, which any rollout, forced deletion or crash of
`BrokerConfig` may cause; composing the two is planned. Parts 5 and 7 do share
state, so they are one module: any of the four playbooks may follow any other on
the same node. `InitDb` instantiates `EnsureDatabases` as the specification it
implements.

### What the code does not contain

Ansible, Argo CD, the Kubernetes controllers, systemd, Redis and the Partition
service are not in the repository. They are modelled from how the code uses
them, and marked external in the map:

- Ansible stops at the first failing task of a host and drops the handlers that
  were notified (`ansible.cfg` does not set `force_handlers`).
- Ansible keeps its SSH connection open (ControlPersist): the first task of a run
  needs a new connection, the others use it again.
- Argo CD's self-heal applies the committed ConfigMap when it differs, unless the
  last operation of `osdu-deps` failed (its initdb hook is one cause) and there
  was no commit or manual sync since. `SelfHeal`, `SyncFails` and `ManualSync` of
  `BrokerConfig` are what `GitopsSync` says of one Application, with `givenUp`
  for its `stuck`.
- An operation of Argo CD works on the revision it was started with, wave by
  wave, and prunes last. After one that failed it leaves the Application alone,
  self-heal included, until the next commit or the button, because no
  Application here has a retry policy. It does not prune everything an
  Application has (`allowEmpty` is not set). It does not assess the health of an
  Application (`argocd-cm` has no customization for it), so that a wave of child
  Applications does not wait for the one before. Deleting an Application without
  the finalizer leaves its resources.
- A Deployment with one replica and the default strategy keeps the old pod until
  the new one is ready. A restarted container mounts the ConfigMap again, and
  may still get the kubelet's previous copy.
- A service reads its partition when it starts, through Redis, in one step.
- A Job counts only the exits of its own pods; a pod of the previous Job may
  still be running when the next one starts.
- Storage publishes an event for each upsert and delete, and an exchange to
  which no queue is bound drops it. The indexer acknowledges an event when it is
  done with it, takes events in any order (it has ten consumers), fetches the
  record from Storage, and cannot create an index that OpenSearch accepts.
- sshd that is reloaded with a configuration it refuses is gone; `sshd -t`
  accepts exactly the configurations it starts with.
- `iptables-restore` replaces each table its input mentions, one after the
  other, and leaves the others alone; `--test` changes nothing. The async
  wrapper kills a job at its own time limit, and a rule that refuses the
  controller breaks new connections and no open one. `rename`, `symlink`,
  `mkdir` and `unlink` are atomic; removing a tree is not.

## Runs

Bounds are chosen so that every interesting interleaving fits: every actor that
can be concurrent is there at least twice, or once next to the one it races
with.

| Run | Bound | Shows |
|---|---|---|
| `lb_sessions` | two sessions, four texts (distribution, playbook 30, playbook 31, a broken one) | `DriftAccounted`, `ValidatedRestart`, `SuccessSurvivesReboot`, and under fairness `DriftEnds` |
| `broker` | two revisions, two script runs, four texts, one not bootable; commits and failing operations without a bound | `NoStaleAfterFix`, `RolloutKeepsBroker`, and under fairness `BrokerReturns` |
| `broker_selfheal` | two revisions, one run | `DefinitionsLoaded` is violated (finding) |
| `partition_cache` | six scripts without a bound on runs, one restarted service with an old and a new pod | `CacheInStep`, `ReadersInStep` |
| `initdb` | three databases, two pods, backoff limit 3, three syncs | `CollisionsPaid`, that `InitDb` implements `EnsureDatabases`, and under fairness `JobEnds` |
| `node` | four playbooks, at most three faults (tasks that fail by themselves, reboots, commits) | `SuccessIsDurable`, `LockoutIsReported`, `PackagesStay`, and under fairness `RerunRepairs` |
| `node_driver` | the same | `SystemdDriver` is violated (finding) |
| `recordflow` | two test runs, three seconds, one record per search result | `RecordKept`, `GreenLeavesNothing`, `PassMeansOwn`, and under fairness `Searchable` |
| `recordflow_verdict` | the same | `VerdictMeansIndexed` is violated (finding) |
| `iptables` | two plays, two tables, two contents, two source texts, tasks about both tables or one | `AccessKept`, `BackupKept`, `RollbackRestores`, and under fairness `LockoutEnds` |
| `deploy` | two sessions, three releases, one to keep, symmetric | `OutcomeIsTrue` (a success and a failure mean what they say: `SuccessIsCurrent`, `RetrySucceeds`), `LinkStays`, `DeployKeepsServing`, `OnlyOldOnesGo`, `ReservedStays` |
| `gitops` | the automated root with a child of each wave, the other root with one child, the Application without a root; two acts of people or failures | `ResourcesStay`, and under fairness `Converges` |

Every passing run checks its module's `TypeOK` too.

Why the bounds are enough: a stale file, pod or copy needs one writer and one
reader between two commands; the sessions, revisions and pods beyond the
second only repeat the roles of the first two. (In `partition_cache` the two
readers are the old and the new pod of one service: what another service holds
is read by no step, and it fills the cache as they do.) Three databases let a pod meet
one that exists, one it creates and one that is created under its feet. Three
faults let a run be cut, the rerun be cut, and the node reboot. Two test runs in
three seconds take the same second or two different ones, next to each other or
one after the other, with every pair of scripts; the last second is only for
waiting. In `iptables` one play is the one under observation and the other an
overlapping or earlier one, which leaves a cookie, a starter or a loaded table
behind; one source text cuts the host off and the other does not mention a
table, so that backups with and without a table occur. In `deploy` three
releases are the served one, the one being deployed and the one that is old
enough to go when one is kept. In `gitops` two acts let one thing be broken and
another change, or the same be undone, in the middle of any operation, at both
levels. The theorems below hold without any of these bounds.

`deploy` identifies states that differ only in the names of sessions and
releases. That is sound: the module compares neither with a fixed one, and
checks no liveness.

Deadlock is checked except in `gitops`, where the system does stop: when
the acts are used up and nothing differs from git. Elsewhere an operator can
always start another run. In `BrokerConfig`, where
runs are bounded, commits never stop; in `RecordFlow`, where the runs end, an
operator can always make an index again.

### Fairness

- `LoadBalancer`: a started session goes on (`WF` of its next task). Starting
  one, rebooting and committing are nobody's obligation.
- `BrokerConfig`: Argo CD and the Kubernetes controllers reconcile in a loop
  (`WF` of self-heal, of each pod's steps and of the scale-down), and a script
  goes on or aborts; its commands have timeouts. Self-heal is obliged to nothing
  while Argo CD has given up, and nobody has to commit, to press the button or to
  let an operation succeed: `BrokerReturns` exempts the state in which Argo CD
  has given up and the ConfigMap is missing or does not boot, in which the
  broker really stays away.
- `InitDb`: pods run, Postgres comes back (`WF`), and a pod that waits for it
  sees it up eventually (`SF`: `pg_isready` is repeated every two seconds).
- `NodeBaseline`: Ansible goes on with a run (`WF`), and the operator starts
  each playbook again and again (`SF`: either one is only possible while the
  other is not running). Nobody is obliged to run playbooks 10 and 11. Faults are
  bounded by `MaxFaults`, which is the usual assumption that they stop at some
  time.
- `RecordFlow`: the indexer's consumers go on consuming (`WF`). Nothing obliges
  anybody to declare the queue or make an index; `Searchable` does not assume it.

- `IptablesState`: a process on the host that is not killed goes on (`WF` of each
  job's next step). Nothing is assumed of the controller or of the network: the
  rollback exists for the case that they never come back.
- `GitopsSync`: the application controller goes on as long as there is something
  to do, in any order (one `WF` for all its steps together). Nobody has to press
  a button; `MaxActs` is the assumption that people stop at some time.

`PartitionSeed` has no liveness property: its scripts run once, by hand.
`DeployHelper` has none either: a session may die anywhere, and nobody has to
start another.

## Findings

Each is a run whose one property quotes what the repository says of itself, and
fails.

1. `broker_selfheal`: `fix-rabbitmq-definitions.sh` reaches DONE with a broker
   on the committed definitions, because Argo CD has put them back before the
   new container mounted them; the listings are printed and compared with
   nothing.
2. `node_driver`: a `config.toml` cut short passes `test -f` on the next run. If
   what is left parses (it is empty, or ends before the driver's line), it leaves
   containerd on the wrong cgroup driver, with a recap that is ok. If it was cut
   within a line, every rerun fails at the restart of containerd: `RerunRepairs`
   has that as an exception.
3. `recordflow_verdict`: `osdu-e2e-test.sh` passes its search on any record of
   the kind and only warns when its own is missing, so it prints "ALL CRITICAL
   TESTS PASSED!" while nothing it stores is indexed any more.

Seen while modelling, without a run, because one reading of the code shows them:

- Playbook 30, run after 31, removes the 80/443 frontends, and both recaps are
  ok; `docs/19-appserver01-lb.md` describes one endpoint for all three ports.
- `05-fix-domain-mismatch.sh` prints "Done! Domain mismatch fixed." after a PATCH
  that failed: `curl -s` reports no HTTP error. It restarts five services and
  waits for the rollout of two: old pods of the other three may serve the old
  domain when it says so.
- A failed operation of `osdu-deps`, as by its initdb hook, and a script that died
  after it deleted the ConfigMap leave no broker until somebody commits or
  syncs: `BrokerReturns` has that as its exception.
- `seed-partition-osdu.sh` stores the broker's password as a sensitive property,
  which by the documentation is the name of an environment variable.
- `opensearch-init-job.yaml` carries Argo CD's hook annotation but is in no
  kustomization, so no sync ever applies it. The model lets somebody apply it.
- `02-test-scenarios.sh` ends in "ALL TESTS PASSED!" when the end-to-end test
  was skipped; only FAIL is looked at. `GiveUp` has that path.
- Suite 2.1 of that script assigns the groups it found to `GROUPS`, a variable
  bash keeps for itself, and so tests the user's own group id.
- `docs/23-App-of-Apps.md:89` and `:168` tell of self-heal for the observability
  tree, whose root and children have no automated sync.
- The only Application with a finalizer, `opensearch-proxy`, is in no root's
  directory: deleting it removes the proxy, and nothing brings it back.
- Playbook 11 leaves out the host group `tool` that playbook 10 hardens, and is
  never started by playbook 10: the rollback needs the connection that a bad
  drop-in takes away.
- `iptables_state`: the module saves the new rules between loading and watching
  them, with `check_rc` (`:574`); a save that fails ends the job with the rules in
  force and the cookie on the host, and nothing restores the previous ones. The
  same goes for a restore that loaded its rules after it had to wait for the
  xtables lock, of which the message alone counts (`:561`). `AccessKept` and
  `LockoutEnds` exempt a job that ended there (the mishap "unwatched");
  `BackupKept` does not: the rules that let the controller in are still in the
  cookie. The return code of the restore counts only when the lock is
  held, so rules that fail half way are reported as applied; the action plugin's
  warning for a task without async and its error for a poll that is not zero have
  each other's text (`:115`-`:119`); a check run still loads tables that were not
  loaded.
- `deploy_helper`: a plain `state=clean` reserves the release of the task, not
  the one `current` points to, and may remove what is served (what is kept in
  every case is `ReservedStays`: no cleanup removes the release of its own task);
  `remove_unfinished_link` looks for a name that `create_link` never makes; a
  build whose removal was cut short after its marker was gone counts as a
  finished release.

## Proofs

| Theorem | States | Argument |
|---|---|---|
| `LoadBalancerTypes`, `DriftIsAccounted` | `TypeOK`, `DriftAccounted`, any sessions and texts | `IInv` adds that a session's task belongs to its playbook, that a pending change is a session before its restart, and that the package is installed by then. Without the second a run could end with the change flag up, and drift would no longer be accounted for |
| `Playbook30IsSafe`, `SuccessIsDurable` | `ValidatedRestart`, `SuccessSurvivesReboot`, among any sessions, for a run that has been the only one | `SoleInv` adds `NobodyElse` (next to a run that `alone` marks, nobody else has one), `ValidBeforeRestart` (between validation and restart the file is valid) and `UpAfterStart` (haproxy is up once started). Without `alone` neither is true: another session may write in between |
| `BrokerConfigTypes`, `FixLeavesNoStaleBroker`, `RolloutsKeepABroker` | `TypeOK`, `NoStaleAfterFix`, `RolloutKeepsBroker` | `IInv` says which containers may still be stale at each command of a script: all before the deletion, none after it, and in between a rollout only revisions older than the script's own. For the last one, every step but the two exceptions leaves one particular broker ready: the one that was, or the current revision's |
| `PartitionTypes`, `FlushLeavesNoStaleCopy`, `RestartLeavesNoStaleReader` | `TypeOK`, `CacheInStep`, `ReadersInStep`, any services | `FlushedBeforeRestart`: a clean run of script 05 that has reached the restart has the cache in step, so a restarting service cannot read the old copy, and one that has reached the wait has the new pods in step; the wait, if it ends well, adds that the old pods are gone |
| `InitDbTypes`, `CollisionsArePaid`, `InitDbKeepsPromise` | `TypeOK`, `CollisionsPaid`, the refinement of `EnsureDatabases` | `LoopBehind`: every database before a pod's index exists; `CollidedOnce`: each collision of this Job is on another database, and failures are collisions unless something else failed |
| `RecordFlowTypes`, `RecordsAreKept`, `GreenRunLeavesNothing`, `PassIsAboutOwnRecord` | `TypeOK`, `RecordKept`, `GreenLeavesNothing`, `PassMeansOwn`, any number of overlapping runs | `Untold` and `NoIdIsFailure`: a run knows its record exactly from its own put, and counts a FAIL otherwise, so a clean cleanup had an id to delete; `ScenarioRecords`: every document of the scenarios is a stored record that one run put, so the marker leads back to it. `OwnRecord` separates the records of different runs |
| `NodeTypes`, `RecapIsDurable`, `LockoutIsNoticed`, `PackagesAreHeld` | `TypeOK`, `SuccessIsDurable`, `LockoutIsReported`, `PackagesStay`, for any number of faults | `Run20`, `Run21`, `RunSsh` say what each playbook has reached before each of its tasks, on disk and live; `Done20`, `Done21`, `DoneSsh` what a recap stands for; `Grows`, `KubeletStays` and `SshSame` are what no step of anybody else takes back. A recap alone is not inductive: a reboot brings back what is on disk, which `SuccessIsDurable` only mentions through `Booted` |
| `IptablesStateProofs!TypeCorrect`, `AccessIsKept`, `BackupIsKept`, `RollbackIsComplete` | `TypeOK`, `AccessKept`, `BackupKept`, `RollbackRestores`, any plays, tables, contents and source texts | `Alone`: nobody else acts while `sole` does; `SavedOK`: what was saved cuts nobody off; `UntouchedOK`: until the restore the backup is what is in force, and a table it does not mention is not in the source either; `CookieOK`: a cookie is that backup; `WatchOK`: so a table the backup does not mention was not loaded by the restore, and the rollback is complete |
| `DeployHelperProofs!TypeCorrect`, `LinkAlwaysStays`, `DeployAlwaysServes` | `TypeOK`, `LinkStays`, `DeployKeepsServing`, any sessions and releases | `LinkStays` is a property of every step: `current` is only ever renamed over. For the other, and for `OutcomeIsAlwaysTrue`, `DeployOK` says what each look at the file system has established for the step after it, and `EndOK` what a finalize has reached when it ends |
| `OutcomeIsAlwaysTrue`, `OldReleasesGo` | `OutcomeIsTrue`, `OnlyOldOnesGo`, any sessions, releases and number to keep | `OrderOK`: the order in which the releases were made is a strict one on those that are there. `CleanOK`: while a session with the project to itself cleans up, what it has still to remove are the releases behind the newest ones it keeps, and its own is not among them. The cleanup cuts a sorted list, so both rest on a fact about that list: the index of a release, the number of newer ones, is an injection of n releases into n numbers, hence a bijection (`IndexIsBijective`), so that behind the first k there are exactly the others, and each of those has k newer ones (`SliceLeavesFew`, `SliceHasOlder`) |
| `ReservedAlwaysStays` | `ReservedStays`, any sessions that overlap or die | `ReserveOK`: what a cleanup has still to remove never holds the release of its task. It speaks of the list, because the folders are removed one by one after it was made, while other sessions switch the link |
| `GitopsTypes`, `ResourcesAlwaysStay` | `TypeOK`, `ResourcesStay` of `GitopsSync`, any trees, waves, policies and number of acts | `TypeOK` is inductive with `VersionsOK`, which keeps the versions within the commits that are counted. No resources go because no operation of a workload carries an empty text (a part of `TypeOK`) and no child has the finalizer: `ResourcesAlwaysStay` has that as its hypothesis, and in the repository only `osdu-opensearch-proxy`, which is nobody's child, has one. The two stand in `BrokerConfigProofs`, over an instance `Argo` of `GitopsSync`, because the model of the broker relies on them: it has no step in which Argo CD removes the ConfigMap or the Deployment of `osdu-deps` |

Some theorems say more than a run does. The first seven rows are the safety
part of a liveness property: a bounded number of steps that only go forward, so
that only the fairness of those steps is left to TLC. The last two delimit a
finding:

| Theorem | States | Argument |
|---|---|---|
| `JobAdvances` (for `JobEnds`) | an active hook Job has finitely many positions and failures; each of its own steps moves it on or is one more failure, and nobody else's step takes it back | the position in the loop is a variant within one pod, the failures across pods |
| `LockoutHasItsRollback`, `LockoutIsShort` (for `LockoutEnds`) | during a lockout without mishaps (a job that ended before its watch is one) the job is at its last looks or its rollback with a backup that lets the controller in, and each of its steps ends the lockout, begins the rollback or is a mishap | from `AccessKept`, `BackupKept` and `RollbackRestores` together: they leave no other place for the job |
| `RerunsAreNotRefused` (for `RerunRepairs`) | playbooks 20 and 21 are refused no task, whatever is left behind, except by a torn key, a `config.toml` that was cut within a line, or a node that lets nobody in | `KeyFirst`: a repository is only ever set up after its key; the rest is `Run20` |
| `RecordsStayOnTheirWay` (for `Searchable`) | a record that stays in Storage stays searchable, or its event stays in the queue to be served, unless the broker's pod is replaced | `DeletesAreOver`: an event about a deletion names the record of a run that has deleted it, and no run puts its record twice |
| `DriftGetsDealtWith` (for `DriftEnds`) | while the running haproxy is not the file, and no run that died is to blame, a run that changed the file is under way; it has at most nine tasks left, each of its steps leaves fewer, and no other session takes its change or its place away before the drift is over | `ChangedIsPending`: a change is held by a run before its restart; `TaskOfPlay`: the task after it is one of its own playbook |
| `BrokerIsOnItsWay` (for `BrokerReturns`) | while no broker is ready, each step uses up one of the finitely many disturbances (commands of scripts, rollouts), or puts the text of git back (self-heal, an operation that fails later, the button), or is a commit or an operation that fails before it applies anything, or brings one pod nearer to being ready and no other away from it; with a text in git that boots, self-heal or the current pod can always go on, unless Argo CD has given up and the ConfigMap is missing or does not boot | `PodLeft` counts a container with a text it cannot load as further away while there is another text to try; `Disturbances` pays a run for all its commands in advance |
| `ArgoWindsDown` (for `Converges`) | between two acts of people or failures each step of Argo CD, and of the button, brings one Application nearer to git, by a bounded number of steps, and sets back nobody but the children of that root; when nothing is left to do, the cluster is what git says | `StepsLeft` counts what is left of an operation that is under way and what is to be done after it; a root comes before its children in the order, since its operation may make them, take their automation away or remove them |
| `DriverIsSystemd` (about `node_driver`) | a successful recap of playbook 20 stands for the systemd driver, now and after a reboot, unless `config.toml` was cut short and still parses | `Driver20`: what each task leaves of the file, and that no step brings it back |
| `CleanVerdictIsAboutOwn` (about `recordflow_verdict`) | a run of `osdu-e2e-test.sh` that gets past its search without FAIL and WARN, the only one of its second, has its own record stored and indexed | `WellRecords`: every record of that kind was put by a run, whose second it carries |

The assumptions are those named in the modules: the contents, texts and orders
are distinct and typed as declared, the bounds are naturals (the number of
rollouts, the clock's last second and the releases to keep not zero), a freshly
loaded table bars nobody, a task is about all tables or about one.

Only model-checked:

- that the liveness properties (`DriftEnds`, `BrokerReturns`, `JobEnds`,
  `RerunRepairs`, `Searchable`, `LockoutEnds`, `Converges`) follow from their
  safety parts and the fairness stated above: fairness and ENABLED are out of the
  prover's reach. The safety invariants and action properties of the passing runs
  all have a theorem.

## Simplifications

- One operator runs the scripts of parts 2, 3 and 5, so two scripts do not
  interleave with each other; they interleave with everything else.
- Filling a cache from the properties is one step. A service that reads the
  properties before a PATCH and stores them in Redis after the flush would break
  `CacheInStep`; the code that decides this is not in the repository.
- Evidence tasks that only write to ToolServer01 are steps of `LoadBalancer`,
  because they can fail and drop a handler, and are left out of `NodeBaseline`,
  where they come last or change nothing that follows.
- The kubelet may hand an old copy of the ConfigMap only to a restarting
  container, not to a new pod.
- The indexer's fetch from Storage and its write to OpenSearch are one step: a
  record deleted between the two would come back as a document. That code is in
  an image. An index is searchable as soon as it is written.
- The checks of `osdu-e2e-test.sh` before its record, and the other suites of
  `02-test-scenarios.sh`, only count: they are one step of a run. The legal tag
  of E2E.1 matters only to whether Storage accepts the record.
- `iptables_state`: tasks without async, which have no rollback, and what the
  plugin reports are left out. A table's content is one value; what matters is
  whether it lets the controller in.
- `deploy_helper`: a folder has the time at which it was made, marked or
  unmarked, although its own tasks may touch it later. Check mode changes
  nothing and is left out.
- `gitops`: the resources of an Application are one unit with one version. A
  manual sync prunes, as the documentation's command does. What the AppProject
  forbids and the health of resources are left out.
- `partition_cache`: a rollout that overlaps with another one of the same service
  keeps the oldest pod. A restarted pod reads the partition when it likes.
- `broker`: an operation of Argo CD is one step, which applies the ConfigMap or
  fails before or after it did.
- `node`: a `config.toml` that was cut short is one of two, one that parses
  without the driver's line and one that does not parse. An sshd text is one of
  three kinds, good, locking out or refused. The
  user ops and its keys, which `bootstrap-ops.yml` makes, are there from the
  beginning.
- A search of the scenarios that fails with a text that repeats the query is not
  modelled; a PUT that is refused with a text that names the record is
  (`PutMisread`).

## Plan

What is left, in the order of what it would add:

1. `Entitlements`: the tables of scripts 02, 03 and step 20, with partial
   failures; reruns converge.
2. `RecordFlow`: a composition with `BrokerConfig`, so that the loss of the queue
   follows from a rollout or a forced deletion instead of being a step of its
   own; the remaining suites of the scenarios as far as they leave state behind.
3. `iptables_state` with `state=saved`, and what the action plugin reports.

## Not modelled

By far most of the code in the repository is vendored: of some 254000 lines of
programs, nearly all are `community.general`, whose modules are clients of other
vendors' services (Redfish, Keycloak, NetworkManager, clouds, hypervisors). What
they do is one request after another against state that is not here, and no
model of such a client could be wrong in an interesting way. The three that are
modelled were chosen because they have a state machine of their own. The rest of
the repository's program, the part that is its own, is YAML and shell, and most of
that is in the modules above.

- The vendored charts and manifests of the add-ons (Argo CD, cert-manager, Rook,
  Prometheus, Loki) are third-party code.
- Service Deployments are declarative objects whose behaviour is in images that
  are not here.
- `00-collect-baseline.yml` and the `artifacts/` directory only record evidence;
  the kubeadm staging writes one file per host.
- The Kafka and S3 helpers are one-shot commands on external state; the Airflow
  DAG has one task that prints.
- The entitlements bootstrap is planned, see above.
