---------------------------- MODULE LoadBalancer ----------------------------
(***************************************************************************)
(* The HAProxy endpoint on AppServer01 and the two Ansible playbooks that  *)
(* own the same file, /etc/haproxy/haproxy.cfg:                            *)
(*                                                                         *)
(*   "p30"  ansible/playbooks/30-apiserver-lb.yml: inline configuration    *)
(*          with the 6443 frontend only, validated, always restarted;      *)
(*   "p31"  ansible/playbooks/31-appserver01-lb-haproxy.yml: the merged    *)
(*          80/443/6443 template, restarted by a handler that is notified  *)
(*          only when the file changed, never validated.                   *)
(*                                                                         *)
(* A session is one ansible-playbook process on ToolServer01; nothing      *)
(* locks sessions out of each other.  Every task of a run may fail, which  *)
(* ends the run for the host and drops its pending handlers                *)
(* (ansible.cfg sets no force_handlers).                                   *)
(***************************************************************************)
EXTENDS FiniteSets

CONSTANTS
    Sessions,   \* ansible-playbook processes
    Contents,   \* the texts haproxy.cfg can hold
    Valid,      \* the contents `haproxy -c` accepts
    Distro,     \* the file the Debian package ships
    ApiOnly,    \* what playbook 30 writes at this commit
    Merged,     \* what haproxy.cfg.j2 renders to at this commit
    NoFile,     \* haproxy is not installed yet
    Down        \* no haproxy process

Playbooks == {"p30", "p31"}

ASSUME ContentsAssumption ==
    /\ Valid \subseteq Contents
    /\ {Distro, ApiOnly, Merged} \subseteq Valid
    /\ NoFile \notin Contents
    /\ Down \notin Contents

VARIABLES
    repo,     \* the content each playbook would write, as committed
    disk,     \* /etc/haproxy/haproxy.cfg
    proc,     \* the content the running haproxy was started with, or Down
    play,     \* the playbook a session runs
    task,     \* the task a session is at, or "idle"
    changed,  \* this run changed the file and has not restarted haproxy since
    recap,    \* the last PLAY RECAP of each playbook
    stale,    \* history: a run died after changing the file and before the
              \* restart that was due, and haproxy has not loaded the file since
    alone     \* history: no other session has been running during this run

vars == <<repo, disk, proc, play, task, changed, recap, stale, alone>>
host == <<disk, proc>>

Tasks == {"idle", "dir", "install", "write", "validate", "restart", "start",
          "evidence", "status", "save", "handler"}

TypeOK ==
    /\ repo \in [Playbooks -> Contents]
    /\ disk \in Contents \cup {NoFile}
    /\ proc \in Valid \cup {Down}
    /\ play \in [Sessions -> Playbooks]
    /\ task \in [Sessions -> Tasks]
    /\ changed \in [Sessions -> BOOLEAN]
    /\ recap \in [Playbooks -> {"never", "ok", "failed"}]
    /\ stale \in BOOLEAN
    /\ alone \in [Sessions -> BOOLEAN]

Init ==
    /\ repo = [p \in Playbooks |-> IF p = "p30" THEN ApiOnly ELSE Merged]
    /\ disk = NoFile
    /\ proc = Down
    /\ play = [s \in Sessions |-> "p30"]
    /\ task = [s \in Sessions |-> "idle"]
    /\ changed = [s \in Sessions |-> FALSE]
    /\ recap = [p \in Playbooks |-> "never"]
    /\ stale = FALSE
    /\ alone = [s \in Sessions |-> TRUE]

-----------------------------------------------------------------------------
(* The task lists, in file order. Runs of evidence tasks between two        *)
(* state-changing tasks are one task here.                                  *)

Then30 == [dir |-> "install", install |-> "write", write |-> "validate",
           validate |-> "restart", restart |-> "status", status |-> "save",
           save |-> "idle"]

Then31 == [dir |-> "install", install |-> "write", write |-> "start",
           start |-> "evidence", evidence |-> "status", status |-> "save",
           save |-> "idle", handler |-> "idle"]

\* Fault: the handler of playbook 31 is forgotten.
FollowingNoHandler(s) == IF play[s] = "p30" THEN Then30[task[s]] ELSE Then31[task[s]]

\* Handlers run after the last task, and only those that were notified.
Following(s) ==
    IF play[s] = "p30" THEN Then30[task[s]]
    ELSE IF task[s] = "save" /\ changed[s] THEN "handler"
    ELSE Then31[task[s]]

Proceed(s) ==
    /\ task' = [task EXCEPT ![s] = Following(s)]
    /\ recap' = IF Following(s) = "idle"
                THEN [recap EXCEPT ![play[s]] = "ok"] ELSE recap

\* The host is dropped from the play: later tasks and handlers do not run.
Abort(s) ==
    /\ task' = [task EXCEPT ![s] = "idle"]
    /\ recap' = [recap EXCEPT ![play[s]] = "failed"]
    /\ changed' = [changed EXCEPT ![s] = FALSE]
    /\ stale' = (stale \/ (changed[s] /\ proc # disk))

Launch(s, p) ==
    /\ task[s] = "idle"
    /\ task' = [task EXCEPT ![s] = "dir"]
    /\ play' = [play EXCEPT ![s] = p]
    /\ alone' = [t \in Sessions |-> \/ t # s /\ task[t] = "idle"
                                   \/ \A r \in Sessions \ {s} : task[r] = "idle"]
    /\ UNCHANGED <<repo, disk, proc, changed, recap, stale>>

\* Tasks that only read the host or write evidence on ToolServer01.
Evidence(s) ==
    /\ task[s] \in {"dir", "evidence", "save"}
    /\ Proceed(s)
    /\ UNCHANGED <<repo, disk, proc, play, changed, stale>>

\* apt: the Debian package brings its own file and starts the service.
Install(s) ==
    /\ task[s] = "install"
    /\ disk' = IF disk = NoFile THEN Distro ELSE disk
    /\ proc' = IF disk = NoFile THEN Distro ELSE proc
    /\ Proceed(s)
    /\ UNCHANGED <<repo, play, changed, stale>>

\* Fault: the write does not report its change, so nothing is notified.
WriteConfigSilent(s) ==
    /\ task[s] = "write"
    /\ disk' = repo[play[s]]
    /\ Proceed(s)
    /\ UNCHANGED <<repo, proc, play, changed, stale>>

\* copy (playbook 30) and template (playbook 31): report a change, and for
\* playbook 31 notify the handler, only when the text differs.
WriteConfig(s) ==
    /\ task[s] = "write"
    /\ disk' = repo[play[s]]
    /\ changed' = [changed EXCEPT ![s] = disk # repo[play[s]]]
    /\ Proceed(s)
    /\ UNCHANGED <<repo, proc, play, stale>>

\* Fault: playbook 30 without its validation task.
ValidateNothing(s) ==
    /\ task[s] = "validate"
    /\ Proceed(s)
    /\ UNCHANGED <<repo, disk, proc, play, changed, stale>>

\* Playbook 30 only: haproxy -c -f /etc/haproxy/haproxy.cfg.
Validate(s) ==
    /\ task[s] = "validate"
    /\ disk \in Valid
    /\ Proceed(s)
    /\ UNCHANGED <<repo, disk, proc, play, changed, stale>>

ValidateFails(s) ==
    /\ task[s] = "validate"
    /\ disk \notin Valid
    /\ Abort(s)
    /\ UNCHANGED <<repo, disk, proc, play>>

\* state: started does nothing to a running service.
Start(s) ==
    /\ task[s] = "start"
    /\ proc # Down \/ disk \in Valid
    /\ proc' = IF proc = Down THEN disk ELSE proc
    /\ stale' = (stale /\ proc # Down)
    /\ Proceed(s)
    /\ UNCHANGED <<repo, disk, play, changed>>

StartFails(s) ==
    /\ task[s] = "start"
    /\ proc = Down
    /\ disk \notin Valid
    /\ Abort(s)
    /\ UNCHANGED <<repo, disk, proc, play>>

\* Fault: the restart is taken to succeed on any file.
RestartUnchecked(s) ==
    /\ task[s] \in {"restart", "handler"}
    /\ proc' = disk
    /\ stale' = FALSE
    /\ changed' = [changed EXCEPT ![s] = FALSE]
    /\ Proceed(s)
    /\ UNCHANGED <<repo, disk, play>>

\* state: restarted, a task of playbook 30 and the handler of playbook 31.
Restart(s) ==
    /\ task[s] \in {"restart", "handler"}
    /\ disk \in Valid
    /\ proc' = disk
    /\ stale' = FALSE
    /\ changed' = [changed EXCEPT ![s] = FALSE]
    /\ Proceed(s)
    /\ UNCHANGED <<repo, disk, play>>

\* Fault: a failing restart is ignored (ignore_errors) and the run goes on.
RestartFailsIgnored(s) ==
    /\ task[s] \in {"restart", "handler"}
    /\ disk \notin Valid
    /\ proc' = Down
    /\ changed' = [changed EXCEPT ![s] = FALSE]
    /\ Proceed(s)
    /\ UNCHANGED <<repo, disk, play, stale>>

\* The old process is stopped before the new one refuses the file.
RestartFails(s) ==
    /\ task[s] \in {"restart", "handler"}
    /\ disk \notin Valid
    /\ proc' = Down
    /\ Abort(s)
    /\ UNCHANGED <<repo, disk, play>>

\* systemctl is-active, and in playbook 30 also haproxy -c under set -e.
StatusOk(s) == proc # Down /\ (play[s] = "p31" \/ disk \in Valid)

Status(s) ==
    /\ task[s] = "status"
    /\ StatusOk(s)
    /\ Proceed(s)
    /\ UNCHANGED <<repo, disk, proc, play, changed, stale>>

\* Any task may fail for reasons outside the host's configuration: the node
\* is unreachable, apt's lock is held, lb_controlplanes is undefined, the
\* artifacts directory cannot be written, the operator interrupts the run.
TaskFails(s) ==
    /\ task[s] # "idle"
    /\ Abort(s)
    /\ UNCHANGED <<repo, disk, proc, play>>

\* haproxy is enabled: a reboot starts it from the file, and every session
\* loses its connection.
Reboot ==
    /\ disk # NoFile
    /\ proc' = IF disk \in Valid THEN disk ELSE Down
    /\ task' = [s \in Sessions |-> "idle"]
    /\ recap' = [p \in Playbooks |->
                   IF \E s \in Sessions : task[s] # "idle" /\ play[s] = p
                   THEN "failed" ELSE recap[p]]
    /\ changed' = [s \in Sessions |-> FALSE]
    /\ stale' = (disk \notin Valid)
    /\ UNCHANGED <<repo, disk, play, alone>>

\* A commit changes what a playbook writes, possibly to a text haproxy
\* refuses.
EditRepo(p, c) ==
    /\ repo[p] # c
    /\ repo' = [repo EXCEPT ![p] = c]
    /\ UNCHANGED <<disk, proc, play, task, changed, recap, stale, alone>>

RunTask(s) ==
    /\ \/ Evidence(s) \/ Install(s) \/ WriteConfig(s)
       \/ Validate(s) \/ ValidateFails(s)
       \/ Start(s) \/ StartFails(s)
       \/ Restart(s) \/ RestartFails(s)
       \/ Status(s) \/ TaskFails(s)
    /\ UNCHANGED alone

Next ==
    \/ \E s \in Sessions, p \in Playbooks : Launch(s, p)
    \/ \E s \in Sessions : RunTask(s)
    \/ Reboot
    \/ \E p \in Playbooks, c \in Contents \ {Distro} : EditRepo(p, c)

Spec == Init /\ [][Next]_vars

\* A started playbook goes on to its next task until its recap.
FairSpec == Spec /\ \A s \in Sessions : WF_vars(RunTask(s))

-----------------------------------------------------------------------------
(* What the playbooks guarantee.                                           *)

\* Type correctness is TypeOK above.

\* The running haproxy serves the file on disk, unless a run that changed the
\* file is still on its way to the restart, or such a run was cut short: the
\* one way the two may differ for good (playbook 31 restarts from a handler,
\* which a failing task drops and a rerun does not notify again).
DriftAccounted ==
    \/ disk = NoFile
    \/ proc = disk
    \/ stale
    \/ \E s \in Sessions : changed[s]

\* Validating before the restart makes playbook 30 safe: a run that has been
\* the only one never stops a serving haproxy for a file the new process
\* refuses. (Two interleaved runs can change the file between the two tasks.)
ValidatedRestart ==
    [][\A s \in Sessions : alone[s] => ~(play[s] = "p30" /\ RestartFails(s))]_vars

FinishedOk(s) ==
    /\ task[s] \in {"save", "handler"}
    /\ task'[s] = "idle"
    /\ recap'[play[s]] = "ok"

\* A recap without failures of a run that has been the only one means haproxy
\* is up on the file that the next reboot will start it from, unless an
\* earlier run was cut short.
SuccessSurvivesReboot ==
    [][\A s \in Sessions :
         alone[s] /\ FinishedOk(s) =>
            /\ proc' # Down
            /\ stale' \/ (proc' = disk' /\ disk' \in Valid)]_vars

\* A run either brings the running haproxy up to date with the file or leaves
\* the drift to a failed run: no started run stays between the two.
DriftEnds ==
    (disk # NoFile /\ proc # disk) ~> (proc = disk \/ stale)
=============================================================================
