----------------------------- MODULE NodeBaseline -----------------------------
(***************************************************************************)
(* A Kubernetes node and the playbooks that prepare it:                    *)
(*                                                                         *)
(*   "p10"  ansible/playbooks/10-ssh-hardening.yml                         *)
(*   "p11"  ansible/playbooks/11-ssh-rollback.yml                          *)
(*   "p20"  ansible/playbooks/20-k8s-node-baseline.yml                     *)
(*   "p21"  ansible/playbooks/21-k8s-packages.yml                          *)
(*                                                                         *)
(* Most tasks change a file, the running system, or both: what is on disk  *)
(* and what is live differ in the middle of a run, and a reboot brings the *)
(* disk's version back.  Nodes do not interact, so one node is modelled.   *)
(* One operator runs the playbooks; any task may fail, the node may reboot *)
(* at any time, and a failed run is simply started again.  What playbook   *)
(* 10 writes may be changed in the repository, for the worse as well.      *)
(***************************************************************************)
EXTENDS Naturals, Sequences

CONSTANT MaxFaults  \* bound: tasks that fail by themselves, reboots and edits

ASSUME FaultsAssumption == MaxFaults \in Nat

SshPlays == {"p10", "p11"}

Plays == {"p20", "p21"} \cup SshPlays

\* The modules of k8s.conf, each loaded by a task of its own.
Modules == {"overlay", "br_netfilter"}

\* What sshd makes of its configuration: the distribution's, the hardened one,
\* one that lets ops in no more, one that it refuses to start with.
SshTexts == {"good", "shut", "bad"}

\* Fault: playbook 20 no longer comments the swap entries out.
Play20NoFstab ==
    <<"packages", "swapoff", "modules_conf", "overlay", "br_netfilter", "sysctl_conf",
      "sysctl", "ctd_config", "ctd_cgroup", "ctd_restart", "ctd_status">>

\* Fault: playbook 20 applies the sysctl file before it loads the modules.
Play20SysctlFirst ==
    <<"packages", "swapoff", "fstab", "modules_conf", "sysctl_conf", "sysctl", "overlay",
      "br_netfilter", "ctd_config", "ctd_cgroup", "ctd_restart", "ctd_status">>

\* The tasks of each playbook, without those that only save evidence.
Play20 ==
    <<"packages", "swapoff", "fstab", "modules_conf", "overlay", "br_netfilter", "sysctl_conf",
      "sysctl", "ctd_config", "ctd_cgroup", "ctd_restart", "ctd_status">>

\* Fault: playbook 21 no longer holds the packages.
Play21NoHold ==
    <<"prereq", "key", "repo", "update", "kube", "node_ip", "kubelet_restart">>

\* Fault: playbook 21 leaves the running kubelet as it is.
Play21NoRestart ==
    <<"prereq", "key", "repo", "update", "kube", "hold", "node_ip">>

Play21 ==
    <<"prereq", "key", "repo", "update", "kube", "hold", "node_ip", "kubelet_restart">>

\* Fault: playbook 10 does not try a new session.
Play10NoVerify == <<"ssh_include", "ssh_dropin", "ssh_test", "ssh_reload">>

Play10 == <<"ssh_include", "ssh_dropin", "ssh_test", "ssh_reload", "ssh_verify">>

\* Fault: the rollback leaves the running sshd as it is.
Play11NoReload == <<"ssh_remove", "ssh_test">>

Play11 == <<"ssh_remove", "ssh_test", "ssh_reload">>

TasksOf == [p10 |-> Play10, p11 |-> Play11, p20 |-> Play20, p21 |-> Play21]

Tasks == UNION {{TasksOf[p][k] : k \in DOMAIN TasksOf[p]} : p \in Plays}

VARIABLES
    sshText, \* what playbook 10 writes, by the repository
    disk,  \* the files the playbooks write, and the packages
    live,  \* the running system
    play,  \* the playbook being run, or "none"
    at,    \* the index of its task
    recap, \* the last PLAY RECAP of each playbook, until its rival is started
    faults \* how many tasks failed by themselves or were cut by a reboot

vars == <<sshText, disk, live, play, at, recap, faults>>

\* When the command that writes config.toml is cut short, the file is "short" if
\* it is valid without the line of the driver, an empty one among others:
\* containerd has built-in defaults; it is "broken" if it ends within a line and
\* is no TOML.  A keyring that was cut short is "torn".
Disks == [ swapFstab : BOOLEAN, modules : BOOLEAN, sysctl : BOOLEAN, containerd : BOOLEAN,
           config : {"none", "short", "broken", "default", "systemd"},
           keyring : {"none", "torn", "good"}, repo : BOOLEAN,
           kube : {"none", "pinned", "newer"}, hold : BOOLEAN, nodeIp : BOOLEAN,
           include : BOOLEAN, dropin : SshTexts \cup {"none"} ]

Lives == [ swap : BOOLEAN, modules : SUBSET Modules, sysctl : BOOLEAN,
           cgroup : {"down", "cgroupfs", "systemd"},
           kubelet : {"down", "anyIp", "nodeIp"},
           sshd : {"stock", "good", "shut", "down"} ]

Task == IF play = "none" THEN "none" ELSE TasksOf[play][at]

TypeOK ==
    /\ sshText \in SshTexts
    /\ disk \in Disks
    /\ live \in Lives
    /\ play \in Plays \cup {"none"}
    /\ at \in 1 .. (IF play = "none" THEN 1 ELSE Len(TasksOf[play]))
    /\ recap \in [Plays -> {"never", "ok", "failed"}]
    /\ faults \in 0 .. MaxFaults

\* A fresh Debian droplet with a swap entry, and the user ops with the keys.
Init ==
    /\ sshText = "good"
    /\ \E i \in BOOLEAN :
          disk = [ swapFstab |-> TRUE, modules |-> FALSE, sysctl |-> FALSE,
                   containerd |-> FALSE, config |-> "none", keyring |-> "none",
                   repo |-> FALSE, kube |-> "none", hold |-> FALSE, nodeIp |-> FALSE,
                   include |-> i, dropin |-> "none" ]
    /\ live = [ swap |-> TRUE, modules |-> {}, sysctl |-> FALSE,
                cgroup |-> "down", kubelet |-> "down", sshd |-> "stock" ]
    /\ play = "none"
    /\ at = 1
    /\ recap = [p \in Plays |-> "never"]
    /\ faults = 0

-----------------------------------------------------------------------------
(* What starts from what is on disk.                                       *)

Containerd(d) ==
    IF ~d.containerd \/ d.config = "broken" THEN "down"
    ELSE IF d.config = "systemd" THEN "systemd" ELSE "cgroupfs"

Kubelet(d) == IF d.kube = "none" THEN "down" ELSE IF d.nodeIp THEN "nodeIp" ELSE "anyIp"

Sshd(d) ==
    IF ~d.include \/ d.dropin = "none" THEN "stock"
    ELSE IF d.dropin = "bad" THEN "down" ELSE d.dropin

\* A new connection gets through.
Reachable(l) == l.sshd \in {"stock", "good"}

Booted(d) == [ swap |-> d.swapFstab,
               modules |-> IF d.modules THEN Modules ELSE {}, sysctl |-> d.sysctl,
               cgroup |-> Containerd(d), kubelet |-> Kubelet(d), sshd |-> Sshd(d) ]

\* apt refuses a repository whose key it cannot read.
AptWorks == disk.repo => disk.keyring = "good"

\* The tasks that can only succeed in some states.  Reading the sysctl values
\* back fails without the bridge module.  The first task of a run needs a new
\* connection, the others use it again.
Works(t) ==
    /\ at = 1 \/ t = "ssh_verify" => Reachable(live)
    /\ t \in {"ssh_test", "ssh_reload"} => Sshd(disk) # "down"
    /\ t \in {"packages", "prereq", "update", "kube"} => AptWorks
    /\ t = "kube" => disk.repo
    /\ t = "sysctl" => "br_netfilter" \in live.modules
    /\ t = "ctd_restart" => disk.config # "broken"
    /\ t = "ctd_status" => live.cgroup # "down"

-----------------------------------------------------------------------------
(* The effect of each task on the disk and on the running system.          *)

WriteFile(field, value) == disk' = [disk EXCEPT ![field] = value] /\ UNCHANGED live

SetLive(field, value) == live' = [live EXCEPT ![field] = value] /\ UNCHANGED disk

\* state: present, and the package starts its service.
InstallPackages ==
    /\ disk' = [disk EXCEPT !.containerd = TRUE]
    /\ live' = [live EXCEPT !.cgroup = IF disk.containerd THEN @ ELSE Containerd(disk')]

InstallKube ==
    /\ disk' = [disk EXCEPT !.kube = IF @ = "none" THEN "pinned" ELSE @]
    /\ live' = [live EXCEPT !.kubelet = IF disk.kube = "none" THEN Kubelet(disk') ELSE @]

\* test -f config.toml || containerd config default > config.toml: a file that
\* was cut short is kept.
GenerateConfig == WriteFile("config", IF disk.config = "none" THEN "default" ELSE disk.config)

\* replace: SystemdCgroup = false becomes true where the text occurs.
SetCgroup == WriteFile("config", IF disk.config = "default" THEN "systemd" ELSE disk.config)

\* creates: skipped when there is a keyring, whatever it holds.
InstallKey == WriteFile("keyring", IF disk.keyring = "none" THEN "good" ELSE disk.keyring)

\* community.general.modprobe, state: present, persistent: disabled.
LoadModule(m) ==
    /\ m \notin live.modules => live' = [live EXCEPT !.modules = @ \cup {m}]
    /\ m \in live.modules => UNCHANGED live
    /\ UNCHANGED disk

Effect(t) ==
    \/ t = "ssh_include" /\ WriteFile("include", TRUE)
    \/ t = "ssh_dropin" /\ WriteFile("dropin", sshText)
    \/ t = "ssh_remove" /\ WriteFile("dropin", "none")
    \/ t = "ssh_reload" /\ SetLive("sshd", Sshd(disk))
    \/ t = "packages" /\ InstallPackages
    \/ t = "swapoff" /\ SetLive("swap", FALSE)
    \/ t = "fstab" /\ WriteFile("swapFstab", FALSE)
    \/ t = "modules_conf" /\ WriteFile("modules", TRUE)
    \/ t \in Modules /\ LoadModule(t)
    \/ t = "sysctl_conf" /\ WriteFile("sysctl", TRUE)
    \/ t = "sysctl" /\ SetLive("sysctl", disk.sysctl)
    \/ t = "ctd_config" /\ GenerateConfig
    \/ t = "ctd_cgroup" /\ SetCgroup
    \/ t = "ctd_restart" /\ SetLive("cgroup", Containerd(disk))
    \/ t \in {"ctd_status", "prereq", "update", "ssh_test", "ssh_verify"} /\ UNCHANGED <<disk, live>>
    \/ t = "key" /\ InstallKey
    \/ t = "repo" /\ WriteFile("repo", TRUE)
    \/ t = "kube" /\ InstallKube
    \/ t = "hold" /\ WriteFile("hold", TRUE)
    \/ t = "node_ip" /\ WriteFile("nodeIp", TRUE)
    \/ t = "kubelet_restart" /\ SetLive("kubelet", Kubelet(disk))

-----------------------------------------------------------------------------
(* Runs.                                                                   *)

\* Playbooks 10 and 11 undo each other.
Launch(p) ==
    /\ play = "none"
    /\ play' = p
    /\ at' = 1
    /\ recap' = [q \in Plays |-> IF p \in SshPlays /\ q \in SshPlays THEN "never" ELSE recap[q]]
    /\ UNCHANGED <<sshText, disk, live, faults>>

End(result) ==
    /\ play' = "none"
    /\ at' = 1
    /\ recap' = [recap EXCEPT ![play] = result]

\* Fault: the end of the task list is missed.
RunTaskPastEnd(t) ==
    /\ Task = t
    /\ Works(t)
    /\ Effect(t)
    /\ at' = at + 1
    /\ UNCHANGED <<sshText, play, recap, faults>>

RunTask(t) ==
    /\ Task = t
    /\ Works(t)
    /\ Effect(t)
    /\ IF at = Len(TasksOf[play]) THEN End("ok")
       ELSE at' = at + 1 /\ UNCHANGED <<play, recap>>
    /\ UNCHANGED <<sshText, faults>>

\* A task that cannot succeed ends the run; a restart that fails has stopped the
\* service.
TaskRefused ==
    /\ play # "none"
    /\ ~Works(Task)
    /\ IF Task = "ctd_restart" THEN Effect(Task) ELSE UNCHANGED <<disk, live>>
    /\ End("failed")
    /\ UNCHANGED <<sshText, faults>>

\* A task fails by itself, before or after its effect; the two that build a
\* file with a shell redirection or a pipe may leave part of it.
TaskFails ==
    /\ play # "none"
    /\ faults < MaxFaults
    /\ \/ UNCHANGED <<disk, live>>
       \/ Works(Task) /\ Effect(Task)
       \/ /\ Task = "ctd_config" /\ disk.config = "none"
          /\ \E part \in {"short", "broken"} : WriteFile("config", part)
       \/ Task = "key" /\ disk.keyring = "none" /\ WriteFile("keyring", "torn")
    /\ End("failed")
    /\ faults' = faults + 1
    /\ UNCHANGED sshText

Reboot ==
    /\ faults < MaxFaults
    /\ live' = Booted(disk)
    /\ play' = "none"
    /\ at' = 1
    /\ recap' = IF play = "none" THEN recap ELSE [recap EXCEPT ![play] = "failed"]
    /\ faults' = faults + 1
    /\ UNCHANGED <<sshText, disk>>

\* A commit changes what playbook 10 writes.
EditSshText(text) ==
    /\ faults < MaxFaults
    /\ sshText' = text
    /\ faults' = faults + 1
    /\ UNCHANGED <<disk, live, play, at, recap>>

\* Until kubeadm joins the node, systemd restarts a failing kubelet, which
\* reads /etc/default/kubelet again.
KubeletRestarts ==
    /\ live.kubelet # Kubelet(disk)
    /\ SetLive("kubelet", Kubelet(disk))
    /\ UNCHANGED <<sshText, play, at, recap, faults>>

\* Somebody's apt upgrade: a newer patch of the same minor, unless held.
AptUpgrade ==
    /\ disk.kube = "pinned" /\ ~disk.hold /\ AptWorks
    /\ disk' = [disk EXCEPT !.kube = "newer"]
    /\ live' = [live EXCEPT !.kubelet = Kubelet(disk')]
    /\ UNCHANGED <<sshText, play, at, recap, faults>>

Next ==
    \/ \E p \in Plays : Launch(p)
    \/ \E t \in Tasks : RunTask(t)
    \/ TaskRefused
    \/ TaskFails
    \/ Reboot
    \/ \E text \in SshTexts : EditSshText(text)
    \/ KubeletRestarts
    \/ AptUpgrade

Spec == Init /\ [][Next]_vars

\* The operator starts playbooks 20 and 21 again and again, and Ansible goes on with
\* a run that is under way.
FairSpec ==
    /\ Spec
    /\ \A p \in {"p20", "p21"} : SF_vars(Launch(p))
    /\ WF_vars(TaskRefused \/ \E t \in Tasks : RunTask(t))

-----------------------------------------------------------------------------
(* Properties.                                                             *)

HostReady(l) == ~l.swap /\ l.modules = Modules /\ l.sysctl /\ l.cgroup # "down"

\* The prerequisites of Kubernetes; the kubelet on the private address; the
\* hardened sshd, or the distribution's.
Goal(p, l) ==
    CASE p = "p20" -> HostReady(l)
      [] p = "p21" -> l.kubelet = "nodeIp"
      [] p = "p10" -> l.sshd = "good"
      [] p = "p11" -> l.sshd = "stock"

\* What a playbook is for holds once it is reported ok, and is still there
\* after a reboot: no task set only one of disk and running system, no task
\* that failed went unnoticed, and a hardening does not lock out its operators.
SuccessIsDurable ==
    \A p \in Plays : recap[p] = "ok" => Goal(p, live) /\ Goal(p, Booted(disk))

\* Once playbook 21 is reported ok, no upgrade changes the packages.
PackagesStay == [][recap["p21"] = "ok" => disk'.kube = disk.kube]_vars

\* Starting a failed playbook again repairs whatever the failure left behind,
\* with three exceptions: a keyring that was cut short is never written again,
\* nor is a config.toml that was cut within a line, which containerd does not
\* start with, and a node that lets nobody in cannot be repaired from outside.
RerunRepairs ==
    \/ <>[](recap["p20"] = "ok" /\ recap["p21"] = "ok")
    \/ <>(disk.keyring = "torn" \/ disk.config = "broken" \/ ~Reachable(live))

\* The hardening approach of docs/13 is meant to be safe: a drop-in that fails
\* its test stays in place, and sshd may be gone after the next reboot, but
\* nobody is locked out, now or by a reboot to come, unless the last SSH
\* playbook is still running or was reported as failed.
LockoutIsReported ==
    \/ Reachable(live) /\ Reachable(Booted(disk))
    \/ play \in SshPlays
    \/ \E p \in SshPlays : recap[p] = "failed"

\* docs/14-k8s-node-baseline.md: "Install & configure containerd
\* (SystemdCgroup=true)". A node whose baseline is ok runs with that driver.
SystemdDriver == recap["p20"] = "ok" => live.cgroup = "systemd"
=============================================================================
