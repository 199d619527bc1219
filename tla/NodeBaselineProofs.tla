--------------------------- MODULE NodeBaselineProofs ---------------------------
(***************************************************************************)
(* What a successful recap of the node playbooks means, for any number of  *)
(* faults, reboots and commits.                                            *)
(*                                                                         *)
(* SuccessIsDurable speaks of the end of a run.  It follows from what each *)
(* task leaves for the tasks after it, and from what no task and no reboot *)
(* takes back: the invariants Run20, Run21, RunSsh and the Done ones.      *)
(***************************************************************************)
EXTENDS NodeBaseline, TLAPS

LEMMA InitType == Init => TypeOK
BY FaultsAssumption DEF Init, TypeOK, Disks, Lives, Plays, SshPlays, SshTexts, Modules

-----------------------------------------------------------------------------
(* The task lists.                                                         *)

\* Which task is next, in each playbook.
LEMMA TaskIn20 ==
    ASSUME play = "p20"
    PROVE  /\ Task = Play20[at] /\ TasksOf[play] = Play20 /\ Len(TasksOf[play]) = 12
           /\ TypeOK => at \in 1 .. 12
BY DEF Task, TasksOf, Play20, TypeOK

LEMMA TaskIn21 ==
    ASSUME play = "p21"
    PROVE  /\ Task = Play21[at] /\ TasksOf[play] = Play21 /\ Len(TasksOf[play]) = 8
           /\ TypeOK => at \in 1 .. 8
BY DEF Task, TasksOf, Play21, TypeOK

LEMMA TaskIn10 ==
    ASSUME play = "p10"
    PROVE  /\ Task = Play10[at] /\ TasksOf[play] = Play10 /\ Len(TasksOf[play]) = 5
           /\ TypeOK => at \in 1 .. 5
BY DEF Task, TasksOf, Play10, TypeOK

LEMMA TaskIn11 ==
    ASSUME play = "p11"
    PROVE  /\ Task = Play11[at] /\ TasksOf[play] = Play11 /\ Len(TasksOf[play]) = 3
           /\ TypeOK => at \in 1 .. 3
BY DEF Task, TasksOf, Play11, TypeOK

LEMMA Lengths == \A p \in Plays : Len(TasksOf[p]) \in Nat \ {0}
<1>1. TasksOf["p10"] = Play10 /\ TasksOf["p11"] = Play11
      /\ TasksOf["p20"] = Play20 /\ TasksOf["p21"] = Play21
  BY DEF TasksOf
<1>2. Len(Play10) = 5 /\ Len(Play11) = 3 /\ Len(Play20) = 12 /\ Len(Play21) = 8
  BY DEF Play10, Play11, Play20, Play21
<1>3. Plays = {"p10", "p11", "p20", "p21"}
  BY DEF Plays, SshPlays
<1>4. \A p \in {"p10", "p11", "p20", "p21"} : Len(TasksOf[p]) \in {3, 5, 8, 12}
  BY <1>1, <1>2
<1>5. \A n \in {3, 5, 8, 12} : n \in Nat \ {0}
  OBVIOUS
<1> QED BY <1>3, <1>4, <1>5

-----------------------------------------------------------------------------
(* The effects of the tasks.                                               *)

\* The system files of playbook 20 are there.
Ready(d) ==
    /\ d.containerd /\ ~d.swapFstab /\ d.modules /\ d.sysctl
    /\ d.config \notin {"none", "broken"}

\* What no task and no upgrade takes back.
Grows ==
    /\ disk.containerd => disk'.containerd
    /\ ~disk.swapFstab => ~disk'.swapFstab
    /\ disk.modules => disk'.modules
    /\ disk.sysctl => disk'.sysctl
    /\ disk.config # "none" => disk'.config # "none"
    /\ disk.config \notin {"none", "broken"} => disk'.config # "broken"
    /\ disk.hold => disk'.hold
    /\ disk.nodeIp => disk'.nodeIp
    /\ disk.kube # "none" => disk'.kube # "none"
    /\ ~live.swap => ~live'.swap
    /\ live.modules \subseteq live'.modules
    /\ live.sysctl /\ disk.sysctl => live'.sysctl

\* containerd runs when it is installed and can read its configuration.
ServiceOK == disk.containerd /\ disk.config # "broken" => live.cgroup # "down"

\* A kubelet on the node's address stays there.
KubeletStays ==
    disk.kube # "none" /\ disk.nodeIp /\ live.kubelet = "nodeIp" => live'.kubelet = "nodeIp"

\* Nothing that sshd depends on is touched.
SshSame == disk'.include = disk.include /\ disk'.dropin = disk.dropin /\ live'.sshd = live.sshd

SshTasks == {"ssh_include", "ssh_dropin", "ssh_remove", "ssh_reload"}

\* A task keeps the types and takes nothing back; only the SSH tasks touch sshd.
LEMMA EffectKeeps ==
    ASSUME TypeOK, ServiceOK, NEW t, Effect(t)
    PROVE  /\ disk' \in Disks /\ live' \in Lives
           /\ Grows /\ ServiceOK' /\ KubeletStays
           /\ t \notin SshTasks => SshSame
<1> USE DEF TypeOK, Grows, ServiceOK, KubeletStays, SshSame, SshTasks
<1>1. CASE t = "ssh_include" /\ disk' = [disk EXCEPT !.include = TRUE] /\ live' = live
  BY <1>1 DEF Disks
<1>2. CASE t = "ssh_dropin" /\ WriteFile("dropin", sshText)
  BY <1>2 DEF SshTexts, WriteFile, SetLive, Disks, Lives
<1>3. CASE t = "ssh_remove" /\ WriteFile("dropin", "none")
  BY <1>3 DEF WriteFile, SetLive, Disks, Lives
<1>4. CASE t = "ssh_reload" /\ SetLive("sshd", Sshd(disk))
  BY <1>4 DEF Sshd, SshTexts, WriteFile, SetLive, Disks, Lives
<1>5. CASE t = "packages" /\ InstallPackages
  <2>1. /\ disk' = [disk EXCEPT !.containerd = TRUE]
        /\ live' = [live EXCEPT !.cgroup = IF disk.containerd THEN live.cgroup ELSE Containerd(disk')]
    BY <1>5 DEF InstallPackages
  <2>2. disk' \in Disks /\ disk'.containerd /\ disk'.config = disk.config
    BY <2>1 DEF Disks
  <2>3. /\ Containerd(disk') \in {"down", "cgroupfs", "systemd"}
        /\ Containerd(disk') = "down" => disk.config = "broken"
    BY <2>2 DEF Containerd
  <2>4. /\ live' \in Lives
        /\ live'.cgroup = (IF disk.containerd THEN live.cgroup ELSE Containerd(disk'))
        /\ live'.swap = live.swap /\ live'.modules = live.modules /\ live'.sysctl = live.sysctl
        /\ live'.kubelet = live.kubelet /\ live'.sshd = live.sshd
    <3> HIDE DEF ServiceOK
    <3> QED BY <2>1, <2>3 DEF Lives
  <2>5. ServiceOK'
    BY <2>2, <2>3, <2>4
  <2>6. Grows /\ KubeletStays /\ SshSame
    BY <2>1, <2>4 DEF Disks
  <2> QED BY <2>2, <2>4, <2>5, <2>6
<1>6. CASE t = "swapoff" /\ live' = [live EXCEPT !.swap = FALSE] /\ disk' = disk
  BY <1>6 DEF Lives
<1>7. CASE t = "fstab" /\ disk' = [disk EXCEPT !.swapFstab = FALSE] /\ live' = live
  BY <1>7 DEF Disks
<1>8. CASE t = "modules_conf" /\ disk' = [disk EXCEPT !.modules = TRUE] /\ live' = live
  BY <1>8 DEF Disks
<1>9. CASE t = "overlay" /\ LoadModule("overlay")
  BY <1>9 DEF LoadModule, Modules, Disks, Lives
<1>10. CASE t = "br_netfilter" /\ LoadModule("br_netfilter")
  BY <1>10 DEF LoadModule, Modules, Disks, Lives
<1>11. CASE t = "sysctl_conf" /\ disk' = [disk EXCEPT !.sysctl = TRUE] /\ live' = live
  BY <1>11 DEF Disks
<1>12. CASE t = "sysctl" /\ SetLive("sysctl", disk.sysctl)
  BY <1>12 DEF WriteFile, SetLive, Disks, Lives
<1>13. CASE t = "ctd_config" /\ GenerateConfig
  BY <1>13 DEF GenerateConfig, WriteFile, SetLive, Disks, Lives
<1>14. CASE t = "ctd_cgroup" /\ SetCgroup
  BY <1>14 DEF SetCgroup, WriteFile, SetLive, Disks, Lives
<1>15. CASE t = "ctd_restart" /\ SetLive("cgroup", Containerd(disk))
  BY <1>15 DEF Containerd, WriteFile, SetLive, Disks, Lives
<1>16. CASE t = "key" /\ InstallKey
  BY <1>16 DEF InstallKey, WriteFile, SetLive, Disks, Lives
<1>17. CASE t = "repo" /\ disk' = [disk EXCEPT !.repo = TRUE] /\ live' = live
  BY <1>17 DEF Disks
<1>18. CASE t = "kube" /\ InstallKube
  BY <1>18 DEF InstallKube, Kubelet, WriteFile, SetLive, Disks, Lives
<1>19. CASE t = "hold" /\ disk' = [disk EXCEPT !.hold = TRUE] /\ live' = live
  BY <1>19 DEF Disks
<1>20. CASE t = "node_ip" /\ disk' = [disk EXCEPT !.nodeIp = TRUE] /\ live' = live
  BY <1>20 DEF Disks
<1>21. CASE t = "kubelet_restart" /\ SetLive("kubelet", Kubelet(disk))
  BY <1>21 DEF Kubelet, WriteFile, SetLive, Disks, Lives
<1>22. CASE UNCHANGED <<disk, live>>
  BY <1>22
<1> QED
  BY <1>1, <1>2, <1>3, <1>4, <1>5, <1>6, <1>7, <1>8, <1>9, <1>10, <1>11, <1>12, <1>13, <1>14,
     <1>15, <1>16, <1>17, <1>18, <1>19, <1>20, <1>21, <1>22
  DEF Effect, Modules, WriteFile, SetLive

\* What the tasks after it can count on.
LEMMA EffectGives ==
    ASSUME TypeOK, NEW t, Effect(t)
    PROVE  /\ t = "packages" => disk'.containerd
           /\ t = "swapoff" => ~live'.swap
           /\ t = "fstab" => ~disk'.swapFstab
           /\ t = "modules_conf" => disk'.modules
           /\ t \in Modules => t \in live'.modules
           /\ t = "sysctl_conf" => disk'.sysctl
           /\ t = "sysctl" /\ disk.sysctl => live'.sysctl
           /\ t = "ctd_config" => disk'.config # "none"
           /\ t = "ctd_restart" => disk' = disk
           /\ t = "kube" => disk'.kube # "none"
           /\ t = "hold" => disk'.hold
           /\ t = "node_ip" => disk'.nodeIp
           /\ t = "kubelet_restart" => live'.kubelet = Kubelet(disk) /\ disk' = disk
<1> USE DEF TypeOK
<1>1. t = "packages" => disk'.containerd
  <2>1. t = "packages" => disk' = [disk EXCEPT !.containerd = TRUE]
    BY DEF Effect, InstallPackages, Modules
  <2> QED BY <2>1 DEF Disks
<1>2. t = "swapoff" => ~live'.swap
  <2>1. t = "swapoff" => live' = [live EXCEPT !.swap = FALSE]
    BY DEF Effect, SetLive, Modules
  <2> QED BY <2>1 DEF Lives
<1>3. t = "fstab" => ~disk'.swapFstab
  <2>1. t = "fstab" => disk' = [disk EXCEPT !.swapFstab = FALSE]
    BY DEF Effect, WriteFile, Modules
  <2> QED BY <2>1 DEF Disks
<1>4. t = "modules_conf" => disk'.modules
  <2>1. t = "modules_conf" => disk' = [disk EXCEPT !.modules = TRUE]
    BY DEF Effect, WriteFile, Modules
  <2> QED BY <2>1 DEF Disks
<1>5. t \in Modules => t \in live'.modules
  <2>1. t \in Modules => LoadModule(t)
    BY DEF Effect, Modules
  <2> QED BY <2>1 DEF LoadModule, Lives
<1>6. t = "sysctl_conf" => disk'.sysctl
  <2>1. t = "sysctl_conf" => disk' = [disk EXCEPT !.sysctl = TRUE]
    BY DEF Effect, WriteFile, Modules
  <2> QED BY <2>1 DEF Disks
<1>7. t = "sysctl" /\ disk.sysctl => live'.sysctl
  <2>1. t = "sysctl" => live' = [live EXCEPT !.sysctl = disk.sysctl]
    BY DEF Effect, SetLive, Modules
  <2> QED BY <2>1 DEF Lives
<1>8. t = "kube" => disk'.kube # "none"
  <2>1. t = "kube" => InstallKube
    BY DEF Effect, Modules
  <2> QED BY <2>1 DEF InstallKube, Disks
<1>9. t = "hold" => disk'.hold
  <2>1. t = "hold" => disk' = [disk EXCEPT !.hold = TRUE]
    BY DEF Effect, WriteFile, Modules
  <2> QED BY <2>1 DEF Disks
<1>10. t = "node_ip" => disk'.nodeIp
  <2>1. t = "node_ip" => disk' = [disk EXCEPT !.nodeIp = TRUE]
    BY DEF Effect, WriteFile, Modules
  <2> QED BY <2>1 DEF Disks
<1>11. t = "kubelet_restart" => live'.kubelet = Kubelet(disk) /\ disk' = disk
  <2>1. t = "kubelet_restart" => live' = [live EXCEPT !.kubelet = Kubelet(disk)] /\ disk' = disk
    BY DEF Effect, SetLive, Modules
  <2> QED BY <2>1 DEF Lives
<1>12. t = "ctd_config" => disk'.config # "none"
  <2>1. t = "ctd_config" =>
          disk' = [disk EXCEPT !.config = IF disk.config = "none" THEN "default" ELSE disk.config]
    BY DEF Effect, GenerateConfig, WriteFile, Modules
  <2> QED BY <2>1 DEF Disks
<1>13. t = "ctd_restart" => disk' = disk
  BY DEF Effect, SetLive, Modules
<1> QED BY <1>1, <1>2, <1>3, <1>4, <1>5, <1>6, <1>7, <1>8, <1>9, <1>10, <1>11, <1>12, <1>13

\* The same for the tasks of playbooks 10 and 11.
LEMMA SshGives ==
    ASSUME TypeOK, NEW t, Effect(t)
    PROVE  /\ t = "ssh_include" => disk'.include /\ disk'.dropin = disk.dropin
           /\ t = "ssh_dropin" => disk'.include = disk.include /\ disk'.dropin \in SshTexts
           /\ t = "ssh_remove" => disk'.dropin = "none"
           /\ t = "ssh_reload" => disk' = disk /\ live'.sshd = Sshd(disk)
           /\ t \in {"ssh_test", "ssh_verify"} => disk' = disk /\ live' = live
<1> USE DEF TypeOK
<1>1. t = "ssh_include" => disk'.include /\ disk'.dropin = disk.dropin
  <2>1. t = "ssh_include" => disk' = [disk EXCEPT !.include = TRUE]
    BY DEF Effect, WriteFile, Modules
  <2> QED BY <2>1 DEF Disks
<1>2. t = "ssh_dropin" => disk'.include = disk.include /\ disk'.dropin \in SshTexts
  <2>1. t = "ssh_dropin" => disk' = [disk EXCEPT !.dropin = sshText]
    BY DEF Effect, WriteFile, Modules
  <2> QED BY <2>1 DEF Disks
<1>3. t = "ssh_remove" => disk'.dropin = "none"
  <2>1. t = "ssh_remove" => disk' = [disk EXCEPT !.dropin = "none"]
    BY DEF Effect, WriteFile, Modules
  <2> QED BY <2>1 DEF Disks
<1>4. t = "ssh_reload" => disk' = disk /\ live'.sshd = Sshd(disk)
  <2>1. t = "ssh_reload" => live' = [live EXCEPT !.sshd = Sshd(disk)] /\ disk' = disk
    BY DEF Effect, SetLive, Modules
  <2> QED BY <2>1 DEF Lives
<1>5. t \in {"ssh_test", "ssh_verify"} => disk' = disk /\ live' = live
  BY DEF Effect, Modules
<1> QED BY <1>1, <1>2, <1>3, <1>4, <1>5

\* A file that is left half written was not there before.
LEMMA TornKeeps ==
    ASSUME TypeOK, ServiceOK,
           \/ disk.config = "none" /\ \E part \in {"short", "broken"} : WriteFile("config", part)
           \/ WriteFile("keyring", "torn")
    PROVE  /\ disk' \in Disks /\ live' \in Lives
           /\ Grows /\ ServiceOK' /\ KubeletStays /\ SshSame
BY DEF TypeOK, ServiceOK, WriteFile, Grows, KubeletStays, SshSame, Disks

-----------------------------------------------------------------------------
(* The invariant.                                                          *)

\* What playbook 20 has reached before each of its tasks.
Run20 ==
    play = "p20" =>
        /\ at > 1 => disk.containerd
        /\ at > 2 => ~live.swap
        /\ at > 3 => ~disk.swapFstab
        /\ at > 4 => disk.modules
        /\ at > 5 => "overlay" \in live.modules
        /\ at > 6 => "br_netfilter" \in live.modules
        /\ at > 7 => disk.sysctl
        /\ at > 8 => live.sysctl
        /\ at > 9 => disk.config # "none"
        /\ at > 11 => disk.config # "broken"

Run21 ==
    play = "p21" =>
        /\ at > 5 => disk.kube # "none"
        /\ at > 6 => disk.hold
        /\ at > 7 => disk.nodeIp

\* Playbooks 10 and 11; while one of them runs, nothing is claimed of either.
RunSsh ==
    /\ play = "p10" =>
        /\ at > 1 => disk.include
        /\ at > 2 => disk.dropin \in SshTexts
        /\ at > 3 => disk.dropin # "bad"
        /\ at > 4 => live.sshd = Sshd(disk)
    /\ play = "p11" =>
        /\ at > 1 => disk.dropin = "none"
    /\ play \in SshPlays => \A p \in SshPlays : recap[p] = "never"

Done20 == recap["p20"] = "ok" => HostReady(live) /\ Ready(disk)

Done21 ==
    recap["p21"] = "ok" =>
        disk.hold /\ disk.kube # "none" /\ disk.nodeIp /\ live.kubelet = "nodeIp"

DoneSsh ==
    /\ recap["p10"] = "ok" => disk.include /\ disk.dropin = "good" /\ live.sshd = "good"
    /\ recap["p11"] = "ok" => disk.dropin = "none" /\ live.sshd = "stock"

Runs == Run20 /\ Run21 /\ RunSsh

Done == Done20 /\ Done21 /\ DoneSsh

IInv == TypeOK /\ ServiceOK /\ Runs /\ Done /\ LockoutIsReported

LEMMA InitInv == Init => IInv
<1> SUFFICES ASSUME Init
             PROVE  IInv
  OBVIOUS
<1>1. TypeOK
  BY InitType
<1>2. play = "none" /\ \A p \in Plays : recap[p] = "never"
  BY DEF Init
<1>3. ~disk.containerd /\ live.sshd = "stock" /\ disk.dropin = "none"
  BY DEF Init
<1>4. ServiceOK /\ Runs
  BY <1>2, <1>3 DEF ServiceOK, Runs, Run20, Run21, RunSsh, SshPlays
<1>5. Done
  BY <1>2 DEF Done, Done20, Done21, DoneSsh, Plays, SshPlays
<1>6. LockoutIsReported
  BY <1>3 DEF LockoutIsReported, Reachable, Booted, Sshd
<1> QED BY <1>1, <1>4, <1>5, <1>6 DEF IInv

\* Nothing that has been reached is lost by what takes nothing back.
LEMMA GrowsDone ==
    ASSUME TypeOK, Done20, Done21, disk' \in Disks, live' \in Lives, Grows, ServiceOK',
           KubeletStays
    PROVE  /\ recap["p20"] = "ok" => HostReady(live') /\ Ready(disk')
           /\ recap["p21"] = "ok" => disk'.hold /\ disk'.kube # "none" /\ disk'.nodeIp
                                    /\ live'.kubelet = "nodeIp"
<1>1. live'.modules \subseteq Modules
  BY DEF Lives
<1> QED BY <1>1 DEF Done20, Done21, HostReady, Ready, Grows, ServiceOK, KubeletStays

\* sshd as it is and as it will be after a reboot.
LEMMA SshSameReach ==
    ASSUME SshSame
    PROVE  /\ Sshd(disk') = Sshd(disk)
           /\ Reachable(live') <=> Reachable(live)
           /\ Reachable(Booted(disk')) <=> Reachable(Booted(disk))
BY DEF SshSame, Sshd, Reachable, Booted

\* Steps that leave the run where it is and take nothing back.
LEMMA QuietInv ==
    ASSUME IInv, UNCHANGED <<play, at, recap>>, sshText' \in SshTexts, faults' \in 0 .. MaxFaults,
           disk' \in Disks, live' \in Lives, Grows, ServiceOK', KubeletStays, SshSame
    PROVE  IInv'
<1> USE DEF IInv, Runs, Done
<1>1. TypeOK'
  BY DEF TypeOK
<1>2. Run20' /\ Run21'
  <2>1. at \in Nat
    BY DEF TypeOK
  <2>2. Run20'
    BY <2>1 DEF Run20, Grows
  <2>3. Run21'
    BY DEF Run21, Grows
  <2> QED BY <2>2, <2>3
<1>3. RunSsh' /\ DoneSsh'
  BY SshSameReach DEF RunSsh, DoneSsh, SshSame
<1>4. Done20' /\ Done21'
  BY GrowsDone DEF Done20, Done21
<1>5. LockoutIsReported'
  BY SshSameReach DEF LockoutIsReported
<1> QED BY <1>1, <1>2, <1>3, <1>4, <1>5

\* A run that failed, at whatever point.
LEMMA FailedInv ==
    ASSUME IInv, play # "none", End("failed"), sshText' = sshText, faults' \in 0 .. MaxFaults,
           disk' \in Disks, live' \in Lives, Grows, ServiceOK', KubeletStays,
           play \notin SshPlays => SshSame
    PROVE  IInv'
<1> USE DEF IInv, Runs, Done
<1>1. play \in Plays /\ play' = "none" /\ at' = 1 /\ recap' = [recap EXCEPT ![play] = "failed"]
  BY DEF TypeOK, End
<1>2. recap'[play] = "failed" /\ \A p \in Plays \ {play} : recap'[p] = recap[p]
  BY <1>1 DEF TypeOK
<1>3. TypeOK'
  BY <1>1 DEF TypeOK
<1>4. Run20' /\ Run21' /\ RunSsh'
  BY <1>1 DEF Run20, Run21, RunSsh, SshPlays
<1>5. Done20' /\ Done21'
  BY <1>2, GrowsDone DEF Done20, Done21, Plays
<1>6. CASE play \in SshPlays
  <2>1. DoneSsh'
    BY <1>2, <1>6 DEF DoneSsh, RunSsh, SshPlays, Plays
  <2>2. LockoutIsReported'
    BY <1>2, <1>6 DEF LockoutIsReported
  <2> QED BY <1>3, <1>4, <1>5, <2>1, <2>2
<1>7. CASE play \notin SshPlays
  <2>1. \A p \in SshPlays : recap'[p] = recap[p]
    BY <1>2, <1>7 DEF Plays
  <2>2. DoneSsh'
    BY <1>7, <2>1 DEF DoneSsh, SshSame, SshPlays
  <2>3. LockoutIsReported'
    BY <1>7, <2>1, SshSameReach DEF LockoutIsReported
  <2> QED BY <1>3, <1>4, <1>5, <2>2, <2>3
<1> QED BY <1>6, <1>7

\* Only playbooks 10 and 11 have tasks that touch sshd.
LEMMA TaskNotSsh ==
    ASSUME TypeOK, play \in Plays \ SshPlays
    PROVE  Task \notin SshTasks
<1>1. CASE play = "p20"
  BY <1>1, TaskIn20 DEF Play20, SshTasks
<1>2. CASE play = "p21"
  BY <1>2, TaskIn21 DEF Play21, SshTasks
<1> QED BY <1>1, <1>2 DEF Plays

\* What a task that succeeds leaves to the next one, or to the recap.
LEMMA Step20 ==
    ASSUME IInv, play = "p20", NEW t, RunTask(t)
    PROVE  /\ at # 12 => at' = at + 1 /\ play' = play /\ recap' = recap /\ Run20'
           /\ at = 12 => End("ok") /\ HostReady(live') /\ Ready(disk')
<1> USE DEF IInv, Runs
<1>1. t = Play20[at] /\ at \in 1 .. 12 /\ Effect(t) /\ Len(TasksOf[play]) = 12
  BY TaskIn20 DEF RunTask
<1>2. disk' \in Disks /\ live' \in Lives /\ Grows /\ ServiceOK'
  BY <1>1, EffectKeeps
<1>3. /\ at # 12 => at' = at + 1 /\ play' = play /\ recap' = recap
      /\ at = 12 => End("ok")
  BY <1>1 DEF RunTask
<1>4. at > 1 => disk.containerd
  BY DEF Run20
<1>5. /\ at >= 1 => disk'.containerd
      /\ at >= 2 => ~live'.swap
      /\ at >= 3 => ~disk'.swapFstab
      /\ at >= 4 => disk'.modules
      /\ at >= 5 => "overlay" \in live'.modules
      /\ at >= 6 => "br_netfilter" \in live'.modules
      /\ at >= 7 => disk'.sysctl
      /\ at >= 8 => live'.sysctl
      /\ at >= 9 => disk'.config # "none"
      /\ at >= 11 => disk'.config # "broken"
  <2>1. /\ at = 1 => t = "packages"
        /\ at = 2 => t = "swapoff"
        /\ at = 3 => t = "fstab"
        /\ at = 4 => t = "modules_conf"
        /\ at = 5 => t = "overlay"
        /\ at = 6 => t = "br_netfilter"
        /\ at = 7 => t = "sysctl_conf"
        /\ at = 8 => t = "sysctl"
        /\ at = 9 => t = "ctd_config"
        /\ at = 11 => t = "ctd_restart"
    BY <1>1 DEF Play20
  <2>2. /\ at = 1 => disk'.containerd
        /\ at = 2 => ~live'.swap
        /\ at = 3 => ~disk'.swapFstab
        /\ at = 4 => disk'.modules
        /\ at = 5 => "overlay" \in live'.modules
        /\ at = 6 => "br_netfilter" \in live'.modules
        /\ at = 7 => disk'.sysctl
        /\ at = 8 /\ disk.sysctl => live'.sysctl
        /\ at = 9 => disk'.config # "none"
        /\ at = 11 => disk' = disk
    BY <1>1, <2>1, EffectGives DEF Modules
  <2>3. \A k \in 1 .. 11 : at >= k <=> at = k \/ at > k
    BY <1>1
  <2>4. at = 11 => disk'.config # "broken"
    BY <2>1, <2>2 DEF RunTask, Works
  <2>5. at = 12 => disk'.config # "broken"
    BY <1>2 DEF Run20, Grows
  <2>6. at >= 11 => at \in {11, 12}
    BY <1>1
  <2> QED BY <1>1, <1>2, <2>2, <2>3, <2>4, <2>5, <2>6 DEF Run20, Grows
<1>6. CASE at # 12
  BY <1>1, <1>3, <1>5, <1>6 DEF Run20
<1>7. CASE at = 12
  <2>1. live'.modules = Modules
    BY <1>2, <1>5, <1>7 DEF Lives, Modules
  <2> QED BY <1>2, <1>3, <1>5, <1>7, <2>1 DEF HostReady, Ready, ServiceOK
<1> QED BY <1>6, <1>7

LEMMA Step21 ==
    ASSUME IInv, play = "p21", NEW t, RunTask(t)
    PROVE  /\ at # 8 => at' = at + 1 /\ play' = play /\ recap' = recap /\ Run21'
           /\ at = 8 => /\ End("ok") /\ disk'.hold /\ disk'.kube # "none" /\ disk'.nodeIp
                       /\ live'.kubelet = "nodeIp"
<1> USE DEF IInv, Runs
<1>1. t = Play21[at] /\ at \in 1 .. 8 /\ Effect(t) /\ Len(TasksOf[play]) = 8
  BY TaskIn21 DEF RunTask
<1>2. Grows
  BY <1>1, EffectKeeps
<1>3. /\ at # 8 => at' = at + 1 /\ play' = play /\ recap' = recap
      /\ at = 8 => End("ok")
  BY <1>1 DEF RunTask
<1>4. /\ at = 5 => t = "kube"
      /\ at = 6 => t = "hold"
      /\ at = 7 => t = "node_ip"
      /\ at = 8 => t = "kubelet_restart"
  BY <1>1 DEF Play21
<1>5. /\ at = 5 => disk'.kube # "none"
      /\ at = 6 => disk'.hold
      /\ at = 7 => disk'.nodeIp
      /\ at = 8 => live'.kubelet = Kubelet(disk) /\ disk' = disk
  BY <1>1, <1>4, EffectGives
<1>6. CASE at # 8
  BY <1>1, <1>2, <1>3, <1>5, <1>6 DEF Run21, Grows
<1>7. CASE at = 8
  BY <1>3, <1>5, <1>7 DEF Run21, Kubelet
<1> QED BY <1>6, <1>7

\* The last task has seen that the sshd that runs lets ops in.
LEMMA Step10 ==
    ASSUME IInv, play = "p10", NEW t, RunTask(t)
    PROVE  /\ at # 5 => at' = at + 1 /\ play' = play /\ recap' = recap /\ RunSsh'
           /\ at = 5 => End("ok") /\ disk'.include /\ disk'.dropin = "good" /\ live'.sshd = "good"
<1> USE DEF IInv, Runs
<1>1. t = Play10[at] /\ at \in 1 .. 5 /\ Effect(t) /\ Works(t) /\ Len(TasksOf[play]) = 5
  BY TaskIn10 DEF RunTask
<1>2. /\ at # 5 => at' = at + 1 /\ play' = play /\ recap' = recap
      /\ at = 5 => End("ok")
  BY <1>1 DEF RunTask
<1>3. /\ at = 1 => t = "ssh_include"
      /\ at = 2 => t = "ssh_dropin"
      /\ at = 3 => t = "ssh_test"
      /\ at = 4 => t = "ssh_reload"
      /\ at = 5 => t = "ssh_verify"
  BY <1>1 DEF Play10
<1>4. /\ at = 1 => disk'.include
      /\ at = 2 => disk'.include = disk.include /\ disk'.dropin \in SshTexts
      /\ at \in {3, 5} => disk' = disk /\ live' = live
      /\ at = 4 => disk' = disk /\ live'.sshd = Sshd(disk)
  BY <1>1, <1>3, SshGives
<1>5. /\ at = 3 => Sshd(disk) # "down"
      /\ at = 5 => Reachable(live)
  BY <1>1, <1>3 DEF Works
<1>6. CASE at # 5
  <2>1. at' = at + 1 /\ play' = "p10" /\ recap' = recap
    BY <1>2, <1>6
  <2>2. /\ at' > 1 => disk'.include
        /\ at' > 2 => disk'.dropin \in SshTexts
    BY <1>1, <1>4, <1>6, <2>1 DEF RunSsh
  <2>3. at' > 3 => disk'.dropin # "bad"
    BY <1>1, <1>4, <1>5, <1>6, <2>1 DEF RunSsh, Sshd
  <2>4. at' > 4 => live'.sshd = Sshd(disk')
    BY <1>1, <1>4, <1>6, <2>1
  <2>5. \A p \in SshPlays : recap'[p] = "never"
    BY <2>1 DEF RunSsh, SshPlays
  <2>6. RunSsh'
    BY <2>1, <2>2, <2>3, <2>4, <2>5 DEF RunSsh
  <2> QED BY <1>6, <2>1, <2>6
<1>7. CASE at = 5
  BY <1>2, <1>4, <1>5, <1>7 DEF RunSsh, Sshd, Reachable, SshTexts
<1> QED BY <1>6, <1>7

LEMMA Step11 ==
    ASSUME IInv, play = "p11", NEW t, RunTask(t)
    PROVE  /\ at # 3 => at' = at + 1 /\ play' = play /\ recap' = recap /\ RunSsh'
           /\ at = 3 => End("ok") /\ disk'.dropin = "none" /\ live'.sshd = "stock"
<1> USE DEF IInv, Runs
<1>1. t = Play11[at] /\ at \in 1 .. 3 /\ Effect(t) /\ Len(TasksOf[play]) = 3
  BY TaskIn11 DEF RunTask
<1>2. /\ at # 3 => at' = at + 1 /\ play' = play /\ recap' = recap
      /\ at = 3 => End("ok")
  BY <1>1 DEF RunTask
<1>3. /\ at = 1 => t = "ssh_remove"
      /\ at = 2 => t = "ssh_test"
      /\ at = 3 => t = "ssh_reload"
  BY <1>1 DEF Play11
<1>4. /\ at = 1 => disk'.dropin = "none"
      /\ at \in {2, 3} => disk' = disk
      /\ at = 3 => live'.sshd = Sshd(disk)
  BY <1>1, <1>3, SshGives
<1>5. CASE at # 3
  BY <1>1, <1>2, <1>4, <1>5 DEF RunSsh
<1>6. CASE at = 3
  BY <1>2, <1>4, <1>6 DEF RunSsh, Sshd
<1> QED BY <1>5, <1>6

-----------------------------------------------------------------------------
(* The actions.                                                            *)

LEMMA RunTaskType ==
    ASSUME IInv, NEW t \in Tasks, RunTask(t)
    PROVE  TypeOK' /\ play \in Plays
<1> USE DEF IInv, TypeOK
<1>1. disk' \in Disks /\ live' \in Lives
  BY EffectKeeps DEF RunTask
<1>2. play \in Plays
  <2> SUFFICES ASSUME play = "none"
               PROVE  FALSE
    OBVIOUS
  <2>1. t = "none"
    BY DEF RunTask, Task
  <2>2. "none" \notin Tasks
    <3>1. \A p \in Plays : \A k \in DOMAIN TasksOf[p] : TasksOf[p][k] # "none"
      BY DEF Plays, SshPlays, TasksOf, Play10, Play11, Play20, Play21
    <3> QED BY <3>1 DEF Tasks
  <2> QED BY <2>1, <2>2
<1>3. Len(TasksOf[play]) \in Nat \ {0} /\ at \in 1 .. Len(TasksOf[play])
  BY <1>2, Lengths DEF Plays, SshPlays
<1>4. CASE at = Len(TasksOf[play])
  BY <1>1, <1>2, <1>4 DEF RunTask, End
<1>5. CASE at # Len(TasksOf[play])
  <2>1. at' = at + 1 /\ play' = play /\ recap' = recap /\ sshText' = sshText /\ faults' = faults
    BY <1>5 DEF RunTask
  <2>2. at' \in 1 .. Len(TasksOf[play'])
    BY <1>3, <1>5, <2>1
  <2> QED BY <1>1, <1>2, <2>1, <2>2 DEF Plays, SshPlays
<1> QED BY <1>2, <1>4, <1>5

LEMMA RunTaskInv ==
    ASSUME IInv, NEW t \in Tasks, RunTask(t)
    PROVE  IInv'
<1> USE DEF IInv, Runs, Done
<1>1. TypeOK' /\ play \in Plays
  BY RunTaskType
<1>2. Effect(t) /\ t = Task
  BY DEF RunTask
<1>3. disk' \in Disks /\ live' \in Lives /\ Grows /\ ServiceOK' /\ KubeletStays
  BY <1>2, EffectKeeps
<1>4. /\ recap["p20"] = "ok" => HostReady(live') /\ Ready(disk')
      /\ recap["p21"] = "ok" => disk'.hold /\ disk'.kube # "none" /\ disk'.nodeIp
                               /\ live'.kubelet = "nodeIp"
  BY <1>3, GrowsDone
<1>5. play \notin SshPlays => SshSame
  BY <1>1, <1>2, EffectKeeps, TaskNotSsh
<1>6. End("ok") => /\ play' = "none" /\ recap'[play] = "ok"
                   /\ \A p \in Plays \ {play} : recap'[p] = recap[p]
  BY <1>1 DEF End, TypeOK
<1>7. CASE play = "p20"
  <2>1. SshSame /\ play' \in {"p20", "none"} /\ recap'["p21"] = recap["p21"]
        /\ \A p \in SshPlays : recap'[p] = recap[p]
    BY <1>5, <1>6, <1>7, Step20 DEF SshPlays, Plays
  <2>2. Run20' /\ Run21' /\ RunSsh'
    BY <1>6, <1>7, <2>1, Step20 DEF Run20, Run21, RunSsh, SshPlays
  <2>3. Done20'
    BY <1>4, <1>6, <1>7, Step20 DEF Done20
  <2>4. Done21' /\ DoneSsh'
    BY <1>4, <2>1 DEF Done21, DoneSsh, SshSame, SshPlays
  <2>5. LockoutIsReported'
    BY <1>7, <2>1, SshSameReach DEF LockoutIsReported, SshPlays
  <2> QED BY <1>1, <1>3, <2>2, <2>3, <2>4, <2>5
<1>8. CASE play = "p21"
  <2>1. SshSame /\ play' \in {"p21", "none"} /\ recap'["p20"] = recap["p20"]
        /\ \A p \in SshPlays : recap'[p] = recap[p]
    BY <1>5, <1>6, <1>8, Step21 DEF SshPlays, Plays
  <2>2. Run20' /\ Run21' /\ RunSsh'
    BY <1>6, <1>8, <2>1, Step21 DEF Run20, Run21, RunSsh, SshPlays
  <2>3. Done21'
    BY <1>4, <1>6, <1>8, Step21 DEF Done21
  <2>4. Done20' /\ DoneSsh'
    BY <1>4, <2>1 DEF Done20, DoneSsh, SshSame, SshPlays
  <2>5. LockoutIsReported'
    BY <1>8, <2>1, SshSameReach DEF LockoutIsReported, SshPlays
  <2> QED BY <1>1, <1>3, <2>2, <2>3, <2>4, <2>5
<1>9. CASE play \in SshPlays
  <2>1. recap'["p20"] = recap["p20"] /\ recap'["p21"] = recap["p21"]
        /\ play' \in {play, "none"}
    BY <1>6, <1>9, Step10, Step11 DEF SshPlays, Plays
  <2>2. Run20' /\ Run21' /\ Done20' /\ Done21'
    BY <1>4, <1>9, <2>1 DEF Run20, Run21, Done20, Done21, SshPlays
  <2>3. recap["p10"] = "never" /\ recap["p11"] = "never"
    BY <1>9 DEF RunSsh, SshPlays
  <2>4. RunSsh'
    BY <1>6, <1>9, Step10, Step11 DEF RunSsh, SshPlays
  <2>5. DoneSsh'
    BY <1>6, <1>9, <2>3, Step10, Step11 DEF DoneSsh, SshPlays, Plays
  <2>6. LockoutIsReported'
    <3>1. CASE play' = play
      BY <1>9, <3>1 DEF LockoutIsReported
    <3>2. CASE play' = "none"
      <4>1. /\ play = "p10" => disk'.dropin = "good" /\ live'.sshd = "good"
            /\ play = "p11" => disk'.dropin = "none" /\ live'.sshd = "stock"
        BY <1>9, <3>2, Step10, Step11 DEF SshPlays
      <4> QED BY <1>9, <4>1 DEF LockoutIsReported, Reachable, Booted, Sshd, SshPlays
    <3> QED BY <2>1, <3>1, <3>2
  <2> QED BY <1>1, <1>3, <2>2, <2>4, <2>5, <2>6
<1> QED BY <1>1, <1>7, <1>8, <1>9 DEF Plays, SshPlays

LEMMA LaunchInv ==
    ASSUME IInv, NEW p \in Plays, Launch(p)
    PROVE  IInv'
<1> USE DEF IInv, Runs, Done
<1>1. play = "none" /\ play' = p /\ at' = 1 /\ UNCHANGED <<sshText, disk, live, faults>>
  BY DEF Launch
<1>2. \A q \in Plays : recap'[q] = IF p \in SshPlays /\ q \in SshPlays THEN "never" ELSE recap[q]
  BY DEF Launch
<1>3. TypeOK'
  <2>1. 1 \in 1 .. Len(TasksOf[p])
    BY Lengths
  <2>2. p # "none"
    BY DEF Plays, SshPlays
  <2>3. recap' \in [Plays -> {"never", "ok", "failed"}]
    BY DEF Launch, TypeOK
  <2> QED BY <1>1, <2>1, <2>2, <2>3 DEF TypeOK
<1>4. ServiceOK' /\ Run20' /\ Run21'
  BY <1>1 DEF ServiceOK, Run20, Run21
<1>5. RunSsh'
  <2>1. p \in SshPlays => \A q \in SshPlays : recap'[q] = "never"
    BY <1>2 DEF Plays
  <2> QED BY <1>1, <2>1 DEF RunSsh
<1>6. Done20' /\ Done21' /\ DoneSsh'
  BY <1>1, <1>2 DEF Done20, Done21, DoneSsh, Plays, SshPlays, HostReady, Ready
<1>7. LockoutIsReported'
  BY <1>1, <1>2 DEF LockoutIsReported, Reachable, Booted, Plays, SshPlays
<1> QED BY <1>3, <1>4, <1>5, <1>6, <1>7

\* A reboot brings back what is on disk, and ends a run as failed.
LEMMA RebootInv ==
    ASSUME IInv, Reboot
    PROVE  IInv'
<1> USE DEF IInv, Runs, Done
<1>1. live' = Booted(disk) /\ play' = "none" /\ at' = 1 /\ UNCHANGED <<sshText, disk>>
      /\ faults' \in 0 .. MaxFaults
  BY FaultsAssumption DEF Reboot, TypeOK
<1>2. \A p \in Plays : recap'[p] = IF p = play THEN "failed" ELSE recap[p]
  BY DEF Reboot, TypeOK, Plays, SshPlays
<1>3. Booted(disk) \in Lives
  <2>1. Containerd(disk) \in {"down", "cgroupfs", "systemd"} /\ Kubelet(disk) \in {"down", "anyIp", "nodeIp"}
        /\ Sshd(disk) \in {"stock", "good", "shut", "down"}
    BY DEF Containerd, Kubelet, Sshd, TypeOK, Disks, SshTexts
  <2>2. disk.swapFstab \in BOOLEAN /\ disk.sysctl \in BOOLEAN
    BY DEF TypeOK, Disks
  <2> QED BY <2>1, <2>2 DEF Booted, Lives
<1>4. TypeOK'
  <2>1. recap' \in [Plays -> {"never", "ok", "failed"}]
    BY DEF Reboot, TypeOK
  <2> QED BY <1>1, <1>3, <2>1 DEF TypeOK
<1>5. /\ live'.swap = disk.swapFstab /\ live'.sysctl = disk.sysctl
      /\ disk.modules => live'.modules = Modules
      /\ live'.cgroup = Containerd(disk) /\ live'.kubelet = Kubelet(disk) /\ live'.sshd = Sshd(disk)
  BY <1>1 DEF Booted
<1>6. ServiceOK'
  BY <1>1, <1>5 DEF ServiceOK, Containerd
<1>7. Run20' /\ Run21' /\ RunSsh'
  BY <1>1 DEF Run20, Run21, RunSsh, SshPlays
<1>8. Done20'
  BY <1>1, <1>2, <1>5, <1>6 DEF Done20, HostReady, Ready, Plays, ServiceOK
<1>9. Done21'
  BY <1>1, <1>2, <1>5 DEF Done21, Kubelet, Plays
<1>10. DoneSsh'
  BY <1>1, <1>2, <1>5 DEF DoneSsh, Sshd, Plays, SshPlays
<1>11. LockoutIsReported'
  <2>1. \A p \in SshPlays : recap[p] = "failed" => recap'[p] = "failed"
    BY <1>2 DEF Plays
  <2>2. play \in SshPlays => recap'[play] = "failed"
    BY <1>2 DEF Plays
  <2>3. Reachable(Booted(disk)) => Reachable(live') /\ Reachable(Booted(disk'))
    BY <1>1
  <2> QED BY <2>1, <2>2, <2>3 DEF LockoutIsReported
<1> QED BY <1>4, <1>6, <1>7, <1>8, <1>9, <1>10, <1>11

\* systemd, apt and git take nothing back; apt leaves packages on hold alone.
LEMMA QuietSteps ==
    ASSUME IInv, KubeletRestarts \/ AptUpgrade \/ \E text \in SshTexts : EditSshText(text)
    PROVE  IInv'
<1> USE DEF IInv, Runs, Done
<1>1. CASE KubeletRestarts
  <2>1. live' = [live EXCEPT !.kubelet = Kubelet(disk)] /\ disk' = disk
        /\ UNCHANGED <<sshText, play, at, recap, faults>>
    BY <1>1 DEF KubeletRestarts, SetLive
  <2>2. Kubelet(disk) \in {"down", "anyIp", "nodeIp"}
    BY DEF Kubelet
  <2>3. live' \in Lives
    BY <2>1, <2>2 DEF Lives, TypeOK
  <2>4. Grows /\ ServiceOK' /\ SshSame
    BY <2>1 DEF Grows, ServiceOK, SshSame, Lives, TypeOK
  <2>5. KubeletStays
    BY <2>1 DEF KubeletStays, Kubelet, Lives, TypeOK
  <2> QED BY <2>1, <2>3, <2>4, <2>5, QuietInv DEF TypeOK
<1>2. CASE AptUpgrade
  <2>1. disk' = [disk EXCEPT !.kube = "newer"] /\ live' = [live EXCEPT !.kubelet = Kubelet(disk')]
        /\ UNCHANGED <<sshText, play, at, recap, faults>>
    BY <1>2 DEF AptUpgrade
  <2>2. disk' \in Disks /\ Kubelet(disk') \in {"down", "anyIp", "nodeIp"}
    BY <2>1 DEF Disks, TypeOK, Kubelet
  <2>3. live' \in Lives
    BY <2>1, <2>2 DEF Lives, TypeOK
  <2>4. /\ disk'.containerd = disk.containerd /\ disk'.swapFstab = disk.swapFstab
        /\ disk'.modules = disk.modules /\ disk'.sysctl = disk.sysctl /\ disk'.hold = disk.hold
        /\ disk'.nodeIp = disk.nodeIp /\ disk'.kube = "newer" /\ disk'.include = disk.include
        /\ disk'.dropin = disk.dropin /\ disk'.config = disk.config
    BY <2>1 DEF Disks, TypeOK
  <2>5. /\ live'.swap = live.swap /\ live'.modules = live.modules /\ live'.sysctl = live.sysctl
        /\ live'.cgroup = live.cgroup /\ live'.sshd = live.sshd /\ live'.kubelet = Kubelet(disk')
    BY <2>1 DEF Lives, TypeOK
  <2>6. Grows /\ ServiceOK' /\ SshSame
    BY <2>4, <2>5 DEF Grows, ServiceOK, SshSame
  <2>7. KubeletStays
    BY <2>4, <2>5 DEF KubeletStays, Kubelet
  <2> QED BY <2>1, <2>2, <2>3, <2>6, <2>7, QuietInv DEF TypeOK
<1>3. ASSUME NEW text \in SshTexts, EditSshText(text)
      PROVE  IInv'
  <2>1. sshText' = text /\ UNCHANGED <<disk, live, play, at, recap>> /\ faults' \in 0 .. MaxFaults
    BY <1>3, FaultsAssumption DEF EditSshText, TypeOK
  <2>2. Grows /\ ServiceOK' /\ KubeletStays /\ SshSame
    BY <2>1 DEF Grows, ServiceOK, KubeletStays, SshSame
  <2> QED BY <2>1, <2>2, QuietInv DEF TypeOK
<1> QED BY <1>1, <1>2, <1>3

LEMMA FailSteps ==
    ASSUME IInv, TaskRefused \/ TaskFails
    PROVE  IInv'
<1> USE DEF IInv, Runs, Done
<1>1. play # "none" /\ End("failed") /\ sshText' = sshText /\ faults' \in 0 .. MaxFaults
  BY FaultsAssumption DEF TaskRefused, TaskFails, TypeOK
<1>2. CASE UNCHANGED <<disk, live>>
  <2>1. Grows /\ ServiceOK' /\ KubeletStays /\ SshSame
    BY <1>2 DEF Grows, ServiceOK, KubeletStays, SshSame
  <2> QED BY <1>1, <1>2, <2>1, FailedInv DEF TypeOK
<1>3. CASE Effect(Task)
  <2>1. play \notin SshPlays => SshSame
    BY <1>1, <1>3, EffectKeeps, TaskNotSsh DEF TypeOK
  <2> QED BY <1>1, <1>3, <2>1, EffectKeeps, FailedInv
<1>4. CASE \/ disk.config = "none" /\ \E part \in {"short", "broken"} : WriteFile("config", part)
           \/ WriteFile("keyring", "torn")
  BY <1>1, <1>4, TornKeeps, FailedInv
<1> QED BY <1>2, <1>3, <1>4 DEF TaskRefused, TaskFails

LEMMA NextInv == IInv /\ [Next]_vars => IInv'
<1> SUFFICES ASSUME IInv, [Next]_vars
             PROVE  IInv'
  OBVIOUS
<1>1. CASE UNCHANGED vars
  BY <1>1 DEF vars, IInv, TypeOK, ServiceOK, Runs, Run20, Run21, RunSsh, Done, Done20, Done21,
    DoneSsh, HostReady, Ready, LockoutIsReported, Reachable, Booted, Sshd
<1>2. CASE Next
  BY <1>2, LaunchInv, RunTaskInv, FailSteps, RebootInv, QuietSteps DEF Next
<1> QED BY <1>1, <1>2

LEMMA Invariant == Spec => []IInv
BY InitInv, NextInv, PTL DEF Spec

-----------------------------------------------------------------------------
(* The theorems.                                                           *)

\* Every file, service and task index stays in its range.
THEOREM NodeTypes == Spec => []TypeOK
BY Invariant, PTL DEF IInv

\* What a playbook was reported ok for holds now and after a reboot, whatever
\* ran, failed or was upgraded since.
LEMMA DoneIsDurable == IInv => SuccessIsDurable
<1> SUFFICES ASSUME IInv, NEW p \in Plays, recap[p] = "ok"
             PROVE  Goal(p, live) /\ Goal(p, Booted(disk))
  BY DEF SuccessIsDurable
<1>1. Done20 /\ Done21 /\ DoneSsh
  BY DEF IInv, Done
<1>2. /\ Booted(disk).swap = disk.swapFstab /\ Booted(disk).sysctl = disk.sysctl
      /\ disk.modules => Booted(disk).modules = Modules
      /\ Booted(disk).cgroup = Containerd(disk) /\ Booted(disk).kubelet = Kubelet(disk)
      /\ Booted(disk).sshd = Sshd(disk)
  BY DEF Booted
<1>3. CASE p = "p20"
  <2>1. HostReady(live) /\ Ready(disk)
    BY <1>1, <1>3 DEF Done20
  <2>2. HostReady(Booted(disk))
    BY <1>2, <2>1 DEF HostReady, Ready, Containerd
  <2> QED BY <1>3, <2>1, <2>2 DEF Goal
<1>4. CASE p = "p21"
  BY <1>1, <1>2, <1>4 DEF Done21, Goal, Kubelet
<1>5. CASE p = "p10"
  BY <1>1, <1>2, <1>5 DEF DoneSsh, Goal, Sshd
<1>6. CASE p = "p11"
  BY <1>1, <1>2, <1>6 DEF DoneSsh, Goal, Sshd
<1> QED BY <1>3, <1>4, <1>5, <1>6 DEF Plays, SshPlays

\* A successful recap of playbook 10, 11, 20 or 21 means that its goal is live
\* and survives a reboot.
THEOREM RecapIsDurable == Spec => []SuccessIsDurable
BY Invariant, DoneIsDurable, PTL

\* A drop-in that locks ops out, now or after a reboot to come, is always one
\* whose playbook is still running or was reported as failed.
THEOREM LockoutIsNoticed == Spec => []LockoutIsReported
BY Invariant, PTL DEF IInv

\* Once playbook 21 is ok, neither apt nor another run changes the packages.
LEMMA PackagesStep == IInv /\ [Next]_vars => (recap["p21"] = "ok" => disk'.kube = disk.kube)
<1> SUFFICES ASSUME IInv, [Next]_vars, recap["p21"] = "ok"
             PROVE  disk'.kube = disk.kube
  OBVIOUS
<1>1. disk.hold /\ disk.kube # "none" /\ disk \in Disks
  BY DEF IInv, Done, Done21, TypeOK
<1>2. ASSUME NEW t, Effect(t)
      PROVE  disk'.kube = disk.kube
  <2>1. CASE t = "kube"
    <3>1. disk' = [disk EXCEPT !.kube = IF @ = "none" THEN "pinned" ELSE @]
      BY <1>2, <2>1 DEF Effect, InstallKube, Modules
    <3> QED BY <1>1, <3>1 DEF Disks
  <2>2. CASE t # "kube"
    BY <1>1, <1>2, <2>2 DEF Effect, WriteFile, SetLive, InstallPackages, GenerateConfig, SetCgroup,
      InstallKey, LoadModule, Disks
  <2> QED BY <2>1, <2>2
<1>3. ~AptUpgrade
  BY <1>1 DEF AptUpgrade
<1>4. CASE (\E part \in {"short", "broken"} : WriteFile("config", part)) \/ WriteFile("keyring", "torn")
  BY <1>1, <1>4 DEF WriteFile, Disks
<1>5. CASE disk' = disk
  BY <1>5
<1> QED
  BY <1>2, <1>3, <1>4, <1>5 DEF Next, vars, Launch, RunTask, TaskRefused, TaskFails, Reboot,
    EditSshText, KubeletRestarts, SetLive

\* apt-mark hold, and state: present, keep the minor and the patch.
THEOREM PackagesAreHeld == Spec => PackagesStay
<1>1. IInv /\ [Next]_vars => [recap["p21"] = "ok" => disk'.kube = disk.kube]_vars
  BY PackagesStep
<1> QED BY <1>1, Invariant, PTL DEF Spec, PackagesStay

-----------------------------------------------------------------------------
(* The cgroup driver.                                                      *)

\* No step brings config.toml back to an earlier state, or takes containerd off
\* the driver that is in it.
ConfigStays ==
    /\ disk.config # "none" => disk'.config # "none"
    /\ disk.config \in {"systemd", "short", "broken"} => disk'.config = disk.config
    /\ disk.config = "systemd" /\ disk.containerd /\ live.cgroup = "systemd"
         => live'.cgroup = "systemd"

\* How far playbook 20 is with config.toml, and what its recap stands for.
Driver20 ==
    /\ play = "p20" =>
        /\ at > 9 => disk.config # "none"
        /\ at > 10 => disk.config \in {"systemd", "short", "broken"}
        /\ at > 11 =>
            /\ disk.config \in {"systemd", "short"}
            /\ disk.config = "systemd" => live.cgroup = "systemd"
    /\ recap["p20"] = "ok" =>
        /\ disk.config \in {"systemd", "short"}
        /\ disk.config = "systemd" => live.cgroup = "systemd"

LEMMA EffectConfig ==
    ASSUME TypeOK, NEW t, Effect(t)
    PROVE  /\ ConfigStays
           /\ t = "ctd_config" => disk'.config # "none"
           /\ t = "ctd_cgroup" /\ disk.config # "none"
                => disk'.config \in {"systemd", "short", "broken"}
           /\ t = "ctd_restart" => disk' = disk /\ live'.cgroup = Containerd(disk)
<1> USE DEF TypeOK
<1>1. CASE t = "packages"
  <2>1. disk' = [disk EXCEPT !.containerd = TRUE]
        /\ live' = [live EXCEPT !.cgroup = IF disk.containerd THEN @ ELSE Containerd(disk')]
    BY <1>1 DEF Effect, InstallPackages, Modules
  <2>2. disk'.config = disk.config
    BY <2>1 DEF Disks
  <2>3. disk.containerd => live'.cgroup = live.cgroup
    BY <2>1 DEF Lives
  <2> QED BY <1>1, <2>2, <2>3 DEF ConfigStays
<1>2. CASE t = "ctd_config"
  <2>1. live' = live
        /\ disk' = [disk EXCEPT !.config = IF disk.config = "none" THEN "default" ELSE disk.config]
    BY <1>2 DEF Effect, GenerateConfig, WriteFile, Modules
  <2>2. disk'.config = IF disk.config = "none" THEN "default" ELSE disk.config
    BY <2>1 DEF Disks
  <2> QED BY <1>2, <2>1, <2>2 DEF ConfigStays
<1>3. CASE t = "ctd_cgroup"
  <2>1. live' = live
        /\ disk' = [disk EXCEPT !.config = IF disk.config = "default" THEN "systemd" ELSE disk.config]
    BY <1>3 DEF Effect, SetCgroup, WriteFile, Modules
  <2>2. disk'.config = IF disk.config = "default" THEN "systemd" ELSE disk.config
    BY <2>1 DEF Disks
  <2>3. disk.config \in {"none", "short", "broken", "default", "systemd"}
    BY DEF Disks
  <2> QED BY <1>3, <2>1, <2>2, <2>3 DEF ConfigStays
<1>4. CASE t = "ctd_restart"
  <2>1. disk' = disk /\ live' = [live EXCEPT !.cgroup = Containerd(disk)]
    BY <1>4 DEF Effect, SetLive, Modules
  <2>2. live'.cgroup = Containerd(disk)
    BY <2>1 DEF Lives
  <2> QED BY <1>4, <2>1, <2>2 DEF ConfigStays, Containerd
<1>5. CASE t \notin {"packages", "ctd_config", "ctd_cgroup", "ctd_restart"}
  <2>1. disk'.config = disk.config
    BY <1>5 DEF Effect, WriteFile, SetLive, InstallKube, InstallKey, LoadModule, Disks
  <2>2. live'.cgroup = live.cgroup
    BY <1>5 DEF Effect, WriteFile, SetLive, InstallKube, InstallKey, LoadModule, Lives
  <2> QED BY <1>5, <2>1, <2>2 DEF ConfigStays
<1> QED BY <1>1, <1>2, <1>3, <1>4, <1>5

\* Reboots and upgrades included; only a file that is not there is cut short.
LEMMA NextConfig ==
    ASSUME IInv, Next
    PROVE  ConfigStays \/ (Reboot /\ disk' = disk /\ live'.cgroup = Containerd(disk))
<1> USE DEF IInv
<1>1. ASSUME NEW t, Effect(t)
      PROVE  ConfigStays
  BY <1>1, EffectConfig
<1>2. CASE UNCHANGED <<disk, live>>
  BY <1>2 DEF ConfigStays
<1>3. CASE disk.config = "none" /\ \E part \in {"short", "broken"} : WriteFile("config", part)
  BY <1>3 DEF WriteFile, ConfigStays, Disks, TypeOK
<1>4. CASE WriteFile("keyring", "torn")
  BY <1>4 DEF WriteFile, ConfigStays, Disks, TypeOK
<1>5. CASE Reboot
  BY <1>5 DEF Reboot, Booted
<1>6. CASE KubeletRestarts
  BY <1>6 DEF KubeletRestarts, SetLive, ConfigStays, Lives, TypeOK
<1>7. CASE AptUpgrade
  <2>1. disk'.config = disk.config
    BY <1>7 DEF AptUpgrade, Disks, TypeOK
  <2>2. live'.cgroup = live.cgroup
    BY <1>7 DEF AptUpgrade, Lives, TypeOK
  <2> QED BY <2>1, <2>2 DEF ConfigStays
<1> QED
  BY <1>1, <1>2, <1>3, <1>4, <1>5, <1>6, <1>7
  DEF Next, Launch, RunTask, TaskRefused, TaskFails, EditSshText

\* A task of playbook 20 that succeeds.
LEMMA TaskDriver ==
    ASSUME IInv, Driver20, play = "p20", NEW t, RunTask(t)
    PROVE  Driver20'
<1>1. t = Play20[at] /\ at \in 1 .. 12 /\ Effect(t) /\ Len(TasksOf[play]) = 12
  BY TaskIn20 DEF RunTask, IInv
<1>2. /\ at = 9 => t = "ctd_config"
      /\ at = 10 => t = "ctd_cgroup"
      /\ at = 11 => t = "ctd_restart"
  BY <1>1 DEF Play20
<1>3. at > 1 => disk.containerd
  BY DEF IInv, Runs, Run20
<1>4. /\ at >= 9 => disk'.config # "none"
      /\ at >= 10 => disk'.config \in {"systemd", "short", "broken"}
      /\ at >= 11 =>
          /\ disk'.config \in {"systemd", "short"}
          /\ disk'.config = "systemd" => live'.cgroup = "systemd"
  <2>1. TypeOK
    BY DEF IInv
  <2>2. /\ ConfigStays
        /\ t = "ctd_config" => disk'.config # "none"
        /\ t = "ctd_cgroup" /\ disk.config # "none"
             => disk'.config \in {"systemd", "short", "broken"}
        /\ t = "ctd_restart" => disk' = disk /\ live'.cgroup = Containerd(disk)
    BY <1>1, <2>1, EffectConfig
  <2>3. CASE at < 9
    BY <1>1, <2>3
  <2>4. CASE at = 9
    BY <1>2, <2>2, <2>4
  <2>5. CASE at = 10
    BY <1>2, <2>2, <2>5 DEF Driver20, ConfigStays
  <2>6. CASE at = 11
    <3>1. disk.config # "broken" /\ disk.containerd
      BY <1>2, <1>3, <2>6 DEF RunTask, Works
    <3> QED BY <1>2, <2>2, <2>6, <3>1 DEF Driver20, Containerd
  <2>7. CASE at = 12
    BY <1>3, <2>2, <2>7 DEF Driver20, ConfigStays
  <2> QED BY <1>1, <2>3, <2>4, <2>5, <2>6, <2>7
<1>5. CASE at = 12
  <2>1. play' = "none"
    BY <1>1, <1>5 DEF RunTask, End
  <2> QED BY <1>4, <1>5, <2>1 DEF Driver20
<1>6. CASE at # 12
  <2>1. at' = at + 1 /\ play' = play /\ recap' = recap
    BY <1>1, <1>6 DEF RunTask
  <2>2. recap["p20"] = "ok" =>
          disk'.config \in {"systemd", "short"} /\ (disk'.config = "systemd" => live'.cgroup = "systemd")
    BY <1>1, EffectConfig DEF Driver20, ConfigStays, IInv, Done, Done20, Ready
  <2> QED BY <1>1, <1>4, <2>1, <2>2 DEF Driver20
<1> QED BY <1>5, <1>6

LEMMA NextDriver == IInv /\ Driver20 /\ [Next]_vars => Driver20'
<1> SUFFICES ASSUME IInv, Driver20, [Next]_vars
             PROVE  Driver20'
  OBVIOUS
<1>1. CASE UNCHANGED vars
  BY <1>1 DEF vars, Driver20
<1>2. CASE play = "p20" /\ \E t \in Tasks : RunTask(t)
  BY <1>2, TaskDriver
<1>3. CASE Next /\ ~(play = "p20" /\ \E t \in Tasks : RunTask(t))
  <2>1. \/ play' # "p20"
        \/ play' = play /\ at' = at /\ at \in Nat
        \/ at' = 1
    BY <1>3 DEF Next, Launch, RunTask, TaskRefused, TaskFails, End, Reboot, EditSshText,
      KubeletRestarts, AptUpgrade, IInv, TypeOK
  <2>2. recap'["p20"] = "ok" => recap["p20"] = "ok"
    BY <1>3 DEF Next, Launch, RunTask, TaskRefused, TaskFails, End, Reboot, EditSshText,
      KubeletRestarts, AptUpgrade, IInv, TypeOK, Plays, SshPlays
  <2>3. recap["p20"] = "ok" => disk.containerd
    BY DEF IInv, Done, Done20, Ready
  <2>4. play = "p20" /\ at > 11 => disk.containerd
    BY DEF IInv, Runs, Run20, TypeOK
  <2>5. CASE ConfigStays
    BY <2>1, <2>2, <2>3, <2>4, <2>5 DEF Driver20, ConfigStays
  <2>6. CASE Reboot /\ disk' = disk /\ live'.cgroup = Containerd(disk)
    <3>1. play' = "none"
      BY <2>6 DEF Reboot
    <3> QED BY <2>2, <2>3, <2>6, <3>1 DEF Driver20, Containerd
  <2> QED BY <1>3, <2>5, <2>6, NextConfig
<1> QED BY <1>1, <1>2, <1>3

\* The driver of docs/14 is what a successful recap of playbook 20 stands for,
\* now and after a reboot, with the one exception of a config.toml that was cut
\* short and is valid all the same.
DriverUnlessShort ==
    recap["p20"] = "ok" =>
        \/ disk.config = "short"
        \/ live.cgroup = "systemd" /\ Booted(disk).cgroup = "systemd"

\* Nothing else than the redirection of playbook 20 leads to the cgroupfs
\* driver: no order of failures, reruns, upgrades and reboots does.
THEOREM DriverIsSystemd == Spec => []DriverUnlessShort
<1>1. Init => Driver20
  BY DEF Init, Driver20, Plays
<1>2. IInv /\ Driver20 => DriverUnlessShort
  BY DEF IInv, Done, Done20, Ready, Driver20, DriverUnlessShort, Booted, Containerd
<1> QED BY <1>1, <1>2, Invariant, NextDriver, PTL DEF Spec

-----------------------------------------------------------------------------
(* Starting again.  RerunRepairs itself needs the fairness of the operator *)
(* and of Ansible; that no task is refused does not.                       *)

\* A repository is only ever set up after its key.
KeyFirst ==
    /\ disk.repo => disk.keyring # "none"
    /\ play = "p21" =>
        /\ at > 2 => disk.keyring # "none"
        /\ at > 3 => disk.repo

\* Playbooks 20 and 21 meet no state that refuses one of their tasks, whatever
\* earlier runs left behind, with three exceptions: a key that was cut short; for
\* playbook 20 a config.toml that was cut within a line; a node that lets nobody
\* in.
RerunNotRefused ==
    play \in {"p20", "p21"} =>
        \/ Works(Task)
        \/ disk.keyring = "torn"
        \/ play = "p20" /\ disk.config = "broken"
        \/ ~Reachable(live)

LEMMA EffectKey ==
    ASSUME TypeOK, NEW t, Effect(t)
    PROVE  /\ disk.keyring # "none" => disk'.keyring # "none"
           /\ disk.repo => disk'.repo
           /\ t # "repo" => disk'.repo = disk.repo
           /\ t = "key" => disk'.keyring # "none"
           /\ t = "repo" => disk'.repo /\ disk'.keyring = disk.keyring
<1> USE DEF TypeOK
<1>1. CASE t = "key"
  <2>1. disk' = [disk EXCEPT !.keyring = IF disk.keyring = "none" THEN "good" ELSE disk.keyring]
    BY <1>1 DEF Effect, InstallKey, WriteFile, Modules
  <2>2. /\ disk'.keyring = IF disk.keyring = "none" THEN "good" ELSE disk.keyring
        /\ disk'.repo = disk.repo
    BY <2>1 DEF Disks
  <2> QED BY <1>1, <2>2
<1>2. CASE t = "repo"
  <2>1. disk' = [disk EXCEPT !.repo = TRUE]
    BY <1>2 DEF Effect, WriteFile, Modules
  <2>2. disk'.repo /\ disk'.keyring = disk.keyring
    BY <2>1 DEF Disks
  <2> QED BY <1>2, <2>2
<1>3. CASE t \notin {"key", "repo"}
  <2>1. disk'.keyring = disk.keyring
    BY <1>3 DEF Effect, WriteFile, SetLive, InstallPackages, InstallKube, GenerateConfig,
      SetCgroup, LoadModule, Disks
  <2>2. disk'.repo = disk.repo
    BY <1>3 DEF Effect, WriteFile, SetLive, InstallPackages, InstallKube, GenerateConfig,
      SetCgroup, LoadModule, Disks
  <2> QED BY <1>3, <2>1, <2>2
<1> QED BY <1>1, <1>2, <1>3

\* The third task of playbook 21 is the only one that sets the repository up.
LEMMA TaskRepo ==
    ASSUME TypeOK, play # "none", Task = "repo"
    PROVE  play = "p21" /\ at = 3
<1>1. CASE play = "p20"
  BY <1>1, TaskIn20 DEF Play20
<1>2. CASE play = "p21"
  BY <1>2, TaskIn21 DEF Play21
<1>3. CASE play = "p10"
  BY <1>3, TaskIn10 DEF Play10
<1>4. CASE play = "p11"
  BY <1>4, TaskIn11 DEF Play11
<1> QED BY <1>1, <1>2, <1>3, <1>4 DEF TypeOK, Plays, SshPlays

LEMMA NextKeyDisk ==
    ASSUME TypeOK, KeyFirst, Next
    PROVE  /\ disk.keyring # "none" => disk'.keyring # "none"
           /\ disk.repo => disk'.repo
           /\ disk'.repo => disk'.keyring # "none"
<1>1. CASE play # "none" /\ Effect(Task)
  <2>1. Task = "repo" => disk.keyring # "none"
    BY <1>1, TaskRepo DEF KeyFirst
  <2> QED BY <1>1, <2>1, EffectKey DEF KeyFirst
<1>2. CASE UNCHANGED disk
  BY <1>2 DEF KeyFirst
<1>3. CASE (\E part \in {"short", "broken"} : WriteFile("config", part)) \/ WriteFile("keyring", "torn")
  <2>1. disk'.repo = disk.repo /\ disk'.keyring \in {disk.keyring, "torn"}
    BY <1>3 DEF WriteFile, Disks, TypeOK
  <2> QED BY <2>1 DEF KeyFirst
<1>4. CASE AptUpgrade
  <2>1. disk'.repo = disk.repo /\ disk'.keyring = disk.keyring
    BY <1>4 DEF AptUpgrade, Disks, TypeOK
  <2> QED BY <2>1 DEF KeyFirst
<1>5. ASSUME NEW t \in Tasks, RunTask(t)
      PROVE  UNCHANGED disk \/ (play # "none" /\ Effect(Task))
  <2>1. Task = t /\ Effect(t)
    BY <1>5 DEF RunTask
  <2>2. t # "none"
    BY <2>1 DEF Effect, Modules
  <2>3. play # "none"
    BY <2>1, <2>2 DEF Task
  <2> QED BY <2>1, <2>3
<1> QED
  BY <1>1, <1>2, <1>3, <1>4, <1>5
  DEF Next, Launch, TaskRefused, TaskFails, Reboot, EditSshText, KubeletRestarts, SetLive

LEMMA NextKey == TypeOK /\ KeyFirst /\ [Next]_vars => KeyFirst'
<1> SUFFICES ASSUME TypeOK, KeyFirst, [Next]_vars
             PROVE  KeyFirst'
  OBVIOUS
<1>1. CASE UNCHANGED vars
  BY <1>1 DEF vars, KeyFirst
<1>2. ASSUME NEW t \in Tasks, RunTask(t), play = "p21"
      PROVE  KeyFirst'
  <2>1. t = Play21[at] /\ at \in 1 .. 8 /\ Effect(t) /\ Len(TasksOf[play]) = 8
    BY <1>2, TaskIn21 DEF RunTask
  <2>2. /\ at = 2 => t = "key"
        /\ at = 3 => t = "repo"
    BY <2>1 DEF Play21
  <2>3. (at = 2 => disk'.keyring # "none") /\ (at = 3 => disk'.repo)
    BY <2>1, <2>2, EffectKey
  <2>4. /\ disk.keyring # "none" => disk'.keyring # "none"
        /\ disk.repo => disk'.repo
        /\ disk'.repo => disk'.keyring # "none"
    BY <1>2, NextKeyDisk DEF Next
  <2>5. at' = at + 1 \/ play' = "none"
    BY <1>2 DEF RunTask, End
  <2> QED BY <1>2, <2>1, <2>3, <2>4, <2>5 DEF KeyFirst
<1>3. CASE Next /\ ~(play = "p21" /\ \E t \in Tasks : RunTask(t))
  <2>1. \/ play' # "p21"
        \/ play' = play /\ at' = at
        \/ at' = 1
    BY <1>3 DEF Next, Launch, RunTask, TaskRefused, TaskFails, End, Reboot, EditSshText,
      KubeletRestarts, AptUpgrade, TypeOK
  <2> QED BY <1>3, <2>1, NextKeyDisk DEF KeyFirst
<1> QED BY <1>1, <1>2, <1>3

LEMMA NotRefused == IInv /\ KeyFirst => RerunNotRefused
<1> SUFFICES ASSUME IInv, KeyFirst, play \in {"p20", "p21"}, disk.keyring # "torn",
                    Reachable(live), play = "p20" => disk.config # "broken"
             PROVE  Works(Task)
  BY DEF RerunNotRefused
<1>1. disk.keyring \in {"none", "torn", "good"} /\ at \in Nat
  BY DEF IInv, TypeOK, Disks
<1>2. AptWorks
  BY <1>1 DEF AptWorks, KeyFirst
<1>3. CASE play = "p20"
  <2>1. Task = Play20[at] /\ at \in 1 .. 12
    BY <1>3, TaskIn20 DEF IInv
  <2>2. Task \notin {"ssh_test", "ssh_reload", "kube"}
    BY <2>1 DEF Play20
  <2>3. Task = "sysctl" => at > 6
    BY <2>1 DEF Play20
  <2>4. Task = "ctd_status" => at > 1
    BY <2>1 DEF Play20
  <2>5. Task = "sysctl" => "br_netfilter" \in live.modules
    BY <1>3, <2>3 DEF IInv, Runs, Run20
  <2>6. Task = "ctd_status" => live.cgroup # "down"
    BY <1>3, <2>4 DEF IInv, Runs, Run20, ServiceOK
  <2> QED BY <1>2, <1>3, <2>2, <2>5, <2>6 DEF Works
<1>4. CASE play = "p21"
  <2>1. Task = Play21[at] /\ at \in 1 .. 8
    BY <1>4, TaskIn21 DEF IInv
  <2>2. Task \notin {"ssh_test", "ssh_reload", "sysctl", "ctd_restart", "ctd_status"}
    BY <2>1 DEF Play21
  <2>3. Task = "kube" => at > 3
    BY <2>1 DEF Play21
  <2>4. Task = "kube" => disk.repo
    BY <1>4, <2>3 DEF KeyFirst
  <2> QED BY <1>2, <2>2, <2>4 DEF Works
<1> QED BY <1>3, <1>4

\* A run of playbook 20 or 21 fails only by a fault of its own: nothing that
\* earlier runs, reboots or upgrades left behind stands in its way.
THEOREM RerunsAreNotRefused == Spec => []RerunNotRefused
<1>1. Init => KeyFirst
  BY DEF Init, KeyFirst
<1>2. IInv => TypeOK
  BY DEF IInv
<1> QED BY <1>1, <1>2, Invariant, NextKey, NotRefused, PTL DEF Spec
=============================================================================
