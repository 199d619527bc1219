----------------------------- MODULE IptablesState -----------------------------
(***************************************************************************)
(* community.general.iptables_state with state=restored: the action plugin *)
(* on the controller (plugins/action/iptables_state.py) and the module on  *)
(* the host (plugins/modules/iptables_state.py).                           *)
(*                                                                         *)
(* New rules may cut the controller off from the host.  So the module      *)
(* saves the old ones in a file, the cookie, waits for the plugin's        *)
(* starter, loads the new rules and watches the cookie.  The plugin tries  *)
(* to remove it through a new connection; if it is still there when the    *)
(* time is over, the module loads the old rules again.                     *)
(*                                                                         *)
(* Both files have a fixed path: plays on one host share them.  The two    *)
(* sides have no clock in common, so a timeout may come at any time.       *)
(* Tasks without async, which have no rollback, are left out, and so is    *)
(* what the plugin reports.                                                *)
(***************************************************************************)
CONSTANTS
    Plays,     \* sessions that may run the task on this host
    Tables,    \* filter, nat, ...
    Contents,  \* what a table can hold
    Accepting, \* what a table holds that was only just loaded
    Barred,    \* the contents that refuse the controller
    Absent,    \* a table the kernel has not loaded, or a file does not mention
    Files,     \* the texts the source file may have
    Scopes,    \* the table option: all tables, or one of them
    None       \* no cookie; no play

Rulesets == [Tables -> Contents \cup {Absent}]

ASSUME ContentsAssumption ==
    /\ Accepting \in Contents \ Barred
    /\ Barred \subseteq Contents
    /\ Absent \notin Contents

ASSUME FilesAssumption == Files \subseteq Rulesets

ASSUME ScopesAssumption == Scopes \subseteq {Tables} \cup {{t} : t \in Tables}

ASSUME NoneAssumption == None \notin Rulesets /\ None \notin Plays

VARIABLES
    rules,   \* the rules in force
    file,    \* the text at the task's path
    cookie,  \* {async_dir}/iptables.state: the saved rules, or None
    starter, \* there is an iptables.state.starter
    ctl,     \* where each play's action plugin is
    job,     \* where the module it started is, or how it ended
    check,   \* the plays in check mode
    scope,   \* each play's table option
    sole,    \* history: the play that has had the host to itself since it began
    before,  \* history: what that play's module saved
    mishaps  \* history: what went wrong for it

vars == <<rules, file, cookie, starter, ctl, job, check, scope, sole, before, mishaps>>
host == <<rules, file, cookie, starter>>
options == <<check, scope>>
history == <<sole, before, mishaps>>

CtlRuns == {"query", "start", "startEnded", "confirm", "poll"}

\* The rules the task is about are not in force yet.
Untouched == {"read", "test", "await", "restore"}

JobRuns == Untouched \cup {"watch", "rollback", "remove"}

JobEnds == {"ok", "failed", "rolledback", "killed"}

Mishaps == {"early", "edited", "locked", "killed", "unwatched"}

TypeOK ==
    /\ rules \in Rulesets
    /\ file \in Files
    /\ cookie \in Rulesets \cup {None}
    /\ starter \in BOOLEAN
    /\ ctl \in [Plays -> CtlRuns \cup {"idle"}]
    /\ job \in [Plays -> JobRuns \cup JobEnds \cup {"none"}]
    /\ check \in SUBSET Plays
    /\ scope \in [Plays -> Scopes]
    /\ sole \in Plays \cup {None}
    /\ before \in Rulesets
    /\ mishaps \in SUBSET Mishaps
    /\ \A p \in check : job[p] \in {"none", "read", "test"} \cup JobEnds

-----------------------------------------------------------------------------
(* Rules.                                                                  *)

Cuts(r) == \E t \in Tables : r[t] \in Barred

NoTables == [t \in Tables |-> Absent]

Only(S, r) == [t \in Tables |-> IF t \in S THEN r[t] ELSE Absent]

\* iptables-restore: each table of the text replaces the one in force.
Over(new, old) == [t \in Tables |-> IF new[t] = Absent THEN old[t] ELSE new[t]]

\* Fault: a table that is not loaded yet is not initialised before the backup.
NeverInitialized(text, r) == r

\* initialize_from_null_state: a table that is going to be restored is loaded
\* first, so that the backup has it.
Initialized(text, r) ==
    [t \in Tables |-> IF text[t] # Absent /\ r[t] = Absent THEN Accepting ELSE r[t]]

Init ==
    /\ rules \in {r \in Rulesets : ~Cuts(r)}
    /\ file \in Files
    /\ cookie = None
    /\ starter = FALSE
    /\ ctl = [p \in Plays |-> "idle"]
    /\ job = [p \in Plays |-> "none"]
    /\ check = {}
    /\ scope \in [Plays -> Scopes]
    /\ sole = None
    /\ before = NoTables
    /\ mishaps = {}

-----------------------------------------------------------------------------
(* The action plugin.                                                      *)

Busy(p) == ctl[p] # "idle" \/ job[p] \in JobRuns

Mishap(p, what) ==
    /\ mishaps' = IF sole = p THEN mishaps \cup {what} ELSE mishaps
    /\ UNCHANGED <<sole, before>>

CtlTo(p, c) == ctl' = [ctl EXCEPT ![p] = c]

\* A play that finds the host at rest has it to itself until another begins.
Start(p, S) ==
    /\ ~Busy(p)
    /\ ~Cuts(rules)
    /\ CtlTo(p, "query")
    /\ job' = [job EXCEPT ![p] = "read"]
    /\ check' \in {check \cup {p}, check \ {p}}
    /\ scope' = [scope EXCEPT ![p] = S]
    /\ sole' = IF \E q \in Plays : Busy(q) THEN None ELSE p
    /\ before' = NoTables
    /\ mishaps' = {}
    /\ UNCHANGED host

\* The first async_status, to catch early errors.
Query(p) ==
    /\ ctl[p] = "query"
    /\ CtlTo(p, IF job[p] \in JobEnds THEN "startEnded" ELSE "start")
    /\ UNCHANGED <<host, job, options, history>>

\* The starter is touched even for a job that is over.
TouchStarter(p) ==
    /\ ctl[p] \in {"start", "startEnded"}
    /\ starter' = TRUE
    /\ CtlTo(p, IF ctl[p] = "start" THEN "confirm" ELSE "idle")
    /\ UNCHANGED <<rules, file, cookie, job, options, history>>

\* Fault: the connection is not reset, and the one that is still open gets
\* through whatever the new rules say.
ConfirmOldConnection(p) ==
    /\ ctl[p] = "confirm"
    /\ cookie' = None
    /\ CtlTo(p, "poll")
    /\ IF job[p] \in Untouched THEN Mishap(p, "early") ELSE UNCHANGED history
    /\ UNCHANGED <<rules, file, starter, job, options>>

\* rm -f of the cookie, through a new connection.  It succeeds as well while
\* the old rules are still in force, and when there is no cookie yet.
Confirm(p) ==
    /\ ctl[p] = "confirm"
    /\ ~Cuts(rules)
    /\ cookie' = None
    /\ CtlTo(p, "poll")
    /\ IF job[p] \in Untouched THEN Mishap(p, "early") ELSE UNCHANGED history
    /\ UNCHANGED <<rules, file, starter, job, options>>

\* Every attempt failed, be it for the rules or for the network.
GiveUp(p) ==
    /\ ctl[p] = "confirm"
    /\ CtlTo(p, "poll")
    /\ UNCHANGED <<host, job, options, history>>

\* async_status until the job is over, the time is, or the connection fails.
Poll(p) ==
    /\ ctl[p] = "poll"
    /\ CtlTo(p, "idle")
    /\ UNCHANGED <<host, job, options, history>>

\* A connection failure outside the loop ends the task; so does the operator.
Unreachable(p) ==
    /\ ctl[p] \in CtlRuns
    /\ CtlTo(p, "idle")
    /\ UNCHANGED <<host, job, options, history>>

-----------------------------------------------------------------------------
(* The module.                                                             *)

JobTo(p, j) == job' = [job EXCEPT ![p] = j]

\* Fault: a backup that is already there is not written again.
ReadKeepsBackup(p) ==
    /\ job[p] = "read"
    /\ scope[p] = Tables \/ \E t \in scope[p] : file[t] # Absent
    /\ rules' = Initialized(Only(scope[p], file), rules)
    /\ cookie' = IF p \in check \/ cookie # None THEN cookie ELSE Only(scope[p], rules')
    /\ before' = IF sole = p THEN Only(scope[p], rules') ELSE before
    /\ JobTo(p, "test")
    /\ UNCHANGED <<file, starter, ctl, options, sole, mishaps>>

\* Tables without a backup are loaded, in a check run as well; the rules are
\* saved, and written to the cookie.
Read(p) ==
    /\ job[p] = "read"
    /\ scope[p] = Tables \/ \E t \in scope[p] : file[t] # Absent
    /\ rules' = Initialized(Only(scope[p], file), rules)
    /\ cookie' = IF p \in check THEN cookie ELSE Only(scope[p], rules')
    /\ before' = IF sole = p THEN Only(scope[p], rules') ELSE before
    /\ JobTo(p, "test")
    /\ UNCHANGED <<file, starter, ctl, options, sole, mishaps>>

\* An option, the source or a command is not usable.
ReadFails(p) ==
    /\ job[p] = "read"
    /\ JobTo(p, "failed")
    /\ UNCHANGED <<host, ctl, options, history>>

\* Fault: check mode is not looked at any more after the test.
TestThenAwait(p) ==
    /\ job[p] = "test"
    /\ JobTo(p, "await") \/ JobTo(p, "failed")
    /\ UNCHANGED <<host, ctl, options, history>>

\* iptables-restore --test for each table; a failure leaves the cookie behind.
\* A check run ends here.
Test(p) ==
    /\ job[p] = "test"
    /\ JobTo(p, IF p \in check THEN "ok" ELSE "await") \/ JobTo(p, "failed")
    /\ UNCHANGED <<host, ctl, options, history>>

\* Any starter will do, that of an earlier play included.
Await(p) ==
    /\ job[p] = "await"
    /\ starter
    /\ starter' = FALSE
    /\ JobTo(p, "restore")
    /\ UNCHANGED <<rules, file, cookie, ctl, options, history>>

\* iptables-restore reads the file again; tables that the kernel refuses are
\* passed over.
RulesLoaded(p) == \E S \in SUBSET scope[p] : rules' = Over(Only(S, file), rules)

\* Whatever the return code, the new rules are saved and watched.
Restore(p) ==
    /\ job[p] = "restore"
    /\ RulesLoaded(p)
    /\ JobTo(p, "watch")
    /\ UNCHANGED <<file, cookie, starter, ctl, options, history>>

\* The new rules are in force, and the module ends before its watch: they cannot
\* be saved (check_rc), or the load had to wait for the xtables lock, of which
\* the message alone counts as a failure.  The cookie is left behind.
RestoreUnwatched(p) ==
    /\ job[p] = "restore"
    /\ RulesLoaded(p)
    /\ JobTo(p, "failed")
    /\ Mishap(p, "unwatched")
    /\ UNCHANGED <<file, cookie, starter, ctl, options>>

\* Another program holds the xtables lock; the cookie is left behind.
RestoreLocked(p) ==
    /\ job[p] = "restore"
    /\ JobTo(p, "failed")
    /\ UNCHANGED <<host, ctl, options, history>>

WatchEnds(p) ==
    /\ job[p] = "watch"
    /\ cookie = None
    /\ JobTo(p, "ok")
    /\ UNCHANGED <<host, ctl, options, history>>

\* Fault: the watch has no end.
WatchForever(p) ==
    /\ job[p] = "watch"
    /\ cookie # None
    /\ UNCHANGED vars

\* The cookie was there at the last look.
WatchExpires(p) ==
    /\ job[p] = "watch"
    /\ cookie # None
    /\ JobTo(p, "rollback")
    /\ UNCHANGED <<host, ctl, options, history>>

\* The old rules are loaded from whatever backup is there.
Rollback(p) ==
    /\ job[p] = "rollback"
    /\ cookie # None
    /\ rules' = Over(Only(scope[p], cookie), rules)
    /\ JobTo(p, "remove")
    /\ UNCHANGED <<file, cookie, starter, ctl, options, history>>

\* The backup was removed after the last look, or the lock is held.
RollbackFails(p) ==
    /\ job[p] = "rollback"
    /\ JobTo(p, "failed")
    /\ IF cookie # None THEN Mishap(p, "locked") ELSE UNCHANGED history
    /\ UNCHANGED <<host, ctl, options>>

RemoveBackup(p) ==
    /\ job[p] = "remove"
    /\ cookie' = None
    /\ JobTo(p, IF cookie # None THEN "rolledback" ELSE "failed")
    /\ UNCHANGED <<rules, file, starter, ctl, options, history>>

\* The async wrapper ends a job at its own time limit; an administrator may.
JobDies(p) ==
    /\ job[p] \in JobRuns
    /\ JobTo(p, "killed")
    /\ Mishap(p, "killed")
    /\ UNCHANGED <<host, ctl, options>>

\* Somebody replaces the source file.
EditFile(f) ==
    /\ file' = f
    /\ IF sole # None /\ job[sole] \in Untouched \ {"read"}
       THEN Mishap(sole, "edited") ELSE UNCHANGED history
    /\ UNCHANGED <<rules, cookie, starter, ctl, job, options>>

-----------------------------------------------------------------------------

CtlStep(p) ==
    \/ Query(p) \/ TouchStarter(p) \/ Confirm(p) \/ GiveUp(p) \/ Poll(p)
    \/ Unreachable(p)

JobStep(p) ==
    \/ Read(p) \/ ReadFails(p) \/ Test(p) \/ Await(p)
    \/ Restore(p) \/ RestoreUnwatched(p) \/ RestoreLocked(p)
    \/ WatchEnds(p) \/ WatchExpires(p)
    \/ Rollback(p) \/ RollbackFails(p) \/ RemoveBackup(p)

Next ==
    \/ \E p \in Plays, S \in Scopes : Start(p, S)
    \/ \E p \in Plays : CtlStep(p) \/ JobStep(p) \/ JobDies(p)
    \/ \E f \in Files : EditFile(f)

Spec == Init /\ [][Next]_vars

\* A process on the host that is not killed goes on. Nothing is assumed of the
\* controller or of the network.
FairSpec == Spec /\ \A p \in Plays : WF_vars(JobStep(p))

-----------------------------------------------------------------------------
(* Properties.                                                             *)

\* The module's notes: the rollback is there so that a mistake in the rules
\* does not lose the access to the host.  A play that has had the host for
\* itself, whose confirmation did not overtake its own iptables-restore, whose
\* file was not replaced after it was checked, and whose job was neither killed
\* nor refused the lock for its rollback, and did not end between the load and
\* the watch, leaves a host the controller reaches: confirmed, rolled back, with
\* rules loaded half way, or abandoned by its controller.
AccessKept ==
    sole # None /\ mishaps = {} /\ job[sole] \in JobEnds => ~Cuts(rules)

\* As long as the host is cut off by such a play, the rules that let the
\* controller in are in the backup, even when the job that should load them was
\* killed, could not take the lock or ended before its watch.
BackupKept ==
    sole # None /\ mishaps \subseteq {"locked", "killed", "unwatched"} /\ Cuts(rules)
        => cookie = before /\ ~Cuts(Over(before, rules))

\* After a rollback every table the task was about holds what it held before,
\* also when the new rules failed half way or the confirmation was early.
RollbackRestores ==
    sole # None /\ "edited" \notin mishaps /\ job[sole] \in {"remove", "rolledback"}
        => \A t \in scope[sole] : rules[t] = before[t]

\* A host that is cut off comes back by itself, whatever happens to the
\* controller; the exceptions are those of AccessKept, and plays that overlap.
LockoutEnds == Cuts(rules) ~> (~Cuts(rules) \/ sole = None \/ mishaps # {})
=============================================================================
