----------------------------- MODULE DeployHelper -----------------------------
(***************************************************************************)
(* community.general.deploy_helper (plugins/modules/deploy_helper.py): the *)
(* releases of a project, the link `current` to the one that is served,    *)
(* and the sessions that deploy, finalize and clean.                       *)
(*                                                                         *)
(* A deploy is a play: state=present, the play's own tasks that fetch and  *)
(* build the release, and state=finalize.  A file in a release marks it as *)
(* unfinished.  Each look at the file system and each change of it is a    *)
(* step, so that sessions can come in between; a session may end anywhere. *)
(* The time of a directory is the time it was made, marked or unmarked.    *)
(* Check mode changes nothing and is left out.                             *)
(***************************************************************************)
EXTENDS Naturals, FiniteSets

CONSTANTS
    Sessions,
    Releases,
    Keep,      \* keep_releases
    None       \* no link, no release, no session

ASSUME KeepAssumption == Keep \in Nat \ {0}

ASSUME NoneAssumption == None \notin Releases /\ None \notin Sessions

VARIABLES
    root,       \* the project's folders exist
    built,      \* the folders in releases_path
    unfinished, \* those with the file unfinished_filename
    newer,      \* <<q, r>>: q's folder has the later time
    link,       \* what current points to
    tmp,        \* what current.DEPLOY_UNFINISHED points to
    kind,       \* "deploy" or "clean"
    at,         \* the next step of each session
    rel,        \* the task's release, None for a clean without one
    todo,       \* the folders a session has listed and not dealt with
    victim,     \* the folder a session is about to remove
    outcome,    \* how the session `sole` ended
    sole        \* history: the session that has had the project to itself

vars == <<root, built, unfinished, newer, link, tmp, kind, at, rel, todo, victim, outcome, sole>>
folders == <<root, built, unfinished, newer>>
links == <<link, tmp>>
task == <<kind, rel>>

Steps == {"idle", "fetch", "mark", "build", "unmark", "link", "symlink", "tmpcheck",
          "tmpmake", "rename", "list", "look", "strike", "remove"}

TypeOK ==
    /\ root \in BOOLEAN
    /\ built \in SUBSET Releases
    /\ unfinished \in SUBSET built
    /\ newer \in SUBSET (built \X built)
    /\ link \in Releases \cup {None}
    /\ tmp \in Releases \cup {None}
    /\ kind \in [Sessions -> {"deploy", "clean"}]
    /\ at \in [Sessions -> Steps]
    /\ rel \in [Sessions -> Releases \cup {None}]
    /\ todo \in [Sessions -> SUBSET Releases]
    /\ victim \in [Sessions -> Releases \cup {None}]
    /\ outcome \in {"none", "ok", "tidy", "failed", "died"}
    /\ sole \in Sessions \cup {None}
    /\ built # {} => root
    /\ \A s \in Sessions :
          /\ at[s] = "strike" => victim[s] # None
          /\ at[s] \in {"fetch", "mark", "build", "unmark", "link", "symlink", "tmpcheck",
                        "tmpmake", "rename"} => kind[s] = "deploy" /\ rel[s] # None

Init ==
    /\ root = FALSE
    /\ built = {}
    /\ unfinished = {}
    /\ newer = {}
    /\ link = None
    /\ tmp = None
    /\ kind = [s \in Sessions |-> "deploy"]
    /\ at = [s \in Sessions |-> "idle"]
    /\ rel = [s \in Sessions |-> None]
    /\ todo = [s \in Sessions |-> {}]
    /\ victim = [s \in Sessions |-> None]
    /\ outcome = "none"
    /\ sole = None

-----------------------------------------------------------------------------
(* Folders and their times.                                                *)

Without(r) == {p \in newer : p[1] # r /\ p[2] # r}

\* Release r's folder is there and has the latest time.
Touch(r) ==
    /\ built' = built \cup {r}
    /\ newer' = Without(r) \cup {<<r, q>> : q \in built \ {r}}

Delete(r) ==
    /\ built' = built \ {r}
    /\ unfinished' = unfinished \ {r}
    /\ newer' = Without(r)
    /\ UNCHANGED root

\* Fault: the slice drops one release too many.
ExcessOffByOne(reserve) ==
    {r \in built \ {reserve} : Cardinality({q \in built \ {reserve} : <<q, r>> \in newer}) >= Keep - 1}

\* Fault: the slice starts one release too late.
ExcessTooFew(reserve) ==
    {r \in built \ {reserve} : Cardinality({q \in built \ {reserve} : <<q, r>> \in newer}) > Keep}

\* Fault: the release of the task is not reserved.
ExcessUnreserved(reserve) ==
    {r \in built : Cardinality({q \in built : <<q, r>> \in newer}) >= Keep}

\* releases[keep_releases:], sorted by time, without the reserved one.
Excess(reserve) ==
    {r \in built \ {reserve} : Cardinality({q \in built \ {reserve} : <<q, r>> \in newer}) >= Keep}

-----------------------------------------------------------------------------
(* Sessions.                                                               *)

GoTo(s, step) ==
    /\ at' = [at EXCEPT ![s] = step]
    /\ UNCHANGED <<task, todo, victim, outcome, sole>>

\* Nothing is claimed of the end of a session that shared the project.
Finish(s, result) ==
    /\ at' = [at EXCEPT ![s] = "idle"]
    /\ todo' = [todo EXCEPT ![s] = {}]
    /\ victim' = [victim EXCEPT ![s] = None]
    /\ outcome' = IF sole = s THEN result ELSE outcome
    /\ UNCHANGED <<task, sole>>

\* What sessions that are over worked on is forgotten.
Begin(s, k, r, step) ==
    /\ at[s] = "idle"
    /\ at' = [at EXCEPT ![s] = step]
    /\ kind' = [q \in Sessions |-> IF q = s THEN k ELSE IF at[q] = "idle" THEN "deploy" ELSE kind[q]]
    /\ rel' = [q \in Sessions |-> IF q = s THEN r ELSE IF at[q] = "idle" THEN None ELSE rel[q]]
    /\ outcome' = "none"
    /\ sole' = IF \E q \in Sessions : at[q] # "idle" THEN None ELSE s
    /\ UNCHANGED <<todo, victim>>

\* state=present, at the beginning of a deploy.
Present(s, r) ==
    /\ Begin(s, "deploy", r, "fetch")
    /\ root' = TRUE
    /\ UNCHANGED <<built, unfinished, newer, links>>

\* state=finalize without a build before it: back to an earlier release, or to
\* one that is not there.
Return(s, r) == Begin(s, "deploy", r, "unmark") /\ UNCHANGED <<folders, links>>

\* Fault: state=clean takes the branch of state=finalize.
CleanFinalizes(s, r) == Begin(s, "clean", r, "unmark") /\ UNCHANGED <<folders, links>>

Clean(s, r) == Begin(s, "clean", r, "list") /\ UNCHANGED <<folders, links>>

\* state=absent removes the whole project.
Absent ==
    /\ root' = FALSE
    /\ built' = {} /\ unfinished' = {} /\ newer' = {}
    /\ link' = None /\ tmp' = None
    /\ sole' = None
    /\ UNCHANGED <<task, at, todo, victim, outcome>>

\* The play's own tasks: the checkout, the marker, the build.
Fetch(s) ==
    /\ at[s] = "fetch"
    /\ root' = TRUE
    /\ IF rel[s] \in built THEN UNCHANGED <<built, newer>> ELSE Touch(rel[s])
    /\ GoTo(s, "mark")
    /\ UNCHANGED <<unfinished, links>>

Mark(s) ==
    /\ at[s] = "mark"
    /\ IF rel[s] \in built \ unfinished
       THEN Touch(rel[s]) /\ unfinished' = unfinished \cup {rel[s]} /\ GoTo(s, "build")
       ELSE /\ UNCHANGED <<built, newer, unfinished>>
            /\ IF rel[s] \in built THEN GoTo(s, "build") ELSE Finish(s, "died")
    /\ UNCHANGED <<root, links>>

Build(s) ==
    /\ at[s] = "build"
    /\ GoTo(s, "unmark")
    /\ UNCHANGED <<folders, links>>

-----------------------------------------------------------------------------
(* state=finalize.                                                         *)

\* remove_unfinished_file
Unmark(s) ==
    /\ at[s] = "unmark"
    /\ IF rel[s] \in unfinished
       THEN Touch(rel[s]) /\ unfinished' = unfinished \ {rel[s]}
       ELSE UNCHANGED <<built, newer, unfinished>>
    /\ GoTo(s, "link")
    /\ UNCHANGED <<root, links>>

\* `clean` may be off.
Linked(s) == GoTo(s, "list") \/ Finish(s, "ok")

\* Fault: the target is not looked for before the link is switched.
LinkBlindly(s) ==
    /\ at[s] = "link"
    /\ \/ link = None /\ GoTo(s, "symlink")
       \/ link = rel[s] /\ Linked(s)
       \/ link \notin {None, rel[s]} /\ GoTo(s, "tmpcheck")
    /\ UNCHANGED <<folders, links>>

\* create_link.  The target is looked for only when there is a link already.
Link(s) ==
    /\ at[s] = "link"
    /\ \/ link = None /\ GoTo(s, "symlink")
       \/ link = rel[s] /\ Linked(s)
       \/ link \notin {None, rel[s]} /\ rel[s] \in built /\ GoTo(s, "tmpcheck")
       \/ link \notin {None, rel[s]} /\ rel[s] \notin built /\ Finish(s, "failed")
    /\ UNCHANGED <<folders, links>>

\* os.symlink fails when there is something of that name, or no folder.
Symlink(s) ==
    /\ at[s] = "symlink"
    /\ IF root /\ link = None
       THEN link' = rel[s] /\ Linked(s)
       ELSE UNCHANGED link /\ Finish(s, "failed")
    /\ UNCHANGED <<folders, tmp>>

\* Fault: a link whose target is gone does not count as existing.
TmpCheckTarget(s) ==
    /\ at[s] = "tmpcheck"
    /\ tmp' = IF tmp \in built THEN None ELSE tmp
    /\ GoTo(s, "tmpmake")
    /\ UNCHANGED <<folders, link>>

\* What a session that died left under the temporary name is removed.
TmpCheck(s) ==
    /\ at[s] = "tmpcheck"
    /\ tmp' = None
    /\ GoTo(s, "tmpmake")
    /\ UNCHANGED <<folders, link>>

TmpMake(s) ==
    /\ at[s] = "tmpmake"
    /\ IF root /\ tmp = None
       THEN tmp' = rel[s] /\ GoTo(s, "rename")
       ELSE UNCHANGED tmp /\ Finish(s, "failed")
    /\ UNCHANGED <<folders, link>>

\* Fault: the old link is removed before the new one gets its name.
RenameInTwo(s) ==
    /\ at[s] = "rename"
    /\ \/ link # None /\ link' = None /\ UNCHANGED tmp /\ GoTo(s, "rename")
       \/ link = None /\ tmp # None /\ link' = tmp /\ tmp' = None /\ Linked(s)
       \/ link = None /\ tmp = None /\ UNCHANGED links /\ Finish(s, "failed")
    /\ UNCHANGED folders

\* os.rename puts whatever the temporary link is now in the place of current.
Rename(s) ==
    /\ at[s] = "rename"
    /\ IF tmp # None
       THEN link' = tmp /\ tmp' = None /\ Linked(s)
       ELSE UNCHANGED links /\ Finish(s, "failed")
    /\ UNCHANGED folders

-----------------------------------------------------------------------------
(* Cleaning, for finalize and for state=clean.                             *)

\* What is left of a listing, and the folder about to be removed.
Left(s, T, v, step) ==
    /\ at' = [at EXCEPT ![s] = step]
    /\ todo' = [todo EXCEPT ![s] = T]
    /\ victim' = [victim EXCEPT ![s] = v]
    /\ UNCHANGED <<task, outcome, sole>>

\* remove_unfinished_builds: os.listdir
List(s) ==
    /\ at[s] = "list"
    /\ IF root THEN Left(s, built, None, "look") ELSE Finish(s, "failed")
    /\ UNCHANGED <<folders, links>>

Look(s, r) ==
    /\ at[s] = "look"
    /\ r \in todo[s]
    /\ IF r \in unfinished
       THEN Left(s, todo[s] \ {r}, r, "strike")
       ELSE Left(s, todo[s] \ {r}, None, "look")
    /\ UNCHANGED <<folders, links>>

\* The marker may be gone by now.
Strike(s) ==
    /\ at[s] = "strike"
    /\ Delete(victim[s])
    /\ Left(s, todo[s], None, "look")
    /\ UNCHANGED links

\* rmtree stops half way, and the marker is among what it has removed: the
\* rest looks like a finished release, and the latest.
StrikeStops(s) ==
    /\ at[s] = "strike"
    /\ victim[s] \in built
    /\ Touch(victim[s])
    /\ unfinished' = unfinished \ {victim[s]}
    /\ Finish(s, "died")
    /\ UNCHANGED <<root, links>>

\* cleanup: what is too much is settled before the first folder goes.  The
\* release of the task is reserved, not the one current points to.
Rank(s) ==
    /\ at[s] = "look"
    /\ todo[s] = {}
    /\ Left(s, Excess(rel[s]), None, "remove")
    /\ UNCHANGED <<folders, links>>

Remove(s, r) ==
    /\ at[s] = "remove"
    /\ r \in todo[s]
    /\ Delete(r)
    /\ Left(s, todo[s] \ {r}, None, "remove")
    /\ UNCHANGED links

Cleaned(s) ==
    /\ at[s] = "remove"
    /\ todo[s] = {}
    /\ Finish(s, "tidy")
    /\ UNCHANGED <<folders, links>>

\* A failed task of the play, a lost connection, a killed process.
Die(s) ==
    /\ at[s] # "idle"
    /\ Finish(s, "died")
    /\ UNCHANGED <<folders, links>>

-----------------------------------------------------------------------------

FinalizeStep(s) ==
    Unmark(s) \/ Link(s) \/ Symlink(s) \/ TmpCheck(s) \/ TmpMake(s) \/ Rename(s)

CleanStep(s) ==
    \/ List(s) \/ Strike(s) \/ StrikeStops(s) \/ Rank(s) \/ Cleaned(s)
    \/ \E r \in Releases : Look(s, r) \/ Remove(s, r)

Next ==
    \/ \E s \in Sessions, r \in Releases : Present(s, r) \/ Return(s, r)
    \/ \E s \in Sessions, r \in Releases \cup {None} : Clean(s, r)
    \/ \E s \in Sessions : Fetch(s) \/ Mark(s) \/ Build(s) \/ Die(s)
    \/ \E s \in Sessions : FinalizeStep(s) \/ CleanStep(s)
    \/ Absent

Spec == Init /\ [][Next]_vars

-----------------------------------------------------------------------------
(* Properties.                                                             *)

\* The web server's root goes through current: whatever sessions overlap or
\* die, once there is a link there always is one, until the project is removed.
LinkStays == [][link # None /\ root' => link' # None]_vars

Served == link \in built

\* A deploy that has the project to itself never takes away what is served,
\* in none of its steps, and whatever sessions that died have left behind.
DeployKeepsServing ==
    [][sole # None /\ sole' = sole /\ kind'[sole] = "deploy" /\ Served => Served']_vars

\* A session that has the project to itself removes a release only when it is
\* marked, or when as many newer ones as are to be kept stay.
OnlyOldOnesGo ==
    [][sole # None /\ sole' = sole =>
         \A r \in built \ built' :
            \/ r \in unfinished
            \/ Cardinality({q \in built' : <<q, r>> \in newer}) >= Keep]_vars

\* Whatever sessions overlap, what is served goes only as a build some session
\* has seen marked, or in a cleanup for another release: what a cleanup keeps is
\* the release of its own task, also when it lists the folders before, and
\* removes them after, another session has switched the link to it.
ReservedStays ==
    [][Served /\ link \notin built' /\ root' =>
         \E s \in Sessions :
            \/ Strike(s) /\ victim[s] = link
            \/ Remove(s, link) /\ rel[s] # link]_vars

\* A finalize that has the project to itself and succeeds has made its release
\* the current one; with `clean` it leaves no unfinished build and no more
\* releases than are to be kept next to its own.
SuccessIsCurrent ==
    sole # None /\ outcome \in {"ok", "tidy"} /\ kind[sole] = "deploy" =>
        /\ link = rel[sole]
        /\ outcome = "tidy" =>
              unfinished = {} /\ Cardinality(built \ {rel[sole]}) <= Keep

\* Nothing a dead session left makes a later one fail: a finalize that has the
\* project to itself fails only when its release is not there.
RetrySucceeds ==
    sole # None /\ outcome = "failed" /\ kind[sole] = "deploy" => rel[sole] \notin built

\* However a finalize ends that has the project to itself, the outcome it
\* reports is what is true of the releases and the link.
OutcomeIsTrue == SuccessIsCurrent /\ RetrySucceeds
=============================================================================
