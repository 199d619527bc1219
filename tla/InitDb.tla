-------------------------------- MODULE InitDb --------------------------------
(***************************************************************************)
(* The hook Job osdu-postgres-initdb of Application osdu-deps              *)
(* (k8s/osdu/deps/base/postgres-initdb/postgres-initdb-job.yaml): for each *)
(* database in turn it asks pg_database whether it exists and creates it   *)
(* if not, under `set -euo pipefail`, with backoffLimit 3.                 *)
(*                                                                         *)
(* A new sync deletes the old Job (BeforeHookCreation).  Its pod runs      *)
(* `sh -c` as process 1, which ignores the TERM signal, so it goes on      *)
(* beside the new Job's pod for the rest of its grace period.              *)
(***************************************************************************)
EXTENDS Naturals, Sequences, FiniteSets

CONSTANTS
    Order,        \* DBS, the databases in the order of the loop
    Pods,         \* the pods that may run at the same time
    NoPod,
    BackoffLimit, \* pods that may fail before the Job is given up
    MaxSyncs      \* bound: syncs that run the hook

Databases == {Order[k] : k \in DOMAIN Order}

ASSUME OrderAssumption ==
    /\ Order \in Seq(Databases)
    /\ \A j, k \in DOMAIN Order : Order[j] = Order[k] => j = k

ASSUME LimitsAssumption ==
    BackoffLimit \in Nat /\ MaxSyncs \in Nat /\ NoPod \notin Pods

VARIABLES
    created,  \* the databases in Postgres, on its persistent volume
    pg,       \* Postgres answers
    job,      \* the status of the hook Job
    owner,    \* the pod the Job counts, or NoPod
    failures, \* its pods that failed
    pc,       \* where the script of each pod is
    at,       \* the database its loop is at
    syncs,    \* syncs so far
    collided, \* history: databases whose CREATE failed a pod of this Job
    hiccup    \* history: a pod of this Job failed for any other reason

vars == <<created, pg, job, owner, failures, pc, at, syncs, collided, hiccup>>
sync == <<job, owner, failures, syncs, collided, hiccup>>

TypeOK ==
    /\ created \subseteq Databases
    /\ pg \in BOOLEAN
    /\ job \in {"none", "active", "complete", "failed"}
    /\ owner \in Pods \cup {NoPod}
    /\ failures \in 0 .. BackoffLimit + 1
    /\ failures = BackoffLimit + 1 <=> job = "failed"
    /\ pc \in [Pods -> {"off", "wait", "check", "create"}]
    /\ at \in [Pods -> 1 .. Len(Order) + 1]
    /\ syncs \in 0 .. MaxSyncs
    /\ collided \subseteq Databases
    /\ hiccup \in BOOLEAN

Init ==
    /\ created = {}
    /\ pg = FALSE
    /\ job = "none"
    /\ owner = NoPod
    /\ failures = 0
    /\ pc = [p \in Pods |-> "off"]
    /\ at = [p \in Pods |-> 1]
    /\ syncs = 0
    /\ collided = {}
    /\ hiccup = FALSE

-----------------------------------------------------------------------------
(* Argo CD and the Job controller.                                         *)

\* PostSync of a new sync: the old Job goes, its pod may stay for a while.
StartHook ==
    /\ syncs < MaxSyncs
    /\ job' = "active"
    /\ owner' = NoPod
    /\ failures' = 0
    /\ syncs' = syncs + 1
    /\ collided' = {}
    /\ hiccup' = FALSE
    /\ UNCHANGED <<created, pg, pc, at>>

\* restartPolicy Never: each attempt is a pod of its own.
CreatePod(p) ==
    /\ job = "active" /\ owner = NoPod
    /\ pc[p] = "off"
    /\ owner' = p
    /\ pc' = [pc EXCEPT ![p] = "wait"]
    /\ at' = [at EXCEPT ![p] = 1]
    /\ UNCHANGED <<created, pg, job, failures, syncs, collided, hiccup>>

\* Fault: failed pods are replaced without limit.
CountFailureUnlimited(p) ==
    /\ pc' = [pc EXCEPT ![p] = "off"]
    /\ owner' = IF owner = p THEN NoPod ELSE owner
    /\ UNCHANGED <<job, failures, syncs>>

\* Fault: one pod more than backoffLimit allows.
CountFailureLate(p) ==
    /\ pc' = [pc EXCEPT ![p] = "off"]
    /\ UNCHANGED syncs
    /\ IF owner # p THEN UNCHANGED <<job, owner, failures>>
       ELSE /\ owner' = NoPod
            /\ failures' = failures + 1
            /\ job' = IF failures > BackoffLimit THEN "failed" ELSE job

\* The Job counts the exit of its own pod, and gives up after the last one.
CountFailure(p) ==
    /\ pc' = [pc EXCEPT ![p] = "off"]
    /\ UNCHANGED syncs
    /\ IF owner # p THEN UNCHANGED <<job, owner, failures>>
       ELSE /\ owner' = NoPod
            /\ failures' = failures + 1
            /\ job' = IF failures = BackoffLimit THEN "failed" ELSE job

-----------------------------------------------------------------------------
(* The script of a pod.                                                    *)

Ready(p) ==
    /\ pc[p] = "wait"
    /\ pg
    /\ pc' = [pc EXCEPT ![p] = "check"]
    /\ UNCHANGED <<created, pg, at, sync>>

Looping(p) == pc[p] = "check" /\ at[p] <= Len(Order)

\* EXISTS = 1: on to the next database.
Exists(p) ==
    /\ Looping(p)
    /\ pg
    /\ Order[at[p]] \in created
    /\ at' = [at EXCEPT ![p] = at[p] + 1]
    /\ UNCHANGED <<created, pg, pc, sync>>

\* Fault: the check is dropped and every database is created.
MissingAlways(p) ==
    /\ Looping(p)
    /\ pg
    /\ pc' = [pc EXCEPT ![p] = "create"]
    /\ UNCHANGED <<created, pg, at, sync>>

Missing(p) ==
    /\ Looping(p)
    /\ pg
    /\ Order[at[p]] \notin created
    /\ pc' = [pc EXCEPT ![p] = "create"]
    /\ UNCHANGED <<created, pg, at, sync>>

Create(p) ==
    /\ pc[p] = "create"
    /\ pg
    /\ Order[at[p]] \notin created
    /\ created' = created \cup {Order[at[p]]}
    /\ pc' = [pc EXCEPT ![p] = "check"]
    /\ at' = [at EXCEPT ![p] = at[p] + 1]
    /\ UNCHANGED <<pg, sync>>

\* CREATE DATABASE fails: another pod created it after this one's check.
Collide(p) ==
    /\ pc[p] = "create"
    /\ pg
    /\ Order[at[p]] \in created
    /\ CountFailure(p)
    /\ collided' = IF owner = p THEN collided \cup {Order[at[p]]} ELSE collided
    /\ UNCHANGED <<created, pg, at, hiccup>>

\* A psql without a server or losing it, before or after its CREATE took
\* effect; or the pod is evicted, or killed at the end of its grace period.
PodFails(p) ==
    /\ pc[p] # "off"
    /\ created' \in IF pc[p] = "create" THEN {created, created \cup {Order[at[p]]}}
                                        ELSE {created}
    /\ CountFailure(p)
    /\ hiccup' = (hiccup \/ owner = p)
    /\ UNCHANGED <<pg, at, collided>>

\* Fault: the loop stops one database early.
FinishEarly(p) ==
    /\ pc[p] = "check" /\ at[p] >= Len(Order)
    /\ pc' = [pc EXCEPT ![p] = "off"]
    /\ owner' = IF owner = p THEN NoPod ELSE owner
    /\ job' = IF owner = p THEN "complete" ELSE job
    /\ UNCHANGED <<created, pg, failures, at, syncs, collided, hiccup>>

\* "Initdb done."
Finish(p) ==
    /\ pc[p] = "check" /\ at[p] > Len(Order)
    /\ pc' = [pc EXCEPT ![p] = "off"]
    /\ owner' = IF owner = p THEN NoPod ELSE owner
    /\ job' = IF owner = p THEN "complete" ELSE job
    /\ UNCHANGED <<created, pg, failures, at, syncs, collided, hiccup>>

\* Postgres goes and comes back; its databases are on a persistent volume.
PgDown == pg /\ pg' = FALSE /\ UNCHANGED <<created, pc, at, sync>>
PgUp == ~pg /\ pg' = TRUE /\ UNCHANGED <<created, pc, at, sync>>

Advance(p) == Exists(p) \/ Missing(p) \/ Create(p) \/ Collide(p) \/ Finish(p)

\* Past the waiting loop, a pod fails when Postgres is away.
Work(p) == Advance(p) \/ (pc[p] # "wait" /\ ~pg /\ PodFails(p))

Next ==
    \/ StartHook
    \/ \E p \in Pods : CreatePod(p) \/ Ready(p) \/ Advance(p) \/ PodFails(p)
    \/ PgDown \/ PgUp

Spec == Init /\ [][Next]_vars

\* Pods run, Postgres comes back each time, and it stays long enough for a
\* pod to see it: pg_isready is retried every two seconds.
FairSpec ==
    /\ Spec
    /\ WF_vars(PgUp)
    /\ WF_vars(\E p \in Pods : CreatePod(p))
    /\ \A p \in Pods : SF_vars(Ready(p)) /\ WF_vars(Work(p))

-----------------------------------------------------------------------------
(* Properties.                                                             *)

\* The hook implements its promise: whatever fails, collides or is retried, no
\* database is lost and the Job succeeds only when all of them exist.
Promise == INSTANCE EnsureDatabases WITH done <- job = "complete"

KeepsPromise == Promise!Spec

\* Two overlapping hooks are no endless fight: every retry a collision costs
\* the Job is paid for with one more database.
CollisionsPaid == ~hiccup => failures <= Cardinality(created)

\* The sync does not hang on its hook: the Job ends, one way or the other.
JobEnds == job = "active" ~> job # "active"
=============================================================================
