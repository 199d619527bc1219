---------------------------- MODULE PartitionSeed ----------------------------
(***************************************************************************)
(* The properties of partition "osdu", the six scripts that write them     *)
(* through the Partition API, the Redis cache in front of them and the     *)
(* services that keep what they read until they are restarted.             *)
(*                                                                         *)
(*   p01     scripts/bootstrap/01-init-partition.sh                        *)
(*   p04     scripts/bootstrap/04-fix-partition-tenantinfo.sh              *)
(*   p05     scripts/bootstrap/05-fix-domain-mismatch.sh                   *)
(*   seed    scripts/seed-partition-osdu.sh                                *)
(*   step20  scripts/bootstrap/bootstrap-step20.sh                         *)
(*   init    scripts/bootstrap/init-partition-osdu.sh                      *)
(*                                                                         *)
(* One operator runs them, in any order and any number of times.  A        *)
(* `curl -s` without -f that gets an HTTP error has done nothing and       *)
(* reports success; a kubectl exec that breaks off, before or after its    *)
(* command took effect, ends the script only under `set -e`.               *)
(***************************************************************************)
EXTENDS Naturals, Sequences

CONSTANTS
    Services,  \* the services that read the partition
    Restarted, \* the ones 05-fix-domain-mismatch.sh restarts
    Awaited,   \* the ones whose rollout it waits for
    Empty,     \* nothing cached, nothing read yet
    Gone       \* no old pod

Scripts == {"p01", "p04", "p05", "seed", "step20", "init"}

\* The properties whose value depends on the script that wrote it last.
Keys == {"domain", "datasource", "amqpPassword"}

\* "unset" is an absent property. The two passwords are the literal stored as
\* such, and the literal marked sensitive, which services take for the name of
\* an environment variable. The two data sources are one database per service
\* and one schema per service in database osdu.
Values == {"unset", "osdu.local", "osdu.internal", "osdu.osdu.local",
           "perServiceDb", "perServiceSchema", "literal", "literalAsName"}

Properties == [Keys -> Values]

NoProperties == [k \in Keys |-> "unset"]

\* What each script's payload sets.
Payload ==
    [ p01    |-> [domain |-> "osdu.local", datasource |-> "perServiceDb"],
      p04    |-> [domain |-> "osdu.internal", datasource |-> "perServiceSchema"],
      p05    |-> [domain |-> "osdu.osdu.local"],
      seed   |-> [amqpPassword |-> "literalAsName"],
      step20 |-> [amqpPassword |-> "literal"],
      init   |-> [amqpPassword |-> "literal"] ]

\* Fault: 05-fix-domain-mismatch.sh restarts the services before the flush.
ProgramRestartFirst ==
    [ p01    |-> <<"patch">>,
      p04    |-> <<"patch", "flush">>,
      p05    |-> <<"patch", "restart", "wait", "flush">>,
      seed   |-> <<"token", "check", "patch", "flush">>,
      step20 |-> <<"token", "patch", "groups", "flush">>,
      init   |-> <<"token", "list", "write">> ]

\* The commands of each script that can change state or end it.
Program ==
    [ p01    |-> <<"patch">>,
      p04    |-> <<"patch", "flush">>,
      p05    |-> <<"patch", "flush", "restart", "wait">>,
      seed   |-> <<"token", "check", "patch", "flush">>,
      step20 |-> <<"token", "patch", "groups", "flush">>,
      init   |-> <<"token", "list", "write">> ]

SetE == {"p01", "seed", "step20", "init"}

\* What a script leaves in step with the properties when all its commands did
\* what they are for: the cache, the cache and the restarted services, nothing.
Promise ==
    [ p01 |-> "none", p04 |-> "cache", p05 |-> "readers",
      seed |-> "cache", step20 |-> "cache", init |-> "none" ]

ASSUME ServicesAssumption == Awaited \subseteq Restarted /\ Restarted \subseteq Services

ASSUME EmptyAssumption == Empty \notin Properties /\ Gone \notin Properties \cup {Empty}

VARIABLES
    exists,  \* partition osdu exists
    props,   \* its properties
    cache,   \* the copy in Redis
    mem,     \* the copy each service's newest pod works with
    old,     \* the copy of the pod that a rollout has yet to replace, or Gone
    script,  \* the script being run, or "none"
    pc,      \* the index of its next command
    method,  \* init's choice between POST and PATCH
    clean,   \* history: every command of this run did what it is for
    kept     \* history: what was promised since the properties were last written

vars == <<exists, props, cache, mem, old, script, pc, method, clean, kept>>
partition == <<exists, props>>
readers == <<cache, mem, old>>
run == <<script, pc, method, clean, kept>>

TypeOK ==
    /\ exists \in BOOLEAN
    /\ props \in Properties
    /\ cache \in Properties \cup {Empty}
    /\ mem \in [Services -> Properties \cup {Empty}]
    /\ old \in [Services -> Properties \cup {Empty, Gone}]
    /\ script \in Scripts \cup {"none"}
    /\ pc \in 1 .. 4
    /\ script \in Scripts => pc <= Len(Program[script])
    /\ method \in {"POST", "PATCH"}
    /\ clean \in BOOLEAN
    /\ kept \in {"none", "cache", "readers"}

Init ==
    /\ exists = FALSE
    /\ props = NoProperties
    /\ cache = Empty
    /\ mem = [s \in Services |-> Empty]
    /\ old = [s \in Services |-> Gone]
    /\ script = "none"
    /\ pc = 1
    /\ method = "PATCH"
    /\ clean = TRUE
    /\ kept = "none"

-----------------------------------------------------------------------------
(* Running a script.                                                       *)

Command == IF script = "none" THEN "none" ELSE Program[script][pc]

Launch(s) ==
    /\ script = "none"
    /\ script' = s
    /\ pc' = 1
    /\ clean' = TRUE
    /\ UNCHANGED <<partition, readers, method, kept>>

\* A write of the properties ends what earlier scripts promised.
Still == IF props' = props THEN kept ELSE "none"

\* On to the next command; after the last one the script prints its success.
Continue(fine) ==
    /\ clean' = (clean /\ fine)
    /\ IF pc < Len(Program[script])
       THEN pc' = pc + 1 /\ kept' = Still /\ UNCHANGED script
       ELSE /\ pc' = 1
            /\ script' = "none"
            /\ kept' = IF clean' /\ Promise[script] # "none"
                       THEN Promise[script] ELSE Still

\* `set -e` ends the script; the others go on.
Fail ==
    IF script \in SetE
    THEN /\ script' = "none"
         /\ pc' = 1
         /\ clean' = FALSE
         /\ kept' = Still
    ELSE Continue(FALSE)

-----------------------------------------------------------------------------
(* The commands.                                                           *)

\* An empty token ends seed and init; step20 goes on with it.
Token ==
    /\ Command = "token"
    /\ UNCHANGED <<partition, readers, method>>
    /\ \/ Continue(TRUE)
       \/ script = "step20" /\ Continue(FALSE)
       \/ Fail

\* seed: create the partition on 404; any other status, an error's included,
\* is taken for "exists", and an error answer to the POST for "created".
Check ==
    /\ Command = "check"
    /\ UNCHANGED <<props, readers, method>>
    /\ \/ exists' = TRUE /\ Continue(TRUE)
       \/ exists' = exists /\ Continue(exists)
       \/ exists' \in {exists, TRUE} /\ Fail

\* init: PATCH if the listing shows the partition; an error answer shows
\* nothing.
List ==
    /\ Command = "list"
    /\ UNCHANGED <<partition, readers>>
    /\ \/ method' = (IF exists THEN "PATCH" ELSE "POST") /\ Continue(TRUE)
       \/ method' = "POST" /\ Continue(FALSE)
       \/ UNCHANGED method /\ Fail

\* Fault: the update replaces the properties, as a PUT would.
MergeReplaces(payload) == payload

Merge(payload) ==
    [k \in Keys |-> IF k \in DOMAIN payload THEN payload[k] ELSE props[k]]

\* PATCH merges the payload; an HTTP error, on a missing partition or for any
\* other reason, is not noticed.
Patch ==
    /\ Command = "patch"
    /\ \/ exists /\ props' = Merge(Payload[script]) /\ (Continue(TRUE) \/ Fail)
       \/ UNCHANGED props /\ (Continue(FALSE) \/ Fail)
    /\ UNCHANGED <<exists, readers, method>>

\* init: PATCH, or POST with the properties; `curl -s | head` hides the
\* conflict of a POST on an existing partition and every other failure.
Write ==
    /\ Command = "write"
    /\ \/ /\ exists <=> method = "PATCH"
          /\ exists' = TRUE
          /\ props' = Merge(Payload[script])
          /\ Continue(TRUE)
       \/ UNCHANGED partition /\ Continue(FALSE)
    /\ UNCHANGED <<readers, method>>

\* step20: the search groups (|| true) and the SQL that repairs them.
Groups ==
    /\ Command = "groups"
    /\ UNCHANGED <<partition, readers, method>>
    /\ Continue(TRUE) \/ Continue(FALSE) \/ Fail

\* Fault: only a database of Redis other than the partition's is flushed.
FlushOther ==
    /\ Command = "flush"
    /\ UNCHANGED <<partition, mem, old, method>>
    /\ \/ UNCHANGED cache /\ Continue(TRUE)
       \/ cache' \in {cache, Empty} /\ (IF script = "seed" THEN Continue(FALSE) ELSE Fail)

\* FLUSHALL from a throw-away pod. seed reports a failed flush as done.
Flush ==
    /\ Command = "flush"
    /\ UNCHANGED <<partition, mem, old, method>>
    /\ \/ cache' = Empty /\ Continue(TRUE)
       \/ cache' \in {cache, Empty} /\ (IF script = "seed" THEN Continue(FALSE) ELSE Fail)

\* p05: rollout restart of five services, each of which may fail.  The old pod,
\* or the oldest of several rollouts, serves until the new one is ready.
Restart ==
    /\ Command = "restart"
    /\ UNCHANGED <<partition, cache, method>>
    /\ \E R \in SUBSET Restarted :
         /\ old' = [s \in Services |-> IF s \in R /\ old[s] = Gone THEN mem[s] ELSE old[s]]
         /\ mem' = [s \in Services |-> IF s \in R THEN Empty ELSE mem[s]]
         /\ Continue(R = Restarted)

\* p05: rollout status of two of them; one that fails or times out is not
\* noticed.
Wait ==
    /\ Command = "wait"
    /\ UNCHANGED <<partition, readers, method>>
    /\ \/ (\A s \in Awaited : old[s] = Gone) /\ Continue(TRUE)
       \/ Continue(FALSE)

ScriptStep ==
    Token \/ Check \/ List \/ Patch \/ Write \/ Groups \/ Flush \/ Restart \/ Wait

-----------------------------------------------------------------------------
(* The Partition service's cache and its readers.                          *)

\* A starting pod reads the partition through the cache, and keeps it.
Load(s) ==
    /\ exists
    /\ cache' = IF cache = Empty THEN props ELSE cache
    /\ \/ mem[s] = Empty /\ mem' = [mem EXCEPT ![s] = cache'] /\ UNCHANGED old
       \/ old[s] = Empty /\ old' = [old EXCEPT ![s] = cache'] /\ UNCHANGED mem
    /\ UNCHANGED <<partition, run>>

\* A pod's container is restarted by its probes.
Reborn(s) ==
    /\ \/ mem' = [mem EXCEPT ![s] = Empty] /\ UNCHANGED old
       \/ old[s] # Gone /\ old' = [old EXCEPT ![s] = Empty] /\ UNCHANGED mem
    /\ UNCHANGED <<partition, cache, run>>

\* The new pod is ready, and the old one goes.
Replaced(s) ==
    /\ old[s] # Gone
    /\ old' = [old EXCEPT ![s] = Gone]
    /\ UNCHANGED <<partition, cache, mem, run>>

\* A cached entry expires, or Redis restarts.
Expire ==
    /\ cache' = Empty
    /\ UNCHANGED <<partition, mem, old, run>>

Next ==
    \/ \E s \in Scripts : Launch(s)
    \/ ScriptStep
    \/ \E s \in Services : Load(s) \/ Reborn(s) \/ Replaced(s)
    \/ Expire

Spec == Init /\ [][Next]_vars

-----------------------------------------------------------------------------
(* Properties.                                                             *)

InStep(copy) == copy \in {props, Empty, Gone}

\* A script that flushes Redis after its PATCH, every command having worked,
\* leaves no stale copy in the cache, until the properties are written again:
\* not even when services read the partition between the two commands.
CacheInStep == kept \in {"cache", "readers"} => InStep(cache)

\* The same for the services 05-fix-domain-mismatch.sh restarts: they are
\* restarted after the flush, so none of the new pods can pick up the old copy
\* again, and where the script waits for the rollout no old pod serves it. A
\* flush without a restart (p04, seed, step20) does not promise this.
ReadersInStep ==
    kept = "readers" =>
        /\ \A s \in Restarted : InStep(mem[s])
        /\ \A s \in Awaited : InStep(old[s])
=============================================================================
