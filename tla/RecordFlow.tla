------------------------------ MODULE RecordFlow ------------------------------
(***************************************************************************)
(* The record flow Storage -> RabbitMQ -> Indexer -> OpenSearch -> Search  *)
(* and the two scripts that test it end to end while it runs:              *)
(*                                                                         *)
(*   e2e, e2eCleanup  scripts/osdu-e2e-test.sh [--cleanup]                 *)
(*   scenario         test_scripts/02-test-scenarios.sh e2e (or all)       *)
(*                                                                         *)
(* Several runs of them may overlap.  Both name their record after the     *)
(* second they reach it in (date +%s).  The indexer's queue is not in  *)
(* the broker's committed definitions and the broker has no volume: when   *)
(* its pod is replaced the queue is gone until somebody declares it again. *)
(* The indexer cannot create an index that OpenSearch accepts, so an event *)
(* that arrives before its kind's index was made is lost: retries are off. *)
(***************************************************************************)
EXTENDS Naturals, FiniteSets

CONSTANTS
    Runs,     \* the runs of the two scripts; each happens once
    Nobody,   \* stands for the owner of an id that Storage did not generate
    MaxTime,  \* bound: the clock stops here
    PageSize  \* the limit of a search

ASSUME RunsAssumption == Nobody \notin Runs

ASSUME BoundsAssumption == MaxTime \in Nat \ {0} /\ PageSize \in Nat

Scripts == {"e2e", "e2eCleanup", "scenario"}

E2EScripts == {"e2e", "e2eCleanup"}

\* The kinds of the two tests' records: osdu:wks:master-data--Well:1.0.0 and
\* osdu:e2e:E2ERecord:1.0.0.
Kinds == {"Well", "E2ERecord"}

\* The kinds whose index opensearch-init-job.yaml makes.
JobKinds == {"Well"}

\* A record is known by its kind, the second in its name, and the run its id
\* was generated for.
Records == [kind : Kinds, stamp : 0 .. MaxTime, by : Runs \cup {Nobody}]

Events == [op : {"upsert", "delete"}, rec : Records]

VARIABLES
    now,      \* the clock
    store,    \* the records in Storage
    declared, \* the indexer's queue exists in the broker
    queue,    \* the events in it
    indices,  \* the kinds whose index was made in advance
    index,    \* the documents in OpenSearch
    script,   \* what each run executes, with which option
    at,       \* the step it is at
    stamp,    \* the second it took for its record's name
    created,  \* the runs that were told their record is stored
    failed,   \* the runs whose FAIL counter is not zero
    warned    \* the runs whose WARN counter is not zero

pipeline == <<store, declared, queue, indices, index>>
verdict == <<created, failed, warned>>
runs == <<script, at, stamp, verdict>>
vars == <<now, pipeline, runs>>

Steps == {"checks", "put", "wait", "search", "delete", "confirm", "summary",
          "done"}

TypeOK ==
    /\ now \in 1 .. MaxTime
    /\ store \subseteq Records
    /\ declared \in BOOLEAN
    /\ queue \subseteq Events
    /\ indices \subseteq Kinds
    /\ index \subseteq Records
    /\ script \in [Runs -> Scripts]
    /\ at \in [Runs -> Steps]
    /\ stamp \in [Runs -> 0 .. MaxTime]
    /\ created \subseteq Runs
    /\ failed \subseteq Runs
    /\ warned \subseteq Runs
    /\ \A s \in Runs : at[s] \in {"delete", "confirm"} =>
           script[s] = "e2eCleanup" /\ s \in created

\* Whoever starts a run chooses the script.
Init ==
    /\ now = 1
    /\ store = {}
    /\ declared = FALSE
    /\ queue = {}
    /\ indices = {}
    /\ index = {}
    /\ script \in [Runs -> Scripts]
    /\ at = [s \in Runs |-> "checks"]
    /\ stamp = [s \in Runs |-> 0]
    /\ created = {}
    /\ failed = {}
    /\ warned = {}

-----------------------------------------------------------------------------
(* The services and what is done to them.                                  *)

Tick ==
    /\ now < MaxTime
    /\ now' = now + 1
    /\ UNCHANGED <<pipeline, runs>>

\* Storage's event for a record; an exchange without a queue drops it.
Publish(op, r) ==
    queue' = IF declared THEN queue \cup {[op |-> op, rec |-> r]} ELSE queue

\* Fault: the event is acknowledged when it is received, not when it is done.
ConsumeAutoAck(e) ==
    /\ e \in queue
    /\ queue' = queue \ {e}
    /\ \/ index' = index \cup {e.rec}
       \/ UNCHANGED index
    /\ UNCHANGED <<now, store, declared, indices, runs>>

\* One of the indexer's consumers takes an event, in any order: it fetches the
\* record from Storage and indexes it, or removes it. Without an index of that
\* kind its request is refused, and the event is not retried.
Consume(e) ==
    /\ e \in queue
    /\ queue' = queue \ {e}
    /\ index' = IF e.op = "delete" THEN index \ {e.rec}
                ELSE IF e.rec.kind \in indices /\ e.rec \in store
                     THEN index \cup {e.rec}
                     ELSE index
    /\ UNCHANGED <<now, store, declared, indices, runs>>

\* create-osdu-index.sh, or its PUT fails and it prints Done! all the same.
Precreate(k) ==
    /\ indices' = indices \cup {k}
    /\ UNCHANGED <<now, store, declared, queue, index, runs>>

\* The Job: each PUT makes its index, finds it, or fails unnoticed.
InitJob ==
    /\ \E made \in SUBSET JobKinds : indices' = indices \cup made
    /\ UNCHANGED <<now, store, declared, queue, index, runs>>

\* The indexer's exchange, queue and binding are declared by hand.
Declare ==
    /\ declared' = TRUE
    /\ UNCHANGED <<now, store, queue, indices, index, runs>>

\* The broker's pod is replaced: it starts from its committed definitions.
BrokerRestarts ==
    /\ declared' = FALSE
    /\ queue' = {}
    /\ UNCHANGED <<now, store, indices, index, runs>>

-----------------------------------------------------------------------------
(* The test scripts.                                                       *)

GoTo(s, step) == at' = [at EXCEPT ![s] = step]

\* Everything before the record: FAIL and WARN are counted and the script goes
\* on, to take the second of its record's name.
Checks(s) ==
    /\ at[s] = "checks"
    /\ now < MaxTime
    /\ GoTo(s, "put")
    /\ stamp' = [stamp EXCEPT ![s] = now]
    /\ failed' \in {failed, failed \cup {s}}
    /\ warned' \in {warned, warned \cup {s}}
    /\ UNCHANGED <<now, pipeline, script, created>>

\* The scenarios without toolbox or token stop at once; without one of the
\* three services, or without a token later on, the record is skipped.
GiveUp(s) ==
    /\ at[s] = "checks"
    /\ script[s] = "scenario"
    /\ at' \in {[at EXCEPT ![s] = "done"], [at EXCEPT ![s] = "summary"]}
    /\ failed' \in {failed, failed \cup {s}}
    /\ UNCHANGED <<now, pipeline, script, stamp, created, warned>>

\* Fault: the id is built from the second, as the scenarios do.
RecordOfBySecond(s) ==
    [kind |-> "Well", stamp |-> stamp[s], by |-> Nobody]

\* The record a run puts: osdu-e2e-test.sh leaves the id to Storage, the
\* scenarios build it from the second.
RecordOf(s) ==
    IF script[s] = "scenario"
    THEN [kind |-> "E2ERecord", stamp |-> stamp[s], by |-> Nobody]
    ELSE [kind |-> "Well", stamp |-> stamp[s], by |-> s]

Put(s) ==
    /\ at[s] = "put"
    /\ store' = store \cup {RecordOf(s)}
    /\ Publish("upsert", RecordOf(s))
    /\ created' = created \cup {s}
    /\ GoTo(s, "wait")
    /\ UNCHANGED <<now, declared, indices, index, script, stamp, failed, warned>>

\* Fault: the scenarios go on without their record.
AfterPutFailedOn(s) == GoTo(s, "wait")

\* osdu-e2e-test.sh goes on without an id, the scenarios return.
AfterPutFailed(s) ==
    GoTo(s, IF script[s] = "scenario" THEN "summary" ELSE "wait")

\* The answer carries no id: the record was refused, or was stored and the
\* answer was lost, before or after its event was published.
PutFails(s) ==
    /\ at[s] = "put"
    /\ \/ UNCHANGED <<store, queue>>
       \/ /\ store' = store \cup {RecordOf(s)}
          /\ Publish("upsert", RecordOf(s)) \/ UNCHANGED queue
    /\ failed' = failed \cup {s}
    /\ AfterPutFailed(s)
    /\ UNCHANGED <<now, declared, indices, index, script, stamp, created, warned>>

\* The scenarios take a refusal whose text names the record for a success.
PutMisread(s) ==
    /\ at[s] = "put"
    /\ script[s] = "scenario"
    /\ GoTo(s, "wait")
    /\ UNCHANGED <<now, pipeline, script, stamp, verdict>>

\* Twenty or thirty seconds, whatever the indexer has done by then.
Wait(s) ==
    /\ at[s] = "wait"
    /\ stamp[s] < now
    /\ GoTo(s, "search")
    /\ UNCHANGED <<now, pipeline, script, stamp, verdict>>

\* What one search may return.
Pages(hits) ==
    {page \in SUBSET hits :
        \/ page = hits /\ Cardinality(hits) <= PageSize
        \/ Cardinality(page) = PageSize}

Wells == {r \in index : r.kind = "Well"}

\* Fault: the cleanup does not ask whether it has an id.
AfterSearchAnyId(s) ==
    GoTo(s, IF script[s] = "e2eCleanup" THEN "delete" ELSE "summary")

\* The cleanup needs the option and an id.
AfterSearch(s) ==
    GoTo(s, IF script[s] = "e2eCleanup" /\ s \in created
            THEN "delete" ELSE "summary")

\* 6.4 asks for any record of the kind, 6.5 for this run's name among them,
\* and only warns.
SearchWells(s) ==
    /\ at[s] = "search"
    /\ script[s] \in E2EScripts
    /\ Wells # {}
    /\ \E page \in Pages(Wells) :
           warned' = IF \E r \in page : r.stamp = stamp[s]
                     THEN warned ELSE warned \cup {s}
    /\ AfterSearch(s)
    /\ UNCHANGED <<now, pipeline, script, stamp, created, failed>>

\* No record at all, or the call failed: a FAIL, and 6.5's warning.
SearchFails(s) ==
    /\ at[s] = "search"
    /\ script[s] \in E2EScripts
    /\ failed' = failed \cup {s}
    /\ warned' = warned \cup {s}
    /\ AfterSearch(s)
    /\ UNCHANGED <<now, pipeline, script, stamp, created>>

\* Fault: the query has lost its marker.
FoundAny(s) == \E r \in index : r.kind = "E2ERecord"

\* The query asks for data.e2e_marker:E2E_TEST_<second>.
Found(s) == \E r \in index : r.kind = "E2ERecord" /\ r.stamp = stamp[s]

\* E2E TEST PASSED.
SearchMarker(s) ==
    /\ at[s] = "search"
    /\ script[s] = "scenario"
    /\ Found(s)
    /\ GoTo(s, "summary")
    /\ UNCHANGED <<now, pipeline, script, stamp, verdict>>

\* Nothing found, or the call failed: E2E TEST FAILED.
SearchMarkerFails(s) ==
    /\ at[s] = "search"
    /\ script[s] = "scenario"
    /\ failed' = failed \cup {s}
    /\ GoTo(s, "summary")
    /\ UNCHANGED <<now, pipeline, script, stamp, created, warned>>

\* 7.1: deleted; refused with a text, a warning; or the call broke off and an
\* empty answer counts as a success.
Delete(s) ==
    /\ at[s] = "delete"
    /\ \/ /\ store' = store \ {RecordOf(s)}
          /\ Publish("delete", RecordOf(s))
          /\ UNCHANGED warned
       \/ warned' = warned \cup {s} /\ UNCHANGED <<store, queue>>
       \/ UNCHANGED <<store, queue, warned>>
    /\ GoTo(s, "confirm")
    /\ UNCHANGED <<now, declared, indices, index, script, stamp, created, failed>>

\* Fault: any answer to the GET counts as the record being gone.
ConfirmAlways(s) ==
    /\ at[s] = "confirm"
    /\ GoTo(s, "summary")
    /\ UNCHANGED <<now, pipeline, script, stamp, verdict>>

\* 7.3: the record is gone (404), or a warning.
Confirm(s) ==
    /\ at[s] = "confirm"
    /\ \/ RecordOf(s) \notin store /\ UNCHANGED warned
       \/ warned' = warned \cup {s}
    /\ GoTo(s, "summary")
    /\ UNCHANGED <<now, pipeline, script, stamp, created, failed>>

\* ALL (CRITICAL) TESTS PASSED unless FAIL is above zero.
Summary(s) ==
    /\ at[s] = "summary"
    /\ GoTo(s, "done")
    /\ UNCHANGED <<now, pipeline, script, stamp, verdict>>

-----------------------------------------------------------------------------
ServiceStep ==
    \/ Tick
    \/ \E e \in queue : Consume(e)
    \/ \E k \in Kinds : Precreate(k)
    \/ InitJob
    \/ Declare
    \/ BrokerRestarts

RunStep(s) ==
    \/ Checks(s)
    \/ GiveUp(s)
    \/ Put(s)
    \/ PutFails(s)
    \/ PutMisread(s)
    \/ Wait(s)
    \/ SearchWells(s)
    \/ SearchFails(s)
    \/ SearchMarker(s)
    \/ SearchMarkerFails(s)
    \/ Delete(s)
    \/ Confirm(s)
    \/ Summary(s)

Next ==
    \/ ServiceStep
    \/ \E s \in Runs : RunStep(s)

Spec == Init /\ [][Next]_vars

\* The indexer goes on consuming.
FairSpec == Spec /\ WF_vars(\E e \in queue : Consume(e))

-----------------------------------------------------------------------------
(* Properties.                                                             *)

\* A record osdu-e2e-test.sh was given an id for stays in Storage until this
\* run's own cleanup: runs that start in the same second and the cleanups of
\* other runs do not take it away.
RecordKept ==
    \A s \in created :
        script[s] \in E2EScripts /\ at[s] \in {"wait", "search", "delete"} =>
            RecordOf(s) \in store

\* The scenarios' E2E.4 passes.
Passes(s) ==
    /\ at[s] = "search" /\ script[s] = "scenario"
    /\ at'[s] = "summary" /\ s \notin failed'

\* No other scenario run took the same second.
AloneInSecond(s) ==
    \A t \in Runs \ {s} : script[t] = "scenario" => stamp[t] # stamp[s]

\* "DATA FLOW VERIFIED" by the only scenario run of that second means that this
\* run's record is stored and searchable: no other record can be found instead,
\* and a record that was refused or whose answer was lost is not counted.
PassMeansOwn ==
    [][\A s \in Runs :
          Passes(s) /\ AloneInSecond(s) =>
              s \in created /\ RecordOf(s) \in store \cap index]_vars

\* osdu-e2e-test.sh --cleanup without FAIL and without WARN leaves no record
\* of its own in Storage, also not one it was never told the id of.
GreenLeavesNothing ==
    \A s \in Runs :
        at[s] \in {"summary", "done"} /\ script[s] = "e2eCleanup" =>
            s \in failed \cup warned \/ RecordOf(s) \notin store

\* A run's record whose event waits in the queue, and whose kind has an index,
\* becomes searchable, unless it is deleted or the broker is replaced.
Searchable ==
    \A s \in Runs :
        /\ [op |-> "upsert", rec |-> RecordOf(s)] \in queue
        /\ RecordOf(s).kind \in indices
        ~> RecordOf(s) \in index \/ RecordOf(s) \notin store \/ ~declared

\* ALL CRITICAL TESTS PASSED after a run that keeps its record means that the
\* record went through the flow. (It does not: see the README.)
VerdictMeansIndexed ==
    \A s \in Runs :
        at[s] = "summary" /\ script[s] = "e2e" /\ s \notin failed =>
            RecordOf(s) \in index
=============================================================================
