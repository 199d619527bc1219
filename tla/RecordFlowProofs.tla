-------------------------- MODULE RecordFlowProofs --------------------------
(***************************************************************************)
(* For any number of overlapping test runs and any clock: what the runs    *)
(* may conclude from what they see.                                        *)
(***************************************************************************)
EXTENDS RecordFlow, TLAPS

\* A run that has not put its record was told of none.
Untold == \A s \in Runs : at[s] \in {"checks", "put"} => s \notin created

\* osdu-e2e-test.sh counts a FAIL when it is told no id.
NoIdIsFailure ==
    \A s \in Runs :
        script[s] \in E2EScripts /\ at[s] \notin {"checks", "put"} =>
            s \in created \cup failed

\* The scenario run t put this record and was told so, or is about to end.
PutBy(r, t) ==
    /\ script[t] = "scenario"
    /\ r.by = Nobody /\ r.stamp = stamp[t]
    /\ at[t] \notin {"checks", "put"}
    /\ t \in created \/ at[t] \in {"summary", "done"}

\* Every record of the scenarios is stored, and some run put it.
ScenarioRecords ==
    \A r \in store \cup index :
        r.kind = "E2ERecord" => r \in store /\ \E t \in Runs : PutBy(r, t)

IInv ==
    /\ TypeOK
    /\ Untold
    /\ NoIdIsFailure
    /\ RecordKept
    /\ GreenLeavesNothing
    /\ ScenarioRecords

USE DEF Scripts, E2EScripts, Kinds, JobKinds, Steps, GoTo
USE RunsAssumption, BoundsAssumption

LEMMA RecordType ==
    ASSUME TypeOK, NEW s \in Runs
    PROVE  /\ RecordOf(s) \in Records
           /\ RecordOf(s).stamp = stamp[s]
           /\ script[s] = "scenario" =>
                RecordOf(s).kind = "E2ERecord" /\ RecordOf(s).by = Nobody
           /\ script[s] \in E2EScripts =>
                RecordOf(s).kind = "Well" /\ RecordOf(s).by = s
  BY DEF TypeOK, RecordOf, Records

\* No other run's record is one of osdu-e2e-test.sh.
LEMMA OwnRecord ==
    ASSUME TypeOK, NEW s \in Runs, NEW t \in Runs, s # t,
           script[s] \in E2EScripts
    PROVE  RecordOf(s) # RecordOf(t)
<1>1. RecordOf(s).by = s
  BY RecordType
<1>2. RecordOf(t).by \in {t, Nobody}
  BY RecordType DEF TypeOK
<1> QED
  BY <1>1, <1>2

LEMMA PublishType ==
    ASSUME TypeOK, NEW op \in {"upsert", "delete"}, NEW r \in Records,
           Publish(op, r)
    PROVE  queue' \subseteq Events
  BY DEF TypeOK, Publish, Events

-----------------------------------------------------------------------------
(* What every step leaves alone.                                           *)

\* Runs only gain knowledge and marks, and keep the second they took.
LEMMA Frame ==
    ASSUME TypeOK, [Next]_vars
    PROVE  /\ script' = script
           /\ created \subseteq created'
           /\ failed \subseteq failed'
           /\ warned \subseteq warned'
           /\ \A s \in Runs : at[s] # "checks" => stamp'[s] = stamp[s]
<1>1. CASE UNCHANGED vars
  BY <1>1 DEF vars, runs, verdict
<1>2. CASE ServiceStep
  BY <1>2 DEF ServiceStep, Tick, Consume, Precreate, InitJob, Declare,
              BrokerRestarts, runs, verdict
<1>3. ASSUME NEW t \in Runs, RunStep(t)
      PROVE  /\ script' = script
             /\ created \subseteq created'
             /\ failed \subseteq failed'
             /\ warned \subseteq warned'
             /\ \A s \in Runs : at[s] # "checks" => stamp'[s] = stamp[s]
  <2>1. CASE Checks(t)
    BY <2>1 DEF Checks, TypeOK
  <2>2. CASE GiveUp(t) \/ Put(t) \/ PutFails(t) \/ PutMisread(t) \/ Wait(t)
    BY <2>2 DEF GiveUp, Put, PutFails, PutMisread, Wait, verdict
  <2>3. CASE SearchWells(t) \/ SearchFails(t) \/ SearchMarker(t)
             \/ SearchMarkerFails(t)
    BY <2>3 DEF SearchWells, SearchFails, SearchMarker, SearchMarkerFails,
                verdict
  <2>4. CASE Delete(t) \/ Confirm(t) \/ Summary(t)
    BY <2>4 DEF Delete, Confirm, Summary, verdict
  <2> QED
    BY <1>3, <2>1, <2>2, <2>3, <2>4 DEF RunStep
<1> QED
  BY <1>1, <1>2, <1>3 DEF Next

\* A run that has put its record keeps its name.
LEMMA RecordStays ==
    ASSUME TypeOK, [Next]_vars, NEW s \in Runs, at[s] # "checks"
    PROVE  RecordOf(s)' = RecordOf(s)
<1>1. script'[s] = script[s] /\ stamp'[s] = stamp[s]
  BY Frame
<1> QED
  BY <1>1 DEF RecordOf

\* The services' steps do not touch the runs, and neither add to Storage nor
\* index what is not in it.
LEMMA Services ==
    ASSUME TypeOK, ServiceStep \/ UNCHANGED vars
    PROVE  /\ UNCHANGED runs
           /\ store' = store
           /\ index' \subseteq index \cup store
<1>1. CASE UNCHANGED vars
  BY <1>1 DEF vars, pipeline
<1>2. ASSUME NEW e \in queue, Consume(e)
      PROVE  UNCHANGED runs /\ store' = store /\ index' \subseteq index \cup store
  BY <1>2 DEF Consume
<1>3. CASE Tick \/ InitJob \/ Declare \/ BrokerRestarts \/ \E k \in Kinds : Precreate(k)
  BY <1>3 DEF Tick, InitJob, Declare, BrokerRestarts, Precreate, pipeline
<1> QED
  BY <1>1, <1>2, <1>3 DEF ServiceStep

\* How a run moves on.
LEMMA Moves ==
    ASSUME TypeOK, NEW t \in Runs, RunStep(t)
    PROVE  /\ \A s \in Runs \ {t} : at'[s] = at[s]
           /\ at[t] = "checks" =>
                \/ at'[t] = "put"
                \/ script[t] = "scenario" /\ at'[t] \in {"summary", "done"}
           /\ at[t] # "checks" => at'[t] \notin {"checks", "put"}
           /\ at'[t] \in {"wait", "search"} => at[t] \in {"put", "wait"}
           /\ at'[t] = "delete" => at[t] = "search"
           /\ at[t] \in {"summary", "done"} => at'[t] = "done"
           /\ index' = index
<1>1. at \in [Runs -> Steps]
  BY DEF TypeOK
<1>2. CASE Checks(t) \/ GiveUp(t)
  BY <1>1, <1>2 DEF Checks, GiveUp, pipeline
<1>3. CASE Put(t) \/ PutFails(t) \/ PutMisread(t) \/ Wait(t)
  BY <1>1, <1>3 DEF Put, PutFails, AfterPutFailed, PutMisread, Wait, pipeline
<1>4. CASE SearchWells(t) \/ SearchFails(t) \/ SearchMarker(t)
           \/ SearchMarkerFails(t)
  BY <1>1, <1>4 DEF SearchWells, SearchFails, AfterSearch, SearchMarker,
                    SearchMarkerFails, pipeline
<1>5. CASE Delete(t) \/ Confirm(t) \/ Summary(t)
  BY <1>1, <1>5 DEF Delete, Confirm, Summary, pipeline
<1> QED
  BY <1>2, <1>3, <1>4, <1>5 DEF RunStep

\* What a run's step does to Storage: it adds its own record when it puts it,
\* or removes it when it cleans up.
LEMMA StorageSteps ==
    ASSUME TypeOK, NEW t \in Runs, RunStep(t)
    PROVE  \/ store' = store
           \/ /\ at[t] = "put"
              /\ store' = store \cup {RecordOf(t)}
              /\ at'[t] = "wait" /\ t \in created'
           \/ /\ at[t] = "put"
              /\ store' = store \cup {RecordOf(t)}
              /\ t \in failed'
              /\ at'[t] = IF script[t] = "scenario" THEN "summary" ELSE "wait"
           \/ /\ at[t] = "delete" /\ at'[t] = "confirm"
              /\ store' = store \ {RecordOf(t)}
<1>1. at \in [Runs -> Steps]
  BY DEF TypeOK
<1>2. CASE Put(t)
  BY <1>1, <1>2 DEF Put
<1>3. CASE PutFails(t)
  BY <1>1, <1>3 DEF PutFails, AfterPutFailed
<1>4. CASE Delete(t)
  BY <1>1, <1>4 DEF Delete
<1>5. CASE Checks(t) \/ GiveUp(t) \/ PutMisread(t) \/ Wait(t) \/ Confirm(t)
           \/ Summary(t)
  BY <1>5 DEF Checks, GiveUp, PutMisread, Wait, Confirm, Summary, pipeline
<1>6. CASE SearchWells(t) \/ SearchFails(t) \/ SearchMarker(t)
           \/ SearchMarkerFails(t)
  BY <1>6 DEF SearchWells, SearchFails, SearchMarker, SearchMarkerFails, pipeline
<1> QED
  BY <1>2, <1>3, <1>4, <1>5, <1>6 DEF RunStep

-----------------------------------------------------------------------------
(* The invariant holds initially and is preserved.                         *)

LEMMA InitTypes == Init => TypeOK
<1> SUFFICES ASSUME Init PROVE TypeOK
  OBVIOUS
<1>1. now \in 1 .. MaxTime /\ 0 \in 0 .. MaxTime
  BY DEF Init
<1>2. stamp \in [Runs -> 0 .. MaxTime]
  BY <1>1 DEF Init
<1>3. at \in [Runs -> Steps] /\ \A s \in Runs : at[s] = "checks"
  BY DEF Init
<1>4. declared \in BOOLEAN
  BY DEF Init
<1> QED
  BY <1>1, <1>2, <1>3, <1>4 DEF Init, TypeOK

LEMMA InitHolds == Init => IInv
<1> SUFFICES ASSUME Init PROVE IInv
  OBVIOUS
<1>1. TypeOK
  BY InitTypes
<1>2. \A s \in Runs : at[s] = "checks"
  BY DEF Init
<1>3. Untold /\ NoIdIsFailure
  BY <1>2 DEF Init, Untold, NoIdIsFailure
<1>4. ScenarioRecords
  BY DEF Init, ScenarioRecords
<1>5. RecordKept /\ GreenLeavesNothing
  BY <1>2 DEF Init, RecordKept, GreenLeavesNothing
<1> QED
  BY <1>1, <1>3, <1>4, <1>5 DEF IInv

\* The steps of the services are correctly typed.
LEMMA ServiceTypes ==
    ASSUME TypeOK, ServiceStep \/ UNCHANGED vars
    PROVE  TypeOK'
<1>1. CASE UNCHANGED vars
  BY <1>1 DEF vars, pipeline, runs, verdict, TypeOK
<1>2. CASE Tick
  BY <1>2 DEF Tick, pipeline, runs, verdict, TypeOK
<1>3. ASSUME NEW e \in queue, Consume(e)
      PROVE  TypeOK'
  <2>1. e.rec \in Records
    BY DEF TypeOK, Events
  <2>2. index' \subseteq Records
    BY <1>3, <2>1 DEF Consume, TypeOK
  <2>3. queue' \subseteq Events
    BY <1>3 DEF Consume, TypeOK
  <2> QED
    BY <1>3, <2>2, <2>3 DEF Consume, runs, verdict, TypeOK
<1>4. CASE InitJob \/ \E k \in Kinds : Precreate(k)
  BY <1>4 DEF InitJob, Precreate, runs, verdict, TypeOK
<1>5. CASE Declare \/ BrokerRestarts
  BY <1>5 DEF Declare, BrokerRestarts, runs, verdict, TypeOK
<1> QED
  BY <1>1, <1>2, <1>3, <1>4, <1>5 DEF ServiceStep

\* So are those of a run.
LEMMA RunTypes ==
    ASSUME TypeOK, NEW t \in Runs, RunStep(t)
    PROVE  TypeOK'
<1> USE DEF TypeOK
<1>1. CASE Checks(t)
  BY <1>1 DEF Checks, pipeline
<1>2. CASE GiveUp(t)
  BY <1>2 DEF GiveUp, pipeline
<1>3. CASE Put(t)
  <2>1. RecordOf(t) \in Records
    BY RecordType
  <2>2. queue' \subseteq Events
    BY <1>3, <2>1, PublishType DEF Put
  <2> QED
    BY <1>3, <2>1, <2>2 DEF Put
<1>4. CASE PutFails(t)
  <2>1. RecordOf(t) \in Records
    BY RecordType
  <2>2. queue' \subseteq Events
    BY <1>4, <2>1, PublishType DEF PutFails
  <2> QED
    BY <1>4, <2>1, <2>2 DEF PutFails, AfterPutFailed
<1>5. CASE PutMisread(t) \/ Wait(t)
  BY <1>5 DEF PutMisread, Wait, pipeline, verdict
<1>6. CASE SearchWells(t) \/ SearchFails(t)
  BY <1>6 DEF SearchWells, SearchFails, AfterSearch, pipeline
<1>7. CASE SearchMarker(t) \/ SearchMarkerFails(t)
  BY <1>7 DEF SearchMarker, SearchMarkerFails, pipeline, verdict
<1>8. CASE Delete(t)
  <2>1. RecordOf(t) \in Records
    BY RecordType
  <2>2. queue' \subseteq Events
    BY <1>8, <2>1, PublishType DEF Delete
  <2> QED
    BY <1>8, <2>1, <2>2 DEF Delete
<1>9. CASE Confirm(t) \/ Summary(t)
  BY <1>9 DEF Confirm, Summary, pipeline, verdict
<1> QED
  BY <1>1, <1>2, <1>3, <1>4, <1>5, <1>6, <1>7, <1>8, <1>9 DEF RunStep

\* A run learns that its record is stored, or counts a FAIL for it, only when
\* it puts it; it ends without a mark only as the scripts say.
LEMMA Verdicts ==
    ASSUME TypeOK, Untold, NoIdIsFailure, NEW t \in Runs, RunStep(t)
    PROVE  /\ created' \subseteq created \cup {t}
           /\ at'[t] \in {"checks", "put"} => created' = created
           /\ script[t] \in E2EScripts /\ at'[t] \notin {"checks", "put"} =>
                t \in created' \cup failed'
           /\ at[t] = "put" /\ t \in created' => store' = store \cup {RecordOf(t)}
<1>1. CASE Checks(t) \/ GiveUp(t)
  BY <1>1 DEF Checks, GiveUp, TypeOK
<1>2. CASE Put(t) \/ PutFails(t)
  <2>1. CASE Put(t)
    BY <2>1 DEF Put, TypeOK
  <2>2. CASE PutFails(t)
    BY <2>2 DEF PutFails, AfterPutFailed, TypeOK, Untold
  <2> QED
    BY <1>2, <2>1, <2>2
<1>3. CASE PutMisread(t) \/ Wait(t)
  BY <1>3 DEF PutMisread, Wait, verdict, NoIdIsFailure, Untold
<1>4. CASE SearchWells(t) \/ SearchFails(t) \/ SearchMarker(t)
           \/ SearchMarkerFails(t)
  BY <1>4 DEF SearchWells, SearchFails, SearchMarker, SearchMarkerFails,
              verdict, NoIdIsFailure
<1>5. CASE Delete(t) \/ Confirm(t) \/ Summary(t)
  BY <1>5 DEF Delete, Confirm, Summary, verdict, NoIdIsFailure
<1> QED
  BY <1>1, <1>2, <1>3, <1>4, <1>5 DEF RunStep

\* A run is told of its record when it puts it, or never.
LEMMA Started ==
    ASSUME TypeOK, NEW t \in Runs, RunStep(t), at[t] # "put"
    PROVE  created' = created
<1>1. CASE Checks(t) \/ GiveUp(t) \/ Put(t) \/ PutFails(t) \/ PutMisread(t)
           \/ Wait(t)
  BY <1>1 DEF Checks, GiveUp, Put, PutFails, PutMisread, Wait, verdict
<1>2. CASE SearchWells(t) \/ SearchFails(t) \/ SearchMarker(t)
           \/ SearchMarkerFails(t)
  BY <1>2 DEF SearchWells, SearchFails, SearchMarker, SearchMarkerFails, verdict
<1>3. CASE Delete(t) \/ Confirm(t) \/ Summary(t)
  BY <1>3 DEF Delete, Confirm, Summary, verdict
<1> QED
  BY <1>1, <1>2, <1>3 DEF RunStep

LEMMA KnowledgeStep ==
    ASSUME IInv, [Next]_vars
    PROVE  Untold' /\ NoIdIsFailure'
<1>1. CASE ServiceStep \/ UNCHANGED vars
  <2>1. UNCHANGED runs
    BY <1>1, Services DEF IInv
  <2> QED
    BY <2>1 DEF IInv, Untold, NoIdIsFailure, runs, verdict
<1>2. ASSUME NEW t \in Runs, RunStep(t)
      PROVE  Untold' /\ NoIdIsFailure'
  <2>1. script' = script /\ failed \subseteq failed' /\ created \subseteq created'
    BY <1>2, Frame DEF IInv, Next
  <2>2. Untold'
    BY <1>2, Moves, Verdicts DEF IInv, Untold
  <2>3. NoIdIsFailure'
    BY <1>2, <2>1, Moves, Verdicts DEF IInv, NoIdIsFailure
  <2> QED
    BY <2>2, <2>3
<1> QED
  BY <1>1, <1>2 DEF Next

\* The record a run was told of stays: the only step that removes it is that
\* run's own.
LEMMA KeptStep ==
    ASSUME IInv, [Next]_vars
    PROVE  RecordKept'
<1>1. CASE ServiceStep \/ UNCHANGED vars
  <2>1. UNCHANGED runs /\ store' = store
    BY <1>1, Services DEF IInv
  <2> QED
    BY <2>1 DEF IInv, RecordKept, RecordOf, runs, verdict
<1>2. ASSUME NEW t \in Runs, RunStep(t), NEW s \in created',
             script'[s] \in E2EScripts, at'[s] \in {"wait", "search", "delete"}
      PROVE  RecordOf(s)' \in store'
  <2>1. s \in Runs /\ script' = script
    <3>1. created \subseteq Runs
      BY DEF IInv, TypeOK
    <3> QED
      BY <1>2, <3>1, Frame, Verdicts DEF IInv, Next
  <2>2. at[s] # "checks"
    BY <1>2, <2>1, Moves DEF IInv
  <2>3. RecordOf(s)' = RecordOf(s)
    BY <1>2, <2>1, <2>2, RecordStays DEF IInv, Next
  <2>4. CASE s = t
    <3>1. at[t] \in {"put", "wait", "search"}
      BY <1>2, <2>4, Moves DEF IInv
    <3>2. CASE at[t] = "put"
      BY <1>2, <2>3, <2>4, <3>2, Verdicts DEF IInv
    <3>3. CASE at[t] # "put"
      <4>1. t \in created /\ store' = store
        BY <1>2, <2>1, <2>4, <3>1, <3>3, StorageSteps, Started DEF IInv
      <4> QED
        BY <1>2, <2>1, <2>3, <2>4, <3>1, <3>3, <4>1 DEF IInv, RecordKept
    <3> QED
      BY <3>2, <3>3
  <2>5. CASE s # t
    <3>1. s \in created /\ at[s] = at'[s]
      BY <1>2, <2>1, <2>5, Moves, Verdicts DEF IInv
    <3>2. RecordOf(s) \in store
      BY <1>2, <2>1, <3>1 DEF IInv, RecordKept
    <3>3. RecordOf(s) # RecordOf(t)
      BY <1>2, <2>1, <2>5, OwnRecord DEF IInv
    <3> QED
      BY <1>2, <2>3, <3>2, <3>3, StorageSteps DEF IInv
  <2> QED
    BY <2>4, <2>5
<1> QED
  BY <1>1, <1>2 DEF Next, RecordKept

\* A run with --cleanup ends after a failure, a warning, or a GET that says its
\* record is gone.
LEMMA Endings ==
    ASSUME IInv, NEW t \in Runs, RunStep(t),
           script[t] = "e2eCleanup", at'[t] \in {"summary", "done"}
    PROVE  /\ store' = store
           /\ \/ t \in failed' \cup warned'
              \/ RecordOf(t) \notin store
              \/ at[t] = "summary"
<1>1. at \in [Runs -> Steps]
  BY DEF IInv, TypeOK
<1>2. CASE Checks(t) \/ GiveUp(t) \/ Put(t) \/ PutFails(t) \/ PutMisread(t)
           \/ Wait(t)
  BY <1>1, <1>2 DEF Checks, GiveUp, Put, PutFails, AfterPutFailed, PutMisread, Wait
<1>3. CASE SearchWells(t)
  BY <1>1, <1>3 DEF SearchWells, AfterSearch, IInv, NoIdIsFailure, pipeline
<1>4. CASE SearchFails(t) \/ SearchMarker(t) \/ SearchMarkerFails(t)
  BY <1>4 DEF SearchFails, SearchMarker, SearchMarkerFails, pipeline
<1>5. CASE Delete(t) \/ Confirm(t) \/ Summary(t)
  BY <1>1, <1>5 DEF Delete, Confirm, Summary, pipeline
<1> QED
  BY <1>2, <1>3, <1>4, <1>5 DEF RunStep

\* What a clean ending has established is not undone: no other run stores a
\* record of this one.
LEMMA GreenStep ==
    ASSUME IInv, [Next]_vars
    PROVE  GreenLeavesNothing'
<1>1. CASE ServiceStep \/ UNCHANGED vars
  <2>1. UNCHANGED runs /\ store' = store
    BY <1>1, Services DEF IInv
  <2> QED
    BY <2>1 DEF IInv, GreenLeavesNothing, RecordOf, runs, verdict
<1>2. ASSUME NEW t \in Runs, RunStep(t), NEW s \in Runs,
             at'[s] \in {"summary", "done"}, script'[s] = "e2eCleanup",
             s \notin failed' \cup warned'
      PROVE  RecordOf(s)' \notin store'
  <2>1. /\ script' = script
        /\ s \notin failed \cup warned
    BY <1>2, Frame DEF IInv, Next
  <2>2. at[s] # "checks"
    BY <1>2, <2>1, Moves DEF IInv
  <2>3. RecordOf(s)' = RecordOf(s)
    BY <1>2, <2>2, RecordStays DEF IInv, Next
  <2>4. CASE s = t
    <3>1. RecordOf(t) \notin store \/ at[t] = "summary"
      BY <1>2, <2>1, <2>4, Endings
    <3>2. RecordOf(t) \notin store
      BY <2>1, <2>4, <3>1, <1>2 DEF IInv, GreenLeavesNothing
    <3> QED
      BY <1>2, <2>1, <2>3, <2>4, <3>2, Endings
  <2>5. CASE s # t
    <3>1. RecordOf(s) \notin store
      BY <1>2, <2>1, <2>5, Moves DEF IInv, GreenLeavesNothing
    <3>2. RecordOf(s) # RecordOf(t)
      BY <1>2, <2>1, <2>5, OwnRecord DEF IInv
    <3> QED
      BY <1>2, <2>3, <3>1, <3>2, StorageSteps DEF IInv
  <2> QED
    BY <2>4, <2>5
<1> QED
  BY <1>1, <1>2 DEF Next, GreenLeavesNothing

\* Who put a scenario's record can be told from then on.
LEMMA PutByStays ==
    ASSUME IInv, NEW t \in Runs, RunStep(t), NEW r, NEW u \in Runs, PutBy(r, u)
    PROVE  PutBy(r, u)'
<1>1. at[u] \notin {"checks", "put"}
  BY DEF PutBy
<1>2. script' = script /\ created \subseteq created' /\ stamp'[u] = stamp[u]
  BY <1>1, Frame DEF IInv, Next
<1>3. /\ at'[u] \notin {"checks", "put"}
      /\ at[u] \in {"summary", "done"} => at'[u] \in {"summary", "done"}
  BY <1>1, Moves DEF IInv
<1> QED
  BY <1>2, <1>3 DEF PutBy

LEMMA ScenarioStep ==
    ASSUME IInv, [Next]_vars
    PROVE  ScenarioRecords'
<1>1. CASE ServiceStep \/ UNCHANGED vars
  <2>1. UNCHANGED runs /\ store' = store /\ index' \subseteq index \cup store
    BY <1>1, Services DEF IInv
  <2> QED
    BY <2>1 DEF IInv, ScenarioRecords, PutBy, runs, verdict
<1>2. ASSUME NEW t \in Runs, RunStep(t), NEW r \in store' \cup index',
             r.kind = "E2ERecord"
      PROVE  r \in store' /\ \E u \in Runs : PutBy(r, u)'
  <2>1. index' = index
    BY <1>2, Moves DEF IInv
  <2>2. CASE r \in store \cup index
    <3>1. r \in store
      BY <1>2, <2>2 DEF IInv, ScenarioRecords
    <3>2. PICK u \in Runs : PutBy(r, u)
      BY <1>2, <2>2 DEF IInv, ScenarioRecords
    <3>3. PutBy(r, u)'
      BY <1>2, <3>2, PutByStays
    <3>4. at[t] = "delete" => r # RecordOf(t)
      <4>1. at[t] = "delete" => script[t] \in E2EScripts
        BY <1>2 DEF IInv, TypeOK
      <4> QED
        BY <1>2, <4>1, RecordType DEF IInv
    <3>5. r \in store'
      BY <1>2, <3>1, <3>4, StorageSteps DEF IInv
    <3> QED
      BY <3>3, <3>5
  <2>3. CASE r \notin store \cup index
    <3>1. at[t] = "put" /\ r = RecordOf(t) /\ r \in store'
      BY <1>2, <2>1, <2>3, StorageSteps DEF IInv
    <3>2. script[t] = "scenario"
      BY <1>2, <3>1, RecordType DEF IInv, TypeOK
    <3>3. (at'[t] = "wait" /\ t \in created') \/ at'[t] = "summary"
      BY <1>2, <2>1, <2>3, <3>1, <3>2, StorageSteps DEF IInv
    <3>4. script'[t] = script[t] /\ stamp'[t] = stamp[t]
      BY <1>2, <3>1, Frame DEF IInv, Next
    <3>5. r.by = Nobody /\ r.stamp = stamp[t]
      BY <3>1, <3>2, RecordType DEF IInv
    <3>6. PutBy(r, t)'
      BY <3>2, <3>3, <3>4, <3>5 DEF PutBy
    <3> QED
      BY <3>1, <3>6
  <2> QED
    BY <2>2, <2>3
<1> QED
  BY <1>1, <1>2 DEF Next, ScenarioRecords

LEMMA StepHolds == IInv /\ [Next]_vars => IInv'
<1> SUFFICES ASSUME IInv, [Next]_vars PROVE IInv'
  OBVIOUS
<1>1. TypeOK'
  BY ServiceTypes, RunTypes DEF IInv, Next
<1>2. Untold' /\ NoIdIsFailure'
  BY KnowledgeStep
<1>3. RecordKept'
  BY KeptStep
<1>4. GreenLeavesNothing'
  BY GreenStep
<1>5. ScenarioRecords'
  BY ScenarioStep
<1> QED
  BY <1>1, <1>2, <1>3, <1>4, <1>5 DEF IInv

LEMMA Invariance == Spec => []IInv
  BY InitHolds, StepHolds, PTL DEF Spec

\* Type correctness: a run cleans up only with --cleanup and an id it was given.
THEOREM RecordFlowTypes == Spec => []TypeOK
<1>1. IInv => TypeOK
  BY DEF IInv
<1> QED
  BY <1>1, Invariance, PTL

\* No other run takes a record of osdu-e2e-test.sh away.
THEOREM RecordsAreKept == Spec => []RecordKept
<1>1. IInv => RecordKept
  BY DEF IInv
<1> QED
  BY <1>1, Invariance, PTL

\* A clean --cleanup run leaves no record of its own in Storage.
THEOREM GreenRunLeavesNothing == Spec => []GreenLeavesNothing
<1>1. IInv => GreenLeavesNothing
  BY DEF IInv
<1> QED
  BY <1>1, Invariance, PTL

\* What E2E.4 finds is the run's own record, unless another scenario run took
\* the same second.
LEMMA PassStep ==
    ASSUME IInv, [Next]_vars, NEW s \in Runs, Passes(s), AloneInSecond(s)
    PROVE  s \in created /\ RecordOf(s) \in store \cap index
<1>1. PICK t \in Runs : RunStep(t)
  <2>1. ~(ServiceStep \/ UNCHANGED vars)
    BY Services DEF IInv, Passes, runs
  <2> QED
    BY <2>1 DEF Next
<1>2. t = s
  BY <1>1, Moves DEF IInv, Passes
<1>3. SearchMarker(s)
  BY <1>1, <1>2 DEF Passes, RunStep, Checks, GiveUp, Put, PutFails, PutMisread,
                    Wait, SearchWells, SearchFails, SearchMarkerFails, Delete,
                    Confirm, Summary
<1>4. PICK r \in index : r.kind = "E2ERecord" /\ r.stamp = stamp[s]
  BY <1>3 DEF SearchMarker, Found
<1>5. r \in store /\ \E u \in Runs : PutBy(r, u)
  BY <1>4 DEF IInv, ScenarioRecords
<1>6. PutBy(r, s)
  BY <1>4, <1>5 DEF AloneInSecond, PutBy
<1>7. s \in created
  BY <1>6 DEF PutBy, Passes
<1>8. r = RecordOf(s)
  BY <1>4, <1>6 DEF IInv, TypeOK, Records, PutBy, RecordOf
<1> QED
  BY <1>4, <1>5, <1>7, <1>8

\* "DATA FLOW VERIFIED" is about the run's own record, which is stored and
\* searchable.
THEOREM PassIsAboutOwnRecord == Spec => PassMeansOwn
<1>1. IInv /\ [Next]_vars =>
        [\A s \in Runs :
            Passes(s) /\ AloneInSecond(s) =>
                s \in created /\ RecordOf(s) \in store \cap index]_vars
  BY PassStep
<1> QED
  BY <1>1, Invariance, PTL DEF Spec, PassMeansOwn

-----------------------------------------------------------------------------
(* The verdict of osdu-e2e-test.sh.  Without FAIL it says nothing of the   *)
(* run's own record (VerdictMeansIndexed is violated); without WARN it     *)
(* does, as far as a name identifies a record.                             *)

\* Every record of the kind Well was put by a run of osdu-e2e-test.sh.
WellRecords ==
    \A r \in store \cup index :
        r.kind = "Well" =>
            \E t \in Runs :
                /\ script[t] \in E2EScripts
                /\ at[t] \notin {"checks", "put"}
                /\ r = RecordOf(t)

\* 6.5 finds the name of the run, and neither a FAIL nor a WARN was counted.
FoundByName(s) ==
    /\ at[s] = "search" /\ script[s] \in E2EScripts
    /\ at'[s] # "search"
    /\ s \notin failed' \cup warned'

\* No other run of osdu-e2e-test.sh took the same second.
OnlyWellInSecond(s) ==
    \A t \in Runs \ {s} : script[t] \in E2EScripts => stamp[t] # stamp[s]

\* A run that gets past its search without FAIL and WARN has its own record in
\* Storage and in the index, and knows its id.
CleanMeansOwn ==
    [][\A s \in Runs :
          FoundByName(s) /\ OnlyWellInSecond(s) =>
              s \in created /\ RecordOf(s) \in store \cap index]_vars

LEMMA WellStep ==
    ASSUME IInv, WellRecords, [Next]_vars
    PROVE  WellRecords'
<1>1. ASSUME NEW u \in Runs, at[u] \notin {"checks", "put"}
      PROVE  /\ at'[u] \notin {"checks", "put"}
             /\ script'[u] = script[u]
             /\ RecordOf(u)' = RecordOf(u)
  <2>1. script' = script /\ RecordOf(u)' = RecordOf(u)
    BY <1>1, Frame, RecordStays DEF IInv
  <2>2. CASE ServiceStep \/ UNCHANGED vars
    BY <1>1, <2>1, <2>2, Services DEF IInv, runs
  <2>3. ASSUME NEW t \in Runs, RunStep(t)
        PROVE  at'[u] \notin {"checks", "put"}
    BY <1>1, <2>3, Moves DEF IInv
  <2> QED
    BY <2>1, <2>2, <2>3 DEF Next, runs
<1>2. ASSUME NEW r \in store \cup index, r.kind = "Well"
      PROVE  \E u \in Runs : /\ script'[u] \in E2EScripts
                             /\ at'[u] \notin {"checks", "put"}
                             /\ r = RecordOf(u)'
  BY <1>1, <1>2 DEF WellRecords
<1>3. CASE ServiceStep \/ UNCHANGED vars
  <2>1. store' \cup index' \subseteq store \cup index
    BY <1>3, Services DEF IInv
  <2> QED
    BY <1>2, <2>1 DEF WellRecords
<1>4. ASSUME NEW t \in Runs, RunStep(t), NEW r \in (store' \cup index') \ (store \cup index),
             r.kind = "Well"
      PROVE  \E u \in Runs : /\ script'[u] \in E2EScripts
                             /\ at'[u] \notin {"checks", "put"}
                             /\ r = RecordOf(u)'
  <2>1. at[t] = "put" /\ r = RecordOf(t) /\ at'[t] \notin {"checks", "put"}
    BY <1>4, Moves, StorageSteps DEF IInv
  <2>2. script[t] \in E2EScripts
    BY <1>4, <2>1, RecordType DEF IInv, TypeOK
  <2>3. script'[t] = script[t] /\ RecordOf(t)' = RecordOf(t)
    BY <2>1, Frame, RecordStays DEF IInv
  <2> QED
    BY <2>1, <2>2, <2>3
<1> QED
  BY <1>2, <1>3, <1>4 DEF WellRecords, Next

LEMMA CleanStep ==
    ASSUME IInv, WellRecords, [Next]_vars, NEW s \in Runs, FoundByName(s),
           OnlyWellInSecond(s)
    PROVE  s \in created /\ RecordOf(s) \in store \cap index
<1>1. PICK t \in Runs : RunStep(t)
  <2>1. ~(ServiceStep \/ UNCHANGED vars)
    BY Services DEF IInv, FoundByName, runs
  <2> QED
    BY <2>1 DEF Next
<1>2. t = s
  BY <1>1, Moves DEF IInv, FoundByName
<1>3. failed \subseteq failed' /\ warned \subseteq warned'
  BY Frame DEF IInv
<1>4. SearchWells(s)
  BY <1>1, <1>2, <1>3 DEF FoundByName, RunStep, Checks, GiveUp, Put, PutFails, PutMisread,
                          Wait, SearchFails, SearchMarker, SearchMarkerFails, Delete,
                          Confirm, Summary
<1>5. PICK r \in index : r.kind = "Well" /\ r.stamp = stamp[s]
  <2>1. PICK page \in Pages(Wells) :
           warned' = IF \E r \in page : r.stamp = stamp[s] THEN warned ELSE warned \cup {s}
    BY <1>4 DEF SearchWells
  <2>2. page \subseteq Wells
    BY DEF Pages
  <2>3. \E r \in page : r.stamp = stamp[s]
    BY <2>1 DEF FoundByName
  <2> QED
    BY <2>2, <2>3 DEF Wells
<1>6. PICK u \in Runs : script[u] \in E2EScripts /\ r = RecordOf(u)
  BY <1>5 DEF WellRecords
<1>7. u = s
  BY <1>5, <1>6, RecordType DEF IInv, OnlyWellInSecond
<1>8. s \in created
  BY <1>3 DEF IInv, NoIdIsFailure, FoundByName
<1>9. RecordOf(s) \in store
  BY <1>8 DEF IInv, RecordKept, FoundByName
<1> QED
  BY <1>5, <1>6, <1>7, <1>8, <1>9

\* However runs, cleanups, lost queues and refused events interleave: the only
\* verdict of osdu-e2e-test.sh that misleads about its own record is one with
\* a WARN, or with another run in the same second.
THEOREM CleanVerdictIsAboutOwn == Spec => CleanMeansOwn
<1>1. Init => WellRecords
  BY DEF Init, WellRecords
<1>2. IInv /\ WellRecords /\ [Next]_vars => WellRecords'
  BY WellStep
<1>3. IInv /\ WellRecords /\ [Next]_vars =>
        [\A s \in Runs :
            FoundByName(s) /\ OnlyWellInSecond(s) =>
                s \in created /\ RecordOf(s) \in store \cap index]_vars
  BY CleanStep
<1> QED
  BY <1>1, <1>2, <1>3, Invariance, PTL DEF Spec, CleanMeansOwn

-----------------------------------------------------------------------------
(* The way of a record to its index.  Searchable itself needs the fairness *)
(* of the indexer; that nothing takes a record off its way does not.       *)

\* An event about a deletion names the record of a run that has deleted it.
DeletesAreOver ==
    \A e \in queue : e.op = "delete" =>
        /\ e.rec \notin store
        /\ \E t \in Runs : /\ script[t] \in E2EScripts
                           /\ at[t] \in {"confirm", "summary", "done"}
                           /\ e.rec = RecordOf(t)

\* A record is searchable, or its event waits and can be served.
OnItsWay(r) ==
    \/ r \in index
    \/ [op |-> "upsert", rec |-> r] \in queue /\ r.kind \in indices

\* Whatever the order in which events are consumed, a record that stays in
\* Storage stays searchable, or on its way there: neither an early deletion nor
\* a refused event of another record takes it away, only the broker's pod.
StaysOnItsWay ==
    [][\A r \in store \cap store' :
          OnItsWay(r) => OnItsWay(r)' \/ BrokerRestarts]_vars

\* What a run's step does to the queue.
LEMMA QueueSteps ==
    ASSUME TypeOK, NEW t \in Runs, RunStep(t)
    PROVE  /\ indices' = indices
           /\ queue \subseteq queue'
           /\ \/ \A e \in queue' \ queue : e.op = "upsert"
              \/ /\ at[t] = "delete" /\ at'[t] = "confirm"
                 /\ store' = store \ {RecordOf(t)}
                 /\ \A e \in queue' \ queue :
                       e = [op |-> "delete", rec |-> RecordOf(t)]
<1>1. CASE Put(t) \/ PutFails(t)
  BY <1>1 DEF Put, PutFails, Publish
<1>2. CASE Delete(t)
  BY <1>2 DEF Delete, Publish, TypeOK
<1>3. CASE Checks(t) \/ GiveUp(t) \/ PutMisread(t) \/ Wait(t) \/ Confirm(t) \/ Summary(t)
  BY <1>3 DEF Checks, GiveUp, PutMisread, Wait, Confirm, Summary, pipeline
<1>4. CASE SearchWells(t) \/ SearchFails(t) \/ SearchMarker(t) \/ SearchMarkerFails(t)
  BY <1>4 DEF SearchWells, SearchFails, SearchMarker, SearchMarkerFails, pipeline
<1> QED
  BY <1>1, <1>2, <1>3, <1>4 DEF RunStep

\* What a service's step does to it.
LEMMA ServiceQueue ==
    ASSUME TypeOK, ServiceStep \/ UNCHANGED vars
    PROVE  queue' \subseteq queue /\ indices \subseteq indices'
<1>1. CASE UNCHANGED vars
  BY <1>1 DEF vars, pipeline
<1>2. CASE \E e \in queue : Consume(e)
  BY <1>2 DEF Consume
<1>3. CASE Tick \/ InitJob \/ Declare \/ BrokerRestarts \/ \E k \in Kinds : Precreate(k)
  BY <1>3 DEF Tick, InitJob, Declare, BrokerRestarts, Precreate, pipeline
<1> QED
  BY <1>1, <1>2, <1>3 DEF ServiceStep

\* A run that is past its deletion does not come back to it.
LEMMA Onwards ==
    ASSUME TypeOK, NEW t \in Runs, RunStep(t), NEW u \in Runs,
           at[u] \in {"confirm", "summary", "done"}
    PROVE  at'[u] \in {"confirm", "summary", "done"}
<1>1. CASE u # t
  BY <1>1, Moves
<1>2. CASE u = t
  BY <1>2 DEF RunStep, Checks, GiveUp, Put, PutFails, PutMisread, Wait, SearchWells, SearchFails,
              SearchMarker, SearchMarkerFails, Delete, Confirm, Summary, TypeOK
<1> QED
  BY <1>1, <1>2

LEMMA DeletesStep ==
    ASSUME IInv, DeletesAreOver, [Next]_vars
    PROVE  DeletesAreOver'
<1>1. CASE ServiceStep \/ UNCHANGED vars
  <2>1. UNCHANGED runs /\ store' = store /\ queue' \subseteq queue
    BY <1>1, Services, ServiceQueue DEF IInv
  <2>2. \A t \in Runs : RecordOf(t)' = RecordOf(t)
    BY <2>1 DEF runs, RecordOf
  <2> QED
    BY <2>1, <2>2 DEF DeletesAreOver, runs
<1>2. ASSUME NEW t \in Runs, RunStep(t), NEW e \in queue', e.op = "delete"
      PROVE  /\ e.rec \notin store'
             /\ \E u \in Runs : /\ script'[u] \in E2EScripts
                                /\ at'[u] \in {"confirm", "summary", "done"}
                                /\ e.rec = RecordOf(u)'
  <2>1. CASE e \in queue
    <3>1. PICK u \in Runs : /\ script[u] \in E2EScripts
                            /\ at[u] \in {"confirm", "summary", "done"}
                            /\ e.rec = RecordOf(u)
      BY <1>2, <2>1 DEF DeletesAreOver
    <3>2. script'[u] = script[u] /\ RecordOf(u)' = RecordOf(u)
      BY <1>2, <3>1, Frame, RecordStays DEF IInv, Next
    <3>3. at'[u] \in {"confirm", "summary", "done"}
      BY <1>2, <3>1, Onwards DEF IInv
    <3>4. e.rec \notin store
      BY <1>2, <2>1 DEF DeletesAreOver
    <3>5. at[t] = "put" => RecordOf(t) # e.rec
      BY <3>1, OwnRecord DEF IInv
    <3>6. e.rec \notin store'
      BY <1>2, <3>4, <3>5, StorageSteps DEF IInv
    <3> QED
      BY <3>1, <3>2, <3>3, <3>6
  <2>2. CASE e \notin queue
    <3>1. /\ at[t] = "delete" /\ at'[t] = "confirm"
          /\ store' = store \ {RecordOf(t)}
          /\ e.rec = RecordOf(t)
      BY <1>2, <2>2, QueueSteps DEF IInv
    <3>2. script[t] \in E2EScripts
      BY <3>1 DEF IInv, TypeOK
    <3>3. script'[t] = script[t] /\ RecordOf(t)' = RecordOf(t)
      BY <1>2, <3>1, Frame, RecordStays DEF IInv, Next
    <3> QED
      BY <3>1, <3>2, <3>3
  <2> QED
    BY <2>1, <2>2
<1> QED
  BY <1>1, <1>2 DEF Next, DeletesAreOver

LEMMA WayStep ==
    ASSUME IInv, DeletesAreOver, [Next]_vars, NEW r \in store \cap store', OnItsWay(r)
    PROVE  OnItsWay(r)' \/ BrokerRestarts
<1>1. ASSUME NEW e \in queue, Consume(e)
      PROVE  OnItsWay(r)'
  <2>1. /\ queue' = queue \ {e} /\ indices' = indices
        /\ index' = IF e.op = "delete" THEN index \ {e.rec}
                    ELSE IF e.rec.kind \in indices /\ e.rec \in store
                         THEN index \cup {e.rec} ELSE index
    BY <1>1 DEF Consume
  <2>2. e.op = "delete" => e.rec # r
    BY DEF DeletesAreOver
  <2>3. CASE r \in index
    BY <2>1, <2>2, <2>3 DEF OnItsWay
  <2>4. CASE [op |-> "upsert", rec |-> r] \in queue /\ r.kind \in indices
    <3>1. CASE e = [op |-> "upsert", rec |-> r]
      BY <2>1, <2>4, <3>1 DEF OnItsWay
    <3>2. CASE e # [op |-> "upsert", rec |-> r]
      BY <2>1, <2>4, <3>2 DEF OnItsWay
    <3> QED
      BY <3>1, <3>2
  <2> QED
    BY <2>3, <2>4 DEF OnItsWay
<1>2. CASE Tick \/ InitJob \/ Declare \/ UNCHANGED vars \/ \E k \in Kinds : Precreate(k)
  BY <1>2 DEF Tick, InitJob, Declare, Precreate, pipeline, vars, OnItsWay
<1>3. ASSUME NEW t \in Runs, RunStep(t)
      PROVE  OnItsWay(r)'
  BY <1>3, QueueSteps, Moves DEF IInv, OnItsWay
<1> QED
  BY <1>1, <1>2, <1>3 DEF Next, ServiceStep

\* A record that stays in Storage and is searchable, or has its event in the
\* queue with its kind's index in place, is so after every step of a run, a job or
\* the indexer; only a new pod of the broker, which starts with an empty queue,
\* takes that from it. The indexer may serve its queue in any order, a deletion
\* before the event of the record's own creation.
THEOREM RecordsStayOnTheirWay == Spec => StaysOnItsWay
<1>1. Init => DeletesAreOver
  BY DEF Init, DeletesAreOver
<1>2. IInv /\ DeletesAreOver /\ [Next]_vars => DeletesAreOver'
  BY DeletesStep
<1>3. IInv /\ DeletesAreOver /\ [Next]_vars =>
        [\A r \in store \cap store' : OnItsWay(r) => OnItsWay(r)' \/ BrokerRestarts]_vars
  BY WayStep
<1> QED
  BY <1>1, <1>2, <1>3, Invariance, PTL DEF Spec, StaysOnItsWay
=============================================================================
