------------------------- MODULE PartitionSeedProofs -------------------------
(***************************************************************************)
(* For any services: what a script that reported success, every command    *)
(* having worked, leaves in step with the partition's properties.          *)
(***************************************************************************)
EXTENDS PartitionSeed, TLAPS

\* From p05's flush on the cache is in step, and from its restarts on the new
\* pods are.
FlushedBeforeRestart ==
    script = "p05" /\ clean =>
        /\ pc \in {3, 4} => InStep(cache)
        /\ pc = 4 => \A s \in Restarted : InStep(mem[s])

IInv ==
    /\ TypeOK
    /\ CacheInStep
    /\ ReadersInStep
    /\ FlushedBeforeRestart

USE DEF Scripts, Keys

\* The programs, command by command.
LEMMA Programs ==
    /\ Len(Program["p01"]) = 1 /\ Len(Program["p04"]) = 2 /\ Len(Program["p05"]) = 4
    /\ Len(Program["seed"]) = 4 /\ Len(Program["step20"]) = 4 /\ Len(Program["init"]) = 3
    /\ Program["p01"][1] = "patch"
    /\ Program["p04"][1] = "patch" /\ Program["p04"][2] = "flush"
    /\ Program["p05"][1] = "patch" /\ Program["p05"][2] = "flush"
    /\ Program["p05"][3] = "restart" /\ Program["p05"][4] = "wait"
    /\ Program["seed"][1] = "token" /\ Program["seed"][2] = "check"
    /\ Program["seed"][3] = "patch" /\ Program["seed"][4] = "flush"
    /\ Program["step20"][1] = "token" /\ Program["step20"][2] = "patch"
    /\ Program["step20"][3] = "groups" /\ Program["step20"][4] = "flush"
    /\ Program["init"][1] = "token" /\ Program["init"][2] = "list"
    /\ Program["init"][3] = "write"
  BY DEF Program

\* Where the commands that touch the readers stand.
LEMMA Places ==
    ASSUME TypeOK, script \in Scripts
    PROVE  /\ Command = "flush" =>
                \/ script = "p05" /\ pc = 2
                \/ script \in {"p04", "seed", "step20"} /\ pc = Len(Program[script])
           /\ Command = "restart" => script = "p05" /\ pc = 3
           /\ Command = "wait" => script = "p05" /\ pc = 4
           /\ Command \notin {"flush", "restart", "wait"} =>
                /\ ~(script = "p05" /\ pc > 1)
                /\ pc = Len(Program[script]) => script \in {"p01", "init"}
<1>1. /\ script = "p01" => pc = 1
      /\ script = "p04" => pc \in {1, 2}
      /\ script \in {"p05", "seed", "step20"} => pc \in {1, 2, 3, 4}
      /\ script = "init" => pc \in {1, 2, 3}
  <2>1. pc \in {1, 2, 3, 4} /\ pc <= Len(Program[script])
    BY DEF TypeOK
  <2> DEFINE last == Len(Program[script])
  <2>2. /\ script = "p01" => last = 1
        /\ script = "p04" => last = 2
        /\ script = "init" => last = 3
    BY Programs
  <2>3. pc <= last
    BY <2>1
  <2> HIDE DEF last
  <2> QED
    BY <2>1, <2>2, <2>3
<1>2. Command = Program[script][pc]
  BY DEF Command
<1>3. CASE script \in {"p01", "p04"}
  BY <1>1, <1>2, <1>3, Programs
<1>4. CASE script = "p05"
  BY <1>1, <1>2, <1>4, Programs
<1>5. CASE script = "seed"
  BY <1>1, <1>2, <1>5, Programs
<1>6. CASE script = "step20"
  BY <1>1, <1>2, <1>6, Programs
<1>7. CASE script = "init"
  BY <1>1, <1>2, <1>7, Programs
<1> QED
  BY <1>3, <1>4, <1>5, <1>6, <1>7

\* A payload sets the partition's own keys to values it may have.
LEMMA MergeType ==
    ASSUME TypeOK, script \in Scripts
    PROVE  Merge(Payload[script]) \in Properties
<1>1. \A k \in DOMAIN Payload[script] : Payload[script][k] \in Values
  BY DEF Payload, Values
<1> QED
  BY <1>1 DEF TypeOK, Merge, Properties

\* The run's own variables stay typed whatever a command answers.
LEMMA RunType ==
    ASSUME TypeOK, script \in Scripts, NEW fine \in BOOLEAN, Continue(fine) \/ Fail
    PROVE  /\ script' \in Scripts \cup {"none"} /\ pc' \in 1 .. 4 /\ clean' \in BOOLEAN
           /\ script' \in Scripts => pc' <= Len(Program[script'])
           /\ kept' \in {"none", "cache", "readers"}
<1>1. ASSUME NEW f \in BOOLEAN, Continue(f)
      PROVE  /\ script' \in Scripts \cup {"none"} /\ pc' \in 1 .. 4 /\ clean' \in BOOLEAN
             /\ script' \in Scripts => pc' <= Len(Program[script'])
             /\ kept' \in {"none", "cache", "readers"}
  <2>1. Len(Program[script]) \in 1 .. 4
    BY Programs
  <2>2. pc \in 1 .. 4 /\ clean \in BOOLEAN /\ kept \in {"none", "cache", "readers"}
    BY DEF TypeOK
  <2>3. Promise[script] \in {"none", "cache", "readers"}
    BY DEF Promise
  <2> DEFINE last == Len(Program[script])
  <2>4. CASE pc < last
    <3>1. script' = script /\ pc' = pc + 1 /\ Len(Program[script']) = last
      BY <1>1, <2>4 DEF Continue
    <3>2. clean' \in BOOLEAN /\ kept' \in {"none", "cache", "readers"}
      BY <1>1, <2>2, <2>4 DEF Continue, Still
    <3> HIDE DEF last
    <3> QED
      BY <2>1, <2>2, <2>4, <3>1, <3>2
  <2>5. CASE ~(pc < last)
    BY <1>1, <2>2, <2>3, <2>5 DEF Continue, Still
  <2> QED
    BY <2>4, <2>5
<1>2. CASE Fail /\ ~Continue(FALSE)
  <2>1. script' = "none" /\ pc' = 1 /\ clean' = FALSE /\ kept' = Still
    BY <1>2 DEF Fail
  <2>2. script' \notin Scripts /\ script' \in Scripts \cup {"none"}
    BY <2>1
  <2>3. kept' \in {"none", "cache", "readers"}
    BY <2>1 DEF TypeOK, Still
  <2>4. script' \in Scripts => pc' <= Len(Program[script'])
    BY ONLY <2>2, Zenon
  <2>5. pc' \in 1 .. 4
    BY <2>1
  <2>6. clean' \in BOOLEAN
    BY <2>1, Zenon
  <2> QED
    BY <2>2, <2>3, <2>4, <2>5, <2>6, Zenon
<1>3. CASE Continue(FALSE)
  BY <1>1, <1>3
<1> QED
  BY <1>1, <1>2, <1>3

\* A command that leaves the readers alone keeps a promise only if it leaves
\* the properties alone as well.
LEMMA OtherKeeps ==
    ASSUME IInv, script \in Scripts, Command \notin {"flush", "restart", "wait"},
           UNCHANGED readers, NEW fine \in BOOLEAN, Continue(fine) \/ Fail,
           TypeOK'
    PROVE  IInv'
<1>1. kept' = Still
  <2>1. CASE pc < Len(Program[script])
    BY <2>1 DEF Continue, Fail
  <2>2. CASE pc = Len(Program[script])
    <3>1. Promise[script] = "none"
      BY <2>2, Places DEF IInv, Promise
    <3> QED
      BY <2>2, <3>1 DEF Continue, Fail
  <2> QED
    BY <2>1, <2>2, Programs DEF IInv, TypeOK
<1>2. ~(script' = "p05" /\ pc' \in {3, 4})
  BY Places, Programs DEF IInv, TypeOK, Continue, Fail
<1>3. CacheInStep' /\ ReadersInStep'
  BY <1>1 DEF IInv, CacheInStep, ReadersInStep, InStep, Still, readers
<1> QED
  BY <1>2, <1>3 DEF IInv, FlushedBeforeRestart

\* A flush brings the cache in step, and is where a restart may follow.
LEMMA FlushKeeps ==
    ASSUME IInv, script \in Scripts, Flush
    PROVE  IInv'
<1> USE DEF IInv
<1>1. /\ Command = "flush" /\ UNCHANGED <<partition, mem, old, method>>
      /\ cache' \in {cache, Empty}
      /\ \/ cache' = Empty /\ Continue(TRUE)
         \/ Continue(FALSE) \/ Fail
  BY DEF Flush
<1>2. TypeOK'
  BY <1>1, RunType DEF TypeOK, partition
<1>3. InStep(cache) => InStep(cache')
  BY <1>1 DEF InStep, partition
<1>4. UNCHANGED <<props, mem, old>>
  BY <1>1 DEF partition
<1>5. CASE cache' = Empty /\ Continue(TRUE)
  <2>1. /\ kept' = "readers" => kept = "readers"
        /\ ~(script' = "p05" /\ pc' = 4)
    BY <1>1, <1>4, <1>5, Places, Programs DEF Continue, Still, Promise
  <2> QED
    BY <1>2, <1>4, <1>5, <2>1
    DEF CacheInStep, ReadersInStep, FlushedBeforeRestart, InStep
<1>6. CASE Continue(FALSE) \/ Fail
  <2>1. clean' = FALSE
    BY <1>6 DEF Continue, Fail, TypeOK
  <2>2. kept' = kept
    BY <1>4, <1>6, <2>1 DEF Continue, Fail, Still
  <2> QED
    BY <1>1, <1>2, <1>4, <2>1, <2>2
    DEF CacheInStep, ReadersInStep, FlushedBeforeRestart, InStep
<1> QED
  BY <1>1, <1>5, <1>6

\* A restart after the flush leaves the new pods without a copy, and none of
\* the old ones with another copy than they had.
LEMMA RestartKeeps ==
    ASSUME IInv, script \in Scripts, Restart
    PROVE  IInv'
<1> USE DEF IInv
<1>1. PICK R \in SUBSET Restarted :
        /\ old' = [s \in Services |-> IF s \in R /\ old[s] = Gone THEN mem[s] ELSE old[s]]
        /\ mem' = [s \in Services |-> IF s \in R THEN Empty ELSE mem[s]]
        /\ Continue(R = Restarted)
  BY DEF Restart
<1>2. Command = "restart" /\ UNCHANGED <<exists, props, cache, method>>
  BY DEF Restart, partition
<1>3. script = "p05" /\ pc = 3
  BY <1>2, Places
<1>4. kept' = kept
  BY <1>1, <1>2, <1>3, Programs DEF Continue, Still
<1>5. TypeOK'
  <2>1. /\ old' \in [Services -> Properties \cup {Empty, Gone}]
        /\ mem' \in [Services -> Properties \cup {Empty}]
    BY <1>1 DEF TypeOK
  <2> QED
    BY <1>1, <1>2, <2>1, RunType DEF TypeOK
<1>6. /\ \A s \in Restarted : mem'[s] \in {mem[s], Empty}
      /\ \A s \in Awaited : old'[s] \in {old[s], mem[s]}
  BY <1>1, ServicesAssumption
<1>7. CacheInStep' /\ ReadersInStep'
  BY <1>2, <1>4, <1>6, ServicesAssumption DEF CacheInStep, ReadersInStep, InStep
<1>8. ASSUME clean' PROVE InStep(cache') /\ \A s \in Restarted : mem'[s] = Empty
  <2>1. clean /\ R = Restarted
    BY <1>1, <1>8 DEF Continue, TypeOK
  <2> QED
    BY <1>1, <1>2, <1>3, <2>1, ServicesAssumption DEF FlushedBeforeRestart, InStep
<1> QED
  BY <1>2, <1>5, <1>7, <1>8 DEF FlushedBeforeRestart, InStep

\* When the wait ends well, the old pods it waited for are gone.
LEMMA WaitKeeps ==
    ASSUME IInv, script \in Scripts, Wait
    PROVE  IInv'
<1> USE DEF IInv
<1>1. /\ Command = "wait" /\ UNCHANGED <<exists, props, cache, mem, old, method>>
      /\ \/ Continue(TRUE) /\ \A s \in Awaited : old[s] = Gone
         \/ Continue(FALSE)
  BY DEF Wait, partition, readers
<1>2. script = "p05" /\ pc = 4
  BY <1>1, Places
<1>3. script' = "none"
  BY <1>1, <1>2, Programs DEF Continue
<1>4. TypeOK'
  BY <1>1, RunType DEF TypeOK
<1>5. CASE clean'
  <2>1. clean /\ \A s \in Awaited : old[s] = Gone
    BY <1>1, <1>5 DEF Continue, TypeOK
  <2>2. InStep(cache) /\ \A s \in Restarted : InStep(mem[s])
    BY <1>2, <2>1 DEF FlushedBeforeRestart
  <2> QED
    BY <1>1, <1>3, <1>4, <2>1, <2>2
    DEF CacheInStep, ReadersInStep, FlushedBeforeRestart, InStep
<1>6. CASE ~clean'
  <2>1. kept' = kept
    BY <1>1, <1>6 DEF Continue, Still
  <2> QED
    BY <1>1, <1>3, <1>4, <2>1
    DEF CacheInStep, ReadersInStep, FlushedBeforeRestart, InStep
<1> QED
  BY <1>5, <1>6

\* Every command of a script keeps the invariant.
LEMMA CommandKeeps ==
    ASSUME IInv, ScriptStep
    PROVE  IInv'
<1>1. script \in Scripts
  BY DEF ScriptStep, Token, Check, List, Patch, Write, Groups, Flush, Restart, Wait, Command,
         IInv, TypeOK
<1>2. CASE Flush \/ Restart \/ Wait
  BY <1>1, <1>2, FlushKeeps, RestartKeeps, WaitKeeps
<1>3. CASE Token \/ Check \/ List \/ Patch \/ Write \/ Groups
  <2>1. Command \notin {"flush", "restart", "wait"} /\ UNCHANGED readers
    BY <1>3 DEF Token, Check, List, Patch, Write, Groups, readers
  <2>2. Continue(TRUE) \/ Continue(FALSE) \/ Fail
    BY <1>3 DEF Token, Check, List, Patch, Write, Groups, IInv, TypeOK
  <2>3. exists' \in BOOLEAN /\ method' \in {"POST", "PATCH"}
    BY <1>3 DEF Token, Check, List, Patch, Write, Groups, IInv, TypeOK, partition
  <2>4. props' \in Properties
    BY <1>1, <1>3, MergeType
    DEF Token, Check, List, Patch, Write, Groups, IInv, TypeOK, partition
  <2>5. TypeOK'
    BY <1>1, <2>1, <2>2, <2>3, <2>4, RunType DEF IInv, TypeOK, readers
  <2> QED
    BY <1>1, <2>1, <2>2, <2>5, OtherKeeps
<1> QED
  BY <1>2, <1>3 DEF ScriptStep

\* Readers come and go: what they load is what the cache holds, or what fills
\* it from the properties.
LEMMA ReaderKeeps ==
    ASSUME IInv, Expire \/ \E s \in Services : Load(s) \/ Reborn(s) \/ Replaced(s)
    PROVE  IInv'
<1> USE DEF IInv, Expire, Load, Reborn, Replaced, partition, run
<1>1. UNCHANGED <<exists, props, script, pc, method, clean, kept>>
  OBVIOUS
<1>2. TypeOK'
  <2>1. cache' \in Properties \cup {Empty}
    BY DEF TypeOK
  <2>2. /\ mem' \in [Services -> Properties \cup {Empty}]
        /\ old' \in [Services -> Properties \cup {Empty, Gone}]
    BY <2>1 DEF TypeOK
  <2> QED
    BY <1>1, <2>1, <2>2 DEF TypeOK
<1>3. InStep(cache) => InStep(cache')
  BY DEF InStep, TypeOK
<1>4. \A t \in Services : /\ mem'[t] \in {mem[t], cache', Empty}
                          /\ old'[t] \in {old[t], cache', Empty, Gone}
  BY DEF TypeOK
<1>5. ASSUME InStep(cache), NEW t \in Services
      PROVE  /\ InStep(mem[t]) => InStep(mem'[t])
             /\ InStep(old[t]) => InStep(old'[t])
  <2>1. InStep(cache') /\ props' = props
    BY <1>1, <1>3, <1>5
  <2> QED
    BY <1>4, <2>1 DEF InStep
<1>6. CacheInStep' /\ FlushedBeforeRestart'
  BY <1>1, <1>3, <1>5, ServicesAssumption DEF CacheInStep, FlushedBeforeRestart, InStep
<1>7. ReadersInStep'
  BY <1>1, <1>5, ServicesAssumption DEF ReadersInStep, CacheInStep, InStep
<1> QED
  BY <1>2, <1>6, <1>7

\* The invariant holds initially.
LEMMA InitIInv == Init => IInv
<1>1. NoProperties \in Properties
  BY DEF NoProperties, Properties, Values
<1> SUFFICES ASSUME Init PROVE IInv
  OBVIOUS
<1>2. TypeOK
  <2>1. script \notin Scripts /\ script \in Scripts \cup {"none"}
    BY DEF Init
  <2>2. script \in Scripts => pc <= Len(Program[script])
    BY ONLY <2>1, Zenon
  <2>3. pc \in 1 .. 4
    BY DEF Init
  <2> QED
    BY <1>1, <2>1, <2>2, <2>3, Zenon DEF Init, TypeOK
<1> QED
  BY <1>2 DEF Init, IInv, CacheInStep, ReadersInStep, FlushedBeforeRestart

\* Every step of the specification, and a stutter, keeps the invariant.
LEMMA StepKeepsIInv == IInv /\ [Next]_vars => IInv'
<1> SUFFICES ASSUME IInv, [Next]_vars PROVE IInv'
  OBVIOUS
<1>1. CASE \E s \in Scripts : Launch(s)
  BY <1>1, Programs
  DEF IInv, Launch, TypeOK, CacheInStep, ReadersInStep, FlushedBeforeRestart, InStep,
      partition, readers
<1>2. CASE UNCHANGED vars
  BY <1>2 DEF IInv, vars, TypeOK, CacheInStep, ReadersInStep, FlushedBeforeRestart, InStep
<1> QED
  BY <1>1, <1>2, CommandKeeps, ReaderKeeps DEF Next

\* The invariant holds in every reachable state.
LEMMA SpecIInv == Spec => []IInv
  BY InitIInv, StepKeepsIInv, PTL DEF Spec

\* The types of the partition, its copies and the running script (TypeOK): in
\* particular no merge leaves a value the services do not know.
THEOREM PartitionTypes == Spec => []TypeOK
  BY SpecIInv, PTL DEF IInv

\* Whatever ran before and whenever services read in between, a flush after a
\* PATCH leaves no stale copy in Redis.
THEOREM FlushLeavesNoStaleCopy == Spec => []CacheInStep
  BY SpecIInv, PTL DEF IInv

\* And 05-fix-domain-mismatch.sh leaves none in the new pods of the services it
\* restarts, nor in the old pods of those whose rollout it waits for.
THEOREM RestartLeavesNoStaleReader == Spec => []ReadersInStep
  BY SpecIInv, PTL DEF IInv
=============================================================================
