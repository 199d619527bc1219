-------------------------- MODULE IptablesStateProofs --------------------------
(***************************************************************************)
(* What the rollback of iptables_state promises, for any number of plays,  *)
(* tables, contents and source texts.                                      *)
(*                                                                         *)
(* The three safety properties speak of the play that has the host to      *)
(* itself, sole.  None of them is inductive: they need that nobody else is *)
(* at work, that the backup mentions every table the source mentions, that *)
(* it is the text in the cookie unless it was removed, and that tables out *)
(* of the task's scope never change.                                       *)
(***************************************************************************)
EXTENDS IptablesState, TLAPS

\* Nobody but the sole play has a task or a job on the host.
Alone == sole # None => \A q \in Plays \ {sole} : ~Busy(q)

\* What was saved never cuts anybody off, and speaks of the task's tables only.
SavedOK ==
    sole # None =>
        /\ job[sole] # "none"
        /\ \A t \in Tables : before[t] \notin Barred
        /\ \A t \in Tables \ scope[sole] : before[t] = Absent /\ rules[t] \notin Barred

\* Until the restore nothing is cut, and the backup holds what is in force.
UntouchedOK ==
    sole # None =>
        /\ job[sole] \in Untouched => ~Cuts(rules)
        /\ job[sole] \in Untouched \ {"read"} =>
              \A t \in scope[sole] : before[t] = rules[t]
        /\ job[sole] \in Untouched \ {"read"} /\ "edited" \notin mishaps =>
              \A t \in scope[sole] : before[t] = Absent => file[t] = Absent

\* The cookie, if there is one, is the backup.
CookieOK ==
    sole # None =>
        /\ job[sole] \in {"await", "restore", "watch", "rollback"} => cookie \in {None, before}
        /\ job[sole] = "test" /\ sole \notin check => cookie \in {None, before}
        /\ job[sole] \in {"await", "restore"} /\ "early" \notin mishaps => cookie = before
        /\ job[sole] = "test" /\ sole \notin check /\ "early" \notin mishaps => cookie = before

\* A table that the backup does not mention is not loaded.
WatchOK ==
    sole # None /\ "edited" \notin mishaps /\ job[sole] \in {"watch", "rollback"}
        => \A t \in scope[sole] : before[t] = Absent => rules[t] = Absent

IInv ==
    /\ TypeOK
    /\ Alone
    /\ SavedOK
    /\ UntouchedOK
    /\ CookieOK
    /\ WatchOK
    /\ AccessKept
    /\ BackupKept
    /\ RollbackRestores

-----------------------------------------------------------------------------
(* Rules.                                                                  *)

LEMMA ScopeIsTables == \A S \in Scopes : S \subseteq Tables
BY ScopesAssumption

LEMMA OnlyType ==
    ASSUME NEW S, NEW r \in Rulesets
    PROVE  Only(S, r) \in Rulesets
BY DEF Only, Rulesets

LEMMA OverType ==
    ASSUME NEW new \in Rulesets, NEW old \in Rulesets
    PROVE  Over(new, old) \in Rulesets
BY DEF Over, Rulesets

LEMMA InitializedType ==
    ASSUME NEW text \in Rulesets, NEW r \in Rulesets
    PROVE  Initialized(text, r) \in Rulesets
BY ContentsAssumption DEF Initialized, Rulesets

LEMMA LoadedType ==
    ASSUME TypeOK, NEW p \in Plays, RulesLoaded(p)
    PROVE  rules' \in Rulesets
<1>1. PICK S \in SUBSET scope[p] : rules' = Over(Only(S, file), rules)
  BY DEF RulesLoaded
<1> QED BY <1>1, FilesAssumption, OnlyType, OverType DEF TypeOK

LEMMA NoTablesType == NoTables \in Rulesets
BY DEF NoTables, Rulesets

\* A table that is going to be restored is loaded, and no table is barred by it.
LEMMA InitializedLets ==
    ASSUME NEW text \in Rulesets, NEW r \in Rulesets, ~Cuts(r)
    PROVE  /\ ~Cuts(Initialized(text, r))
           /\ \A t \in Tables : text[t] # Absent => Initialized(text, r)[t] # Absent
BY ContentsAssumption DEF Initialized, Cuts, Rulesets

LEMMA EndsAndRuns ==
    /\ JobEnds \cap JobRuns = {}
    /\ Untouched \subseteq JobRuns
    /\ "none" \notin JobRuns \cup JobEnds
BY DEF JobEnds, JobRuns, Untouched

-----------------------------------------------------------------------------
(* Types.                                                                  *)

LEMMA InitType == Init => TypeOK
BY NoTablesType DEF Init, TypeOK, JobRuns, JobEnds, CtlRuns, Mishaps

LEMMA StartType ==
    ASSUME TypeOK, NEW p \in Plays, NEW S \in Scopes, Start(p, S)
    PROVE  TypeOK'
<1> USE DEF TypeOK, Start, host
<1>1. rules' \in Rulesets /\ file' \in Files /\ cookie' \in Rulesets \cup {None}
      /\ starter' \in BOOLEAN
  OBVIOUS
<1>2. ctl' \in [Plays -> CtlRuns \cup {"idle"}]
  BY DEF CtlTo, CtlRuns
<1>3. job' \in [Plays -> JobRuns \cup JobEnds \cup {"none"}]
  BY DEF JobRuns, Untouched
<1>4. check' \in SUBSET Plays /\ scope' \in [Plays -> Scopes]
  OBVIOUS
<1>5. sole' \in Plays \cup {None} /\ before' \in Rulesets /\ mishaps' \in SUBSET Mishaps
  BY NoTablesType
<1>6. \A q \in check' : job'[q] \in {"none", "read", "test"} \cup JobEnds
  OBVIOUS
<1> QED BY <1>1, <1>2, <1>3, <1>4, <1>5, <1>6

LEMMA CtlType ==
    ASSUME TypeOK, NEW p \in Plays, CtlStep(p)
    PROVE  TypeOK'
<1> USE DEF TypeOK, host, options, history, CtlTo, CtlRuns
<1>1. CASE Query(p)
  BY <1>1 DEF Query
<1>2. CASE TouchStarter(p)
  BY <1>2 DEF TouchStarter
<1>3. CASE Confirm(p)
  BY <1>3 DEF Confirm, Mishap, Mishaps
<1>4. CASE GiveUp(p)
  BY <1>4 DEF GiveUp
<1>5. CASE Poll(p)
  BY <1>5 DEF Poll
<1>6. CASE Unreachable(p)
  BY <1>6 DEF Unreachable
<1> QED BY <1>1, <1>2, <1>3, <1>4, <1>5, <1>6 DEF CtlStep

\* A job that is past its test does not belong to a check run.
LEMMA JobType ==
    ASSUME TypeOK, NEW p \in Plays, JobStep(p) \/ JobDies(p)
    PROVE  TypeOK'
<1> USE DEF TypeOK, host, options, history, JobTo, JobRuns, JobEnds, Untouched
<1>1. CASE Read(p)
  <2> DEFINE text == Only(scope[p], file)
  <2>1. text \in Rulesets
    BY FilesAssumption, OnlyType
  <2>2. rules' \in Rulesets
    BY <1>1, <2>1, InitializedType DEF Read
  <2>3. Only(scope[p], rules') \in Rulesets
    BY <2>2, OnlyType
  <2> QED BY <1>1, <2>2, <2>3 DEF Read
<1>2. CASE ReadFails(p)
  BY <1>2 DEF ReadFails
<1>3. CASE Test(p)
  BY <1>3 DEF Test
<1>4. CASE Await(p)
  BY <1>4 DEF Await
<1>5. CASE Restore(p)
  <2>1. rules' \in Rulesets
    BY <1>5, LoadedType DEF Restore
  <2> QED BY <1>5, <2>1 DEF Restore
<1>6. CASE RestoreLocked(p)
  BY <1>6 DEF RestoreLocked
<1>7. CASE WatchEnds(p)
  BY <1>7 DEF WatchEnds
<1>8. CASE WatchExpires(p)
  BY <1>8 DEF WatchExpires
<1>9. CASE Rollback(p)
  <2>1. rules' \in Rulesets
    BY <1>9, OnlyType, OverType DEF Rollback
  <2> QED BY <1>9, <2>1 DEF Rollback
<1>10. CASE RollbackFails(p)
  BY <1>10 DEF RollbackFails, Mishap, Mishaps
<1>11. CASE RemoveBackup(p)
  BY <1>11 DEF RemoveBackup
<1>12. CASE JobDies(p)
  BY <1>12 DEF JobDies, Mishap, Mishaps
<1>13. CASE RestoreUnwatched(p)
  <2>1. rules' \in Rulesets
    BY <1>13, LoadedType DEF RestoreUnwatched
  <2> QED BY <1>13, <2>1 DEF RestoreUnwatched, Mishap, Mishaps
<1> QED BY <1>1, <1>2, <1>3, <1>4, <1>5, <1>6, <1>7, <1>8, <1>9, <1>10, <1>11, <1>12, <1>13
        DEF JobStep

LEMMA EditType ==
    ASSUME TypeOK, NEW f \in Files, EditFile(f)
    PROVE  TypeOK'
BY DEF TypeOK, EditFile, Mishap, Mishaps, options, history

LEMMA NextType == TypeOK /\ [Next]_vars => TypeOK'
<1> SUFFICES ASSUME TypeOK, [Next]_vars
             PROVE  TypeOK'
  OBVIOUS
<1>1. CASE UNCHANGED vars
  BY <1>1 DEF TypeOK, vars
<1>2. CASE Next
  BY <1>2, StartType, CtlType, JobType, EditType DEF Next
<1> QED BY <1>1, <1>2

-----------------------------------------------------------------------------
(* The invariant.                                                          *)

LEMMA InitInv == Init => IInv
<1> SUFFICES ASSUME Init
             PROVE  IInv
  OBVIOUS
<1>1. TypeOK
  BY InitType
<1>2. sole = None /\ ~Cuts(rules)
  BY DEF Init
<1> QED
  BY <1>1, <1>2 DEF IInv, Alone, SavedOK, UntouchedOK, CookieOK, WatchOK, AccessKept,
    BackupKept, RollbackRestores

\* A play that begins next to another gives the history up; one that does not
\* begins with rules that let the controller in, and with no backup.
LEMMA StartInv ==
    ASSUME IInv, NEW p \in Plays, NEW S \in Scopes, Start(p, S)
    PROVE  IInv'
<1> USE DEF IInv
<1>1. TypeOK'
  BY StartType
<1>2. ~Cuts(rules) /\ rules' = rules
  BY DEF Start, host
<1>3. CASE sole' = None
  BY <1>1, <1>2, <1>3 DEF Alone, SavedOK, UntouchedOK, CookieOK, WatchOK, AccessKept,
    BackupKept, RollbackRestores, Cuts
<1>4. CASE sole' # None
  <2>1. sole' = p /\ job'[p] = "read" /\ \A q \in Plays : ~Busy(q)
    BY <1>4 DEF Start, TypeOK
  <2>2. \A q \in Plays \ {p} : job'[q] = job[q] /\ ctl'[q] = ctl[q]
    BY DEF Start, TypeOK, CtlTo
  <2>3. Alone'
    BY <2>1, <2>2 DEF Alone, Busy
  <2>4. ~Cuts(rules')
    BY <1>2 DEF Cuts
  <2>5. before' = NoTables
    BY DEF Start
  <2>6. SavedOK'
    <3>1. \A t \in Tables : before'[t] = Absent /\ rules'[t] \notin Barred
      BY <2>4, <2>5 DEF NoTables, Cuts
    <3>2. Absent \notin Barred
      BY ContentsAssumption
    <3> QED BY <2>1, <3>1, <3>2 DEF SavedOK
  <2>7. UntouchedOK' /\ CookieOK' /\ WatchOK'
    BY <2>1, <2>4 DEF UntouchedOK, CookieOK, WatchOK
  <2>8. AccessKept' /\ BackupKept' /\ RollbackRestores'
    BY <2>1, <2>4 DEF AccessKept, BackupKept, RollbackRestores, Cuts
  <2> QED BY <1>1, <2>3, <2>6, <2>7, <2>8
<1> QED BY <1>3, <1>4

\* The plugin's steps other than the confirmation change nothing the invariant
\* speaks of, except where the plugin is.
LEMMA CtlInv ==
    ASSUME IInv, NEW p \in Plays, CtlStep(p)
    PROVE  IInv'
<1> USE DEF IInv
<1>1. TypeOK'
  BY CtlType
<1>2. UNCHANGED <<rules, file, job, check, scope, sole, before>>
  BY DEF CtlStep, Query, TouchStarter, Confirm, GiveUp, Poll, Unreachable, host, options,
    history, Mishap
<1>3. ctl[p] # "idle" /\ \A q \in Plays \ {p} : ctl'[q] = ctl[q]
  BY DEF TypeOK, CtlStep, Query, TouchStarter, Confirm, GiveUp, Poll, Unreachable, CtlTo, CtlRuns
<1>4. sole # None => sole = p
  BY <1>3 DEF Alone, Busy
<1>5. Alone'
  BY <1>2, <1>3, <1>4 DEF Alone, Busy
<1>6. SavedOK'
  BY <1>2 DEF SavedOK
<1>7. CASE UNCHANGED <<cookie, mishaps>>
  <2>1. UntouchedOK' /\ CookieOK' /\ WatchOK'
    BY <1>2, <1>7 DEF UntouchedOK, CookieOK, WatchOK, Cuts
  <2>2. AccessKept' /\ BackupKept' /\ RollbackRestores'
    BY <1>2, <1>7 DEF AccessKept, BackupKept, RollbackRestores, Cuts, Over
  <2> QED BY <1>1, <1>5, <1>6, <2>1, <2>2
<1>8. CASE Confirm(p)
  <2>1. ~Cuts(rules) /\ cookie' = None /\ ~Cuts(rules')
    BY <1>2, <1>8 DEF Confirm, Cuts
  <2>2. sole # None =>
           /\ mishaps \subseteq mishaps'
           /\ "edited" \in mishaps' => "edited" \in mishaps
           /\ job[sole] \in Untouched => "early" \in mishaps'
    BY <1>4, <1>8 DEF Confirm, Mishap, TypeOK, history
  <2>3. UntouchedOK'
    BY <1>2, <2>1, <2>2 DEF UntouchedOK
  <2>4. CookieOK'
    BY <1>2, <2>1, <2>2 DEF CookieOK, Untouched
  <2>5. WatchOK' /\ RollbackRestores'
    BY <1>2, <2>2 DEF WatchOK, RollbackRestores
  <2>6. AccessKept' /\ BackupKept'
    BY <2>1 DEF AccessKept, BackupKept
  <2> QED BY <1>1, <1>5, <1>6, <2>3, <2>4, <2>5, <2>6
<1> QED
  BY <1>7, <1>8 DEF CtlStep, Query, TouchStarter, GiveUp, Poll, Unreachable, host, history

\* Only the sole play's own job can be at work, and it leaves the plugins alone.
LEMMA JobAlone ==
    ASSUME IInv, NEW p \in Plays, JobStep(p) \/ JobDies(p), sole # None
    PROVE  /\ sole = p /\ sole' = p
           /\ UNCHANGED <<ctl, check, scope, file>>
           /\ job[p] \in JobRuns /\ job'[p] \in JobRuns \cup JobEnds
           /\ \A q \in Plays \ {p} : job'[q] = job[q]
           /\ Alone'
<1>1. job[p] \in JobRuns
  BY DEF JobStep, JobDies, Read, ReadFails, Test, Await, Restore, RestoreUnwatched, RestoreLocked, WatchEnds,
    WatchExpires, Rollback, RollbackFails, RemoveBackup, JobRuns, Untouched
<1>2. sole = p
  BY <1>1 DEF IInv, Alone, Busy
<1>3. UNCHANGED <<ctl, check, scope, file, sole>>
  BY DEF JobStep, JobDies, Read, ReadFails, Test, Await, Restore, RestoreUnwatched, RestoreLocked, WatchEnds,
    WatchExpires, Rollback, RollbackFails, RemoveBackup, host, options, history, Mishap
<1>4. job'[p] \in JobRuns \cup JobEnds
  BY DEF IInv, TypeOK, JobStep, JobDies, Read, ReadFails, Test, Await, Restore, RestoreUnwatched, RestoreLocked,
    WatchEnds, WatchExpires, Rollback, RollbackFails, RemoveBackup, JobTo, JobRuns, JobEnds,
    Untouched
<1>5. \A q \in Plays \ {p} : job'[q] = job[q]
  BY DEF IInv, TypeOK, JobStep, JobDies, Read, ReadFails, Test, Await, Restore, RestoreUnwatched, RestoreLocked,
    WatchEnds, WatchExpires, Rollback, RollbackFails, RemoveBackup, JobTo
<1>6. Alone'
  BY <1>2, <1>3, <1>5 DEF IInv, Alone, Busy
<1> QED BY <1>1, <1>2, <1>3, <1>4, <1>5, <1>6

\* The tables that were to be restored have a backup now, and nothing is cut.
LEMMA ReadInv ==
    ASSUME IInv, NEW p \in Plays, Read(p), sole # None
    PROVE  IInv'
<1> USE DEF IInv
<1>1. TypeOK' /\ Alone'
  BY JobType, JobAlone DEF JobStep
<1>2. sole = p /\ sole' = p /\ file' = file /\ scope' = scope /\ check' = check
  BY JobAlone DEF JobStep
<1>3. job[p] = "read" /\ job'[p] = "test" /\ mishaps' = mishaps
  BY DEF Read, JobTo, TypeOK
<1> DEFINE text == Only(scope[p], file)
<1>4. /\ rules' = Initialized(text, rules)
      /\ before' = Only(scope[p], rules')
      /\ p \notin check => cookie' = before'
  BY <1>2 DEF Read
<1>5. text \in Rulesets /\ rules \in Rulesets /\ scope[p] \subseteq Tables
  BY FilesAssumption, OnlyType, ScopeIsTables DEF TypeOK
<1>6. ~Cuts(rules)
  BY <1>2, <1>3 DEF UntouchedOK, Untouched
<1>7. ~Cuts(rules') /\ \A t \in Tables : text[t] # Absent => rules'[t] # Absent
  BY <1>4, <1>5, <1>6, InitializedLets
<1>8. \A t \in Tables : before'[t] = IF t \in scope[p] THEN rules'[t] ELSE Absent
  BY <1>4 DEF Only
<1>9. Absent \notin Barred
  BY ContentsAssumption
<1>10. SavedOK'
  BY <1>2, <1>3, <1>7, <1>8, <1>9 DEF SavedOK, Cuts
<1>11. UntouchedOK'
  <2>1. \A t \in scope[p] : before'[t] = rules'[t]
    BY <1>5, <1>8
  <2>2. \A t \in scope[p] : before'[t] = Absent => file[t] = Absent
    BY <1>5, <1>7, <1>8 DEF Only
  <2> QED BY <1>2, <1>7, <2>1, <2>2 DEF UntouchedOK
<1>12. CookieOK'
  BY <1>2, <1>3, <1>4 DEF CookieOK
<1>13. WatchOK' /\ AccessKept' /\ BackupKept' /\ RollbackRestores'
  BY <1>2, <1>3, <1>7 DEF WatchOK, AccessKept, BackupKept, RollbackRestores, JobEnds, Cuts
<1> QED BY <1>1, <1>10, <1>11, <1>12, <1>13

\* Steps before the restore that leave rules and cookie alone.
LEMMA UntouchedInv ==
    ASSUME IInv, NEW p \in Plays, sole # None,
           ReadFails(p) \/ Test(p) \/ Await(p) \/ RestoreLocked(p)
    PROVE  IInv'
<1> USE DEF IInv
<1>1. TypeOK' /\ Alone'
  BY JobType, JobAlone DEF JobStep
<1>2. sole = p /\ sole' = p /\ file' = file /\ scope' = scope /\ check' = check
  BY JobAlone DEF JobStep
<1>3. UNCHANGED <<rules, cookie, before, mishaps>>
  BY DEF ReadFails, Test, Await, RestoreLocked, host, history
<1>4. job[p] \in Untouched
  BY DEF ReadFails, Test, Await, RestoreLocked, Untouched
<1>5. ~Cuts(rules) /\ ~Cuts(rules')
  BY <1>2, <1>3, <1>4 DEF UntouchedOK, Cuts
<1>6. \/ job'[p] \in JobEnds
      \/ job[p] = "test" /\ p \notin check /\ job'[p] = "await"
      \/ job[p] = "await" /\ job'[p] = "restore"
  BY DEF ReadFails, Test, Await, RestoreLocked, JobTo, JobEnds, TypeOK
<1>7. SavedOK'
  BY <1>2, <1>3, <1>6 DEF SavedOK, JobEnds
<1>8. UntouchedOK'
  BY <1>2, <1>3, <1>4, <1>5, <1>6 DEF UntouchedOK, Untouched, JobEnds
<1>9. CookieOK'
  BY <1>2, <1>3, <1>6 DEF CookieOK, JobEnds
<1>10. WatchOK' /\ AccessKept' /\ BackupKept'
  BY <1>2, <1>5, <1>6 DEF WatchOK, AccessKept, BackupKept, JobEnds
<1>11. RollbackRestores'
  <2>1. job'[p] \notin {"remove", "rolledback"}
    BY DEF ReadFails, Test, Await, RestoreLocked, JobTo, TypeOK
  <2> QED BY <1>2, <2>1 DEF RollbackRestores
<1> QED BY <1>1, <1>7, <1>8, <1>9, <1>10, <1>11

\* Only tables of the task's scope change, and none that the backup does not
\* mention; the backup is in the cookie, and lets the controller in.
LEMMA RestoreInv ==
    ASSUME IInv, NEW p \in Plays, Restore(p) \/ RestoreUnwatched(p), sole # None
    PROVE  IInv'
<1> USE DEF IInv
<1>1. TypeOK' /\ Alone'
  BY JobType, JobAlone DEF JobStep
<1>2. sole = p /\ sole' = p /\ scope' = scope /\ check' = check
  BY JobAlone DEF JobStep
<1>3. /\ UNCHANGED <<cookie, before>>
      /\ mishaps \subseteq mishaps'
      /\ "edited" \in mishaps' => "edited" \in mishaps
  BY DEF Restore, RestoreUnwatched, Mishap, history
<1>4. /\ job[p] = "restore"
      /\ \/ job'[p] = "watch"
         \/ job'[p] = "failed" /\ "unwatched" \in mishaps'
  BY <1>2 DEF Restore, RestoreUnwatched, JobTo, Mishap, TypeOK
<1>5. PICK S \in SUBSET scope[p] : rules' = Over(Only(S, file), rules)
  BY DEF Restore, RestoreUnwatched, RulesLoaded
<1>6. \A t \in Tables : rules'[t] =
         IF t \in S /\ file[t] # Absent THEN file[t] ELSE rules[t]
  BY <1>5 DEF Over, Only
<1>7. ~Cuts(rules) /\ scope[p] \subseteq Tables /\ Absent \notin Barred
  BY <1>2, <1>4, ScopeIsTables, ContentsAssumption DEF UntouchedOK, Untouched, TypeOK
<1>8. SavedOK'
  BY <1>2, <1>3, <1>4, <1>6 DEF SavedOK
<1>9. UntouchedOK'
  BY <1>2, <1>4 DEF UntouchedOK, Untouched
<1>10. CookieOK'
  BY <1>2, <1>3, <1>4 DEF CookieOK
<1>11. "edited" \notin mishaps => \A t \in scope[p] : before[t] = Absent => rules'[t] = Absent
  BY <1>2, <1>4, <1>6, <1>7 DEF UntouchedOK, Untouched
<1>12. WatchOK'
  BY <1>2, <1>3, <1>11 DEF WatchOK
<1>13. ASSUME mishaps' \subseteq {"locked", "killed", "unwatched"}
       PROVE  cookie' = before' /\ ~Cuts(Over(before', rules'))
  <2>1. "early" \notin mishaps /\ "edited" \notin mishaps
    BY <1>3, <1>13
  <2>2. cookie = before
    BY <1>2, <1>4, <2>1 DEF CookieOK
  <2>3. ASSUME NEW t \in Tables
        PROVE  Over(before, rules')[t] \notin Barred
    <3>1. CASE before[t] # Absent
      BY <1>2, <3>1 DEF Over, SavedOK
    <3>2. CASE before[t] = Absent /\ t \in scope[p]
      BY <1>7, <1>11, <2>1, <3>2 DEF Over
    <3>3. CASE before[t] = Absent /\ t \notin scope[p]
      BY <1>2, <1>8, <3>3 DEF Over, SavedOK
    <3> QED BY <3>1, <3>2, <3>3
  <2> QED BY <1>3, <2>2, <2>3 DEF Cuts
<1>14. AccessKept' /\ BackupKept' /\ RollbackRestores'
  BY <1>2, <1>4, <1>13 DEF AccessKept, BackupKept, RollbackRestores, JobEnds
<1> QED BY <1>1, <1>8, <1>9, <1>10, <1>12, <1>14

\* Steps after the restore that leave rules and cookie alone, and a killed job.
LEMMA WatchInv ==
    ASSUME IInv, NEW p \in Plays, sole # None,
           WatchEnds(p) \/ WatchExpires(p) \/ RollbackFails(p) \/ JobDies(p)
    PROVE  IInv'
<1> USE DEF IInv
<1>1. TypeOK' /\ Alone'
  BY JobType, JobAlone DEF JobStep
<1>2. sole = p /\ sole' = p /\ scope' = scope /\ check' = check
  BY JobAlone DEF JobStep
<1>3. UNCHANGED <<rules, cookie, before>> /\ mishaps \subseteq mishaps'
      /\ mishaps' \subseteq mishaps \cup {"locked", "killed"}
  BY DEF WatchEnds, WatchExpires, RollbackFails, JobDies, host, history, Mishap
<1>4. \/ job[p] = "watch" /\ job'[p] = "rollback"
      \/ job'[p] = "ok" /\ cookie = None
      \/ job'[p] = "failed" /\ (cookie = None \/ "locked" \in mishaps')
      \/ job'[p] = "killed" /\ "killed" \in mishaps'
  BY <1>2 DEF WatchEnds, WatchExpires, RollbackFails, JobDies, JobTo, TypeOK, host, history, Mishap
<1>5. SavedOK'
  BY <1>2, <1>3, <1>4 DEF SavedOK
<1>6. UntouchedOK'
  BY <1>2, <1>4 DEF UntouchedOK, Untouched
<1>7. CookieOK'
  BY <1>2, <1>3, <1>4 DEF CookieOK
<1>8. WatchOK'
  BY <1>2, <1>3, <1>4 DEF WatchOK
<1>9. BackupKept'
  BY <1>2, <1>3 DEF BackupKept, Cuts, Over
<1>10. AccessKept'
  <2> SUFFICES ASSUME mishaps' = {}, job'[p] \in JobEnds, Cuts(rules')
               PROVE  FALSE
    BY <1>2 DEF AccessKept
  <2>1. cookie = None
    BY <1>4 DEF JobEnds
  <2>2. cookie = before
    BY <1>2, <1>3 DEF BackupKept, Cuts
  <2> QED BY <2>1, <2>2, NoneAssumption DEF TypeOK
<1>11. RollbackRestores'
  BY <1>2, <1>4 DEF RollbackRestores
<1> QED BY <1>1, <1>5, <1>6, <1>7, <1>8, <1>9, <1>10, <1>11

\* What was saved is in force again, and the tables out of scope never changed.
LEMMA RollbackInv ==
    ASSUME IInv, NEW p \in Plays, sole # None, Rollback(p) \/ RemoveBackup(p)
    PROVE  IInv'
<1> USE DEF IInv
<1>1. TypeOK' /\ Alone'
  BY JobType, JobAlone DEF JobStep
<1>2. sole = p /\ sole' = p /\ scope' = scope /\ check' = check
  BY JobAlone DEF JobStep
<1>3. UNCHANGED <<before, mishaps>>
  BY DEF Rollback, RemoveBackup, history
<1>4. job'[p] \in {"remove", "rolledback", "failed"} /\ job[p] \in {"rollback", "remove"}
  BY DEF Rollback, RemoveBackup, JobTo, TypeOK
<1>5. /\ \A t \in Tables \ scope[p] : rules'[t] = rules[t]
      /\ "edited" \notin mishaps => \A t \in scope[p] : rules'[t] = before[t]
  <2>1. scope[p] \subseteq Tables
    BY ScopeIsTables DEF TypeOK
  <2>2. CASE Rollback(p)
    <3>1. cookie = before
      BY <1>2, <2>2 DEF Rollback, CookieOK
    <3>2. \A t \in Tables : rules'[t] =
             IF t \in scope[p] /\ before[t] # Absent THEN before[t] ELSE rules[t]
      BY <2>2, <3>1 DEF Rollback, Over, Only
    <3>3. "edited" \notin mishaps => \A t \in scope[p] : before[t] = Absent => rules[t] = Absent
      BY <1>2, <2>2 DEF Rollback, WatchOK
    <3> QED BY <2>1, <3>2, <3>3
  <2>3. CASE RemoveBackup(p)
    BY <1>2, <2>3 DEF RemoveBackup, RollbackRestores
  <2> QED BY <2>2, <2>3
<1>6. SavedOK'
  BY <1>2, <1>3, <1>4, <1>5 DEF SavedOK
<1>7. "edited" \notin mishaps => ~Cuts(rules')
  BY <1>2, <1>5 DEF Cuts, SavedOK
<1>8. UntouchedOK' /\ CookieOK' /\ WatchOK'
  BY <1>2, <1>4 DEF UntouchedOK, Untouched, CookieOK, WatchOK
<1>9. AccessKept' /\ BackupKept'
  BY <1>3, <1>7 DEF AccessKept, BackupKept
<1>10. RollbackRestores'
  BY <1>2, <1>3, <1>5 DEF RollbackRestores
<1> QED BY <1>1, <1>6, <1>8, <1>9, <1>10

\* The text matters until it was restored, and a replaced one is remembered.
LEMMA EditInv ==
    ASSUME IInv, NEW f \in Files, EditFile(f)
    PROVE  IInv'
<1> USE DEF IInv
<1>1. TypeOK'
  BY EditType
<1>2. UNCHANGED <<rules, cookie, ctl, job, check, scope, sole, before>>
  BY DEF EditFile, options, history, Mishap
<1>3. sole # None =>
         /\ mishaps \subseteq mishaps' /\ mishaps' \subseteq mishaps \cup {"edited"}
         /\ job[sole] \in Untouched \ {"read"} => "edited" \in mishaps'
  BY DEF EditFile, Mishap, history
<1>4. Alone' /\ SavedOK'
  BY <1>2 DEF Alone, SavedOK, Busy
<1>5. UntouchedOK' /\ CookieOK' /\ WatchOK'
  BY <1>2, <1>3 DEF UntouchedOK, CookieOK, WatchOK, Cuts
<1>6. AccessKept' /\ BackupKept' /\ RollbackRestores'
  BY <1>2, <1>3 DEF AccessKept, BackupKept, RollbackRestores, Cuts, Over
<1> QED BY <1>1, <1>4, <1>5, <1>6

LEMMA NextInv == IInv /\ [Next]_vars => IInv'
<1> SUFFICES ASSUME IInv, [Next]_vars
             PROVE  IInv'
  OBVIOUS
<1>1. CASE UNCHANGED vars
  BY <1>1 DEF vars, IInv, TypeOK, Alone, Busy, SavedOK, UntouchedOK, CookieOK, WatchOK,
    AccessKept, BackupKept, RollbackRestores, Cuts, Over
<1>2. CASE \E p \in Plays, S \in Scopes : Start(p, S)
  BY <1>2, StartInv
<1>3. ASSUME NEW p \in Plays, CtlStep(p)
      PROVE  IInv'
  BY <1>3, CtlInv
<1>4. ASSUME NEW p \in Plays, JobStep(p) \/ JobDies(p)
      PROVE  IInv'
  <2>1. CASE sole = None
    <3>1. sole' = None
      BY <1>4, <2>1 DEF JobStep, JobDies, Read, ReadFails, Test, Await, Restore, RestoreUnwatched, RestoreLocked,
        WatchEnds, WatchExpires, Rollback, RollbackFails, RemoveBackup, history, Mishap
    <3>2. TypeOK'
      BY <1>4, JobType DEF IInv
    <3> QED
      BY <3>1, <3>2 DEF IInv, Alone, SavedOK, UntouchedOK, CookieOK, WatchOK, AccessKept,
        BackupKept, RollbackRestores
  <2>2. CASE sole # None
    BY <1>4, <2>2, ReadInv, UntouchedInv, RestoreInv, WatchInv, RollbackInv DEF JobStep
  <2> QED BY <2>1, <2>2
<1>5. CASE \E f \in Files : EditFile(f)
  BY <1>5, EditInv
<1> QED BY <1>1, <1>2, <1>3, <1>4, <1>5 DEF Next

LEMMA Invariant == Spec => []IInv
BY InitInv, NextInv, PTL DEF Spec

-----------------------------------------------------------------------------
(* The theorems.                                                           *)

\* Every variable has its type, and a check run never gets past its test: the
\* module's exit in check mode comes before the wait for the starter.
THEOREM TypeCorrect == Spec => []TypeOK
BY Invariant, PTL DEF IInv

\* However a task that had the host to itself ends, the controller reaches the
\* host, unless its confirmation was early, its source was replaced after the
\* test, its job was killed, its rollback was refused the lock, or its job ended
\* between loading the rules and watching the cookie.
THEOREM AccessIsKept == Spec => []AccessKept
BY Invariant, PTL DEF IInv

\* As long as the new rules cut the controller off, the cookie holds rules that
\* let it in, so that the module, or an administrator, can load them.
THEOREM BackupIsKept == Spec => []BackupKept
BY Invariant, PTL DEF IInv

\* BACKCOMMAND brings every table of the task back to what was saved, those
\* that were not loaded before included.
THEOREM RollbackIsComplete == Spec => []RollbackRestores
BY Invariant, PTL DEF IInv

-----------------------------------------------------------------------------
(* How a lockout comes to its end.  LockoutEnds itself needs the fairness  *)
(* of JobStep; what each step does to a lockout does not.                  *)

\* A play that had the host to itself cuts the controller off, without any of
\* the exceptions.
Lockout == sole # None /\ mishaps = {} /\ Cuts(rules)

\* The job is at its last looks or at its rollback, which finds the backup and
\* lets the controller in.
LockoutIsWatched ==
    Lockout => /\ job[sole] \in {"watch", "rollback"}
               /\ cookie = before
               /\ ~Cuts(Over(before, rules))

\* Every step of that job ends the lockout or is the one that begins the
\* rollback, and nobody else's step takes the job anywhere else.
LockoutGetsShorter ==
    [][\A p \in Plays :
          Lockout /\ Lockout' /\ p = sole =>
              /\ sole' = sole
              /\ IF JobStep(p) THEN job[p] = "watch" /\ job'[p] = "rollback"
                 ELSE job'[p] = job[p]]_vars

LEMMA WatchedInv == IInv => LockoutIsWatched
<1> SUFFICES ASSUME IInv, Lockout
             PROVE  /\ job[sole] \in {"watch", "rollback"}
                    /\ cookie = before
                    /\ ~Cuts(Over(before, rules))
  BY DEF LockoutIsWatched
<1> USE DEF IInv, Lockout
<1>1. sole \in Plays /\ job[sole] \in JobRuns \cup JobEnds
  BY DEF TypeOK, SavedOK
<1>2. cookie = before /\ ~Cuts(Over(before, rules))
  BY DEF BackupKept
<1>3. job[sole] \notin JobEnds
  BY DEF AccessKept
<1>4. job[sole] \notin Untouched
  BY DEF UntouchedOK
<1>5. job[sole] # "remove"
  <2>1. PICK t \in Tables : rules[t] \in Barred
    BY DEF Cuts
  <2>2. t \in scope[sole] /\ before[t] # rules[t]
    BY <2>1 DEF SavedOK
  <2> QED BY <2>2 DEF RollbackRestores
<1> QED BY <1>1, <1>2, <1>3, <1>4, <1>5 DEF JobRuns

\* Loading the backup over the tables of the task is loading it over all.
LEMMA RollbackIsOver ==
    ASSUME IInv, sole # None, cookie = before
    PROVE  Over(Only(scope[sole], cookie), rules) = Over(before, rules)
BY DEF IInv, SavedOK, Over, Only

LEMMA ShorterStep ==
    ASSUME IInv, Next, Lockout, Lockout'
    PROVE  /\ sole' = sole
           /\ IF JobStep(sole) THEN job[sole] = "watch" /\ job'[sole] = "rollback"
              ELSE job'[sole] = job[sole]
<1>1. /\ job[sole] \in {"watch", "rollback"} /\ cookie = before /\ cookie # None
      /\ ~Cuts(Over(before, rules))
  BY WatchedInv, NoneAssumption DEF LockoutIsWatched, IInv, TypeOK
<1>2. sole \in Plays /\ sole # None /\ mishaps = {} /\ Cuts(rules)
      /\ mishaps' = {} /\ Cuts(rules')
  BY DEF Lockout, IInv, TypeOK
<1>3. job \in [Plays -> JobRuns \cup JobEnds \cup {"none"}]
  BY DEF IInv, TypeOK
<1>4. \A q \in Plays \ {sole} : job[q] \notin JobRuns
  BY <1>2 DEF IInv, Alone, Busy
<1>5. ASSUME JobStep(sole)
      PROVE  sole' = sole /\ job[sole] = "watch" /\ job'[sole] = "rollback"
  <2>1. CASE job[sole] = "watch"
    <3>1. WatchExpires(sole)
      BY <1>1, <1>5, <2>1 DEF JobStep, Read, ReadFails, Test, Await, Restore, RestoreUnwatched, RestoreLocked,
        WatchEnds, Rollback, RollbackFails, RemoveBackup
    <3> QED BY <1>2, <1>3, <2>1, <3>1 DEF WatchExpires, JobTo, history
  <2>2. CASE job[sole] = "rollback"
    <3>1. Rollback(sole) \/ RollbackFails(sole)
      BY <1>5, <2>2 DEF JobStep, Read, ReadFails, Test, Await, Restore, RestoreUnwatched, RestoreLocked,
        WatchEnds, WatchExpires, RemoveBackup
    <3>2. ~Rollback(sole)
      BY <1>1, <1>2, RollbackIsOver DEF Rollback
    <3>3. ~RollbackFails(sole)
      BY <1>1, <1>2 DEF RollbackFails, Mishap
    <3> QED BY <3>1, <3>2, <3>3
  <2> QED BY <1>1, <2>1, <2>2
<1>6. ASSUME ~JobStep(sole)
      PROVE  sole' = sole /\ job'[sole] = job[sole]
  <2>1. ASSUME NEW p \in Plays, NEW S \in Scopes, Start(p, S)
        PROVE  FALSE
    BY <1>2, <2>1 DEF Start
  <2>2. ASSUME NEW p \in Plays, CtlStep(p)
        PROVE  sole' = sole /\ job' = job
    BY <2>2 DEF CtlStep, Query, TouchStarter, Confirm, GiveUp, Poll, Unreachable, Mishap, history
  <2>3. ASSUME NEW p \in Plays, JobStep(p)
        PROVE  FALSE
    <3>1. job[p] \in JobRuns
      BY <2>3 DEF JobStep, Read, ReadFails, Test, Await, Restore, RestoreUnwatched, RestoreLocked, WatchEnds,
        WatchExpires, Rollback, RollbackFails, RemoveBackup, JobRuns, Untouched
    <3> QED BY <1>4, <1>6, <2>3, <3>1
  <2>4. ASSUME NEW p \in Plays, JobDies(p)
        PROVE  FALSE
    BY <1>2, <1>4, <2>4 DEF JobDies, Mishap
  <2>5. ASSUME NEW f \in Files, EditFile(f)
        PROVE  sole' = sole /\ job' = job
    BY <2>5 DEF EditFile, Mishap, history
  <2> QED BY <2>1, <2>2, <2>3, <2>4, <2>5 DEF Next
<1> QED BY <1>5, <1>6

\* While the host is cut off, the job that saved its rules is there to load
\* them again, whatever has become of the controller.
THEOREM LockoutHasItsRollback == Spec => []LockoutIsWatched
BY Invariant, WatchedInv, PTL

\* With two steps of that job at most the lockout is over: what is left to
\* fairness is that the job takes them.
THEOREM LockoutIsShort == Spec => LockoutGetsShorter
<1>1. IInv /\ [Next]_vars =>
        [\A p \in Plays :
            Lockout /\ Lockout' /\ p = sole =>
                /\ sole' = sole
                /\ IF JobStep(p) THEN job[p] = "watch" /\ job'[p] = "rollback"
                   ELSE job'[p] = job[p]]_vars
  BY ShorterStep
<1> QED BY <1>1, Invariant, PTL DEF Spec, LockoutGetsShorter
=============================================================================
