--------------------------- MODULE EnsureDatabases ---------------------------
(***************************************************************************)
(* What the PostSync hook osdu-postgres-initdb promises the rest of the    *)
(* platform: databases are only ever added, each one at a time, and a sync *)
(* is reported as done only when all of them exist.                        *)
(***************************************************************************)
CONSTANT Databases

VARIABLES created, done

vars == <<created, done>>

Init == created = {} /\ done = FALSE

\* Any sync may add a missing database.
Add(db) ==
    /\ db \notin created
    /\ created' = created \cup {db}
    /\ UNCHANGED done

Report ==
    /\ created = Databases
    /\ done' = TRUE
    /\ UNCHANGED created

\* The next sync starts over.
Resync ==
    /\ done' = FALSE
    /\ UNCHANGED created

Next == (\E db \in Databases : Add(db)) \/ Report \/ Resync

Spec == Init /\ [][Next]_vars
=============================================================================
