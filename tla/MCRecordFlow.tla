---------------------------- MODULE MCRecordFlow ----------------------------
(* Two runs; three seconds, so that the runs take the same second or two    *)
(* different ones and both can wait; searches that return one record.       *)
EXTENDS RecordFlow
=============================================================================
