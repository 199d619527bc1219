--------------------------- MODULE MCPartitionSeed ---------------------------
(* Storage, which 05-fix-domain-mismatch.sh restarts and waits for: its old  *)
(* and its new pod are two readers that fill the cache. Another service      *)
(* would add nothing but a copy of its own, which no step reads.             *)
EXTENDS PartitionSeed

MCServices == {"storage"}
=============================================================================
