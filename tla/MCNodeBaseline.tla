--------------------------- MODULE MCNodeBaseline ---------------------------
(* One node, both task lists as they are; the only parameter is how many    *)
(* faults a behaviour may hold.                                              *)
EXTENDS NodeBaseline
=============================================================================
