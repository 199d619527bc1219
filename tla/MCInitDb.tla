------------------------------ MODULE MCInitDb ------------------------------
(* Three of the eight databases, and a Job's pod next to its predecessor's. *)
EXTENDS InitDb

CONSTANTS d1, d2, d3

MCOrder == <<d1, d2, d3>>
=============================================================================
