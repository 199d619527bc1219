---------------------------- MODULE MCIptablesState ----------------------------
(* Two sessions and two tables. One source text cuts the controller off and   *)
(* mentions tables that may not be loaded yet; the other mentions nat only.   *)
EXTENDS IptablesState

MCTables == {"filter", "nat"}

MCContents == {"accept", "drop"}

MCBarred == {"drop"}

MCFiles ==
    { [filter |-> "drop", nat |-> "accept"],
      [filter |-> Absent, nat |-> "accept"] }

MCScopes == {{"filter", "nat"}, {"filter"}}
=============================================================================
