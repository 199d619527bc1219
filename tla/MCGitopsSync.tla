----------------------------- MODULE MCGitopsSync -----------------------------
(* Both trees and the lone Application; "deps" stands for the three children  *)
(* of the automated root that have no sync-wave, "loki" for the three of the  *)
(* other root.                                                                *)
EXTENDS GitopsSync

MCRoots == {"osdu", "observability"}
MCChildren == {"ceph", "deps", "loki"}
MCLone == {"proxy"}
MCParent == [ceph |-> "osdu", deps |-> "osdu", loki |-> "observability"]
MCAutomated == {"osdu", "ceph", "deps", "proxy"}
MCFinalized == {"proxy"}
MCLate == {"ceph"}
===============================================================================
