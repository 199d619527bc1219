---------------------------- MODULE MCDeployHelper ----------------------------
(* Two sessions, three releases of which one old one is kept. Sessions and    *)
(* releases are interchangeable.                                              *)
EXTENDS DeployHelper, TLC

MCSymmetry == Permutations(Sessions) \cup Permutations(Releases)
=============================================================================
