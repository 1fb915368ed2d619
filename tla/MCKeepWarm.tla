------------------------------- MODULE MCKeepWarm -------------------------------
(* Two GPU sessions, the longest batch longer than the idle time.              *)
EXTENDS KeepWarm, TLC

CONSTANTS g1, g2, t1, t2

Symmetry == Permutations({g1, g2}) \union Permutations({t1, t2})
================================================================================
