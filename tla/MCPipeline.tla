------------------------------- MODULE MCPipeline -------------------------------
(* Small pipelines.  Buffers are interchangeable: Symmetry is used by the   *)
(* run that checks invariants.                                              *)
EXTENDS Pipeline, TLC

CONSTANTS p1, i1, i2, o1, b1, b2, v1

Symmetry == Permutations(Buffers)
================================================================================
