----------------------------- MODULE MCBoundedQueue -----------------------------
(* A small bounded queue with every kind of caller of the pipeline's three     *)
(* queues: blocking pushers (prep and inference workers), the non-blocking      *)
(* push of the ingest thread, blocking poppers (prep and post workers) and      *)
(* timed poppers (inference workers).                                           *)
EXTENDS BoundedQueue

CONSTANTS p1, p2, c1, c2, t1, a, b
================================================================================
