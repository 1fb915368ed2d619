------------------------------ MODULE MCBatchRing ------------------------------
(* A ring of a few slots, with the producer and the reader of the protocol.  *)
EXTENDS BatchRing
================================================================================
