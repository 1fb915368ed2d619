------------------------------ MODULE MCBufferPool ------------------------------
(* Three threads for two buffers, so that newcomers race with woken sleepers.  *)
EXTENDS BufferPool

CONSTANTS t1, t2, t3, b1, b2
================================================================================
