-------------------------------- MODULE MCLogger --------------------------------
(* Two threads that log into a ring of three slots.                          *)
EXTENDS Logger

CONSTANTS t1, t2
================================================================================
