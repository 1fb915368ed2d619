------------------------------ MODULE MCLifecycle ------------------------------
(* Two points, so that one may fail while the other runs.                    *)
EXTENDS Lifecycle
================================================================================
