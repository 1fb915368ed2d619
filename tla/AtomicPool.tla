------------------------------- MODULE AtomicPool -------------------------------
(***************************************************************************)
(* What PinnedPool and OverlayPool promise, without their mutex and their   *)
(* condition variable: a caller of acquire waits for a buffer and gets one  *)
(* nobody else has, or nothing at all once the pool is stopped.             *)
(***************************************************************************)

CONSTANTS Threads, Buffers

VARIABLES free,     \* the buffers in the pool
          stopped,
          waiting   \* the threads inside acquire

vars == <<free, stopped, waiting>>

Init == free = Buffers /\ stopped = FALSE /\ waiting = {}

Call(t) ==
    /\ t \notin waiting
    /\ waiting' = waiting \union {t}
    /\ UNCHANGED <<free, stopped>>

Acquire(t) ==
    /\ t \in waiting
    /\ ~stopped
    /\ \E b \in free : free' = free \ {b}
    /\ waiting' = waiting \ {t}
    /\ UNCHANGED stopped

GiveUp(t) ==
    /\ t \in waiting
    /\ stopped
    /\ waiting' = waiting \ {t}
    /\ UNCHANGED <<free, stopped>>

Release(b) ==
    /\ b \notin free
    /\ free' = free \union {b}
    /\ UNCHANGED <<stopped, waiting>>

Stop == stopped' = TRUE /\ UNCHANGED <<free, waiting>>

Next ==
    \/ \E t \in Threads : Call(t) \/ Acquire(t) \/ GiveUp(t)
    \/ \E b \in Buffers : Release(b)
    \/ Stop

\* A buffer in the pool does not stay there while somebody waits for one (which
\* of the waiting threads gets it is open), and stop() lets everybody go.
Fairness ==
    /\ WF_vars(\E t \in Threads : Acquire(t))
    /\ \A t \in Threads : WF_vars(GiveUp(t))

SafeSpec == Init /\ [][Next]_vars

Spec == SafeSpec /\ Fairness
================================================================================
