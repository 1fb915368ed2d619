------------------------------ MODULE AtomicQueue ------------------------------
(***************************************************************************)
(* What AsyncBatchDetector::BoundedQueue promises its callers, with the     *)
(* mutex and the two condition variables hidden: every call takes effect in *)
(* one step, a push waits for room, a pop waits for an item, and stop()     *)
(* releases everybody.  The worker modules rely on this interface;          *)
(* BoundedQueue is shown to implement it, fairness included.                *)
(***************************************************************************)
EXTENDS Naturals, Sequences

CONSTANTS Pushers, Poppers, TimedPoppers, Items, Max

VARIABLES q,         \* the queued items, oldest first
          stopped,   \* stop() has been called
          inside     \* the threads whose call has not returned yet

vars == <<q, stopped, inside>>

Takers == Poppers \union TimedPoppers

Init ==
    /\ q = <<>>
    /\ stopped = FALSE
    /\ inside = {}

Call(t) ==
    /\ t \notin inside
    /\ inside' = inside \union {t}
    /\ UNCHANGED <<q, stopped>>

Return(t) ==
    /\ t \in inside
    /\ inside' = inside \ {t}

Push(t) ==
    /\ ~stopped
    /\ Len(q) < Max
    /\ Return(t)
    /\ \E x \in Items : q' = Append(q, x)
    /\ UNCHANGED stopped

TryPush ==
    /\ ~stopped
    /\ Len(q) < Max
    /\ \E x \in Items : q' = Append(q, x)
    /\ UNCHANGED <<stopped, inside>>

Pop(t) ==
    /\ q # <<>>
    /\ Return(t)
    /\ q' = Tail(q)
    /\ UNCHANGED stopped

\* A push gives up once the queue is stopped, a pop once it is also empty.
GiveUp(t) ==
    /\ stopped
    /\ t \in Takers => q = <<>>
    /\ Return(t)
    /\ UNCHANGED <<q, stopped>>

\* A timed pop may only report a timeout when there was nothing to take.
Timeout(t) ==
    /\ ~stopped
    /\ q = <<>>
    /\ Return(t)
    /\ UNCHANGED <<q, stopped>>

Stop ==
    /\ stopped' = TRUE
    /\ UNCHANGED <<q, inside>>

Next ==
    \/ \E t \in Pushers \union Takers : Call(t) \/ GiveUp(t)
    \/ \E t \in Pushers : Push(t)
    \/ \E t \in Takers : Pop(t)
    \/ \E t \in TimedPoppers : Timeout(t)
    \/ TryPush
    \/ Stop

\* Room is used while a pusher waits for it, an item is taken while a popper
\* waits for it, no timed pop waits for ever, and a stopped queue lets every
\* caller go: what the absence of lost wake-ups has to provide.
Fairness ==
    /\ WF_vars(\E t \in Pushers : Push(t))
    /\ WF_vars(\E t \in Takers : Pop(t))
    /\ WF_vars(\E t \in TimedPoppers : Timeout(t))
    /\ \A t \in Pushers \union Takers : WF_vars(GiveUp(t))

SafeSpec == Init /\ [][Next]_vars

Spec == SafeSpec /\ Fairness
================================================================================
