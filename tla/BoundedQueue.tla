------------------------------ MODULE BoundedQueue ------------------------------
(***************************************************************************)
(* AsyncBatchDetector::BoundedQueue<T> (AsyncBatchDetector.h, 105-140): a   *)
(* bounded FIFO guarded by one mutex with two condition variables, cv_push_ *)
(* (waiting for room) and cv_pop_ (waiting for an item).                    *)
(*                                                                          *)
(* A step is one stay inside the mutex: a call, or a caller that has been   *)
(* woken, evaluates its wait predicate and either performs its operation or *)
(* goes (back) to sleep.  A thread is                                       *)
(*   "out"      not in a call                                               *)
(*   "ready"    in a call, about to lock the mutex and test its predicate   *)
(*   "asleep"   blocked on its condition variable                           *)
(*   "expired"  a pop_for whose time is up, about to test a last time       *)
(* try_push never waits: a refused try_push changes nothing and is not a    *)
(* step here.  Notifications pick any sleeper, and sleepers may wake        *)
(* spuriously, as the C++ standard allows.                                  *)
(***************************************************************************)
EXTENDS Naturals, Sequences, FiniteSets

CONSTANTS Pushers,       \* threads that call push
          Poppers,       \* threads that call pop
          TimedPoppers,  \* threads that call pop_for
          Items,         \* what is queued
          Max            \* max_

ASSUME ThreadsAssumption ==
    /\ IsFiniteSet(Pushers)
    /\ IsFiniteSet(Poppers)
    /\ IsFiniteSet(TimedPoppers)
    /\ Pushers \intersect (Poppers \union TimedPoppers) = {}
    /\ Poppers \intersect TimedPoppers = {}

ASSUME MaxAssumption == Max \in Nat \ {0}

VARIABLES q, stopped, pc

vars == <<q, stopped, pc>>

Takers == Poppers \union TimedPoppers
Threads == Pushers \union Takers

Sleepers(S) == {t \in S : pc[t] = "asleep"}
Runnable(S) == {t \in S : pc[t] \in {"ready", "expired"}}

\* The predicates of cv_push_.wait and cv_pop_.wait.
HasRoom == Len(q) < Max \/ stopped
HasItem == q # <<>> \/ stopped

Init ==
    /\ q = <<>>
    /\ stopped = FALSE
    /\ pc = [t \in Threads |-> "out"]

\* The variant forgets to notify.
NotifyNobody(S, f) == pc' = f

\* notify_one on the condition variable the threads of S wait on; f is what
\* the caller itself has become.
NotifyOne(S, f) ==
    IF Sleepers(S) = {}
    THEN pc' = f
    ELSE \E u \in Sleepers(S) : pc' = [f EXCEPT ![u] = "ready"]

\* The variant wakes one thread of each side where notify_all wakes them all.
NotifyOneOfEach ==
    \E U \in SUBSET Sleepers(Threads) :
        /\ Cardinality(U \intersect Pushers) <= 1
        /\ Cardinality(U \intersect Takers) <= 1
        /\ pc' = [t \in Threads |-> IF t \in U THEN "ready" ELSE pc[t]]

\* notify_all on both condition variables.
NotifyAll ==
    pc' = [t \in Threads |-> IF pc[t] = "asleep" THEN "ready" ELSE pc[t]]

Returned(t) == [pc EXCEPT ![t] = "out"]

Call(t) ==
    /\ pc[t] = "out"
    /\ pc' = [pc EXCEPT ![t] = "ready"]
    /\ UNCHANGED <<q, stopped>>

Push(t) ==
    /\ pc[t] = "ready"
    /\ ~stopped
    /\ Len(q) < Max
    /\ \E x \in Items : q' = Append(q, x)
    /\ NotifyOne(Takers, Returned(t))
    /\ UNCHANGED stopped

TryPush ==
    /\ ~stopped
    /\ Len(q) < Max
    /\ \E x \in Items : q' = Append(q, x)
    /\ NotifyOne(Takers, pc)
    /\ UNCHANGED stopped

Pop(t) ==
    /\ pc[t] \in {"ready", "expired"}
    /\ q # <<>>
    /\ q' = Tail(q)
    /\ NotifyOne(Pushers, Returned(t))
    /\ UNCHANGED stopped

\* push returns false; pop returns false and pop_for QPop::Stopped.
GiveUp(t) ==
    /\ pc[t] \in {"ready", "expired"}
    /\ stopped
    /\ t \in Takers => q = <<>>
    /\ pc' = Returned(t)
    /\ UNCHANGED <<q, stopped>>

Sleep(t) ==
    /\ pc[t] = "ready"
    /\ IF t \in Pushers THEN ~HasRoom ELSE ~HasItem
    /\ pc' = [pc EXCEPT ![t] = "asleep"]
    /\ UNCHANGED <<q, stopped>>

SpuriousWakeup(t) ==
    /\ pc[t] = "asleep"
    /\ pc' = [pc EXCEPT ![t] = "ready"]
    /\ UNCHANGED <<q, stopped>>

\* wait_for times out; the predicate is still evaluated once more.
Expire(t) ==
    /\ pc[t] = "asleep"
    /\ pc' = [pc EXCEPT ![t] = "expired"]
    /\ UNCHANGED <<q, stopped>>

\* The variant reports a timeout without the last look at the queue.
TimeoutBlindly(t) ==
    /\ pc[t] = "expired"
    /\ pc' = Returned(t)
    /\ UNCHANGED <<q, stopped>>

\* pop_for returns QPop::Timeout.
Timeout(t) ==
    /\ pc[t] = "expired"
    /\ ~HasItem
    /\ pc' = Returned(t)
    /\ UNCHANGED <<q, stopped>>

Stop ==
    /\ ~stopped
    /\ stopped' = TRUE
    /\ NotifyAll
    /\ UNCHANGED q

Next ==
    \/ \E t \in Threads : Call(t) \/ GiveUp(t) \/ Sleep(t) \/ SpuriousWakeup(t)
    \/ \E t \in Pushers : Push(t)
    \/ \E t \in Takers : Pop(t)
    \/ \E t \in TimedPoppers : Expire(t) \/ Timeout(t)
    \/ TryPush
    \/ Stop

\* A thread inside a call is eventually scheduled and eventually gets the
\* mutex.  wait_for waits until an absolute deadline, so however often it is
\* woken spuriously before, it ends: strong fairness.  Nothing makes a thread
\* call, nothing makes anybody call stop(), and no spurious wake-up is owed.
Fairness ==
    /\ \A t \in Threads : WF_vars(GiveUp(t)) /\ WF_vars(Sleep(t))
    /\ \A t \in Pushers : WF_vars(Push(t))
    /\ \A t \in Takers : WF_vars(Pop(t))
    /\ \A t \in TimedPoppers : SF_vars(Expire(t)) /\ WF_vars(Timeout(t))

SafeSpec == Init /\ [][Next]_vars

Spec == SafeSpec /\ Fairness

--------------------------------------------------------------------------------

TypeOK ==
    /\ q \in Seq(Items)
    /\ Len(q) <= Max
    /\ stopped \in BOOLEAN
    /\ pc \in [Threads -> {"out", "ready", "asleep", "expired"}]
    /\ \A t \in Threads : pc[t] = "expired" => t \in TimedPoppers

\* No wake-up for an item is lost: as long as some thread sleeps in cv_pop_,
\* every queued item has an awake popper on its way to it.  This is what one
\* notify_one per push, on a condition variable of its own, has to ensure.
NoLostItem ==
    Sleepers(Takers) # {} => Len(q) <= Cardinality(Runnable(Takers))

\* No wake-up for room is lost: as long as some thread sleeps in cv_push_,
\* every free place has an awake pusher on its way to it.
NoLostRoom ==
    Sleepers(Pushers) # {} => Max - Len(q) <= Cardinality(Runnable(Pushers))

\* After stop() nobody sleeps on either condition variable, however the calls
\* were interleaved with it: the destructor can join the workers.
StopWakesEverybody ==
    stopped => Sleepers(Threads) = {}

\* What the queue with its two condition variables maintains: no wake-up for an
\* item, for room or by stop() is lost, the capacity is kept, and a deadline
\* expires for pop_for only.  It is inductive.
Inv ==
    /\ TypeOK
    /\ NoLostItem
    /\ NoLostRoom
    /\ StopWakesEverybody

\* The queue implements the atomic queue the workers are written against, and
\* its fairness: a waiting popper is served when there is an item, a waiting
\* pusher when there is room, and stop() lets everybody return.
A == INSTANCE AtomicQueue WITH inside <- {t \in Threads : pc[t] # "out"}

ImplementsAtomicQueue == A!Spec
================================================================================
