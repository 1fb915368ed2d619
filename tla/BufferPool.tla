------------------------------- MODULE BufferPool -------------------------------
(***************************************************************************)
(* AsyncBatchDetector::PinnedPool with its mutex and condition variable,    *)
(* and what holds its buffers: the batch a prep thread makes of one, and    *)
(* the context of the host callback submitBatch enqueues behind the copy.   *)
(*                                                                          *)
(*   acquire -> batch -> copy enqueued -> context -> callback enqueued      *)
(*            -> copied -> callback drops the context -> batch drops it     *)
(*                                                                          *)
(* The last of the two references releases the buffer, on a worker or on a  *)
(* thread of the CUDA driver.  OverlayPool is the same code; its buffers,   *)
(* like those of a batch that is never submitted, only have the first       *)
(* owner.  One step is one stay inside the mutex (BoundedQueue has the same *)
(* states of a thread).                                                     *)
(***************************************************************************)
EXTENDS Naturals, Sequences, FiniteSets

CONSTANTS Threads,   \* the callers of acquire
          Buffers,
          MaxFaults  \* bound: allocations and launches that fail

ASSUME PoolAssumption == IsFiniteSet(Threads) /\ IsFiniteSet(Buffers) /\ MaxFaults \in Nat

VARIABLES free,     \* free_, a stack
          stopped,  \* stopped_
          pc,       \* the threads: "out", "ready", "asleep"
          refs,     \* per buffer, the owners of its shared_ptr
          stage,    \* per buffer, how far submitBatch is with it
          copying,  \* the buffers whose batch's copy is still to be done
          orphaned, \* those a lost batch's copy still reads: nothing uses its result
          faults

pool == <<free, stopped, pc>>
vars == <<pool, refs, stage, copying, orphaned, faults>>

Init ==
    /\ free \in {s \in [1 .. Cardinality(Buffers) -> Buffers] : \A b \in Buffers : \E i \in DOMAIN s : s[i] = b}
    /\ stopped = FALSE
    /\ pc = [t \in Threads |-> "out"]
    /\ refs = [b \in Buffers |-> {}]
    /\ stage = [b \in Buffers |-> "host"]
    /\ copying = {} /\ orphaned = {} /\ faults = 0

InPool(b) == \E i \in DOMAIN free : free[i] = b

--------------------------------------------------------------------------------
\* The pool.

Sleepers == {t \in Threads : pc[t] = "asleep"}
Runnable == {t \in Threads : pc[t] = "ready"}

\* The variant notifies only when the pool was empty before.
NotifyIfFirst ==
    IF Sleepers = {} \/ free # <<>> THEN pc' = pc
    ELSE \E t \in Sleepers : pc' = [pc EXCEPT ![t] = "ready"]

NotifyOne ==
    IF Sleepers = {} THEN pc' = pc
    ELSE \E t \in Sleepers : pc' = [pc EXCEPT ![t] = "ready"]

Call(t) ==
    /\ pc[t] = "out"
    /\ pc' = [pc EXCEPT ![t] = "ready"]
    /\ UNCHANGED <<free, stopped, refs, stage, copying, orphaned, faults>>

\* The variant reads the last buffer and leaves it there.
Peek == free' = free

Pop == free' = SubSeq(free, 1, Len(free) - 1)

\* acquire, and its caller's shared_ptr.
Acquire(t) ==
    /\ pc[t] = "ready"
    /\ ~stopped
    /\ free # <<>>
    /\ Pop
    /\ pc' = [pc EXCEPT ![t] = "out"]
    /\ refs' = [refs EXCEPT ![free[Len(free)]] = {"batch"}]
    /\ stage' = [stage EXCEPT ![free[Len(free)]] = "host"]
    /\ UNCHANGED <<stopped, copying, orphaned, faults>>

\* acquire answers nullptr, even if there are buffers.
GiveUp(t) ==
    /\ pc[t] = "ready"
    /\ stopped
    /\ pc' = [pc EXCEPT ![t] = "out"]
    /\ UNCHANGED <<free, stopped, refs, stage, copying, orphaned, faults>>

Sleep(t) ==
    /\ pc[t] = "ready"
    /\ free = <<>> /\ ~stopped
    /\ pc' = [pc EXCEPT ![t] = "asleep"]
    /\ UNCHANGED <<free, stopped, refs, stage, copying, orphaned, faults>>

SpuriousWakeup(t) ==
    /\ pc[t] = "asleep"
    /\ pc' = [pc EXCEPT ![t] = "ready"]
    /\ UNCHANGED <<free, stopped, refs, stage, copying, orphaned, faults>>

\* The variant uses notify_one.
WakeOne == NotifyOne

WakeAll == pc' = [t \in Threads |-> IF pc[t] = "asleep" THEN "ready" ELSE pc[t]]

Stop ==
    /\ ~stopped
    /\ stopped' = TRUE
    /\ WakeAll
    /\ UNCHANGED <<free, refs, stage, copying, orphaned, faults>>

LastOwner(owners) == owners = {}

\* Owners is what is left; the last one to go releases the buffer.
Drop(b, owners) ==
    /\ refs' = [refs EXCEPT ![b] = owners]
    /\ IF LastOwner(owners)
       THEN free' = Append(free, b) /\ NotifyOne
       ELSE UNCHANGED <<free, pc>>
    /\ UNCHANGED stopped

--------------------------------------------------------------------------------
\* submitBatch, the stream and the callback.

EnqueueCopy(b) ==
    /\ refs[b] = {"batch"} /\ stage[b] = "host"
    /\ stage' = [stage EXCEPT ![b] = "copy"]
    /\ copying' = copying \union {b}
    /\ UNCHANGED <<pool, refs, orphaned, faults>>

NewContext(b) ==
    /\ stage[b] = "copy"
    /\ stage' = [stage EXCEPT ![b] = "context"]
    /\ refs' = [refs EXCEPT ![b] = @ \union {"context"}]
    /\ UNCHANGED <<pool, copying, orphaned, faults>>

\* bad_alloc: the worker's catch block lets the batch go.
NewContextThrows(b) ==
    /\ stage[b] = "copy"
    /\ faults < MaxFaults
    /\ faults' = faults + 1
    /\ stage' = [stage EXCEPT ![b] = "host"]
    /\ copying' = copying \ {b}
    /\ orphaned' = orphaned \union (copying \intersect {b})
    /\ Drop(b, {})

LaunchHostFunc(b) ==
    /\ stage[b] = "context"
    /\ stage' = [stage EXCEPT ![b] = "launched"]
    /\ UNCHANGED <<pool, refs, copying, orphaned, faults>>

\* Its error code is ignored.
LaunchHostFuncFails(b) ==
    /\ stage[b] = "context"
    /\ faults < MaxFaults
    /\ faults' = faults + 1
    /\ stage' = [stage EXCEPT ![b] = "leaked"]
    /\ UNCHANGED <<pool, refs, copying, orphaned>>

Copied(b) ==
    /\ b \in copying
    /\ copying' = copying \ {b}
    /\ UNCHANGED <<pool, refs, stage, orphaned, faults>>

OrphanCopied(b) ==
    /\ b \in orphaned
    /\ orphaned' = orphaned \ {b}
    /\ UNCHANGED <<pool, refs, stage, copying, faults>>

\* The variant is enqueued before the copy.
CallbackTooEarly(b) ==
    /\ stage[b] = "launched"
    /\ stage' = [stage EXCEPT ![b] = "done"]
    /\ Drop(b, refs[b] \ {"context"})
    /\ UNCHANGED <<copying, orphaned, faults>>

\* The variant does not delete its context.
CallbackForgets(b) ==
    /\ stage[b] = "launched"
    /\ b \notin copying
    /\ stage' = [stage EXCEPT ![b] = "done"]
    /\ UNCHANGED <<pool, refs, copying, orphaned, faults>>

ReleasePinnedInputCallback(b) ==
    /\ stage[b] = "launched"
    /\ b \notin copying
    /\ stage' = [stage EXCEPT ![b] = "done"]
    /\ Drop(b, refs[b] \ {"context"})
    /\ UNCHANGED <<copying, orphaned, faults>>

\* After the synchronisation, or at once when Run or a stage before it throws.
BatchGone(b) ==
    /\ "batch" \in refs[b]
    /\ stage[b] \notin {"copy", "context"}
    /\ Drop(b, refs[b] \ {"batch"})
    /\ UNCHANGED <<stage, copying, orphaned, faults>>

--------------------------------------------------------------------------------

Next ==
    \/ \E t \in Threads : Call(t) \/ Acquire(t) \/ GiveUp(t) \/ Sleep(t) \/ SpuriousWakeup(t)
    \/ Stop
    \/ \E b \in Buffers :
        \/ EnqueueCopy(b)
        \/ NewContext(b) \/ NewContextThrows(b)
        \/ LaunchHostFunc(b) \/ LaunchHostFuncFails(b)
        \/ Copied(b) \/ OrphanCopied(b) \/ ReleasePinnedInputCallback(b)
        \/ BatchGone(b)

\* The threads run and the streams make progress; nobody has to call, to submit
\* or to stop.
Fairness ==
    /\ \A t \in Threads : WF_vars(Acquire(t)) /\ WF_vars(GiveUp(t)) /\ WF_vars(Sleep(t))
    /\ \A b \in Buffers :
        /\ WF_vars(NewContext(b) \/ NewContextThrows(b))
        /\ WF_vars(LaunchHostFunc(b) \/ LaunchHostFuncFails(b))
        /\ WF_vars(Copied(b))
        /\ WF_vars(ReleasePinnedInputCallback(b))
        /\ WF_vars(BatchGone(b))

SafeSpec == Init /\ [][Next]_vars

Spec == SafeSpec /\ Fairness

--------------------------------------------------------------------------------

TypeOK ==
    /\ free \in Seq(Buffers) /\ Len(free) <= Cardinality(Buffers)
    /\ stopped \in BOOLEAN
    /\ pc \in [Threads -> {"out", "ready", "asleep"}]
    /\ refs \in [Buffers -> SUBSET {"batch", "context"}]
    /\ stage \in [Buffers -> {"host", "copy", "context", "launched", "leaked", "done"}]
    /\ copying \subseteq Buffers /\ orphaned \subseteq Buffers
    /\ faults \in 0 .. MaxFaults

\* A buffer is in the pool exactly once or somebody still has it, whichever of
\* batch and callback goes last and whatever fails on the way (and all
\* variables keep their types).
OneOwner ==
    /\ TypeOK
    /\ \A i, j \in DOMAIN free : free[i] = free[j] => i = j
    /\ \A b \in Buffers : InPool(b) <=> refs[b] = {}

\* As long as a thread sleeps in acquire, every free buffer has an awake thread
\* on its way to it: one notify_one per release is enough, whether or not the
\* pool was empty and whoever comes in between.
NoLostWakeup ==
    Sleepers # {} => Len(free) <= Cardinality(Runnable)

\* No buffer is free, or filled for another batch, while the copy of its batch
\* still reads it: not when Run throws at once, not when the launch of the
\* callback fails.  (Only a copy whose batch is lost at "new" may be overtaken,
\* and no Run ever reads what it copies.)
NoReuseUnderCopy ==
    \A b \in copying : refs[b] # {} /\ stage[b] \notin {"host", "done"}

\* Every buffer that is lent comes back unless the launch of its callback failed
\* unnoticed; nothing else can empty the pool for good.
BuffersComeBack ==
    \A b \in Buffers :
        (refs[b] # {}) ~> (InPool(b) \/ stage[b] = "leaked")

\* The pool implements the atomic pool: nobody waits for ever beside a free
\* buffer, and stop() lets everybody go.
A == INSTANCE AtomicPool WITH
        free <- {b \in Buffers : InPool(b)},
        waiting <- {t \in Threads : pc[t] # "out"}

ImplementsAtomicPool == A!Spec
================================================================================
