-------------------------------- MODULE Pipeline --------------------------------
(***************************************************************************)
(* AsyncBatchDetector: three stages of threads joined by three bounded      *)
(* queues, with the two buffer pools, the CUDA streams and the destructor.  *)
(*                                                                          *)
(*   pushBatch -> q_raw_ -> prep -> q_prep_ -> inf -> q_inf_ -> post -> sink *)
(*                                                                          *)
(* A batch is its sequence number.  Its pixels stay in the caller's ring    *)
(* slot; what it owns on the way is a page-locked staging buffer (from the  *)
(* prep stage until the H2D copy and the stream sync are over) and, in the  *)
(* post stage, an overlay buffer.  The staging buffer is a shared_ptr with  *)
(* two possible holders: the batch (pinned_blob) and the context of the     *)
(* host callback, which submitBatch allocates and launches behind the H2D   *)
(* copy it has enqueued on the session's stream; the last one to let go     *)
(* returns it to the pool.                                                  *)
(*                                                                          *)
(* Queues and pools are atomic here: BoundedQueue shows why they may be.    *)
(***************************************************************************)
EXTENDS Integers, Sequences, FiniteSets, Functions

CONSTANTS PrepWorkers, InfWorkers, PostWorkers,
          GpuSessions,      \* inference threads whose session runs on CUDA
          Buffers,          \* the page-locked buffers of pinnedPool_
          Overlays,         \* the buffers of overlayPool_
          RawCap, PrepCap, InfCap,
          None,             \* no batch, no buffer
          MaxSeq,           \* bound: how many batches are pushed
          MaxFaults         \* bound: exceptions thrown and launches that fail

ASSUME PipelineAssumption ==
    /\ GpuSessions \subseteq InfWorkers
    /\ {RawCap, PrepCap, InfCap} \subseteq Nat \ {0}
    /\ MaxSeq \in Nat
    /\ MaxFaults \in Nat
    /\ None \notin Nat \union Buffers \union Overlays

\* Each stage has threads of its own, finitely many.
ASSUME ThreadsAssumption ==
    /\ IsFiniteSet(PrepWorkers) /\ IsFiniteSet(InfWorkers) /\ IsFiniteSet(PostWorkers)
    /\ PrepWorkers \intersect InfWorkers = {}
    /\ PrepWorkers \intersect PostWorkers = {}
    /\ InfWorkers \intersect PostWorkers = {}

\* overlayPool_ is made with num_post_threads_ + 2 buffers.
ASSUME OverlaysAssumption ==
    IsFiniteSet(Overlays) /\ Cardinality(PostWorkers) <= Cardinality(Overlays)

VARIABLES
    rawQ, prepQ, infQ,   \* q_raw_, q_prep_, q_inf_
    pc,                  \* where each worker is in its loop
    task,                \* the batch each worker holds
    buf,                 \* pinned_blob of each batch
    overlay,             \* the overlay buffer each post worker holds
    pinnedFree, overlayFree,
    stream,              \* per session, the H2D copies and callbacks still to be done
    leaked,              \* per session, buffers of the contexts it could not launch
    accepted, refused,   \* what pushBatch answered
    published,           \* handed to the sink
    dropped,             \* dropped_frames_
    down                 \* how far the destructor has come

queues == <<rawQ, prepQ, infQ>>
pools == <<buf, overlay, pinnedFree, overlayFree, stream, leaked>>
ledger == <<accepted, refused, published, dropped>>
vars == <<queues, pc, task, pools, ledger, down>>

Batches == 0 .. MaxSeq - 1
Workers == PrepWorkers \union InfWorkers \union PostWorkers

InFlight ==
    Range(rawQ) \union Range(prepQ) \union Range(infQ) \union (Range(task) \ {None})

\* What is enqueued on a stream.  The copy of a batch that was lost before its
\* context existed is an orphan: nothing uses what it copies.
Copy(b) == <<"copy", b>>
Orphan(b) == <<"orphan", b>>
Callback(b) == <<"callback", b>>

\* The buffers in the PinnedReleaseCtx objects that a session has made.
Contexts(w) == {b \in Buffers : Callback(b) \in Range(stream[w])} \union leaked[w]

\* The variant only counts the holder the batch is.
HeldByBatch == Range(buf)

\* Buffers some shared_ptr still points to.
Held == Range(buf) \union UNION {Contexts(w) : w \in InfWorkers}

Init ==
    /\ rawQ = <<>> /\ prepQ = <<>> /\ infQ = <<>>
    /\ pc = [w \in Workers |-> "top"]
    /\ task = [w \in Workers |-> None]
    /\ buf = [s \in Batches |-> None]
    /\ overlay = [w \in PostWorkers |-> None]
    /\ pinnedFree = Buffers
    /\ overlayFree = Overlays
    /\ stream = [w \in InfWorkers |-> <<>>]
    /\ leaked = [w \in InfWorkers |-> {}]
    /\ accepted = {} /\ refused = {} /\ published = {}
    /\ dropped = 0
    /\ down = {}

--------------------------------------------------------------------------------
\* Control flow of a worker thread.

At(w, here) == pc[w] = here
Goto(w, there) == pc' = [pc EXCEPT ![w] = there]
Take(w, s) == task' = [task EXCEPT ![w] = s]

Stopped(object) == object \in down

\* while (is_running_)
Loop(w) ==
    /\ At(w, "top")
    /\ Goto(w, IF Stopped("is_running_") THEN "exited" ELSE "pop")
    /\ UNCHANGED <<queues, task, pools, ledger, down>>

\* pop (or pop_for) answers that the queue is stopped and empty.
LeaveAtPop(w, q, name) ==
    /\ At(w, "pop")
    /\ q = <<>>
    /\ Stopped(name)
    /\ Goto(w, "exited")
    /\ UNCHANGED <<queues, task, pools, ledger, down>>

\* Whatever the thread held of batch s goes out of scope: a staging buffer
\* returns to the pool unless its host callback is still to run.
ReleaseBuffer(s) ==
    /\ buf' = [buf EXCEPT ![s] = None]
    /\ pinnedFree' = pinnedFree \union ({buf[s]} \ ({None} \union Held'))

\* break out of the loop with a batch in hand, at a stopped queue or pool.
Abandon(w, here, name) ==
    /\ At(w, here)
    /\ Stopped(name)
    /\ Goto(w, "exited")
    /\ Take(w, None)
    /\ UNCHANGED <<stream, leaked>>
    /\ ReleaseBuffer(task[w])
    /\ UNCHANGED <<queues, overlay, overlayFree, ledger, down>>

\* The variant logs the exception and does not count the batch.
JustLog == dropped' = dropped

CountDrop == dropped' = dropped + 1

MayFail == dropped + Cardinality(UNION Range(leaked)) < Cardinality(refused) + MaxFaults

\* An exception, caught at the bottom of the loop.
Throw ==
    /\ MayFail
    /\ CountDrop
    /\ UNCHANGED <<accepted, refused, published>>

--------------------------------------------------------------------------------
\* pushBatch, called by the ingest thread, which is joined before the
\* destructor runs.

PushBatch(s) ==
    /\ down = {}
    /\ s = Cardinality(accepted \union refused)
    /\ IF Len(rawQ) < RawCap
       THEN /\ rawQ' = Append(rawQ, s)
            /\ accepted' = accepted \union {s}
            /\ UNCHANGED <<refused, dropped>>
       ELSE /\ refused' = refused \union {s}
            /\ dropped' = dropped + 1
            /\ UNCHANGED <<rawQ, accepted>>
    /\ UNCHANGED <<prepQ, infQ, pc, task, pools, published, down>>

--------------------------------------------------------------------------------
\* preprocessingWorker

\* The variant reads the front of the queue and does not remove it.
PeekRaw(w) ==
    /\ At(w, "pop")
    /\ rawQ # <<>>
    /\ Take(w, Head(rawQ))
    /\ Goto(w, "acquire")
    /\ UNCHANGED <<queues, pools, ledger, down>>

PopRaw(w) ==
    /\ At(w, "pop")
    /\ rawQ # <<>>
    /\ Take(w, Head(rawQ))
    /\ rawQ' = Tail(rawQ)
    /\ Goto(w, "acquire")
    /\ UNCHANGED <<prepQ, infQ, pools, ledger, down>>

AcquirePinned(w) ==
    /\ At(w, "acquire")
    /\ ~Stopped("pinnedPool_")
    /\ \E b \in pinnedFree :
        /\ buf' = [buf EXCEPT ![task[w]] = b]
        /\ pinnedFree' = pinnedFree \ {b}
    /\ Goto(w, "push")
    /\ UNCHANGED <<queues, task, overlay, overlayFree, stream, leaked, ledger, down>>

PushPrep(w) ==
    /\ At(w, "push")
    /\ Len(prepQ) < PrepCap
    /\ ~Stopped("q_prep_")
    /\ prepQ' = Append(prepQ, task[w])
    /\ Take(w, None)
    /\ Goto(w, "top")
    /\ UNCHANGED <<rawQ, infQ, pools, ledger, down>>

\* Allocation or conversion fails, before or after the buffer was acquired.
ThrowPrep(w) ==
    /\ pc[w] \in {"acquire", "push"}
    /\ Throw
    /\ Goto(w, "top")
    /\ Take(w, None)
    /\ UNCHANGED <<stream, leaked>>
    /\ ReleaseBuffer(task[w])
    /\ UNCHANGED <<queues, overlay, overlayFree, down>>

PrepStep(w) ==
    \/ Loop(w)
    \/ LeaveAtPop(w, rawQ, "q_raw_")
    \/ PopRaw(w)
    \/ AcquirePinned(w)
    \/ Abandon(w, "acquire", "pinnedPool_")
    \/ PushPrep(w)
    \/ Abandon(w, "push", "q_prep_")

--------------------------------------------------------------------------------
\* inferenceWorker and submitBatch

PopPrep(w) ==
    /\ At(w, "pop")
    /\ prepQ # <<>>
    /\ Take(w, Head(prepQ))
    /\ prepQ' = Tail(prepQ)
    /\ Goto(w, "submit")
    /\ UNCHANGED <<rawQ, infQ, pools, ledger, down>>

\* pop_for times out; a GPU session idle for long enough runs a dummy batch
\* from h_warm, which involves no staging buffer.
PopTimeout(w) ==
    /\ At(w, "pop")
    /\ prepQ = <<>>
    /\ ~Stopped("q_prep_")
    /\ \/ Goto(w, "top")
       \/ w \in GpuSessions /\ Goto(w, "run")
    /\ UNCHANGED <<queues, task, pools, ledger, down>>

\* cudaMemcpyAsync enqueues the H2D copy; on the CPU provider a plain memcpy.
Submit(w) ==
    /\ At(w, "submit")
    /\ IF w \in GpuSessions
       THEN stream' = [stream EXCEPT ![w] = Append(@, Copy(buf[task[w]]))] /\ Goto(w, "context")
       ELSE UNCHANGED stream /\ Goto(w, "run")
    /\ UNCHANGED <<queues, task, buf, overlay, pinnedFree, overlayFree, leaked, ledger, down>>

\* new PinnedReleaseCtx (when it throws: ThrowInf) and cudaLaunchHostFunc.
LaunchHostFunc(w) ==
    /\ At(w, "context")
    /\ stream' = [stream EXCEPT ![w] = Append(@, Callback(buf[task[w]]))]
    /\ Goto(w, "run")
    /\ UNCHANGED <<queues, task, buf, overlay, pinnedFree, overlayFree, leaked, ledger, down>>

\* The answer of cudaLaunchHostFunc is ignored: nobody deletes the context.
LaunchHostFuncFails(w) ==
    /\ At(w, "context")
    /\ MayFail
    /\ leaked' = [leaked EXCEPT ![w] = @ \union {buf[task[w]]}]
    /\ Goto(w, "run")
    /\ UNCHANGED <<queues, task, buf, overlay, pinnedFree, overlayFree, stream, ledger, down>>

Run(w) ==
    /\ At(w, "run")
    /\ Goto(w, "sync")
    /\ UNCHANGED <<queues, task, pools, ledger, down>>

\* cudaStreamSynchronize, then pinned_blob.reset().
Sync(w) ==
    /\ At(w, "sync")
    /\ stream[w] = <<>>
    /\ UNCHANGED <<stream, leaked>>
    /\ IF task[w] = None
       THEN Goto(w, "top") /\ UNCHANGED <<buf, pinnedFree>>
       ELSE Goto(w, "push") /\ ReleaseBuffer(task[w])
    /\ UNCHANGED <<queues, task, overlay, overlayFree, ledger, down>>

PushInf(w) ==
    /\ At(w, "push")
    /\ Len(infQ) < InfCap
    /\ ~Stopped("q_inf_")
    /\ infQ' = Append(infQ, task[w])
    /\ Take(w, None)
    /\ Goto(w, "top")
    /\ UNCHANGED <<rawQ, prepQ, pools, ledger, down>>

\* A copy that is still under way loses its batch.
Disown(ops) == IF ops = <<>> THEN ops ELSE [ops EXCEPT ![Len(ops)] = Orphan(@[2])]

\* The context cannot be allocated or Session::Run throws, both with the H2D
\* copy possibly under way, or the result cannot be allocated.  A failing dummy
\* batch counts as a drop too.
ThrowInf(w) ==
    /\ pc[w] \in {"context", "run", "push"}
    /\ Throw
    /\ Goto(w, "top")
    /\ Take(w, None)
    /\ stream' = IF At(w, "context") THEN [stream EXCEPT ![w] = Disown(@)] ELSE stream
    /\ UNCHANGED leaked
    /\ IF task[w] = None THEN UNCHANGED <<buf, pinnedFree>> ELSE ReleaseBuffer(task[w])
    /\ UNCHANGED <<queues, overlay, overlayFree, down>>

\* The H2D copy at the head of the stream is done.
CopyDone(w) ==
    /\ stream[w] # <<>>
    /\ \E b \in Buffers : Head(stream[w]) \in {Copy(b), Orphan(b)}
    /\ stream' = [stream EXCEPT ![w] = Tail(@)]
    /\ UNCHANGED <<queues, pc, task, buf, overlay, pinnedFree, overlayFree, leaked, ledger, down>>

\* The variant drops its context without releasing the buffer.
CallbackForgets(w) ==
    /\ stream[w] # <<>>
    /\ \E b \in Buffers : Head(stream[w]) = Callback(b)
    /\ stream' = [stream EXCEPT ![w] = Tail(@)]
    /\ UNCHANGED <<queues, pc, task, buf, overlay, pinnedFree, overlayFree, leaked, ledger, down>>

\* All before it on the stream is done: the callback deletes its context, on a
\* thread of the CUDA driver.
ReleasePinnedInputCallback(w) ==
    /\ stream[w] # <<>>
    /\ \E b \in Buffers :
        /\ Head(stream[w]) = Callback(b)
        /\ stream' = [stream EXCEPT ![w] = Tail(@)]
        /\ UNCHANGED <<buf, leaked>>
        /\ pinnedFree' = pinnedFree \union ({b} \ Held')
    /\ UNCHANGED <<queues, pc, task, overlay, overlayFree, ledger, down>>

StreamStep(w) == CopyDone(w) \/ ReleasePinnedInputCallback(w)

InfStep(w) ==
    \/ Loop(w)
    \/ LeaveAtPop(w, prepQ, "q_prep_")
    \/ PopPrep(w)
    \/ PopTimeout(w)
    \/ Submit(w)
    \/ LaunchHostFunc(w)
    \/ LaunchHostFuncFails(w)
    \/ Run(w)
    \/ Sync(w)
    \/ PushInf(w)
    \/ Abandon(w, "push", "q_inf_")

--------------------------------------------------------------------------------
\* postprocessingWorker

PopInf(w) ==
    /\ At(w, "pop")
    /\ infQ # <<>>
    /\ Take(w, Head(infQ))
    /\ infQ' = Tail(infQ)
    /\ Goto(w, "acquire")
    /\ UNCHANGED <<rawQ, prepQ, pools, ledger, down>>

AcquireOverlay(w) ==
    /\ At(w, "acquire")
    /\ ~Stopped("overlayPool_")
    /\ \E o \in overlayFree :
        /\ overlay' = [overlay EXCEPT ![w] = o]
        /\ overlayFree' = overlayFree \ {o}
    /\ Goto(w, "render")
    /\ UNCHANGED <<queues, task, buf, pinnedFree, stream, leaked, ledger, down>>

ReleaseOverlay(w) ==
    /\ overlay' = [overlay EXCEPT ![w] = None]
    /\ overlayFree' = overlayFree \union ({overlay[w]} \ {None})

\* Render the overlays, call the sink, let the output go.
Sink(w) ==
    /\ At(w, "render")
    /\ published' = published \union {task[w]}
    /\ ReleaseOverlay(w)
    /\ Take(w, None)
    /\ Goto(w, "top")
    /\ UNCHANGED <<queues, buf, pinnedFree, stream, leaked, accepted, refused, dropped, down>>

\* Empty scores, or rendering fails.
ThrowPost(w) ==
    /\ pc[w] \in {"acquire", "render"}
    /\ Throw
    /\ Goto(w, "top")
    /\ Take(w, None)
    /\ ReleaseOverlay(w)
    /\ UNCHANGED <<queues, buf, pinnedFree, stream, leaked, down>>

PostStep(w) ==
    \/ Loop(w)
    \/ LeaveAtPop(w, infQ, "q_inf_")
    \/ PopInf(w)
    \/ AcquireOverlay(w)
    \/ Abandon(w, "acquire", "overlayPool_")
    \/ Sink(w)

--------------------------------------------------------------------------------
\* ~AsyncBatchDetector, then the members in reverse order of declaration.

\* The variant does not stop q_prep_.
OrderWithoutPrep ==
    <<"is_running_", "q_raw_", "q_inf_", "pinnedPool_", "overlayPool_",
      "threads", "sessions_", "queues", "pools">>

\* The variant destroys the pools before the queues, as if the members were
\* declared the other way round.
OrderPoolsFirst ==
    <<"is_running_", "q_raw_", "q_prep_", "q_inf_", "pinnedPool_", "overlayPool_",
      "threads", "sessions_", "pools", "queues">>

Order ==
    <<"is_running_", "q_raw_", "q_prep_", "q_inf_", "pinnedPool_", "overlayPool_",
      "threads", "sessions_", "queues", "pools">>

\* Joining waits for every worker, and freeing the sessions' device memory
\* waits for what is left on their streams.
MayTakeDown(object) ==
    CASE object = "threads"   -> \A w \in Workers : At(w, "exited")
      [] object = "sessions_" -> \A w \in InfWorkers : stream[w] = <<>>
      [] OTHER                -> TRUE

\* The queues let go of the batches that were left in them.
DestroyQueues ==
    /\ rawQ' = <<>> /\ prepQ' = <<>> /\ infQ' = <<>>
    /\ buf' = [s \in Batches |-> None]
    /\ pinnedFree' = pinnedFree \union (HeldByBatch \ {None})
    /\ UNCHANGED <<overlay, overlayFree, stream, leaked>>

TakeDown(object) ==
    /\ Cardinality(down) < Len(Order)
    /\ object = Order[Cardinality(down) + 1]
    /\ MayTakeDown(object)
    /\ down' = down \union {object}
    /\ IF object = "queues" THEN DestroyQueues ELSE UNCHANGED <<queues, pools>>
    /\ UNCHANGED <<pc, task, ledger>>

Gone == Cardinality(down) = Len(Order)

Terminated ==
    /\ Gone
    /\ UNCHANGED vars

--------------------------------------------------------------------------------

Next ==
    \/ \E s \in Batches : PushBatch(s)
    \/ \E w \in PrepWorkers : PrepStep(w) \/ ThrowPrep(w)
    \/ \E w \in InfWorkers : InfStep(w) \/ ThrowInf(w) \/ StreamStep(w)
    \/ \E w \in PostWorkers : PostStep(w) \/ ThrowPost(w)
    \/ \E object \in Range(Order) : TakeDown(object)
    \/ Terminated

\* Every thread runs, the streams make progress, and a destructor that has
\* begun goes on.  Nothing is assumed of the caller or of exceptions.
Fairness ==
    /\ \A w \in PrepWorkers : WF_vars(PrepStep(w))
    /\ \A w \in InfWorkers : WF_vars(InfStep(w)) /\ WF_vars(StreamStep(w))
    /\ \A w \in PostWorkers : WF_vars(PostStep(w))
    /\ WF_vars(down # {} /\ \E object \in Range(Order) : TakeDown(object))

SafeSpec == Init /\ [][Next]_vars

Spec == SafeSpec /\ Fairness

--------------------------------------------------------------------------------

TypeOK ==
    /\ rawQ \in Seq(Batches) /\ Len(rawQ) <= RawCap
    /\ prepQ \in Seq(Batches) /\ Len(prepQ) <= PrepCap
    /\ infQ \in Seq(Batches) /\ Len(infQ) <= InfCap
    /\ pc \in [Workers -> {"top", "pop", "acquire", "submit", "context", "run",
                           "sync", "push", "render", "exited"}]
    /\ task \in [Workers -> Batches \union {None}]
    /\ buf \in [Batches -> Buffers \union {None}]
    /\ overlay \in [PostWorkers -> Overlays \union {None}]
    /\ pinnedFree \subseteq Buffers
    /\ overlayFree \subseteq Overlays
    /\ stream \in [InfWorkers -> Seq({"copy", "orphan", "callback"} \X Buffers)]
    /\ leaked \in [InfWorkers -> SUBSET Buffers]
    /\ accepted \subseteq Batches /\ refused \subseteq Batches
    /\ published \subseteq Batches
    /\ dropped \in Nat
    /\ down \subseteq Range(Order)

\* A staging buffer the GPU may still be reading for a batch is not in the pool,
\* and no other batch fills it: not when Session::Run throws and the batch is
\* destroyed while its H2D copy is under way (submitBatch, inferenceWorker), and
\* not when the launch of the callback fails.  Exempt are orphans alone: when the
\* context cannot be allocated, the lost batch's buffer does go back to the pool
\* under its copy, contrary to AsyncBatchDetector.cpp:15-19, and may be filled
\* again; no Run reads what that copy writes.
NoReuseUnderDMA ==
    \A w \in InfWorkers : \A b \in Buffers : Copy(b) \in Range(stream[w]) =>
        /\ b \notin pinnedFree
        /\ \A s \in InFlight : buf[s] = b => task[w] = s

\* No staging buffer is lost on any of the ways a batch can end: it is in the
\* pool, with a batch that is still inside, or with a callback on a stream.  Only
\* a callback that could not be launched keeps its buffer for good.
NoBufferLost ==
    \A b \in Buffers :
        \/ b \in pinnedFree
        \/ \E s \in InFlight : buf[s] = b
        \/ \E w \in InfWorkers : Callback(b) \in Range(stream[w]) \/ b \in leaked[w]

\* A buffer belongs to one batch at a time.
NoBufferShared ==
    \A s, t \in Batches : s # t /\ buf[s] # None => buf[s] # buf[t]

\* With an overlay buffer per post worker, no post worker ever waits for one,
\* whatever the exceptions before: "one per post worker + margin".
OverlayNeverExhausted ==
    \A w \in PostWorkers : At(w, "acquire") => overlayFree # {}

\* All buffers are accounted for: none is lost on a way out of the pipeline except
\* by an unnoticed launch failure, none given to two batches, and no post worker
\* is left waiting for one.
BuffersAccounted == TypeOK /\ NoBufferLost /\ NoBufferShared /\ OverlayNeverExhausted

\* While the detector runs, dropped_frames_ covers every batch that was pushed
\* and is neither inside nor published.
LossesCounted ==
    ~Stopped("is_running_") =>
        Cardinality((accepted \union refused) \ (published \union InFlight)) <= dropped

\* After the queues are destroyed all buffers are back in their pools, but for
\* those of contexts that were never launched, and nothing returns one to a pool
\* that no longer exists.
NoLateRelease ==
    [][ /\ Stopped("queues") => pinnedFree = Buffers \ UNION Range(leaked) /\ overlayFree = Overlays
        /\ Stopped("pools") => UNCHANGED <<pinnedFree, overlayFree>> ]_vars

\* The destructor, once begun, gets through: no worker stays blocked in a
\* queue or a pool that is being torn down.
ShutdownCompletes == Stopped("is_running_") ~> Gone

\* The pipeline implements the detector its owner relies on.  That no batch stays
\* inside for ever holds while fewer launches fail than there are buffers: with
\* every buffer leaked, the preprocessing threads wait until the shutdown.
D == INSTANCE Detector WITH
        inFlight <- InFlight,
        lost <- accepted \ (published \union InFlight),
        open <- ~Stopped("is_running_"),
        Capacity <- RawCap + PrepCap + InfCap + Cardinality(Workers)

ImplementsDetector == D!Spec
================================================================================
