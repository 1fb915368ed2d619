# A verification development for inference-gpu

inference-gpu is a Windows process that runs an anomaly-detection network on
batches of 17 images. A controller in another process configures it through
shared memory, writes images into a ring per control point and reads scores and
overlays from a second ring. Inside, each control point is served by a
three-stage pipeline of threads around CUDA streams. This directory holds TLA+
modules of that program, the TLC configurations that check them, and TLAPS
proofs. The reference is the code: `../src/`. Every definition that models code
is listed with its lines in `PROJECT.json`, under `map`.

Run `tlc -config X.cfg M` for the runs below and `tlapm M.tla` for the eight modules
named `...Proofs`.

## 1. The system

### Components, their state and operations

| component | code | state | operations | modelled in |
|---|---|---|---|---|
| BoundedQueue | `AsyncBatchDetector.h` 105-140 | `q_`, `stopped_`, a mutex, two condition variables | `push`, `try_push`, `pop`, `pop_for`, `stop` | `BoundedQueue`, `AtomicQueue` |
| AsyncBatchDetector | `AsyncBatchDetector.cpp/.h` | three queues, two buffer pools, CUDA sessions, `is_running_`, `dropped_frames_` | `pushBatch`, the three workers, `submitBatch`, the host callback, constructor, destructor | `Pipeline`, `Detector`, `Construction` |
| PinnedPool, OverlayPool | the same | free list, `stopped_` | `acquire`, `release`, `stop` | `BufferPool`, `AtomicPool`; `Pipeline` (atomic) |
| shared-memory rings | `IPC_Shared.h`, `WorkerGPU::IngestLoop`, `PublishResult` | `publishSeq`, slots, `frameId[]`, result blocks, two events, `consumedSeq` | ingest, publish | `BatchRing`, `Lifecycle` (counters over restarts), `Layout` (sizes) |
| WorkerGPU lifecycle | `WorkerGPU.cpp` | `running_`, the ingest thread, the detector, the mappings, `controlPoint.status` | construct, `Start`, `Stop`, `MarkAs...`, destroy | `Lifecycle`, `Construction` |
| ManagerGPU | `ManagerGPU.cpp`, `main.cpp` | `activeWorkers`, the list's state, two events | `Run`, `HandleConfiguration`, `HandleTermination` | `Lifecycle` |
| AsyncLogger | `AsyncLogger.cpp/.h` | a ring of slots, `running_`, `dropped_` | `Enqueue`, `DrainQueue`, `ConsumerLoop`, `Start`, `Shutdown` | `Logger` |
| keep-warm | `inferenceWorker` | `lastRealWork` | dummy batch | `KeepWarm` |
| PerformanceMetrics | `PerformanceMetrics.h` | windows, `completedBatches_` | `add...`, `printRollingAverage` | `Metrics`, `KeepWarm` |
| CPU partition | `RealTimeConfig.cpp` | none | `ComputeCpuPartition` | `CpuPartition` |
| ORT session options | `OrtSessionConfig.cpp` | none | `ConfigureOrtSessionOptions` | `SessionOptions` |
| contract metadata, resize | `ContractMetadata.cpp` | thresholds, coefficient tables | `Load`, `Build`, `ResizeAntialias` | `Construction`, `ResizeCoeffs` |

### How they interact

    controller --list state + trigger--> ManagerGPU --ack--> controller
                                             | owns
    producer --slot, publishSeq, eventReady--> WorkerGPU (ingest thread)
                                             | pushBatch: a pointer into the slot
       AsyncBatchDetector: q_raw_ -> prep -> q_prep_ -> inf/CUDA -> q_inf_ -> post
                                             | the sink, on a post thread
    reader <--result block, overlay, eventResults-- PublishResult
    reader --the slot's permit--> producer

The images are never copied into the worker: the slot itself is read by the prep
stage, so a batch's input slot must stay untouched until it has been answered.
What a batch owns on the way is a page-locked staging buffer, shared between the
batch and the host callback behind the H2D copy.

### What is hard, and what makes each part correct

* *Queue*: one `notify_one` per item or place, timeouts and `stop()` in any order.
  Correct if no wake-up is lost and it behaves like an atomic queue.
* *Pipeline*: an exception in any stage while the GPU may still read the staging
  buffer; a destructor that joins threads blocked in queues and pools. Correct if
  no buffer is reused under a copy, lost or shared, every loss is counted, the
  destructor gets through, and every batch leaves exactly once.
* *Rings*: two processes without a lock, batches complete out of order, auto-reset
  events coalesce, blocks are reused. Correct if no slot is overwritten while it is
  read, and each answer is whole, the right batch's, and arrives.
* *Pools*: buffers come back from a thread of the CUDA driver while others wait,
  acquire and stop. Correct if no wake-up is lost, a buffer has an owner or is free,
  and none is filled under a copy, whichever call fails.
* *Lifecycle*: kernel objects, status words and `publishSeq` outlive the workers.
  Correct if no thread outlives what it uses, every request is acknowledged, a
  configured point is served, and no restarted worker passes over a batch that
  somebody waits for.
* *Construction*: two nested constructors acquire some thirty resources, half of them
  raw, and any call may throw. Correct if nothing is released under what uses it, the
  threads find everything ready, and only what C++ cannot release is left behind.
* *Keep-warm and metrics*: idle time is measured from the wrong end of a batch and
  looked at only now and then, and a push into the full q_inf_ or an exception may come in
  between. Correct if a session neither waits too long nor begins a dummy too soon, and
  every summary is of measured batches, once.
* *Tables and sizes*: index arithmetic in several places that must agree.
* *Logger*: two drainers, notifies without the lock. Correct if nothing is lost,
  doubled or reordered and `Shutdown` returns with everything printed.

`PROJECT.json` lists these hazards at their lines, also the few no property covers.

## 2. The modules

**AtomicQueue** is what a caller of the queue relies on: every call takes effect in
one step. Its fairness is the absence of lost wake-ups.
**BoundedQueue** has one step per stay inside the mutex: a caller tests its
predicate and performs its operation or sleeps on its condition variable.
`NotifyOne` picks any sleeper; spurious wake-ups and the timeout of `pop_for`, with
its last look at the predicate, are steps of their own. A thread that called but
has not locked yet is "ready", so newcomers race with woken sleepers.

**Detector** is what the worker relies on: a batch is refused at once, or is inside
and then published once or lost, and none stays for ever.
**Pipeline** has one action per critical section or CUDA call of the three loops.
A worker's `pc` names where it is in its loop, `task` the batch it holds. `submitBatch`
enqueues the copy (`Submit`), allocates the context of the callback and launches it, each
a step that may fail; `stream` has the copies and callbacks still to be done, `leaked` the
buffers of contexts whose launch failed unnoticed. `Held` is the shared_ptr's reference
count: a batch and a context (`Contexts`) may hold a buffer, and the last one to let go
returns it. The copy of a batch whose context could not be allocated becomes an `Orphan`,
which holds nothing. `Throw...` are the catch blocks; `Order` is the destructor's sequence of stops, then the members in
reverse order of declaration. Queues and pools are atomic; BoundedQueue and
BufferPool justify it.

**AtomicPool** and **BufferPool** are the same pair for a buffer pool: acquire,
release and stop as single steps, and with the mutex, the condition variable and
spurious wake-ups. BufferPool also has the two owners of a staging buffer (`refs`:
the batch, the context of the host callback), with the same steps of `submitBatch` as
Pipeline. OverlayPool is the same code.

**BatchRing** is one configured point: producer, input ring, ingest thread, the
`Detector` (by INSTANCE: the ring does not depend on the pipeline's inside),
`PublishResult` write by write, result ring and reader. Data is represented by the
number of the batch it belongs to, so an overwritten slot or a mixed block shows.
Producer and reader are external; they follow the comments in `IPC_Shared.h` and
at `pushBatch`. `Backpressure` says that the producer waits for the permit of the
slot, `ReaderClears` that the reader sets a copied block back to IDLE. Nothing in `src/`
asks a reader to: it may also go by RESULT_READY and `seq` alone, as the comment at
`IPC_Shared.h` 164-167 has it.

**Lifecycle** is the controller, `ManagerGPU::Run` and its workers, with the
destructor step by step (`AfterStop`) and the ingest thread's loop. Events, status
words and the ring header are not reset when a worker goes. `published` counts without
bound, and `publishSeq` is its value as a LONG of `Width` bits, so wrapping is modelled
with a small width; `Seen` is what the shared memory has counted before the program
starts. A slot of the input ring holds the last batch published into it (`Overwritten`),
a batch is `inside` from `pushBatch` to the end of the sink. The external controller
writes a request, signals it and waits for the acknowledgement, and never writes a
point's status; a producer keeps one permit per slot.

**Construction** is one worker from constructor to destructor, and again as the
controller reconfigures the point. `Program` is the sequence of calls of
`InitializeLocalPC` and the detector's constructor, `Destructor` that of `~WorkerGPU`,
`Members` what C++ releases of the detector's members when its constructor throws. A
step acquires a resource, fails because of the configuration (`Refusals`), or fails by
itself (`MaxFaults`); the calls nobody checks fail silently (`AcquireNothing`). A named
section lives while this worker, something an earlier one has leaked, or the other
process holds it, and keeps the size it was created with (`CreatedSize`). The module
uses the pure ones where the code calls them: **Layout** (sizes and offsets of
`IPC_Shared.h`), **CpuPartition** (the slices of cores), **SessionOptions** (the chain
of execution providers of each build and the threading policy) and **ResizeCoeffs**
(one row of the coefficient table, in exact arithmetic, except that a quotient that is
a whole number may also come out just below it, as doubles may). A number in the metadata
may be `NaN`, for which every comparison is false (`NotPositive`).

**KeepWarm** is `inferenceWorker` in discrete time: computing, waiting at the empty
q_prep_ and waiting at the full q_inf_ take ticks, a batch computes for 1 to `MaxRun` of
them, and the post threads take any time. A dummy may throw (`FailDummy`, which does not
re-arm `lastRealWork`), as may a batch (`FailReal`) and a post thread (`FailPost`).
`sinceReal` is `now - lastRealWork`; `waited` (since the session last did anything but
wait) and `sinceTaken` (since it took a batch) are the clocks the properties speak of. **Metrics** (by INSTANCE) has the windows and the summary counter; a measurement
is the batch it was taken of, `measured` the history of all of them.

**Logger** is the ring of messages, the consumer and the main thread. The consumer
that has found nothing to do owns the mutex ("doze") until it sleeps; `Shutdown`
sets `running_` and notifies without that mutex, so its notify may be lost.

Each module keeps a few definitions marked "The variant ...": the same operation
with a plausible mistake in it. They are not used by the specification; the mutants
in `PROJECT.json` put them in the place of the real one to show that the property
they are listed with notices.

## 3. The runs

| run | configuration | what it shows |
|---|---|---|
| `queue` | `MCBoundedQueue` | `Inv` (`NoLostItem`, `NoLostRoom`, `StopWakesEverybody`); refinement of AtomicQueue with its fairness |
| `pool` | `MCBufferPool` | `OneOwner`, `NoLostWakeup`, `NoReuseUnderCopy`, `BuffersComeBack`; refinement of AtomicPool with its fairness |
| `pipeline_buffers` | `MCPipelineBuffers` | `BuffersAccounted` (`NoBufferLost`, `NoBufferShared`, `OverlayNeverExhausted`), `NoReuseUnderDMA`, `LossesCounted` |
| `pipeline_service` | `MCPipelineService` | `NoLateRelease`, `ShutdownCompletes`, refinement of Detector with its fairness |
| `ring` | `MCBatchRing` | `ZeroCopySafe`, `DistinctSlots`, `AnswersTrusted`, `NoLap`, `NeverRefused`, `EveryBatchAnswered` |
| `ring_seq_reader` | `MCBatchRingSeqReader` | violated: `AnswersWhole` with a reader that clears nothing and goes by `seq` (finding 3) |
| `ring_overflow` | `MCBatchRingOverflow` | violated: `EveryBatchAnswered` (finding 1) |
| `lifecycle` | `MCLifecycle` | threads and requests: `NoUseAfterFree`, `AcknowledgedState`, `RequestsAnswered`; counters over restarts: `NothingPassedOver`, `StaleOnlyAnswered` |
| `lifecycle_serves` | `MCLifecycleServes` | violated: `ConfiguredServes` (finding 2) |
| `construct` | `MCConstruction` | resources: `NothingPulledAway`, `LeftoversExplained`, `NothingTooEarly`; tables: `SlicesExclusive`, `PoolFitsSlice`, `RowIsTheFilter`, `SlotsInsideMapping` |
| `keep_warm` | `MCKeepWarm` | `StaysWarm`, `NeverTooSoon`, `WindowIsLatest`, `SummariesOnce` |
| `logger` | `MCLogger` | `InOrder`, `DropsReported`, `FlushedAtShutdown`, `ShutdownReturns` |

Every module has a type invariant, `TypeOK`. It is a conjunct of the property that
needs it most: `Inv`, `OneOwner`, `BuffersAccounted`, `StaleOnlyAnswered`,
`LeftoversExplained`, `WindowIsLatest` and `InOrder`; that of BatchRing is proved as
`TypeCorrect`.

### Bounds, and why they are enough

* *queue*: two threads of each blocking kind, a timed popper and `try_push` on two
  places. Lost wake-ups need at most a sleeper, a thief and a waker on each side;
  two items tell FIFO order. There is no bound on steps, and the theorems drop the
  bound on threads.
* *pipeline_buffers*: two inference threads race for q_prep_, one on the GPU and one on
  the CPU; prep races with them and with the driver's callbacks for the pool (two prep
  threads for one pool are in `pool`); queues of one place are both full and
  empty soon; two buffers are fewer than batches in flight, so prep also waits for
  the pool. `MaxSeq = 3`, `MaxFaults = 2`: two exceptions or failing launches anywhere, so
  both buffers may go back under a copy, or both be leaked. Interchangeable
  buffers are a symmetry; the run checks invariants only.
* *pipeline_service*: one thread per stage because the liveness check needs it;
  three batches exceed every queue, and the destructor may begin at any time. That no
  batch stays inside for ever needs fewer failing launches than buffers (one of two):
  with every buffer leaked, prep waits for one until the shutdown.
* *ring*: three slots, four batches, so a slot has a second tenant while batches of
  the first lap are still inside; two concurrent publishers; one lost batch.
  `ring_seq_reader` needs one slot with two tenants.
  `Capacity` only bounds the abstract detector and is never reached by fewer batches.
* *pool*: three threads for two buffers: a sleeper, a woken one and a newcomer. Both
  buffers can be anywhere in `submitBatch`; two failures, so both buffers meet one.
* *lifecycle*: two points, so that one can fail behind one that runs; three requests:
  a configuration, a second one over it, a termination, in any order. One point is
  fed: points share nothing but the manager. Two slots; with 4-bit LONGs the counter
  wraps at 8, and `Seen` starts it at 0 or 6, so that three more batches cross the
  boundary while earlier ones are unanswered. Two batches between the requests are
  enough for two tenants of one slot at a restart (with `Seen = 6` the ring is full of
  old ones). Real LONGs wrap after 2^31 batches; only the distance to the wrap counts.
* *construct*: two rounds, so that the second meets what the first has left; one
  failing call; ring depths 0 (default), 3 and 5, over and under the clamp of 4; five
  families of configurations, each varying one thing: two sessions with and without a
  map, two that are each given the same slice, all answers of the providers in the four
  builds, six machines with up to six
  points (every relation of points to cores), image sizes 1 to 9 (down, up, whole and
  fractional scales), the metadata (with `NaN`) and the refusals. `DwordValues` is 16, so sizes
  need both DWORDs.
* *keep_warm*: two sessions contend for three batches; the idle time is two quanta,
  the longest batch is as long as the idle time; q_inf_ has one place, so one session
  waits for it as soon as both have a result; one exception anywhere; windows of two places wrap after two
  batches and print once. Clocks saturate beyond the greatest limit they are compared
  with, so runs are of any length.
* *logger*: a ring of three, six calls: it fills, wraps around and drops. `ShutdownReturns`
  is for callers that stop calling; endless ones could keep `DrainQueue` busy.

The model's `RawCap >= RingSlots` in the passing runs is a condition, not a fact:
q_raw_ has 20 places and a controller may ask for up to 32 slots (finding 1).

`CHECK_DEADLOCK FALSE` stands in the ring, lifecycle, construct and logger
configurations: the producer produces `MaxSeq` batches, the controller ends after QUIT,
a construction may be the last or end the process, and the logger is shut down, so
these systems really stop. The others are checked for deadlock; the pipeline's end is
the explicit `Terminated`.

### Fairness

Weak fairness of every thread of the program: the threads are preemptively scheduled
and no loop spins. The CUDA streams make progress (`ReleasePinnedInputCallback`).
`pop_for` waits until an absolute deadline however often it is woken before: `Expire`
has strong fairness. In `Lifecycle` a controller that wrote a request signals it and
takes the acknowledgement; in `BatchRing` the producer that began a batch publishes
it, and the reader runs. In `BufferPool` the streams make progress but a failed launch
runs no callback. `Construction` has no liveness property: one thread runs a finite
program, and `NothingTooEarly` says that its only wait does not wait. `KeepWarm` states
bounds in ticks, which need no fairness. Nothing is assumed of exceptions, of spurious
wake-ups, of the caller of `pushBatch`, `stop()` or `Shutdown`, or of a producer's or
controller's next batch or request.

## 4. The proofs

Eight modules, one for each component that has state, hold the theorems; those that
state what the program promises are listed in `PROJECT.json`. Each is for every value of
the constants, so for any number of threads, buffers, slots, points and batches: the
bounds of section 3 on batches, requests, steps and faults are arbitrary numbers there.
All follow one pattern: an inductive invariant `IInv` (in BoundedQueueProofs `Inv`), one
lemma per action of `Next` that it is kept, `Invariance`, then a theorem per property.
None of the listed properties is inductive as it stands; what had to be added is below.

**BoundedQueueProofs**: `Invariance` (`Inv`, that is `TypeOK`, `NoLostItem`, `NoLostRoom`
and `StopWakesEverybody`) and `SafeImplementation` (every step is a step of AtomicQueue
or a stutter). The four are inductive together: `NoLostItem` compares the number of items
with the number of awake poppers, a step that adds an item makes a sleeper runnable,
and one that uses up a runnable popper takes an item or finds the queue empty.
`GiveUp` of a pusher is the exception; there the queue is stopped and
`StopWakesEverybody` says that no one is asleep. Refinement needs only `TypeOK`.

**BufferPoolProofs**: `OneOwner`, `NoLostWakeup`, `NoReuseUnderCopy`, and every step a
step of AtomicPool or a stutter. Added is `Stages`, which says at each point of
`submitBatch` who has a reference to the buffer: the context exists from `new` to the
callback, the batch cannot let go between the copy and the launch, and a copy still to be
done has one of the two. The wake-ups are counted as for the queue, with buffers
for items.

**PipelineProofs**: `BuffersAccounted`, `NoReuseUnderDMA`, `LossesCounted`, the action
property `NoLateRelease`, and every step a step of Detector or a stutter. The argument is
that a batch is in one place only, at one position of one queue or with one thread
(`Apart`); that the place says whether it has a staging buffer (`Contents`); that a
buffer is free, with one batch, or with a context, and with both of the last two only while
the session's thread runs the batch (`Ownership`); that a copy under way has a context to
keep its buffer or, until that is made, the batch (`Copying`; an orphan has neither, see
section 5); that numbers are given out in order
(`Ledger`); and that what the destructor has joined or drained stays so (`Teardown`).
`NoLateRelease` follows because the pools go last: by then all buffers but the leaked ones
are free, and no thread and no stream has one. That an overlay buffer never has to be waited for
needs one per post thread, which is `OverlaysAssumption` (`AsyncBatchDetector.cpp` 197).

**BatchRingProofs**: under `Protocol == Backpressure /\ ReaderClears` there are `TypeCorrect`,
`ZeroCopy`, `LockFree`, `NeverLapped`, `NothingRefused`; `WholeAnswers` needs `Backpressure`
alone, for it says that an answer is whole if the reader clears the blocks or its batch is
of the first lap. The batches whose
permit is out, `Awaited`, live in different
slots (`Tenants`) and still own their input slot (`Owners`); all that the worker has
still to do is for such batches (`Inside`); the ingest thread pushes in order and
with the right frame id (`InOrder`); a batch is published once and only then
answered (`Once`); what was written for it stays (`Content`); a ready block, and the
one being read, belongs to a published batch not yet answered (`ReadyBlocks`,
`ReadBlock`). `ReadyBlocks` is what `ReaderClears` is for: without it the flag of the
previous tenant is still up (finding 3). For a reader that clears nothing there is a second
invariant, `FInv`: while the first lap is not answered, a block has had no tenant before
(`FirstTenant`, `Early`), so its flag is up only once its contents are complete
(`FirstContent`), and nobody writes into it while it is read (`Behind`, `FirstRead`).

**LifecycleProofs**: `NoUseAfterFree`, `AcknowledgedState`, `NothingPassedOver`,
`StaleOnlyAnswered`. Two arguments. Request, trigger and
acknowledgement alternate, so the list's state is the controller's while a request waits
and the manager's while it works (`Handshake`); the manager's place in its loops says
which workers exist and how far (`Progress`), and a worker's members are there until its
destructor has joined the ingest thread (`Members`). And permits keep the awaited
batches within a ring of `publishSeq` (`Window`), while the counters of the ingest
threads are numbers that were published (`Counters`). The proof showed what happens at
the end of the LONGs, for any width: the ingest thread's test is `consumedSeq < publishSeq`
on LONGs, so the batch with the largest number (2^31 - 1) is never pushed; its
permit stays out, the producer cannot pass its slot a second time, and the point
stops being served within a ring of it, before any counter turns negative (`Blocked`).

**KeepWarmProofs**: `StaysWarm`, the action property `NeverTooSoon`, `WindowIsLatest`,
`SummariesOnce`. `Warm` and `Spaced` relate a session's three clocks: what it has waited
and the rest of its wait are at least a quantum; a GPU session has waited no longer than
`lastRealWork` says, unless a dummy is due, so the rest still fits before the limit; and it
took its last batch no later than `lastRealWork`. `Flow` counts: as many batches as a stage
has passed on are with the next one, behind it or dropped, so a summary comes after the gpu
and post times of its batches.
`Numbering` keeps each number of `completedBatches_` with one thread or in one summary.
`Rolling` says for each place of a window which measurement is there, by the distance to
the place written next and so without the remainder the code computes.

**LoggerProofs**: `InOrder`, `DropsReported`, `FlushedAtShutdown`. `InOrder` compares
concatenated sequences; `Turns` says the same slot by slot, as messages are numbered in the
order of their acceptance: place i behind the tail has number
accepted - count + 1 + i, a message in hand comes right after the printed ones.
`OneDrainer` says that consumer and main thread never drain together, because `Shutdown`
joins first; `Flushed`, that what was accepted when `Shutdown` began is printed when its
drain ends.

**ConstructionProofs**: `SlotsInsideMapping`, `SlicesExclusive`, `PoolFitsSlice`,
`RowIsTheFilter`, and `NothingPulledAway`, `LeftoversExplained`, `NothingTooEarly`. The
first four are about tables computed at one step and relied on later (`PoolFitsSlice` says
that a session that spins has a thread for every core of its slice and that no other
*point* has one of these cores; the sessions of one point share it, see section 5), so
`IInv` says that sizes, options and rows are as computed for this configuration: a view
is never longer than the section it was mapped from (`ViewsFit`), also when the section is
an earlier worker's. The rest is about the operators, for all numbers: equal areas one
behind the other do not overlap (`OneBehindTheOther`); the slices are contiguous,
not empty, one ends before the next begins, and they leave no core over (`Slices`,
`PlacesApart`, `PlacesCover`); the window of a
row begins and ends in the image, is at most `Ksize` long and contains every pixel with
a weight, whichever way a quotient is cut (`Windows`), and the pixel under the centre
has one (`MiddleCounts`).

The last three are about the order of acquiring and releasing. Their invariant `OInv`
says that `todo` and `release` are what is left of `Program` and of `Members` or
`Destructor` (`Rest`). While a constructor runs, what is held are steps that are past,
what is needed later and is past is held, and nothing is freed (`Built`); while something
is destroyed, what is past is not held and what is freed is past (`Releasing`). A
section that exists is large enough unless it is an earlier worker's or kept
by the other process (`Aged`), and the view that was refused leaves its section's handle
behind, so the next attempt has leftovers to blame (`Left`). The properties then are
facts about places in the three sequences, for any number of sessions: which step of
which session is at place n (`PerSessionPlaces`, by quotient and remainder, as all
sessions have the same steps; `ProgramPlaces`, `MembersPlaces`, `DestructorPlaces`), what
comes before what (`ThreadsLast`, `PoolBeforeWarmUp`, `SectionBeforeView`,
`MembersOrder`, `DestructorOrder`) and that nothing is forgotten: `Destructor` has a place
for every resource, `Members` for all that have a destructor of their own.

### What is assumed

Only the ASSUMEs in the modules, and TLC evaluates each of them in a run. Numbers are
naturals where the code has unsigned ones, and positive where the code uses them as
a capacity, a modulus or a divisor. Sets of threads are finite, and different stages have
different threads. `None` is no batch, buffer or answer, `NaN` no number. `RingSlots` is smaller than the
range of a LONG. `OverlaysAssumption` is the size the constructor gives the overlay pool.
`ConfigsAssumption` says that a configuration is one of a machine: the manager numbers the
points from 0 to `numPunti` - 1, the available cores are different and the process may use
one (with none, `ComputeCpuPartition` divides by zero: the topology would have to be
unavailable and the affinity mask to lie beyond `hardware_concurrency`). `Protocol` in
BatchRing, about producer and reader, is a hypothesis of the theorems, because the code
cannot enforce it. So is `Addressable`, of `LeftoversAreExplained` alone: a section with
the deepest ring has fewer bytes than two DWORDs can say. `CreateSharedMapping` would
otherwise cut the size, and a view would be refused in a section of its own worker; the
controller chooses `batchSize` and the image size, and SIZE_T has 64 bits. The
configurations of the run meet it.

### What is only model-checked

* Liveness: `EveryBatchAnswered`, `ShutdownCompletes`, `BuffersComeBack`,
  `RequestsAnswered`, `ShutdownReturns`, and the fairness half of the three refinements.
  The prover does neither liveness under fairness nor ENABLED.

## 5. Findings

1. *A refused batch is never answered* (`ring_overflow`). `IngestLoop` ignores what
   `pushBatch` returns. With more slots than q_raw_ has places, a burst costs slots for
   good.
2. *A configured point without an ingest thread* (`lifecycle_serves`). `Stop` leaves
   QUIT in `status` and possibly `eventReady` set; after a reconfiguration the new
   thread may read both before `MarkAsConfigured`, and end. It depends on the
   controller leaving `status` alone.
3. *A torn answer for a reader that goes by `seq`* (`ring_seq_reader`). `PublishResult`
   (`WorkerGPU.cpp` 211) writes overlays, `seq` and `frameId` while `state` is still
   RESULT_READY from the batch a ring earlier; nothing in `src/` lowers it. A reader as
   described at `IPC_Shared.h` 164-167 finds the new number with the previous results. Safe
   are a reader that sets copied blocks to IDLE (`ring`) and any reader the first time round
   the ring (`WholeAnswers`, proved).

Other places where the code does not do what a comment says. No property claims what is
false in them; the one that is named says what is left of the comment:

* *Two threads publish into one slot.* A new worker counts from 0 while `publishSeq` goes
  on, so it ingests its predecessor's batches again; with their permits long back, the
  producer publishes new batches into the same slots. The comment at `WorkerGPU.cpp`
  193-195 excludes that. What is left: images read over are of answered batches only
  (`StaleOnlyAnswered`), and no awaited batch is passed over (`NothingPassedOver`). The
  stale block can still be written last, over the new answer. `DistinctSlots` is about one
  worker.
* *A buffer comes back under its copy.* `submitBatch` enqueues the copy (453) before it
  allocates the context that is to keep the buffer (462). If that throws, the lost batch
  gives the buffer back while the GPU may still read it, and the next batch may fill it. No
  Run reads what that copy writes, so nothing is computed from it. `NoReuseUnderDMA` is
  about all other copies.
* *The idle time before a dummy batch is not continuous.* It runs from when the last batch
  was taken (541): the time it computes, and waits for a place in q_inf_, counts, and a
  dummy may begin one quantum of 20 ms after a batch. After a dummy that throws (535) the
  clock is not re-armed (536), and the next one is due a quantum later, for as long as they
  throw; each counts in `dropped_frames_`, though no frame was. What is left is
  `NeverTooSoon` and `StaysWarm`. Idleness is per session: a dummy may contend with another
  session's batch.
* *A slice is not owned by one session.* All sessions of a point get the point's slice, each
  is told that it is dedicated, and each spins a pool on all of its cores
  (`OrtSessionConfig.cpp` 353-358, against `RealTimeConfig.h` 29-33 and 43). What is left is
  that other points are safe from them (`PoolFitsSlice`); the run has such a pair of
  sessions.
* *A colour scale of "nan" is accepted.* `std::stof` reads it, and `mapMax - mapMin <= 0.0f`
  (`ContractMetadata.cpp` 182) is false, though the exception says "map_max_raw must be
  greater than map_min_raw": the threads run and every overlay is computed with NaN. The run
  has such metadata.

Also seen while reading or modelling:

* `AsyncBatchDetector.cpp` 543: `submitBatch` gets a copy of `batch->pinned_blob` and the
  caller keeps its own until after the stream sync, so the host callback is the last
  owner only if Run throws. The comment at 15-19 promises the buffer "at the EARLIEST
  safe moment -- right after the H2D copy".
* `AsyncLogger.cpp` 91-92 wakes the consumer for an error; the predicate at 156 only looks
  at the fill level, and the error waits for the flush interval.
* Restarts: permits of batches that were in a destroyed detector come back only because
  the next worker serves them again; a producer that stopped counting them, or a point
  removed from the list, loses them. The batch numbered 2^31 - 1 is never ingested, as
  no LONG is greater (`WorkerGPU.cpp` 180); once `publishSeq` is negative a worker ingests
  nothing and says nothing, so no negative slot is ever used (`StaleOnlyAnswered`) because
  nothing is served.
* A constructor that throws leaks raw handles, views, streams and CUDA buffers, never
  pools or ORT objects. A leaked view keeps its section, so a later, larger
  configuration of the point fails at MapViewOfFile until the process is restarted (and,
  likewise, while the other process keeps the section open).
* A thread that cannot be started (284-289) destroys the sessions under the threads that
  run, and the destructor of a joinable thread ends the process.
* `inferenceThreads = 0` ("0 = auto", `IPC_Shared.h` 105) makes the constructor take
  `sessions_[0]` of an empty vector; the clamp to [1, 8] that the comment at
  `WorkerGPU.cpp` 130-132 describes does not exist.
* OpenMutex, OpenEvent and cudaEventCreate are not checked (90-92, 226-229).
* Without a CUDA device cudaStreamCreate throws (119), so the CPU fallbacks of
  `ConfigureOrtSessionOptions` are reached only with one. The OpenVINO build reports
  hardware acceleration and the detector then binds CUDA buffers.
* `session.free_dimension_override.batch` is always "17" (107), whatever `batchSize` is.
* `RealTimeConfig.cpp` 91-98 says the priority class must be read back; it is not.
* The comment at `pinnedCount` (189-190) asks for q_prep_ capacity + prep + inference
  workers; line 191 has 8 + workers while q_prep_ has 10 places, so prep may wait for a
  buffer. That costs time only: the pools of the pipeline runs are too small as well.

## 6. What the abstraction leaves out

* The numbers: pixels, scores, overlays, tensor shapes, and the flags that only choose a
  formula (channel order, normalisation). `RowIsTheFilter` is about one row of one axis
  before the division by its total; the passes over an image apply the rows
  independently.
* Doubles are exact rationals except where they are cut to whole pixels.
* Section sizes are not rounded to pages, so a section is refused a little earlier than
  by Windows. `AvailableComputeCores` has a topology; its fallback without one treats
  every allowed processor as a core. `RT_DISABLE_AFFINITY` is defined in this build; both
  builds are checked.
* Priorities, thread affinities and the thread factory for ONNX Runtime: calls into
  Windows whose effect is not state of the program.
* The content of the option strings of the execution providers.
* The other process's mapping of a ring: `SlotsInsideMapping` is about the worker's, with
  the bytes of an image as one number.
* A stream that stops for good, and what the ingest thread does with NULL handles.
* The dummy batches in Pipeline: they use no buffer of the pools. That one which throws
  is counted in `dropped_frames_` is in KeepWarm; `LossesCounted` says that the counter
  covers the losses, not that it is no larger.
* The shutdown in KeepWarm, and `stop()` of its queues.
* The order of writes within a slot and the restart of a worker together: `BatchRing` has
  the first, `Lifecycle` the second.
* A controller that does not wait for its acknowledgement.
* The build files.

## 7. Plan

Done: all modules of section 2 with their runs; the proofs of section 4, that is every
invariant and action property of the runs, and the safety half of the three refinements.
What could follow needs the code to change or more of Windows and CUDA in the model:

1. The empty handles of unchecked calls in `Lifecycle` (an ingest thread that spins on a
   NULL event, a `MarkAsConfigured` without a mutex).
2. `BatchRing` and `Lifecycle` composed, for the order of writes within a slot over a
   restart.
