-------------------------------- MODULE KeepWarm --------------------------------
(***************************************************************************)
(* AsyncBatchDetector::inferenceWorker in time: what a session does while   *)
(* q_prep_ is empty (a dummy batch after keepWarmIdleMs_), and what is      *)
(* measured of the real batches until the post threads count them (Metrics).*)
(*                                                                          *)
(* Time is discrete.  Only waiting, at either queue, and computing take     *)
(* time: a session that can go on does so before the clock ticks.  A        *)
(* submitted batch computes for 1 to MaxRun ticks or throws at any of them. *)
(* Clocks stop at the greatest limit they are compared with.  The post      *)
(* threads take any time, so a session may stay in q_inf_.push as long.     *)
(* Stopping, and the bound of q_prep_, are in Pipeline.                     *)
(***************************************************************************)
EXTENDS Naturals, Sequences, FiniteSets

CONSTANTS Sessions,   \* the inference workers
          Gpu,        \* those whose session runs on the GPU
          Posters,    \* the post threads
          Quantum,    \* kQueueWaitQuantumMs_
          Idle,       \* keepWarmIdleMs_
          InfCap,     \* the places of q_inf_
          kWindow, None,
          MaxRun,     \* bound: the longest submitBatch
          MaxBatches, \* bound
          MaxFaults   \* bound: the exceptions

ASSUME TimeAssumption ==
    /\ {Quantum, Idle, InfCap, kWindow, MaxRun} \subseteq Nat \ {0}
    /\ {MaxBatches, MaxFaults} \subseteq Nat
    /\ Gpu \subseteq Sessions

\* num_inf_threads_ and num_post_threads_ of them.
ASSUME ThreadsAssumption == IsFiniteSet(Sessions) /\ IsFiniteSet(Posters)

VARIABLES pc,         \* per session: "pop", "timeout", "real", "dummy", "measure", "push"
          left,       \* ticks until its wait times out or its computation ends
          batch,      \* the batch it works on
          sinceReal,  \* since lastRealWork (or lastRealWork's re-arming)
          waited,     \* how long it has waited in pop_for since it last did anything else
          sinceTaken, \* since it last took a batch
          prepQueue, infQueue,
          arrived,
          dropped,    \* dropped_frames_, where these loops count it
          post,       \* per post thread: "pop", "add", "count", "print"
          rendered,   \* the batch it works on
          field, measured, completedBatches, number, summaries

Fields == {"gpu", "stream", "post"}  \* "stream": h2d, run and d2h

M == INSTANCE Metrics WITH Printers <- Posters

clocks == <<sinceReal, waited, sinceTaken>>
session == <<pc, left, batch, clocks>>
posting == <<post, rendered>>
metrics == <<field, measured, completedBatches, number, summaries>>
rest == <<prepQueue, infQueue, arrived, dropped, posting>>
vars == <<session, rest, metrics>>

Later(clock, far) == [s \in Sessions |-> IF clock[s] < far THEN clock[s] + 1 ELSE far]

Init ==
    /\ pc = [s \in Sessions |-> "pop"]
    /\ left = [s \in Sessions |-> Quantum]
    /\ batch = [s \in Sessions |-> None]
    /\ sinceReal = [s \in Sessions |-> 0] /\ waited = [s \in Sessions |-> 0]
    /\ sinceTaken = [s \in Sessions |-> Idle]
    /\ prepQueue = <<>> /\ infQueue = <<>> /\ arrived = 0 /\ dropped = 0
    /\ post = [t \in Posters |-> "pop"]
    /\ rendered = [t \in Posters |-> None]
    /\ M!Init

Goto(s, there) == pc' = [pc EXCEPT ![s] = there]

\* The catch of either loop.
CountDrop == dropped < MaxFaults /\ dropped' = dropped + 1

Arrive ==
    /\ arrived < MaxBatches
    /\ arrived' = arrived + 1
    /\ prepQueue' = Append(prepQueue, arrived')
    /\ UNCHANGED <<session, infQueue, dropped, posting, metrics>>

--------------------------------------------------------------------------------
\* inferenceWorker.

\* The variant waits for what was left of the last wait.
KeepDeadline(s) == Goto(s, "pop") /\ left' = left

\* Back to pop_for, which waits for a whole quantum.
WaitAnew(s) == Goto(s, "pop") /\ left' = [left EXCEPT ![s] = Quantum]

\* It takes up something that computes.
Begin(s, work) ==
    /\ \E d \in 1 .. MaxRun : left' = [left EXCEPT ![s] = d]
    /\ waited' = [waited EXCEPT ![s] = 0]
    /\ Goto(s, work)

PopBatch(s) ==
    /\ pc[s] = "pop"
    /\ prepQueue # <<>>
    /\ batch' = [batch EXCEPT ![s] = Head(prepQueue)]
    /\ prepQueue' = Tail(prepQueue)
    /\ sinceReal' = [sinceReal EXCEPT ![s] = 0]
    /\ sinceTaken' = [sinceTaken EXCEPT ![s] = 0]
    /\ Begin(s, "real")
    /\ UNCHANGED <<infQueue, arrived, dropped, posting, metrics>>

Timeout(s) ==
    /\ pc[s] = "pop"
    /\ left[s] = 0 /\ prepQueue = <<>>
    /\ Goto(s, "timeout")
    /\ UNCHANGED <<left, batch, clocks, rest, metrics>>

\* The variant compares with >.
WarmDueLate(s) == s \in Gpu /\ sinceReal[s] > Idle

WarmDue(s) == s \in Gpu /\ sinceReal[s] >= Idle

StartDummy(s) ==
    /\ pc[s] = "timeout"
    /\ WarmDue(s)
    /\ Begin(s, "dummy")
    /\ UNCHANGED <<batch, sinceReal, sinceTaken, rest, metrics>>

StayIdle(s) ==
    /\ pc[s] = "timeout"
    /\ ~WarmDue(s)
    /\ WaitAnew(s)
    /\ UNCHANGED <<batch, clocks, rest, metrics>>

\* The variant measures the dummy, too.
RecordAlways(s) == M!Add("stream", batch[s])

\* submitBatch(..., recordMetrics) of a dummy.
RecordNothing(s) == UNCHANGED <<field, measured>>

EndDummy(s) ==
    /\ pc[s] = "dummy"
    /\ left[s] = 0
    /\ RecordNothing(s)
    /\ sinceReal' = [sinceReal EXCEPT ![s] = 0]
    /\ WaitAnew(s)
    /\ UNCHANGED <<batch, waited, sinceTaken, rest, completedBatches, number, summaries>>

\* The dummy throws before lastRealWork is re-armed: it is due again.
FailDummy(s) ==
    /\ pc[s] = "dummy"
    /\ CountDrop
    /\ WaitAnew(s)
    /\ UNCHANGED <<batch, clocks, prepQueue, infQueue, arrived, posting, metrics>>

EndReal(s) ==
    /\ pc[s] = "real"
    /\ left[s] = 0
    /\ IF s \in Gpu THEN M!Add("stream", batch[s]) ELSE UNCHANGED <<field, measured>>
    /\ Goto(s, "measure")
    /\ UNCHANGED <<left, batch, clocks, rest, completedBatches, number, summaries>>

AddGpuTime(s) ==
    /\ pc[s] = "measure"
    /\ M!Add("gpu", batch[s])
    /\ Goto(s, "push")
    /\ UNCHANGED <<left, batch, clocks, rest, completedBatches, number, summaries>>

PushInf(s) ==
    /\ pc[s] = "push"
    /\ Len(infQueue) < InfCap
    /\ infQueue' = Append(infQueue, batch[s])
    /\ batch' = [batch EXCEPT ![s] = None]
    /\ WaitAnew(s)
    /\ UNCHANGED <<clocks, prepQueue, arrived, dropped, posting, metrics>>

\* The batch throws in submitBatch, or where its result is made, and is lost;
\* lastRealWork was re-armed when it was taken.
FailReal(s) ==
    /\ pc[s] \in {"real", "push"}
    /\ CountDrop
    /\ batch' = [batch EXCEPT ![s] = None]
    /\ WaitAnew(s)
    /\ UNCHANGED <<clocks, prepQueue, infQueue, arrived, posting, metrics>>

Session(s) ==
    \/ PopBatch(s) \/ Timeout(s) \/ StartDummy(s) \/ StayIdle(s) \/ EndDummy(s) \/ FailDummy(s)
    \/ EndReal(s) \/ AddGpuTime(s) \/ PushInf(s) \/ FailReal(s)

Blocked(s) == pc[s] = "push" /\ Len(infQueue) >= InfCap

\* A computation, a wait at an empty queue, and one at a full queue.
TakesTime(s) ==
    \/ pc[s] \in {"real", "dummy"} /\ left[s] > 0
    \/ pc[s] = "pop" /\ prepQueue = <<>> /\ left[s] > 0
    \/ Blocked(s)

Tick ==
    /\ \A s \in Sessions : TakesTime(s)
    /\ left' = [s \in Sessions |-> IF Blocked(s) THEN left[s] ELSE left[s] - 1]
    /\ sinceReal' = Later(sinceReal, Idle) /\ sinceTaken' = Later(sinceTaken, Idle)
    /\ waited' = [s \in Sessions |-> IF pc[s] = "pop" THEN Later(waited, Idle + Quantum)[s] ELSE waited[s]]
    /\ UNCHANGED <<pc, batch, rest, metrics>>

--------------------------------------------------------------------------------
\* The end of postprocessingWorker.

PostGoto(t, there) == post' = [post EXCEPT ![t] = there]

PopInf(t) ==
    /\ post[t] = "pop"
    /\ infQueue # <<>>
    /\ rendered' = [rendered EXCEPT ![t] = Head(infQueue)]
    /\ infQueue' = Tail(infQueue)
    /\ PostGoto(t, "add")
    /\ UNCHANGED <<session, prepQueue, arrived, dropped, metrics>>

AddPostprocessingTime(t) ==
    /\ post[t] = "add"
    /\ M!Add("post", rendered[t])
    /\ PostGoto(t, "count")
    /\ UNCHANGED <<session, prepQueue, infQueue, arrived, dropped, rendered, completedBatches, number,
                   summaries>>

\* It throws while it renders.
FailPost(t) ==
    /\ post[t] = "add"
    /\ CountDrop
    /\ rendered' = [rendered EXCEPT ![t] = None]
    /\ PostGoto(t, "pop")
    /\ UNCHANGED <<session, prepQueue, infQueue, arrived, metrics>>

CountBatch(t) ==
    /\ post[t] = "count"
    /\ M!Count(t)
    /\ PostGoto(t, "print")
    /\ UNCHANGED <<session, prepQueue, infQueue, arrived, dropped, rendered, field, measured, summaries>>

PrintRollingAverage(t) ==
    /\ post[t] = "print"
    /\ M!Summarize(t)
    /\ rendered' = [rendered EXCEPT ![t] = None]
    /\ PostGoto(t, "pop")
    /\ UNCHANGED <<session, prepQueue, infQueue, arrived, dropped, field, measured, completedBatches>>

Post(t) ==
    PopInf(t) \/ AddPostprocessingTime(t) \/ FailPost(t) \/ CountBatch(t) \/ PrintRollingAverage(t)

Next ==
    \/ Arrive
    \/ \E s \in Sessions : Session(s)
    \/ Tick
    \/ \E t \in Posters : Post(t)

Spec == Init /\ [][Next]_vars

--------------------------------------------------------------------------------

Batches == 1 .. MaxBatches

TypeOK ==
    /\ pc \in [Sessions -> {"pop", "timeout", "real", "dummy", "measure", "push"}]
    /\ left \in [Sessions -> 0 .. Quantum + MaxRun]
    /\ batch \in [Sessions -> Batches \union {None}]
    /\ \A clock \in {sinceReal, waited, sinceTaken} : clock \in [Sessions -> 0 .. Idle + Quantum]
    /\ prepQueue \in Seq(Batches) /\ infQueue \in Seq(Batches)
    /\ arrived \in 0 .. MaxBatches /\ dropped \in 0 .. MaxFaults
    /\ post \in [Posters -> {"pop", "add", "count", "print"}]
    /\ rendered \in [Posters -> Batches \union {None}]
    /\ completedBatches \in 0 .. MaxBatches /\ number \in [Posters -> 0 .. MaxBatches]
    /\ \A f \in Fields : field[f].next \in 0 .. kWindow - 1 /\ field[f].count \in 0 .. kWindow

\* A GPU session does not wait at q_prep_ for a whole idle time and quantum after
\* it last did something else (a batch, a dummy, a push into the full q_inf_, or an
\* exception), though the idle time is only looked at when a wait has timed out
\* and runs from elsewhere.  Only the waiting is bounded: a push may block, and
\* submits may throw, for as long as they like without any work for the GPU.
StaysWarm ==
    \A s \in Gpu : pc[s] \in {"pop", "timeout"} => waited[s] < Idle + Quantum

BeginsDummy(s) == pc[s] = "timeout" /\ pc'[s] = "dummy"

\* A dummy batch begins only when the session has waited for real ones for a whole
\* quantum since it did anything else, a dummy that threw included, and no sooner
\* than the idle time after it took its last real batch.  That is all that is left
\* of "keepWarmIdleMs_ of CONTINUOUS idleness" (AsyncBatchDetector.cpp:519-520):
\* the time in which a batch computes, or waits for a place in q_inf_, counts too.
NeverTooSoon ==
    [][\A s \in Sessions :
        BeginsDummy(s) => waited[s] >= Quantum /\ sinceTaken[s] >= Idle]_vars

Last(seq, n) == {seq[i] : i \in {j \in DOMAIN seq : j > Len(seq) - n}}

\* A window holds the last kWindow measurements of its stage, in whatever order
\* the threads add them, and only of real batches (and all variables keep their
\* types, the places of the windows included).
WindowIsLatest ==
    /\ TypeOK
    /\ \A f \in Fields :
        /\ M!Averaged(f) = Last(measured[f], kWindow)
        /\ M!Averaged(f) \subseteq Batches

\* Each summary is printed by one thread only, and when it is, the gpu and the post
\* times of at least the batches it speaks of have been added (the stream times
\* are added by GPU sessions only).
SummariesOnce ==
    /\ \A i, j \in DOMAIN summaries : summaries[i] = summaries[j] => i = j
    /\ \A i \in DOMAIN summaries :
        /\ summaries[i] \in 1 .. completedBatches
        /\ \A f \in {"gpu", "post"} : Len(measured[f]) >= summaries[i]
================================================================================
