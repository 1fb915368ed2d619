-------------------------------- MODULE Lifecycle --------------------------------
(***************************************************************************)
(* Configuring and terminating: the controller, ManagerGPU::Run and the     *)
(* WorkerGPUs it owns, each with its ingest thread.                         *)
(*                                                                          *)
(*   controller --list state, trigger--> manager --ack--> controller        *)
(*   manager --status QUIT, eventReady--> ingest thread                     *)
(*   producer --eventReady--> ingest thread                                 *)
(*                                                                          *)
(* Every configuration request destroys all workers and builds new ones.    *)
(* The named kernel events and the shared memory outlive a worker, and the  *)
(* program too: publishSeq goes on counting, while every new ingest thread  *)
(* counts from 0.  Of the rings only the counters are here (a slot holds    *)
(* the last batch published into it); the order of the writes within a      *)
(* slot is in BatchRing, the inside of the detector in Pipeline.            *)
(*                                                                          *)
(* Batches are counted without bound; publishSeq and consumedSeq are LONGs  *)
(* of Width bits.                                                           *)
(*                                                                          *)
(* The controller is external: it writes a request, signals it and waits    *)
(* for the acknowledgement, and it leaves the ring's header alone.  Its     *)
(* producers take a permit for the slot, publish and signal eventReady, for *)
(* configured points.                                                       *)
(***************************************************************************)
EXTENDS Integers, FiniteSets

CONSTANTS NumPoints,   \* numPunti
          RingSlots,   \* IpcRingSlots(controlPoint)
          Posters,     \* num_post_threads_
          Width,       \* bits of a LONG
          Fed,         \* bound: the points that get batches
          Seen,        \* bound: how many batches the shared memory has seen
                       \* when the program starts
          MaxRequests, \* bound: requests of the controller
          MaxBatches,  \* bound: batches published since
          MaxFaults    \* bound: constructions and thread starts that throw

ASSUME LifecycleAssumption ==
    /\ {NumPoints, RingSlots, Posters, Width} \subseteq Nat \ {0}
    /\ RingSlots < 2 ^ (Width - 1)
    /\ Fed \subseteq 1 .. NumPoints /\ Seen \subseteq Nat
    /\ {MaxRequests, MaxBatches, MaxFaults} \subseteq Nat

VARIABLES
    \* shared with the controller
    list,          \* pSharedList->state
    status,        \* per point, controlPoint.status
    trigger, ack,  \* auto-reset events of the list
    eventReady,    \* per point, auto-reset
    \* the manager
    manager,       \* what its thread does next
    cursor,        \* the point it is working on
    faults,        \* exceptions so far
    \* the workers
    exists,        \* points with an entry in activeWorkers
    running,       \* running_
    ingest,        \* the ingest thread
    detector,      \* detector_ is there
    consumedSeq, drainTo,  \* of the ingest thread
    inside, sink,  \* the batches in the detector; those in PublishResult
    mapped,        \* the worker's views of the shared memory are there (what a
                   \* constructor that throws leaves mapped is nobody's)
    \* external
    controller, requests,
    batches,       \* published since the program started
    published,     \* per point, batches published so far; publishSeq is this LONG
    awaited        \* per point, the published batches whose permit is not back

shared == <<list, status, trigger, ack, eventReady>>
ring == <<consumedSeq, drainTo, inside, sink>>
worker == <<exists, running, ingest, detector, ring, mapped>>
producer == <<batches, published, awaited>>
external == <<controller, requests, producer>>
vars == <<shared, manager, cursor, faults, worker, external>>

Points == 1 .. NumPoints

\* Two's complement.
Long(x) == LET half == 2 ^ (Width - 1) IN ((x + half) % (2 * half)) - half

publishSeq(p) == Long(published[p])

InSlot(s) == s % RingSlots

\* What is left in a slot is the last batch published into it.
Overwritten(p, s) == published[p] > s + RingSlots

Init ==
    /\ list = "IDLE"
    /\ status = [p \in Points |-> "IDLE"]
    /\ trigger = FALSE /\ ack = FALSE
    /\ eventReady = [p \in Points |-> FALSE]
    /\ manager = "wait" /\ cursor = 1 /\ faults = 0
    /\ exists = {}
    /\ running = [p \in Points |-> FALSE]
    /\ ingest = [p \in Points |-> "none"]
    /\ detector = [p \in Points |-> FALSE]
    /\ inside = [p \in Points |-> {}]
    /\ sink = [p \in Points |-> {}]
    /\ consumedSeq = [p \in Points |-> 0] /\ drainTo = [p \in Points |-> 0]
    /\ mapped = [p \in Points |-> FALSE]
    /\ controller = "idle" /\ requests = 0 /\ batches = 0
    /\ \E n \in Seen : published = [p \in Points |-> IF p \in Fed THEN n ELSE 0]
    /\ awaited = [p \in Points |-> {}]

--------------------------------------------------------------------------------
\* The controller and its producers.

Ask(request) ==
    /\ controller = "idle"
    /\ requests < MaxRequests
    /\ list' = request
    /\ requests' = requests + 1
    /\ controller' = "signal"
    /\ UNCHANGED <<status, trigger, ack, eventReady, manager, cursor, faults, worker, producer>>

Trigger ==
    /\ controller = "signal"
    /\ trigger' = TRUE
    /\ controller' = "await"
    /\ UNCHANGED <<list, status, ack, eventReady, manager, cursor, faults, worker, requests, producer>>

Acknowledged ==
    /\ controller = "await"
    /\ ack
    /\ ack' = FALSE
    /\ controller' = IF list = "QUIT" THEN "done" ELSE "idle"
    /\ UNCHANGED <<list, status, trigger, eventReady, manager, cursor, faults, worker, requests, producer>>

\* A permit, the images, publishSeq and the event.
Produce(p) ==
    /\ p \in Fed
    /\ status[p] = "CONFIGURED"
    /\ \A s \in awaited[p] : InSlot(s) # InSlot(published[p])
    /\ batches < MaxBatches
    /\ batches' = batches + 1
    /\ published' = [published EXCEPT ![p] = @ + 1]
    /\ awaited' = [awaited EXCEPT ![p] = @ \union {published[p]}]
    /\ eventReady' = [eventReady EXCEPT ![p] = TRUE]
    /\ UNCHANGED <<list, status, trigger, ack, manager, cursor, faults, worker, controller, requests>>

--------------------------------------------------------------------------------
\* ManagerGPU::Run reads the list's state twice, without the mutex.

ManagerGoto(there) == manager' = there

ManagerWait ==
    /\ manager = "wait"
    /\ trigger
    /\ trigger' = FALSE
    /\ ManagerGoto("look")
    /\ UNCHANGED <<list, status, ack, eventReady, cursor, faults, worker, external>>

ManagerLook ==
    /\ manager = "look"
    /\ ManagerGoto(IF list = "QUIT" THEN "terminate" ELSE "look again")
    /\ UNCHANGED <<shared, cursor, faults, worker, external>>

ManagerLookAgain ==
    /\ manager = "look again"
    /\ ManagerGoto(IF list = "UPDATE_PENDING" THEN "clear" ELSE "wait")
    /\ UNCHANGED <<shared, cursor, faults, worker, external>>

--------------------------------------------------------------------------------
\* activeWorkers.clear(): ~WorkerGPU for one worker after the other.

\* The variant unmaps the shared memory before it resets the detector.
UnmapFirst == [quit |-> "signal", signal |-> "join", join |-> "unmap", unmap |-> "reset",
               reset |-> "next"]

\* Stop's steps, then the members.
AfterStop == [quit |-> "signal", signal |-> "join", join |-> "reset", reset |-> "unmap",
              unmap |-> "next"]

Terminating == list = "QUIT"

Continue(here) ==
    ManagerGoto(IF AfterStop[here] # "next" THEN AfterStop[here]
                ELSE IF Terminating THEN "terminate" ELSE "clear")

BeginDestroy(p) ==
    /\ manager \in {"clear", "terminate"}
    /\ p \in exists
    /\ cursor' = p
    /\ running' = [running EXCEPT ![p] = FALSE]
    /\ ManagerGoto(IF running[p] THEN "quit" ELSE "join")
    /\ UNCHANGED <<shared, faults, exists, ingest, detector, ring, mapped, external>>

SetQuit ==
    /\ manager = "quit"
    /\ status' = [status EXCEPT ![cursor] = "QUIT"]
    /\ Continue("quit")
    /\ UNCHANGED <<list, trigger, ack, eventReady, cursor, faults, worker, external>>

\* The variant forgets to wake the thread.
ForgetWake ==
    /\ manager = "signal"
    /\ Continue("signal")
    /\ UNCHANGED <<shared, cursor, faults, worker, external>>

WakeIngest ==
    /\ manager = "signal"
    /\ eventReady' = [eventReady EXCEPT ![cursor] = TRUE]
    /\ Continue("signal")
    /\ UNCHANGED <<list, status, trigger, ack, cursor, faults, worker, external>>

Join ==
    /\ manager = "join"
    /\ ingest[cursor] \in {"none", "exited"}
    /\ ingest' = [ingest EXCEPT ![cursor] = "none"]
    /\ Continue("join")
    /\ UNCHANGED <<shared, cursor, faults, exists, running, detector, ring, mapped, external>>

\* ~AsyncBatchDetector joins the post threads.
ResetDetector ==
    /\ manager = "reset"
    /\ sink[cursor] = {}
    /\ detector' = [detector EXCEPT ![cursor] = FALSE]
    /\ inside' = [inside EXCEPT ![cursor] = {}]
    /\ exists' = IF AfterStop["reset"] = "next" THEN exists \ {cursor} ELSE exists
    /\ Continue("reset")
    /\ UNCHANGED <<shared, cursor, faults, running, ingest, consumedSeq, drainTo, sink, mapped, external>>

Unmap ==
    /\ manager = "unmap"
    /\ mapped' = [mapped EXCEPT ![cursor] = FALSE]
    /\ exists' = IF AfterStop["unmap"] = "next" THEN exists \ {cursor} ELSE exists
    /\ Continue("unmap")
    /\ UNCHANGED <<shared, cursor, faults, running, ingest, detector, ring, external>>

Destroy ==
    \/ \E p \in Points : BeginDestroy(p)
    \/ SetQuit
    \/ WakeIngest
    \/ Join
    \/ ResetDetector
    \/ Unmap

--------------------------------------------------------------------------------
\* HandleConfiguration: construct, start and mark each point.

NextPoint ==
    /\ cursor' = cursor + 1
    /\ ManagerGoto("construct")

Cleared ==
    /\ manager = "clear"
    /\ exists = {}
    /\ cursor' = 1
    /\ ManagerGoto("construct")
    /\ UNCHANGED <<shared, faults, worker, external>>

Construct ==
    /\ manager = "construct"
    /\ cursor \in Points
    /\ detector' = [detector EXCEPT ![cursor] = TRUE]
    /\ mapped' = [mapped EXCEPT ![cursor] = TRUE]
    /\ exists' = exists \union {cursor}
    /\ ManagerGoto("start")
    /\ UNCHANGED <<shared, cursor, faults, running, ingest, ring, external>>

FirstSeq(p) == 0

StartWorker ==
    /\ manager = "start"
    /\ running' = [running EXCEPT ![cursor] = TRUE]
    /\ ingest' = [ingest EXCEPT ![cursor] = "top"]
    /\ consumedSeq' = [consumedSeq EXCEPT ![cursor] = FirstSeq(cursor)]
    /\ ManagerGoto("mark")
    /\ UNCHANGED <<shared, cursor, faults, exists, detector, drainTo, inside, sink, mapped,
                   external>>

MarkAsConfigured ==
    /\ manager = "mark"
    /\ status' = [status EXCEPT ![cursor] = "CONFIGURED"]
    /\ NextPoint
    /\ UNCHANGED <<list, trigger, ack, eventReady, faults, worker, external>>

\* The variant leaves the point as it was.
CatchQuietly(p) == status' = status

MarkAsError(p) == status' = [status EXCEPT ![p] = "ERROR_DETECTED"]

\* The constructor throws, or the thread cannot be started once running_ is
\* set: the configuration ends here and the points before keep running.
ConfigurationFails ==
    /\ manager \in {"construct", "start"}
    /\ cursor \in Points
    /\ faults < MaxFaults
    /\ faults' = faults + 1
    /\ MarkAsError(cursor)
    /\ running' = IF manager = "start" THEN [running EXCEPT ![cursor] = TRUE] ELSE running
    /\ ManagerGoto("failed")
    /\ UNCHANGED <<list, trigger, ack, eventReady, cursor, exists, ingest, detector, ring,
                   mapped, external>>

Report ==
    /\ \/ manager = "construct" /\ cursor \notin Points /\ list' = "CONFIGURED"
       \/ manager = "failed" /\ list' = "ERROR_DETECTED"
    /\ ManagerGoto("ack")
    /\ UNCHANGED <<status, trigger, ack, eventReady, cursor, faults, worker, external>>

Acknowledge ==
    /\ manager = "ack"
    /\ ack' = TRUE
    /\ ManagerGoto("wait")
    /\ UNCHANGED <<list, status, trigger, eventReady, cursor, faults, worker, external>>

\* HandleTermination, and Run returns.
AcknowledgeQuit ==
    /\ manager = "terminate"
    /\ exists = {}
    /\ ack' = TRUE
    /\ ManagerGoto("gone")
    /\ UNCHANGED <<list, status, trigger, eventReady, cursor, faults, worker, external>>

Manager ==
    \/ ManagerWait \/ ManagerLook \/ ManagerLookAgain
    \/ Destroy
    \/ Cleared \/ Construct \/ StartWorker \/ MarkAsConfigured
    \/ Report \/ Acknowledge \/ AcknowledgeQuit

--------------------------------------------------------------------------------
\* IngestLoop, and a post thread in the sink.

IngestGoto(p, there) == ingest' = [ingest EXCEPT ![p] = there]

IngestTop(p) ==
    /\ ingest[p] = "top"
    /\ IngestGoto(p, IF running[p] THEN "wait" ELSE "exited")
    /\ UNCHANGED <<shared, manager, cursor, faults, exists, running, detector, ring, mapped, external>>

IngestWake(p) ==
    /\ ingest[p] = "wait"
    /\ eventReady[p]
    /\ eventReady' = [eventReady EXCEPT ![p] = FALSE]
    /\ IngestGoto(p, "check")
    /\ UNCHANGED <<list, status, trigger, ack, manager, cursor, faults, exists, running, detector,
                   ring, mapped, external>>

MustQuit(p) == status[p] \in {"QUIT", "UPDATE_PENDING"} \/ ~running[p]

IngestCheck(p) ==
    /\ ingest[p] = "check"
    /\ IngestGoto(p, IF MustQuit(p) THEN "exited" ELSE "load")
    /\ UNCHANGED <<shared, manager, cursor, faults, exists, running, detector, ring, mapped, external>>

\* The variant skips the whole backlog.
SkipAll(p) ==
    IF Long(publishSeq(p) - consumedSeq[p]) > RingSlots THEN publishSeq(p) ELSE consumedSeq[p]

\* Where the drain begins: batches that are overwritten are skipped.
Skip(p) ==
    IF Long(publishSeq(p) - consumedSeq[p]) > RingSlots
    THEN Long(publishSeq(p) - RingSlots)
    ELSE consumedSeq[p]

IngestLoad(p) ==
    /\ ingest[p] = "load"
    /\ drainTo' = [drainTo EXCEPT ![p] = publishSeq(p)]
    /\ consumedSeq' = [consumedSeq EXCEPT ![p] = Skip(p)]
    /\ IngestGoto(p, "drain")
    /\ UNCHANGED <<shared, manager, cursor, faults, exists, running, detector, inside, sink, mapped, external>>

\* The variant drains one batch more.
HasNextInclusive(p) == consumedSeq[p] <= drainTo[p]

HasNext(p) == consumedSeq[p] < drainTo[p]

\* pushBatch; q_raw_ has room (BatchRing has the other case).
IngestPush(p) ==
    /\ ingest[p] = "drain"
    /\ HasNext(p)
    /\ inside' = [inside EXCEPT ![p] = @ \union {consumedSeq[p]}]
    /\ consumedSeq' = [consumedSeq EXCEPT ![p] = Long(@ + 1)]
    /\ UNCHANGED <<shared, manager, cursor, faults, exists, running, ingest, detector, drainTo, sink, mapped,
                   external>>

IngestDone(p) ==
    /\ ingest[p] = "drain"
    /\ ~HasNext(p)
    /\ IngestGoto(p, "top")
    /\ UNCHANGED <<shared, manager, cursor, faults, exists, running, detector, ring, mapped, external>>

Ingest(p) ==
    IngestTop(p) \/ IngestWake(p) \/ IngestCheck(p) \/ IngestLoad(p) \/ IngestPush(p) \/ IngestDone(p)

SinkBegins(p, s) ==
    /\ detector[p]
    /\ s \in inside[p] \ sink[p]
    /\ Cardinality(sink[p]) < Posters
    /\ sink' = [sink EXCEPT ![p] = @ \union {s}]
    /\ UNCHANGED <<shared, manager, cursor, faults, exists, running, ingest, detector, consumedSeq, drainTo,
                   inside, mapped, external>>

\* The block is ready and signalled: whoever waits for this batch gets its permit back.
SinkEnds(p, s) ==
    /\ s \in sink[p]
    /\ sink' = [sink EXCEPT ![p] = @ \ {s}]
    /\ inside' = [inside EXCEPT ![p] = @ \ {s}]
    /\ awaited' = [awaited EXCEPT ![p] = @ \ {s}]
    /\ UNCHANGED <<shared, manager, cursor, faults, exists, running, ingest, detector, consumedSeq, drainTo,
                   mapped, controller, requests, batches, published>>

--------------------------------------------------------------------------------

Next ==
    \/ \E request \in {"UPDATE_PENDING", "QUIT"} : Ask(request)
    \/ Trigger \/ Acknowledged
    \/ Manager \/ ConfigurationFails
    \/ \E p \in Points : 
        \/ Produce(p) \/ Ingest(p)
        \/ \E s \in inside[p] : SinkBegins(p, s) \/ SinkEnds(p, s)

\* The threads run; a request that is written is signalled.
Fairness ==
    /\ WF_vars(Trigger) /\ WF_vars(Acknowledged)
    /\ WF_vars(Manager)
    /\ \A p \in Points : WF_vars(Ingest(p)) /\ WF_vars(\E s \in inside[p] : SinkEnds(p, s))

Spec == Init /\ [][Next]_vars /\ Fairness

--------------------------------------------------------------------------------

Longs == - (2 ^ (Width - 1)) .. 2 ^ (Width - 1) - 1

States == {"IDLE", "CONFIGURED", "UPDATE_PENDING", "QUIT", "ERROR_DETECTED"}

TypeOK ==
    /\ list \in States /\ status \in [Points -> States]
    /\ trigger \in BOOLEAN /\ ack \in BOOLEAN /\ eventReady \in [Points -> BOOLEAN]
    /\ manager \in DOMAIN AfterStop \union {"wait", "look", "look again", "clear", "terminate", "construct",
                                           "start", "mark", "failed", "ack", "gone"}
    /\ cursor \in 1 .. NumPoints + 1 /\ faults \in 0 .. MaxFaults
    /\ exists \subseteq Points
    /\ running \in [Points -> BOOLEAN]
    /\ ingest \in [Points -> {"none", "top", "wait", "check", "load", "drain", "exited"}]
    /\ consumedSeq \in [Points -> Longs] /\ drainTo \in [Points -> Longs]
    /\ inside \in [Points -> SUBSET Longs] /\ sink \in [Points -> SUBSET Longs]
    /\ \A p \in Points : sink[p] \subseteq inside[p]
    /\ detector \in [Points -> BOOLEAN] /\ mapped \in [Points -> BOOLEAN]
    /\ controller \in {"idle", "signal", "await", "done"}
    /\ requests \in 0 .. MaxRequests /\ batches \in 0 .. MaxBatches
    /\ published \in [Points -> Nat] /\ awaited \in [Points -> SUBSET Nat]
    /\ \A p \in Points : awaited[p] \subseteq 0 .. published[p] - 1

\* No thread of a worker touches what is gone: the ingest thread pushes into a
\* detector and reads a mapping that are there, and a post thread publishes
\* into mapped memory, whatever a destructor has done already (~WorkerGPU).
NoUseAfterFree ==
    \A p \in Points :
        /\ ingest[p] \in {"top", "wait", "check", "load", "drain"} => detector[p] /\ mapped[p] /\ p \in exists
        /\ sink[p] # {} => detector[p] /\ mapped[p]

\* When a request is acknowledged its outcome is there to be read: all points
\* configured, or the one that failed marked, or nothing left of any worker.
AcknowledgedState ==
    ack =>
        \/ list = "CONFIGURED" /\ \A p \in Points : p \in exists /\ status[p] = "CONFIGURED"
        \/ list = "ERROR_DETECTED" /\ \E p \in Points : status[p] = "ERROR_DETECTED"
        \/ list = "QUIT" /\ exists = {} /\ \A p \in Points : ~mapped[p] /\ ingest[p] = "none"

\* Every request is acknowledged: no ingest thread sleeps through its Stop, and
\* no destructor hangs, whenever the request comes.
RequestsAnswered == (controller = "signal") ~> (controller \in {"idle", "done"})

\* No worker, first or restarted, passes over a batch that somebody waits for:
\* as long as its ingest thread runs the batch is in the detector or still
\* before the thread's counter, whatever "skipping" and counting from 0 do.
NothingPassedOver ==
    \A p \in Points : ingest[p] \notin {"none", "exited"} =>
        \A s \in awaited[p] : s < consumedSeq[p] => s \in inside[p]

\* A worker pushes published batches only, under sequence numbers that are not
\* negative though the LONGs wrap (seq % ringSlots is a slot); a restarted one may
\* read images that are not the batch's own, but only for a batch answered by an
\* earlier worker.
StaleOnlyAnswered ==
    /\ TypeOK
    /\ \A p \in Points : \A s \in inside[p] :
        s \in 0 .. published[p] - 1 /\ (Overwritten(p, s) => s \notin awaited[p])

\* A point that is CONFIGURED has "an ingest thread [that] drains the input
\* ring on eventReady" (WorkerGPU.h).
ConfiguredServes ==
    \A p \in Points :
        status[p] = "CONFIGURED" /\ running[p] => ingest[p] # "exited"
================================================================================
