-------------------------------- MODULE BatchRing --------------------------------
(***************************************************************************)
(* The shared memory between the controller's process and one WorkerGPU     *)
(* (IPC_Shared.h, WorkerGPU::IngestLoop, WorkerGPU::PublishResult).         *)
(*                                                                          *)
(*   producer -> input ring -> ingest thread -> detector -> post threads    *)
(*                      -> result ring -> reader -> (a permit) -> producer  *)
(*                                                                          *)
(* A batch is its sequence number; a slot holds the number of the batch     *)
(* whose data it holds, so that a slot reused too early shows.  The frame   *)
(* id the producer gives batch s is s.  The detector is the abstract one    *)
(* (Detector), its final Publish being the moment PublishResult sets the    *)
(* block's state.  The point stays configured; starting, stopping and the   *)
(* point's status are not part of this module.                              *)
(*                                                                          *)
(* The producer and the reader run in another process and are external:     *)
(* they follow the protocol IPC_Shared.h and pushBatch's comment describe.  *)
(***************************************************************************)
EXTENDS Integers, FiniteSets

CONSTANTS
    RingSlots,     \* IpcRingSlots(controlPoint)
    RawCap,        \* capacity of q_raw_
    Capacity,      \* batches the whole pipeline can hold
    Posters,       \* post threads, that is, concurrent calls of PublishResult
    Backpressure,  \* the producer waits for the slot's permit
    ReaderClears,  \* the reader sets a block back to IDLE when it has copied it
    None,
    MaxSeq,        \* bound: batches produced
    MaxLoss        \* bound: batches an exception loses inside the detector

ASSUME RingAssumption ==
    /\ RingSlots \in Nat \ {0}
    /\ {RawCap, Capacity, Posters} \subseteq Nat \ {0}
    /\ Backpressure \in BOOLEAN /\ ReaderClears \in BOOLEAN
    /\ MaxSeq \in Nat /\ MaxLoss \in Nat
    /\ None \notin Nat

ASSUME NoneAssumption == None \notin [frame : Nat, results : Nat, overlay : Nat]

VARIABLES
    \* shared memory and events
    publishSeq,    \* batchInputHeader.publishSeq
    pixels,        \* per input slot, the batch whose images it holds
    frameId,       \* per input slot, batchInputHeader.frameId
    overlay,       \* per result slot, the batch whose overlays it holds
    block,         \* per result slot, the batchResultBlock
    eventReady, eventResults,  \* auto-reset events
    \* the producer
    producer,      \* what it does next
    \* the ingest thread
    ingest, consumedSeq, drainTo,
    \* the batches in the detector
    label,         \* frame_id of each pushed batch
    stage,         \* how far PublishResult is with each batch
    inFlight, published, lost, refused, open,
    \* the reader
    reader, reading, answer

memory == <<publishSeq, pixels, frameId, overlay, block>>
events == <<eventReady, eventResults>>
ingestion == <<ingest, consumedSeq, drainTo>>
detector == <<inFlight, published, lost, refused, open>>
pickup == <<reader, reading, answer>>
vars == <<memory, events, producer, ingestion, label, stage, detector, pickup>>

Batches == 0 .. MaxSeq - 1
Slots == 0 .. RingSlots - 1

D == INSTANCE Detector

InSlot(s) == s % RingSlots

\* The variant takes the index modulo one slot less.
OutSlotShort(s) == s % (RingSlots - 1)

OutSlot(s) == s % RingSlots

\* Batches the producer has begun to write.
Written == 0 .. (IF producer = "publish" THEN publishSeq ELSE publishSeq - 1)

\* Batches whose permit the producer has not got back.
Awaited == {s \in Written : answer[s] = None}

Init ==
    /\ publishSeq = 0
    /\ pixels = [r \in Slots |-> None]
    /\ frameId = [r \in Slots |-> None]
    /\ overlay = [r \in Slots |-> None]
    /\ block = [r \in Slots |-> [state |-> "IDLE", seq |-> None, frame |-> None, results |-> None]]
    /\ eventReady = FALSE
    /\ eventResults = FALSE
    /\ producer = "write"
    /\ ingest = "wait" /\ consumedSeq = 0 /\ drainTo = 0
    /\ label = [s \in Batches |-> None]
    /\ stage = [s \in Batches |-> "none"]
    /\ D!Init
    /\ reader = "wait" /\ reading = None
    /\ answer = [s \in Batches |-> None]

--------------------------------------------------------------------------------
\* The producer: a permit, the slot, publishSeq, the event.

\* The permit for the slot is back: its last tenant has been answered.
SlotFree(s) ==
    Backpressure => \A t \in Awaited : InSlot(t) # InSlot(s)

WriteBatch ==
    /\ producer = "write"
    /\ publishSeq < MaxSeq
    /\ SlotFree(publishSeq)
    /\ pixels' = [pixels EXCEPT ![InSlot(publishSeq)] = publishSeq]
    /\ frameId' = [frameId EXCEPT ![InSlot(publishSeq)] = publishSeq]
    /\ producer' = "publish"
    /\ UNCHANGED <<publishSeq, overlay, block, events, ingestion, label, stage, detector, pickup>>

PublishSeq ==
    /\ producer = "publish"
    /\ publishSeq' = publishSeq + 1
    /\ producer' = "signal"
    /\ UNCHANGED <<pixels, frameId, overlay, block, events, ingestion, label, stage, detector, pickup>>

SignalReady ==
    /\ producer = "signal"
    /\ eventReady' = TRUE
    /\ producer' = "write"
    /\ UNCHANGED <<memory, eventResults, ingestion, label, stage, detector, pickup>>

--------------------------------------------------------------------------------
\* IngestLoop: wait for eventReady, read publishSeq, push what is new.

IngestWait ==
    /\ ingest = "wait"
    /\ eventReady
    /\ eventReady' = FALSE
    /\ ingest' = "load"
    /\ UNCHANGED <<memory, eventResults, producer, consumedSeq, drainTo, label, stage, detector, pickup>>

\* The variant pushes one batch per event.
LoadOne ==
    /\ ingest = "load"
    /\ drainTo' = IF consumedSeq < publishSeq THEN consumedSeq + 1 ELSE publishSeq
    /\ ingest' = "drain"
    /\ UNCHANGED <<memory, events, producer, consumedSeq, label, stage, detector, pickup>>

\* Batches the producer has lapped are skipped.
IngestLoad ==
    /\ ingest = "load"
    /\ drainTo' = publishSeq
    /\ consumedSeq' = IF publishSeq - consumedSeq > RingSlots
                      THEN publishSeq - RingSlots
                      ELSE consumedSeq
    /\ ingest' = "drain"
    /\ UNCHANGED <<memory, events, producer, label, stage, detector, pickup>>

\* The variant tests consumedSeq <= seq.
HasNextInclusive == consumedSeq <= drainTo

HasNext == consumedSeq < drainTo

\* pushBatch with the frame id found in the header; its answer is ignored.
IngestPush ==
    /\ ingest = "drain"
    /\ HasNext
    /\ label' = [label EXCEPT ![consumedSeq] = frameId[InSlot(consumedSeq)]]
    /\ D!Accept(consumedSeq) \/ D!Refuse(consumedSeq)
    /\ consumedSeq' = consumedSeq + 1
    /\ UNCHANGED <<memory, events, producer, ingest, drainTo, stage, pickup>>

IngestDone ==
    /\ ingest = "drain"
    /\ ~HasNext
    /\ ingest' = "wait"
    /\ UNCHANGED <<memory, events, producer, consumedSeq, drainTo, label, stage, detector, pickup>>

--------------------------------------------------------------------------------
\* The detector's stages, and PublishResult on its post threads.

Posting == {s \in Batches : stage[s] \notin {"none", "done"}}

\* An exception in a stage before the sink.
LoseBatch(s) ==
    /\ stage[s] = "none"
    /\ Cardinality(lost) < MaxLoss
    /\ D!Lose({s})
    /\ UNCHANGED <<memory, events, producer, ingestion, label, stage, pickup>>

\* A post thread has rendered batch s and calls the sink.
CallSink(s) ==
    /\ s \in inFlight
    /\ stage[s] = "none"
    /\ Cardinality(Posting) < Posters
    /\ stage' = [stage EXCEPT ![s] = "overlay"]
    /\ UNCHANGED <<memory, events, producer, ingestion, label, detector, pickup>>

\* The variant raises the flag before the results are written.
FlagBeforeResults ==
    [overlay |-> "header", header |-> "state", state |-> "results",
     results |-> "signal", signal |-> "done"]

\* The order of PublishResult's writes.
NextStage ==
    [overlay |-> "header", header |-> "results", results |-> "state",
     state |-> "signal", signal |-> "done"]

PublishStep(s, here) ==
    /\ stage[s] = here
    /\ stage' = [stage EXCEPT ![s] = NextStage[here]]
    /\ UNCHANGED <<publishSeq, pixels, frameId, eventReady, producer, ingestion, label, pickup>>

WriteOverlay(s) ==
    /\ PublishStep(s, "overlay")
    /\ overlay' = [overlay EXCEPT ![OutSlot(s)] = s]
    /\ UNCHANGED <<block, eventResults, detector>>

\* The variant fills the whole header at once, the flag included.
WriteHeaderReady(s) ==
    /\ PublishStep(s, "header")
    /\ block' = [block EXCEPT ![OutSlot(s)].seq = s, ![OutSlot(s)].frame = label[s],
                             ![OutSlot(s)].state = "RESULT_READY"]
    /\ UNCHANGED <<overlay, eventResults, detector>>

WriteHeader(s) ==
    /\ PublishStep(s, "header")
    /\ block' = [block EXCEPT ![OutSlot(s)].seq = s, ![OutSlot(s)].frame = label[s]]
    /\ UNCHANGED <<overlay, eventResults, detector>>

WriteResults(s) ==
    /\ PublishStep(s, "results")
    /\ block' = [block EXCEPT ![OutSlot(s)].results = s]
    /\ UNCHANGED <<overlay, eventResults, detector>>

WriteState(s) ==
    /\ PublishStep(s, "state")
    /\ block' = [block EXCEPT ![OutSlot(s)].state = "RESULT_READY"]
    /\ D!Publish(s)
    /\ UNCHANGED <<overlay, eventResults>>

SignalResults(s) ==
    /\ PublishStep(s, "signal")
    /\ eventResults' = TRUE
    /\ UNCHANGED <<overlay, block, detector>>

PublishResult(s) ==
    \/ CallSink(s)
    \/ WriteOverlay(s)
    \/ WriteHeader(s)
    \/ WriteResults(s)
    \/ WriteState(s)
    \/ SignalResults(s)

--------------------------------------------------------------------------------
\* The reader: wait for eventResults, copy every block that is ready.

IsReady(s) ==
    /\ block[OutSlot(s)].state = "RESULT_READY"
    /\ block[OutSlot(s)].seq = s

ReaderWait ==
    /\ reader = "wait"
    /\ eventResults
    /\ eventResults' = FALSE
    /\ reader' = "scan"
    /\ UNCHANGED <<memory, eventReady, producer, ingestion, label, stage, detector, reading, answer>>

ReaderFind(s) ==
    /\ reader = "scan"
    /\ s \in Awaited
    /\ IsReady(s)
    /\ reading' = s
    /\ reader' = "copy"
    /\ UNCHANGED <<memory, events, producer, ingestion, label, stage, detector, answer>>

\* Copy the block and the overlays and give the permit back.
ReaderCopy ==
    /\ reader = "copy"
    /\ LET r == OutSlot(reading)
       IN  /\ answer' = [answer EXCEPT ![reading] =
                            [frame |-> block[r].frame, results |-> block[r].results,
                             overlay |-> overlay[r]]]
           /\ block' = IF ReaderClears THEN [block EXCEPT ![r].state = "IDLE"] ELSE block
    /\ reading' = None
    /\ reader' = "scan"
    /\ UNCHANGED <<publishSeq, pixels, frameId, overlay, events, producer, ingestion, label, stage, detector>>

ReaderIdle ==
    /\ reader = "scan"
    /\ \A s \in Awaited : ~IsReady(s)
    /\ reader' = "wait"
    /\ UNCHANGED <<memory, events, producer, ingestion, label, stage, detector, reading, answer>>

--------------------------------------------------------------------------------

Producer == WriteBatch \/ PublishSeq \/ SignalReady
Ingest == IngestWait \/ IngestLoad \/ IngestPush \/ IngestDone
Reader == ReaderWait \/ (\E s \in Batches : ReaderFind(s)) \/ ReaderCopy \/ ReaderIdle

Next ==
    \/ Producer
    \/ Ingest
    \/ \E s \in Batches : PublishResult(s) \/ LoseBatch(s)
    \/ Reader

\* A batch being written is also published and signalled; the threads and the
\* reader run; the detector delivers what it does not lose.  Nothing obliges
\* the producer to start a batch.
Fairness ==
    /\ WF_vars(PublishSeq) /\ WF_vars(SignalReady)
    /\ WF_vars(Ingest)
    /\ WF_vars(Reader)
    /\ \A s \in Batches : WF_vars(PublishResult(s))

SafeSpec == Init /\ [][Next]_vars

Spec == SafeSpec /\ Fairness

--------------------------------------------------------------------------------

Fields == Batches \union {None}

Blocks == [state : {"IDLE", "RESULT_READY"}, seq : Fields, frame : Fields, results : Fields]

TypeOK ==
    /\ publishSeq \in 0 .. MaxSeq
    /\ pixels \in [Slots -> Fields] /\ frameId \in [Slots -> Fields]
    /\ overlay \in [Slots -> Fields]
    /\ block \in [Slots -> Blocks]
    /\ eventReady \in BOOLEAN /\ eventResults \in BOOLEAN
    /\ producer \in {"write", "publish", "signal"}
    /\ producer = "publish" => publishSeq < MaxSeq
    /\ ingest \in {"wait", "load", "drain"}
    /\ consumedSeq \in 0 .. MaxSeq /\ drainTo \in 0 .. MaxSeq
    /\ label \in [Batches -> Fields]
    /\ stage \in [Batches -> {"none", "overlay", "header", "results", "state", "signal", "done"}]
    /\ inFlight \subseteq Batches /\ published \subseteq Batches
    /\ lost \subseteq Batches /\ refused \subseteq Batches
    /\ open = TRUE
    /\ reader \in {"wait", "scan", "copy"}
    /\ reading \in Fields
    /\ reader = "copy" <=> reading # None
    /\ answer \in [Batches -> [frame : Fields, results : Fields, overlay : Fields] \union {None}]

\* The zero-copy contract of pushBatch: from the moment a batch is published
\* until its result block is ready, its input slot holds its images, though
\* nobody in the worker copies them and batches complete out of order.
ZeroCopySafe ==
    \A s \in inFlight \union (consumedSeq .. publishSeq - 1) : pixels[InSlot(s)] = s

\* PublishResult needs no lock: threads publishing different batches at the
\* same time write different slots.  This is of one worker; a restarted one may
\* publish answered batches again (Lifecycle).
DistinctSlots ==
    \A s, t \in Batches :
        s # t /\ {stage[s], stage[t]} \subseteq {"overlay", "header", "results", "state"}
            => OutSlot(s) # OutSlot(t)

\* An answer is the block and the overlays of its own batch, complete, under the
\* frame id the producer gave it.
Whole(s) == answer[s] = [frame |-> s, results |-> s, overlay |-> s]

\* What the comments promise to every reader that keys on RESULT_READY and uses
\* seq to ignore a slot it has already consumed: all answers are whole.
AnswersWhole == \A s \in Batches : answer[s] # None => Whole(s)

\* What the writes of PublishResult deliver: a reader that sets the blocks it
\* has copied back to IDLE only gets whole answers, any other reader as long as
\* the ring goes round for the first time.
AnswersTrusted ==
    \A s \in Batches :
        (ReaderClears \/ s < RingSlots) /\ answer[s] # None => Whole(s)

\* The producer's permits keep the ingest thread within one lap: it never has
\* to skip a batch, and never runs ahead of publishSeq.
NoLap == publishSeq - consumedSeq \in 0 .. RingSlots

\* With no more slots than q_raw_ has places, pushBatch never drops a batch.
NeverRefused == RingSlots <= RawCap => refused = {}

\* Every published batch that no exception loses is answered: no wake-up is
\* lost although both events are auto-reset and coalesce ("coalesced auto-reset
\* events lose nothing").
EveryBatchAnswered ==
    \A s \in Batches : (publishSeq > s) ~> (answer[s] # None \/ s \in lost)
================================================================================
