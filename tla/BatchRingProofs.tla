----------------------------- MODULE BatchRingProofs -----------------------------
(***************************************************************************)
(* Proofs about BatchRing for any number of slots, batches and threads.     *)
(*                                                                          *)
(* With permits per slot (Backpressure) and a reader that clears the blocks *)
(* it has copied (ReaderClears), the ring needs no lock.  The argument: the *)
(* batches whose permit is out, Awaited, have pairwise different slots and  *)
(* still own their input slot; everything inside the worker is Awaited; and *)
(* a permit only comes back for a batch the worker has published, because a *)
(* block that says RESULT_READY belongs to one.                             *)
(* For a reader that clears nothing the last point holds only the first     *)
(* time round the ring; that is the second half of the module.              *)
(***************************************************************************)
EXTENDS BatchRing, FiniteSetTheorems, TLAPS

\* The batches whose permit is out live in different slots.
Tenants == \A s, t \in Awaited : InSlot(s) = InSlot(t) => s = t

\* Each of them finds its own images and its own frame id in its slot.
Owners ==
    \A s \in Awaited : pixels[InSlot(s)] = s /\ frameId[InSlot(s)] = s

\* Whatever the worker has still to do is for such a batch.
Inside == inFlight \union (consumedSeq .. publishSeq - 1) \subseteq Awaited

\* The ingest thread pushes in order, only what was published, and with the
\* frame id it was published with.
InOrder ==
    /\ consumedSeq <= publishSeq
    /\ drainTo <= publishSeq
    /\ D!Pushed \subseteq 0 .. consumedSeq - 1
    /\ \A s \in D!Pushed : label[s] = s

Writing == {"overlay", "header", "results", "state"}

\* PublishResult is called for batches inside and publishes each once; only
\* then is it answered.
Once ==
    /\ inFlight \intersect published = {}
    /\ \A s \in Batches :
        /\ stage[s] \in Writing => s \in inFlight
        /\ stage[s] \in {"signal", "done"} <=> s \in published
        /\ answer[s] # None => s \in published

\* What PublishResult has written for a batch stays until it is answered.
Content ==
    \A s \in Awaited :
        /\ stage[s] \notin {"none", "overlay"} => overlay[OutSlot(s)] = s
        /\ stage[s] \notin {"none", "overlay", "header"} =>
            block[OutSlot(s)].seq = s /\ block[OutSlot(s)].frame = s
        /\ stage[s] \notin {"none", "overlay", "header", "results"} =>
            block[OutSlot(s)].results = s

\* A block that is ready belongs to a published batch that is not yet answered.
ReadyBlocks ==
    \A r \in Slots : block[r].state = "RESULT_READY" =>
        \E s \in Awaited \intersect published : OutSlot(s) = r

\* So does the block the reader copies.
ReadBlock == reader = "copy" => reading \in Awaited \intersect published

IInv ==
    /\ TypeOK
    /\ Tenants
    /\ Owners
    /\ Inside
    /\ InOrder
    /\ Once
    /\ Content
    /\ ReadyBlocks
    /\ ReadBlock
    /\ AnswersWhole

--------------------------------------------------------------------------------

\* Every batch has a slot, the same in both rings.
LEMMA SlotType == \A s \in Nat : InSlot(s) \in Slots /\ OutSlot(s) = InSlot(s)
BY RingAssumption DEF InSlot, OutSlot, Slots

LEMMA BatchesAreNat == Batches \subseteq Nat /\ None \notin Batches
BY RingAssumption DEF Batches

\* A header written into a block leaves a block.
LEMMA HeaderType ==
    ASSUME NEW b \in Blocks, NEW s \in Fields, NEW f \in Fields
    PROVE  [b EXCEPT !.seq = s, !.frame = f] \in Blocks
BY DEF Blocks

\* The state is well typed.
LEMMA TypeStep == TypeOK /\ [Next]_vars => TypeOK'
<1> SUFFICES ASSUME TypeOK, [Next]_vars PROVE TypeOK'
  OBVIOUS
<1> USE RingAssumption, SlotType, BatchesAreNat
    DEF TypeOK, memory, events, ingestion, detector, pickup
<1>1. CASE WriteBatch
  <2>1. publishSeq \in Fields /\ InSlot(publishSeq) \in Slots
    BY <1>1 DEF WriteBatch, Fields, Batches
  <2>2. pixels' \in [Slots -> Fields] /\ frameId' \in [Slots -> Fields]
    BY <1>1, <2>1 DEF WriteBatch
  <2>3. QED
    BY <1>1, <2>2 DEF WriteBatch
<1>2. CASE PublishSeq \/ SignalReady
  <2>1. CASE PublishSeq
    <3>1. publishSeq' \in 0 .. MaxSeq /\ producer' = "signal"
      BY <2>1 DEF PublishSeq
    <3>2. QED
      BY <2>1, <3>1 DEF PublishSeq
  <2>2. CASE SignalReady
    BY <2>2 DEF SignalReady
  <2>3. QED
    BY <1>2, <2>1, <2>2
<1>3. CASE IngestWait \/ IngestDone
  BY <1>3 DEF IngestWait, IngestDone
<1>4. CASE IngestLoad
  BY <1>4 DEF IngestLoad
<1>5. CASE IngestPush
  <2>1. consumedSeq \in Batches
    BY <1>5 DEF IngestPush, HasNext, Batches
  <2>2. consumedSeq' \in 0 .. MaxSeq
    BY <1>5, <2>1 DEF IngestPush, Batches
  <2>3. label' \in [Batches -> Fields]
    BY <1>5, <2>1 DEF IngestPush
  <2>4. /\ inFlight' \subseteq Batches /\ published' \subseteq Batches
        /\ lost' \subseteq Batches /\ refused' \subseteq Batches /\ open' = TRUE
    BY <1>5, <2>1 DEF IngestPush, D!Accept, D!Refuse
  <2>5. QED
    BY <1>5, <2>2, <2>3, <2>4 DEF IngestPush
<1>6. ASSUME NEW s \in Batches, LoseBatch(s) PROVE TypeOK'
  BY <1>6 DEF LoseBatch, D!Lose
<1>7. ASSUME NEW s \in Batches, CallSink(s) PROVE TypeOK'
  BY <1>7 DEF CallSink
<1>8. ASSUME NEW s \in Batches, WriteOverlay(s) PROVE TypeOK'
  BY <1>8 DEF WriteOverlay, PublishStep, NextStage, Fields
<1>9. ASSUME NEW s \in Batches, WriteHeader(s) PROVE TypeOK'
  <2>1. OutSlot(s) \in Slots /\ s \in Fields /\ label[s] \in Fields
    BY DEF Fields
  <2>2. [block[OutSlot(s)] EXCEPT !.seq = s, !.frame = label[s]] \in Blocks
    <3>1. block[OutSlot(s)] \in Blocks
      BY <2>1
    <3>2. QED
      BY ONLY <2>1, <3>1, HeaderType
  <2>3. block' = [block EXCEPT ![OutSlot(s)] = [block[OutSlot(s)] EXCEPT !.seq = s, !.frame = label[s]]]
    BY <1>9, <2>1 DEF WriteHeader
  <2>4. block' \in [Slots -> Blocks]
    BY <2>1, <2>2, <2>3
  <2>5. stage' \in [Batches -> Writing \union {"none", "signal", "done"}]
    BY <1>9 DEF WriteHeader, PublishStep, NextStage, Writing
  <2>6. QED
    BY <1>9, <2>4, <2>5 DEF WriteHeader, PublishStep, Writing
<1>10. ASSUME NEW s \in Batches, WriteResults(s) PROVE TypeOK'
  <2>1. OutSlot(s) \in Slots /\ s \in Fields /\ label[s] \in Fields
    BY DEF Fields
  <2>2. [block[OutSlot(s)] EXCEPT !.results = s] \in Blocks
    BY <2>1 DEF Blocks
  <2>3. block' = [block EXCEPT ![OutSlot(s)] = [block[OutSlot(s)] EXCEPT !.results = s]]
    BY <1>10, <2>1 DEF WriteResults
  <2>4. block' \in [Slots -> Blocks]
    BY <2>1, <2>2, <2>3
  <2>5. stage' \in [Batches -> Writing \union {"none", "signal", "done"}]
    BY <1>10 DEF WriteResults, PublishStep, NextStage, Writing
  <2>6. QED
    BY <1>10, <2>4, <2>5 DEF WriteResults, PublishStep, Writing
<1>11. ASSUME NEW s \in Batches, WriteState(s) PROVE TypeOK'
  <2>1. OutSlot(s) \in Slots
    OBVIOUS
  <2>2. [block[OutSlot(s)] EXCEPT !.state = "RESULT_READY"] \in Blocks
    BY <2>1 DEF Blocks
  <2>3. block' = [block EXCEPT ![OutSlot(s)] = [block[OutSlot(s)] EXCEPT !.state = "RESULT_READY"]]
    BY <1>11, <2>1 DEF WriteState
  <2>4. block' \in [Slots -> Blocks]
    BY <2>1, <2>2, <2>3
  <2>5. QED
    BY <1>11, <2>4 DEF WriteState, PublishStep, NextStage, D!Publish
<1>12. ASSUME NEW s \in Batches, SignalResults(s) PROVE TypeOK'
  BY <1>12 DEF SignalResults, PublishStep, NextStage
<1>13. CASE ReaderWait \/ ReaderIdle
  BY <1>13 DEF ReaderWait, ReaderIdle
<1>14. ASSUME NEW s \in Batches, ReaderFind(s) PROVE TypeOK'
  BY <1>14 DEF ReaderFind, Fields
<1>15. CASE ReaderCopy
  <2>1. reading \in Batches /\ OutSlot(reading) \in Slots
    BY <1>15 DEF ReaderCopy, Fields
  <2>2. block' \in [Slots -> Blocks]
    <3>1. [block[OutSlot(reading)] EXCEPT !.state = "IDLE"] \in Blocks
      BY <2>1 DEF Blocks
    <3>2. block' = IF ReaderClears
                   THEN [block EXCEPT ![OutSlot(reading)] =
                            [block[OutSlot(reading)] EXCEPT !.state = "IDLE"]]
                   ELSE block
      BY <1>15, <2>1 DEF ReaderCopy
    <3>3. QED
      BY <2>1, <3>1, <3>2
  <2>3. answer' \in [Batches -> [frame : Fields, results : Fields, overlay : Fields] \union {None}]
    <3>1. block[OutSlot(reading)].frame \in Fields /\ block[OutSlot(reading)].results \in Fields
      BY <2>1 DEF Blocks
    <3>2. QED
      BY <1>15, <2>1, <3>1 DEF ReaderCopy
  <2>4. QED
    BY <1>15, <2>2, <2>3 DEF ReaderCopy, Fields
<1>16. CASE UNCHANGED vars
  BY <1>16 DEF vars
<1>17. QED
  BY <1>1, <1>2, <1>3, <1>4, <1>5, <1>6, <1>7, <1>8, <1>9, <1>10, <1>11, <1>12, <1>13,
     <1>14, <1>15, <1>16
     DEF Next, Producer, Ingest, PublishResult, Reader

--------------------------------------------------------------------------------
\* The rest of IInv, action by action.

\* Shapes of Awaited: the permit of a batch goes out when its slot is written
\* and comes back when it has been copied.
LEMMA AwaitedType == TypeOK => Awaited \in SUBSET Batches
BY RingAssumption DEF TypeOK, Awaited, Written, Batches

LEMMA SameAwaited ==
    ASSUME UNCHANGED <<publishSeq, answer>>, producer' = producer
    PROVE  Awaited' = Awaited
BY DEF Awaited, Written

\* A step that touches neither the rings nor the batches keeps everything.
LEMMA Quiet ==
    ASSUME IInv, TypeOK',
           UNCHANGED <<publishSeq, pixels, frameId, overlay, block, label, stage, answer>>,
           UNCHANGED <<detector, reading>>,
           Awaited' = Awaited,
           consumedSeq' = consumedSeq, drainTo' <= publishSeq,
           reader' = "copy" => reader = "copy"
    PROVE  IInv'
<1> USE DEF IInv
<1>1. Tenants' /\ Owners' /\ Inside'
  BY DEF Tenants, Owners, Inside, detector
<1>2. InOrder' /\ Once'
  BY DEF InOrder, Once, detector, D!Pushed
<1>3. Content' /\ ReadyBlocks' /\ ReadBlock' /\ AnswersWhole'
  BY DEF Content, ReadyBlocks, ReadBlock, AnswersWhole, Whole, detector
<1>4. QED
  BY <1>1, <1>2, <1>3

\* The producer writes the next batch into a slot whose permit it holds.
LEMMA WriteBatchStep ==
    ASSUME IInv, TypeOK', Backpressure = TRUE, WriteBatch
    PROVE  IInv'
<1> DEFINE s == publishSeq
<1> USE DEF IInv
<1>1. /\ s \in Batches /\ s \in Nat /\ InSlot(s) \in Slots
      /\ s \notin D!Pushed /\ answer[s] = None /\ stage[s] = "none"
      /\ Awaited \subseteq Batches /\ s \notin Awaited
      /\ Awaited' = Awaited \union {s}
  <2>1. s \in Batches /\ s \in Nat /\ InSlot(s) \in Slots
    BY RingAssumption, SlotType DEF WriteBatch, TypeOK, Batches
  <2>2. s \notin D!Pushed
    BY <2>1 DEF InOrder, TypeOK
  <2>3. answer[s] = None /\ stage[s] = "none"
    BY <2>1, <2>2 DEF Once, D!Pushed, TypeOK, Writing
  <2>4. s \notin Awaited
    BY <2>1 DEF Awaited, Written, WriteBatch, TypeOK
  <2>5. Awaited' = Awaited \union {s}
    BY <2>1, <2>3 DEF Awaited, Written, WriteBatch, pickup
  <2>6. QED
    BY <2>1, <2>2, <2>3, <2>4, <2>5, AwaitedType
<1>2. \A t \in Awaited : InSlot(t) # InSlot(s) /\ InSlot(t) \in Slots
  BY <1>1, SlotType, BatchesAreNat DEF WriteBatch, SlotFree
<1> HIDE DEF s
<1>3. Tenants'
  BY <1>1, <1>2 DEF Tenants, InSlot
<1>4. Owners'
  BY <1>1, <1>2 DEF Owners, InSlot, WriteBatch, TypeOK, s
<1>5. Inside' /\ InOrder'
  BY <1>1 DEF Inside, InOrder, WriteBatch, ingestion, detector, D!Pushed
<1>6. Once'
  BY DEF Once, WriteBatch, detector, pickup
<1>7. Content'
  BY <1>1 DEF Content, WriteBatch, OutSlot
<1>8. ReadyBlocks' /\ ReadBlock' /\ AnswersWhole'
  BY <1>1 DEF ReadyBlocks, ReadBlock, AnswersWhole, Whole, WriteBatch, detector, pickup, OutSlot
<1>9. QED
  BY <1>3, <1>4, <1>5, <1>6, <1>7, <1>8

\* Publishing changes who may push the batch, not whose permit is out.
LEMMA PublishSeqStep ==
    ASSUME IInv, TypeOK', PublishSeq
    PROVE  IInv'
<1> USE DEF IInv
<1>1. Awaited' = Awaited
  BY DEF Awaited, Written, PublishSeq, TypeOK, pickup
<1>2. publishSeq \in Awaited
  <2>1. publishSeq \in Batches /\ publishSeq \in Written
    BY RingAssumption DEF PublishSeq, TypeOK, Batches, Written
  <2>2. publishSeq \notin published
    BY <2>1 DEF InOrder, TypeOK, D!Pushed
  <2>3. QED
    BY <2>1, <2>2 DEF Once, Awaited
<1>3. Tenants' /\ Owners'
  BY <1>1 DEF Tenants, Owners, PublishSeq
<1>4. Inside'
  <2>1. /\ publishSeq' = publishSeq + 1 /\ consumedSeq' = consumedSeq
        /\ inFlight' = inFlight /\ publishSeq \in Nat /\ consumedSeq \in Nat
    BY RingAssumption DEF PublishSeq, TypeOK, ingestion, detector
  <2>2. consumedSeq' .. publishSeq' - 1 \subseteq (consumedSeq .. publishSeq - 1) \union {publishSeq}
    BY <2>1
  <2>3. QED
    BY <1>1, <1>2, <2>1, <2>2 DEF Inside
<1>5. InOrder'
  BY DEF InOrder, PublishSeq, TypeOK, ingestion, detector, D!Pushed
<1>6. Once'
  BY DEF Once, PublishSeq, detector, pickup
<1>7. Content' /\ ReadyBlocks' /\ ReadBlock' /\ AnswersWhole'
  BY <1>1 DEF Content, ReadyBlocks, ReadBlock, AnswersWhole, Whole, PublishSeq, detector, pickup
<1>8. QED
  BY <1>3, <1>4, <1>5, <1>6, <1>7

\* Pushing the next batch: accepted or refused, it is accounted for in order.
LEMMA IngestPushStep ==
    ASSUME IInv, TypeOK', IngestPush
    PROVE  IInv'
<1> DEFINE s == consumedSeq
<1> USE DEF IInv
<1>1. s \in Nat /\ s < publishSeq /\ s \in Batches /\ s \in Awaited /\ s \notin D!Pushed
  <2>1. s \in Nat /\ s < publishSeq /\ publishSeq \in Nat /\ s \in Batches
    BY RingAssumption DEF IngestPush, HasNext, InOrder, TypeOK, Batches
  <2>2. s \in consumedSeq .. publishSeq - 1
    BY <2>1
  <2>3. QED
    BY <2>1, <2>2 DEF Inside, InOrder
<1>2. Awaited' = Awaited
  BY SameAwaited DEF IngestPush, memory, pickup
<1>3. /\ published' = published /\ lost' = lost
      /\ inFlight' \subseteq inFlight \union {s} /\ inFlight \subseteq inFlight'
      /\ D!Pushed' = D!Pushed \union {s}
  BY DEF IngestPush, D!Accept, D!Refuse, D!Pushed
<1>4. label' = [label EXCEPT ![s] = s]
  BY <1>1 DEF IngestPush, Owners
<1>5. UNCHANGED <<publishSeq, pixels, frameId, overlay, block, stage, drainTo,
                  reader, reading, answer>> /\ consumedSeq' = s + 1
  BY DEF IngestPush, memory, pickup
<1>6. s \notin published
  BY <1>1 DEF D!Pushed
<1> HIDE DEF s
<1>7. Tenants' /\ Owners'
  BY <1>2, <1>5 DEF Tenants, Owners
<1>8. Inside'
  <2>1. consumedSeq' .. publishSeq' - 1 \subseteq consumedSeq .. publishSeq - 1
    BY <1>1, <1>5 DEF TypeOK, s
  <2>2. QED
    BY <1>1, <1>2, <1>3, <2>1 DEF Inside
<1>9. InOrder'
  <2>1. D!Pushed' \subseteq 0 .. consumedSeq' - 1 /\ consumedSeq' <= publishSeq'
    BY <1>1, <1>3, <1>5 DEF InOrder, TypeOK, s
  <2>2. \A t \in D!Pushed' : label'[t] = t
    BY <1>1, <1>3, <1>4 DEF InOrder, TypeOK, D!Pushed
  <2>3. QED
    BY <1>5, <2>1, <2>2 DEF InOrder
<1>10. Once'
  BY <1>3, <1>5, <1>6 DEF Once
<1>11. Content' /\ ReadyBlocks' /\ ReadBlock' /\ AnswersWhole'
  BY <1>2, <1>3, <1>5 DEF Content, ReadyBlocks, ReadBlock, AnswersWhole, Whole
<1>12. QED
  BY <1>7, <1>8, <1>9, <1>10, <1>11

\* An exception takes a batch out before its block is touched.
LEMMA LoseStep ==
    ASSUME IInv, TypeOK', NEW s \in Batches, LoseBatch(s)
    PROVE  IInv'
<1> USE DEF IInv
<1>1. Awaited' = Awaited
  BY SameAwaited DEF LoseBatch, memory, pickup
<1>2. /\ s \in inFlight /\ inFlight' = inFlight \ {s} /\ published' = published
      /\ D!Pushed' = D!Pushed /\ stage[s] = "none"
  BY DEF LoseBatch, D!Lose, D!Pushed
<1>3. UNCHANGED <<publishSeq, pixels, frameId, overlay, block, label, stage, consumedSeq, drainTo,
                  reader, reading, answer>>
  BY DEF LoseBatch, memory, ingestion, pickup
<1>4. Tenants' /\ Owners' /\ Inside' /\ InOrder'
  BY <1>1, <1>2, <1>3 DEF Tenants, Owners, Inside, InOrder
<1>5. Once'
  BY <1>2, <1>3 DEF Once, Writing
<1>6. Content' /\ ReadyBlocks' /\ ReadBlock' /\ AnswersWhole'
  BY <1>1, <1>2, <1>3 DEF Content, ReadyBlocks, ReadBlock, AnswersWhole, Whole
<1>7. QED
  BY <1>4, <1>5, <1>6

\* A post thread begins to publish a batch: nothing is written yet.
LEMMA CallSinkStep ==
    ASSUME IInv, TypeOK', NEW s \in Batches, CallSink(s)
    PROVE  IInv'
<1> USE DEF IInv
<1>1. Awaited' = Awaited
  BY SameAwaited DEF CallSink, memory, pickup
<1>2. /\ s \in inFlight /\ s \notin published
      /\ stage' = [stage EXCEPT ![s] = "overlay"] /\ stage[s] = "none"
  BY DEF CallSink, Once
<1>3. UNCHANGED <<publishSeq, pixels, frameId, overlay, block, label, consumedSeq, drainTo,
                  inFlight, published, lost, refused, reader, reading, answer>>
  BY DEF CallSink, memory, ingestion, detector, pickup
<1>4. Tenants' /\ Owners' /\ Inside' /\ InOrder'
  BY <1>1, <1>3 DEF Tenants, Owners, Inside, InOrder, D!Pushed
<1>5. Once'
  BY <1>2, <1>3 DEF Once, Writing, TypeOK
<1>6. Content'
  BY <1>1, <1>2, <1>3, AwaitedType DEF Content, TypeOK
<1>7. ReadyBlocks' /\ ReadBlock' /\ AnswersWhole'
  BY <1>1, <1>3 DEF ReadyBlocks, ReadBlock, AnswersWhole, Whole
<1>8. QED
  BY <1>4, <1>5, <1>6, <1>7

\* Writing an overlay, a header or results only concerns the batch that owns
\* the slot: no other awaited batch has it.
LEMMA OnlyTenant ==
    ASSUME IInv, NEW s \in Batches, stage[s] \in Writing
    PROVE  /\ s \in inFlight /\ s \in Awaited /\ s \notin published
           /\ s \in D!Pushed /\ label[s] = s
           /\ OutSlot(s) \in Slots
           /\ \A t \in Awaited : t # s => OutSlot(t) # OutSlot(s)
           /\ \A t \in Awaited : OutSlot(t) \in Slots
           /\ block[OutSlot(s)].state # "RESULT_READY"
<1> USE DEF IInv
<1>1. s \in inFlight /\ s \in Awaited /\ s \notin published /\ s \in D!Pushed /\ label[s] = s
  BY DEF Once, Inside, InOrder, D!Pushed
<1>2. \A t \in Awaited : OutSlot(t) \in Slots /\ OutSlot(t) = InSlot(t)
  BY AwaitedType, BatchesAreNat, SlotType
<1>3. \A t \in Awaited : t # s => OutSlot(t) # OutSlot(s)
  BY <1>1, <1>2 DEF Tenants
<1>4. block[OutSlot(s)].state # "RESULT_READY"
  BY <1>1, <1>2, <1>3 DEF ReadyBlocks
<1>5. QED
  BY <1>1, <1>2, <1>3, <1>4

\* What the writes of PublishResult share.
LEMMA WritingStep ==
    ASSUME IInv, TypeOK', NEW s \in Batches, stage[s] \in Writing,
           NEW there, stage' = [stage EXCEPT ![s] = there], there \in Writing,
           UNCHANGED <<publishSeq, pixels, frameId, producer, ingestion, label, detector, pickup>>,
           \A r \in Slots : block'[r].state = block[r].state,
           Content'
    PROVE  IInv'
<1> USE DEF IInv
<1>1. Awaited' = Awaited
  BY SameAwaited DEF pickup
<1>2. s \in inFlight /\ s \notin published
  BY OnlyTenant
<1>3. Tenants' /\ Owners' /\ Inside' /\ InOrder'
  BY <1>1 DEF Tenants, Owners, Inside, InOrder, D!Pushed, ingestion, detector
<1>4. Once'
  BY <1>2 DEF Once, Writing, detector, pickup, TypeOK
<1>5. ReadyBlocks' /\ ReadBlock' /\ AnswersWhole'
  BY <1>1 DEF ReadyBlocks, ReadBlock, AnswersWhole, Whole, detector, pickup
<1>6. QED
  BY <1>3, <1>4, <1>5

LEMMA WriteOverlayStep ==
    ASSUME IInv, TypeOK', NEW s \in Batches, WriteOverlay(s)
    PROVE  IInv'
<1>1. stage[s] = "overlay" /\ stage' = [stage EXCEPT ![s] = "header"]
  BY DEF WriteOverlay, PublishStep, NextStage
<1>2. Awaited' = Awaited
  BY SameAwaited DEF WriteOverlay, PublishStep, pickup
<1>3. overlay' = [overlay EXCEPT ![OutSlot(s)] = s] /\ block' = block
  BY DEF WriteOverlay
<1>4. Content'
  BY <1>1, <1>2, <1>3, OnlyTenant, AwaitedType DEF Content, IInv, TypeOK, Writing
<1>5. QED
  BY <1>1, <1>3, <1>4, WritingStep DEF WriteOverlay, PublishStep, Writing

LEMMA WriteHeaderStep ==
    ASSUME IInv, TypeOK', NEW s \in Batches, WriteHeader(s)
    PROVE  IInv'
<1>1. stage[s] = "header" /\ stage' = [stage EXCEPT ![s] = "results"]
  BY DEF WriteHeader, PublishStep, NextStage
<1>2. Awaited' = Awaited
  BY SameAwaited DEF WriteHeader, PublishStep, pickup
<1>3. block' = [block EXCEPT ![OutSlot(s)] = [block[OutSlot(s)] EXCEPT !.seq = s, !.frame = label[s]]]
      /\ overlay' = overlay
  BY DEF WriteHeader
<1>4. \A r \in Slots : block[r] \in Blocks
  BY DEF IInv, TypeOK
<1>5. Content'
  BY <1>1, <1>2, <1>3, <1>4, OnlyTenant, AwaitedType DEF Content, IInv, TypeOK, Writing, Blocks
<1>6. \A r \in Slots : block'[r].state = block[r].state
  BY <1>3, <1>4 DEF Blocks, IInv, TypeOK
<1>7. QED
  BY <1>1, <1>5, <1>6, WritingStep DEF WriteHeader, PublishStep, Writing

LEMMA WriteResultsStep ==
    ASSUME IInv, TypeOK', NEW s \in Batches, WriteResults(s)
    PROVE  IInv'
<1>1. stage[s] = "results" /\ stage' = [stage EXCEPT ![s] = "state"]
  BY DEF WriteResults, PublishStep, NextStage
<1>2. Awaited' = Awaited
  BY SameAwaited DEF WriteResults, PublishStep, pickup
<1>3. block' = [block EXCEPT ![OutSlot(s)] = [block[OutSlot(s)] EXCEPT !.results = s]]
      /\ overlay' = overlay
  BY DEF WriteResults
<1>4. \A r \in Slots : block[r] \in Blocks
  BY DEF IInv, TypeOK
<1>5. Content'
  BY <1>1, <1>2, <1>3, <1>4, OnlyTenant, AwaitedType DEF Content, IInv, TypeOK, Writing, Blocks
<1>6. \A r \in Slots : block'[r].state = block[r].state
  BY <1>3, <1>4 DEF Blocks, IInv, TypeOK
<1>7. QED
  BY <1>1, <1>5, <1>6, WritingStep DEF WriteResults, PublishStep, Writing

\* The release flag: from now on the block belongs to a published batch.
LEMMA WriteStateStep ==
    ASSUME IInv, TypeOK', NEW s \in Batches, WriteState(s)
    PROVE  IInv'
<1> USE DEF IInv
<1>1. stage[s] = "state" /\ stage' = [stage EXCEPT ![s] = "signal"]
  BY DEF WriteState, PublishStep, NextStage
<1>2. Awaited' = Awaited
  BY SameAwaited DEF WriteState, PublishStep, pickup
<1>3. UNCHANGED <<publishSeq, pixels, frameId, overlay, label, consumedSeq, drainTo,
                  lost, refused, reader, reading, answer>>
  BY DEF WriteState, PublishStep, D!Publish, ingestion, pickup
<1>4. inFlight' = inFlight \ {s} /\ published' = published \union {s} /\ s \in inFlight
  BY DEF WriteState, D!Publish
<1>5. block' = [block EXCEPT ![OutSlot(s)] = [block[OutSlot(s)] EXCEPT !.state = "RESULT_READY"]]
  BY DEF WriteState
<1>6. \A r \in Slots : block[r] \in Blocks
  BY DEF TypeOK
<1>7. Tenants' /\ Owners' /\ Inside'
  BY <1>2, <1>3, <1>4 DEF Tenants, Owners, Inside
<1>8. InOrder'
  <2>1. D!Pushed' = D!Pushed
    BY <1>3, <1>4 DEF D!Pushed
  <2>2. QED
    BY <1>3, <2>1 DEF InOrder
<1>9. Once'
  BY <1>1, <1>3, <1>4 DEF Once, Writing, TypeOK
<1>10. Content'
  BY <1>1, <1>2, <1>3, <1>5, <1>6, OnlyTenant, AwaitedType DEF Content, TypeOK, Writing, Blocks
<1>11. ReadyBlocks'
  <2>1. s \in Awaited' \intersect published' /\ OutSlot(s) \in Slots
    BY <1>1, <1>2, <1>4, OnlyTenant DEF Writing
  <2>2. \A r \in Slots : r # OutSlot(s) => block'[r] = block[r]
    BY <1>5, <1>6, <2>1 DEF TypeOK
  <2>3. QED
    BY <1>2, <1>4, <2>1, <2>2 DEF ReadyBlocks, OutSlot
<1>12. ReadBlock' /\ AnswersWhole'
  BY <1>2, <1>3, <1>4 DEF ReadBlock, AnswersWhole, Whole
<1>13. QED
  BY <1>7, <1>8, <1>9, <1>10, <1>11, <1>12

\* SetEvent comes last and touches no block.
LEMMA SignalStep ==
    ASSUME IInv, TypeOK', NEW s \in Batches, SignalResults(s)
    PROVE  IInv'
<1> USE DEF IInv
<1>1. stage[s] = "signal" /\ stage' = [stage EXCEPT ![s] = "done"]
  BY DEF SignalResults, PublishStep, NextStage
<1>2. Awaited' = Awaited
  BY SameAwaited DEF SignalResults, PublishStep, pickup
<1>3. UNCHANGED <<publishSeq, pixels, frameId, overlay, block, label, consumedSeq, drainTo,
                  inFlight, published, lost, refused, reader, reading, answer>>
  BY DEF SignalResults, PublishStep, ingestion, detector, pickup
<1>4. Tenants' /\ Owners' /\ Inside' /\ InOrder'
  BY <1>2, <1>3 DEF Tenants, Owners, Inside, InOrder, D!Pushed
<1>5. Once'
  BY <1>1, <1>3 DEF Once, Writing, TypeOK
<1>6. Content'
  BY <1>1, <1>2, <1>3, AwaitedType DEF Content, TypeOK
<1>7. ReadyBlocks' /\ ReadBlock' /\ AnswersWhole'
  BY <1>2, <1>3 DEF ReadyBlocks, ReadBlock, AnswersWhole, Whole
<1>8. QED
  BY <1>4, <1>5, <1>6, <1>7

\* A block the reader finds ready with the number it awaits is that batch's.
LEMMA ReaderFindStep ==
    ASSUME IInv, TypeOK', NEW s \in Batches, ReaderFind(s)
    PROVE  IInv'
<1> USE DEF IInv
<1>1. Awaited' = Awaited
  BY SameAwaited DEF ReaderFind, memory
<1>2. UNCHANGED <<publishSeq, pixels, frameId, overlay, block, label, stage, consumedSeq, drainTo,
                  inFlight, published, lost, refused, answer>> /\ reading' = s
  BY DEF ReaderFind, memory, ingestion, detector
<1>3. s \in Awaited /\ s \in published
  <2>1. s \in Awaited /\ OutSlot(s) \in Slots /\ OutSlot(s) = InSlot(s)
    BY SlotType, BatchesAreNat DEF ReaderFind
  <2>2. PICK t \in Awaited \intersect published : OutSlot(t) = OutSlot(s)
    BY <2>1 DEF ReaderFind, IsReady, ReadyBlocks
  <2>3. t = s
    BY <2>1, <2>2, AwaitedType, BatchesAreNat, SlotType DEF Tenants
  <2>4. QED
    BY <2>1, <2>2, <2>3
<1>4. Tenants' /\ Owners' /\ Inside' /\ InOrder' /\ Once'
  BY <1>1, <1>2 DEF Tenants, Owners, Inside, InOrder, Once, D!Pushed
<1>5. Content' /\ ReadyBlocks' /\ ReadBlock' /\ AnswersWhole'
  BY <1>1, <1>2, <1>3 DEF Content, ReadyBlocks, ReadBlock, AnswersWhole, Whole
<1>6. QED
  BY <1>4, <1>5

\* Copying a block: it is whole, and its permit comes back with the block
\* cleared for the next tenant.
LEMMA ReaderCopyStep ==
    ASSUME IInv, TypeOK', ReaderClears = TRUE, ReaderCopy
    PROVE  IInv'
<1> DEFINE s == reading
           r == OutSlot(reading)
<1> USE DEF IInv
<1>1. s \in Awaited /\ s \in published /\ s \in Batches /\ r \in Slots
      /\ stage[s] \in {"signal", "done"}
  BY AwaitedType, BatchesAreNat, SlotType DEF ReaderCopy, ReadBlock, Once
<1>2. block[r].frame = s /\ block[r].results = s /\ overlay[r] = s
  BY <1>1 DEF Content
<1>3. answer' = [answer EXCEPT ![s] = [frame |-> s, results |-> s, overlay |-> s]]
  BY <1>2 DEF ReaderCopy
<1>4. block' = [block EXCEPT ![r] = [block[r] EXCEPT !.state = "IDLE"]]
  BY DEF ReaderCopy
<1>5. UNCHANGED <<publishSeq, pixels, frameId, overlay, label, stage, consumedSeq, drainTo, producer,
                  inFlight, published, lost, refused>> /\ reader' = "scan"
  BY DEF ReaderCopy, ingestion, detector
<1>6. Awaited' = Awaited \ {s}
  <2>1. answer'[s] # None /\ \A t \in Batches : t # s => answer'[t] = answer[t]
    BY <1>1, <1>3, BatchesAreNat, NoneAssumption DEF TypeOK
  <2>2. Written' = Written /\ Written \subseteq Batches
    BY <1>5, RingAssumption DEF Written, TypeOK, Batches
  <2>3. QED
    BY <2>1, <2>2 DEF Awaited
<1>7. \A q \in Slots : q # r => block'[q] = block[q]
  BY <1>4 DEF TypeOK
<1>8. \A q \in Slots : /\ block'[q].seq = block[q].seq /\ block'[q].frame = block[q].frame
                       /\ block'[q].results = block[q].results
  BY <1>1, <1>4 DEF TypeOK, Blocks
<1>9. block'[r].state = "IDLE"
  BY <1>1, <1>4 DEF TypeOK, Blocks
<1>10. \A t \in Awaited : OutSlot(t) \in Slots
  BY AwaitedType, BatchesAreNat, SlotType
<1> HIDE DEF s, r
<1>11. Tenants' /\ Owners'
  BY <1>5, <1>6 DEF Tenants, Owners
<1>12. Inside'
  <2>1. s \notin inFlight /\ s \notin consumedSeq .. publishSeq - 1
    BY <1>1 DEF Once, InOrder, D!Pushed, TypeOK
  <2>2. QED
    BY <1>5, <1>6, <2>1 DEF Inside
<1>13. InOrder'
  BY <1>5 DEF InOrder, D!Pushed
<1>14. Once'
  BY <1>1, <1>3, <1>5 DEF Once, TypeOK
<1>15. Content'
  BY <1>5, <1>6, <1>8, <1>10 DEF Content, OutSlot
<1>16. ReadyBlocks'
  <2>1. SUFFICES ASSUME NEW q \in Slots, block'[q].state = "RESULT_READY"
                 PROVE  \E t \in Awaited' \intersect published' : OutSlot(t) = q
    BY DEF ReadyBlocks, OutSlot
  <2>2. q # r /\ block[q].state = "RESULT_READY"
    BY <1>7, <1>9, <2>1
  <2>3. PICK t \in Awaited \intersect published : OutSlot(t) = q
    BY <2>2 DEF ReadyBlocks
  <2>4. t # s
    BY <2>2, <2>3 DEF r, s
  <2>5. QED
    BY <1>5, <1>6, <2>3, <2>4
<1>17. ReadBlock' /\ AnswersWhole'
  <2>1. ReadBlock'
    BY <1>5 DEF ReadBlock
  <2>2. ASSUME NEW t \in Batches, answer'[t] # None
        PROVE  answer'[t] = [frame |-> t, results |-> t, overlay |-> t]
    <3>1. CASE t = s
      BY <1>1, <1>3, <3>1 DEF TypeOK
    <3>2. CASE t # s
      <4>1. answer'[t] = answer[t]
        BY <1>1, <1>3, <3>2 DEF TypeOK
      <4>2. QED
        BY <2>2, <4>1 DEF AnswersWhole, Whole
    <3>3. QED
      BY <3>1, <3>2
  <2>3. QED
    BY <2>1, <2>2 DEF AnswersWhole, Whole
<1>18. QED
  BY <1>11, <1>12, <1>13, <1>14, <1>15, <1>16, <1>17

LEMMA LongerPrefix ==
    ASSUME NEW m \in Nat, NEW n \in Nat, m <= n
    PROVE  0 .. m - 1 \subseteq 0 .. n - 1
OBVIOUS

\* Loading publishSeq only shortens what is still to be pushed, lapped or not.
LEMMA IngestLoadStep ==
    ASSUME IInv, TypeOK', IngestLoad
    PROVE  IInv'
<1> USE DEF IInv
<1>1. Awaited' = Awaited
  BY SameAwaited DEF IngestLoad, memory, pickup
<1>2. UNCHANGED <<publishSeq, pixels, frameId, overlay, block, label, stage,
                  inFlight, published, lost, refused, reader, reading, answer>>
  BY DEF IngestLoad, memory, detector, pickup
<1>3. /\ publishSeq \in Nat /\ RingSlots \in Nat /\ drainTo' = publishSeq
      /\ consumedSeq \in Nat /\ consumedSeq' \in Nat
      /\ consumedSeq <= consumedSeq' /\ consumedSeq' <= publishSeq
  BY RingAssumption DEF IngestLoad, InOrder, TypeOK
<1>4. Tenants' /\ Owners'
  BY <1>1, <1>2 DEF Tenants, Owners
<1>5. Inside'
  <2>1. consumedSeq' .. publishSeq' - 1 \subseteq consumedSeq .. publishSeq - 1
    BY <1>2, <1>3
  <2>2. QED
    BY <1>1, <1>2, <2>1 DEF Inside
<1>6. InOrder'
  <2>1. D!Pushed' = D!Pushed
    BY <1>2 DEF D!Pushed
  <2>2. 0 .. consumedSeq - 1 \subseteq 0 .. consumedSeq' - 1
    BY <1>3, LongerPrefix
  <2>3. D!Pushed' \subseteq 0 .. consumedSeq' - 1
    BY <2>1, <2>2 DEF InOrder
  <2>4. \A t \in D!Pushed' : label'[t] = t
    BY <1>2, <2>1 DEF InOrder
  <2>5. consumedSeq' <= publishSeq' /\ drainTo' <= publishSeq'
    BY <1>2, <1>3
  <2>6. QED
    BY <2>3, <2>4, <2>5 DEF InOrder
<1>7. Once'
  BY <1>2 DEF Once
<1>8. Content' /\ ReadyBlocks' /\ ReadBlock' /\ AnswersWhole'
  BY <1>1, <1>2 DEF Content, ReadyBlocks, ReadBlock, AnswersWhole, Whole
<1>9. QED
  BY <1>4, <1>5, <1>6, <1>7, <1>8

\* Raising, taking and finding the events down moves nothing.
LEMMA QuietStep ==
    ASSUME IInv, TypeOK',
           \/ SignalReady
           \/ IngestWait \/ IngestDone
           \/ ReaderWait \/ ReaderIdle
           \/ UNCHANGED vars
    PROVE  IInv'
<1>1. /\ UNCHANGED <<publishSeq, pixels, frameId, overlay, block, label, stage, answer>>
      /\ UNCHANGED <<detector, reading>>
      /\ UNCHANGED <<consumedSeq, drainTo>>
      /\ reader' = "copy" => reader = "copy"
  BY DEF SignalReady, IngestWait, IngestDone, ReaderWait, ReaderIdle, vars, memory, ingestion, pickup
<1>2. Awaited' = Awaited
  BY <1>1 DEF SignalReady, IngestWait, IngestDone, ReaderWait, ReaderIdle, vars, Awaited, Written
<1>3. drainTo' <= publishSeq
  BY <1>1 DEF IInv, InOrder
<1>4. QED
  BY <1>1, <1>2, <1>3, Quiet

--------------------------------------------------------------------------------

LEMMA InitIInv == Init => IInv
<1> SUFFICES ASSUME Init PROVE IInv
  OBVIOUS
<1> USE RingAssumption DEF Init
<1>1. D!Pushed = {} /\ Awaited = {}
  BY DEF D!Init, D!Pushed, Awaited, Written
<1>2. TypeOK
  <2>1. \A r \in Slots : block[r] \in Blocks
    BY DEF Blocks, Fields
  <2>2. block \in [Slots -> Blocks]
    BY <2>1
  <2>3. /\ pixels \in [Slots -> Fields] /\ frameId \in [Slots -> Fields]
        /\ overlay \in [Slots -> Fields] /\ label \in [Batches -> Fields]
    BY DEF Fields
  <2>4. /\ publishSeq \in 0 .. MaxSeq /\ consumedSeq \in 0 .. MaxSeq /\ drainTo \in 0 .. MaxSeq
        /\ producer = "publish" => publishSeq < MaxSeq
    OBVIOUS
  <2>5. /\ inFlight \subseteq Batches /\ published \subseteq Batches
        /\ lost \subseteq Batches /\ refused \subseteq Batches /\ open = TRUE
    BY DEF D!Init
  <2>6. /\ reading \in Fields
        /\ reader = "copy" <=> reading # None
        /\ answer \in [Batches -> [frame : Fields, results : Fields, overlay : Fields] \union {None}]
    BY DEF Fields
  <2>7. /\ eventReady \in BOOLEAN /\ eventResults \in BOOLEAN
        /\ producer \in {"write", "publish", "signal"} /\ ingest \in {"wait", "load", "drain"}
        /\ reader \in {"wait", "scan", "copy"}
    OBVIOUS
  <2>8. stage \in [Batches -> {"none", "overlay", "header", "results", "state", "signal", "done"}]
    OBVIOUS
  <2> HIDE DEF Init
  <2>9. QED
    BY <2>2, <2>3, <2>4, <2>5, <2>6, <2>7, <2>8 DEF TypeOK
<1>3. Tenants /\ Owners /\ Content
  BY <1>1 DEF Tenants, Owners, Content
<1>4. Inside /\ InOrder
  BY <1>1 DEF Inside, InOrder, D!Init
<1>5. Once /\ ReadyBlocks /\ ReadBlock /\ AnswersWhole
  BY DEF Once, Writing, ReadyBlocks, ReadBlock, AnswersWhole, Whole, D!Init
<1>6. QED
  BY <1>2, <1>3, <1>4, <1>5 DEF IInv

\* The protocol of IPC_Shared.h, permits and cleared blocks included.
Protocol == Backpressure = TRUE /\ ReaderClears = TRUE

LEMMA NextIInv ==
    ASSUME Protocol
    PROVE  IInv /\ [Next]_vars => IInv'
<1> SUFFICES ASSUME IInv, [Next]_vars PROVE IInv'
  OBVIOUS
<1>1. TypeOK'
  BY TypeStep DEF IInv
<1>2. CASE Producer
  BY <1>1, <1>2, WriteBatchStep, PublishSeqStep, QuietStep DEF Producer, Protocol
<1>3. CASE Ingest
  BY <1>1, <1>3, IngestLoadStep, IngestPushStep, QuietStep DEF Ingest
<1>4. ASSUME NEW s \in Batches, PublishResult(s) \/ LoseBatch(s) PROVE IInv'
  BY <1>1, <1>4, CallSinkStep, WriteOverlayStep, WriteHeaderStep, WriteResultsStep,
     WriteStateStep, SignalStep, LoseStep DEF PublishResult
<1>5. CASE Reader
  BY <1>1, <1>5, ReaderFindStep, ReaderCopyStep, QuietStep DEF Reader, Protocol
<1>6. CASE UNCHANGED vars
  BY <1>1, <1>6, QuietStep
<1>7. QED
  BY <1>2, <1>3, <1>4, <1>5, <1>6 DEF Next

\* The inductive invariant holds in every reachable state.
THEOREM Invariance ==
    ASSUME Protocol
    PROVE  SafeSpec => []IInv
<1>1. Init => IInv
  BY InitIInv
<1>2. IInv /\ [Next]_vars => IInv'
  BY NextIInv
<1>3. QED
  BY <1>1, <1>2, PTL DEF SafeSpec

\* Every variable of the ring keeps its type.
THEOREM TypeCorrect ==
    ASSUME Protocol
    PROVE  SafeSpec => []TypeOK
<1>1. IInv => TypeOK
  BY DEF IInv
<1>2. QED
  BY <1>1, Invariance, PTL

\* pushBatch's zero-copy contract: no input slot is overwritten while the
\* worker may still read it, for any number of slots, threads and batches.
THEOREM ZeroCopy ==
    ASSUME Protocol
    PROVE  SafeSpec => []ZeroCopySafe
<1>1. IInv => ZeroCopySafe
  BY DEF IInv, Inside, Owners, ZeroCopySafe
<1>2. QED
  BY <1>1, Invariance, PTL

\* PublishResult may run on several post threads without a lock.
THEOREM LockFree ==
    ASSUME Protocol
    PROVE  SafeSpec => []DistinctSlots
<1>1. IInv => DistinctSlots
  <2>1. SUFFICES ASSUME IInv, NEW s \in Batches, NEW t \in Batches, s # t,
                        stage[s] \in Writing, stage[t] \in Writing
                 PROVE  OutSlot(s) # OutSlot(t)
    BY DEF DistinctSlots, Writing
  <2>2. QED
    BY <2>1, OnlyTenant
<1>2. QED
  BY <1>1, Invariance, PTL

--------------------------------------------------------------------------------
\* Counting: permits are per slot, so no more of them are out than slots.

LEMMA AwaitedFits ==
    ASSUME IInv, NEW S \in SUBSET Awaited
    PROVE  IsFiniteSet(S) /\ Cardinality(S) <= RingSlots
<1> DEFINE slot == [s \in S |-> InSlot(s)]
<1>1. IsFiniteSet(S)
  <2>1. IsFiniteSet(Batches)
    BY RingAssumption, FS_Interval DEF Batches
  <2>2. S \in SUBSET Batches
    BY AwaitedType DEF IInv
  <2>3. QED
    BY <2>1, <2>2, FS_Subset
<1>2. IsFiniteSet(Slots) /\ Cardinality(Slots) = RingSlots
  <2>1. RingSlots - 1 \in Int /\ ~(0 > RingSlots - 1)
    BY RingAssumption
  <2>2. Cardinality(Slots) = RingSlots - 1 - 0 + 1 /\ IsFiniteSet(Slots)
    BY <2>1, FS_Interval DEF Slots
  <2>3. QED
    BY <2>2, RingAssumption
<1>3. slot \in Injection(S, Slots)
  <2>1. \A s \in S : InSlot(s) \in Slots
    BY AwaitedType, BatchesAreNat, SlotType DEF IInv
  <2>2. \A s, t \in S : InSlot(s) = InSlot(t) => s = t
    BY DEF IInv, Tenants
  <2>3. QED
    BY <2>1, <2>2 DEF Injection, IsInjective
<1> HIDE DEF slot
<1>4. QED
  BY <1>1, <1>2, <1>3, FS_Injection

\* With permits the ingest thread is never lapped, and never ahead.
THEOREM NeverLapped ==
    ASSUME Protocol
    PROVE  SafeSpec => []NoLap
<1>1. IInv => NoLap
  <2>1. SUFFICES ASSUME IInv PROVE NoLap
    OBVIOUS
  <2> DEFINE S == consumedSeq .. publishSeq - 1
  <2>2. publishSeq \in Nat /\ consumedSeq \in Nat /\ consumedSeq <= publishSeq
    BY <2>1, RingAssumption DEF IInv, TypeOK, InOrder
  <2>3. Cardinality(S) <= RingSlots
    BY <2>1, AwaitedFits DEF IInv, Inside
  <2>4. Cardinality(S) = publishSeq - consumedSeq
    <3>1. Cardinality(S) = IF consumedSeq > publishSeq - 1
                           THEN 0 ELSE publishSeq - 1 - consumedSeq + 1
      BY <2>2, FS_Interval
    <3>2. QED
      BY <2>2, <3>1
  <2>5. QED
    BY <2>2, <2>3, <2>4, RingAssumption DEF NoLap
<1>2. QED
  BY <1>1, Invariance, PTL

\* If q_raw_ has a place for every slot of the ring, pushBatch takes every
\* batch: those inside and the one to push all hold a slot.
LEMMA RefusesNone ==
    ASSUME IInv, [Next]_vars, RingSlots <= RawCap
    PROVE  refused' = refused
<1>1. CASE IngestPush
  <2>1. SUFFICES ASSUME D!Refuse(consumedSeq) PROVE FALSE
    BY <1>1 DEF IngestPush, D!Accept
  <2> DEFINE S == inFlight \union {consumedSeq}
  <2>2. consumedSeq \notin inFlight /\ Cardinality(inFlight) >= RawCap
    BY <2>1 DEF D!Refuse, D!Pushed, D!Cardinality, D!IsFiniteSet, Cardinality, IsFiniteSet
  <2>3. S \in SUBSET Awaited
    <3>1. consumedSeq \in consumedSeq .. publishSeq - 1
      BY <1>1, RingAssumption DEF IInv, IngestPush, HasNext, InOrder, TypeOK
    <3>2. QED
      BY <3>1 DEF IInv, Inside
  <2>4. Cardinality(S) <= RingSlots /\ IsFiniteSet(inFlight)
    BY <2>3, AwaitedFits
  <2>5. Cardinality(S) = Cardinality(inFlight) + 1 /\ Cardinality(inFlight) \in Nat
    BY <2>2, <2>4, FS_AddElement, FS_CardinalityType
  <2>6. QED
    BY <2>2, <2>4, <2>5, RingAssumption
<1>2. CASE WriteBatch \/ PublishSeq \/ SignalReady
  BY <1>2 DEF WriteBatch, PublishSeq, SignalReady, detector
<1>3. CASE IngestWait \/ IngestLoad \/ IngestDone
  BY <1>3 DEF IngestWait, IngestLoad, IngestDone, detector
<1>4. ASSUME NEW s \in Batches, PublishResult(s) \/ LoseBatch(s) PROVE refused' = refused
  BY <1>4 DEF PublishResult, CallSink, WriteOverlay, WriteHeader, WriteResults, WriteState,
     SignalResults, LoseBatch, D!Publish, D!Lose, detector
<1>5. CASE Reader
  BY <1>5 DEF Reader, ReaderWait, ReaderFind, ReaderCopy, ReaderIdle, detector
<1>6. CASE UNCHANGED vars
  BY <1>6 DEF vars, detector
<1>7. QED
  BY <1>1, <1>2, <1>3, <1>4, <1>5, <1>6 DEF Next, Producer, Ingest

THEOREM NothingRefused ==
    ASSUME Protocol
    PROVE  SafeSpec => []NeverRefused
<1>1. Init => NeverRefused
  BY DEF Init, D!Init, NeverRefused
<1>2. IInv /\ NeverRefused /\ [Next]_vars => NeverRefused'
  BY RefusesNone DEF NeverRefused
<1>3. QED
  BY <1>1, <1>2, Invariance, PTL DEF SafeSpec

--------------------------------------------------------------------------------
\* The first time round the ring, for any reader.  No block has a flag of an
\* earlier tenant then, so nothing has to be cleared.

Early == {s \in Batches : s < RingSlots}

\* Until such a batch has been answered its slot has no other tenant.
FirstTenant ==
    \A s \in Early : answer[s] = None =>
        \A t \in Written : InSlot(t) = InSlot(s) => t = s

\* Its frame id stays, and what PublishResult has written for it; its block is
\* ready only when all of it is written.
FirstContent ==
    \A s \in Early : answer[s] = None =>
        /\ s \in Written => frameId[InSlot(s)] = s
        /\ s \in D!Pushed => label[s] = s
        /\ stage[s] \notin {"none", "overlay"} => overlay[OutSlot(s)] = s
        /\ stage[s] \notin {"none", "overlay", "header"} => block[OutSlot(s)].frame = s
        /\ stage[s] \notin {"none", "overlay", "header", "results"} =>
            block[OutSlot(s)].results = s
        /\ block[OutSlot(s)].state = "RESULT_READY" => stage[s] \in {"signal", "done"}

\* Only what was published is pushed, and only what was pushed is rendered.
Behind ==
    /\ consumedSeq <= publishSeq
    /\ drainTo <= publishSeq
    /\ D!Pushed \subseteq 0 .. consumedSeq - 1
    /\ \A s \in Batches : stage[s] # "none" => s \in D!Pushed

\* The reader copies a block once, and not before all of it is written.
FirstRead ==
    reader = "copy" =>
        /\ reading \in Awaited
        /\ reading \in Early => stage[reading] \in {"signal", "done"}

FInv ==
    /\ TypeOK
    /\ FirstTenant
    /\ FirstContent
    /\ Behind
    /\ FirstRead
    /\ \A s \in Early : answer[s] # None => Whole(s)

LEMMA FirstSlots == \A s \in Nat : s < RingSlots => InSlot(s) = s
BY RingAssumption DEF InSlot

LEMMA WrittenType == TypeOK => Written \subseteq Batches
BY RingAssumption DEF TypeOK, Written, Batches

\* What has a thread in PublishResult was written by the producer.
LEMMA RenderedWritten ==
    ASSUME TypeOK, Behind, NEW t \in Batches, stage[t] # "none"
    PROVE  t \in Written
<1>1. t \in 0 .. consumedSeq - 1
  BY DEF Behind
<1>2. t \in Nat /\ t <= publishSeq - 1 /\ publishSeq \in Nat /\ consumedSeq \in Nat
  BY <1>1, RingAssumption DEF Behind, TypeOK
<1>3. QED
  BY <1>2 DEF Written

\* So it does not share the slot of a batch of the first lap.
LEMMA FirstOwn ==
    ASSUME FInv, NEW s \in Early, answer[s] = None, NEW t \in Written, t # s
    PROVE  OutSlot(t) # OutSlot(s)
BY SlotType, BatchesAreNat, WrittenType DEF FInv, FirstTenant, Early

\* A step that leaves rings and batches alone keeps everything.
LEMMA FirstQuiet ==
    ASSUME FInv, TypeOK',
           UNCHANGED <<publishSeq, frameId, overlay, block, label, stage, answer, detector>>,
           Written' = Written,
           consumedSeq' = consumedSeq, drainTo' <= publishSeq,
           reader' = reader \/ (reader # "copy" /\ reader' # "copy"), reading' = reading
    PROVE  FInv'
<1> USE DEF FInv
<1>1. FirstTenant' /\ FirstContent'
  BY DEF FirstTenant, FirstContent, detector, D!Pushed, Early, Batches, InSlot, OutSlot
<1>2. Behind'
  BY DEF Behind, detector, D!Pushed
<1>3. FirstRead'
  BY DEF FirstRead, Awaited
<1>4. \A s \in Early : answer'[s] # None => Whole(s)'
  BY DEF Whole
<1>5. QED
  BY <1>1, <1>2, <1>3, <1>4

\* The producer's next batch does not come into the slot of an unanswered one.
LEMMA FirstWriteBatch ==
    ASSUME FInv, TypeOK', Backpressure = TRUE, WriteBatch
    PROVE  FInv'
<1> DEFINE n == publishSeq
<1> USE DEF FInv
<1>1. n \in Nat /\ n \in Batches /\ n \notin Written /\ Written' = Written \union {n}
      /\ InSlot(n) \in Slots
  BY RingAssumption, SlotType DEF WriteBatch, TypeOK, Batches, Written
<1>2. UNCHANGED <<publishSeq, overlay, block, consumedSeq, drainTo, label, stage, inFlight,
                  published, lost, refused, reader, reading, answer>>
      /\ frameId' = [frameId EXCEPT ![InSlot(n)] = n]
  BY DEF WriteBatch, ingestion, detector, pickup
<1>3. n \notin D!Pushed
  BY <1>1 DEF Behind, TypeOK
<1>4. \A s \in Early : answer[s] = None /\ s # n => InSlot(n) # InSlot(s)
  <2>1. SUFFICES ASSUME NEW s \in Early, answer[s] = None, s # n
                 PROVE  InSlot(n) # InSlot(s)
    OBVIOUS
  <2>2. CASE s \in Written
    BY <2>1, <2>2 DEF WriteBatch, SlotFree, Awaited
  <2>3. CASE s \notin Written
    <3>1. s \in Nat /\ s > n /\ s < RingSlots
      BY <2>1, <2>3, <1>1, BatchesAreNat DEF Early, Written, WriteBatch
    <3>2. InSlot(s) = s /\ InSlot(n) = n
      BY <3>1, <1>1, FirstSlots, RingAssumption
    <3>3. QED
      BY <3>2, <2>1
  <2>4. QED
    BY <2>2, <2>3
<1>5. \A s \in Early : InSlot(s) \in Slots /\ s \in Batches
  BY BatchesAreNat, SlotType DEF Early
<1> HIDE DEF n
<1>6. FirstTenant'
  <2>1. SUFFICES ASSUME NEW s \in Early, answer[s] = None,
                        NEW t \in Written \union {n}, InSlot(t) = InSlot(s)
                 PROVE  t = s
    BY <1>1, <1>2 DEF FirstTenant, Early, Batches, InSlot
  <2>2. QED
    BY <2>1, <1>4 DEF FirstTenant
<1>7. FirstContent'
  <2>1. \A s \in Early : answer[s] = None /\ s \in Written \union {n} => frameId'[InSlot(s)] = s
    BY <1>2, <1>4, <1>5 DEF FirstContent, TypeOK
  <2>2. D!Pushed' = D!Pushed
    BY <1>2 DEF D!Pushed
  <2>3. QED
    BY <1>1, <1>2, <2>1, <2>2 DEF FirstContent, OutSlot, InSlot, Early, Batches
<1>8. Behind'
  BY <1>2 DEF Behind, D!Pushed
<1>9. FirstRead'
  BY <1>1, <1>2 DEF FirstRead, Awaited
<1>10. \A s \in Early : answer'[s] # None => Whole(s)'
  BY <1>2 DEF Whole
<1>11. QED
  BY <1>6, <1>7, <1>8, <1>9, <1>10

LEMMA FirstPublishSeq ==
    ASSUME FInv, TypeOK', PublishSeq
    PROVE  FInv'
<1> USE DEF FInv
<1>1. Written' = Written
  BY RingAssumption DEF Written, PublishSeq, TypeOK
<1>2. UNCHANGED <<frameId, overlay, block, consumedSeq, drainTo, label, stage, inFlight,
                  published, lost, refused, reader, reading, answer>>
      /\ publishSeq' = publishSeq + 1
  BY DEF PublishSeq, ingestion, detector, pickup
<1>3. FirstTenant' /\ FirstContent'
  BY <1>1, <1>2 DEF FirstTenant, FirstContent, D!Pushed, Early, Batches, InSlot, OutSlot
<1>4. Behind'
  BY <1>2 DEF Behind, D!Pushed, TypeOK
<1>5. FirstRead' /\ (\A s \in Early : answer'[s] # None => Whole(s)')
  BY <1>1, <1>2 DEF FirstRead, Awaited, Whole
<1>6. QED
  BY <1>3, <1>4, <1>5

LEMMA FirstLoad ==
    ASSUME FInv, TypeOK', IngestLoad
    PROVE  FInv'
<1> USE DEF FInv
<1>1. UNCHANGED <<publishSeq, producer, frameId, overlay, block, label, stage, inFlight,
                  published, lost, refused, reader, reading, answer>>
  BY DEF IngestLoad, memory, detector, pickup
<1>2. /\ publishSeq \in Nat /\ drainTo' = publishSeq
      /\ consumedSeq \in Nat /\ consumedSeq' \in Nat
      /\ consumedSeq <= consumedSeq' /\ consumedSeq' <= publishSeq
  BY RingAssumption DEF IngestLoad, Behind, TypeOK
<1>3. Written' = Written /\ D!Pushed' = D!Pushed
  BY <1>1 DEF Written, D!Pushed
<1>4. FirstTenant' /\ FirstContent'
  BY <1>1, <1>3 DEF FirstTenant, FirstContent, Early, Batches, InSlot, OutSlot
<1>5. Behind'
  <2>1. 0 .. consumedSeq - 1 \subseteq 0 .. consumedSeq' - 1
    BY <1>2, LongerPrefix
  <2>2. D!Pushed' \subseteq 0 .. consumedSeq' - 1
    BY <1>3, <2>1 DEF Behind
  <2>3. consumedSeq' <= publishSeq' /\ drainTo' <= publishSeq'
    BY <1>1, <1>2
  <2>4. \A s \in Batches : stage'[s] # "none" => s \in D!Pushed'
    BY <1>1, <1>3 DEF Behind
  <2>5. QED
    BY <2>2, <2>3, <2>4 DEF Behind
<1>6. FirstRead' /\ (\A s \in Early : answer'[s] # None => Whole(s)')
  BY <1>1, <1>3 DEF FirstRead, Awaited, Whole
<1>7. QED
  BY <1>4, <1>5, <1>6

\* The header of the batch to push is still its own.
LEMMA FirstPush ==
    ASSUME FInv, TypeOK', IngestPush
    PROVE  FInv'
<1> DEFINE c == consumedSeq
<1> USE DEF FInv
<1>1. c \in Nat /\ c < publishSeq /\ publishSeq \in Nat /\ c \in Batches /\ c \in Written
  BY RingAssumption DEF IngestPush, HasNext, Behind, TypeOK, Batches, Written
<1>2. UNCHANGED <<publishSeq, producer, frameId, overlay, block, stage, drainTo,
                  reader, reading, answer>> /\ consumedSeq' = c + 1
  BY DEF IngestPush, memory, pickup
<1>3. D!Pushed' = D!Pushed \union {c}
  BY DEF IngestPush, D!Accept, D!Refuse, D!Pushed
<1>4. label' = [label EXCEPT ![c] = frameId[InSlot(c)]]
  BY DEF IngestPush
<1>5. Written' = Written
  BY <1>2 DEF Written
<1>6. c \notin D!Pushed
  BY <1>1 DEF Behind
<1>7. c \in Early /\ answer[c] = None => label'[c] = c
  BY <1>1, <1>4 DEF FirstContent, TypeOK
<1>8. \A s \in Batches : s # c => label'[s] = label[s]
  BY <1>4 DEF TypeOK
<1> HIDE DEF c
<1>9. FirstTenant'
  BY <1>2, <1>5 DEF FirstTenant, Early, Batches, InSlot
<1>10. FirstContent'
  <2>1. \A s \in Early : answer[s] = None /\ s \in D!Pushed' => label'[s] = s
    BY <1>3, <1>7, <1>8 DEF FirstContent, Early
  <2>2. QED
    BY <1>2, <1>5, <2>1 DEF FirstContent, Early, Batches, InSlot, OutSlot
<1>11. Behind'
  <2>1. D!Pushed' \subseteq 0 .. consumedSeq' - 1
    BY <1>1, <1>2, <1>3 DEF Behind, c
  <2>2. consumedSeq' <= publishSeq'
    BY <1>1, <1>2
  <2>3. QED
    BY <1>2, <1>3, <2>1, <2>2 DEF Behind
<1>12. FirstRead' /\ (\A s \in Early : answer'[s] # None => Whole(s)')
  BY <1>2, <1>5 DEF FirstRead, Awaited, Whole
<1>13. QED
  BY <1>9, <1>10, <1>11, <1>12

\* A step of PublishResult writes only into its own slot, which is no one
\* else's; what it writes for its own batch is a matter of that step.
LEMMA FirstPublish ==
    ASSUME FInv, TypeOK', NEW s \in Batches, s \in D!Pushed,
           stage[s] \in {"signal", "done"} => stage'[s] \in {"signal", "done"},
           \A t \in Batches : t # s => stage'[t] = stage[t],
           \A r \in Slots : r # OutSlot(s) => overlay'[r] = overlay[r] /\ block'[r] = block[r],
           s \in Early /\ answer[s] = None =>
               /\ stage'[s] \notin {"none", "overlay"} => overlay'[OutSlot(s)] = s
               /\ stage'[s] \notin {"none", "overlay", "header"} => block'[OutSlot(s)].frame = s
               /\ stage'[s] \notin {"none", "overlay", "header", "results"} =>
                   block'[OutSlot(s)].results = s
               /\ block'[OutSlot(s)].state = "RESULT_READY" => stage'[s] \in {"signal", "done"},
           D!Pushed' = D!Pushed,
           UNCHANGED <<publishSeq, producer, frameId, label, ingestion, pickup>>
    PROVE  FInv'
<1> USE DEF FInv
<1>1. Written' = Written
  BY DEF Written
<1>2. s \in Written
  <2>1. s \in Nat /\ s <= publishSeq - 1 /\ publishSeq \in Nat
    BY RingAssumption DEF Behind, TypeOK
  <2>2. QED
    BY <2>1 DEF Written
<1>3. answer' = answer /\ reader' = reader /\ reading' = reading
      /\ consumedSeq' = consumedSeq /\ drainTo' = drainTo
  BY DEF pickup, ingestion
<1>4. FirstTenant'
  BY <1>1, <1>3 DEF FirstTenant, Early, Batches, InSlot
<1>5. FirstContent'
  <2>1. SUFFICES ASSUME NEW t \in Early, answer[t] = None
                 PROVE
                   /\ t \in Written => frameId[InSlot(t)] = t
                   /\ t \in D!Pushed => label[t] = t
                   /\ stage'[t] \notin {"none", "overlay"} => overlay'[OutSlot(t)] = t
                   /\ stage'[t] \notin {"none", "overlay", "header"} =>
                       block'[OutSlot(t)].frame = t
                   /\ stage'[t] \notin {"none", "overlay", "header", "results"} =>
                       block'[OutSlot(t)].results = t
                   /\ block'[OutSlot(t)].state = "RESULT_READY" => stage'[t] \in {"signal", "done"}
    BY <1>1, <1>3 DEF FirstContent, Early, Batches, InSlot, OutSlot
  <2>2. CASE t = s
    BY <2>1, <2>2 DEF FirstContent
  <2>3. CASE t # s
    <3>1. OutSlot(t) # OutSlot(s)
      BY ONLY <2>1, <2>3, <1>2, FirstOwn, FInv
    <3>2. OutSlot(t) \in Slots /\ t \in Batches
      BY SlotType, BatchesAreNat DEF Early
    <3>3. /\ overlay'[OutSlot(t)] = overlay[OutSlot(t)]
          /\ block'[OutSlot(t)] = block[OutSlot(t)] /\ stage'[t] = stage[t]
      BY <2>3, <3>1, <3>2
    <3>4. QED
      BY <2>1, <3>3 DEF FirstContent
  <2>4. QED
    BY <2>2, <2>3
<1>6. Behind'
  BY <1>3 DEF Behind
<1>7. FirstRead'
  BY <1>1, <1>3, BatchesAreNat DEF FirstRead, Awaited, Early, Batches
<1>8. \A t \in Early : answer'[t] # None => Whole(t)'
  BY <1>3 DEF Whole
<1>9. QED
  BY <1>4, <1>5, <1>6, <1>7, <1>8

\* Each step of PublishResult, until the flag, is for a batch that is not ready.
LEMMA FirstPublishSteps ==
    ASSUME FInv, TypeOK', NEW s \in Batches, PublishResult(s)
    PROVE  FInv'
<1> USE DEF FInv
<1>1. OutSlot(s) \in Slots
  BY SlotType, BatchesAreNat
<1>2. s \in D!Pushed
  BY DEF PublishResult, CallSink, WriteOverlay, WriteHeader, WriteResults, WriteState,
         SignalResults, PublishStep, Behind, D!Pushed
<1>3. UNCHANGED <<publishSeq, producer, frameId, label, ingestion, pickup>>
  BY DEF PublishResult, CallSink, WriteOverlay, WriteHeader, WriteResults, WriteState,
         SignalResults, PublishStep, memory
<1>4. D!Pushed' = D!Pushed
  BY DEF PublishResult, CallSink, WriteOverlay, WriteHeader, WriteResults, WriteState,
         SignalResults, detector, D!Publish, D!Pushed
<1>5. CASE CallSink(s)
  <2>1. overlay' = overlay /\ block' = block /\ stage[s] = "none" /\ stage'[s] = "overlay"
        /\ \A t \in Batches : t # s => stage'[t] = stage[t]
    BY <1>5 DEF CallSink, memory, TypeOK
  <2>2. QED
    BY <1>2, <1>3, <1>4, <2>1, FirstPublish DEF FirstContent
<1>6. CASE WriteOverlay(s)
  <2>1. /\ block' = block /\ stage[s] = "overlay" /\ stage'[s] = "header"
        /\ \A t \in Batches : t # s => stage'[t] = stage[t]
        /\ overlay'[OutSlot(s)] = s
        /\ \A r \in Slots : r # OutSlot(s) => overlay'[r] = overlay[r]
    BY <1>1, <1>6 DEF WriteOverlay, PublishStep, NextStage, TypeOK
  <2>2. QED
    BY <1>2, <1>3, <1>4, <2>1, FirstPublish DEF FirstContent
<1>7. CASE WriteHeader(s)
  <2>1. /\ overlay' = overlay /\ stage[s] = "header" /\ stage'[s] = "results"
        /\ \A t \in Batches : t # s => stage'[t] = stage[t]
        /\ block'[OutSlot(s)].frame = label[s] /\ block'[OutSlot(s)].state = block[OutSlot(s)].state
        /\ \A r \in Slots : r # OutSlot(s) => block'[r] = block[r]
    BY <1>1, <1>7 DEF WriteHeader, PublishStep, NextStage, TypeOK, Blocks
  <2>2. QED
    BY <1>2, <1>3, <1>4, <2>1, FirstPublish DEF FirstContent
<1>8. CASE WriteResults(s)
  <2>1. /\ overlay' = overlay /\ stage[s] = "results" /\ stage'[s] = "state"
        /\ \A t \in Batches : t # s => stage'[t] = stage[t]
        /\ block'[OutSlot(s)].results = s
        /\ block'[OutSlot(s)].frame = block[OutSlot(s)].frame
        /\ block'[OutSlot(s)].state = block[OutSlot(s)].state
        /\ \A r \in Slots : r # OutSlot(s) => block'[r] = block[r]
    BY <1>1, <1>8 DEF WriteResults, PublishStep, NextStage, TypeOK, Blocks
  <2>2. QED
    BY <1>2, <1>3, <1>4, <2>1, FirstPublish DEF FirstContent
<1>9. CASE WriteState(s)
  <2>1. /\ overlay' = overlay /\ stage[s] = "state" /\ stage'[s] = "signal"
        /\ \A t \in Batches : t # s => stage'[t] = stage[t]
        /\ block'[OutSlot(s)].results = block[OutSlot(s)].results
        /\ block'[OutSlot(s)].frame = block[OutSlot(s)].frame
        /\ \A r \in Slots : r # OutSlot(s) => block'[r] = block[r]
    BY <1>1, <1>9 DEF WriteState, PublishStep, NextStage, TypeOK, Blocks
  <2>2. QED
    BY <1>2, <1>3, <1>4, <2>1, FirstPublish DEF FirstContent
<1>10. CASE SignalResults(s)
  <2>1. /\ overlay' = overlay /\ block' = block
        /\ stage[s] = "signal" /\ stage'[s] = "done"
        /\ \A t \in Batches : t # s => stage'[t] = stage[t]
    BY <1>10 DEF SignalResults, PublishStep, NextStage, TypeOK
  <2>2. QED
    BY <1>2, <1>3, <1>4, <2>1, FirstPublish DEF FirstContent
<1>11. QED
  BY <1>5, <1>6, <1>7, <1>8, <1>9, <1>10 DEF PublishResult

LEMMA FirstLose ==
    ASSUME FInv, TypeOK', NEW s \in Batches, LoseBatch(s)
    PROVE  FInv'
<1>1. D!Pushed' = D!Pushed
  BY DEF LoseBatch, D!Lose, D!Pushed
<1>2. s \in D!Pushed /\ UNCHANGED <<publishSeq, producer, frameId, overlay, block, label, stage,
                                   ingestion, pickup>>
  BY DEF LoseBatch, D!Lose, D!Pushed, memory
<1>3. QED
  BY <1>1, <1>2, FirstPublish DEF FInv, FirstContent

LEMMA FirstFind ==
    ASSUME FInv, TypeOK', NEW s \in Batches, ReaderFind(s)
    PROVE  FInv'
<1> USE DEF FInv
<1>1. UNCHANGED <<publishSeq, producer, frameId, overlay, block, consumedSeq, drainTo, label,
                  stage, inFlight, published, lost, refused, answer>>
      /\ reading' = s
  BY DEF ReaderFind, memory, ingestion, detector
<1>2. Written' = Written /\ Awaited' = Awaited /\ D!Pushed' = D!Pushed
  BY <1>1 DEF Written, Awaited, D!Pushed
<1>3. s \in Awaited /\ answer[s] = None
  BY DEF ReaderFind, Awaited
<1>4. s \in Early => stage[s] \in {"signal", "done"}
  BY <1>3 DEF FirstContent, ReaderFind, IsReady
<1>5. FirstTenant' /\ FirstContent'
  BY <1>1, <1>2 DEF FirstTenant, FirstContent, Early, Batches, InSlot, OutSlot
<1>6. Behind'
  BY <1>1, <1>2 DEF Behind
<1>7. FirstRead'
  BY <1>1, <1>2, <1>3, <1>4 DEF FirstRead, Early, Batches
<1>8. \A t \in Early : answer'[t] # None => Whole(t)'
  BY <1>1 DEF Whole
<1>9. QED
  BY <1>5, <1>6, <1>7, <1>8

\* Clearing the block, or not, concerns no other batch of the first lap.
LEMMA FirstCopy ==
    ASSUME FInv, TypeOK', ReaderCopy
    PROVE  FInv'
<1> DEFINE q == reading
           r == OutSlot(reading)
           copied == [frame |-> block[r].frame, results |-> block[r].results, overlay |-> overlay[r]]
<1> USE DEF FInv
<1>1. q \in Awaited /\ q \in Written /\ q \in Batches /\ answer[q] = None /\ r \in Slots
      /\ (q \in Early => stage[q] \in {"signal", "done"})
  BY AwaitedType, BatchesAreNat, SlotType DEF ReaderCopy, FirstRead, Awaited
<1>2. UNCHANGED <<publishSeq, producer, frameId, overlay, consumedSeq, drainTo, label, stage,
                  inFlight, published, lost, refused>>
      /\ reader' = "scan" /\ answer' = [answer EXCEPT ![q] = copied]
  BY DEF ReaderCopy, ingestion, detector
<1>3. \A p \in Slots : p # r => block'[p] = block[p]
  BY DEF ReaderCopy, TypeOK
<1>4. Written' = Written /\ D!Pushed' = D!Pushed
  BY <1>2 DEF Written, D!Pushed
<1>5. \A s \in Batches : s # q => answer'[s] = answer[s]
  BY <1>2 DEF TypeOK
<1>6. answer'[q] = copied
  BY <1>1, <1>2 DEF TypeOK
<1>7. q \in Early => answer'[q] = [frame |-> q, results |-> q, overlay |-> q] /\ answer'[q] # None
  <2>1. q \in Early => answer'[q] = [frame |-> q, results |-> q, overlay |-> q]
    BY <1>1, <1>6 DEF FirstContent
  <2>2. q \in Nat
    BY <1>1, BatchesAreNat
  <2>3. [frame |-> q, results |-> q, overlay |-> q] # None
    BY <2>2, NoneAssumption
  <2>4. QED
    BY <2>1, <2>3
<1>8. \A s \in Early : answer'[s] = None =>
          s # q /\ answer[s] = None /\ OutSlot(s) # r /\ OutSlot(s) \in Slots
  <2>1. SUFFICES ASSUME NEW s \in Early, answer'[s] = None
                 PROVE  s # q /\ answer[s] = None /\ OutSlot(s) # r /\ OutSlot(s) \in Slots
    OBVIOUS
  <2>2. s # q /\ answer[s] = None
    BY <1>5, <1>7, <2>1 DEF Early
  <2>3. OutSlot(q) # OutSlot(s)
    BY ONLY <1>1, <2>1, <2>2, FirstOwn, FInv
  <2>4. OutSlot(s) \in Slots
    BY SlotType, BatchesAreNat DEF Early
  <2>5. QED
    BY <2>2, <2>3, <2>4
<1> HIDE DEF q, r, copied
<1>9. FirstTenant'
  BY <1>4, <1>8 DEF FirstTenant, Early, Batches, InSlot
<1>10. FirstContent'
  BY <1>2, <1>3, <1>4, <1>8 DEF FirstContent, Early, Batches, InSlot, OutSlot
<1>11. Behind'
  BY <1>2, <1>4 DEF Behind
<1>12. FirstRead'
  BY <1>2 DEF FirstRead
<1>13. \A s \in Early : answer'[s] # None => Whole(s)'
  BY <1>5, <1>7 DEF Whole, Early
<1>14. QED
  BY <1>9, <1>10, <1>11, <1>12, <1>13

LEMMA InitFInv == Init => FInv
<1> SUFFICES ASSUME Init PROVE FInv
  OBVIOUS
<1>1. TypeOK
  BY InitIInv DEF IInv
<1>2. Written = {} /\ Awaited = {} /\ D!Pushed = {}
  BY DEF Init, D!Init, D!Pushed, Written, Awaited
<1>3. FirstTenant /\ FirstContent
  <2>1. \A s \in Early : s \in Batches /\ OutSlot(s) \in Slots
    BY SlotType, BatchesAreNat DEF Early
  <2>2. QED
    BY <1>2, <2>1 DEF FirstTenant, FirstContent, Init
<1>4. Behind /\ FirstRead
  BY <1>2 DEF Behind, FirstRead, Init
<1>5. \A s \in Early : answer[s] = None
  BY DEF Init, Early
<1>6. QED
  BY <1>1, <1>3, <1>4, <1>5 DEF FInv

LEMMA NextFInv ==
    ASSUME Backpressure = TRUE
    PROVE  FInv /\ [Next]_vars => FInv'
<1> SUFFICES ASSUME FInv, [Next]_vars PROVE FInv'
  OBVIOUS
<1>1. TypeOK'
  BY TypeStep DEF FInv
<1>2. CASE WriteBatch \/ PublishSeq
  BY <1>1, <1>2, FirstWriteBatch, FirstPublishSeq
<1>3. CASE IngestLoad \/ IngestPush
  BY <1>1, <1>3, FirstLoad, FirstPush
<1>4. ASSUME NEW s \in Batches, PublishResult(s) \/ LoseBatch(s) PROVE FInv'
  BY <1>1, <1>4, FirstPublishSteps, FirstLose
<1>5. CASE ReaderCopy \/ \E s \in Batches : ReaderFind(s)
  BY <1>1, <1>5, FirstCopy, FirstFind
<1>6. CASE SignalReady \/ IngestWait \/ IngestDone \/ ReaderWait \/ ReaderIdle \/ UNCHANGED vars
  <2>1. /\ UNCHANGED <<publishSeq, frameId, overlay, block, label, stage, answer, detector>>
        /\ UNCHANGED <<consumedSeq, drainTo, reading>>
    BY <1>6 DEF SignalReady, IngestWait, IngestDone, ReaderWait, ReaderIdle, vars, memory,
                ingestion, pickup
  <2>2. Written' = Written
    BY <1>6 DEF SignalReady, IngestWait, IngestDone, ReaderWait, ReaderIdle, vars, memory, Written
  <2>3. reader' = reader \/ (reader # "copy" /\ reader' # "copy")
    BY <1>6 DEF SignalReady, IngestWait, IngestDone, ReaderWait, ReaderIdle, vars, pickup
  <2>4. drainTo' <= publishSeq
    BY <2>1 DEF FInv, Behind
  <2>5. QED
    BY <1>1, <2>1, <2>2, <2>3, <2>4, FirstQuiet
<1>7. QED
  BY <1>2, <1>3, <1>4, <1>5, <1>6 DEF Next, Producer, Ingest, Reader

\* An answer is whole for a reader that clears what it has copied; for any
\* other reader the answers of the first lap are.
THEOREM WholeAnswers ==
    ASSUME Backpressure = TRUE
    PROVE  SafeSpec => []AnswersTrusted
<1>1. SafeSpec => []FInv
  <2>1. Init => FInv
    BY InitFInv
  <2>2. FInv /\ [Next]_vars => FInv'
    BY NextFInv
  <2>3. QED
    BY <2>1, <2>2, PTL DEF SafeSpec
<1>2. CASE ReaderClears = TRUE
  <2>1. SafeSpec => []IInv
    BY <1>2, Invariance DEF Protocol
  <2>2. IInv => AnswersTrusted
    BY DEF IInv, AnswersWhole, AnswersTrusted
  <2>3. QED
    BY <2>1, <2>2, PTL
<1>3. CASE ReaderClears = FALSE
  <2>1. FInv => AnswersTrusted
    BY <1>3 DEF FInv, AnswersTrusted, Early
  <2>2. QED
    BY <1>1, <2>1, PTL
<1>4. QED
  BY <1>2, <1>3, RingAssumption
================================================================================
