-------------------------------- MODULE Layout --------------------------------
(***************************************************************************)
(* The sizes and offsets of IPC_Shared.h, which both processes compute from *)
(* the control point.  cp has batchSize, ringSlots and imageBytes (what     *)
(* IpcImageBytes returns); sizes are in a unit that divides a page.         *)
(***************************************************************************)
EXTENDS Integers, FiniteSetsExt
CONSTANTS kMaxRingSlots, HeaderBytes, BlockBytes, DwordValues
ASSUME SizesAssumption ==
  {HeaderBytes, BlockBytes} \subseteq Nat /\ {kMaxRingSlots, DwordValues} \subseteq Nat \ {0}

IpcRingSlots(cp) == Min({Max({cp.ringSlots, 1}), kMaxRingSlots})

IpcOverlayBatchBytes(cp) == cp.batchSize * cp.imageBytes
IpcInputSlotOffset(cp, slot) == HeaderBytes + slot * cp.batchSize * cp.imageBytes
IpcResultImageSlotOffset(cp, slot) == slot * IpcOverlayBatchBytes(cp)
BlockOffset(slot) == slot * BlockBytes

(* The variant forgets the header in front of the slots.                    *)
IpcInputMmfBytesBare(cp) == IpcRingSlots(cp) * cp.batchSize * cp.imageBytes

(* The bytes of the three mappings.                                         *)
IpcInputMmfBytes(cp) == HeaderBytes + IpcRingSlots(cp) * cp.batchSize * cp.imageBytes
IpcResultImageMmfBytes(cp) == IpcRingSlots(cp) * IpcOverlayBatchBytes(cp)
IpcResultBlockMmfBytes(cp) == IpcRingSlots(cp) * BlockBytes

MappingBytes(cp) == [image    |-> IpcInputMmfBytes(cp),
                     resImage |-> IpcResultImageMmfBytes(cp),
                     result   |-> IpcResultBlockMmfBytes(cp)]

(* CreateFileMapping is given a size as two DWORDs.                         *)
CreateSharedMapping(bytes) ==
  LET hi == (bytes \div DwordValues) % DwordValues
      lo == bytes % DwordValues
  IN  hi * DwordValues + lo

Between(from, bytes) == from .. from + bytes - 1

(* What one batch uses of each mapping: pushBatch reads the images of its   *)
(* slot, PublishResult writes the overlays and the block; batchInputHeader  *)
(* is in front of the input slots.                                          *)
Touched(cp, slot) ==
  [image    |-> Between(IpcInputSlotOffset(cp, slot), cp.batchSize * cp.imageBytes),
   resImage |-> Between(IpcResultImageSlotOffset(cp, slot), cp.imageBytes * cp.batchSize),
   result   |-> Between(BlockOffset(slot), BlockBytes)]
=============================================================================
