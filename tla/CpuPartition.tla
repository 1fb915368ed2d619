----------------------------- MODULE CpuPartition -----------------------------
(***************************************************************************)
(* How RealTimeConfig.cpp divides the physical cores among the workers of   *)
(* a configuration.  A core is the set of its logical processors; what is      *)
(* divided is one logical processor of each core the process may use.       *)
(***************************************************************************)
EXTENDS Integers, SequencesExt

(* Of every core of the topology that meets the process mask, its first    *)
(* allowed logical processor, in ascending order.                           *)
AvailableComputeCores(topology, mask) ==
  SetToSortSeq({Min(c \cap mask) : c \in {d \in topology : d \cap mask # {}}}, <)

(* The first available core is kept for the system, if there is another.    *)
ComputeCores(cores) == IF Len(cores) > 1 THEN Tail(cores) ELSE cores

Unpinned == [logicalProcessors |-> << >>, shared |-> FALSE]

Wrapped(workerIndex, workerCount, compute) ==
  [logicalProcessors |-> << compute[(workerIndex % Len(compute)) + 1] >>,
   shared |-> workerCount > Len(compute)]

(* The variant does not move a slice past the longer ones before it.        *)
BeginEven(workerIndex, workerCount, available) == workerIndex * (available \div workerCount)

(* Contiguous slices; the first workers get the remaining cores.            *)
Begin(workerIndex, workerCount, available) ==
  workerIndex * (available \div workerCount) + Min({workerIndex, available % workerCount})

Count(workerIndex, workerCount, available) ==
  available \div workerCount + (IF workerIndex < available % workerCount THEN 1 ELSE 0)

Slice(workerIndex, workerCount, compute) ==
  LET begin == Begin(workerIndex, workerCount, Len(compute))
  IN  [logicalProcessors |->
         SubSeq(compute, begin + 1, begin + Count(workerIndex, workerCount, Len(compute))),
       shared |-> FALSE]

(* affinity is FALSE in a build with RT_DISABLE_AFFINITY.                   *)
ComputeCpuPartition(affinity, workerIndex, workerCount, cores) ==
  LET compute == ComputeCores(cores)
  IN  IF ~affinity THEN Unpinned
      ELSE IF workerCount >= Len(compute) THEN Wrapped(workerIndex, workerCount, compute)
      ELSE Slice(workerIndex, workerCount, compute)
=============================================================================
