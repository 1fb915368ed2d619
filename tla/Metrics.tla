-------------------------------- MODULE Metrics --------------------------------
(***************************************************************************)
(* PerformanceMetrics: one rolling window per measured stage, each under a  *)
(* mutex of its own, and the summary a post thread prints after every       *)
(* kWindow-th batch it counts.  A measurement is the batch it was taken of. *)
(*                                                                          *)
(* Every action leaves to its caller what it does not mention.              *)
(***************************************************************************)
EXTENDS Naturals, Sequences

CONSTANTS kWindow,  \* places of a window, and batches per summary
          Fields,   \* the measured stages
          Printers, \* the post threads
          None

VARIABLES field,     \* per stage, its RollingField
          measured,  \* per stage, all that was ever added (history)
          completedBatches,
          number,    \* per post thread, the n its batch got
          summaries  \* the numbers under which summaries were printed, in order

Init ==
    /\ field = [f \in Fields |-> [buf |-> [i \in 0 .. kWindow - 1 |-> None], next |-> 0, count |-> 0]]
    /\ measured = [f \in Fields |-> <<>>]
    /\ completedBatches = 0
    /\ number = [t \in Printers |-> 0]
    /\ summaries = <<>>

NextPlace(i) == (i + 1) % kWindow

Add(f, b) ==
    /\ field' = [field EXCEPT
            ![f].buf[field[f].next] = b,
            ![f].next = NextPlace(@),
            ![f].count = IF @ < kWindow THEN @ + 1 ELSE @]
    /\ measured' = [measured EXCEPT ![f] = Append(@, b)]

\* What average() sums up.
Averaged(f) == {field[f].buf[i] : i \in 0 .. field[f].count - 1}

\* The variant takes the number before it counts.
CountLate(t) ==
    /\ number' = [number EXCEPT ![t] = completedBatches]
    /\ completedBatches' = completedBatches + 1

\* n = ++completedBatches_
Count(t) ==
    /\ completedBatches' = completedBatches + 1
    /\ number' = [number EXCEPT ![t] = completedBatches']

Summarize(t) ==
    /\ summaries' = IF number[t] % kWindow = 0 THEN Append(summaries, number[t]) ELSE summaries
    /\ number' = [number EXCEPT ![t] = 0]
================================================================================
