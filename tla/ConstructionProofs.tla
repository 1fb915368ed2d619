--------------------------- MODULE ConstructionProofs ---------------------------
(***************************************************************************)
(* Proofs about Construction for every machine, every build and every       *)
(* control point: the shares of the cores, the options of the sessions, the *)
(* sizes of the sections, the rows of the resize tables, and the order in   *)
(* which resources are acquired and released.                               *)
(*                                                                          *)
(* The first four are computed at one step of a constructor and relied on   *)
(* later, so IInv says what a step has left behind: nothing of an earlier   *)
(* worker, views that fit into their sections, options and a row as         *)
(* computed for this configuration.  The rest is about the operators.       *)
(*                                                                          *)
(* For the order, OInv says that todo and release are what is left of       *)
(* Program and of Members or Destructor, and relates held, freed and leaks  *)
(* to the steps that are past; the rest is about the place of each step in  *)
(* these sequences, for any number of sessions.                             *)
(***************************************************************************)
EXTENDS Construction, SequenceTheorems, TLAPS

\* What is left when a worker is gone.
NothingHeld == status = "none" => held = {}

\* A view is as long as the section was when it was mapped.
ViewsFit ==
    /\ size \in [Sections -> Nat]
    /\ \A v \in DOMAIN ViewOf : << v, 0 >> \in held => MappingBytes(cfg)[ViewOf[v]] <= size[ViewOf[v]]

\* The options a session of this configuration may get.
MayGet(c) ==
    {Options(c.build, answer, ComputeCpuPartition(c.affinity, c.index, c.numPunti, c.cores), Len(c.cores))
        : answer \in c.answers}
OptionsChosen == options \in Seq(MayGet(cfg))

\* A row is one of a resize.
RowOfAxis ==
    \/ row = << >>
    \/ \E in, out \in Nat \ {0} : \E o \in 0 .. out - 1 : \E r \in Rows(in, out, o) :
          row = [axis |-> [in |-> in, out |-> out], o |-> o, bound |-> r.bound, weights |-> r.weights]

IInv == OfAMachine(cfg) /\ NothingHeld /\ ViewsFit /\ OptionsChosen /\ RowOfAxis

\* What there is to acquire, once for a worker or for each of its sessions.
Single == {"mutex", "eventReady", "eventResults", "image", "imageView", "resImage", "resImageView",
           "result", "resultView", "env", "pinned", "overlay", "prep", "inf", "post"}
Own == {"stream", "session", "h_score", "h_map", "h_warm", "binding", "d_input", "d_score", "d_map",
        "events", "h_input", "tensors"}
Resources == (Single \X {0}) \cup (Own \X (1 .. cfg.sessions))

\* What no thread of the pipeline, and no warm-up, may be without.
Needed == {"pinned", "overlay", "resultView", "session", "binding", "tensors"}

\* What is left of a sequence, and how far one has got with it.
Rest(s, left) ==
    /\ Len(left) \in 0 .. Len(s)
    /\ left = [n \in 1 .. Len(left) |-> s[(Len(s) - Len(left)) + n]]
Past(s, left) == 1 .. Len(s) - Len(left)

\* The values of the variables.
Values ==
    /\ held \cup freed \cup leaks \subseteq Resources
    /\ held \cap freed = {}
    /\ Rest(Program, todo)
    /\ rounds \in 0 .. MaxRounds /\ faults \in 0 .. MaxFaults
    /\ Len(options) \in 0 .. cfg.sessions

\* What a constructor has acquired and computed before the step it is at.
Built ==
    /\ status \in {"building", "ready", "undefined"} => freed = {}
    /\ status = "ready" => todo = << >>
    /\ status \in {"building", "ready"} =>
         /\ \A x \in held : \E n \in Past(Program, todo) : Program[n] = x
         /\ \A n \in Past(Program, todo) : Program[n][1] \in Needed \cup Sections => Program[n] \in held
         /\ \A n \in (1 .. Len(Program)) \ Past(Program, todo) :
               Program[n][1] = "options" => Len(options) < Program[n][2]

\* The bytes of a section are a number of two DWORDs, even with the deepest ring.
Addressable(c) ==
    /\ HeaderBytes + kMaxRingSlots * (c.batchSize * c.imageBytes) < DwordValues * DwordValues
    /\ kMaxRingSlots * BlockBytes < DwordValues * DwordValues

\* A section is too small only if it is older than this worker.
Aged ==
    Addressable(cfg) /\ status = "building" =>
        \A n \in Past(Program, todo) :
            Program[n][1] \in Sections =>
                \/ MappingBytes(cfg)[Program[n][1]] <= size[Program[n][1]]
                \/ peer \/ leaks # {}

\* What is past in the order of a destructor is not held, and was freed.
Releasing(order) ==
    /\ Rest(order, release)
    /\ \A n \in Past(order, release) : order[n] \notin held
    /\ \A x \in freed : \E n \in Past(order, release) : order[n] = x

Unbuilt ==
    /\ status \in {"unwinding", "terminated"} => Releasing(Members) /\ thrown
    /\ status = "destroying" => Releasing(Destructor)

\* Why there are leftovers, and a view that was refused.
Left ==
    /\ leaks # {} => thrown
    /\ \A x \in leaks : x[1] \notin SelfFreeing
    /\ Addressable(cfg) /\ reason = "stale" =>
         /\ status \in {"none", "unwinding", "terminated"} /\ thrown
         /\ peer \/ leaks # {}
         /\ status = "none" => leaks # {}
         /\ status = "unwinding" => \E s \in Sections : << s, 0 >> \in held

OInv == NothingHeld /\ Values /\ Built /\ Aged /\ Unbuilt /\ Left

--------------------------------------------------------------------------------

\* The least and the greatest of two numbers.
LEMMA MinMax ==
    ASSUME NEW a \in Int, NEW b \in Int
    PROVE  /\ Min({a, b}) = IF a <= b THEN a ELSE b
           /\ Max({a, b}) = IF a >= b THEN a ELSE b
BY DEF Min, Max

\* Division with a remainder.
LEMMA Division ==
    ASSUME NEW a \in Int, NEW d \in Nat \ {0}
    PROVE  /\ a \div d \in Int /\ a % d \in 0 .. d - 1
           /\ a = (d * (a \div d)) + (a % d)
OBVIOUS

\* Products grow with their factors.
LEMMA Grows ==
    ASSUME NEW d \in Nat, NEW a \in Int, NEW b \in Int, a <= b
    PROVE  d * a <= d * b
<1>1. d * (b - a) >= 0
  OBVIOUS
<1>2. d * (b - a) = d * b - d * a
  OBVIOUS
<1>3. d * a \in Int /\ d * b \in Int
  OBVIOUS
<1>4. QED
  BY <1>1, <1>2, <1>3

\* A positive factor cancels.
LEMMA Cancels ==
    ASSUME NEW d \in Nat \ {0}, NEW a \in Int, NEW b \in Int, d * a < d * b
    PROVE  a < b
BY Grows

--------------------------------------------------------------------------------

\* The invariant.

\* A ring has between one slot and kMaxRingSlots of them.
LEMMA Slots ==
    ASSUME OfAMachine(cfg)
    PROVE  IpcRingSlots(cfg) \in 1 .. kMaxRingSlots
<1>1. cfg.ringSlots \in Nat /\ kMaxRingSlots \in Nat \ {0}
  BY SizesAssumption DEF OfAMachine, Config
<1> DEFINE asked == cfg.ringSlots
           slots == Max({asked, 1})
<1>2. slots \in Nat \ {0}
  <2>1. asked \in Int
    BY <1>1
  <2> HIDE DEF asked
  <2>2. Max({asked, 1}) = IF asked >= 1 THEN asked ELSE 1
    <3>1. 1 \in Int
      OBVIOUS
    <3>2. QED
      BY ONLY <2>1, <3>1, MinMax
  <2>3. QED
    BY <2>1, <2>2
<1>3. IpcRingSlots(cfg) = Min({slots, kMaxRingSlots})
  BY DEF IpcRingSlots
<1> HIDE DEF slots
<1>4. Min({slots, kMaxRingSlots}) = IF slots <= kMaxRingSlots THEN slots ELSE kMaxRingSlots
  BY <1>1, <1>2, MinMax
<1>5. QED
  BY <1>1, <1>2, <1>3, <1>4

\* Sizes are numbers.
LEMMA SizesAreNumbers ==
    ASSUME OfAMachine(cfg)
    PROVE  /\ DOMAIN MappingBytes(cfg) = Sections
           /\ \A s \in Sections : MappingBytes(cfg)[s] \in Nat
           /\ \A s \in Sections : CreateSharedMapping(MappingBytes(cfg)[s]) \in Nat
<1>1. /\ IpcRingSlots(cfg) \in Nat /\ cfg.batchSize \in Nat /\ cfg.imageBytes \in Nat
      /\ HeaderBytes \in Nat /\ BlockBytes \in Nat /\ DwordValues \in Nat \ {0}
  <2>1. cfg.batchSize \in Nat /\ cfg.imageBytes \in Nat
    BY DEF OfAMachine, Config
  <2>2. HeaderBytes \in Nat /\ BlockBytes \in Nat /\ DwordValues \in Nat \ {0} /\ kMaxRingSlots \in Nat
    BY SizesAssumption
  <2>3. IpcRingSlots(cfg) \in Nat
    BY Slots, <2>2
  <2>4. QED
    BY <2>1, <2>2, <2>3
<1>2. \A m, n \in Nat : m * n \in Nat
  OBVIOUS
<1>3. /\ IpcInputMmfBytes(cfg) \in Nat /\ IpcResultImageMmfBytes(cfg) \in Nat
      /\ IpcResultBlockMmfBytes(cfg) \in Nat
  BY <1>1, <1>2 DEF IpcInputMmfBytes, IpcResultImageMmfBytes, IpcOverlayBatchBytes, IpcResultBlockMmfBytes
<1>4. DOMAIN MappingBytes(cfg) = Sections /\ \A s \in Sections : MappingBytes(cfg)[s] \in Nat
  BY <1>3 DEF MappingBytes, Sections
<1>5. ASSUME NEW b \in Nat
      PROVE  CreateSharedMapping(b) \in Nat
  <2>1. b % DwordValues \in Nat /\ (b \div DwordValues) % DwordValues \in Nat
    BY <1>1, Division
  <2>2. ((b \div DwordValues) % DwordValues) * DwordValues \in Nat
    BY <1>1, <1>2, <2>1
  <2>3. QED
    BY <2>1, <2>2 DEF CreateSharedMapping
<1>6. QED
  BY <1>4, <1>5

\* It holds at the start.
LEMMA Initially == Init => IInv
<1> SUFFICES ASSUME Init PROVE IInv
  OBVIOUS
<1>1. OfAMachine(cfg)
  BY ConfigsAssumption DEF Init
<1>2. NothingHeld /\ ViewsFit /\ RowOfAxis
  BY DEF Init, NothingHeld, ViewsFit, RowOfAxis
<1>3. OptionsChosen
  BY EmptySeq DEF Init, OptionsChosen
<1>4. QED
  BY <1>1, <1>2, <1>3 DEF IInv

\* A new worker begins with nothing.
LEMMA ConfigureStep ==
    ASSUME IInv, Configure
    PROVE  IInv'
<1>1. PICK n \in RingDepths : cfg' = [cfg EXCEPT !.ringSlots = IF n = 0 THEN 3 ELSE n]
  BY DEF Configure
<1>2. OfAMachine(cfg)'
  <2>1. (IF n = 0 THEN 3 ELSE n) \in Nat
    BY ConfigsAssumption
  <2>2. cfg \in Config
    BY DEF IInv, OfAMachine
  <2>3. cfg' \in Config
    BY <1>1, <2>1, <2>2 DEF Config
  <2>4. cfg'.index = cfg.index /\ cfg'.numPunti = cfg.numPunti /\ cfg'.cores = cfg.cores
    BY <1>1, <2>2 DEF Config
  <2>5. QED
    BY <2>3, <2>4 DEF IInv, OfAMachine
<1>3. held' = {} /\ size' = size /\ options' = << >> /\ row' = << >>
  BY DEF Configure, IInv, NothingHeld
<1>4. OptionsChosen'
  BY <1>3, EmptySeq DEF OptionsChosen
<1>5. NothingHeld' /\ ViewsFit' /\ RowOfAxis'
  BY <1>3 DEF IInv, NothingHeld, ViewsFit, RowOfAxis
<1>6. QED
  BY <1>2, <1>4, <1>5 DEF IInv

\* A step of the constructor.
LEMMA AcquireStep ==
    ASSUME IInv, Acquire
    PROVE  IInv'
<1>0. cfg' = cfg /\ status = "building" /\ status' = status /\ Computes
  BY DEF Acquire, Building
<1>1. OfAMachine(cfg)' /\ OfAMachine(cfg)
  BY <1>0 DEF IInv, OfAMachine
<1>2. NothingHeld'
  BY <1>0 DEF NothingHeld
<1>3. held' = held \/ held' = held \cup {Step}
  BY DEF Acquire
<1>4. size' \in [Sections -> Nat]
  <2>1. CASE Step[1] \in Sections
    <3>1. size' = [size EXCEPT ![Step[1]] = CreatedSize(Step[1])]
      BY <1>0, <2>1 DEF Computes
    <3>2. CreatedSize(Step[1]) \in Nat
      BY <1>1, <2>1, SizesAreNumbers DEF CreatedSize, IInv, ViewsFit
    <3>3. QED
      BY <3>1, <3>2 DEF IInv, ViewsFit
  <2>2. CASE Step[1] \notin Sections
    BY <1>0, <2>2 DEF Computes, IInv, ViewsFit
  <2>3. QED
    BY <2>1, <2>2
<1>5. ASSUME NEW v \in DOMAIN ViewOf, << v, 0 >> \in held'
      PROVE  MappingBytes(cfg)[ViewOf[v]] <= size'[ViewOf[v]]
  <2>0. /\ v \in {"imageView", "resImageView", "resultView"} /\ ViewOf[v] \in Sections
        /\ v \notin Sections
    BY DEF ViewOf, Sections
  <2>1. CASE << v, 0 >> \in held
    <3>1. MappingBytes(cfg)[ViewOf[v]] <= size[ViewOf[v]]
      BY <2>1 DEF IInv, ViewsFit
    <3>2. Exists(ViewOf[v])
      BY <2>1 DEF Exists
    <3>3. size'[ViewOf[v]] = size[ViewOf[v]]
      BY <1>0, <2>0, <3>2 DEF Computes, CreatedSize, IInv, ViewsFit
    <3>4. QED
      BY <3>1, <3>3
  <2>2. CASE << v, 0 >> = Step
    <3>1. Step[1] = v
      BY <2>2
    <3>2. Refusals(Step) = {}
      BY DEF Acquire, Building
    <3>3. ~(MappingBytes(cfg)[ViewOf[v]] > size[ViewOf[v]])
      BY <3>1, <3>2 DEF Refusals
    <3>4. size' = size
      BY <1>0, <2>0, <3>1 DEF Computes
    <3>5. MappingBytes(cfg)[ViewOf[v]] \in Nat /\ size[ViewOf[v]] \in Nat
      BY <1>1, <2>0, SizesAreNumbers DEF IInv, ViewsFit
    <3>6. QED
      BY <3>3, <3>4, <3>5
  <2>3. QED
    BY <1>3, <1>5, <2>1, <2>2
<1>6. ViewsFit'
  BY <1>0, <1>4, <1>5 DEF ViewsFit
<1>7. OptionsChosen'
  <2>1. CASE Step[1] = "options"
    <3>1. PICK answer \in cfg.answers :
             options' = Append(options, Options(cfg.build, answer, Partition(cfg.index), Len(cfg.cores)))
      BY <1>0, <2>1 DEF Computes
    <3>2. Options(cfg.build, answer, Partition(cfg.index), Len(cfg.cores)) \in MayGet(cfg)
      BY DEF MayGet, Partition
    <3>3. options' \in Seq(MayGet(cfg))
      BY <3>1, <3>2, AppendProperties DEF IInv, OptionsChosen
    <3>4. QED
      BY <1>0, <3>3 DEF OptionsChosen
  <2>2. CASE Step[1] # "options"
    BY <1>0, <2>2 DEF Computes, IInv, OptionsChosen
  <2>3. QED
    BY <2>1, <2>2
<1>8. RowOfAxis'
  <2>1. CASE Step[1] = "coeffs"
    <3>1. PICK axis \in cfg.axes : \E o \in 0 .. axis.out - 1 : \E r \in Rows(axis.in, axis.out, o) :
             row' = [axis |-> axis, o |-> o, bound |-> r.bound, weights |-> r.weights]
      BY <1>0, <2>1 DEF Computes
    <3>2. /\ axis.in \in Nat \ {0} /\ axis.out \in Nat \ {0}
          /\ axis = [in |-> axis.in, out |-> axis.out]
      BY <1>1 DEF OfAMachine, Config
    <3>3. QED
      BY <3>1, <3>2 DEF RowOfAxis
  <2>2. CASE Step[1] # "coeffs"
    BY <1>0, <2>2 DEF Computes, RowOfAxis
  <2>3. QED
    BY <2>1, <2>2
<1>9. QED
  BY <1>1, <1>2, <1>6, <1>7, <1>8 DEF IInv

\* Everything else computes nothing; at most a pool or a vector is added to
\* what the worker holds.
LEMMA OtherStep ==
    ASSUME IInv, [Next]_vars, ~Configure, ~Acquire
    PROVE  IInv'
<1>1. /\ cfg' = cfg /\ size' = size /\ options' = options
      /\ row' = row
  BY DEF Next, AcquireNothing, NoFirstSession, Throw, Ready, Destroy, Release, Gone, PeerOpens,
         PeerCloses, vars
<1>2. \A v \in DOMAIN ViewOf : << v, 0 >> \in held' => << v, 0 >> \in held
  <2>1. CASE Throw
    <3>1. held' = held \/ (Step[1] \in Filled /\ held' = held \cup {Step})
      BY <2>1 DEF Throw
    <3>2. \A v \in DOMAIN ViewOf : v \notin Filled
      BY DEF ViewOf, Filled
    <3>3. \A v \in DOMAIN ViewOf : << v, 0 >> = Step => Step[1] = v
      OBVIOUS
    <3>4. QED
      BY <3>1, <3>2, <3>3
  <2>2. CASE ~Throw
    <3>1. held' \subseteq held
      BY <2>2 DEF Next, AcquireNothing, NoFirstSession, Ready, Destroy, Release, Gone, PeerOpens,
                  PeerCloses, vars
    <3>2. QED
      BY <3>1
  <2>3. QED
    BY <2>1, <2>2
<1>3. NothingHeld'
  BY DEF IInv, NothingHeld, Next, AcquireNothing, NoFirstSession, Building, Throw, Ready, Destroy,
         Release, Gone, PeerOpens, PeerCloses, vars
<1>4. OfAMachine(cfg)' /\ ViewsFit' /\ OptionsChosen' /\ RowOfAxis'
  BY <1>1, <1>2 DEF IInv, OfAMachine, ViewsFit, OptionsChosen, RowOfAxis
<1>5. QED
  BY <1>3, <1>4 DEF IInv

\* What every step leaves behind.
THEOREM Invariance == Spec => []IInv
<1>1. IInv /\ [Next]_vars => IInv'
  BY ConfigureStep, AcquireStep, OtherStep
<1>2. QED
  BY <1>1, Initially, PTL DEF Spec

--------------------------------------------------------------------------------

\* The slots.

\* Areas of equal size, one behind the other.
LEMMA OneBehindTheOther ==
    ASSUME NEW from \in Nat, NEW bytes \in Nat, NEW slots \in Nat, NEW n \in 0 .. slots - 1
    PROVE  /\ Between(from + n * bytes, bytes) \subseteq from .. (from + slots * bytes) - 1
           /\ \A k \in 0 .. slots - 1 : n # k =>
                 Between(from + n * bytes, bytes) \cap Between(from + k * bytes, bytes) = {}
<1> DEFINE P(k) == k * bytes
<1>1. \A k \in Nat : P(k) \in Nat /\ P(k + 1) = P(k) + bytes
  OBVIOUS
<1>2. \A j, k \in Nat : j <= k => P(j) <= P(k)
  <2>1. \A j, k \in Nat : j <= k => bytes * j <= bytes * k
    BY Grows
  <2>2. \A j \in Nat : bytes * j = j * bytes
    OBVIOUS
  <2>3. QED
    BY <2>1, <2>2
<1>3. \A k \in Nat : Between(from + P(k), bytes) = (from + P(k)) .. ((from + P(k)) + bytes) - 1
  BY <1>1 DEF Between
<1> HIDE DEF P
<1>4. P(n) + bytes <= P(slots) /\ P(n) \in Nat /\ P(slots) \in Nat /\ n \in Nat
  BY <1>1, <1>2
<1>5. Between(from + P(n), bytes) \subseteq from .. (from + P(slots)) - 1
  BY <1>3, <1>4
<1>6. ASSUME NEW k \in 0 .. slots - 1, n # k
      PROVE  Between(from + P(n), bytes) \cap Between(from + P(k), bytes) = {}
  <2>1. k \in Nat /\ P(k) \in Nat
    BY <1>1
  <2>2. P(n) + bytes <= P(k) \/ P(k) + bytes <= P(n)
    <3>1. n + 1 <= k \/ k + 1 <= n
      BY <1>4, <1>6, <2>1
    <3>2. QED
      BY <1>1, <1>2, <1>4, <2>1, <3>1
  <2>3. ASSUME NEW x \in Between(from + P(n), bytes), x \in Between(from + P(k), bytes)
        PROVE  FALSE
    <3>1. /\ x \in (from + P(n)) .. ((from + P(n)) + bytes) - 1
          /\ x \in (from + P(k)) .. ((from + P(k)) + bytes) - 1
      BY <1>3, <1>4, <2>1, <2>3
    <3>2. x \in Int /\ from + P(n) <= x /\ x < (from + P(n)) + bytes
          /\ from + P(k) <= x /\ x < (from + P(k)) + bytes
      BY <1>4, <2>1, <3>1
    <3>3. QED
      BY <1>4, <2>1, <2>2, <3>2
  <2>4. QED
    BY <2>3
<1>7. QED
  BY <1>5, <1>6 DEF P

\* Whatever depth the controller asks for, whatever section was there before and
\* however CreateFileMapping cuts a size into DWORDs: what a batch touches lies
\* behind the header and inside what is mapped, apart from what others touch.
THEOREM SlotsLieInside == Spec => []SlotsInsideMapping
<1>1. IInv => SlotsInsideMapping
  <2> SUFFICES ASSUME IInv, NEW v \in DOMAIN ViewOf, << v, 0 >> \in held
      PROVE  LET s == ViewOf[v]
                 Bytes(n) == Touched(cfg, n)[s]
             IN  /\ \A n \in 0 .. IpcRingSlots(cfg) - 1 :
                      Bytes(n) \subseteq (IF s = "image" THEN HeaderBytes ELSE 0) .. size[s] - 1
                 /\ \A n, k \in 0 .. IpcRingSlots(cfg) - 1 : n # k => Bytes(n) \cap Bytes(k) = {}
    BY DEF SlotsInsideMapping
  <2> DEFINE s == ViewOf[v]
             slots == IpcRingSlots(cfg)
             from == IF s = "image" THEN HeaderBytes ELSE 0
             bytes == IF s = "result" THEN BlockBytes ELSE cfg.batchSize * cfg.imageBytes
  <2>1. s \in {"image", "resImage", "result"}
    BY DEF ViewOf
  <2>2. /\ cfg.batchSize \in Nat /\ cfg.imageBytes \in Nat /\ slots \in Nat
        /\ HeaderBytes \in Nat /\ BlockBytes \in Nat
    <3>1. cfg.batchSize \in Nat /\ cfg.imageBytes \in Nat
      BY DEF IInv, OfAMachine, Config
    <3>2. HeaderBytes \in Nat /\ BlockBytes \in Nat /\ kMaxRingSlots \in Nat
      BY SizesAssumption
    <3>3. slots \in Nat
      BY <3>2, Slots DEF IInv
    <3>4. QED
      BY <3>1, <3>2, <3>3
  <2>3. from \in Nat /\ bytes \in Nat
    <3>1. cfg.batchSize * cfg.imageBytes \in Nat
      BY <2>2
    <3>2. QED
      BY <2>2, <3>1
  <2>4. MappingBytes(cfg)[s] = from + slots * bytes
    <3>1. slots * cfg.batchSize * cfg.imageBytes = slots * (cfg.batchSize * cfg.imageBytes)
      BY <2>2
    <3>2. slots * (cfg.batchSize * cfg.imageBytes) \in Nat /\ slots * BlockBytes \in Nat
      BY <2>2, <2>3
    <3>3. QED
      BY <2>1, <2>2, <3>1, <3>2 DEF MappingBytes, IpcInputMmfBytes, IpcResultImageMmfBytes,
                                    IpcOverlayBatchBytes, IpcResultBlockMmfBytes
  <2>5. ASSUME NEW n \in 0 .. slots - 1
        PROVE  Touched(cfg, n)[s] = Between(from + n * bytes, bytes)
    <3>1. /\ n \in Nat
          /\ n * cfg.batchSize * cfg.imageBytes = n * (cfg.batchSize * cfg.imageBytes)
          /\ cfg.imageBytes * cfg.batchSize = cfg.batchSize * cfg.imageBytes
      BY <2>2
    <3>2. n * (cfg.batchSize * cfg.imageBytes) \in Nat /\ n * BlockBytes \in Nat
      BY <2>2, <2>3, <3>1
    <3>3. QED
      BY <2>1, <2>2, <3>1, <3>2 DEF Touched, IpcInputSlotOffset, IpcResultImageSlotOffset,
                                    IpcOverlayBatchBytes, BlockOffset
  <2>6. from + slots * bytes <= size[s] /\ size[s] \in Nat
    BY <2>1, <2>4 DEF IInv, ViewsFit, Sections
  <2> HIDE DEF s, slots, from, bytes
  <2>6a. /\ \A n \in 0 .. slots - 1 :
              Between(from + n * bytes, bytes) \subseteq from .. (from + slots * bytes) - 1
         /\ \A n, k \in 0 .. slots - 1 : n # k =>
              Between(from + n * bytes, bytes) \cap Between(from + k * bytes, bytes) = {}
    <3>1. from \in Nat /\ bytes \in Nat /\ slots \in Nat
      BY <2>2, <2>3
    <3>2. QED
      BY ONLY <3>1, OneBehindTheOther
  <2>7. \A n \in 0 .. slots - 1 : Touched(cfg, n)[s] \subseteq from .. size[s] - 1
    <3>1. \A n \in 0 .. slots - 1 : Touched(cfg, n)[s] \subseteq from .. (from + slots * bytes) - 1
      BY ONLY <2>5, <2>6a
    <3>2. slots * bytes \in Nat
      BY <2>2, <2>3
    <3>3. from .. (from + slots * bytes) - 1 \subseteq from .. size[s] - 1
      BY <2>3, <2>6, <3>2
    <3>4. QED
      BY <3>1, <3>3
  <2>8. \A n, k \in 0 .. slots - 1 : n # k => Touched(cfg, n)[s] \cap Touched(cfg, k)[s] = {}
    BY ONLY <2>5, <2>6a
  <2>9. QED
    BY <2>7, <2>8 DEF s, slots, from
<1>2. QED
  BY <1>1, Invariance, PTL

--------------------------------------------------------------------------------

\* The shares of the cores.

\* The cores that are shared out: all but the first one, if there are others.
LEMMA Shared ==
    ASSUME NEW cores \in Seq(Nat), cores # << >>,
           \A i, j \in 1 .. Len(cores) : cores[i] = cores[j] => i = j
    PROVE  /\ ComputeCores(cores) \in Seq(Nat) /\ Len(ComputeCores(cores)) \in Nat \ {0}
           /\ \A i \in 1 .. Len(ComputeCores(cores)) :
                 /\ ComputeCores(cores)[i] \in {cores[k] : k \in DOMAIN cores}
                 /\ Len(cores) > 1 => ComputeCores(cores)[i] # cores[1]
           /\ \A i, j \in 1 .. Len(ComputeCores(cores)) :
                 ComputeCores(cores)[i] = ComputeCores(cores)[j] => i = j
           /\ \A k \in 1 .. Len(cores) : k > 1 \/ Len(cores) = 1 =>
                 \E i \in 1 .. Len(ComputeCores(cores)) : ComputeCores(cores)[i] = cores[k]
<1>1. Len(cores) \in Nat \ {0} /\ DOMAIN cores = 1 .. Len(cores)
  BY EmptySeq, LenProperties
<1>2. CASE Len(cores) > 1
  <2>1. /\ Tail(cores) \in Seq(Nat) /\ Len(Tail(cores)) = Len(cores) - 1
        /\ \A i \in 1 .. Len(Tail(cores)) : Tail(cores)[i] = cores[i + 1]
    BY HeadTailProperties
  <2>2. ComputeCores(cores) = Tail(cores)
    BY <1>2 DEF ComputeCores
  <2>3. \A i \in 1 .. Len(Tail(cores)) : i + 1 \in 1 .. Len(cores) /\ i + 1 # 1 /\ 1 \in 1 .. Len(cores)
    BY <1>1, <1>2, <2>1
  <2>4. Len(Tail(cores)) \in Nat \ {0}
    BY <1>1, <1>2, <2>1
  <2>5. \A i, j \in 1 .. Len(Tail(cores)) : Tail(cores)[i] = Tail(cores)[j] => i = j
    BY <2>1, <2>3
  <2>6. \A i \in 1 .. Len(Tail(cores)) :
           Tail(cores)[i] \in {cores[k] : k \in DOMAIN cores} /\ Tail(cores)[i] # cores[1]
    BY <1>1, <2>1, <2>3
  <2>7. ASSUME NEW k \in 1 .. Len(cores), k > 1
        PROVE  \E i \in 1 .. Len(Tail(cores)) : Tail(cores)[i] = cores[k]
    <3>1. k - 1 \in 1 .. Len(Tail(cores)) /\ (k - 1) + 1 = k
      BY <1>1, <2>1, <2>7
    <3>2. Tail(cores)[k - 1] = cores[k]
      BY <2>1, <3>1
    <3>3. QED
      BY <3>1, <3>2
  <2>8. QED
    BY <1>2, <2>1, <2>2, <2>4, <2>5, <2>6, <2>7
<1>3. CASE ~(Len(cores) > 1)
  <2>1. ComputeCores(cores) = cores
    BY <1>3 DEF ComputeCores
  <2>2. QED
    BY <1>1, <1>3, <2>1
<1>4. QED
  BY <1>2, <1>3

\* Slices are contiguous, not empty, and one ends before the next begins.
LEMMA Slices ==
    ASSUME NEW available \in Nat \ {0}, NEW count \in Nat \ {0}, count < available,
           NEW i \in 0 .. count - 1
    PROVE  /\ Begin(i, count, available) \in Nat /\ Count(i, count, available) \in Nat \ {0}
           /\ Begin(i, count, available) + Count(i, count, available) <= available
           /\ \A j \in 0 .. count - 1 : i < j =>
                 Begin(i, count, available) + Count(i, count, available) <= Begin(j, count, available)
<1> DEFINE q == available \div count
           r == available % count
           Edge(k) == q * k + (IF k <= r THEN k ELSE r)
<1>1. q \in Int /\ r \in 0 .. count - 1 /\ available = (count * q) + r
  BY Division
<1>2. q \in Nat \ {0}
  <2>1. count * q > 0
    BY <1>1
  <2>2. count * 0 < count * q
    BY <2>1
  <2>3. 0 < q
    BY <1>1, <2>2, Cancels
  <2>4. QED
    BY <1>1, <2>3
<1>3. \A k \in 0 .. count - 1 : Begin(k, count, available) = Edge(k)
  <2>1. ASSUME NEW k \in 0 .. count - 1
        PROVE  Begin(k, count, available) = Edge(k)
    <3>1. Min({k, r}) = IF k <= r THEN k ELSE r
      <4>1. k \in Int /\ r \in Int
        BY <1>1
      <4> HIDE DEF r
      <4>2. QED
        BY <4>1, MinMax
    <3>2. k * q = q * k
      BY <1>2
    <3>3. QED
      BY <3>1, <3>2 DEF Begin
  <2>2. QED
    BY <2>1
<1>4. Count(i, count, available) = q + (IF i < r THEN 1 ELSE 0)
  BY DEF Count
<1> HIDE DEF q, r
<1>5. ASSUME NEW k \in Nat
      PROVE  q * k \in Nat /\ q * (k + 1) = q * k + q
  BY <1>2
<1>6. \A k \in Nat : Edge(k) \in Nat /\ Edge(k + 1) = Edge(k) + (q + (IF k < r THEN 1 ELSE 0))
  BY <1>1, <1>2, <1>5
<1>7. \A j, k \in Nat : j <= k => Edge(j) <= Edge(k)
  <2>1. ASSUME NEW j \in Nat, NEW k \in Nat, j <= k
        PROVE  Edge(j) <= Edge(k)
    <3>1. q * j <= q * k
      BY <1>2, <2>1, Grows
    <3>2. (IF j <= r THEN j ELSE r) <= (IF k <= r THEN k ELSE r)
      BY <1>1, <2>1
    <3>3. QED
      BY <1>1, <1>5, <3>1, <3>2
  <2>2. QED
    BY <2>1
<1>8. Edge(count) = available
  <2>1. q * count = count * q
    BY <1>2
  <2>2. QED
    BY <1>1, <2>1
<1> HIDE DEF Edge
<1>9. /\ i \in Nat /\ i + 1 \in Nat /\ i + 1 <= count
      /\ Edge(i) \in Nat /\ Edge(i + 1) = Edge(i) + (q + (IF i < r THEN 1 ELSE 0))
  BY <1>6
<1>10. Edge(i + 1) <= available
  BY <1>7, <1>8, <1>9
<1>11. \A j \in 0 .. count - 1 : i < j => Edge(i + 1) <= Edge(j)
  BY <1>7, <1>9
<1>12. q + (IF i < r THEN 1 ELSE 0) \in Nat \ {0}
  BY <1>1, <1>2
<1>13. QED
  BY <1>3, <1>4, <1>9, <1>10, <1>11, <1>12

\* Where the share of a worker is among the cores that are shared out.
Places(i, count, available) ==
    IF count >= available THEN {(i % available) + 1}
    ELSE Begin(i, count, available) + 1 .. Begin(i, count, available) + Count(i, count, available)

\* There is something for everybody, and different workers are apart unless
\* there are more of them than cores.
LEMMA PlacesApart ==
    ASSUME NEW available \in Nat \ {0}, NEW count \in Nat \ {0}, NEW i \in 0 .. count - 1
    PROVE  /\ Places(i, count, available) \subseteq 1 .. available
           /\ Places(i, count, available) # {}
           /\ \A j \in 0 .. count - 1 : i # j /\ count <= available =>
                 Places(i, count, available) \cap Places(j, count, available) = {}
<1>1. CASE count >= available
  <2>1. \A k \in 0 .. count - 1 : k % available \in 0 .. available - 1
    BY Division
  <2>2. count <= available => \A k \in 0 .. count - 1 : k % available = k
    BY <1>1
  <2>3. \A k \in 0 .. count - 1 : Places(k, count, available) = {(k % available) + 1}
    BY <1>1 DEF Places
  <2>4. (i % available) + 1 \in 1 .. available
    BY <2>1
  <2>5. ASSUME NEW j \in 0 .. count - 1, i # j, count <= available
        PROVE  (i % available) + 1 # (j % available) + 1
    BY <2>2, <2>5
  <2>6. QED
    BY <2>3, <2>4, <2>5
<1>2. CASE ~(count >= available)
  <2> DEFINE b(k) == Begin(k, count, available)
             c(k) == Count(k, count, available)
  <2>0. count < available
    BY <1>2
  <2>1. \A k \in 0 .. count - 1 : /\ b(k) \in Nat /\ c(k) \in Nat \ {0} /\ b(k) + c(k) <= available
                                  /\ \A j \in 0 .. count - 1 : k < j => b(k) + c(k) <= b(j)
    BY <2>0, Slices
  <2>2. \A k \in 0 .. count - 1 : Places(k, count, available) = b(k) + 1 .. b(k) + c(k)
    BY <1>2 DEF Places
  <2> HIDE DEF b, c
  <2>3. Places(i, count, available) \subseteq 1 .. available
    BY <2>1, <2>2
  <2>4. b(i) + 1 \in Places(i, count, available)
    BY <2>1, <2>2
  <2>5. ASSUME NEW j \in 0 .. count - 1, i # j
        PROVE  Places(i, count, available) \cap Places(j, count, available) = {}
    <3>1. b(i) + c(i) <= b(j) \/ b(j) + c(j) <= b(i)
      BY <2>1, <2>5
    <3>2. b(i) \in Nat /\ b(j) \in Nat /\ c(i) \in Nat /\ c(j) \in Nat
      BY <2>1
    <3>3. ASSUME NEW x \in b(i) + 1 .. b(i) + c(i), x \in b(j) + 1 .. b(j) + c(j)
          PROVE  FALSE
      <4>1. x \in Int /\ b(i) < x /\ x <= b(i) + c(i) /\ b(j) < x /\ x <= b(j) + c(j)
        BY <3>2, <3>3
      <4>2. QED
        BY <3>1, <3>2, <4>1
    <3>4. QED
      BY <2>2, <3>3
  <2>6. QED
    BY <2>3, <2>4, <2>5
<1>3. QED
  BY <1>1, <1>2

\* No place is left over.
LEMMA PlacesCover ==
    ASSUME NEW available \in Nat \ {0}, NEW count \in Nat \ {0}, NEW x \in 1 .. available
    PROVE  \E i \in 0 .. count - 1 : x \in Places(i, count, available)
<1>1. CASE count >= available
  <2>1. x - 1 \in 0 .. count - 1 /\ (x - 1) % available = x - 1
    BY <1>1
  <2>2. ((x - 1) % available) + 1 = x
    BY <2>1
  <2>3. Places(x - 1, count, available) = {((x - 1) % available) + 1}
    BY <1>1 DEF Places
  <2>4. QED
    BY <2>1, <2>2, <2>3
<1>2. CASE ~(count >= available)
  <2> DEFINE q == available \div count
             r == available % count
             y == x - 1
             long == (q + 1) * r
  <2>1. q \in Int /\ r \in 0 .. count - 1 /\ available = (count * q) + r
    BY Division
  <2>2. q \in Nat \ {0}
    <3>1. count * q > 0
      BY <1>2, <2>1
    <3>2. count * 0 < count * q
      BY <3>1
    <3>3. 0 < q
      BY <2>1, <3>2, Cancels
    <3>4. QED
      BY <2>1, <3>3
  <2>3. ASSUME NEW i \in 0 .. count - 1, NEW m \in Nat, y = Begin(i, count, available) + m,
               m < Count(i, count, available), Begin(i, count, available) \in Int,
               Count(i, count, available) \in Int
        PROVE  \E k \in 0 .. count - 1 : x \in Places(k, count, available)
    <3> DEFINE b == Begin(i, count, available)
               c == Count(i, count, available)
    <3>1. Places(i, count, available) = b + 1 .. b + c
      BY <1>2 DEF Places
    <3>2. b \in Int /\ c \in Int /\ x \in Int /\ m \in Nat /\ x - 1 = b + m /\ m < c
      BY <2>3
    <3> HIDE DEF b, c
    <3>3. x \in b + 1 .. b + c
      BY ONLY <3>2
    <3>4. QED
      BY <3>1, <3>3
  <2>4. \A i \in 0 .. count - 1 :
           /\ Begin(i, count, available) = (i * q) + (IF i <= r THEN i ELSE r)
           /\ Count(i, count, available) = q + (IF i < r THEN 1 ELSE 0)
    <3>1. ASSUME NEW i \in 0 .. count - 1
          PROVE  Min({i, r}) = IF i <= r THEN i ELSE r
      <4>1. i \in Int /\ r \in Int
        BY <2>1
      <4> HIDE DEF r
      <4>2. QED
        BY <4>1, MinMax
    <3>2. QED
      BY <3>1 DEF Begin, Count
  <2>5. y \in 0 .. available - 1 /\ q * r \in Nat /\ long = q * r + r /\ long \in Nat
    BY <2>1, <2>2
  <2> HIDE DEF q, r, y
  <2>6. CASE y < long
    <3> DEFINE i == y \div (q + 1)
               m == y % (q + 1)
    <3>1. i \in Int /\ m \in 0 .. q /\ y = ((q + 1) * i) + m
      <4>1. y \in Int /\ q + 1 \in Nat \ {0}
        BY <2>2, <2>5
      <4>2. i \in Int /\ m \in 0 .. (q + 1) - 1 /\ y = ((q + 1) * i) + m
        BY <4>1, Division
      <4>3. QED
        BY <2>2, <4>2
    <3> HIDE DEF i, m
    <3>2. i < r
      <4>1. (q + 1) * i < (q + 1) * r
        <5>1. (q + 1) * i \in Int
          BY <2>2, <3>1
        <5>2. QED
          BY <2>5, <2>6, <3>1, <5>1
      <4>2. QED
        BY <2>1, <2>2, <3>1, <4>1, Cancels
    <3>3. i >= 0
      <4>1. y >= 0 /\ q + 1 \in Nat \ {0} /\ m < q + 1
        BY <2>2, <2>5, <3>1
      <4>2. (q + 1) * (-1) < (q + 1) * i
        <5>1. (q + 1) * (-1) = -(q + 1) /\ (q + 1) * i \in Int
          BY <2>2, <3>1
        <5>2. QED
          BY <2>2, <3>1, <4>1, <5>1
      <4>3. -1 < i
        BY <3>1, <4>1, <4>2, Cancels
      <4>4. QED
        BY <3>1, <4>3
    <3>4. i \in 0 .. count - 1
      BY <2>1, <3>1, <3>2, <3>3
    <3>5. (q + 1) * i = (i * q) + i /\ i * q \in Int
      BY <2>2, <3>1
    <3>6. Begin(i, count, available) = (i * q) + i /\ Count(i, count, available) = q + 1
      BY <2>1, <2>4, <3>1, <3>2, <3>4
    <3>7. y = Begin(i, count, available) + m /\ m \in Nat /\ m < Count(i, count, available)
          /\ Begin(i, count, available) \in Int /\ Count(i, count, available) \in Int
      BY <2>2, <3>1, <3>5, <3>6
    <3>8. QED
      BY <2>3, <3>4, <3>7
  <2>7. CASE ~(y < long)
    <3> DEFINE z == y - long
               k == z \div q
               m == z % q
               i == r + k
    <3>1. z \in Nat
      BY <2>5, <2>7
    <3>2. k \in Int /\ m \in 0 .. q - 1 /\ z = (q * k) + m
      <4>1. z \in Int /\ q \in Nat \ {0}
        BY <2>2, <3>1
      <4> HIDE DEF z
      <4>2. QED
        BY <4>1, Division
    <3> HIDE DEF z, k, m
    <3>3. k < count - r
      <4>1. q * (count - r) = count * q - q * r /\ count * q \in Int
        BY <2>1, <2>2
      <4>2. q * k < q * (count - r)
        <5>1. z = y - long
          BY DEF z
        <5>2. q * k \in Int /\ q * (count - r) \in Int
          BY <2>1, <2>2, <3>2
        <5>3. y \in 0 .. available - 1 /\ long = q * r + r /\ q * r \in Nat /\ r \in Nat
              /\ available = (count * q) + r /\ m \in Nat /\ z = (q * k) + m /\ available \in Nat
          BY <2>1, <2>2, <2>5, <3>2
        <5> HIDE DEF long
        <5>4. QED
          BY ONLY <4>1, <5>1, <5>2, <5>3
      <4>3. count - r \in Int
        BY <2>1
      <4>4. QED
        BY <2>2, <3>2, <4>2, <4>3, Cancels
    <3>4. k >= 0
      <4>1. q * (-1) < q * k
        <5>1. q * (-1) = -q /\ q * k \in Int
          BY <2>2, <3>2
        <5>2. QED
          BY <2>2, <3>1, <3>2, <5>1
      <4>2. -1 < k
        BY <2>2, <3>2, <4>1, Cancels
      <4>3. QED
        BY <3>2, <4>2
    <3>5. i \in 0 .. count - 1 /\ i >= r /\ i \in Int /\ r \in Int
      BY <2>1, <3>2, <3>3, <3>4
    <3>6. i * q = q * r + q * k /\ q * k \in Int /\ i * q \in Int
      BY <2>1, <2>2, <3>2
    <3> HIDE DEF i
    <3>7. Begin(i, count, available) = (i * q) + r /\ Count(i, count, available) = q
      <4>1. (IF i <= r THEN i ELSE r) = r /\ (IF i < r THEN 1 ELSE 0) = 0
        BY <3>5
      <4>2. QED
        BY <2>2, <2>4, <3>5, <4>1
    <3>8. y = Begin(i, count, available) + m /\ m \in Nat /\ m < Count(i, count, available)
          /\ Begin(i, count, available) \in Int /\ Count(i, count, available) \in Int
      <4>1. z = y - long /\ y \in Int
        BY <2>5 DEF z
      <4>2. m \in Nat /\ m < q
        BY <2>2, <3>2
      <4> HIDE DEF long
      <4>3. QED
        BY <2>1, <2>2, <2>5, <3>2, <3>6, <3>7, <4>1, <4>2
    <3>9. QED
      BY <2>3, <3>5, <3>8
  <2>8. QED
    BY <2>6, <2>7
<1>3. QED
  BY <1>1, <1>2

\* What is in a sequence of n numbers.
LEMMA Entries ==
    ASSUME NEW s \in Seq(Nat)
    PROVE  /\ Len(s) \in Nat /\ DOMAIN s = 1 .. Len(s)
           /\ \A k \in 1 .. Len(s) : s[k] \in Nat
BY LenProperties, ElementOfSeq

\* The share of a worker is what is at its places.
IsShare(p, affinity, compute, i, count) ==
    /\ p.logicalProcessors \in Seq(Nat)
    /\ p.logicalProcessors = << >> <=> ~affinity
    /\ p.shared <=> affinity /\ count > Len(compute)
    /\ CpusOf(p) = IF affinity THEN {compute[x] : x \in Places(i, count, Len(compute))} ELSE {}

LEMMA ShareOf ==
    ASSUME NEW affinity \in BOOLEAN, NEW cores,
           NEW compute \in Seq(Nat), compute = ComputeCores(cores),
           Len(compute) \in Nat \ {0},
           NEW count \in Nat \ {0}, NEW i \in 0 .. count - 1,
           NEW p, p = ComputeCpuPartition(affinity, i, count, cores)
    PROVE  IsShare(p, affinity, compute, i, count)
<1> DEFINE available == Len(compute)
<1>0. \A x \in 1 .. available : compute[x] \in Nat
  BY ElementOfSeq
<1>1. CASE ~affinity
  <2>1. p = Unpinned
    BY <1>1 DEF ComputeCpuPartition
  <2>2. p.logicalProcessors = << >> /\ p.shared = FALSE
    BY <2>1 DEF Unpinned
  <2>3. << >> \in Seq(Nat) /\ DOMAIN << >> = {}
    BY EmptySeq, LenProperties
  <2>4. CpusOf(p) = {}
    BY <2>2, <2>3 DEF CpusOf
  <2>5. QED
    BY <1>1, <2>2, <2>3, <2>4 DEF IsShare
<1>2. CASE affinity /\ count >= available
  <2> DEFINE x == (i % available) + 1
             s == << compute[x] >>
  <2>1. p = Wrapped(i, count, compute)
    BY <1>2 DEF ComputeCpuPartition
  <2>2. p.logicalProcessors = s /\ (p.shared <=> count > available)
    <3> DEFINE many == count > available
    <3>1. p = [logicalProcessors |-> s, shared |-> many]
      BY <2>1 DEF Wrapped
    <3> HIDE DEF s, many
    <3>2. p.logicalProcessors = s
      BY <3>1
    <3>3. p.shared = many
      BY <3>1
    <3>4. QED
      BY <3>2, <3>3 DEF many
  <2>3. Places(i, count, available) = {x}
    BY <1>2 DEF Places
  <2>4. compute[x] \in Nat
    <3>1. x \in 1 .. available
      BY <2>3, PlacesApart
    <3>2. QED
      BY <1>0, <3>1
  <2> HIDE DEF x
  <2>5. s \in Seq(Nat) /\ s # << >> /\ DOMAIN s = {1} /\ s[1] = compute[x]
    BY <2>4
  <2> HIDE DEF s
  <2>6. CpusOf(p) = {compute[x]}
    BY <2>2, <2>5 DEF CpusOf
  <2>7. CpusOf(p) = {compute[y] : y \in Places(i, count, available)}
    BY <2>3, <2>6
  <2>8. QED
    BY <1>2, <2>2, <2>5, <2>7 DEF IsShare
<1>3. CASE affinity /\ ~(count >= available)
  <2> DEFINE b == Begin(i, count, available)
             c == Count(i, count, available)
             s == SubSeq(compute, b + 1, b + c)
  <2>1. p = Slice(i, count, compute)
    BY <1>3 DEF ComputeCpuPartition
  <2>2. p.logicalProcessors = s /\ p.shared = FALSE
    <3>1. p = [logicalProcessors |-> s, shared |-> FALSE]
      BY <2>1 DEF Slice
    <3> HIDE DEF s
    <3>2. QED
      BY <3>1
  <2>3. b \in Nat /\ c \in Nat \ {0} /\ b + c <= available
    <3>1. count < available
      BY <1>3
    <3>2. QED
      BY <3>1, Slices
  <2>4. Places(i, count, available) = b + 1 .. b + c
    BY <1>3 DEF Places
  <2> HIDE DEF b, c
  <2>5. /\ s \in Seq(Nat) /\ Len(s) = c
        /\ \A k \in 1 .. c : s[k] = compute[b + k]
    <3>1. \A k \in b + 1 .. b + c : compute[k] \in Nat
      BY <1>0, <2>3
    <3>2. /\ s \in Seq(Nat)
          /\ Len(s) = IF b + 1 <= b + c THEN (b + c) - (b + 1) + 1 ELSE 0
          /\ \A k \in 1 .. (b + c) - (b + 1) + 1 : s[k] = compute[(b + 1) + k - 1]
      BY <2>3, <3>1, SubSeqProperties
    <3>3. b + 1 <= b + c /\ (b + c) - (b + 1) + 1 = c /\ \A k \in 1 .. c : (b + 1) + k - 1 = b + k
      BY <2>3
    <3> HIDE DEF s
    <3>4. QED
      BY <3>2, <3>3
  <2> HIDE DEF s
  <2>6. DOMAIN s = 1 .. c /\ s # << >>
    <3>1. DOMAIN s = 1 .. c
      BY <2>5, LenProperties
    <3>2. Len(<< >>) = 0
      OBVIOUS
    <3>3. QED
      BY <2>3, <2>5, <3>1, <3>2
  <2>7. {s[k] : k \in 1 .. c} = {compute[y] : y \in b + 1 .. b + c}
    <3>1. \A k \in 1 .. c : b + k \in b + 1 .. b + c
      BY <2>3
    <3>2. \A y \in b + 1 .. b + c : y - b \in 1 .. c /\ b + (y - b) = y
      BY <2>3
    <3>3. QED
      BY <2>5, <3>1, <3>2
  <2>8. CpusOf(p) = {compute[y] : y \in Places(i, count, available)}
    BY <2>2, <2>4, <2>6, <2>7 DEF CpusOf
  <2>9. ~(count > available)
    BY <1>3
  <2>10. QED
    BY <1>3, <2>2, <2>5, <2>6, <2>8, <2>9 DEF IsShare
<1>4. QED
  BY <1>1, <1>2, <1>3

\* What the cores of this configuration are, and who gets which.
LEMMA SharesOfCores ==
    ASSUME IInv
    PROVE  LET cores == cfg.cores
               count == cfg.numPunti
               compute == ComputeCores(cores)
               available == Len(compute)
           IN  /\ count \in Nat \ {0} /\ Len(cores) \in Nat \ {0} /\ DOMAIN cores = 1 .. Len(cores)
               /\ compute \in Seq(Nat) /\ available \in Nat \ {0}
               /\ \A x \in 1 .. available :
                     compute[x] \in {cores[k] : k \in DOMAIN cores} /\ (Len(cores) > 1 => compute[x] # cores[1])
               /\ \A x, y \in 1 .. available : compute[x] = compute[y] => x = y
               /\ \A k \in 1 .. Len(cores) : k > 1 \/ Len(cores) = 1 =>
                     \E x \in 1 .. available : compute[x] = cores[k]
               /\ \A k \in 0 .. count - 1 :
                     /\ Partition(k).shared <=> cfg.affinity /\ count > available
                     /\ CpusOf(Partition(k)) =
                           IF cfg.affinity THEN {compute[x] : x \in Places(k, count, available)} ELSE {}
<1> DEFINE cores == cfg.cores
           count == cfg.numPunti
           compute == ComputeCores(cores)
           available == Len(compute)
<1>1. /\ cores \in Seq(Nat) /\ cores # << >> /\ cfg.affinity \in BOOLEAN /\ count \in Nat \ {0}
      /\ \A k, l \in 1 .. Len(cores) : cores[k] = cores[l] => k = l
  BY DEF IInv, OfAMachine, Config
<1>2. /\ compute \in Seq(Nat) /\ available \in Nat \ {0}
      /\ \A x \in 1 .. available :
            compute[x] \in {cores[k] : k \in DOMAIN cores} /\ (Len(cores) > 1 => compute[x] # cores[1])
      /\ \A x, y \in 1 .. available : compute[x] = compute[y] => x = y
      /\ \A k \in 1 .. Len(cores) : k > 1 \/ Len(cores) = 1 =>
            \E x \in 1 .. available : compute[x] = cores[k]
  BY <1>1, Shared
<1>3. ASSUME NEW k \in 0 .. count - 1
      PROVE  /\ Partition(k).shared <=> cfg.affinity /\ count > available
             /\ CpusOf(Partition(k)) =
                   IF cfg.affinity THEN {compute[x] : x \in Places(k, count, available)} ELSE {}
  <2> DEFINE p == Partition(k)
             aff == cfg.affinity
  <2>1. p = ComputeCpuPartition(cfg.affinity, k, count, cores)
    BY DEF Partition
  <2>2. compute = ComputeCores(cores)
    OBVIOUS
  <2>3. /\ aff \in BOOLEAN /\ p = ComputeCpuPartition(aff, k, count, cores)
        /\ compute \in Seq(Nat) /\ Len(compute) \in Nat \ {0}
        /\ count \in Nat \ {0} /\ k \in 0 .. count - 1
    BY <1>1, <1>2, <2>1
  <2> HIDE DEF p, cores, count, compute, aff
  <2>4. IsShare(p, aff, compute, k, count)
    BY ONLY <2>2, <2>3, ShareOf, Zenon
  <2>5. p.shared <=> aff /\ count > Len(compute)
    BY <2>4 DEF IsShare
  <2>6. CpusOf(p) = IF aff THEN {compute[x] : x \in Places(k, count, Len(compute))} ELSE {}
    BY <2>4 DEF IsShare
  <2>7. QED
    BY <2>5, <2>6 DEF p, aff
<1>4. Len(cores) \in Nat \ {0} /\ DOMAIN cores = 1 .. Len(cores)
  BY <1>1, EmptySeq, LenProperties
<1>5. QED
  BY <1>1, <1>2, <1>3, <1>4

\* The shares of all points, taken together.
LEMMA ExclusiveSlices == IInv => SlicesExclusive
<1> DEFINE cores == cfg.cores
           count == cfg.numPunti
           compute == ComputeCores(cores)
           available == Len(compute)
<1>1. ASSUME IInv, NEW i \in 0 .. count - 1, NEW j \in 0 .. count - 1
      PROVE  /\ CpusOf(Partition(i)) \subseteq {cores[k] : k \in DOMAIN cores}
             /\ cfg.affinity => CpusOf(Partition(i)) # {}
             /\ Len(cores) > 1 => cores[1] \notin CpusOf(Partition(i))
             /\ i # j /\ ~Partition(i).shared => CpusOf(Partition(i)) \cap CpusOf(Partition(j)) = {}
  <2>1. /\ count \in Nat \ {0} /\ available \in Nat \ {0}
        /\ \A x \in 1 .. available :
              compute[x] \in {cores[k] : k \in DOMAIN cores} /\ (Len(cores) > 1 => compute[x] # cores[1])
        /\ \A x, y \in 1 .. available : compute[x] = compute[y] => x = y
    BY <1>1, SharesOfCores
  <2>2. \A k \in 0 .. count - 1 :
           /\ Partition(k).shared <=> cfg.affinity /\ count > available
           /\ CpusOf(Partition(k)) =
                 IF cfg.affinity THEN {compute[x] : x \in Places(k, count, available)} ELSE {}
    BY <1>1, SharesOfCores
  <2>3. /\ \A k \in 0 .. count - 1 : Places(k, count, available) \subseteq 1 .. available
                                     /\ Places(k, count, available) # {}
        /\ i # j /\ count <= available => Places(i, count, available) \cap Places(j, count, available) = {}
    BY <1>1, <2>1, PlacesApart
  <2> HIDE DEF cores, count, compute, available
  <2>4. CASE ~cfg.affinity
    BY <2>2, <2>4
  <2>5. CASE cfg.affinity
    <3>0. /\ CpusOf(Partition(i)) = {compute[x] : x \in Places(i, count, available)}
          /\ CpusOf(Partition(j)) = {compute[x] : x \in Places(j, count, available)}
          /\ Partition(i).shared <=> count > available
      BY <2>2, <2>5
    <3>1. CpusOf(Partition(i)) \subseteq {cores[k] : k \in DOMAIN cores} /\ CpusOf(Partition(i)) # {}
      BY <2>1, <2>3, <3>0
    <3>2. Len(cores) > 1 => cores[1] \notin CpusOf(Partition(i))
      BY <2>1, <2>3, <3>0
    <3>3. ASSUME i # j, ~Partition(i).shared
          PROVE  CpusOf(Partition(i)) \cap CpusOf(Partition(j)) = {}
      <4>1. count <= available
        BY <2>1, <2>1, <3>0, <3>3
      <4>2. Places(i, count, available) \cap Places(j, count, available) = {}
        BY <2>3, <3>3, <4>1
      <4>3. /\ Places(i, count, available) \subseteq 1 .. available
            /\ Places(j, count, available) \subseteq 1 .. available
        BY <2>3
      <4>4. QED
        BY <2>1, <3>0, <4>2, <4>3
    <3>4. QED
      BY <3>1, <3>2, <3>3
  <2>6. QED
    BY <2>4, <2>5
<1>2. ASSUME IInv, cfg.affinity, NEW k \in DOMAIN cores, k > 1 \/ Len(cores) = 1
      PROVE  \E i \in 0 .. count - 1 : cores[k] \in CpusOf(Partition(i))
  <2>1. PICK x \in 1 .. available : compute[x] = cores[k]
    BY <1>2, SharesOfCores
  <2>2. count \in Nat \ {0} /\ available \in Nat \ {0}
    BY <1>2, SharesOfCores
  <2> HIDE DEF count, available
  <2>3. PICK i \in 0 .. count - 1 : x \in Places(i, count, available)
    BY <2>1, <2>2, PlacesCover
  <2>4. CpusOf(Partition(i)) = {compute[y] : y \in Places(i, count, available)}
    BY <1>2, SharesOfCores DEF count, available
  <2>5. QED
    BY <2>1, <2>3, <2>4
<1>3. QED
  BY <1>1, <1>2 DEF SlicesExclusive

\* For every machine and every number of points, the slices of different points
\* share a core only if they are flagged shared, none has the reserved one, and
\* together they have all others.
THEOREM SlicesAreExclusive == Spec => []SlicesExclusive
BY ExclusiveSlices, Invariance, PTL

--------------------------------------------------------------------------------

\* The options of a session.

\* One affinity for each logical processor of a share besides the first.
LEMMA OneEach ==
    ASSUME NEW p, NEW s \in Seq(Nat), p.logicalProcessors = s
    PROVE  /\ Affinities(p) # << >> => Len(s) > 1 /\ Len(Affinities(p)) = Len(s) - 1
           /\ \A t \in DOMAIN Affinities(p) : t + 1 \in 2 .. Len(s) /\ Affinities(p)[t] = s[t + 1] + 1
<1>1. Affinities(p) = [t \in 1 .. Len(s) - 1 |-> s[t + 1] + 1]
  BY DEF Affinities
<1>2. Len(s) \in Nat
  BY LenProperties
<1> DEFINE n == Len(s) - 1
           a == [t \in 1 .. n |-> s[t + 1] + 1]
<1>3. DOMAIN a = 1 .. n /\ \A t \in 1 .. n : a[t] = s[t + 1] + 1
  OBVIOUS
<1>4. n \in Int /\ \A t \in 1 .. n : t + 1 \in 2 .. Len(s)
  BY <1>2
<1>5. CASE Len(s) > 1
  <2>0. n \in Nat
    BY <1>2, <1>5
  <2>1. \A t \in 1 .. n : a[t] \in Nat
    BY <1>2, <1>3, <1>4, ElementOfSeq
  <2> HIDE DEF a
  <2>2. a \in [1 .. n -> Nat]
    <3>1. a = [t \in 1 .. n |-> a[t]]
      BY DEF a
    <3>2. QED
      BY <2>1, <3>1
  <2>3. a \in Seq(Nat)
    BY <2>0, <2>2, SeqDef
  <2>4. DOMAIN a = 1 .. Len(a) /\ Len(a) \in Nat
    BY <2>3, LenProperties
  <2> HIDE DEF n
  <2>5. Len(a) = n
    BY <1>3, <2>0, <2>4
  <2>6. a = Affinities(p)
    BY <1>1 DEF a, n
  <2>8. QED
    BY <1>3, <1>4, <1>5, <2>5, <2>6 DEF n
<1>6. CASE ~(Len(s) > 1)
  <2>1. 1 .. n = {}
    <3>1. n \in Int /\ n < 1
      BY <1>2, <1>6
    <3> HIDE DEF n
    <3>2. \A t \in 1 .. n : FALSE
      BY <3>1
    <3>3. QED
      BY <3>2
  <2>2. Affinities(p) = [t \in {} |-> s[t + 1] + 1]
    BY <1>1, <2>1
  <2>3. Affinities(p) = << >> /\ DOMAIN Affinities(p) = {}
    BY <2>2
  <2>4. QED
    BY <2>3
<1>7. QED
  BY <1>5, <1>6

\* Whatever provider a session gets and whatever share its point has: it has a
\* thread, ONNX Runtime gets the number of affinities it asks for, each is a
\* processor of the share, and who spins does so on no other point's processor.
THEOREM PoolsFit == Spec => []PoolFitsSlice
<1>1. IInv => PoolFitsSlice
  <2> DEFINE compute == ComputeCores(cfg.cores)
             slice == Partition(cfg.index)
             lp == slice.logicalProcessors
             shared == slice.shared
             n == Len(cfg.cores)
  <2> SUFFICES ASSUME IInv, NEW i \in DOMAIN options
      PROVE  /\ options[i].threads >= 1
             /\ options[i].affinities # << >> => Len(options[i].affinities) = options[i].threads - 1
             /\ \A k \in DOMAIN options[i].affinities :
                  \E c \in 2 .. Len(lp) : options[i].affinities[k] = lp[c] + 1
             /\ options[i].spinning => options[i].threads = Len(lp)
             /\ options[i].spinning => \A j \in (0 .. cfg.numPunti - 1) \ {cfg.index} :
                                         CpusOf(Partition(j)) \cap CpusOf(slice) = {}
    BY DEF PoolFitsSlice
  <2>1. PICK answer \in cfg.answers : options[i] = Options(cfg.build, answer, slice, n)
    <3>1. options[i] \in MayGet(cfg)
      <4>1. options \in Seq(MayGet(cfg))
        BY DEF IInv, OptionsChosen
      <4>2. i \in 1 .. Len(options)
        BY <4>1, LenProperties
      <4>3. QED
        BY <4>1, <4>2, ElementOfSeq
    <3>2. QED
      BY <3>1 DEF MayGet, Partition
  <2>2. n \in Nat
    <3>1. cfg.cores \in Seq(Nat)
      BY DEF IInv, OfAMachine, Config
    <3>2. QED
      BY <3>1, LenProperties
  <2>3. lp \in Seq(Nat)
    <3>1. /\ cfg.cores \in Seq(Nat) /\ cfg.cores # << >> /\ cfg.affinity \in BOOLEAN
          /\ cfg.numPunti \in Nat \ {0} /\ cfg.index \in 0 .. cfg.numPunti - 1
          /\ \A k, l \in 1 .. Len(cfg.cores) : cfg.cores[k] = cfg.cores[l] => k = l
      BY DEF IInv, OfAMachine, Config
    <3>2. compute \in Seq(Nat) /\ Len(compute) \in Nat \ {0}
      BY <3>1, Shared
    <3> DEFINE cores == cfg.cores
               aff == cfg.affinity
               count == cfg.numPunti
               index == cfg.index
    <3>3. slice = ComputeCpuPartition(aff, index, count, cores) /\ compute = ComputeCores(cores)
      BY DEF Partition
    <3>4. aff \in BOOLEAN /\ count \in Nat \ {0} /\ index \in 0 .. count - 1
      BY <3>1
    <3> HIDE DEF compute, cores, aff, count, index, slice
    <3>5. slice.logicalProcessors \in Seq(Nat)
      <4>1. IsShare(slice, aff, compute, index, count)
        BY ONLY <3>2, <3>3, <3>4, ShareOf, Zenon
      <4>2. QED
        BY <4>1 DEF IsShare
    <3>6. QED
      BY <3>5
  <2> DEFINE hw == HardwareAccelerated(cfg.build, answer)
             o == options[i]
  <2>4. /\ o.threads = IF hw THEN 1 ELSE SliceThreads(slice, n)
        /\ o.affinities = IF hw THEN << >> ELSE Affinities(slice)
        /\ o.spinning <=> ~hw /\ DedicatedSlice(slice)
    <3> DEFINE threads == IF hw THEN 1 ELSE SliceThreads(slice, n)
               affinities == IF hw THEN << >> ELSE Affinities(slice)
               spinning == ~hw /\ DedicatedSlice(slice)
    <3>1. o = [gpu |-> hw, threads |-> threads, affinities |-> affinities, spinning |-> spinning]
      BY <2>1 DEF Options
    <3> HIDE DEF hw, threads, affinities, spinning, o
    <3>2. o.threads = threads /\ o.affinities = affinities /\ o.spinning = spinning
      BY <3>1
    <3>3. QED
      BY <3>2 DEF threads, affinities, spinning
  <2>5. SliceThreads(slice, n) = IF lp = << >> THEN IF n > 1 THEN n - 1 ELSE 1 ELSE Len(lp)
    BY DEF SliceThreads
  <2>6. DedicatedSlice(slice) <=> lp # << >> /\ ~shared
    BY DEF DedicatedSlice
  <2>7. /\ Affinities(slice) # << >> => Len(lp) > 1 /\ Len(Affinities(slice)) = Len(lp) - 1
        /\ \A t \in DOMAIN Affinities(slice) :
              t + 1 \in 2 .. Len(lp) /\ Affinities(slice)[t] = lp[t + 1] + 1
    BY <2>3, OneEach
  <2>8. Len(lp) \in Nat /\ (lp # << >> => Len(lp) >= 1) /\ Len(<< >>) = 0 /\ DOMAIN << >> = {}
    BY <2>3, EmptySeq, LenProperties
  <2>14. ~shared => \A j \in (0 .. cfg.numPunti - 1) \ {cfg.index} :
                       CpusOf(Partition(j)) \cap CpusOf(slice) = {}
    <3>1. cfg.index \in 0 .. cfg.numPunti - 1
      BY DEF IInv, OfAMachine, Config
    <3>2. ASSUME ~shared, NEW j \in 0 .. cfg.numPunti - 1, j # cfg.index
          PROVE  CpusOf(slice) \cap CpusOf(Partition(j)) = {}
      BY <3>1, <3>2, ExclusiveSlices DEF SlicesExclusive
    <3>3. QED
      BY <3>2
  <2> HIDE DEF lp, slice, shared, n, hw, o
  <2>9. o.threads >= 1
    BY <2>2, <2>4, <2>5, <2>8
  <2>10. o.affinities # << >> => Len(o.affinities) = o.threads - 1
    BY <2>4, <2>5, <2>7, <2>8
  <2>11. \A k \in DOMAIN o.affinities : \E c \in 2 .. Len(lp) : o.affinities[k] = lp[c] + 1
    BY <2>4, <2>7, <2>8
  <2>12. o.spinning => o.threads = Len(lp) /\ ~shared
    BY <2>4, <2>5, <2>6
  <2>13. QED
    BY <2>9, <2>10, <2>11, <2>12, <2>14 DEF o, lp, shared, slice
<1>2. QED
  BY <1>1, Invariance, PTL

--------------------------------------------------------------------------------

\* The rows of the resize tables.

\* A position that is cut to a whole pixel: at most one pixel further, and never
\* before the image begins.
LEMMA Cut ==
    ASSUME NEW in \in Nat \ {0}, NEW out \in Nat \ {0}, NEW position \in Int,
           NEW x \in Truncated(in, out, position)
    PROVE  /\ x \in Nat
           /\ x # 0 => (2 * out) * x <= position
           /\ position <= (2 * out) * (x + 1)
<1> DEFINE D == 2 * out
           w == position \div D
           r == position % D
<1>1. D \in Nat \ {0}
  OBVIOUS
<1>2. CASE position <= 0
  <2>1. x = 0
    BY <1>2 DEF Truncated
  <2>2. QED
    BY <1>1, <1>2, <2>1
<1>3. CASE ~(position <= 0)
  <2>1. x = w \/ (r = 0 /\ x = w - 1)
    BY <1>3 DEF Truncated
  <2>2. w \in Int /\ r \in 0 .. D - 1 /\ position = (D * w) + r
    BY <1>1, Division
  <2> HIDE DEF w, r, D
  <2>3. /\ D * w \in Int /\ D * (w + 1) = D * w + D /\ D * (w - 1) = D * w - D
    BY <1>1, <2>2
  <2>4. D * 0 < D * (w + 1) /\ (r = 0 => D * 0 < D * w)
    <3>1. D * 0 = 0
      BY <1>1
    <3>2. QED
      BY <1>1, <1>3, <2>2, <2>3, <3>1
  <2>5. 0 < w + 1 /\ (r = 0 => 0 < w)
    BY <1>1, <2>2, <2>4, Cancels
  <2>6. x \in Nat
    BY <2>1, <2>2, <2>5
  <2>7. D * x <= position /\ position <= D * (x + 1)
    <3>1. CASE x = w
      BY <1>1, <2>2, <2>3, <3>1
    <3>2. CASE r = 0 /\ x = w - 1
      <4>1. x + 1 = w
        BY <2>2, <3>2
      <4>2. QED
        BY <1>1, <2>2, <2>3, <3>2, <4>1
    <3>3. QED
      BY <2>1, <3>1, <3>2
  <2>8. QED
    BY <2>6, <2>7 DEF D
<1>4. QED
  BY <1>2, <1>3

\* The support of the filter is at least a pixel of either image on both sides.
LEMMA SupportOf ==
    ASSUME NEW in \in Nat \ {0}, NEW out \in Nat \ {0}
    PROVE  /\ Support(in, out) \in Nat \ {0}
           /\ Support(in, out) >= 2 * in /\ Support(in, out) >= 2 * out
           /\ in = out => Support(in, out) = 2 * out
<1>1. in \in Int /\ out \in Int
  OBVIOUS
<1>2. Max({in, out}) = IF in >= out THEN in ELSE out
  BY ONLY <1>1, MinMax
<1>3. QED
  BY <1>2 DEF Support

\* A pixel counts if it is nearer than the support.
LEMMA Weighs ==
    ASSUME NEW in \in Nat \ {0}, NEW out \in Nat \ {0}, NEW o \in Nat, NEW p \in Nat,
           NEW d \in Int, d = (2 * out) * p + out - Center(in, out, o)
    PROVE  /\ Weight(in, out, o, p) \in Nat
           /\ Weight(in, out, o, p) > 0 <=> d < Support(in, out) /\ -d < Support(in, out)
<1> DEFINE S == Support(in, out)
           abs == IF d < 0 THEN -d ELSE d
           rest == S - abs
<1>1. S \in Nat
  BY SupportOf
<1>2. Distance(in, out, o, p) = abs
  BY DEF Distance, HalfPixel
<1>3. Weight(in, out, o, p) = Max({0, rest})
  BY <1>2 DEF Weight
<1> HIDE DEF S
<1>4. rest \in Int /\ abs \in Int
  BY <1>1
<1>5. rest > 0 <=> d < S /\ -d < S
  BY <1>1
<1> HIDE DEF rest, abs
<1>6. Max({0, rest}) = IF 0 >= rest THEN 0 ELSE rest
  <2>1. 0 \in Int
    OBVIOUS
  <2>2. QED
    BY ONLY <1>4, <2>1, MinMax
<1>7. QED
  BY <1>3, <1>4, <1>5, <1>6 DEF S

\* The middle of an output pixel is inside the input image.
LEMMA Centered ==
    ASSUME NEW in \in Nat \ {0}, NEW out \in Nat \ {0}, NEW o \in 0 .. out - 1
    PROVE  /\ Center(in, out, o) \in Nat
           /\ Center(in, out, o) + in <= (2 * out) * in
           /\ Center(in, out, o) >= in
<1> DEFINE k == 2 * o + 1
<1>1. k \in Nat /\ 1 <= k /\ k + 1 <= 2 * out /\ in \in Nat /\ 2 * out \in Int
  OBVIOUS
<1>2. Center(in, out, o) = in * k
  <2>1. k * in = in * k
    BY <1>1
  <2>2. QED
    BY <2>1 DEF Center
<1>3. (2 * out) * in = in * (2 * out)
  BY <1>1
<1> HIDE DEF k
<1>4. in * 1 <= in * k /\ in * (k + 1) <= in * (2 * out)
  BY <1>1, Grows
<1>5. in * k \in Nat /\ in * 1 = in /\ in * (k + 1) = in * k + in
  BY <1>1
<1>6. QED
  BY <1>2, <1>3, <1>4, <1>5

\* The window of a row begins in the image and ends in it, is not longer than a
\* row of the table, and no pixel outside it counts.
LEMMA Windows ==
    ASSUME NEW in \in Nat \ {0}, NEW out \in Nat \ {0}, NEW o \in 0 .. out - 1,
           NEW xmin \in XMins(in, out, o), NEW xmax \in XMaxs(in, out, o)
    PROVE  /\ xmin \in 0 .. in - 1 /\ xmax \in Nat /\ xmax <= in
           /\ Ksize(in, out) \in Nat /\ xmax <= xmin + Ksize(in, out)
           /\ \A p \in 0 .. in - 1 : p < xmin \/ p >= xmax => Weight(in, out, o, p) = 0
<1> DEFINE D == 2 * out
           C == Center(in, out, o)
           S == Support(in, out)
           h == (S + D - 1) \div D
           before == C - S + out
           after == C + S + out
<1>1. D \in Nat \ {0} /\ C \in Nat /\ C + in <= D * in /\ S \in Nat /\ S >= D
  BY Centered, SupportOf
<1>2. Ksize(in, out) = 2 * h + 1
  BY DEF Ksize
<1>3. h \in Int /\ S <= D * h
  <2> DEFINE a == S + D - 1
  <2>1. a \in Int
    BY <1>1
  <2> HIDE DEF D
  <2>2. a \div D \in Int /\ a % D \in 0 .. D - 1 /\ a = (D * (a \div D)) + (a % D)
    <3> HIDE DEF a
    <3>1. QED
      BY <1>1, <2>1, Division
  <2>3. QED
    BY <1>1, <2>2
<1>4. before \in Int /\ after \in Int
  BY <1>1
<1>5. PICK x \in Truncated(in, out, after) : xmax = Min({x, in})
  BY DEF XMaxs, HalfPixel
<1>6. xmin \in Truncated(in, out, before)
  BY DEF XMins, HalfPixel
<1> HIDE DEF h
<1>7. x \in Nat /\ (x # 0 => D * x <= after) /\ after <= D * (x + 1)
  BY <1>4, <1>5, Cut
<1>8. xmin \in Nat /\ (xmin # 0 => D * xmin <= before) /\ before <= D * (xmin + 1)
  BY <1>4, <1>6, Cut
<1>9. xmax = IF x <= in THEN x ELSE in
  <2>1. x \in Int /\ in \in Int
    BY <1>7
  <2>2. QED
    BY ONLY <1>5, <2>1, MinMax
<1>10. 2 * out = D
  OBVIOUS
<1> HIDE DEF D, C, S
<1>11. xmin \in 0 .. in - 1
  <2>1. ASSUME xmin # 0
        PROVE  xmin < in
    <3>1. D * xmin < D * in
      <4>1. D * xmin \in Int /\ D * in \in Int
        BY <1>1, <1>8
      <4>2. before < D * in
        BY <1>1, <1>10, <4>1
      <4>3. QED
        BY <1>4, <1>8, <2>1, <4>1, <4>2
    <3>2. QED
      BY <1>1, <1>8, <3>1, Cancels
  <2>2. QED
    BY <1>8, <2>1
<1>12. xmax \in Nat /\ xmax <= in
  BY <1>7, <1>9
<1>13. h \in Nat
  <2>1. D * 0 < D * h
    <3>1. D * 0 = 0 /\ D * h \in Int
      BY <1>1, <1>3
    <3>2. QED
      BY <1>1, <1>3, <3>1
  <2>2. 0 < h
    BY <1>1, <1>3, <2>1, Cancels
  <2>3. QED
    BY <1>3, <2>2
<1>14. x <= xmin + (2 * h + 1)
  <2>1. ASSUME x # 0
        PROVE  x < xmin + (2 * h + 1) + 1
    <3> DEFINE end == xmin + (2 * h + 1)
    <3>1. end \in Nat
      BY <1>8, <1>13
    <3>2. D * end = D * (xmin + 1) + 2 * (D * h)
      BY <1>1, <1>8, <1>13
    <3>3. D * (end + 1) = D * end + D
      BY <1>1, <3>1
    <3>4. D * x \in Int /\ D * end \in Int /\ D * (xmin + 1) \in Int /\ D * h \in Int
      BY <1>1, <1>7, <1>8, <1>13, <3>1
    <3>5. after = before + 2 * S
      BY <1>1
    <3> HIDE DEF end, before, after
    <3>6. D * x <= D * (xmin + 1) + 2 * (D * h)
      BY <1>1, <1>3, <1>4, <1>7, <1>8, <2>1, <3>4, <3>5
    <3>7. D * x < D * (end + 1)
      BY <1>1, <3>2, <3>3, <3>4, <3>6
    <3>8. x < end + 1
      BY <1>1, <1>7, <3>1, <3>7, Cancels
    <3>9. QED
      BY <3>8 DEF end
  <2>2. QED
    BY <1>7, <1>8, <1>13, <2>1
<1>15. ASSUME NEW p \in 0 .. in - 1, p < xmin \/ p >= xmax
       PROVE  Weight(in, out, o, p) = 0
  <2> DEFINE d == D * p + out - C
  <2>1. p \in Nat /\ o \in Nat /\ D * p \in Int /\ d \in Int
    BY <1>1
  <2>2. D * (p + 1) = D * p + D
    BY <1>1
  <2>3. ASSUME p < xmin PROVE -d >= S
    <3>1. D * (p + 1) <= D * xmin
      BY <1>1, <1>8, <2>1, <2>3, Grows
    <3>2. D * (p + 1) <= before
      <4>1. xmin # 0 /\ D * xmin \in Int /\ D * (p + 1) \in Int
        BY <1>1, <1>8, <2>1, <2>3
      <4>2. QED
        BY <1>4, <1>8, <3>1, <4>1
    <3>3. QED
      BY <1>1, <1>10, <2>1, <2>2, <3>2
  <2>4. ASSUME p >= xmax PROVE d >= S
    <3>1. x <= p
      BY <1>7, <1>9, <2>4
    <3>2. D * (x + 1) <= D * (p + 1)
      BY <1>1, <1>7, <2>1, <3>1, Grows
    <3>3. after <= D * (p + 1)
      <4>1. D * (x + 1) \in Int /\ D * (p + 1) \in Int
        BY <1>1, <1>7, <2>1
      <4>2. QED
        BY <1>4, <1>7, <3>2, <4>1
    <3>4. QED
      BY <1>1, <1>10, <2>1, <2>2, <3>3
  <2>5. d >= S \/ -d >= S
    BY <2>3, <2>4, <1>15
  <2>6. /\ Weight(in, out, o, p) \in Nat
        /\ Weight(in, out, o, p) > 0 <=> d < S /\ -d < S
    BY <2>1, Weighs DEF S, C, D
  <2>7. QED
    BY <1>1, <2>1, <2>5, <2>6
<1>16. xmax <= xmin + (2 * h + 1)
  BY <1>7, <1>8, <1>9, <1>12, <1>13, <1>14
<1>17. QED
  BY <1>2, <1>11, <1>12, <1>13, <1>15, <1>16

\* The pixel under the middle of an output pixel counts.
LEMMA MiddleCounts ==
    ASSUME NEW in \in Nat \ {0}, NEW out \in Nat \ {0}, NEW o \in 0 .. out - 1
    PROVE  \E p \in 0 .. in - 1 : Weight(in, out, o, p) > 0
<1> DEFINE D == 2 * out
           C == Center(in, out, o)
           S == Support(in, out)
           p == C \div D
           r == C % D
           d == D * p + out - C
<1>1. D \in Nat \ {0} /\ C \in Nat /\ C + in <= D * in /\ S \in Nat /\ S >= D /\ D = 2 * out
  BY Centered, SupportOf
<1> HIDE DEF D, C, S
<1>2. p \in Int /\ r \in 0 .. D - 1 /\ C = (D * p) + r
  <2>1. C \in Int /\ D \in Nat \ {0}
    BY <1>1
  <2>2. QED
    BY ONLY <2>1, Division
<1> HIDE DEF p, r
<1>3. D * p \in Int /\ D * in \in Int /\ D * (p + 1) = D * p + D /\ D * 0 = 0
  BY <1>1, <1>2
<1>4. D * p < D * in /\ D * 0 < D * (p + 1)
  BY <1>1, <1>2, <1>3
<1>5. p < in /\ 0 < p + 1
  BY <1>1, <1>2, <1>4, Cancels
<1>6. p \in 0 .. in - 1
  BY <1>2, <1>5
<1>7. d \in Int /\ d < S /\ -d < S
  BY <1>1, <1>2, <1>3
<1>8. Weight(in, out, o, p) > 0 <=> d < S /\ -d < S
  <2>1. o \in Nat /\ p \in Nat /\ d = (2 * out) * p + out - Center(in, out, o)
    BY <1>6 DEF D, C
  <2> HIDE DEF d
  <2>2. QED
    BY <1>7, <2>1, Weighs DEF S
<1>9. QED
  BY <1>6, <1>7, <1>8

\* Between images of the same size a pixel counts for itself and for no other.
LEMMA SameSize ==
    ASSUME NEW in \in Nat \ {0}, NEW o \in 0 .. in - 1, NEW p \in 0 .. in - 1
    PROVE  Weight(in, in, o, p) > 0 <=> p = o
<1> DEFINE D == 2 * in
           d == D * p + in - Center(in, in, o)
<1>1. D \in Nat \ {0} /\ o \in Nat /\ p \in Nat /\ D = 2 * in
  OBVIOUS
<1>2. Center(in, in, o) = D * o + in
  BY DEF Center
<1>3. Support(in, in) = D
  BY SupportOf
<1> HIDE DEF D
<1>4. D * p \in Int /\ D * o \in Int
  BY <1>1
<1>5. d = D * p - D * o /\ d \in Int
  BY <1>2, <1>4
<1>6. Weight(in, in, o, p) > 0 <=> d < D /\ -d < D
  <2>1. d = (2 * in) * p + in - Center(in, in, o)
    BY DEF D
  <2> HIDE DEF d
  <2>2. QED
    <3>1. in \in Nat \ {0} /\ o \in Nat /\ p \in Nat /\ d \in Int
      BY <1>1, <1>5
    <3>2. Weight(in, in, o, p) > 0 <=> d < Support(in, in) /\ -d < Support(in, in)
      BY ONLY <2>1, <3>1, Weighs
    <3>3. QED
      BY <1>3, <3>2
<1>7. p < o => -d >= D
  <2>1. D * (p + 1) = D * p + D
    BY <1>1
  <2>2. p < o => D * (p + 1) <= D * o
    BY <1>1, Grows
  <2>3. QED
    BY <1>1, <1>4, <1>5, <2>1, <2>2
<1>8. o < p => d >= D
  <2>1. D * (o + 1) = D * o + D
    BY <1>1
  <2>2. o < p => D * (o + 1) <= D * p
    BY <1>1, Grows
  <2>3. QED
    BY <1>1, <1>4, <1>5, <2>1, <2>2
<1>9. p = o => d = 0
  BY <1>4, <1>5
<1> HIDE DEF d
<1>10. QED
  BY <1>1, <1>5, <1>6, <1>7, <1>8, <1>9

\* A row, applied to an image, is the filter.
LEMMA Applies ==
    ASSUME NEW in \in Nat \ {0}, NEW out \in Nat \ {0}, NEW o \in 0 .. out - 1,
           NEW xmin \in XMins(in, out, o), NEW xmax \in XMaxs(in, out, o),
           NEW table, table.bound = xmin,
           table.weights = [t \in 0 .. xmax - xmin - 1 |-> Weight(in, out, o, xmin + t)],
           NEW p \in 0 .. in - 1
    PROVE  Applied(in, out, table, p) = Weight(in, out, o, p)
<1> DEFINE k == Ksize(in, out)
           t == p - xmin
           room == in - xmin
<1>1. /\ xmin \in 0 .. in - 1 /\ xmax \in Nat /\ xmax <= in
      /\ k \in Nat /\ xmax <= xmin + k
      /\ p < xmin \/ p >= xmax => Weight(in, out, o, p) = 0
  <2>1. /\ xmin \in 0 .. in - 1 /\ xmax \in Nat /\ xmax <= in
        /\ Ksize(in, out) \in Nat /\ xmax <= xmin + Ksize(in, out)
        /\ \A q \in 0 .. in - 1 : q < xmin \/ q >= xmax => Weight(in, out, o, q) = 0
    BY Windows
  <2>2. QED
    BY <2>1
<1>2. t \in Int /\ room \in Int /\ xmin + t = p
  BY <1>1
<1>3. Min({k, room}) = IF k <= room THEN k ELSE room
  <2>1. k \in Int
    BY <1>1
  <2> HIDE DEF k, room
  <2>2. QED
    BY ONLY <1>2, <2>1, MinMax
<1>4. DOMAIN table.weights = 0 .. xmax - xmin - 1
  OBVIOUS
<1>5. CASE t \in 0 .. xmax - xmin - 1
  <2>1. t \in 0 .. Min({k, room}) - 1
    BY <1>1, <1>2, <1>3, <1>5
  <2>2. table.weights[t] = Weight(in, out, o, xmin + t)
    BY <1>5
  <2>3. Applied(in, out, table, p) = table.weights[t]
    BY <1>4, <1>5, <2>1 DEF Applied
  <2>4. QED
    BY <1>2, <2>2, <2>3
<1>6. CASE t \notin 0 .. xmax - xmin - 1
  <2>1. Applied(in, out, table, p) = 0
    BY <1>4, <1>6 DEF Applied
  <2>2. p < xmin \/ p >= xmax
    BY <1>1, <1>6
  <2>3. QED
    BY <1>1, <2>1, <2>2
<1>7. QED
  BY <1>5, <1>6

\* Whatever the sizes of the images, and however a double is cut to an integer:
\* a row fits into the table, reads only pixels of the image and is the whole
\* triangle filter; for equal sizes it is the pixel itself.
THEOREM RowsAreTheFilter == Spec => []RowIsTheFilter
<1>1. IInv => RowIsTheFilter
  <2> SUFFICES ASSUME IInv, row # << >> PROVE RowIsTheFilter
    BY DEF RowIsTheFilter
  <2>1. PICK in \in Nat \ {0}, out \in Nat \ {0} : \E o \in 0 .. out - 1 : \E r \in Rows(in, out, o) :
           row = [axis |-> [in |-> in, out |-> out], o |-> o, bound |-> r.bound, weights |-> r.weights]
    BY DEF IInv, RowOfAxis
  <2>2. PICK o \in 0 .. out - 1 : \E r \in Rows(in, out, o) :
           row = [axis |-> [in |-> in, out |-> out], o |-> o, bound |-> r.bound, weights |-> r.weights]
    BY <2>1
  <2>3. PICK xmin \in XMins(in, out, o), xmax \in XMaxs(in, out, o) : LET r == Row(in, out, o, xmin, xmax) IN
           row = [axis |-> [in |-> in, out |-> out], o |-> o, bound |-> r.bound, weights |-> r.weights]
    BY <2>2 DEF Rows
  <2>4. /\ row.axis.in = in /\ row.axis.out = out /\ row.o = o /\ row.bound = xmin
        /\ row.weights = [t \in 0 .. xmax - xmin - 1 |-> Weight(in, out, o, xmin + t)]
    BY <2>3 DEF Row
  <2>5. /\ xmin \in 0 .. in - 1 /\ xmax \in Nat
        /\ Ksize(in, out) \in Nat /\ xmax <= xmin + Ksize(in, out)
    BY Windows
  <2>6. DOMAIN row.weights \subseteq 0 .. Ksize(in, out) - 1
    <3>1. DOMAIN row.weights = 0 .. xmax - xmin - 1
      BY <2>4
    <3>2. QED
      BY <2>5, <3>1
  <2>7. \A p \in 0 .. in - 1 : Applied(in, out, row, p) = Weight(in, out, o, p)
    BY <2>4, Applies
  <2>8. \E p \in 0 .. in - 1 : Weight(in, out, o, p) > 0
    BY MiddleCounts
  <2>9. Identity(in, out) => \A p \in 0 .. in - 1 : (Applied(in, out, row, p) > 0) <=> p = o
    <3>1. CASE in = out
      <4>1. \A p \in 0 .. in - 1 : Weight(in, out, o, p) > 0 <=> p = o
        BY <3>1, SameSize
      <4>2. QED
        BY <2>7, <4>1
    <3>2. QED
      BY <3>1 DEF Identity
  <2>10. QED
    BY <2>4, <2>5, <2>6, <2>7, <2>8, <2>9 DEF RowIsTheFilter
<1>2. QED
  BY <1>1, Invariance, PTL

--------------------------------------------------------------------------------

\* The order of the steps.

Labels == Names \cup Passing
Things == Labels \X Nat

\* One sequence behind another.
LEMMA Joined ==
    ASSUME NEW s \in Seq(Things), NEW t \in Seq(Things)
    PROVE  /\ s \o t \in Seq(Things) /\ Len(s \o t) = Len(s) + Len(t)
           /\ Len(s) \in Nat /\ Len(t) \in Nat
           /\ \A n \in 1 .. Len(s) : (s \o t)[n] = s[n]
           /\ \A n \in 1 .. Len(t) : (s \o t)[Len(s) + n] = t[n]
<1>1. Len(s) \in Nat /\ Len(t) \in Nat
  BY LenProperties
<1>2. /\ s \o t \in Seq(Things) /\ Len(s \o t) = Len(s) + Len(t)
      /\ \A n \in 1 .. Len(s) + Len(t) : (s \o t)[n] = IF n <= Len(s) THEN s[n] ELSE t[n - Len(s)]
  BY ConcatProperties
<1>3. ASSUME NEW n \in 1 .. Len(s)
      PROVE  (s \o t)[n] = s[n]
  BY <1>1, <1>2
<1>4. ASSUME NEW n \in 1 .. Len(t)
      PROVE  (s \o t)[Len(s) + n] = t[n]
  <2>1. /\ Len(s) + n \in 1 .. Len(s) + Len(t) /\ ~(Len(s) + n <= Len(s))
        /\ (Len(s) + n) - Len(s) = n
    BY <1>1
  <2>2. QED
    BY <1>2, <2>1
<1>5. QED
  BY <1>1, <1>2, <1>3, <1>4

\* Four sequences, each behind the one before.
IsChain(s, a, b, c, d) ==
    /\ s \in Seq(Things) /\ Len(s) = Len(a) + Len(b) + Len(c) + Len(d)
    /\ \A n \in 1 .. Len(a) : s[n] = a[n]
    /\ \A n \in 1 .. Len(b) : s[Len(a) + n] = b[n]
    /\ \A n \in 1 .. Len(c) : s[Len(a) + Len(b) + n] = c[n]
    /\ \A n \in 1 .. Len(d) : s[Len(a) + Len(b) + Len(c) + n] = d[n]

LEMMA Chained ==
    ASSUME NEW a \in Seq(Things), NEW b \in Seq(Things), NEW c \in Seq(Things), NEW d \in Seq(Things)
    PROVE  IsChain(((a \o b) \o c) \o d, a, b, c, d)
<1> DEFINE ab == a \o b
           abc == ab \o c
           s == abc \o d
<1>1. /\ ab \in Seq(Things) /\ Len(ab) = Len(a) + Len(b)
      /\ Len(a) \in Nat /\ Len(b) \in Nat
      /\ \A n \in 1 .. Len(a) : ab[n] = a[n]
      /\ \A n \in 1 .. Len(b) : ab[Len(a) + n] = b[n]
  BY Joined
<1> HIDE DEF ab
<1>2. /\ abc \in Seq(Things) /\ Len(abc) = Len(ab) + Len(c) /\ Len(c) \in Nat
      /\ \A n \in 1 .. Len(ab) : abc[n] = ab[n]
      /\ \A n \in 1 .. Len(c) : abc[Len(ab) + n] = c[n]
  BY <1>1, Joined
<1> HIDE DEF abc
<1>3. /\ s \in Seq(Things) /\ Len(s) = Len(abc) + Len(d) /\ Len(d) \in Nat
      /\ \A n \in 1 .. Len(abc) : s[n] = abc[n]
      /\ \A n \in 1 .. Len(d) : s[Len(abc) + n] = d[n]
  BY <1>2, Joined
<1> HIDE DEF s
<1> DEFINE ka == Len(a)
           kb == Len(b)
           kc == Len(c)
           kd == Len(d)
<1>4. ka \in Nat /\ kb \in Nat /\ kc \in Nat /\ kd \in Nat
  BY <1>1, <1>2, <1>3
<1>5. Len(ab) = ka + kb /\ Len(abc) = (ka + kb) + kc /\ Len(s) = ((ka + kb) + kc) + kd
  BY <1>1, <1>2, <1>3
<1>6. /\ \A n \in 1 .. ka : ab[n] = a[n]
      /\ \A n \in 1 .. kb : ab[ka + n] = b[n]
  BY <1>1
<1>7. /\ \A n \in 1 .. ka + kb : abc[n] = ab[n]
      /\ \A n \in 1 .. kc : abc[(ka + kb) + n] = c[n]
  BY <1>2, <1>5
<1>8. /\ \A n \in 1 .. (ka + kb) + kc : s[n] = abc[n]
      /\ \A n \in 1 .. kd : s[((ka + kb) + kc) + n] = d[n]
  BY <1>3, <1>5
<1> HIDE DEF ka, kb, kc, kd
<1>9. ASSUME NEW n \in 1 .. ka
      PROVE  s[n] = a[n]
  <2>1. n \in 1 .. ka + kb /\ n \in 1 .. (ka + kb) + kc
    BY <1>4
  <2>2. QED
    BY <2>1, <1>6, <1>7, <1>8
<1>10. ASSUME NEW n \in 1 .. kb
       PROVE  s[ka + n] = b[n]
  <2>1. ka + n \in 1 .. ka + kb /\ ka + n \in 1 .. (ka + kb) + kc
    BY <1>4
  <2>2. QED
    BY <2>1, <1>6, <1>7, <1>8
<1>11. ASSUME NEW n \in 1 .. kc
       PROVE  s[ka + kb + n] = c[n]
  <2>1. (ka + kb) + n \in 1 .. (ka + kb) + kc
    BY <1>4
  <2>2. QED
    BY <2>1, <1>7, <1>8
<1>12. /\ s \in Seq(Things) /\ Len(s) = ka + kb + kc + kd
       /\ \A n \in 1 .. ka : s[n] = a[n]
       /\ \A n \in 1 .. kb : s[ka + n] = b[n]
       /\ \A n \in 1 .. kc : s[ka + kb + n] = c[n]
       /\ \A n \in 1 .. kd : s[ka + kb + kc + n] = d[n]
  BY <1>3, <1>5, <1>8, <1>9, <1>10, <1>11
<1>13. QED
  BY <1>12 DEF IsChain, ab, abc, s, ka, kb, kc, kd

\* As many places, as many numbers.
LEMMA SameCount ==
    ASSUME NEW a \in Nat, NEW b \in Nat, 1 .. a = 1 .. b
    PROVE  a = b
<1>1. a = 0 \/ a \in 1 .. a
  OBVIOUS
<1>2. b = 0 \/ b \in 1 .. b
  OBVIOUS
<1>3. \A c \in 1 .. a : c <= b
  OBVIOUS
<1>4. \A c \in 1 .. b : c <= a
  OBVIOUS
<1>5. QED
  BY <1>1, <1>2, <1>3, <1>4

\* The same names for one session after the other.
LEMMA PerSessionPlaces ==
    ASSUME cfg.sessions \in Nat, NEW names \in Seq(Labels), NEW w \in Nat \ {0}, Len(names) = w
    PROVE  /\ PerSession(names) \in Seq(Things) /\ Len(PerSession(names)) = cfg.sessions * w
           /\ \A n \in 1 .. cfg.sessions * w : \E i \in 1 .. cfg.sessions : \E r \in 1 .. w :
                 n = w * (i - 1) + r /\ PerSession(names)[n] = << names[r], i >>
           /\ \A i \in 1 .. cfg.sessions : \A r \in 1 .. w :
                 /\ w * (i - 1) + r \in 1 .. cfg.sessions * w
                 /\ PerSession(names)[w * (i - 1) + r] = << names[r], i >>
<1> DEFINE N == cfg.sessions
           q(n) == (n - 1) \div w
           m(n) == (n - 1) % w
           F == [n \in 1 .. N * w |-> << names[m(n) + 1], q(n) + 1 >>]
<1>1. PerSession(names) = F
  BY DEF PerSession
<1>2. N \in Nat /\ N * w \in Nat /\ N * w = w * N
  OBVIOUS
<1>3. ASSUME NEW n \in 1 .. N * w
      PROVE  /\ q(n) + 1 \in 1 .. N /\ m(n) + 1 \in 1 .. w
             /\ n = w * ((q(n) + 1) - 1) + (m(n) + 1)
  <2>1. n - 1 \in Int
    BY <1>2
  <2>2. /\ (n - 1) \div w \in Int /\ (n - 1) % w \in 0 .. w - 1
        /\ n - 1 = (w * ((n - 1) \div w)) + ((n - 1) % w)
    BY <2>1, Division
  <2> DEFINE a == q(n)
             b == m(n)
  <2>3. a \in Int /\ b \in 0 .. w - 1 /\ n - 1 = (w * a) + b
    BY <2>2
  <2> HIDE DEF q, m, a, b, N
  <2>4. w * a \in Int /\ w * (a + 1) = w * a + w /\ w * 0 = 0 /\ w * N \in Int
    BY <1>2, <2>3
  <2>5. w * a < w * N /\ w * 0 < w * (a + 1)
    BY <1>2, <2>3, <2>4
  <2>6. a < N /\ 0 < a + 1
    BY <1>2, <2>3, <2>5, Cancels
  <2>7. a + 1 \in 1 .. N /\ b + 1 \in 1 .. w
    BY <1>2, <2>3, <2>6
  <2>8. (a + 1) - 1 = a /\ n = (w * a) + (b + 1)
    BY <1>2, <2>3, <2>4
  <2>9. QED
    BY <2>7, <2>8 DEF a, b
<1>4. ASSUME NEW i \in 1 .. N, NEW r \in 1 .. w
      PROVE  /\ w * (i - 1) + r \in 1 .. N * w
             /\ q(w * (i - 1) + r) + 1 = i /\ m(w * (i - 1) + r) + 1 = r
  <2> DEFINE n == w * (i - 1) + r
             a == q(n)
             b == m(n)
  <2>1. w * (i - 1) \in Nat /\ w * i = w * (i - 1) + w /\ i - 1 \in Nat /\ i \in Nat
    BY <1>2
  <2>2. w * i <= w * N
    BY <1>2, <2>1, Grows
  <2>3. w * N \in Nat /\ w * i \in Nat
    BY <1>2, <2>1
  <2>4. n \in 1 .. N * w
    BY <1>2, <2>1, <2>2, <2>3
  <2>5. /\ a \in Int /\ b \in 0 .. w - 1 /\ n = (w * a) + (b + 1)
    <3>1. a + 1 \in 1 .. N /\ b + 1 \in 1 .. w /\ n = w * ((a + 1) - 1) + (b + 1)
      BY <1>3, <2>4
    <3> HIDE DEF a, b, n
    <3>2. a \in Int /\ b \in 0 .. w - 1
      <4>1. a \in Int /\ b \in Int
        BY <2>4 DEF a, b, n
      <4>2. QED
        BY <3>1, <4>1
    <3>3. (a + 1) - 1 = a
      BY <3>2
    <3>4. QED
      BY <3>1, <3>2, <3>3
  <2>6. w * (i - 1) + r = (w * a) + (b + 1)
    BY <2>5
  <2> HIDE DEF a, b, n, q, m
  <2>7. w * a \in Int /\ w * (a + 1) = w * a + w /\ w * ((i - 1) + 1) = w * (i - 1) + w
    BY <2>1, <2>5
  <2>8. w * a < w * ((i - 1) + 1) /\ w * (i - 1) < w * (a + 1)
    BY <2>1, <2>5, <2>6, <2>7
  <2>9. a < (i - 1) + 1 /\ i - 1 < a + 1
    BY <2>1, <2>5, <2>8, Cancels
  <2>10. a = i - 1
    BY <2>1, <2>5, <2>9
  <2>11. b + 1 = r
    BY <2>1, <2>5, <2>6, <2>10
  <2>12. QED
    BY <2>1, <2>4, <2>10, <2>11 DEF n, a, b
<1>5. \A r \in 1 .. w : names[r] \in Labels
  BY ElementOfSeq
<1>6. F \in Seq(Things) /\ Len(F) = N * w
  <2>1. \A n \in 1 .. N * w : << names[m(n) + 1], q(n) + 1 >> \in Things
    <3>1. ASSUME NEW n \in 1 .. N * w
          PROVE  << names[m(n) + 1], q(n) + 1 >> \in Things
      <4>1. names[m(n) + 1] \in Labels /\ q(n) + 1 \in Nat
        BY <1>2, <1>3, <1>5
      <4> HIDE DEF q, m
      <4>2. QED
        BY <4>1 DEF Things
    <3>2. QED
      BY <3>1
  <2> HIDE DEF q, m
  <2>2. F \in [1 .. N * w -> Things]
    BY <2>1
  <2> DEFINE k == N * w
             G == F
  <2>3. k \in Nat /\ G \in [1 .. k -> Things]
    BY <1>2, <2>2
  <2> HIDE DEF F, G, k, N
  <2>9. G \in Seq(Things)
    BY <2>3, SeqDef
  <2>10. F \in Seq(Things)
    BY <2>9 DEF G
  <2>4. DOMAIN F = 1 .. Len(F) /\ Len(F) \in Nat /\ DOMAIN F = 1 .. N * w
    BY <2>2, <2>10, LenProperties
  <2>6. Len(F) = N * w
    BY <1>2, <2>4, SameCount
  <2>7. QED
    BY <2>10, <2>6
<1>7. \A n \in 1 .. N * w : F[n] = << names[m(n) + 1], q(n) + 1 >>
  OBVIOUS
<1> HIDE DEF F, q, m
<1>8. \A n \in 1 .. N * w : \E i \in 1 .. N : \E r \in 1 .. w :
         n = w * (i - 1) + r /\ F[n] = << names[r], i >>
  BY <1>3, <1>7
<1>9. \A i \in 1 .. N : \A r \in 1 .. w :
         w * (i - 1) + r \in 1 .. N * w /\ F[w * (i - 1) + r] = << names[r], i >>
  <2>1. ASSUME NEW i \in 1 .. N, NEW r \in 1 .. w
        PROVE  w * (i - 1) + r \in 1 .. N * w /\ F[w * (i - 1) + r] = << names[r], i >>
    <3> DEFINE n == w * (i - 1) + r
    <3>1. n \in 1 .. N * w /\ q(n) + 1 = i /\ m(n) + 1 = r
      BY <1>4
    <3> HIDE DEF n
    <3>2. F[n] = << names[r], i >>
      BY <1>7, <3>1
    <3>3. QED
      BY <3>1, <3>2 DEF n
  <2>2. QED
    BY <2>1
<1>10. QED
  BY <1>1, <1>6, <1>8, <1>9

\* One session, or none.
LEMMA OfPlaces ==
    ASSUME NEW names \in Seq(Labels), NEW w \in Nat, Len(names) = w, NEW i \in Nat
    PROVE  /\ Of(names, i) \in Seq(Things) /\ Len(Of(names, i)) = w
           /\ \A k \in 1 .. w : Of(names, i)[k] = << names[k], i >>
<1> DEFINE F == [k \in 1 .. w |-> << names[k], i >>]
<1>1. DOMAIN names = 1 .. w
  BY LenProperties
<1>2. Of(names, i) = F
  BY <1>1 DEF Of
<1>3. \A k \in 1 .. w : F[k] = << names[k], i >> /\ F[k] \in Things
  BY ElementOfSeq DEF Things
<1>4. F \in [1 .. w -> Things]
  BY <1>3
<1> HIDE DEF F
<1>5. F \in Seq(Things)
  BY <1>4, SeqDef
<1>6. DOMAIN F = 1 .. Len(F) /\ Len(F) \in Nat /\ DOMAIN F = 1 .. w
  BY <1>4, <1>5, LenProperties
<1>7. Len(F) = w
  BY <1>6, SameCount
<1>8. QED
  BY <1>2, <1>3, <1>5, <1>7

\* What is done once before there is a session.
LEMMA WorkerStepsPlaces ==
    LET names == << "mutex", "eventReady", "eventResults", "image", "imageView", "resImage",
                 "resImageView", "result", "resultView", "checkType", "env" >>
    IN  /\ WorkerSteps \in Seq(Things) /\ Len(WorkerSteps) = 11
        /\ \A k \in 1 .. 11 : WorkerSteps[k] = << names[k], 0 >>
<1> DEFINE names == << "mutex", "eventReady", "eventResults", "image", "imageView", "resImage",
                 "resImageView", "result", "resultView", "checkType", "env" >>
<1>1. names \in Seq(Labels) /\ Len(names) = 11
  BY DEF Labels, Names, Passing
<1>2. WorkerSteps = Of(names, 0)
  BY DEF WorkerSteps
<1> HIDE DEF names
<1>3. /\ WorkerSteps \in Seq(Things) /\ Len(WorkerSteps) = 11
      /\ \A k \in 1 .. 11 : WorkerSteps[k] = << names[k], 0 >>
  BY <1>1, <1>2, OfPlaces
<1>4. QED
  BY <1>3 DEF names

\* What is done once for the model.
LEMMA ModelStepsPlaces ==
    LET names == << "checkScore", "contract", "coeffs", "pinned", "overlay" >>
    IN  /\ ModelSteps \in Seq(Things) /\ Len(ModelSteps) = 5
        /\ \A k \in 1 .. 5 : ModelSteps[k] = << names[k], 0 >>
<1> DEFINE names == << "checkScore", "contract", "coeffs", "pinned", "overlay" >>
<1>1. names \in Seq(Labels) /\ Len(names) = 5
  BY DEF Labels, Names, Passing
<1>2. ModelSteps = Of(names, 0)
  BY DEF ModelSteps
<1> HIDE DEF names
<1>3. /\ ModelSteps \in Seq(Things) /\ Len(ModelSteps) = 5
      /\ \A k \in 1 .. 5 : ModelSteps[k] = << names[k], 0 >>
  BY <1>1, <1>2, OfPlaces
<1>4. QED
  BY <1>3 DEF names

\* The threads, started and joined in this order.
LEMMA LaunchPlaces ==
    LET names == << "prep", "inf", "post" >>
    IN  /\ Launch \in Seq(Things) /\ Len(Launch) = 3
        /\ \A k \in 1 .. 3 : Launch[k] = << names[k], 0 >>
<1> DEFINE names == << "prep", "inf", "post" >>
<1>1. names \in Seq(Labels) /\ Len(names) = 3
  BY DEF Labels, Names, Passing
<1>2. Launch = Of(names, 0)
  BY DEF Launch
<1> HIDE DEF names
<1>3. /\ Launch \in Seq(Things) /\ Len(Launch) = 3
      /\ \A k \in 1 .. 3 : Launch[k] = << names[k], 0 >>
  BY <1>1, <1>2, OfPlaces
<1>4. QED
  BY <1>3 DEF names

\* The lists of names that every session has.
LEMMA NamesPerSession ==
    /\ OpenSession \in Seq(Labels) /\ Len(OpenSession) = 3
    /\ SetUp \in Seq(Labels) /\ Len(SetUp) = 11
    /\ SessionMembers \in Seq(Labels) /\ Len(SessionMembers) = 4
    /\ SessionBody \in Seq(Labels) /\ Len(SessionBody) = 10
<1>1. OpenSession \in Seq(Labels) /\ Len(OpenSession) = 3
  BY DEF OpenSession, Labels, Names, Passing
<1>2. SetUp \in Seq(Labels) /\ Len(SetUp) = 11
  BY DEF SetUp, Labels, Names, Passing
<1>3. SessionMembers \in Seq(Labels) /\ Len(SessionMembers) = 4
  BY DEF SessionMembers, Labels, Names, Passing
<1>4. SessionBody \in Seq(Labels) /\ Len(SessionBody) = 10
  BY DEF SessionBody, Labels, Names, Passing
<1>5. QED
  BY <1>1, <1>2, <1>3, <1>4

\* Where the steps of a constructor are.
LEMMA ProgramPlaces ==
    ASSUME cfg.sessions \in Nat
    PROVE  LET N == cfg.sessions
           IN  /\ Program \in Seq(Things) /\ Len(Program) = 19 + 14 * N
               /\ \A n \in 1 .. 11 : Program[n] = WorkerSteps[n]
               /\ \A n \in 1 .. N * 3 : Program[11 + n] = PerSession(OpenSession)[n]
               /\ \A n \in 1 .. 5 : Program[11 + 3 * N + n] = ModelSteps[n]
               /\ \A n \in 1 .. N * 11 : Program[16 + 3 * N + n] = PerSession(SetUp)[n]
               /\ \A n \in 1 .. 3 : Program[16 + 14 * N + n] = Launch[n]
<1> DEFINE N == cfg.sessions
           a == WorkerSteps
           b == PerSession(OpenSession)
           c == ModelSteps
           d == PerSession(SetUp)
           e == Launch
<1>0. /\ N \in Nat /\ N * 3 \in Nat /\ N * 11 \in Nat /\ 11 \in Nat /\ 5 \in Nat /\ 3 \in Nat
      /\ 11 + N * 3 \in Nat /\ (11 + N * 3) + 5 \in Nat /\ ((11 + N * 3) + 5) + N * 11 \in Nat
  OBVIOUS
<1>1. a \in Seq(Things) /\ Len(a) = 11
  BY WorkerStepsPlaces
<1>2. b \in Seq(Things) /\ Len(b) = N * 3
  <2>1. 3 \in Nat \ {0} /\ cfg.sessions \in Nat
    OBVIOUS
  <2>2. QED
    BY ONLY <2>1, NamesPerSession, PerSessionPlaces, Zenon
<1>3. c \in Seq(Things) /\ Len(c) = 5
  BY ModelStepsPlaces
<1>4. d \in Seq(Things) /\ Len(d) = N * 11
  <2>1. 11 \in Nat \ {0} /\ cfg.sessions \in Nat
    OBVIOUS
  <2>2. QED
    BY ONLY <2>1, NamesPerSession, PerSessionPlaces, Zenon
<1>5. e \in Seq(Things) /\ Len(e) = 3
  BY LaunchPlaces
<1>6. Program = (((a \o b) \o c) \o d) \o e
  BY DEF Program
<1> HIDE DEF a, b, c, d, e, N
<1> DEFINE s == ((a \o b) \o c) \o d
<1>7. IsChain(s, a, b, c, d)
  <2>1. a \in Seq(Things) /\ b \in Seq(Things) /\ c \in Seq(Things) /\ d \in Seq(Things)
    BY <1>1, <1>2, <1>3, <1>4
  <2>2. QED
    BY ONLY <2>1, Chained, Zenon
<1>8. Program = s \o e
  BY <1>6
<1> HIDE DEF s
<1>9. /\ Program \in Seq(Things) /\ Len(Program) = Len(s) + Len(e)
      /\ \A n \in 1 .. Len(s) : Program[n] = s[n]
      /\ \A n \in 1 .. Len(e) : Program[Len(s) + n] = e[n]
  <2>1. s \in Seq(Things) /\ e \in Seq(Things)
    BY <1>5, <1>7 DEF IsChain
  <2>2. QED
    BY ONLY <1>8, <2>1, Joined, Zenon
<1>10. /\ \A n \in 1 .. 11 : s[n] = a[n]
       /\ \A n \in 1 .. N * 3 : s[11 + n] = b[n]
       /\ \A n \in 1 .. 5 : s[11 + N * 3 + n] = c[n]
       /\ \A n \in 1 .. N * 11 : s[11 + N * 3 + 5 + n] = d[n]
  BY <1>1, <1>2, <1>3, <1>4, <1>7 DEF IsChain
<1> DEFINE L == 16 + 14 * N
<1>11. L \in Nat /\ Len(s) = L /\ Len(e) = 3
  BY <1>0, <1>1, <1>2, <1>3, <1>4, <1>5, <1>7 DEF IsChain
<1>12. /\ \A n \in 1 .. L : Program[n] = s[n]
       /\ \A n \in 1 .. 3 : Program[L + n] = e[n]
  BY <1>9, <1>11
<1>13. L = 11 + N * 3 + 5 + N * 11
  BY <1>0
<1> HIDE DEF L
<1>14. ASSUME NEW n \in 1 .. 11
       PROVE  Program[n] = a[n]
  <2>1. n \in 1 .. L
    BY <1>0, <1>13
  <2>2. QED
    BY <1>10, <1>12, <2>1
<1>15. ASSUME NEW n \in 1 .. N * 3
       PROVE  Program[11 + n] = b[n]
  <2>1. 11 + n \in 1 .. L
    BY <1>0, <1>13
  <2>2. QED
    BY <1>10, <1>12, <2>1
<1>16. ASSUME NEW n \in 1 .. 5
       PROVE  Program[11 + 3 * N + n] = c[n]
  <2>1. 11 + N * 3 + n \in 1 .. L /\ 11 + N * 3 + n = 11 + 3 * N + n
    BY <1>0, <1>13
  <2>2. QED
    BY <1>10, <1>12, <2>1
<1>17. ASSUME NEW n \in 1 .. N * 11
       PROVE  Program[16 + 3 * N + n] = d[n]
  <2>1. 11 + N * 3 + 5 + n \in 1 .. L /\ 11 + N * 3 + 5 + n = 16 + 3 * N + n
    BY <1>0, <1>13
  <2>2. QED
    BY <1>10, <1>12, <2>1
<1>18. Len(Program) = 19 + 14 * N
  BY <1>0, <1>9, <1>11 DEF L
<1>19. QED
  BY <1>9, <1>12, <1>14, <1>15, <1>16, <1>17, <1>18 DEF N, L, a, b, c, d, e

\* What a step of a constructor is, by its place.
LEMMA ProgramRegions ==
    ASSUME cfg.sessions \in Nat, NEW n \in 1 .. Len(Program)
    PROVE  LET N == cfg.sessions
           IN  \/ n \in 1 .. 11 /\ Program[n] = WorkerSteps[n]
               \/ \E i \in 1 .. N : \E r \in 1 .. 3 :
                     n = 11 + 3 * (i - 1) + r /\ Program[n] = << OpenSession[r], i >>
               \/ \E r \in 1 .. 5 : n = 11 + 3 * N + r /\ Program[n] = ModelSteps[r]
               \/ \E i \in 1 .. N : \E r \in 1 .. 11 :
                     n = 16 + 3 * N + 11 * (i - 1) + r /\ Program[n] = << SetUp[r], i >>
               \/ \E r \in 1 .. 3 : n = 16 + 14 * N + r /\ Program[n] = Launch[r]
<1> DEFINE N == cfg.sessions
           InOpen == \E i \in 1 .. N : \E r \in 1 .. 3 :
                        n = 11 + 3 * (i - 1) + r /\ Program[n] = << OpenSession[r], i >>
           InModel == \E r \in 1 .. 5 : n = 11 + 3 * N + r /\ Program[n] = ModelSteps[r]
           InSetUp == \E i \in 1 .. N : \E r \in 1 .. 11 :
                         n = 16 + 3 * N + 11 * (i - 1) + r /\ Program[n] = << SetUp[r], i >>
           InLaunch == \E r \in 1 .. 3 : n = 16 + 14 * N + r /\ Program[n] = Launch[r]
<1>0. N \in Nat /\ n \in 1 .. 19 + 14 * N
  BY ProgramPlaces
<1>1. ASSUME n <= 11
      PROVE  n \in 1 .. 11 /\ Program[n] = WorkerSteps[n]
  <2>1. n \in 1 .. 11
    BY <1>0, <1>1
  <2>2. QED
    BY <2>1, ProgramPlaces
<1>2. ASSUME n > 11, n <= 11 + 3 * N
      PROVE  InOpen
  <2> DEFINE m == n - 11
  <2>1. m \in 1 .. N * 3 /\ 11 + m = n
    BY ONLY <1>0, <1>2
  <2> HIDE DEF m
  <2>2. Program[n] = PerSession(OpenSession)[m]
    BY <2>1, ProgramPlaces
  <2>3. \E i \in 1 .. N : \E r \in 1 .. 3 :
           m = 3 * (i - 1) + r /\ PerSession(OpenSession)[m] = << OpenSession[r], i >>
    <3>1. 3 \in Nat \ {0} /\ cfg.sessions \in Nat
      OBVIOUS
    <3>2. \A k \in 1 .. cfg.sessions * 3 : \E i \in 1 .. cfg.sessions : \E r \in 1 .. 3 :
             k = 3 * (i - 1) + r /\ PerSession(OpenSession)[k] = << OpenSession[r], i >>
      BY ONLY <3>1, NamesPerSession, PerSessionPlaces, Zenon
    <3>3. QED
      BY <2>1, <3>2
  <2>4. QED
    BY ONLY <2>1, <2>2, <2>3
<1>3. ASSUME n > 11 + 3 * N, n <= 16 + 3 * N
      PROVE  InModel
  <2> DEFINE r == n - (11 + 3 * N)
  <2>1. r \in 1 .. 5 /\ 11 + 3 * N + r = n
    <3> HIDE DEF N
    <3>1. QED
      BY ONLY <1>0, <1>3
  <2> HIDE DEF r
  <2>2. Program[n] = ModelSteps[r]
    BY <2>1, ProgramPlaces
  <2>3. QED
    BY <2>1, <2>2
<1>4. ASSUME n > 16 + 3 * N, n <= 16 + 14 * N
      PROVE  InSetUp
  <2> DEFINE m == n - (16 + 3 * N)
  <2>1. m \in 1 .. N * 11 /\ 16 + 3 * N + m = n
    BY ONLY <1>0, <1>4
  <2> HIDE DEF m
  <2>2. Program[n] = PerSession(SetUp)[m]
    BY <2>1, ProgramPlaces
  <2>3. \E i \in 1 .. N : \E r \in 1 .. 11 :
           m = 11 * (i - 1) + r /\ PerSession(SetUp)[m] = << SetUp[r], i >>
    <3>1. 11 \in Nat \ {0} /\ cfg.sessions \in Nat
      OBVIOUS
    <3>2. \A k \in 1 .. cfg.sessions * 11 : \E i \in 1 .. cfg.sessions : \E r \in 1 .. 11 :
             k = 11 * (i - 1) + r /\ PerSession(SetUp)[k] = << SetUp[r], i >>
      BY ONLY <3>1, NamesPerSession, PerSessionPlaces, Zenon
    <3>3. QED
      BY <2>1, <3>2
  <2>4. PICK i \in 1 .. N, r \in 1 .. 11 :
           m = 11 * (i - 1) + r /\ PerSession(SetUp)[m] = << SetUp[r], i >>
    BY <2>3
  <2>5. n = 16 + 3 * N + 11 * (i - 1) + r
    <3>1. m = 11 * (i - 1) + r /\ 16 + 3 * N + m = n /\ i \in Nat /\ r \in Nat
      BY <2>1, <2>4
    <3> HIDE DEF N
    <3>2. QED
      BY ONLY <1>0, <3>1
  <2>6. Program[n] = << SetUp[r], i >>
    BY <2>2, <2>4
  <2>7. QED
    BY <2>5, <2>6
<1>5. ASSUME n > 16 + 14 * N
      PROVE  InLaunch
  <2> DEFINE r == n - (16 + 14 * N)
  <2>1. r \in 1 .. 3 /\ 16 + 14 * N + r = n
    BY ONLY <1>0, <1>5
  <2> HIDE DEF r
  <2>2. Program[n] = Launch[r]
    BY <2>1, ProgramPlaces
  <2>3. QED
    BY <2>1, <2>2
<1>6. n <= 11 \/ (n > 11 /\ n <= 11 + 3 * N) \/ (n > 11 + 3 * N /\ n <= 16 + 3 * N)
      \/ (n > 16 + 3 * N /\ n <= 16 + 14 * N) \/ n > 16 + 14 * N
  <2> HIDE DEF N
  <2>1. QED
    BY ONLY <1>0
<1>7. (n \in 1 .. 11 /\ Program[n] = WorkerSteps[n]) \/ InOpen \/ InModel \/ InSetUp \/ InLaunch
  <2> HIDE DEF InOpen, InModel, InSetUp, InLaunch, N
  <2>1. QED
    BY <1>1, <1>2, <1>3, <1>4, <1>5, <1>6
<1>8. QED
  BY <1>7, Zenon

\* Which names belong where.
InRegion(n, x) ==
    LET N == cfg.sessions
    IN  \/ /\ n \in 1 .. 11 /\ x[2] = 0
           /\ x[1] \in {"mutex", "eventReady", "eventResults", "image", "imageView", "resImage",
                        "resImageView", "result", "resultView", "checkType", "env"}
        \/ /\ n \in 12 .. 11 + 3 * N /\ x[2] \in 1 .. N
           /\ x[1] \in {"stream", "session"} \/ (x[1] = "options" /\ n = 10 + 3 * x[2])
        \/ /\ n \in 12 + 3 * N .. 16 + 3 * N /\ x[2] = 0
           /\ x[1] \in {"checkScore", "contract", "coeffs", "pinned", "overlay"}
        \/ /\ n \in 17 + 3 * N .. 16 + 14 * N /\ x[2] \in 1 .. N
           /\ x[1] \in {"h_score", "h_map", "h_warm", "binding", "d_input", "d_score", "d_map",
                        "events", "h_input", "tensors", "warmUp"}
        \/ /\ n \in 17 + 14 * N .. 19 + 14 * N /\ x[2] = 0
           /\ x[1] \in {"prep", "inf", "post"}

LEMMA ProgramNames ==
    ASSUME cfg.sessions \in Nat, NEW n \in 1 .. Len(Program)
    PROVE  Program[n] \in Things /\ InRegion(n, Program[n])
<1> DEFINE N == cfg.sessions
           x == Program[n]
<1>0. N \in Nat /\ n \in 1 .. 19 + 14 * N /\ x \in Things
  <2>1. Program \in Seq(Things) /\ Len(Program) = 19 + 14 * N
    BY ProgramPlaces
  <2>2. QED
    BY <2>1, ElementOfSeq
<1>1. ASSUME n \in 1 .. 11, Program[n] = WorkerSteps[n]
      PROVE  InRegion(n, x)
  <2>1. x[2] = 0
        /\ x[1] \in {"mutex", "eventReady", "eventResults", "image", "imageView", "resImage",
                     "resImageView", "result", "resultView", "checkType", "env"}
    BY <1>1, WorkerStepsPlaces
  <2> HIDE DEF x
  <2>2. QED
    BY <1>1, <2>1 DEF InRegion
<1>2. ASSUME NEW i \in 1 .. N, NEW r \in 1 .. 3,
             n = 11 + 3 * (i - 1) + r, Program[n] = << OpenSession[r], i >>
      PROVE  InRegion(n, x)
  <2>1. x[2] = i /\ x[1] = OpenSession[r]
    BY <1>2
  <2>2. x[1] \in {"stream", "session"} \/ (x[1] = "options" /\ r = 2)
    BY <2>1 DEF OpenSession
  <2>3. n \in 12 .. 11 + 3 * N /\ (r = 2 => n = 10 + 3 * i)
    <3> HIDE DEF x, N
    <3>1. QED
      BY ONLY <1>0, <1>2
  <2> HIDE DEF x
  <2>4. x[2] \in 1 .. N /\ (x[1] \in {"stream", "session"} \/ (x[1] = "options" /\ n = 10 + 3 * x[2]))
    BY ONLY <2>1, <2>2, <2>3
  <2>5. QED
    BY <2>3, <2>4 DEF InRegion
<1>3. ASSUME NEW r \in 1 .. 5, n = 11 + 3 * N + r, Program[n] = ModelSteps[r]
      PROVE  InRegion(n, x)
  <2>1. n \in 12 + 3 * N .. 16 + 3 * N
    <3> HIDE DEF x, N
    <3>1. QED
      BY ONLY <1>0, <1>3
  <2>2. x[2] = 0 /\ x[1] \in {"checkScore", "contract", "coeffs", "pinned", "overlay"}
    BY <1>3, ModelStepsPlaces
  <2> HIDE DEF x
  <2>3. QED
    BY <2>1, <2>2 DEF InRegion
<1>4. ASSUME NEW i \in 1 .. N, NEW r \in 1 .. 11,
             n = 16 + 3 * N + 11 * (i - 1) + r, Program[n] = << SetUp[r], i >>
      PROVE  InRegion(n, x)
  <2>1. x[2] = i /\ x[1] = SetUp[r]
    BY <1>4
  <2>2. x[1] \in {"h_score", "h_map", "h_warm", "binding", "d_input", "d_score", "d_map",
                  "events", "h_input", "tensors", "warmUp"}
    BY <2>1 DEF SetUp
  <2>3. n \in 17 + 3 * N .. 16 + 14 * N
    <3> HIDE DEF x, N
    <3>1. QED
      BY ONLY <1>0, <1>4
  <2> HIDE DEF x
  <2>4. QED
    BY <2>1, <2>2, <2>3 DEF InRegion
<1>5. ASSUME NEW r \in 1 .. 3, n = 16 + 14 * N + r, Program[n] = Launch[r]
      PROVE  InRegion(n, x)
  <2>1. n \in 17 + 14 * N .. 19 + 14 * N
    <3> HIDE DEF x, N
    <3>1. QED
      BY ONLY <1>0, <1>5
  <2>2. x[2] = 0 /\ x[1] \in {"prep", "inf", "post"}
    BY <1>5, LaunchPlaces
  <2> HIDE DEF x
  <2>3. QED
    BY <2>1, <2>2 DEF InRegion
<1>6. QED
  BY <1>0, <1>1, <1>2, <1>3, <1>4, <1>5, ProgramRegions

\* What a step acquires is a resource, or the step acquires nothing.
LEMMA StepsKnown ==
    ASSUME cfg.sessions \in Nat, NEW n \in 1 .. Len(Program)
    PROVE  /\ Program[n] \in Things
           /\ Program[n][1] \in Passing \/ Program[n] \in Resources
           /\ Program[n][1] = "options" => Program[n][2] \in 1 .. cfg.sessions
<1> DEFINE x == Program[n]
<1>1. x \in Things /\ InRegion(n, x)
  BY ProgramNames
<1>2. x = << x[1], x[2] >>
  BY <1>1 DEF Things
<1> HIDE DEF x
<1>3. x[1] \in Passing \/ x \in Resources
  <2>1. \/ x[1] \in Passing
        \/ x[1] \in Single /\ x[2] = 0
        \/ x[1] \in Own /\ x[2] \in 1 .. cfg.sessions
    BY <1>1 DEF InRegion, Passing, Single, Own
  <2>2. QED
    BY <1>2, <2>1 DEF Resources
<1>4. x[1] = "options" => x[2] \in 1 .. cfg.sessions
  BY <1>1 DEF InRegion
<1>5. QED
  BY <1>1, <1>3, <1>4 DEF x

\* The threads come last, after everything they need.
LEMMA ThreadsLast ==
    ASSUME cfg.sessions \in Nat, NEW m \in 1 .. Len(Program), NEW n \in 1 .. Len(Program),
           Program[m] \in Threads, Program[n][1] \in Needed \cup {"contract", "warmUp"}
    PROVE  n < m
<1> DEFINE N == cfg.sessions
           x == Program[n]
           y == Program[m]
<1>0. N \in Nat /\ m \in Nat /\ n \in Nat
  BY ProgramPlaces
<1>1. InRegion(n, x) /\ InRegion(m, y)
  BY ProgramNames
<1>2. y[1] \in {"prep", "inf", "post"} /\ x[1] \in Needed \cup {"contract", "warmUp"}
  BY DEF Threads
<1> HIDE DEF x, y
<1>3. m \in 17 + 14 * N .. 19 + 14 * N
  BY <1>1, <1>2 DEF InRegion
<1>4. n <= 16 + 14 * N
  <2>1. x[1] \notin {"prep", "inf", "post"}
    BY <1>2 DEF Needed
  <2>2. n \in 1 .. 11 \/ n \in 12 .. 11 + 3 * N \/ n \in 12 + 3 * N .. 16 + 3 * N
        \/ n \in 17 + 3 * N .. 16 + 14 * N
    BY <1>1, <2>1, Zenon DEF InRegion
  <2>3. QED
    <3> HIDE DEF N
    <3>1. QED
      BY ONLY <1>0, <2>2
<1>5. QED
  <2> HIDE DEF N
  <2>1. QED
    BY ONLY <1>0, <1>3, <1>4

\* The pool of staging buffers is filled before there is a warm-up.
LEMMA PoolBeforeWarmUp ==
    ASSUME cfg.sessions \in Nat, NEW m \in 1 .. Len(Program), NEW n \in 1 .. Len(Program),
           Program[m][1] = "warmUp", Program[n][1] = "pinned"
    PROVE  n < m
<1> DEFINE N == cfg.sessions
           x == Program[n]
           y == Program[m]
<1>0. N \in Nat /\ m \in Nat /\ n \in Nat
  BY ProgramPlaces
<1>1. InRegion(n, x) /\ InRegion(m, y) /\ y[1] = "warmUp" /\ x[1] = "pinned"
  BY ProgramNames
<1> HIDE DEF x, y
<1>2. m \in 17 + 3 * N .. 16 + 14 * N
  BY <1>1 DEF InRegion
<1>3. n \in 12 + 3 * N .. 16 + 3 * N
  BY <1>1 DEF InRegion
<1>4. QED
  <2> HIDE DEF N
  <2>1. QED
    BY ONLY <1>0, <1>2, <1>3

\* A session is configured after those with smaller numbers.
LEMMA OptionsInOrder ==
    ASSUME cfg.sessions \in Nat, NEW m \in 1 .. Len(Program), NEW n \in 1 .. Len(Program), m < n,
           Program[m][1] = "options", Program[n][1] = "options"
    PROVE  Program[m][2] < Program[n][2]
<1> DEFINE x == Program[n]
           y == Program[m]
<1>1. InRegion(n, x) /\ InRegion(m, y) /\ y[1] = "options" /\ x[1] = "options"
  BY ProgramNames
<1> HIDE DEF x, y
<1>2. n = 10 + 3 * x[2] /\ m = 10 + 3 * y[2] /\ x[2] \in Nat /\ y[2] \in Nat
  BY <1>1 DEF InRegion
<1>3. m < n
  OBVIOUS
<1>4. y[2] < x[2]
  BY ONLY <1>2, <1>3
<1>5. QED
  BY <1>4 DEF x, y

\* A section is created once, and its view is mapped later.
LEMMA SectionBeforeView ==
    ASSUME cfg.sessions \in Nat, NEW n \in 1 .. Len(Program)
    PROVE  /\ Program[n][1] \in Sections =>
                \A m \in 1 .. n - 1 : /\ Program[m][1] # Program[n][1]
                                      /\ Program[m][1] \in DOMAIN ViewOf =>
                                           ViewOf[Program[m][1]] # Program[n][1]
           /\ Program[n][1] \in DOMAIN ViewOf =>
                \E m \in 1 .. n - 1 : Program[m] = << ViewOf[Program[n][1]], 0 >>
<1> DEFINE first == << "mutex", "eventReady", "eventResults", "image", "imageView", "resImage",
                       "resImageView", "result", "resultView", "checkType", "env" >>
<1>1. n \in Nat
  BY ProgramPlaces
<1>2. \A k \in 1 .. 11 : Program[k] = << first[k], 0 >> /\ Program[k][1] = first[k]
  <2>1. \A k \in 1 .. 11 : Program[k] = WorkerSteps[k]
    BY ProgramPlaces
  <2>2. \A k \in 1 .. 11 : WorkerSteps[k] = << first[k], 0 >>
    BY WorkerStepsPlaces, Zenon
  <2> HIDE DEF first
  <2>3. ASSUME NEW k \in 1 .. 11
        PROVE  Program[k] = << first[k], 0 >> /\ Program[k][1] = first[k]
    <3>1. Program[k] = << first[k], 0 >>
      BY ONLY <2>1, <2>2, k \in 1 .. 11
    <3>2. QED
      BY ONLY <3>1
  <2>4. QED
    BY ONLY <2>3
<1>3. ASSUME Program[n][1] \in Sections \cup DOMAIN ViewOf
      PROVE  n \in 1 .. 11
  <2> DEFINE x == Program[n]
  <2>1. InRegion(n, x) /\ x[1] \in {"image", "resImage", "result", "imageView", "resImageView", "resultView"}
    BY <1>3, ProgramNames DEF Sections, ViewOf
  <2> HIDE DEF x
  <2>2. QED
    BY <2>1 DEF InRegion
<1>4. ASSUME Program[n][1] \in Sections, NEW m \in 1 .. n - 1
      PROVE  /\ Program[m][1] # Program[n][1]
             /\ Program[m][1] \in DOMAIN ViewOf => ViewOf[Program[m][1]] # Program[n][1]
  <2>1. n \in 1 .. 11 /\ m \in 1 .. 11 /\ m < n
    BY <1>1, <1>3, <1>4
  <2>2. Program[n][1] = first[n] /\ Program[m][1] = first[m]
    BY <1>2, <2>1
  <2> DEFINE x == Program[n][1]
             y == Program[m][1]
  <2>3. x = first[n] /\ y = first[m] /\ x \in Sections
    BY <1>4, <2>2
  <2> HIDE DEF x, y
  <2>4. y # x /\ (y \in DOMAIN ViewOf => ViewOf[y] # x)
    BY <2>1, <2>3 DEF Sections, ViewOf
  <2>5. QED
    BY <2>4 DEF x, y
<1>5. ASSUME Program[n][1] \in DOMAIN ViewOf
      PROVE  \E m \in 1 .. n - 1 : Program[m] = << ViewOf[Program[n][1]], 0 >>
  <2>1. n \in 1 .. 11 /\ Program[n][1] = first[n]
    BY <1>2, <1>3, <1>5
  <2>2. n \in {5, 7, 9} /\ ViewOf[first[n]] = first[n - 1]
    BY <1>5, <2>1 DEF ViewOf
  <2>3. n - 1 \in 1 .. 11 /\ n - 1 \in 1 .. n - 1
    BY <2>2
  <2>4. Program[n - 1] = << first[n - 1], 0 >>
    BY <1>2, <2>3
  <2>5. QED
    BY <2>1, <2>2, <2>3, <2>4
<1>6. QED
  BY <1>4, <1>5

\* Nothing that is needed is forgotten.
LEMMA NeededIsThere ==
    ASSUME cfg.sessions \in Nat
    PROVE  /\ \A x \in {"pinned", "overlay", "resultView"} :
                \E n \in 1 .. Len(Program) : Program[n] = << x, 0 >>
           /\ \A x \in {"session", "binding", "tensors"} : \A i \in 1 .. cfg.sessions :
                \E n \in 1 .. Len(Program) : Program[n] = << x, i >>
<1> DEFINE N == cfg.sessions
           L == Len(Program)
<1>0. N \in Nat /\ L = 19 + 14 * N
  BY ProgramPlaces
<1> HIDE DEF L
<1>1. Program[9] = << "resultView", 0 >> /\ 9 \in 1 .. L
  <2>1. Program[9] = WorkerSteps[9] /\ 9 \in 1 .. 11
    BY ProgramPlaces
  <2>2. QED
    BY <1>0, <2>1, WorkerStepsPlaces
<1>2. ASSUME NEW r \in 1 .. 5
      PROVE  Program[11 + 3 * N + r] = ModelSteps[r] /\ 11 + 3 * N + r \in 1 .. L
  <2>1. Program[11 + 3 * N + r] = ModelSteps[r]
    BY ProgramPlaces
  <2> HIDE DEF N
  <2>2. 11 + 3 * N + r \in 1 .. L
    BY <1>0
  <2>3. QED
    BY <2>1, <2>2
<1>3. ModelSteps[4] = << "pinned", 0 >> /\ ModelSteps[5] = << "overlay", 0 >>
  BY ModelStepsPlaces
<1>4. \A x \in {"pinned", "overlay", "resultView"} : \E n \in 1 .. L : Program[n] = << x, 0 >>
  <2>1. 4 \in 1 .. 5 /\ 5 \in 1 .. 5
    OBVIOUS
  <2>2. /\ \E n \in 1 .. L : Program[n] = << "pinned", 0 >>
        /\ \E n \in 1 .. L : Program[n] = << "overlay", 0 >>
        /\ \E n \in 1 .. L : Program[n] = << "resultView", 0 >>
    BY <1>1, <1>2, <1>3, <2>1
  <2>3. QED
    BY <2>2
<1>5. ASSUME NEW i \in 1 .. N
      PROVE  \E n \in 1 .. L : Program[n] = << "session", i >>
  <2> DEFINE m == 3 * (i - 1) + 3
  <2>1. m \in 1 .. N * 3 /\ PerSession(OpenSession)[m] = << OpenSession[3], i >>
    <3>1. 3 \in Nat \ {0} /\ cfg.sessions \in Nat /\ 3 \in 1 .. 3
      OBVIOUS
    <3>2. \A k \in 1 .. cfg.sessions : \A r \in 1 .. 3 :
             /\ 3 * (k - 1) + r \in 1 .. cfg.sessions * 3
             /\ PerSession(OpenSession)[3 * (k - 1) + r] = << OpenSession[r], k >>
      BY ONLY <3>1, NamesPerSession, PerSessionPlaces, Zenon
    <3>3. QED
      BY <3>1, <3>2
  <2> HIDE DEF m
  <2>2. Program[11 + m] = << OpenSession[3], i >>
    BY <2>1, ProgramPlaces
  <2>3. OpenSession[3] = "session"
    BY DEF OpenSession
  <2>4. 11 + m \in 1 .. L
    BY <1>0, <2>1
  <2>5. QED
    BY <2>2, <2>3, <2>4
<1>6. ASSUME NEW i \in 1 .. N, NEW r \in {4, 10}
      PROVE  \E n \in 1 .. L : Program[n] = << SetUp[r], i >>
  <2> DEFINE m == 11 * (i - 1) + r
  <2>1. m \in 1 .. N * 11 /\ PerSession(SetUp)[m] = << SetUp[r], i >>
    <3>1. 11 \in Nat \ {0} /\ cfg.sessions \in Nat /\ r \in 1 .. 11
      OBVIOUS
    <3>2. \A k \in 1 .. cfg.sessions : \A q \in 1 .. 11 :
             /\ 11 * (k - 1) + q \in 1 .. cfg.sessions * 11
             /\ PerSession(SetUp)[11 * (k - 1) + q] = << SetUp[q], k >>
      BY ONLY <3>1, NamesPerSession, PerSessionPlaces, Zenon
    <3>3. QED
      BY <3>1, <3>2
  <2> HIDE DEF m
  <2>2. Program[16 + 3 * N + m] = << SetUp[r], i >>
    BY <2>1, ProgramPlaces
  <2>3. 16 + 3 * N + m \in 1 .. L
    BY <1>0, <2>1
  <2>4. QED
    BY <2>2, <2>3
<1>7. SetUp[4] = "binding" /\ SetUp[10] = "tensors"
  BY DEF SetUp
<1>8. \A x \in {"session", "binding", "tensors"} : \A i \in 1 .. N : \E n \in 1 .. L : Program[n] = << x, i >>
  BY <1>5, <1>6, <1>7
<1>9. QED
  BY <1>4, <1>8 DEF L

\* Which names the destructors of the detector's members are about, and where.
InMembers(n, x) ==
    LET N == cfg.sessions
    IN  \/ /\ n \in 1 .. 4 * N /\ x[2] \in 1 .. N
           /\ \/ x[1] \in {"tensors", "h_input"}
              \/ x[1] = "binding" /\ n = 4 * x[2] - 1
              \/ x[1] = "session" /\ n = 4 * x[2]
        \/ /\ n \in 1 + 4 * N .. 6 + 4 * N /\ x[2] = 0
           /\ x[1] \in {"env", "post", "inf", "prep", "overlay", "pinned"}

\* What is destroyed once.
LEMMA LastMembers ==
    LET names == << "env", "post", "inf", "prep", "overlay", "pinned" >>
    IN  /\ Of(names, 0) \in Seq(Things) /\ Len(Of(names, 0)) = 6
        /\ \A k \in 1 .. 6 : Of(names, 0)[k] = << names[k], 0 >>
<1> DEFINE names == << "env", "post", "inf", "prep", "overlay", "pinned" >>
<1>1. names \in Seq(Labels) /\ Len(names) = 6
  BY DEF Labels, Names, Passing
<1> HIDE DEF names
<1>2. /\ Of(names, 0) \in Seq(Things) /\ Len(Of(names, 0)) = 6
      /\ \A k \in 1 .. 6 : Of(names, 0)[k] = << names[k], 0 >>
  BY <1>1, OfPlaces
<1>3. QED
  BY <1>2 DEF names

\* Where they are.
LEMMA MembersPlaces ==
    ASSUME cfg.sessions \in Nat
    PROVE  LET N == cfg.sessions
               names == << "env", "post", "inf", "prep", "overlay", "pinned" >>
           IN  /\ Members \in Seq(Things) /\ Len(Members) = 4 * N + 6
               /\ \A i \in 1 .. N : \A r \in 1 .. 4 :
                     /\ 4 * (i - 1) + r \in 1 .. Len(Members)
                     /\ Members[4 * (i - 1) + r] = << SessionMembers[r], i >>
               /\ \A k \in 1 .. 6 : Members[4 * N + k] = << names[k], 0 >>
               /\ \A n \in 1 .. Len(Members) : InMembers(n, Members[n])
<1> DEFINE N == cfg.sessions
           names == << "env", "post", "inf", "prep", "overlay", "pinned" >>
           a == PerSession(SessionMembers)
           b == Of(names, 0)
<1>0. N \in Nat
  OBVIOUS
<1>1. /\ a \in Seq(Things) /\ Len(a) = N * 4
      /\ \A n \in 1 .. N * 4 : \E i \in 1 .. N : \E r \in 1 .. 4 :
            n = 4 * (i - 1) + r /\ a[n] = << SessionMembers[r], i >>
      /\ \A i \in 1 .. N : \A r \in 1 .. 4 :
            /\ 4 * (i - 1) + r \in 1 .. N * 4
            /\ a[4 * (i - 1) + r] = << SessionMembers[r], i >>
  <2>1. 4 \in Nat \ {0} /\ cfg.sessions \in Nat
    OBVIOUS
  <2>2. QED
    BY ONLY <2>1, NamesPerSession, PerSessionPlaces, Zenon
<1>2. b \in Seq(Things) /\ Len(b) = 6 /\ \A k \in 1 .. 6 : b[k] = << names[k], 0 >>
  BY LastMembers, Zenon
<1>3. Members = a \o b
  BY DEF Members
<1> HIDE DEF a, b, names, N
<1>4. /\ Members \in Seq(Things) /\ Len(Members) = Len(a) + Len(b)
      /\ \A n \in 1 .. Len(a) : Members[n] = a[n]
      /\ \A n \in 1 .. Len(b) : Members[Len(a) + n] = b[n]
  <2>1. a \in Seq(Things) /\ b \in Seq(Things)
    BY <1>1, <1>2
  <2>2. QED
    BY ONLY <2>1, <1>3, Joined, Zenon
<1>5. Len(Members) = 4 * N + 6
  BY ONLY <1>0, <1>1, <1>2, <1>4
<1>6. ASSUME NEW i \in 1 .. N, NEW r \in 1 .. 4
      PROVE  /\ 4 * (i - 1) + r \in 1 .. Len(Members)
             /\ Members[4 * (i - 1) + r] = << SessionMembers[r], i >>
  <2> DEFINE n == 4 * (i - 1) + r
  <2>1. n \in 1 .. N * 4 /\ a[n] = << SessionMembers[r], i >>
    BY <1>1
  <2> HIDE DEF n
  <2>2. n \in 1 .. Len(Members)
    BY <1>0, <1>5, <2>1
  <2>3. Members[n] = a[n]
    BY <1>1, <1>4, <2>1
  <2>4. QED
    BY <2>1, <2>2, <2>3 DEF n
<1>7. ASSUME NEW k \in 1 .. 6
      PROVE  Members[4 * N + k] = << names[k], 0 >>
  <2>1. Members[Len(a) + k] = b[k] /\ Len(a) = 4 * N
    BY <1>0, <1>1, <1>2, <1>4
  <2>2. QED
    BY <1>2, <2>1
<1>8. ASSUME NEW n \in 1 .. Len(Members)
      PROVE  InMembers(n, Members[n])
  <2>1. n \in 1 .. 4 * N + 6
    BY <1>5
  <2> DEFINE x == Members[n]
  <2>2. CASE n <= 4 * N
    <3>1. n \in 1 .. N * 4
      BY <1>0, <2>1, <2>2
    <3>2. PICK i \in 1 .. N, r \in 1 .. 4 : n = 4 * (i - 1) + r /\ a[n] = << SessionMembers[r], i >>
      BY <1>1, <3>1
    <3>3. x = << SessionMembers[r], i >>
      BY <1>1, <1>4, <3>1, <3>2
    <3>4. x[2] = i /\ x[1] = SessionMembers[r]
      BY <3>3
    <3> HIDE DEF x
    <3>5. \/ x[1] \in {"tensors", "h_input"}
          \/ x[1] = "binding" /\ r = 3
          \/ x[1] = "session" /\ r = 4
      BY <3>4 DEF SessionMembers
    <3>6. /\ n \in 1 .. 4 * N /\ x[2] \in 1 .. N
          /\ r = 3 => n = 4 * x[2] - 1
          /\ r = 4 => n = 4 * x[2]
      BY <1>0, <3>1, <3>2, <3>4
    <3>7. InMembers(n, x)
      BY <3>5, <3>6 DEF InMembers, N
    <3>8. QED
      BY <3>7 DEF x
  <2>3. CASE n > 4 * N
    <3> DEFINE k == n - 4 * N
    <3>1. k \in 1 .. 6 /\ n = 4 * N + k
      BY <1>0, <2>1, <2>3
    <3> HIDE DEF k
    <3>2. x = << names[k], 0 >>
      BY <1>7, <3>1
    <3>3. x[2] = 0 /\ x[1] = names[k]
      BY <3>2
    <3> HIDE DEF x
    <3>4. x[1] \in {"env", "post", "inf", "prep", "overlay", "pinned"}
      BY <3>1, <3>3 DEF names
    <3>5. n \in 1 + 4 * N .. 6 + 4 * N
      BY <1>0, <3>1
    <3>6. InMembers(n, x)
      BY <3>3, <3>4, <3>5 DEF InMembers, N
    <3>7. QED
      BY <3>6 DEF x
  <2>4. QED
    BY <1>0, <2>1, <2>2, <2>3
<1>9. QED
  BY <1>4, <1>5, <1>6, <1>7, <1>8 DEF N, names

\* Everything that has a destructor is destroyed: a binding before its
\* session, a session before the environment, and nothing else.
LEMMA MembersOrder ==
    ASSUME cfg.sessions \in Nat
    PROVE  /\ \A x \in Resources : x[1] \in SelfFreeing => \E n \in 1 .. Len(Members) : Members[n] = x
           /\ \A n \in 1 .. Len(Members) :
                /\ Members[n][1] \notin Sections \cup {"stream"}
                /\ \A i \in 1 .. cfg.sessions :
                     /\ Members[n] = << "session", i >> =>
                          \E m \in 1 .. n - 1 : Members[m] = << "binding", i >>
                     /\ Members[n] = << "env", 0 >> =>
                          \E m \in 1 .. n - 1 : Members[m] = << "session", i >>
<1> DEFINE N == cfg.sessions
           L == Len(Members)
<1>0. N \in Nat /\ L = 4 * N + 6 /\ L \in Nat
  BY MembersPlaces
<1> HIDE DEF L, N
<1>1. ASSUME NEW i \in 1 .. N, NEW r \in 1 .. 4
      PROVE  4 * (i - 1) + r \in 1 .. L /\ Members[4 * (i - 1) + r] = << SessionMembers[r], i >>
  BY MembersPlaces, Zenon DEF L, N
<1>2. /\ SessionMembers[1] = "tensors" /\ SessionMembers[2] = "h_input"
      /\ SessionMembers[3] = "binding" /\ SessionMembers[4] = "session"
  BY DEF SessionMembers
<1>3. ASSUME NEW x \in Resources, x[1] \in SelfFreeing
      PROVE  \E n \in 1 .. L : Members[n] = x
  <2>1. CASE x \in Own \X (1 .. N)
    <3>1. PICK i \in 1 .. N : x = << x[1], i >>
      BY <2>1
    <3>2. x[1] \in {"tensors", "h_input", "binding", "session"}
      BY <1>3, <2>1 DEF SelfFreeing, Own
    <3>3. \E r \in 1 .. 4 : SessionMembers[r] = x[1]
      BY <1>2, <3>2
    <3>4. PICK r \in 1 .. 4 : SessionMembers[r] = x[1]
      BY <3>3
    <3>5. Members[4 * (i - 1) + r] = x /\ 4 * (i - 1) + r \in 1 .. L
      BY <1>1, <3>1, <3>4
    <3>6. QED
      BY <3>5
  <2>2. CASE x \in Single \X {0}
    <3> DEFINE names == << "env", "post", "inf", "prep", "overlay", "pinned" >>
    <3>1. x = << x[1], 0 >>
      BY <2>2
    <3>2. x[1] \in {"env", "post", "inf", "prep", "overlay", "pinned"}
      BY <1>3, <2>2 DEF SelfFreeing, Single
    <3>3. \E k \in 1 .. 6 : names[k] = x[1]
      <4>1. /\ names[1] = "env" /\ names[2] = "post" /\ names[3] = "inf"
            /\ names[4] = "prep" /\ names[5] = "overlay" /\ names[6] = "pinned"
        OBVIOUS
      <4> HIDE DEF names
      <4>2. QED
        BY <3>2, <4>1
    <3>4. PICK k \in 1 .. 6 : names[k] = x[1]
      BY <3>3
    <3>5. Members[4 * N + k] = << names[k], 0 >>
      BY MembersPlaces, Zenon DEF N
    <3> HIDE DEF names
    <3>6. 4 * N + k \in 1 .. L
      BY <1>0
    <3>7. QED
      BY <3>1, <3>4, <3>5, <3>6
  <2>3. QED
    BY <2>1, <2>2 DEF Resources, N
<1>4. ASSUME NEW n \in 1 .. L, NEW i \in 1 .. N
      PROVE  /\ Members[n] = << "session", i >> => \E m \in 1 .. n - 1 : Members[m] = << "binding", i >>
             /\ Members[n] = << "env", 0 >> => \E m \in 1 .. n - 1 : Members[m] = << "session", i >>
  <2> DEFINE x == Members[n]
  <2>1. InMembers(n, x) /\ n \in Nat
    BY MembersPlaces DEF L
  <2> HIDE DEF x
  <2>2. ASSUME x = << "session", i >>
        PROVE  \E m \in 1 .. n - 1 : Members[m] = << "binding", i >>
    <3>1. x[1] = "session" /\ x[2] = i
      BY <2>2
    <3>2. n = 4 * i
      BY <2>1, <3>1 DEF InMembers
    <3>3. 4 * (i - 1) + 3 \in 1 .. n - 1
      BY <1>0, <3>2
    <3>4. 3 \in 1 .. 4
      OBVIOUS
    <3>5. Members[4 * (i - 1) + 3] = << "binding", i >>
      BY <1>1, <1>2, <3>4
    <3>6. QED
      BY <3>3, <3>5
  <2>3. ASSUME x = << "env", 0 >>
        PROVE  \E m \in 1 .. n - 1 : Members[m] = << "session", i >>
    <3>1. x[1] = "env"
      BY <2>3
    <3>2. n \in 1 + 4 * N .. 6 + 4 * N
      BY <2>1, <3>1 DEF InMembers, N
    <3>3. 4 * (i - 1) + 4 \in 1 .. n - 1
      BY <1>0, <3>2
    <3>4. 4 \in 1 .. 4
      OBVIOUS
    <3>5. Members[4 * (i - 1) + 4] = << "session", i >>
      BY <1>1, <1>2, <3>4
    <3>6. QED
      BY <3>3, <3>5
  <2>4. QED
    BY <2>2, <2>3 DEF x
<1>5. ASSUME NEW n \in 1 .. L
      PROVE  Members[n][1] \notin Sections \cup {"stream"}
  <2> DEFINE x == Members[n]
  <2>1. InMembers(n, x)
    BY MembersPlaces DEF L
  <2> HIDE DEF x
  <2>2. x[1] \notin Sections \cup {"stream"}
    BY <2>1 DEF InMembers, Sections
  <2>3. QED
    BY <2>2 DEF x
<1>6. QED
  BY <1>3, <1>4, <1>5 DEF L, N

\* What a worker closes itself.
LEMMA LastOfAll ==
    LET names == << "imageView", "resImageView", "resultView", "image", "resImage", "result",
                    "mutex", "eventReady", "eventResults" >>
    IN  /\ WorkerDestructor \in Seq(Things) /\ Len(WorkerDestructor) = 9
        /\ \A k \in 1 .. 9 : WorkerDestructor[k] = << names[k], 0 >>
<1> DEFINE names == << "imageView", "resImageView", "resultView", "image", "resImage", "result",
                       "mutex", "eventReady", "eventResults" >>
<1>1. names \in Seq(Labels) /\ Len(names) = 9
  BY DEF Labels, Names, Passing
<1>2. WorkerDestructor = Of(names, 0)
  BY DEF WorkerDestructor
<1> HIDE DEF names
<1>3. /\ WorkerDestructor \in Seq(Things) /\ Len(WorkerDestructor) = 9
      /\ \A k \in 1 .. 9 : WorkerDestructor[k] = << names[k], 0 >>
  BY <1>1, <1>2, OfPlaces
<1>4. QED
  BY <1>3 DEF names

\* Where the parts of a destructor are.
LEMMA DestructorPlaces ==
    ASSUME cfg.sessions \in Nat
    PROVE  LET N == cfg.sessions
           IN  /\ Destructor \in Seq(Things) /\ Len(Destructor) = 18 + 14 * N
               /\ \A n \in 1 .. 3 : Destructor[n] = Launch[n]
               /\ \A n \in 1 .. N * 10 : Destructor[3 + n] = PerSession(SessionBody)[n]
               /\ \A n \in 1 .. 6 + 4 * N : Destructor[3 + 10 * N + n] = Members[n]
               /\ \A n \in 1 .. 9 : Destructor[9 + 14 * N + n] = WorkerDestructor[n]
<1> DEFINE N == cfg.sessions
           a == Launch
           b == PerSession(SessionBody)
           c == Members
           d == WorkerDestructor
           s == ((a \o b) \o c) \o d
<1>0. N \in Nat
  OBVIOUS
<1>1. a \in Seq(Things) /\ Len(a) = 3
  BY LaunchPlaces
<1>2. b \in Seq(Things) /\ Len(b) = N * 10
  <2>1. 10 \in Nat \ {0} /\ cfg.sessions \in Nat
    OBVIOUS
  <2>2. QED
    BY ONLY <2>1, NamesPerSession, PerSessionPlaces, Zenon
<1>3. c \in Seq(Things) /\ Len(c) = 4 * N + 6
  BY MembersPlaces
<1>4. d \in Seq(Things) /\ Len(d) = 9
  BY LastOfAll
<1>5. Destructor = s
  BY DEF Destructor, DetectorDestructor
<1> HIDE DEF a, b, c, d, N
<1>6. IsChain(s, a, b, c, d)
  <2>1. a \in Seq(Things) /\ b \in Seq(Things) /\ c \in Seq(Things) /\ d \in Seq(Things)
    BY <1>1, <1>2, <1>3, <1>4
  <2>2. QED
    BY ONLY <2>1, Chained, Zenon
<1> HIDE DEF s
<1>7. /\ s \in Seq(Things) /\ Len(s) = 3 + N * 10 + (4 * N + 6) + 9
      /\ \A n \in 1 .. 3 : s[n] = a[n]
      /\ \A n \in 1 .. N * 10 : s[3 + n] = b[n]
      /\ \A n \in 1 .. 4 * N + 6 : s[3 + N * 10 + n] = c[n]
      /\ \A n \in 1 .. 9 : s[3 + N * 10 + (4 * N + 6) + n] = d[n]
  BY <1>1, <1>2, <1>3, <1>4, <1>6 DEF IsChain
<1>8. /\ Len(s) = 18 + 14 * N
      /\ 3 + N * 10 = 3 + 10 * N
      /\ 3 + N * 10 + (4 * N + 6) = 9 + 14 * N
      /\ 4 * N + 6 = 6 + 4 * N
  BY <1>0, <1>7
<1>9. /\ \A n \in 1 .. 6 + 4 * N : s[3 + 10 * N + n] = c[n]
      /\ \A n \in 1 .. 9 : s[9 + 14 * N + n] = d[n]
  BY <1>7, <1>8
<1>10. QED
  BY <1>5, <1>7, <1>8, <1>9 DEF N, a, b, c, d

\* Which names a destructor is about, and where.
InDestructor(n, x) ==
    LET N == cfg.sessions
    IN  \/ n \in 1 .. 3 /\ x \in Threads
        \/ /\ n \in 4 .. 3 + 10 * N /\ x[2] \in 1 .. N
           /\ \/ x[1] \in {"d_input", "d_score", "d_map", "h_score", "h_map", "h_warm", "events"}
              \/ x[1] = "binding" /\ n = 10 * x[2] - 6
              \/ x[1] = "session" /\ n = 10 * x[2] - 5
              \/ x[1] = "stream" /\ n = 10 * x[2] + 3
        \/ n \in 4 + 10 * N .. 9 + 14 * N /\ x[1] # "stream"
        \/ /\ n \in 10 + 14 * N .. 18 + 14 * N /\ x[2] = 0
           /\ x[1] \notin {"session", "stream", "env", "prep", "inf", "post"}

LEMMA DestructorNames ==
    ASSUME cfg.sessions \in Nat, NEW n \in 1 .. Len(Destructor)
    PROVE  InDestructor(n, Destructor[n])
<1> DEFINE N == cfg.sessions
           x == Destructor[n]
<1>0. N \in Nat /\ n \in 1 .. 18 + 14 * N
  BY DestructorPlaces
<1>1. ASSUME n <= 3
      PROVE  InDestructor(n, x)
  <2>1. n \in 1 .. 3
    BY <1>0, <1>1
  <2>2. x = Launch[n]
    BY <2>1, DestructorPlaces
  <2>3. x \in Threads
    <3> DEFINE name == << "prep", "inf", "post" >>[n]
    <3>1. name \in {"prep", "inf", "post"}
      BY <2>1
    <3>2. Launch[n] = << name, 0 >>
      BY <2>1, LaunchPlaces, Zenon
    <3> HIDE DEF name, x
    <3>3. QED
      BY <2>2, <3>1, <3>2 DEF Threads
  <2> HIDE DEF x
  <2>4. QED
    BY <2>1, <2>3 DEF InDestructor
<1>2. ASSUME n > 3, n <= 3 + 10 * N
      PROVE  InDestructor(n, x)
  <2> DEFINE m == n - 3
  <2>1. m \in 1 .. N * 10 /\ 3 + m = n
    <3> HIDE DEF N
    <3>1. QED
      BY ONLY <1>0, <1>2
  <2> HIDE DEF m
  <2>2. x = PerSession(SessionBody)[m]
    BY <2>1, DestructorPlaces
  <2>3. \A k \in 1 .. cfg.sessions * 10 : \E i \in 1 .. cfg.sessions : \E r \in 1 .. 10 :
           k = 10 * (i - 1) + r /\ PerSession(SessionBody)[k] = << SessionBody[r], i >>
    <3>1. 10 \in Nat \ {0} /\ cfg.sessions \in Nat
      OBVIOUS
    <3>2. QED
      BY ONLY <3>1, NamesPerSession, PerSessionPlaces, Zenon
  <2>4. PICK i \in 1 .. N, r \in 1 .. 10 :
           m = 10 * (i - 1) + r /\ PerSession(SessionBody)[m] = << SessionBody[r], i >>
    BY <2>1, <2>3
  <2> HIDE DEF x
  <2>5. x[2] = i /\ x[1] = SessionBody[r]
    BY <2>2, <2>4
  <2>6. \/ x[1] \in {"d_input", "d_score", "d_map", "h_score", "h_map", "h_warm", "events"}
        \/ x[1] = "binding" /\ r = 1
        \/ x[1] = "session" /\ r = 2
        \/ x[1] = "stream" /\ r = 10
    BY <2>5 DEF SessionBody
  <2>7. n = 10 * x[2] - 7 + r
    <3> HIDE DEF N
    <3>1. QED
      BY ONLY <1>0, <2>1, <2>4, <2>5
  <2>8. n \in 4 .. 3 + 10 * N
    <3> HIDE DEF N
    <3>1. QED
      BY ONLY <1>0, <1>2
  <2>9. /\ r = 1 => n = 10 * x[2] - 6
        /\ r = 2 => n = 10 * x[2] - 5
        /\ r = 10 => n = 10 * x[2] + 3
    <3> HIDE DEF N
    <3>1. QED
      BY ONLY <1>0, <2>4, <2>5, <2>7
  <2>10. QED
    BY <2>5, <2>6, <2>8, <2>9 DEF InDestructor
<1>3. ASSUME n > 3 + 10 * N, n <= 9 + 14 * N
      PROVE  InDestructor(n, x)
  <2> DEFINE m == n - (3 + 10 * N)
  <2>1. m \in 1 .. 6 + 4 * N /\ 3 + 10 * N + m = n /\ n \in 4 + 10 * N .. 9 + 14 * N
    <3> HIDE DEF N
    <3>1. QED
      BY ONLY <1>0, <1>3
  <2> HIDE DEF m
  <2>2. x = Members[m]
    BY <2>1, DestructorPlaces
  <2>3. m \in 1 .. Len(Members)
    <3>1. Len(Members) = 4 * N + 6
      BY MembersPlaces
    <3> HIDE DEF N
    <3>2. QED
      BY ONLY <1>0, <2>1, <3>1
  <2>4. x[1] # "stream"
    BY <2>2, <2>3, MembersOrder
  <2> HIDE DEF x
  <2>5. QED
    BY <2>1, <2>4 DEF InDestructor
<1>4. ASSUME n > 9 + 14 * N
      PROVE  InDestructor(n, x)
  <2> DEFINE m == n - (9 + 14 * N)
  <2>1. m \in 1 .. 9 /\ 9 + 14 * N + m = n /\ n \in 10 + 14 * N .. 18 + 14 * N
    <3> HIDE DEF N
    <3>1. QED
      BY ONLY <1>0, <1>4
  <2> HIDE DEF m
  <2>2. x = WorkerDestructor[m]
    BY <2>1, DestructorPlaces
  <2>3. x[2] = 0 /\ x[1] \notin {"session", "stream", "env", "prep", "inf", "post"}
    <3> DEFINE name == << "imageView", "resImageView", "resultView", "image", "resImage", "result",
                          "mutex", "eventReady", "eventResults" >>[m]
    <3>0. m \in {1, 2, 3, 4, 5, 6, 7, 8, 9}
      BY ONLY <2>1
    <3>1. name \in {"imageView", "resImageView", "resultView", "image", "resImage", "result",
                    "mutex", "eventReady", "eventResults"}
      BY ONLY <3>0
    <3>2. WorkerDestructor[m] = << name, 0 >>
      BY <2>1, LastOfAll, Zenon
    <3> HIDE DEF name, x
    <3>3. name \notin {"session", "stream", "env", "prep", "inf", "post"}
      BY ONLY <3>1
    <3>4. QED
      BY <2>2, <3>2, <3>3
  <2> HIDE DEF x
  <2>4. QED
    BY <2>1, <2>3 DEF InDestructor
<1>5. n <= 3 \/ (n > 3 /\ n <= 3 + 10 * N) \/ (n > 3 + 10 * N /\ n <= 9 + 14 * N) \/ n > 9 + 14 * N
  <2> HIDE DEF N
  <2>1. QED
    BY ONLY <1>0
<1>6. QED
  BY <1>1, <1>2, <1>3, <1>4, <1>5

\* Everything there is is destroyed: the threads before anything else, a binding
\* before its session, a session before its stream and the environment.
LEMMA DestructorOrder ==
    ASSUME cfg.sessions \in Nat
    PROVE  /\ \A x \in Resources : \E n \in 1 .. Len(Destructor) : Destructor[n] = x
           /\ \A n \in 1 .. Len(Destructor) :
                /\ Destructor[n] \notin Threads =>
                     \A x \in Threads : \E m \in 1 .. n - 1 : Destructor[m] = x
                /\ \A i \in 1 .. cfg.sessions :
                     /\ Destructor[n] = << "session", i >> =>
                          \E m \in 1 .. n - 1 : Destructor[m] = << "binding", i >>
                     /\ Destructor[n] \in {<< "env", 0 >>, << "stream", i >>} =>
                          \E m \in 1 .. n - 1 : Destructor[m] = << "session", i >>
<1> DEFINE N == cfg.sessions
           L == Len(Destructor)
<1>0. N \in Nat /\ L = 18 + 14 * N /\ L \in Nat
  BY DestructorPlaces
<1> HIDE DEF L
<1>1. ASSUME NEW i \in 1 .. N, NEW r \in 1 .. 10
      PROVE  /\ 3 + 10 * (i - 1) + r \in 1 .. 3 + 10 * N /\ 3 + 10 * (i - 1) + r \in 1 .. L
             /\ Destructor[3 + 10 * (i - 1) + r] = << SessionBody[r], i >>
  <2> DEFINE m == 10 * (i - 1) + r
  <2>1. \A k \in 1 .. cfg.sessions : \A q \in 1 .. 10 :
           /\ 10 * (k - 1) + q \in 1 .. cfg.sessions * 10
           /\ PerSession(SessionBody)[10 * (k - 1) + q] = << SessionBody[q], k >>
    <3>1. 10 \in Nat \ {0} /\ cfg.sessions \in Nat
      OBVIOUS
    <3>2. QED
      BY ONLY <3>1, NamesPerSession, PerSessionPlaces, Zenon
  <2>2. m \in 1 .. N * 10 /\ PerSession(SessionBody)[m] = << SessionBody[r], i >>
    BY <2>1
  <2>3. 3 + m = 3 + 10 * (i - 1) + r /\ 3 + m \in 1 .. 3 + 10 * N /\ 3 + m \in 1 .. L
    <3>1. i \in 1 .. N /\ r \in 1 .. 10
      OBVIOUS
    <3> HIDE DEF N
    <3>2. QED
      BY ONLY <1>0, <3>1, <2>2 DEF m
  <2> HIDE DEF m
  <2>4. Destructor[3 + m] = << SessionBody[r], i >>
    BY <2>2, DestructorPlaces
  <2>5. QED
    BY <2>3, <2>4
<1>2. /\ SessionBody[1] = "binding" /\ SessionBody[2] = "session" /\ SessionBody[3] = "d_input"
      /\ SessionBody[4] = "d_score" /\ SessionBody[5] = "d_map" /\ SessionBody[6] = "h_score"
      /\ SessionBody[7] = "h_map" /\ SessionBody[8] = "h_warm" /\ SessionBody[9] = "events"
      /\ SessionBody[10] = "stream"
  BY DEF SessionBody
<1>3. \A x \in Threads : \E m \in 1 .. 3 : Destructor[m] = x
  <2>1. Destructor[1] = Launch[1] /\ Destructor[2] = Launch[2] /\ Destructor[3] = Launch[3]
    BY DestructorPlaces
  <2>2. Launch[1] = << "prep", 0 >> /\ Launch[2] = << "inf", 0 >> /\ Launch[3] = << "post", 0 >>
    BY LaunchPlaces
  <2>3. \A x \in Threads : x = << "prep", 0 >> \/ x = << "inf", 0 >> \/ x = << "post", 0 >>
    BY DEF Threads
  <2>4. 1 \in 1 .. 3 /\ 2 \in 1 .. 3 /\ 3 \in 1 .. 3
    OBVIOUS
  <2>5. QED
    BY ONLY <2>1, <2>2, <2>3, <2>4
<1>4. ASSUME NEW x \in Resources
      PROVE  \E n \in 1 .. L : Destructor[n] = x
  <2>1. CASE x[1] \in SelfFreeing
    <3>1. PICK m \in 1 .. Len(Members) : Members[m] = x
      BY <2>1, MembersOrder
    <3>2. m \in 1 .. 6 + 4 * N
      <4>1. Len(Members) = 4 * N + 6
        BY MembersPlaces
      <4>2. m \in 1 .. Len(Members)
        OBVIOUS
      <4> HIDE DEF N
      <4>3. QED
        BY ONLY <1>0, <4>1, <4>2
    <3>3. Destructor[3 + 10 * N + m] = x
      BY <3>1, <3>2, DestructorPlaces
    <3>4. 3 + 10 * N + m \in 1 .. L
      <4> HIDE DEF N
      <4>1. QED
        BY ONLY <1>0, <3>2
    <3>5. QED
      BY <3>3, <3>4
  <2>2. CASE x[1] \notin SelfFreeing /\ x \in Own \X (1 .. N)
    <3>1. PICK i \in 1 .. N : x = << x[1], i >>
      BY <2>2
    <3>2. x[1] \in {"d_input", "d_score", "d_map", "h_score", "h_map", "h_warm", "events", "stream"}
      BY <2>2 DEF SelfFreeing, Own
    <3>3. \E r \in 1 .. 10 : SessionBody[r] = x[1]
      BY <1>2, <3>2
    <3>4. PICK r \in 1 .. 10 : SessionBody[r] = x[1]
      BY <3>3
    <3>5. Destructor[3 + 10 * (i - 1) + r] = x /\ 3 + 10 * (i - 1) + r \in 1 .. L
      BY <1>1, <3>1, <3>4
    <3>6. QED
      BY <3>5
  <2>3. CASE x[1] \notin SelfFreeing /\ x \in Single \X {0}
    <3> DEFINE names == << "imageView", "resImageView", "resultView", "image", "resImage", "result",
                           "mutex", "eventReady", "eventResults" >>
    <3>1. x = << x[1], 0 >>
      BY <2>3
    <3>2. x[1] \in {"imageView", "resImageView", "resultView", "image", "resImage", "result",
                    "mutex", "eventReady", "eventResults"}
      BY <2>3 DEF SelfFreeing, Single
    <3>3. \E k \in 1 .. 9 : names[k] = x[1]
      <4>1. /\ names[1] = "imageView" /\ names[2] = "resImageView" /\ names[3] = "resultView"
            /\ names[4] = "image" /\ names[5] = "resImage" /\ names[6] = "result"
            /\ names[7] = "mutex" /\ names[8] = "eventReady" /\ names[9] = "eventResults"
        OBVIOUS
      <4> HIDE DEF names
      <4>2. QED
        BY <3>2, <4>1
    <3>4. PICK k \in 1 .. 9 : names[k] = x[1]
      BY <3>3
    <3>5. WorkerDestructor[k] = << names[k], 0 >>
      BY LastOfAll, Zenon
    <3> HIDE DEF names
    <3>6. Destructor[9 + 14 * N + k] = x
      <4>1. Destructor[9 + 14 * N + k] = WorkerDestructor[k]
        BY DestructorPlaces
      <4>2. QED
        BY ONLY <3>1, <3>4, <3>5, <4>1
    <3>7. 9 + 14 * N + k \in 1 .. L
      <4>1. k \in 1 .. 9
        OBVIOUS
      <4> HIDE DEF N
      <4>2. QED
        BY ONLY <1>0, <4>1
    <3>8. QED
      BY <3>6, <3>7
  <2>4. QED
    BY <2>1, <2>2, <2>3 DEF Resources
<1>5. ASSUME NEW n \in 1 .. L
      PROVE  InDestructor(n, Destructor[n]) /\ n \in Nat
  BY <1>0, DestructorNames DEF L
<1>6. ASSUME NEW n \in 1 .. L, Destructor[n] \notin Threads, NEW x \in Threads
      PROVE  \E m \in 1 .. n - 1 : Destructor[m] = x
  <2> DEFINE y == Destructor[n]
  <2>1. InDestructor(n, y) /\ y \notin Threads /\ n \in Nat
    BY <1>5, <1>6
  <2> HIDE DEF y
  <2>2. \/ n \in 4 .. 3 + 10 * N \/ n \in 4 + 10 * N .. 9 + 14 * N
        \/ n \in 10 + 14 * N .. 18 + 14 * N
    BY <2>1, Zenon DEF InDestructor
  <2>3. n > 3
    <3> HIDE DEF N
    <3>1. QED
      BY ONLY <1>0, <2>1, <2>2
  <2>4. PICK m \in 1 .. 3 : Destructor[m] = x
    BY <1>3
  <2>5. m \in 1 .. n - 1
    BY <2>1, <2>3
  <2>6. QED
    BY <2>4, <2>5
<1>7. ASSUME NEW n \in 1 .. L, NEW i \in 1 .. N, Destructor[n] = << "session", i >>
      PROVE  \E m \in 1 .. n - 1 : Destructor[m] = << "binding", i >>
  <2> DEFINE y == Destructor[n]
  <2>1. InDestructor(n, y) /\ y[1] = "session" /\ y[2] = i /\ n \in Nat /\ y \notin Threads
    BY <1>5, <1>7 DEF Threads
  <2> HIDE DEF y
  <2>2. n = 10 * i - 5 \/ n \in 4 + 10 * N .. 9 + 14 * N
    BY <2>1 DEF InDestructor
  <2>3. 3 + 10 * (i - 1) + 1 \in 1 .. n - 1
    <3>1. i \in 1 .. N
      OBVIOUS
    <3> HIDE DEF N
    <3>2. QED
      BY ONLY <1>0, <2>1, <2>2, <3>1
  <2>4. 1 \in 1 .. 10
    OBVIOUS
  <2>5. Destructor[3 + 10 * (i - 1) + 1] = << "binding", i >>
    BY <1>1, <1>2, <2>4
  <2>6. QED
    BY <2>3, <2>5
<1>8. ASSUME NEW n \in 1 .. L, NEW i \in 1 .. N,
             Destructor[n] \in {<< "env", 0 >>, << "stream", i >>}
      PROVE  \E m \in 1 .. n - 1 : Destructor[m] = << "session", i >>
  <2> DEFINE y == Destructor[n]
  <2>1. InDestructor(n, y) /\ n \in Nat /\ y \notin Threads
        /\ (y[1] = "env" \/ (y[1] = "stream" /\ y[2] = i))
    BY <1>5, <1>8 DEF Threads
  <2> HIDE DEF y
  <2>2. n = 10 * i + 3 \/ n \in 4 + 10 * N .. 9 + 14 * N
    BY <2>1 DEF InDestructor
  <2>3. 3 + 10 * (i - 1) + 2 \in 1 .. n - 1
    <3>1. i \in 1 .. N
      OBVIOUS
    <3> HIDE DEF N
    <3>2. QED
      BY ONLY <1>0, <2>1, <2>2, <3>1
  <2>4. 2 \in 1 .. 10
    OBVIOUS
  <2>5. Destructor[3 + 10 * (i - 1) + 2] = << "session", i >>
    BY <1>1, <1>2, <2>4
  <2>6. QED
    BY <2>3, <2>5
<1>9. QED
  BY <1>4, <1>6, <1>7, <1>8 DEF L

--------------------------------------------------------------------------------

\* How far one has got.

\* What is left of a sequence begins as all of it and ends as nothing.
LEMMA RestEnds ==
    ASSUME NEW s \in Seq(Things)
    PROVE  /\ Rest(s, s) /\ Past(s, s) = {}
           /\ Rest(s, << >>) /\ Past(s, << >>) = 1 .. Len(s)
<1>1. Len(s) \in Nat /\ s = [n \in 1 .. Len(s) |-> s[n]]
  BY LenProperties
<1>2. Rest(s, s)
  <2>1. \A n \in 1 .. Len(s) : (Len(s) - Len(s)) + n = n
    BY <1>1
  <2>2. Len(s) \in 0 .. Len(s)
    BY <1>1
  <2>3. s = [n \in 1 .. Len(s) |-> s[(Len(s) - Len(s)) + n]]
    BY <1>1, <2>1
  <2>4. QED
    BY <2>2, <2>3 DEF Rest
<1>3. Past(s, s) = {} /\ Past(s, << >>) = 1 .. Len(s)
  BY <1>1 DEF Past
<1>4. Rest(s, << >>)
  BY <1>1 DEF Rest
<1>5. QED
  BY <1>2, <1>3, <1>4

\* What is left is taken up one by one.
LEMMA RestTail ==
    ASSUME NEW s \in Seq(Things), NEW left, Rest(s, left), left # << >>,
           NEW p, p = (Len(s) - Len(left)) + 1
    PROVE  /\ p \in 1 .. Len(s) /\ Head(left) = s[p]
           /\ Rest(s, Tail(left))
           /\ Past(s, left) = 1 .. p - 1 /\ Past(s, Tail(left)) = 1 .. p
<1> DEFINE k == Len(left)
           l == Len(s)
<1>1. l \in Nat /\ k \in 0 .. l /\ left = [n \in 1 .. k |-> s[(l - k) + n]]
  BY LenProperties DEF Rest
<1>2. left \in Seq(Things)
  <2>1. \A n \in 1 .. k : s[(l - k) + n] \in Things
    <3>1. \A n \in 1 .. k : (l - k) + n \in 1 .. l
      BY <1>1
    <3>2. QED
      BY <3>1, ElementOfSeq
  <2>2. left \in [1 .. k -> Things] /\ k \in Nat
    BY <1>1, <2>1
  <2> HIDE DEF k, l
  <2>3. QED
    BY <2>2, SeqDef
<1>3. /\ k \in Nat \ {0} /\ Tail(left) \in Seq(Things) /\ Len(Tail(left)) = k - 1
      /\ \A n \in 1 .. k - 1 : Tail(left)[n] = left[n + 1]
      /\ Head(left) = left[1]
  BY <1>2, HeadTailProperties, EmptySeq
<1>4. p \in 1 .. l /\ p = (l - k) + 1 /\ 1 \in 1 .. k
  BY <1>1, <1>3
<1>5. Head(left) = s[p]
  BY <1>1, <1>3, <1>4
<1>6. Rest(s, Tail(left))
  <2> DEFINE rest == Tail(left)
  <2>1. rest = [n \in 1 .. k - 1 |-> rest[n]]
    BY <1>3, LenProperties
  <2>2. ASSUME NEW n \in 1 .. k - 1
        PROVE  rest[n] = s[(l - (k - 1)) + n]
    <3>1. n + 1 \in 1 .. k /\ (l - k) + (n + 1) = (l - (k - 1)) + n
      BY <1>1, <1>3
    <3>2. rest[n] = left[n + 1]
      BY <1>3
    <3>3. QED
      BY <1>1, <3>1, <3>2
  <2> HIDE DEF rest
  <2>3. rest = [n \in 1 .. k - 1 |-> s[(l - (k - 1)) + n]]
    BY <2>1, <2>2
  <2>4. Len(rest) = k - 1 /\ k - 1 \in 0 .. l
    BY <1>1, <1>3 DEF rest
  <2> HIDE DEF k, l
  <2>5. Rest(s, rest)
    BY <2>3, <2>4 DEF Rest, l
  <2>6. QED
    BY <2>5 DEF rest
<1>7. Past(s, left) = 1 .. p - 1 /\ Past(s, Tail(left)) = 1 .. p
  <2>1. l - k = p - 1 /\ l - (k - 1) = p
    BY <1>1, <1>3, <1>4
  <2>2. QED
    BY <1>3, <2>1 DEF Past
<1>8. QED
  BY <1>4, <1>5, <1>6, <1>7

\* The sequences depend on the number of sessions only.
LEMMA SameSequences ==
    ASSUME cfg'.sessions = cfg.sessions
    PROVE  Program' = Program /\ Members' = Members /\ Destructor' = Destructor /\ Resources' = Resources
<1>1. /\ PerSession(OpenSession)' = PerSession(OpenSession) /\ PerSession(SetUp)' = PerSession(SetUp)
      /\ PerSession(SessionMembers)' = PerSession(SessionMembers)
      /\ PerSession(SessionBody)' = PerSession(SessionBody)
  BY DEF PerSession, OpenSession, SetUp, SessionMembers, SessionBody
<1>2. Program' = Program
  BY <1>1 DEF Program, WorkerSteps, ModelSteps, Launch, Of
<1>3. Members' = Members
  BY <1>1 DEF Members, Of
<1>4. Destructor' = Destructor
  BY <1>1, <1>3 DEF Destructor, DetectorDestructor, WorkerDestructor, Launch, Of
<1>5. Resources' = Resources
  BY DEF Resources, Single, Own
<1>6. QED
  BY <1>2, <1>3, <1>4, <1>5

\* A number below a square is two digits.
LEMMA TwoDigits ==
    ASSUME NEW d \in Nat \ {0}, NEW b \in Nat, b < d * d
    PROVE  ((b \div d) % d) * d + (b % d) = b
<1> DEFINE q == b \div d
           r == b % d
           a == q \div d
           c == q % d
<1>1. q \in Int /\ r \in 0 .. d - 1 /\ b = (d * q) + r
  BY Division
<1>2. a \in Int /\ c \in 0 .. d - 1 /\ q = (d * a) + c
  <2> HIDE DEF q
  <2>1. QED
    BY <1>1, Division
<1> HIDE DEF q, r, a, c
<1>3. 0 <= q /\ q < d
  <2>1. d * q \in Int /\ d * d \in Int /\ d * (q + 1) = d * q + d /\ d * 0 = 0 /\ q + 1 \in Int
    BY <1>1
  <2>2. d * q < d * d /\ d * 0 < d * (q + 1)
    BY <1>1, <2>1
  <2>3. q < d
    BY <1>1, <2>2, Cancels
  <2>4. 0 < q + 1
    BY <2>1, <2>2, Cancels
  <2>5. QED
    BY <1>1, <2>3, <2>4
<1>4. a = 0
  <2>1. d * a \in Int /\ d * 1 = d /\ d * (a + 1) = d * a + d /\ d * 0 = 0 /\ a + 1 \in Int
    BY <1>2
  <2>2. d * a < d * 1 /\ d * 0 < d * (a + 1)
    BY <1>1, <1>2, <1>3, <2>1
  <2>3. a < 1
    BY <1>2, <2>2, Cancels
  <2>4. 0 < a + 1
    BY <2>1, <2>2, Cancels
  <2>5. QED
    BY <1>2, <2>3, <2>4
<1>5. c = q
  BY <1>1, <1>2, <1>4
<1>6. c * d + r = b
  <2>1. c * d = d * q
    BY <1>1, <1>5
  <2>2. QED
    BY <1>1, <2>1
<1>7. QED
  BY <1>6 DEF a, c, q, r

\* A section gets the bytes it is asked for.
LEMMA SizesAreWhole ==
    ASSUME OfAMachine(cfg), Addressable(cfg), NEW s \in Sections
    PROVE  CreateSharedMapping(MappingBytes(cfg)[s]) = MappingBytes(cfg)[s]
<1> DEFINE slots == IpcRingSlots(cfg)
           n == cfg.batchSize
           i == cfg.imageBytes
           D == DwordValues
           H == HeaderBytes
           B == BlockBytes
           K == kMaxRingSlots
<1>1. slots \in 1 .. K /\ n \in Nat /\ i \in Nat /\ H \in Nat /\ B \in Nat /\ K \in Nat \ {0} /\ D \in Nat \ {0}
  <2>1. n \in Nat /\ i \in Nat
    BY DEF OfAMachine, Config
  <2>2. slots \in 1 .. K
    BY Slots
  <2>3. H \in Nat /\ B \in Nat /\ K \in Nat \ {0} /\ D \in Nat \ {0}
    BY SizesAssumption
  <2>4. QED
    BY <2>1, <2>2, <2>3
<1>2. H + K * (n * i) < D * D /\ K * B < D * D
  BY DEF Addressable
<1>3. /\ IpcInputMmfBytes(cfg) = H + slots * n * i
      /\ IpcResultImageMmfBytes(cfg) = slots * (n * i)
      /\ IpcResultBlockMmfBytes(cfg) = slots * B
  BY DEF IpcInputMmfBytes, IpcResultImageMmfBytes, IpcOverlayBatchBytes, IpcResultBlockMmfBytes
<1> HIDE DEF slots, n, i, D, H, B, K
<1>4. ASSUME NEW m \in Nat
      PROVE  slots * m \in Nat /\ K * m \in Nat /\ slots * m <= K * m
  <2>1. slots \in Int /\ K \in Int /\ slots <= K
    BY <1>1
  <2>2. m * slots <= m * K
    BY <2>1, Grows
  <2>3. slots * m = m * slots /\ K * m = m * K /\ slots * m \in Nat /\ K * m \in Nat
    BY <1>1
  <2>4. QED
    BY <2>2, <2>3
<1>5. n * i \in Nat /\ slots * n * i = slots * (n * i)
  BY <1>1
<1>6. slots * (n * i) \in Nat /\ K * (n * i) \in Nat /\ slots * (n * i) <= K * (n * i)
  BY <1>4, <1>5
<1>7. slots * B \in Nat /\ K * B \in Nat /\ slots * B <= K * B
  BY <1>1, <1>4
<1> DEFINE p == slots * (n * i)
           q == K * (n * i)
           u == slots * B
           v == K * B
           DD == D * D
<1>8. /\ p \in Nat /\ q \in Nat /\ p <= q /\ H + q < DD /\ u \in Nat /\ v \in Nat /\ u <= v /\ v < DD
      /\ DD \in Nat
  BY <1>1, <1>2, <1>6, <1>7
<1>9. /\ IpcInputMmfBytes(cfg) = H + p /\ IpcResultImageMmfBytes(cfg) = p /\ IpcResultBlockMmfBytes(cfg) = u
  BY <1>3, <1>5
<1> HIDE DEF p, q, u, v, DD
<1>10. /\ H + p \in Nat /\ H + p < DD /\ p < DD /\ u < DD
  BY <1>1, <1>8
<1>11. ASSUME NEW b \in Nat, b < DD
       PROVE  CreateSharedMapping(b) = b
  <2>1. ((b \div D) % D) * D + (b % D) = b
    BY <1>1, <1>11, TwoDigits DEF DD
  <2>2. QED
    BY <2>1 DEF CreateSharedMapping, D
<1>12. CreateSharedMapping(H + p) = H + p /\ CreateSharedMapping(p) = p /\ CreateSharedMapping(u) = u
  BY <1>8, <1>10, <1>11
<1>13. \/ s = "image" /\ MappingBytes(cfg)[s] = H + p
       \/ s = "resImage" /\ MappingBytes(cfg)[s] = p
       \/ s = "result" /\ MappingBytes(cfg)[s] = u
  BY <1>9 DEF MappingBytes, Sections
<1>14. QED
  BY <1>12, <1>13

--------------------------------------------------------------------------------

\* The order invariant.

\* What a sequence of steps has left, and how far it is, in the next state.
LEMMA RestNext ==
    ASSUME cfg'.sessions = cfg.sessions
    PROVE  /\ Rest(Program, todo)' = Rest(Program, todo')
           /\ Past(Program, todo)' = Past(Program, todo')
           /\ Releasing(Members)' = /\ Rest(Members, release')
                                    /\ \A n \in Past(Members, release') : Members[n] \notin held'
                                    /\ \A x \in freed' : \E n \in Past(Members, release') : Members[n] = x
           /\ Releasing(Destructor)' = /\ Rest(Destructor, release')
                                       /\ \A n \in Past(Destructor, release') : Destructor[n] \notin held'
                                       /\ \A x \in freed' : \E n \in Past(Destructor, release') : Destructor[n] = x
<1>1. Program' = Program /\ Members' = Members /\ Destructor' = Destructor
  BY SameSequences
<1>2. Rest(Program, todo)' = Rest(Program, todo') /\ Past(Program, todo)' = Past(Program, todo')
  BY <1>1 DEF Rest, Past
<1>3. /\ Rest(Members, release)' = Rest(Members, release')
      /\ Past(Members, release)' = Past(Members, release')
      /\ Rest(Destructor, release)' = Rest(Destructor, release')
      /\ Past(Destructor, release)' = Past(Destructor, release')
  BY <1>1 DEF Rest, Past
<1>4. Releasing(Members)' = /\ Rest(Members, release')
                            /\ \A n \in Past(Members, release') : Members[n] \notin held'
                            /\ \A x \in freed' : \E n \in Past(Members, release') : Members[n] = x
  BY <1>1, <1>3, Zenon DEF Releasing
<1>5. Releasing(Destructor)' = /\ Rest(Destructor, release')
                               /\ \A n \in Past(Destructor, release') : Destructor[n] \notin held'
                               /\ \A x \in freed' : \E n \in Past(Destructor, release') : Destructor[n] = x
  BY <1>1, <1>3, Zenon DEF Releasing
<1>6. QED
  BY <1>2, <1>4, <1>5

\* What the tables' invariant says of the numbers here.
LEMMA Sessions ==
    ASSUME IInv
    PROVE  /\ cfg.sessions \in Nat /\ NothingHeld
           /\ Program \in Seq(Things) /\ Members \in Seq(Things) /\ Destructor \in Seq(Things)
           /\ Len(options) \in Nat /\ MaxRounds \in Nat /\ MaxFaults \in Nat
<1>1. cfg.sessions \in Nat /\ NothingHeld
  BY DEF IInv, OfAMachine, Config
<1>2. Program \in Seq(Things) /\ Members \in Seq(Things) /\ Destructor \in Seq(Things)
  BY <1>1, ProgramPlaces, MembersPlaces, DestructorPlaces
<1>3. Len(options) \in Nat
  BY LenProperties DEF IInv, OptionsChosen
<1>4. MaxRounds \in Nat /\ MaxFaults \in Nat
  BY ConstructionAssumption
<1>5. QED
  BY <1>1, <1>2, <1>3, <1>4

\* At the start there is nothing.
LEMMA OrderInitially == Init => OInv
<1> SUFFICES ASSUME Init PROVE OInv
  OBVIOUS
<1>0. IInv
  BY Initially
<1>1. NothingHeld /\ Built /\ Aged /\ Unbuilt /\ Left
  BY DEF Init, NothingHeld, Built, Aged, Unbuilt, Left
<1>2. Rest(Program, todo)
  BY <1>0, Sessions, RestEnds DEF Init
<1>3. Len(options) = 0
  BY DEF Init
<1>4. Values
  <2>1. cfg.sessions \in Nat /\ MaxRounds \in Nat /\ MaxFaults \in Nat
    BY <1>0, Sessions
  <2>2. Len(options) \in 0 .. cfg.sessions /\ 0 \in 0 .. MaxRounds /\ 0 \in 0 .. MaxFaults
    BY ONLY <1>3, <2>1
  <2>3. held = {} /\ freed = {} /\ leaks = {} /\ rounds = 0 /\ faults = 0
    BY DEF Init
  <2>4. QED
    BY ONLY <1>2, <2>2, <2>3 DEF Values
<1>5. QED
  BY <1>1, <1>4 DEF OInv

\* A new worker begins at the first step.
LEMMA OrderConfigure ==
    ASSUME IInv, OInv, Configure
    PROVE  OInv'
<1>0. /\ status = "none" /\ status' = "building" /\ todo' = Program /\ freed' = {} /\ options' = << >>
      /\ reason' = "" /\ rounds' = rounds + 1 /\ rounds < MaxRounds /\ faults' = faults
      /\ held' = held /\ leaks' = leaks /\ thrown' = thrown
  BY DEF Configure
<1>1. cfg'.sessions = cfg.sessions
  BY DEF Configure, IInv, OfAMachine, Config
<1>2. cfg.sessions \in Nat /\ held = {}
  BY <1>0, Sessions DEF NothingHeld
<1>3. Program' = Program /\ Resources' = Resources
  BY <1>1, SameSequences
<1>4. Rest(Program, todo)' /\ Past(Program, todo)' = {}
  BY <1>0, <1>1, RestNext, RestEnds, Sessions
<1>5. Values'
  <2>1. leaks \subseteq Resources /\ rounds \in 0 .. MaxRounds /\ faults \in 0 .. MaxFaults
    BY DEF OInv, Values
  <2>2. Len(options') = 0
    BY ONLY <1>0
  <2>5. Len(options') \in 0 .. cfg.sessions
    BY ONLY <1>2, <2>2
  <2>6. MaxRounds \in Nat /\ rounds' = rounds + 1 /\ rounds < MaxRounds /\ rounds \in 0 .. MaxRounds
    BY <1>0, <2>1, Sessions
  <2>3. rounds' \in 0 .. MaxRounds
    BY ONLY <2>6
  <2>4. QED
    BY <1>0, <1>1, <1>2, <1>3, <1>4, <2>1, <2>3, <2>5 DEF Values
<1>6. Built'
  <2>1. ASSUME NEW n \in 1 .. Len(Program), Program[n][1] = "options"
        PROVE  Len(options') < Program[n][2]
    <3>1. Program[n][2] \in 1 .. cfg.sessions
      BY <1>2, <2>1, StepsKnown
    <3>2. Len(options') = 0
      BY <1>0
    <3>3. QED
      BY <1>2, <3>1, <3>2
  <2>2. QED
    BY <1>0, <1>2, <1>3, <1>4, <2>1 DEF Built
<1>7. NothingHeld' /\ Aged' /\ Unbuilt' /\ Left'
  <2>1. NothingHeld' /\ Aged' /\ Unbuilt'
    BY <1>0, <1>4 DEF NothingHeld, Aged, Unbuilt
  <2>2. Left'
    BY <1>0 DEF OInv, Left
  <2>3. QED
    BY <2>1, <2>2
<1>8. QED
  BY <1>5, <1>6, <1>7 DEF OInv

\* Taking up the next step.
LEMMA NextStep ==
    ASSUME IInv, OInv, status = "building", todo # << >>,
           NEW p, p = (Len(Program) - Len(todo)) + 1
    PROVE  /\ p \in 1 .. Len(Program) /\ p \in Nat /\ Len(Program) \in Nat
           /\ Step = Program[p] /\ Step \in Things
           /\ Rest(Program, Tail(todo))
           /\ Past(Program, todo) = 1 .. p - 1 /\ Past(Program, Tail(todo)) = 1 .. p
           /\ Step[1] \in Passing \/ Step \in Resources
           /\ Step[1] = "options" => Step[2] \in 1 .. cfg.sessions
<1>1. Program \in Seq(Things) /\ cfg.sessions \in Nat
  BY Sessions
<1>2. Rest(Program, todo)
  BY DEF OInv, Values
<1>3. /\ p \in 1 .. Len(Program) /\ Head(todo) = Program[p]
      /\ Rest(Program, Tail(todo))
      /\ Past(Program, todo) = 1 .. p - 1 /\ Past(Program, Tail(todo)) = 1 .. p
  BY <1>1, <1>2, RestTail
<1>4. Len(Program) \in Nat /\ p \in Nat
  BY <1>1, <1>3, LenProperties
<1>5. /\ Program[p] \in Things
      /\ Program[p][1] \in Passing \/ Program[p] \in Resources
      /\ Program[p][1] = "options" => Program[p][2] \in 1 .. cfg.sessions
  BY <1>1, <1>3, StepsKnown
<1>6. QED
  BY <1>3, <1>4, <1>5 DEF Step

\* A step of the constructor.
LEMMA OrderAcquire ==
    ASSUME IInv, OInv, Acquire
    PROVE  OInv'
<1> DEFINE p == (Len(Program) - Len(todo)) + 1
           L == Len(Program)
           N == cfg.sessions
<1>0. /\ status = "building" /\ status' = "building" /\ todo # << >> /\ todo' = Tail(todo) /\ cfg' = cfg
      /\ freed' = freed /\ leaks' = leaks /\ peer' = peer /\ thrown' = thrown /\ reason' = reason
      /\ rounds' = rounds /\ faults' = faults
      /\ held' = IF Step[1] \in Passing \/ Skipped(Step) THEN held ELSE held \cup {Step}
      /\ Refusals(Step) = {} /\ Computes
  BY DEF Acquire, Building
<1>1. /\ p \in 1 .. L /\ p \in Nat /\ L \in Nat
      /\ Step = Program[p] /\ Step \in Things
      /\ Rest(Program, todo')
      /\ Past(Program, todo) = 1 .. p - 1 /\ Past(Program, todo') = 1 .. p
      /\ Step[1] \in Passing \/ Step \in Resources
      /\ Step[1] = "options" => Step[2] \in 1 .. N
  BY <1>0, NextStep
<1>2. /\ cfg'.sessions = cfg.sessions /\ Program' = Program /\ Resources' = Resources
      /\ Rest(Program, todo)' /\ Past(Program, todo)' = 1 .. p
  <2>1. cfg'.sessions = cfg.sessions
    BY <1>0
  <2>2. QED
    BY <1>1, <2>1, SameSequences, RestNext
<1>3. /\ freed = {} /\ held \subseteq Resources
      /\ \A x \in held : \E n \in 1 .. p - 1 : Program[n] = x
      /\ \A n \in 1 .. p - 1 : Program[n][1] \in Needed \cup Sections => Program[n] \in held
      /\ \A n \in (1 .. L) \ (1 .. p - 1) : Program[n][1] = "options" => Len(options) < Program[n][2]
  BY <1>0, <1>1 DEF OInv, Values, Built
<1>4. cfg.sessions \in Nat /\ Len(options) \in 0 .. N
  BY Sessions DEF OInv, Values
<1> HIDE DEF p, L, N
<1>5. ASSUME Step[1] = "options"
      PROVE  Len(options') = Len(options) + 1 /\ Len(options) < Step[2] /\ Step[2] \in 1 .. N
  <2>1. PICK answer \in cfg.answers :
           options' = Append(options, Options(cfg.build, answer, Partition(cfg.index), Len(cfg.cores)))
    BY <1>0, <1>5 DEF Computes
  <2> DEFINE o == Options(cfg.build, answer, Partition(cfg.index), Len(cfg.cores))
  <2>2. o \in MayGet(cfg)
    BY DEF MayGet, Partition
  <2>3. options' = Append(options, o) /\ options \in Seq(MayGet(cfg))
    BY <2>1 DEF IInv, OptionsChosen
  <2> HIDE DEF o
  <2>4. Len(options') = Len(options) + 1
    BY <2>2, <2>3, AppendProperties
  <2>5. p \in (1 .. L) \ (1 .. p - 1)
    BY <1>1
  <2>6. Len(options) < Program[p][2]
    BY <1>1, <1>3, <1>5, <2>5
  <2>7. QED
    BY <1>1, <1>5, <2>4, <2>6
<1>6. Step[1] # "options" => options' = options
  BY <1>0 DEF Computes
<1>7. held' \subseteq Resources /\ held \subseteq held' /\ held' \subseteq held \cup {Step}
  <2>1. CASE Step[1] \in Passing \/ Skipped(Step)
    BY <1>0, <1>3, <2>1
  <2>2. CASE ~(Step[1] \in Passing \/ Skipped(Step))
    BY <1>0, <1>1, <1>3, <2>2
  <2>3. QED
    BY <2>1, <2>2
<1>8. Values'
  <2>1. freed \subseteq Resources /\ leaks \subseteq Resources /\ rounds \in 0 .. MaxRounds /\ faults \in 0 .. MaxFaults
    BY DEF OInv, Values
  <2>2. Len(options') \in 0 .. N
    <3>1. CASE Step[1] = "options"
      <4>1. Len(options') = Len(options) + 1 /\ Len(options) < Step[2] /\ Step[2] \in 1 .. N
            /\ N \in Nat /\ Len(options) \in 0 .. N
        BY <1>4, <1>5, <3>1 DEF N
      <4>2. QED
        BY ONLY <4>1
    <3>2. CASE Step[1] # "options"
      BY <1>4, <1>6, <3>2
    <3>3. QED
      BY <3>1, <3>2
  <2>3. QED
    BY <1>0, <1>2, <1>3, <1>7, <2>1, <2>2 DEF Values, N
<1>9. Built'
  <2>1. ASSUME NEW x \in held'
        PROVE  \E n \in 1 .. p : Program[n] = x
    <3>1. CASE x \in held
      <4>1. PICK n \in 1 .. p - 1 : Program[n] = x
        BY <1>3, <3>1
      <4>2. n \in 1 .. p
        BY <1>1
      <4>3. QED
        BY <4>1, <4>2
    <3>2. CASE x = Step
      <4>1. p \in 1 .. p
        BY <1>1
      <4>2. QED
        BY <1>1, <3>2, <4>1
    <3>3. QED
      BY <1>7, <3>1, <3>2
  <2>2. ASSUME NEW n \in 1 .. p, Program[n][1] \in Needed \cup Sections
        PROVE  Program[n] \in held'
    <3>1. CASE n = p
      <4>1. Step[1] \in Needed \cup Sections
        BY <1>1, <2>2, <3>1
      <4>2. Step[1] \notin Passing /\ ~Skipped(Step)
        BY <4>1 DEF Needed, Sections, Passing, Skipped
      <4>3. QED
        BY <1>0, <1>1, <3>1, <4>2
    <3>2. CASE n # p
      <4>1. n \in 1 .. p - 1
        BY <1>1, <3>2
      <4>2. QED
        BY <1>3, <1>7, <2>2, <4>1
    <3>3. QED
      BY <3>1, <3>2
  <2>4. ASSUME NEW n \in (1 .. L) \ (1 .. p), Program[n][1] = "options"
        PROVE  Len(options') < Program[n][2]
    <3>1. n \in (1 .. L) \ (1 .. p - 1) /\ n \in 1 .. L /\ p < n
      BY <1>1
    <3>2. CASE Step[1] = "options"
      <4>1. Program[p][2] < Program[n][2]
        BY <1>1, <1>4, <2>4, <3>1, <3>2, OptionsInOrder DEF L
      <4>2. Program[n][2] \in 1 .. N
        BY <1>4, <2>4, <3>1, StepsKnown DEF L, N
      <4>3. /\ Len(options') = Len(options) + 1 /\ Len(options) < Step[2] /\ Step[2] \in 1 .. N
            /\ N \in Nat /\ Len(options) \in 0 .. N /\ Step[2] < Program[n][2] /\ Program[n][2] \in 1 .. N
        BY <1>1, <1>4, <1>5, <3>2, <4>1, <4>2 DEF N
      <4>4. QED
        BY ONLY <4>3
    <3>3. CASE Step[1] # "options"
      BY <1>3, <1>6, <2>4, <3>1, <3>3
    <3>4. QED
      BY <3>2, <3>3
  <2>5. QED
    BY <1>0, <1>2, <1>3, <2>1, <2>2, <2>4 DEF Built, L
<1>10. Aged'
  <2> SUFFICES ASSUME Addressable(cfg)', NEW n \in 1 .. p, Program[n][1] \in Sections
               PROVE  \/ MappingBytes(cfg)[Program[n][1]] <= size'[Program[n][1]]
                      \/ peer \/ leaks # {}
    BY <1>0, <1>2 DEF Aged
  <2> DEFINE s == Program[n][1]
             bytes == MappingBytes(cfg)[s]
  <2>0. /\ Addressable(cfg) /\ OfAMachine(cfg) /\ s \in Sections /\ n \in 1 .. L
        /\ size \in [Sections -> Nat]
    BY <1>0, <1>1 DEF IInv, ViewsFit, Addressable
  <2>1. bytes \in Nat /\ CreateSharedMapping(bytes) = bytes
    BY <2>0, SizesAreNumbers, SizesAreWhole
  <2> HIDE DEF s, bytes
  <2>2. ASSUME n = p, Exists(s)
        PROVE  peer \/ leaks # {}
    <3>1. SUFFICES ASSUME ~peer, leaks = {} PROVE FALSE
      OBVIOUS
    <3>2. PICK v \in {s} \cup {w \in DOMAIN ViewOf : ViewOf[w] = s} : << v, 0 >> \in held
      BY <2>2, <3>1 DEF Exists
    <3>3. PICK m \in 1 .. p - 1 : Program[m] = << v, 0 >>
      BY <1>3, <3>2
    <3>4. Program[m][1] = v
      BY <3>3
    <3>5. /\ Program[m][1] # s
          /\ Program[m][1] \in DOMAIN ViewOf => ViewOf[Program[m][1]] # s
      BY <1>1, <1>4, <2>0, <2>2, SectionBeforeView DEF s, L
    <3>6. QED
      BY <3>2, <3>4, <3>5
  <2>3. CASE n = p
    <3>1. size'[s] = CreatedSize(s)
      BY <1>0, <1>1, <2>0, <2>3 DEF Computes, s
    <3>2. CASE Exists(s)
      BY <2>2, <2>3, <3>2
    <3>3. CASE ~Exists(s)
      <4>1. size'[s] = CreateSharedMapping(bytes)
        BY <3>1, <3>3 DEF CreatedSize, bytes
      <4>2. bytes <= size'[s]
        BY <2>1, <4>1
      <4>3. QED
        BY <4>2 DEF bytes, s
    <3>4. QED
      BY <3>2, <3>3
  <2>4. CASE n # p
    <3>1. n \in 1 .. p - 1
      BY <1>1, <2>4
    <3>2. bytes <= size[s] \/ peer \/ leaks # {}
      BY <1>0, <1>1, <2>0, <3>1 DEF OInv, Aged, s, bytes
    <3>3. size'[s] = size[s]
      <4>1. Step[1] \in Sections => Step[1] # s
        BY <1>1, <1>4, <3>1, SectionBeforeView DEF s, L
      <4>2. QED
        BY <1>0, <2>0, <4>1 DEF Computes
    <3>4. QED
      BY <3>2, <3>3 DEF s, bytes
  <2>5. QED
    BY <2>3, <2>4
<1>11. NothingHeld' /\ Unbuilt'
  BY <1>0 DEF NothingHeld, Unbuilt
<1>12. Left'
  <2>1. Addressable(cfg)' = Addressable(cfg)
    BY <1>0 DEF Addressable
  <2>2. QED
    BY <1>0, <2>1 DEF OInv, Left
<1>13. QED
  BY <1>8, <1>9, <1>10, <1>11, <1>12 DEF OInv

\* A call fails that nobody checks: the step is past and has acquired nothing.
LEMMA OrderAcquireNothing ==
    ASSUME IInv, OInv, AcquireNothing
    PROVE  OInv'
<1> DEFINE p == (Len(Program) - Len(todo)) + 1
           L == Len(Program)
<1>0. /\ status = "building" /\ status' = "building" /\ todo # << >> /\ todo' = Tail(todo) /\ cfg' = cfg
      /\ held' = held /\ freed' = freed /\ leaks' = leaks /\ peer' = peer /\ thrown' = thrown
      /\ reason' = reason /\ rounds' = rounds /\ size' = size /\ options' = options
      /\ contract' = contract /\ Step[1] \in Unchecked
  BY DEF AcquireNothing, Building
<1>1. /\ p \in 1 .. L /\ p \in Nat /\ L \in Nat /\ Step = Program[p]
      /\ Rest(Program, todo')
      /\ Past(Program, todo) = 1 .. p - 1 /\ Past(Program, todo') = 1 .. p
  BY <1>0, NextStep
<1>2. /\ cfg'.sessions = cfg.sessions /\ Program' = Program /\ Resources' = Resources
      /\ Rest(Program, todo)' /\ Past(Program, todo)' = 1 .. p
  <2>1. cfg'.sessions = cfg.sessions
    BY <1>0
  <2>2. QED
    BY <1>1, <2>1, SameSequences, RestNext
<1>3. /\ freed = {}
      /\ \A x \in held : \E n \in 1 .. p - 1 : Program[n] = x
      /\ \A n \in 1 .. p - 1 : Program[n][1] \in Needed \cup Sections => Program[n] \in held
      /\ \A n \in (1 .. L) \ (1 .. p - 1) : Program[n][1] = "options" => Len(options) < Program[n][2]
  BY <1>0, <1>1 DEF OInv, Built
<1>4. Program[p][1] \notin Needed \cup Sections
  BY <1>0, <1>1 DEF Unchecked, Needed, Sections
<1> HIDE DEF p, L
<1>5. \A n \in 1 .. p : n = p \/ n \in 1 .. p - 1
  BY <1>1
<1>6. 1 .. p - 1 \subseteq 1 .. p
  BY <1>1
<1>7. faults' \in 0 .. MaxFaults
  <2>1. faults' = faults + 1 /\ faults < MaxFaults /\ faults \in 0 .. MaxFaults /\ MaxFaults \in Nat
    BY Sessions DEF AcquireNothing, OInv, Values
  <2>2. QED
    BY ONLY <2>1
<1>8. Values'
  BY <1>0, <1>2, <1>7 DEF OInv, Values
<1>9. Built'
  <2>1. \A x \in held : \E n \in 1 .. p : Program[n] = x
    BY <1>3, <1>6
  <2>2. \A n \in 1 .. p : Program[n][1] \in Needed \cup Sections => Program[n] \in held
    BY <1>3, <1>4, <1>5
  <2>3. \A n \in (1 .. L) \ (1 .. p) : Program[n][1] = "options" => Len(options) < Program[n][2]
    BY <1>3, <1>6
  <2>4. QED
    BY <1>0, <1>2, <1>3, <2>1, <2>2, <2>3 DEF Built, L
<1>10. Aged'
  <2>1. Addressable(cfg)' = Addressable(cfg)
    BY <1>0 DEF Addressable
  <2>2. Addressable(cfg) => \A n \in 1 .. p - 1 : Program[n][1] \in Sections =>
           MappingBytes(cfg)[Program[n][1]] <= size[Program[n][1]] \/ peer \/ leaks # {}
    BY <1>0, <1>1 DEF OInv, Aged
  <2>3. Addressable(cfg) => \A n \in 1 .. p : Program[n][1] \in Sections =>
           MappingBytes(cfg)[Program[n][1]] <= size[Program[n][1]] \/ peer \/ leaks # {}
    BY <1>4, <1>5, <2>2
  <2>4. MappingBytes(cfg)' = MappingBytes(cfg)
    BY <1>0
  <2>5. QED
    BY <1>0, <1>2, <2>1, <2>3, <2>4 DEF Aged
<1>11. NothingHeld' /\ Unbuilt'
  BY <1>0 DEF NothingHeld, Unbuilt
<1>12. Left'
  <2>1. Addressable(cfg)' = Addressable(cfg)
    BY <1>0 DEF Addressable
  <2>2. QED
    BY <1>0, <2>1 DEF OInv, Left
<1>13. QED
  BY <1>8, <1>9, <1>10, <1>11, <1>12 DEF OInv

\* A constructor throws.
LEMMA OrderThrow ==
    ASSUME IInv, OInv, Throw
    PROVE  OInv'
<1> DEFINE p == (Len(Program) - Len(todo)) + 1
<1>0. /\ status = "building" /\ status' = "unwinding" /\ release' = Members /\ thrown' = TRUE
      /\ todo # << >> /\ todo' = todo /\ cfg' = cfg /\ freed' = freed /\ leaks' = leaks /\ peer' = peer
      /\ rounds' = rounds /\ options' = options
      /\ \/ held' = held
         \/ Step[1] \in Filled /\ held' = held \cup {Step}
  BY DEF Throw
<1>1. /\ p \in 1 .. Len(Program) /\ Step = Program[p]
      /\ Past(Program, todo) = 1 .. p - 1
      /\ Step[1] \in Passing \/ Step \in Resources
  BY <1>0, NextStep
<1>2. /\ cfg'.sessions = cfg.sessions /\ Program' = Program /\ Resources' = Resources
      /\ Rest(Program, todo)'
  <2>1. cfg'.sessions = cfg.sessions
    BY <1>0
  <2>2. Rest(Program, todo)
    BY DEF OInv, Values
  <2>3. QED
    BY <1>0, <2>1, <2>2, SameSequences, RestNext
<1>3. freed = {} /\ held \subseteq held' /\ held' \subseteq Resources
  <2>1. freed = {} /\ held \subseteq Resources
    BY <1>0 DEF OInv, Values, Built
  <2>2. Step[1] \in Filled => Step \in Resources
    BY <1>1 DEF Filled, Passing
  <2>3. QED
    BY <1>0, <2>1, <2>2
<1>4. faults' \in 0 .. MaxFaults
  <2>1. faults' = IF reason' = "fault" THEN faults + 1 ELSE faults
    BY DEF Throw
  <2>2. reason' = "fault" => faults < MaxFaults
    BY DEF Throw, Refusals
  <2>3. faults \in 0 .. MaxFaults /\ MaxFaults \in Nat
    BY Sessions DEF OInv, Values
  <2>4. QED
    BY ONLY <2>1, <2>2, <2>3
<1>5. Values'
  BY <1>0, <1>2, <1>3, <1>4 DEF OInv, Values
<1>6. Unbuilt'
  <2>1. Rest(Members, Members) /\ Past(Members, Members) = {}
    BY Sessions, RestEnds
  <2>2. Releasing(Members)'
    BY <1>0, <1>2, <1>3, <2>1, RestNext
  <2>3. QED
    BY <1>0, <2>2 DEF Unbuilt
<1>7. NothingHeld' /\ Built' /\ Aged'
  BY <1>0 DEF NothingHeld, Built, Aged
<1>8. ASSUME Addressable(cfg)', reason' = "stale"
      PROVE  (peer \/ leaks # {}) /\ \E s \in Sections : << s, 0 >> \in held
  <2>0. Addressable(cfg)
    BY <1>0, <1>8 DEF Addressable
  <2>1. "stale" \in Refusals(Step)
    BY <1>8 DEF Throw
  <2>2. Step[1] \in DOMAIN ViewOf /\ MappingBytes(cfg)[ViewOf[Step[1]]] > size[ViewOf[Step[1]]]
    BY <2>1 DEF Refusals
  <2> DEFINE s == ViewOf[Step[1]]
  <2>3. s \in Sections
    BY <2>2 DEF ViewOf, Sections
  <2>4. PICK m \in 1 .. p - 1 : Program[m] = << s, 0 >>
    BY <1>1, <2>2, Sessions, SectionBeforeView
  <2> HIDE DEF s, p
  <2>5. Program[m][1] = s
    BY <2>4
  <2>6. << s, 0 >> \in held
    BY <1>0, <1>1, <2>3, <2>4, <2>5 DEF OInv, Built
  <2>7. MappingBytes(cfg)[s] <= size[s] \/ peer \/ leaks # {}
    BY <1>0, <1>1, <2>0, <2>3, <2>5 DEF OInv, Aged
  <2>8. MappingBytes(cfg)[s] \in Nat /\ size[s] \in Nat /\ MappingBytes(cfg)[s] > size[s]
    BY <2>2, <2>3, SizesAreNumbers DEF IInv, ViewsFit, s
  <2>9. QED
    BY <2>3, <2>6, <2>7, <2>8
<1>9. Left'
  <2>1. \A x \in leaks : x[1] \notin SelfFreeing
    BY DEF OInv, Left
  <2>2. ASSUME Addressable(cfg)', reason' = "stale"
        PROVE  (peer' \/ leaks' # {}) /\ \E s \in Sections : << s, 0 >> \in held'
    BY <1>0, <1>3, <1>8, <2>2
  <2>3. QED
    BY <1>0, <2>1, <2>2 DEF Left
<1>10. QED
  BY <1>5, <1>6, <1>7, <1>9 DEF OInv

\* Steps that acquire and release nothing.
LEMMA OrderQuietly ==
    ASSUME IInv, OInv, NoFirstSession \/ Ready \/ PeerOpens \/ PeerCloses \/ UNCHANGED vars
    PROVE  OInv'
<1>0. /\ todo' = todo /\ cfg' = cfg /\ held' = held /\ freed' = freed /\ release' = release
      /\ leaks' = leaks /\ size' = size /\ options' = options /\ contract' = contract
      /\ reason' = reason /\ thrown' = thrown /\ rounds' = rounds /\ faults' = faults
      /\ \/ status = "building" /\ status' = "undefined"
         \/ status = "building" /\ todo = << >> /\ status' = "ready"
         \/ status \in {"none", "ready"} /\ status' = status
         \/ status' = status /\ peer' = peer
  BY Zenon DEF NoFirstSession, Ready, PeerOpens, PeerCloses, vars
<1>1. /\ cfg'.sessions = cfg.sessions /\ Program' = Program /\ Resources' = Resources
      /\ Rest(Program, todo)' = Rest(Program, todo)
      /\ Past(Program, todo)' = Past(Program, todo)
      /\ Releasing(Members)' = Releasing(Members)
      /\ Releasing(Destructor)' = Releasing(Destructor)
  <2>1. cfg'.sessions = cfg.sessions
    BY <1>0
  <2>2. Program' = Program /\ Members' = Members /\ Destructor' = Destructor /\ Resources' = Resources
    BY <2>1, SameSequences
  <2>3. Rest(Program, todo)' = Rest(Program, todo) /\ Past(Program, todo)' = Past(Program, todo)
    BY <1>0, <2>2 DEF Rest, Past
  <2>4. Releasing(Members)' = Releasing(Members) /\ Releasing(Destructor)' = Releasing(Destructor)
    BY <1>0, <2>2 DEF Releasing, Rest, Past
  <2>5. QED
    BY <2>1, <2>2, <2>3, <2>4
<1>2. Values'
  BY <1>0, <1>1 DEF OInv, Values
<1>3. Addressable(cfg)' = Addressable(cfg) /\ MappingBytes(cfg)' = MappingBytes(cfg)
  BY <1>0 DEF Addressable
<1>4. NothingHeld'
  BY <1>0 DEF OInv, NothingHeld
<1>5. Built'
  BY <1>0, <1>1 DEF OInv, Built
<1>6. Aged'
  <2>1. status' = "building" => status = "building" /\ peer' = peer
    BY <1>0
  <2>2. QED
    BY <1>0, <1>1, <1>3, <2>1 DEF OInv, Aged
<1>7. Unbuilt'
  BY <1>0, <1>1 DEF OInv, Unbuilt
<1>8. Left'
  <2>1. \A x \in leaks : x[1] \notin SelfFreeing
    BY DEF OInv, Left
  <2>2. leaks # {} => thrown
    BY DEF OInv, Left
  <2>3. ASSUME Addressable(cfg), reason = "stale"
        PROVE  /\ status' \in {"none", "unwinding", "terminated"} /\ thrown
               /\ peer' \/ leaks # {}
               /\ status' = "none" => leaks # {}
               /\ status' = "unwinding" => \E s \in Sections : << s, 0 >> \in held
    BY <1>0, <2>3 DEF OInv, Left
  <2>4. QED
    BY <1>0, <1>3, <2>1, <2>2, <2>3 DEF Left
<1>9. QED
  BY <1>2, <1>4, <1>5, <1>6, <1>7, <1>8 DEF OInv

\* A destructor starts with all of its work to do.
LEMMA OrderDestroy ==
    ASSUME IInv, OInv, Destroy
    PROVE  OInv'
<1>0. /\ status = "ready" /\ status' = "destroying" /\ release' = Destructor
      /\ todo' = todo /\ cfg' = cfg /\ held' = held /\ freed' = freed /\ leaks' = leaks
      /\ options' = options /\ reason' = reason /\ thrown' = thrown
      /\ rounds' = rounds /\ faults' = faults
  BY DEF Destroy
<1>1. /\ cfg'.sessions = cfg.sessions /\ Program' = Program /\ Resources' = Resources
      /\ Rest(Program, todo)' = Rest(Program, todo)
  <2>1. cfg'.sessions = cfg.sessions
    BY <1>0
  <2>2. QED
    BY <1>0, <2>1, SameSequences, RestNext
<1>2. Values'
  BY <1>0, <1>1 DEF OInv, Values
<1>3. Unbuilt'
  <2>1. Rest(Destructor, Destructor) /\ Past(Destructor, Destructor) = {}
    BY Sessions, RestEnds
  <2>2. freed = {}
    BY <1>0 DEF OInv, Built
  <2>3. Releasing(Destructor)'
    BY <1>0, <1>1, <2>1, <2>2, RestNext
  <2>4. QED
    BY <1>0, <2>3 DEF Unbuilt
<1>4. NothingHeld' /\ Built' /\ Aged'
  BY <1>0 DEF NothingHeld, Built, Aged
<1>5. Left'
  <2>1. Addressable(cfg)' = Addressable(cfg)
    BY <1>0 DEF Addressable
  <2>2. QED
    BY <1>0, <2>1 DEF OInv, Left
<1>6. QED
  BY <1>2, <1>3, <1>4, <1>5 DEF OInv

\* The next of an order is released.
LEMMA Releases ==
    ASSUME NEW order \in Seq(Things), Releasing(order), release # << >>,
           release' = Tail(release),
           held' = held \ {Head(release)}, freed' = freed \cup (held \cap {Head(release)})
    PROVE  /\ \E n \in 1 .. Len(order) : Head(release) = order[n]
           /\ Rest(order, release')
           /\ \A n \in Past(order, release') : order[n] \notin held'
           /\ \A x \in freed' : \E n \in Past(order, release') : order[n] = x
<1> DEFINE p == (Len(order) - Len(release)) + 1
<1>1. /\ p \in 1 .. Len(order) /\ Head(release) = order[p] /\ Rest(order, release')
      /\ Past(order, release) = 1 .. p - 1 /\ Past(order, release') = 1 .. p
  BY RestTail DEF Releasing
<1>2. p \in 1 .. p /\ 1 .. p - 1 \subseteq 1 .. p /\ \A n \in 1 .. p : n = p \/ n \in 1 .. p - 1
  <2> HIDE DEF p
  <2>1. Len(order) \in Nat
    BY LenProperties
  <2>2. QED
    BY <1>1, <2>1
<1> HIDE DEF p
<1>3. /\ \A n \in 1 .. p - 1 : order[n] \notin held
      /\ \A x \in freed : \E n \in 1 .. p - 1 : order[n] = x
  BY <1>1 DEF Releasing
<1>4. \A n \in 1 .. p : order[n] \notin held'
  BY <1>1, <1>2, <1>3
<1>5. \A x \in freed' : \E n \in 1 .. p : order[n] = x
  <2>1. ASSUME NEW x \in freed'
        PROVE  \E n \in 1 .. p : order[n] = x
    <3>1. x \in freed \/ x = order[p]
      BY <1>1
    <3>2. QED
      BY <1>2, <1>3, <3>1
  <2>2. QED
    BY <2>1
<1>6. QED
  BY <1>1, <1>4, <1>5

\* A destructor, or the unwinding, goes on, or the process ends.
LEMMA OrderRelease ==
    ASSUME IInv, OInv, Release
    PROVE  OInv'
<1>0. /\ status \in {"unwinding", "destroying"} /\ release # << >>
      /\ cfg' = cfg /\ todo' = todo /\ leaks' = leaks /\ peer' = peer /\ options' = options
      /\ reason' = reason /\ thrown' = thrown /\ rounds' = rounds /\ faults' = faults
      /\ \/ /\ status = "unwinding" /\ status' = "terminated"
            /\ held' = held /\ freed' = freed /\ release' = release
         \/ /\ status' = status /\ release' = Tail(release) /\ held' = held \ {Head(release)}
            /\ freed' = freed \cup (held \cap {Head(release)})
  BY DEF Release
<1>1. /\ cfg'.sessions = cfg.sessions /\ Program' = Program /\ Resources' = Resources
      /\ Members' = Members /\ Destructor' = Destructor
      /\ Rest(Program, todo)' = Rest(Program, todo)
  <2>1. cfg'.sessions = cfg.sessions
    BY <1>0
  <2>2. QED
    BY <1>0, <2>1, SameSequences, RestNext
<1>2. /\ held' \cup freed' = held \cup freed /\ held' \cap freed' = {}
  <2>1. held \cap freed = {}
    BY DEF OInv, Values
  <2>2. QED
    BY <1>0, <2>1
<1>3. Values'
  BY <1>0, <1>1, <1>2 DEF OInv, Values
<1>4. NothingHeld' /\ Built' /\ Aged'
  BY <1>0 DEF NothingHeld, Built, Aged
<1>5. Addressable(cfg)' = Addressable(cfg)
  BY <1>0 DEF Addressable
<1>6. CASE status' = "terminated"
  <2>0. /\ status = "unwinding" /\ held' = held /\ freed' = freed /\ release' = release
    BY <1>0, <1>6
  <2>1. Unbuilt'
    <3>1. Releasing(Members)' = Releasing(Members)
      BY <1>1, <2>0 DEF Releasing, Rest, Past
    <3>2. QED
      BY <1>0, <1>6, <2>0, <3>1 DEF OInv, Unbuilt
  <2>2. Left'
    BY <1>0, <1>5, <1>6, <2>0 DEF OInv, Left
  <2>3. QED
    BY <1>3, <1>4, <2>1, <2>2 DEF OInv
<1>7. CASE status = "unwinding" /\ status' = status
  <2>0. /\ release' = Tail(release) /\ held' = held \ {Head(release)}
        /\ freed' = freed \cup (held \cap {Head(release)})
    BY <1>0, <1>7
  <2>1. Releasing(Members) /\ thrown /\ Members \in Seq(Things) /\ cfg.sessions \in Nat
    BY <1>7, Sessions DEF OInv, Unbuilt
  <2>2. /\ \E n \in 1 .. Len(Members) : Head(release) = Members[n]
        /\ Rest(Members, release')
        /\ \A n \in Past(Members, release') : Members[n] \notin held'
        /\ \A x \in freed' : \E n \in Past(Members, release') : Members[n] = x
    BY <1>0, <2>0, <2>1, Releases
  <2>3. Unbuilt'
    BY <1>0, <1>1, <1>7, <2>1, <2>2, RestNext DEF Unbuilt
  <2>4. Head(release)[1] \notin Sections
    BY <2>1, <2>2, MembersOrder
  <2>5. \A s \in Sections : << s, 0 >> \in held => << s, 0 >> \in held'
    <3>1. \A s \in Sections : << s, 0 >>[1] = s
      OBVIOUS
    <3>2. QED
      BY <2>0, <2>4, <3>1
  <2>6. Left'
    BY <1>0, <1>5, <1>7, <2>5 DEF OInv, Left
  <2>7. QED
    BY <1>3, <1>4, <2>3, <2>6 DEF OInv
<1>8. CASE status = "destroying"
  <2>0. /\ status' = status /\ release' = Tail(release) /\ held' = held \ {Head(release)}
        /\ freed' = freed \cup (held \cap {Head(release)})
    BY <1>0, <1>8
  <2>1. Releasing(Destructor) /\ Destructor \in Seq(Things)
    BY <1>8, Sessions DEF OInv, Unbuilt
  <2>2. /\ Rest(Destructor, release')
        /\ \A n \in Past(Destructor, release') : Destructor[n] \notin held'
        /\ \A x \in freed' : \E n \in Past(Destructor, release') : Destructor[n] = x
    BY <1>0, <2>0, <2>1, Releases
  <2>3. Unbuilt'
    BY <1>1, <1>8, <2>0, <2>2, RestNext DEF Unbuilt
  <2>4. Left'
    BY <1>0, <1>5, <1>8, <2>0 DEF OInv, Left
  <2>5. QED
    BY <1>3, <1>4, <2>3, <2>4 DEF OInv
<1>9. QED
  BY <1>0, <1>6, <1>7, <1>8

\* At the end of its order a destructor has released everything; at the end
\* of theirs the members of a detector have released what has a destructor.
LEMMA AtTheEnd ==
    ASSUME IInv, OInv, release = << >>
    PROVE  /\ status = "destroying" => held = {}
           /\ status = "unwinding" => thrown /\ \A x \in held : x[1] \notin SelfFreeing
<1>1. /\ cfg.sessions \in Nat /\ Members \in Seq(Things) /\ Destructor \in Seq(Things)
      /\ held \subseteq Resources
  BY Sessions DEF OInv, Values
<1>2. ASSUME status = "destroying"
      PROVE  held = {}
  <2>1. \A n \in 1 .. Len(Destructor) : Destructor[n] \notin held
    BY <1>1, <1>2, RestEnds DEF OInv, Unbuilt, Releasing
  <2>2. QED
    BY <1>1, <2>1, DestructorOrder
<1>3. ASSUME status = "unwinding"
      PROVE  thrown /\ \A x \in held : x[1] \notin SelfFreeing
  <2>1. \A n \in 1 .. Len(Members) : Members[n] \notin held
    BY <1>1, <1>3, RestEnds DEF OInv, Unbuilt, Releasing
  <2>2. QED
    BY <1>1, <1>3, <2>1, MembersOrder DEF OInv, Unbuilt
<1>4. QED
  BY <1>2, <1>3

\* A worker is gone.
LEMMA OrderGone ==
    ASSUME IInv, OInv, Gone
    PROVE  OInv'
<1>0. /\ status \in {"unwinding", "destroying"} /\ release = << >>
      /\ status' = "none" /\ leaks' = leaks \cup held /\ held' = {}
      /\ cfg' = cfg /\ todo' = todo /\ freed' = freed /\ peer' = peer /\ options' = options
      /\ reason' = reason /\ thrown' = thrown /\ rounds' = rounds /\ faults' = faults
  BY DEF Gone
<1>1. /\ cfg'.sessions = cfg.sessions /\ Program' = Program /\ Resources' = Resources
      /\ Rest(Program, todo)' = Rest(Program, todo)
  <2>1. cfg'.sessions = cfg.sessions
    BY <1>0
  <2>2. QED
    BY <1>0, <2>1, SameSequences, RestNext
<1>2. Values'
  BY <1>0, <1>1 DEF OInv, Values
<1>3. NothingHeld' /\ Built' /\ Aged' /\ Unbuilt'
  BY <1>0 DEF NothingHeld, Built, Aged, Unbuilt
<1>4. Left'
  <2>1. leaks' # {} => thrown
    BY <1>0, AtTheEnd DEF OInv, Left
  <2>2. \A x \in leaks' : x[1] \notin SelfFreeing
    BY <1>0, AtTheEnd DEF OInv, Left
  <2>3. Addressable(cfg)' = Addressable(cfg)
    BY <1>0 DEF Addressable
  <2>4. ASSUME Addressable(cfg), reason = "stale"
        PROVE  thrown /\ leaks' # {}
    <3>1. status = "unwinding" /\ thrown /\ \E s \in Sections : << s, 0 >> \in held
      BY <1>0, <2>4 DEF OInv, Left
    <3>2. QED
      BY <1>0, <3>1
  <2>5. QED
    BY <1>0, <2>1, <2>2, <2>3, <2>4 DEF Left
<1>5. QED
  BY <1>2, <1>3, <1>4 DEF OInv

\* What a constructor and a destructor have done follows their orders.
THEOREM Ordering == Spec => []OInv
<1>1. IInv /\ OInv /\ [Next]_vars => OInv'
  <2> SUFFICES ASSUME IInv, OInv, [Next]_vars PROVE OInv'
    OBVIOUS
  <2>1. CASE Configure
    BY <2>1, OrderConfigure
  <2>2. CASE Acquire
    BY <2>2, OrderAcquire
  <2>3. CASE AcquireNothing
    BY <2>3, OrderAcquireNothing
  <2>4. CASE Throw
    BY <2>4, OrderThrow
  <2>5. CASE Destroy
    BY <2>5, OrderDestroy
  <2>6. CASE Release
    BY <2>6, OrderRelease
  <2>7. CASE Gone
    BY <2>7, OrderGone
  <2>8. CASE NoFirstSession \/ Ready \/ PeerOpens \/ PeerCloses \/ UNCHANGED vars
    BY <2>8, OrderQuietly
  <2>9. QED
    BY <2>1, <2>2, <2>3, <2>4, <2>5, <2>6, <2>7, <2>8 DEF Next
<1>2. QED
  BY <1>1, OrderInitially, Invariance, PTL DEF Spec

--------------------------------------------------------------------------------

\* What the order of the steps is for.

\* The states a worker goes through, and the configurations it gets.
Course ==
    /\ status \in {"none", "building", "ready", "unwinding", "destroying", "undefined", "terminated"}
    /\ (\A c \in Configs : Addressable(c)) => Addressable(cfg)

LEMMA Courses == Spec => []Course
<1>1. Init => Course
  BY DEF Init, Course
<1>2. ASSUME IInv, Course, [Next]_vars
      PROVE  Course'
  <2>1. CASE Configure
    <3>1. PICK n \in RingDepths : cfg' = [cfg EXCEPT !.ringSlots = IF n = 0 THEN 3 ELSE n]
      BY <2>1 DEF Configure
    <3>2. cfg \in Config
      BY <1>2 DEF IInv, OfAMachine
    <3>3. cfg'.batchSize = cfg.batchSize /\ cfg'.imageBytes = cfg.imageBytes
      BY <3>1, <3>2 DEF Config
    <3>4. Addressable(cfg') = Addressable(cfg)
      BY <3>3 DEF Addressable
    <3>5. status' = "building"
      BY <2>1 DEF Configure
    <3>6. QED
      BY <1>2, <3>4, <3>5 DEF Course
  <2>2. CASE ~Configure
    <3>1. cfg' = cfg
      BY <1>2, <2>2 DEF Next, vars, Acquire, AcquireNothing, NoFirstSession, Throw, Ready, Destroy, Release,
                        Gone, PeerOpens, PeerCloses
    <3>2. \/ status' = status
          \/ status' \in {"none", "building", "ready", "unwinding", "destroying", "undefined", "terminated"}
      BY <1>2, <2>2 DEF Next, vars, Acquire, AcquireNothing, NoFirstSession, Throw, Ready, Destroy, Release,
                        Gone, PeerOpens, PeerCloses
    <3>3. QED
      BY <1>2, <3>1, <3>2 DEF Course
  <2>3. QED
    BY <2>1, <2>2
<1>3. QED
  BY <1>1, <1>2, Invariance, PTL DEF Spec

\* What comes before something released in the same order is not held.
LEMMA Before ==
    ASSUME NEW order \in Seq(Things), Releasing(order), NEW y \in freed
    PROVE  \E n \in 1 .. Len(order) : order[n] = y /\ \A m \in 1 .. n - 1 : order[m] \notin held
<1>1. PICK n \in Past(order, release) : order[n] = y
  BY DEF Releasing
<1>2. Len(order) \in Nat /\ Len(release) \in 0 .. Len(order) /\ n \in 1 .. Len(order) - Len(release)
  BY LenProperties DEF Releasing, Rest, Past
<1>3. n \in 1 .. Len(order) /\ \A m \in 1 .. n - 1 : m \in 1 .. Len(order) - Len(release)
  BY <1>2
<1>4. \A m \in 1 .. n - 1 : order[m] \notin held
  BY <1>3 DEF Releasing, Past
<1>5. QED
  BY <1>1, <1>3, <1>4

\* A binding and a session belong to one of the sessions.
LEMMA OfASession ==
    ASSUME NEW x \in Resources, x[1] \in {"session", "binding"}
    PROVE  x = << x[1], x[2] >> /\ x[2] \in 1 .. cfg.sessions
<1>1. x[1] \notin Single
  BY DEF Single
<1>2. x \in Own \X (1 .. cfg.sessions)
  BY <1>1 DEF Resources
<1>3. QED
  BY <1>2

\* Nothing is released under what uses it, unless a thread could not be started.
THEOREM NothingIsPulledAway == Spec => []NothingPulledAway
<1>1. ASSUME IInv, OInv, Course
      PROVE  NothingPulledAway
  <2> SUFFICES ASSUME NEW x \in held, NEW y \in Uses(x), y \in freed
               PROVE  x \in Threads /\ status \in {"unwinding", "terminated"}
    BY DEF NothingPulledAway
  <2>1. /\ cfg.sessions \in Nat /\ Members \in Seq(Things) /\ Destructor \in Seq(Things)
        /\ held \subseteq Resources
    BY <1>1, Sessions DEF OInv, Values
  <2>2. status \in {"unwinding", "terminated", "destroying"}
    <3>1. status # "none"
      BY <1>1 DEF OInv, NothingHeld
    <3>2. status \notin {"building", "ready", "undefined"}
      BY <1>1 DEF OInv, Built
    <3>3. QED
      BY <1>1, <3>1, <3>2 DEF Course
  <2>3. \/ x \in Threads /\ y \notin Threads
        \/ x[1] = "binding" /\ y = << "session", x[2] >>
        \/ x[1] = "session" /\ y \in {<< "env", 0 >>, << "stream", x[2] >>}
    <3>1. CASE x \in Threads
      BY <3>1 DEF Uses
    <3>2. CASE x \notin Threads /\ x[1] = "binding"
      BY <3>2 DEF Uses
    <3>3. CASE x \notin Threads /\ x[1] = "session"
      BY <3>3 DEF Uses
    <3>4. CASE x \notin Threads /\ x[1] \notin {"binding", "session"}
      BY <3>4 DEF Uses
    <3>5. QED
      BY <3>1, <3>2, <3>3, <3>4
  <2>4. x[1] \in {"session", "binding"} => x = << x[1], x[2] >> /\ x[2] \in 1 .. cfg.sessions
    BY <2>1, OfASession
  <2>5. CASE status = "destroying"
    <3>1. PICK n \in 1 .. Len(Destructor) :
             Destructor[n] = y /\ \A m \in 1 .. n - 1 : Destructor[m] \notin held
      BY <1>1, <2>1, <2>5, Before DEF OInv, Unbuilt
    <3>2. CASE x \in Threads /\ y \notin Threads
      BY <2>1, <3>1, <3>2, DestructorOrder
    <3>3. CASE x[1] = "binding" /\ y = << "session", x[2] >>
      <4>1. PICK i \in 1 .. cfg.sessions : x = << "binding", i >> /\ y = << "session", i >>
        BY <2>4, <3>3
      <4>2. \E m \in 1 .. n - 1 : Destructor[m] = << "binding", i >>
        BY <2>1, <3>1, <4>1, DestructorOrder
      <4>3. QED
        BY <3>1, <4>1, <4>2
    <3>4. CASE x[1] = "session" /\ y \in {<< "env", 0 >>, << "stream", x[2] >>}
      <4>1. PICK i \in 1 .. cfg.sessions :
               x = << "session", i >> /\ y \in {<< "env", 0 >>, << "stream", i >>}
        BY <2>4, <3>4
      <4>2. \E m \in 1 .. n - 1 : Destructor[m] = << "session", i >>
        BY <2>1, <3>1, <4>1, DestructorOrder
      <4>3. QED
        BY <3>1, <4>1, <4>2
    <3>5. QED
      BY <2>3, <3>2, <3>3, <3>4
  <2>6. CASE status \in {"unwinding", "terminated"}
    <3>1. PICK n \in 1 .. Len(Members) :
             Members[n] = y /\ \A m \in 1 .. n - 1 : Members[m] \notin held
      BY <1>1, <2>1, <2>6, Before DEF OInv, Unbuilt
    <3>2. CASE x \in Threads /\ y \notin Threads
      BY <2>6, <3>2
    <3>3. CASE x[1] = "binding" /\ y = << "session", x[2] >>
      <4>1. PICK i \in 1 .. cfg.sessions : x = << "binding", i >> /\ y = << "session", i >>
        BY <2>4, <3>3
      <4>2. \E m \in 1 .. n - 1 : Members[m] = << "binding", i >>
        BY <2>1, <3>1, <4>1, MembersOrder
      <4>3. QED
        BY <3>1, <4>1, <4>2
    <3>4. CASE x[1] = "session" /\ y \in {<< "env", 0 >>, << "stream", x[2] >>}
      <4>1. y # << "stream", x[2] >>
        BY <2>1, <3>1, MembersOrder
      <4>2. PICK i \in 1 .. cfg.sessions : x = << "session", i >> /\ y = << "env", 0 >>
        BY <2>4, <3>4, <4>1
      <4>3. \E m \in 1 .. n - 1 : Members[m] = << "session", i >>
        BY <2>1, <3>1, <4>2, MembersOrder
      <4>4. QED
        BY <3>1, <4>2, <4>3
    <3>5. QED
      BY <2>3, <3>2, <3>3, <3>4
  <2>7. QED
    BY <2>2, <2>5, <2>6
<1>2. QED
  BY <1>1, Invariance, Ordering, Courses, PTL

\* Every resource is known and held, freed or never acquired, and the rest of
\* the values are in their bounds.
THEOREM TypeCorrect == Spec => []TypeOK
<1>1. ASSUME IInv, OInv, Course
      PROVE  TypeOK
  <2>1. held \cup freed \cup leaks \subseteq Names \X (0 .. cfg.sessions)
    <3>1. Single \subseteq Names /\ Own \subseteq Names
      BY DEF Single, Own, Names
    <3>2. 0 \in 0 .. cfg.sessions /\ 1 .. cfg.sessions \subseteq 0 .. cfg.sessions
      BY <1>1, Sessions
    <3>3. Resources \subseteq Names \X (0 .. cfg.sessions)
      BY <3>1, <3>2 DEF Resources
    <3>4. QED
      BY <1>1, <3>3 DEF OInv, Values
  <2>2. Len(todo) <= Len(Program)
    <3>1. Len(todo) \in 0 .. Len(Program) /\ Len(Program) \in Nat
      BY <1>1, Sessions, LenProperties DEF OInv, Values, Rest
    <3>2. QED
      BY <3>1
  <2>3. Len(options) <= cfg.sessions
    <3>1. Len(options) \in 0 .. cfg.sessions /\ cfg.sessions \in Nat
      BY <1>1, Sessions DEF OInv, Values
    <3>2. QED
      BY <3>1
  <2>4. \A s \in Sections : size[s] >= 0
    BY <1>1 DEF IInv, ViewsFit
  <2>5. QED
    BY <1>1, <2>1, <2>2, <2>3, <2>4 DEF TypeOK, OInv, Values, Course
<1>2. QED
  BY <1>1, Invariance, Ordering, Courses, PTL

\* Leftovers, and views that are refused, come from constructors that have
\* thrown or from the other process, as long as SIZE_T holds every size.
THEOREM LeftoversAreExplained ==
    ASSUME \A c \in Configs : Addressable(c)
    PROVE  Spec => []LeftoversExplained
<1>1. ASSUME OInv, Course, TypeOK
      PROVE  LeftoversExplained
  BY <1>1 DEF LeftoversExplained, OInv, Left, Course
<1>2. QED
  BY <1>1, Ordering, Courses, TypeCorrect, PTL

\* A thread, and a warm-up, starts when everything it needs is there.
THEOREM NothingIsTooEarly == Spec => []NothingTooEarly
<1>1. ASSUME IInv, OInv
      PROVE  NothingTooEarly
  <2> DEFINE L == Len(Program)
  <2>0. cfg.sessions \in Nat /\ L \in Nat /\ Rest(Program, todo) /\ Len(todo) \in 0 .. L
    BY <1>1, Sessions, LenProperties DEF OInv, Values, Rest
  <2>1. ASSUME NEW t \in held \cap Threads, status \in {"building", "ready"}
        PROVE  /\ {<< "pinned", 0 >>, << "overlay", 0 >>, << "resultView", 0 >>} \subseteq held
               /\ \A i \in 1 .. cfg.sessions :
                    {<< "session", i >>, << "binding", i >>, << "tensors", i >>} \subseteq held
               /\ \A k \in DOMAIN todo : todo[k][1] \notin {"contract", "warmUp"}
    <3>1. PICK m \in Past(Program, todo) : Program[m] = t
      BY <1>1, <2>1 DEF OInv, Built
    <3>2. m \in 1 .. L /\ m \in 1 .. L - Len(todo)
      <4> HIDE DEF L
      <4>1. m \in 1 .. L - Len(todo)
        BY DEF Past, L
      <4>2. QED
        BY <2>0, <4>1
    <3>3. ASSUME NEW n \in 1 .. L, Program[n][1] \in Needed \cup {"contract", "warmUp"}
          PROVE  n \in Past(Program, todo)
      <4>1. n < m
        BY <2>0, <2>1, <3>1, <3>2, <3>3, ThreadsLast
      <4> HIDE DEF L
      <4>2. n \in 1 .. L - Len(todo)
        BY <2>0, <3>2, <4>1
      <4>3. QED
        BY <4>2 DEF Past, L
    <3>4. ASSUME NEW x \in Needed, NEW i, \E n \in 1 .. L : Program[n] = << x, i >>
          PROVE  << x, i >> \in held
      <4>1. PICK n \in 1 .. L : Program[n] = << x, i >>
        BY <3>4
      <4>2. Program[n][1] = x
        BY <4>1
      <4>3. QED
        BY <1>1, <2>1, <3>3, <4>1, <4>2 DEF OInv, Built
    <3>5. /\ << "pinned", 0 >> \in held /\ << "overlay", 0 >> \in held
          /\ << "resultView", 0 >> \in held
      BY <2>0, <3>4, NeededIsThere DEF Needed
    <3>6. ASSUME NEW i \in 1 .. cfg.sessions
          PROVE  << "session", i >> \in held /\ << "binding", i >> \in held /\ << "tensors", i >> \in held
      BY <2>0, <3>4, NeededIsThere DEF Needed
    <3>8. ASSUME NEW k \in DOMAIN todo, todo[k][1] \in {"contract", "warmUp"}
          PROVE  FALSE
      <4>1. k \in 1 .. Len(todo) /\ todo[k] = Program[(L - Len(todo)) + k]
        BY <2>0 DEF Rest
      <4> DEFINE n == (L - Len(todo)) + k
      <4> HIDE DEF L
      <4>2. n \in 1 .. L /\ n \notin 1 .. L - Len(todo)
        BY <2>0, <4>1
      <4>3. Program[n][1] \in {"contract", "warmUp"}
        BY <3>8, <4>1
      <4>4. n \in Past(Program, todo)
        BY <3>3, <4>2, <4>3
      <4>5. QED
        BY <4>2, <4>4 DEF Past, L
    <3>9. QED
      BY <3>5, <3>6, <3>8
  <2>2. ASSUME Building, Step[1] = "warmUp"
        PROVE  << "pinned", 0 >> \in held
    <3> DEFINE p == (Len(Program) - Len(todo)) + 1
    <3>1. status = "building" /\ todo # << >>
      BY <2>2 DEF Building
    <3>2. /\ p \in 1 .. L /\ Step = Program[p] /\ Past(Program, todo) = 1 .. p - 1
      BY <1>1, <3>1, NextStep
    <3>3. PICK n \in 1 .. L : Program[n] = << "pinned", 0 >>
      BY <2>0, NeededIsThere
    <3>4. Program[n][1] = "pinned"
      BY <3>3
    <3>5. n < p
      BY <2>0, <2>2, <3>2, <3>4, PoolBeforeWarmUp
    <3> HIDE DEF p, L
    <3>6. n \in Past(Program, todo)
      BY <2>0, <3>2, <3>5
    <3>7. QED
      BY <1>1, <3>1, <3>3, <3>4, <3>6 DEF OInv, Built, Needed
  <2>3. QED
    BY <2>1, <2>2 DEF NothingTooEarly, MayRun
<1>2. QED
  BY <1>1, Invariance, Ordering, PTL
================================================================================
