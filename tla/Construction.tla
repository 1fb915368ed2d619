----------------------------- MODULE Construction -----------------------------
(***************************************************************************)
(* One WorkerGPU from its constructor to the end of its destructor, again   *)
(* and again as the controller reconfigures the point: what it acquires in  *)
(* which order, what a step that throws leaves behind, and what the tables  *)
(* and options it computes on the way are.                                  *)
(*                                                                          *)
(* A resource is a pair <<name, i>>; i is the session it belongs to, or 0.  *)
(* The constructor is a sequence of steps, most of which acquire one        *)
(* resource; the destructor, and the unwinding of a constructor that has    *)
(* thrown, are sequences of resources to release.                           *)
(***************************************************************************)
EXTENDS CpuPartition, SessionOptions, Layout, ResizeCoeffs

CONSTANTS Configs,      \* the configurations the controller may ask for first
          RingDepths,   \* the ring depths it may ask for afterwards
          MaxRounds,    \* bound: constructions
          MaxFaults,    \* bound: calls that fail although the configuration is right
          NaN           \* the float that stof makes of "nan"

ASSUME ConstructionAssumption == {MaxRounds, MaxFaults} \subseteq Nat \ {0}
ASSUME NaNAssumption == NaN \notin Int

Floats == Int \cup {NaN}

(* What the controller puts into a control point, and what the machine, the *)
(* build and the model file add to it.  The manager numbers the points it   *)
(* builds workers for; cores are as AvailableComputeCores returns them, and *)
(* the process runs on one of them.                                         *)
Config ==
  [build : Builds, device : BOOLEAN, answers : SUBSET Answers, affinity : BOOLEAN,
   numPunti : Nat \ {0}, index : Nat, cores : Seq(Nat), inferenceType : STRING, sessions : Nat,
   score : BOOLEAN, map : BOOLEAN,
   metadata : [map_min_raw : Floats, map_max_raw : Floats,
               image_threshold_raw : Floats, pixel_threshold_raw : Floats],
   batchSize : Nat, ringSlots : Nat, imageBytes : Nat,
   axes : SUBSET [in : Nat \ {0}, out : Nat \ {0}]]

OfAMachine(c) ==
  /\ c \in Config
  /\ c.index < c.numPunti
  /\ c.cores # << >>
  /\ \A i, j \in 1 .. Len(c.cores) : c.cores[i] = c.cores[j] => i = j

ASSUME ConfigsAssumption == (\A c \in Configs : OfAMachine(c)) /\ RingDepths \subseteq Nat

VARIABLES cfg,          \* the point's configuration
          status,       \* what happens to the worker
          todo,         \* steps of the constructor still to be done
          held,         \* resources of the worker
          freed,        \* resources this worker has released
          release,      \* what the destructor or the unwinding has still to do
          leaks,        \* resources of earlier workers that nobody will release
          size,         \* of each named section: what it was created with
          peer,         \* the other process has the sections open
          options,      \* of each session: what ConfigureOrtSessionOptions set up
          contract,     \* the thresholds read from the model
          row,          \* right after the tables are built, any row of them
          reason,       \* why the last constructor threw
          thrown,       \* some constructor has thrown
          rounds, faults

vars == << cfg, status, todo, held, freed, release, leaks, size, peer, options,
           contract, row, reason, thrown, rounds, faults >>

Of(names, i) == [k \in DOMAIN names |-> << names[k], i >>]

(* The same names for one session after the other.                          *)
PerSession(names) ==
  [n \in 1 .. cfg.sessions * Len(names) |->
     << names[((n - 1) % Len(names)) + 1], ((n - 1) \div Len(names)) + 1 >>]

-----------------------------------------------------------------------------
(* The constructor.                                                         *)

WorkerSteps == Of(<< "mutex", "eventReady", "eventResults", "image", "imageView", "resImage",
                     "resImageView", "result", "resultView", "checkType", "env" >>, 0)

OpenSession == << "stream", "options", "session" >>

ModelSteps == Of(<< "checkScore", "contract", "coeffs", "pinned", "overlay" >>, 0)

SetUp == << "h_score", "h_map", "h_warm", "binding", "d_input", "d_score", "d_map", "events",
            "h_input", "tensors", "warmUp" >>

Launch == Of(<< "prep", "inf", "post" >>, 0)

(* The variant starts the threads too early.                               *)
ProgramEager == WorkerSteps \o PerSession(OpenSession) \o ModelSteps \o Launch \o PerSession(SetUp)

Program == WorkerSteps \o PerSession(OpenSession) \o ModelSteps \o PerSession(SetUp) \o Launch

Sections == {"image", "resImage", "result"}
ViewOf == [imageView |-> "image", resImageView |-> "resImage", resultView |-> "result"]
Threads == {<< "prep", 0 >>, << "inf", 0 >>, << "post", 0 >>}

(* Nothing is acquired by a check, by the options, or by the warm-up.       *)
Passing == {"checkType", "options", "checkScore", "contract", "coeffs", "warmUp"}

(* A session has either device buffers or a host input buffer; a model      *)
(* without a map has no buffer for it.                                      *)
Skipped(step) ==
  \/ step[1] \in {"d_input", "d_score", "d_map", "events"} /\ ~options[step[2]].gpu
  \/ step[1] = "d_map" /\ ~cfg.map
  \/ step[1] = "h_input" /\ options[step[2]].gpu

(* Nobody looks at the result of OpenMutex, OpenEvent and cudaEventCreate.  *)
Unchecked == {"mutex", "eventReady", "eventResults", "events"}

(* Pools and vectors of threads exist before they are filled, so what they  *)
(* hold when filling them fails is theirs.                                  *)
Filled == {"pinned", "overlay", "prep", "inf", "post"}

-----------------------------------------------------------------------------
(* Named sections live as long as anybody holds a handle or a view of them. *)
Exists(s) ==
  \/ peer
  \/ \E v \in {s} \cup {w \in DOMAIN ViewOf : ViewOf[w] = s} : << v, 0 >> \in held \cup leaks

(* The size a new handle leads to: an existing section keeps its own.       *)
CreatedSize(s) == IF Exists(s) THEN size[s] ELSE CreateSharedMapping(MappingBytes(cfg)[s])

(* ContractMetadata::Load reads numbers; a text that is none makes stof     *)
(* throw, and three of them must be there.  Other thresholds are >= 0 here. *)
Missing == -1
Malformed == -2

(* max - min <= 0.0f, which is false of NaN like every comparison.          *)
NotPositive(min, max) == NaN \notin {min, max} /\ max - min <= 0

LoadThrows(md) ==
  \/ Malformed \in {md[k] : k \in DOMAIN md}
  \/ Missing \in {md.map_min_raw, md.map_max_raw, md.image_threshold_raw}
  \/ NotPositive(md.map_min_raw, md.map_max_raw)

Loaded(md) == [mapMin |-> md.map_min_raw, mapMax |-> md.map_max_raw,
               hasPixelThreshold |-> md.pixel_threshold_raw # Missing]

(* Why a step is bound to throw.                                            *)
Refusals(step) ==
  {r \in {"stale", "type", "device", "score", "metadata"} :
     \/ r = "stale" /\ step[1] \in DOMAIN ViewOf
                    /\ MappingBytes(cfg)[ViewOf[step[1]]] > size[ViewOf[step[1]]]
     \/ r = "type" /\ step[1] = "checkType" /\ cfg.inferenceType # "ANOMALY"
     \/ r = "device" /\ step[1] = "stream" /\ ~cfg.device
     \/ r = "score" /\ step[1] = "checkScore" /\ ~cfg.score
     \/ r = "metadata" /\ step[1] = "contract" /\ LoadThrows(cfg.metadata)}

Partition(index) == ComputeCpuPartition(cfg.affinity, index, cfg.numPunti, cfg.cores)

(* A warm-up takes a staging buffer, and waits if the pool has none.        *)
MayRun(step) == step[1] = "warmUp" => << "pinned", 0 >> \in held

Step == Head(todo)

Init ==
  /\ cfg \in Configs
  /\ status = "none" /\ todo = << >>
  /\ held = {} /\ freed = {} /\ release = << >> /\ leaks = {}
  /\ size = [s \in Sections |-> 0] /\ peer = FALSE
  /\ options = << >> /\ contract = << >> /\ row = << >>
  /\ reason = "" /\ thrown = FALSE /\ rounds = 0 /\ faults = 0

(* HandleConfiguration builds a worker, the first time or after it has let  *)
(* the previous one go; the controller chooses the depth of the ring.       *)
Configure ==
  /\ status = "none" /\ rounds < MaxRounds
  /\ \E n \in RingDepths : cfg' = [cfg EXCEPT !.ringSlots = IF n = 0 THEN 3 ELSE n]
  /\ status' = "building" /\ todo' = Program /\ freed' = {}
  /\ options' = << >> /\ contract' = << >> /\ row' = << >> /\ reason' = ""
  /\ rounds' = rounds + 1
  /\ UNCHANGED << held, release, leaks, size, peer, thrown, faults >>

(* Without a session the constructor takes sessions_[0] all the same.       *)
Undefined == cfg.sessions = 0 /\ Step[1] = "checkScore"

Building == status = "building" /\ todo # << >> /\ ~Undefined /\ Refusals(Step) = {}

(* What a step computes besides acquiring its resource.                     *)
Computes ==
  /\ size' = IF Step[1] \in Sections THEN [size EXCEPT ![Step[1]] = CreatedSize(Step[1])] ELSE size
  /\ contract' = IF Step[1] = "contract" THEN Loaded(cfg.metadata) ELSE contract
  /\ IF Step[1] = "options"
     THEN \E answer \in cfg.answers :
            /\ ~OptionsThrow(cfg.build, answer)
            /\ options' = Append(options, Options(cfg.build, answer, Partition(cfg.index), Len(cfg.cores)))
     ELSE options' = options
  /\ IF Step[1] = "coeffs"
     THEN \E axis \in cfg.axes : \E o \in 0 .. axis.out - 1 : \E r \in Rows(axis.in, axis.out, o) :
            row' = [axis |-> axis, o |-> o, bound |-> r.bound, weights |-> r.weights]
     ELSE row' = << >>

Acquire ==
  /\ Building /\ MayRun(Step)
  /\ Computes
  /\ todo' = Tail(todo)
  /\ held' = IF Step[1] \in Passing \/ Skipped(Step) THEN held ELSE held \cup {Step}
  /\ UNCHANGED << cfg, status, freed, release, leaks, peer, reason, thrown, rounds, faults >>

(* A call that nobody checks fails: the handle stays empty.                 *)
AcquireNothing ==
  /\ Building /\ Step[1] \in Unchecked /\ ~Skipped(Step) /\ faults < MaxFaults
  /\ todo' = Tail(todo) /\ faults' = faults + 1
  /\ UNCHANGED << cfg, status, held, freed, release, leaks, size, peer, options, contract, row,
                  reason, thrown, rounds >>

(* What happens then is up to the compiler.                                 *)
NoFirstSession ==
  /\ status = "building" /\ todo # << >> /\ Undefined
  /\ status' = "undefined"
  /\ UNCHANGED << cfg, todo, held, freed, release, leaks, size, peer, options, contract, row,
                  reason, thrown, rounds, faults >>

-----------------------------------------------------------------------------
(* Exceptions.  The destructors of the detector's members run in the        *)
(* reverse order of their declaration; the destructors of the two objects   *)
(* under construction do not.                                               *)
SessionMembers == << "tensors", "h_input", "binding", "session" >>

Members == PerSession(SessionMembers)
           \o Of(<< "env", "post", "inf", "prep", "overlay", "pinned" >>, 0)

OptionsMayThrow == Step[1] = "options" /\ \E a \in cfg.answers : OptionsThrow(cfg.build, a)

Throw ==
  /\ status = "building" /\ todo # << >>
  /\ ~Undefined
  /\ \/ \E r \in Refusals(Step) : reason' = r
     \/ OptionsMayThrow /\ reason' = "provider"
     \/ /\ Refusals(Step) = {} /\ MayRun(Step) /\ ~Skipped(Step) /\ faults < MaxFaults
        /\ Step[1] \notin Unchecked \cup {"checkType", "options", "checkScore", "contract"}
        /\ reason' = "fault"
  /\ faults' = IF reason' = "fault" THEN faults + 1 ELSE faults
  /\ \/ held' = held
     \/ Step[1] \in Filled /\ reason' = "fault" /\ held' = held \cup {Step}
  /\ status' = "unwinding" /\ release' = Members /\ thrown' = TRUE
  /\ UNCHANGED << cfg, todo, freed, leaks, size, peer, options, contract, row, rounds >>

-----------------------------------------------------------------------------
(* The destructors.                                                         *)
SessionBody == << "binding", "session", "d_input", "d_score", "d_map", "h_score", "h_map",
                  "h_warm", "events", "stream" >>
DetectorDestructor == Launch \o PerSession(SessionBody) \o Members
WorkerDestructor == Of(<< "imageView", "resImageView", "resultView", "image", "resImage", "result",
                          "mutex", "eventReady", "eventResults" >>, 0)
(* The variants unmap before the detector is gone, or forget h_warm.        *)
DestructorUnmapsFirst == WorkerDestructor \o DetectorDestructor
DestructorForgets ==
  SelectSeq(DetectorDestructor, LAMBDA r : r[1] # "h_warm") \o WorkerDestructor

Destructor == DetectorDestructor \o WorkerDestructor

Ready ==
  /\ status = "building" /\ todo = << >>
  /\ status' = "ready"
  /\ UNCHANGED << cfg, todo, held, freed, release, leaks, size, peer, options, contract, row,
                  reason, thrown, rounds, faults >>

Destroy ==
  /\ status = "ready"
  /\ status' = "destroying" /\ release' = Destructor
  /\ UNCHANGED << cfg, todo, held, freed, leaks, size, peer, options, contract, row, reason,
                  thrown, rounds, faults >>

(* A vector destroys a thread that has not been joined: std::terminate.     *)
Release ==
  /\ status \in {"unwinding", "destroying"} /\ release # << >>
  /\ IF status = "unwinding" /\ Head(release) \in Threads \cap held
     THEN /\ status' = "terminated"
          /\ UNCHANGED << held, freed, release >>
     ELSE /\ release' = Tail(release)
          /\ held' = held \ {Head(release)}
          /\ freed' = freed \cup (held \cap {Head(release)})
          /\ UNCHANGED status
  /\ UNCHANGED << cfg, todo, leaks, size, peer, options, contract, row, reason, thrown, rounds,
                  faults >>

(* The worker is gone; what it still held is lost.                          *)
Gone ==
  /\ status \in {"unwinding", "destroying"} /\ release = << >>
  /\ status' = "none" /\ leaks' = leaks \cup held /\ held' = {}
  /\ UNCHANGED << cfg, todo, freed, release, size, peer, options, contract, row, reason, thrown,
                  rounds, faults >>

(* The other process opens the sections of a configured point, and may      *)
(* close them at any time or keep them over a reconfiguration.              *)
PeerOpens ==
  /\ status = "ready" /\ ~peer /\ peer' = TRUE
  /\ UNCHANGED << cfg, status, todo, held, freed, release, leaks, size, options, contract, row,
                  reason, thrown, rounds, faults >>

PeerCloses ==
  /\ status = "none" /\ peer /\ peer' = FALSE
  /\ UNCHANGED << cfg, status, todo, held, freed, release, leaks, size, options, contract, row,
                  reason, thrown, rounds, faults >>

Next == \/ Configure \/ Acquire \/ AcquireNothing \/ NoFirstSession \/ Throw \/ Ready \/ Destroy
        \/ Release \/ Gone \/ PeerOpens \/ PeerCloses

Spec == Init /\ [][Next]_vars

-----------------------------------------------------------------------------
(* Properties.                                                              *)

Names == {"mutex", "eventReady", "eventResults", "image", "imageView", "resImage", "resImageView",
          "result", "resultView", "env", "stream", "session", "pinned", "overlay", "h_score",
          "h_map", "h_warm", "binding", "d_input", "d_score", "d_map", "events", "h_input",
          "tensors", "prep", "inf", "post"}

(* What has a destructor of its own: pools, ORT objects, threads, vectors.  *)
SelfFreeing == {"env", "session", "binding", "tensors", "h_input", "pinned", "overlay",
                "prep", "inf", "post"}

(* Every resource is known and held, freed or never acquired by its worker, *)
(* and steps, rounds and faults stay within their bounds.                   *)
TypeOK ==
  /\ status \in {"none", "building", "ready", "unwinding", "destroying", "undefined", "terminated"}
  /\ held \cup freed \cup leaks \subseteq Names \X (0 .. cfg.sessions)
  /\ held \cap freed = {}
  /\ Len(todo) <= Len(Program) /\ rounds \in 0 .. MaxRounds /\ faults \in 0 .. MaxFaults
  /\ Len(options) <= cfg.sessions
  /\ \A s \in Sections : size[s] >= 0

(* What x must not outlive.                                                 *)
Uses(x) ==
  IF x \in Threads THEN (Names \X (0 .. cfg.sessions)) \ Threads
  ELSE CASE x[1] = "binding" -> {<< "session", x[2] >>}
         [] x[1] = "session" -> {<< "env", 0 >>, << "stream", x[2] >>}
         [] OTHER -> {}

(* Nothing is released while something that uses it is alive: not the       *)
(* mappings under the pipeline's threads, not a session under its binding,  *)
(* not the stream a session was given.  The one exception is a thread that  *)
(* cannot be started (lines 284-289): the sessions go before the threads    *)
(* that run, and the process ends there.                                    *)
NothingPulledAway ==
  \A x \in held : Uses(x) \cap freed # {} => x \in Threads /\ status \in {"unwinding", "terminated"}

(* A worker leaves something behind only if its constructor has thrown, and *)
(* then raw handles and CUDA buffers, never what has a destructor: the      *)
(* pools' page-locked memory, the ORT objects.  A configuration meets a     *)
(* section that is too small only after that or while the other process     *)
(* keeps the old one open.                                                  *)
LeftoversExplained ==
  /\ TypeOK
  /\ leaks # {} => thrown
  /\ \A x \in leaks : x[1] \notin SelfFreeing
  /\ reason = "stale" => (thrown /\ leaks # {}) \/ peer

(* Nothing starts too early.  No thread of the pipeline runs before every   *)
(* session is bound and warmed up, the pools are filled and the contract is *)
(* read; and no warm-up waits, for ever, for a buffer of an empty pool.     *)
NothingTooEarly ==
  /\ held \cap Threads # {} /\ status \in {"building", "ready"} =>
       /\ {<< "pinned", 0 >>, << "overlay", 0 >>, << "resultView", 0 >>} \subseteq held
       /\ \A i \in 1 .. cfg.sessions :
            {<< "session", i >>, << "binding", i >>, << "tensors", i >>} \subseteq held
       /\ \A k \in DOMAIN todo : todo[k][1] \notin {"contract", "warmUp"}
  /\ Building => MayRun(Step)

CpusOf(p) == {p.logicalProcessors[k] : k \in DOMAIN p.logicalProcessors}

(* The slices of different points share a core only if they are flagged     *)
(* shared; all of them are allowed cores, none is the reserved one, and no  *)
(* other is left without a point.                                           *)
SlicesExclusive ==
  LET Cpus(i) == CpusOf(Partition(i))
      points  == 0 .. cfg.numPunti - 1
  IN  /\ \A i, j \in points :
           /\ Cpus(i) \subseteq {cfg.cores[k] : k \in DOMAIN cfg.cores}
           /\ cfg.affinity => Cpus(i) # {}
           /\ Len(cfg.cores) > 1 => cfg.cores[1] \notin Cpus(i)
           /\ i # j /\ ~Partition(i).shared => Cpus(i) \cap Cpus(j) = {}
      /\ cfg.affinity =>
           \A k \in DOMAIN cfg.cores : k > 1 \/ Len(cfg.cores) = 1 =>
             \E i \in points : cfg.cores[k] \in Cpus(i)

(* ONNX Runtime gets the number of affinities it asks for, one per thread   *)
(* besides the caller's core, all of them in the point's slice; and no      *)
(* session busy-waits on a core of another point's slice, nor with more or  *)
(* fewer threads than the slice has cores.  It does not own the slice, as   *)
(* OrtSessionConfig.cpp:353-356 has it: with several inference threads the  *)
(* sessions of a point all spin on the one slice, and nothing here says     *)
(* that they do not.                                                        *)
PoolFitsSlice ==
  \A i \in DOMAIN options :
    LET o == options[i]
        slice == Partition(cfg.index)
    IN  /\ o.threads >= 1
        /\ o.affinities # << >> => Len(o.affinities) = o.threads - 1
        /\ \A k \in DOMAIN o.affinities :
             \E c \in 2 .. Len(slice.logicalProcessors) : o.affinities[k] = slice.logicalProcessors[c] + 1
        /\ o.spinning => o.threads = Len(slice.logicalProcessors)
        /\ o.spinning => \A j \in (0 .. cfg.numPunti - 1) \ {cfg.index} :
                            CpusOf(Partition(j)) \cap CpusOf(slice) = {}

(* However doubles round, a row of the resize table fits into ksize places, *)
(* reads only pixels of the image, and applied to it is the triangle        *)
(* filter: no pixel with a weight is missed.  For equal sizes it is the     *)
(* pixel itself, which is what the fast path of ResizeAntialias assumes.    *)
RowIsTheFilter ==
  row # << >> =>
    LET in  == row.axis.in
        out == row.axis.out
    IN  /\ row.bound \in 0 .. in - 1
        /\ DOMAIN row.weights \subseteq 0 .. Ksize(in, out) - 1
        /\ \A p \in 0 .. in - 1 : Applied(in, out, row, p) = Weight(in, out, row.o, p)
        /\ \E p \in 0 .. in - 1 : Weight(in, out, row.o, p) > 0
        /\ Identity(in, out) => \A p \in 0 .. in - 1 : (Applied(in, out, row, p) > 0) <=> p = row.o

(* Different slots of a mapped section do not overlap, and every slot lies  *)
(* behind the header and inside what is mapped, whatever depth the          *)
(* controller asks for and whatever section was there before.               *)
SlotsInsideMapping ==
  \A v \in DOMAIN ViewOf : << v, 0 >> \in held =>
    LET s == ViewOf[v]
        Bytes(n) == Touched(cfg, n)[s]
    IN  /\ \A n \in 0 .. IpcRingSlots(cfg) - 1 :
             Bytes(n) \subseteq (IF s = "image" THEN HeaderBytes ELSE 0) .. size[s] - 1
        /\ \A n, k \in 0 .. IpcRingSlots(cfg) - 1 : n # k => Bytes(n) \cap Bytes(k) = {}
=============================================================================
