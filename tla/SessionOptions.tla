---------------------------- MODULE SessionOptions ----------------------------
(***************************************************************************)
(* ConfigureOrtSessionOptions: which execution providers a session gets and *)
(* how its intra-op threads are set up.  build is the macro the program is  *)
(* compiled with ("TENSORRT_RTX" and "TENSORRT_NORMAL" are the two forms of *)
(* ORT_EP_GPU); answer says for each provider what appending it does: it    *)
(* works ("ok"), throws an Ort::Exception ("ort") or another one ("std").   *)
(***************************************************************************)
EXTENDS Integers, Sequences

Builds == {"TENSORRT_RTX", "TENSORRT_NORMAL", "ORT_EP_OPENVINO", "ORT_EP_CPU"}
Answers == [first : {"ok", "ort", "std"}, second : {"ok", "ort", "std"}]

(* The GPU builds try TensorRT and then CUDA in any case; the OpenVINO      *)
(* build tries its CPU device only if its GPU has thrown.                   *)
Tries(build, answer) ==
  CASE build = "ORT_EP_CPU" -> {}
    [] build = "ORT_EP_OPENVINO" /\ answer.first = "ok" -> {"first"}
    [] OTHER -> {"first", "second"}

(* Only the TensorRT-RTX branch catches every std::exception.               *)
Catches(build, provider) ==
  IF build = "TENSORRT_RTX" /\ provider = "first" THEN {"ort", "std"} ELSE {"ort"}

OptionsThrow(build, answer) ==
  /\ build # "ORT_EP_CPU"
  /\ \/ answer.first # "ok" /\ answer.first \notin Catches(build, "first")
     \/ /\ "second" \in Tries(build, answer)
        /\ answer.second # "ok" /\ answer.second \notin Catches(build, "second")

HardwareAccelerated(build, answer) == \E p \in Tries(build, answer) : answer[p] = "ok"

SliceThreads(partition, coreCount) ==
  IF partition.logicalProcessors = << >>
  THEN IF coreCount > 1 THEN coreCount - 1 ELSE 1
  ELSE Len(partition.logicalProcessors)

(* The variant lists the first core as well.                                *)
AffinitiesFromZero(partition) ==
  [t \in 1 .. Len(partition.logicalProcessors) |-> partition.logicalProcessors[t] + 1]

(* The calling worker is the pool's first thread and is not listed; ids are *)
(* counted from 1.                                                          *)
Affinities(partition) ==
  [t \in 1 .. Len(partition.logicalProcessors) - 1 |-> partition.logicalProcessors[t + 1] + 1]

(* Busy waiting is only for a slice the session does not share.             *)
DedicatedSlice(partition) == partition.logicalProcessors # << >> /\ ~partition.shared

Options(build, answer, partition, coreCount) ==
  LET hw == HardwareAccelerated(build, answer)
  IN  [gpu        |-> hw,
       threads    |-> IF hw THEN 1 ELSE SliceThreads(partition, coreCount),
       affinities |-> IF hw THEN << >> ELSE Affinities(partition),
       spinning   |-> ~hw /\ DedicatedSlice(partition)]
=============================================================================
