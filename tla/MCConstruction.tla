---------------------------- MODULE MCConstruction ----------------------------
EXTENDS Construction

Metadata(min, max, threshold, pixel) ==
  [map_min_raw |-> min, map_max_raw |-> max, image_threshold_raw |-> threshold,
   pixel_threshold_raw |-> pixel]

Works == [first |-> "ok", second |-> "ok"]
Fails == [first |-> "ort", second |-> "ort"]

Base == [build |-> "TENSORRT_NORMAL", device |-> TRUE, answers |-> {Works}, affinity |-> FALSE,
         numPunti |-> 1, index |-> 0, cores |-> << 0, 2 >>, inferenceType |-> "ANOMALY",
         sessions |-> 1, score |-> TRUE, map |-> TRUE, metadata |-> Metadata(0, 1, 1, Missing),
         batchSize |-> 2, ringSlots |-> 1, imageBytes |-> 3, axes |-> {[in |-> 2, out |-> 2]}]

(* Two sessions, each on the GPU or, when every provider fails, on the CPU. *)
TwoSessions == {[Base EXCEPT !.sessions = 2, !.answers = {Works, Fails}, !.map = m] : m \in BOOLEAN}

ProviderChain == {[Base EXCEPT !.build = b, !.answers = Answers, !.affinity = TRUE,
                               !.cores = << 0, 1, 4, 6 >>, !.numPunti = n]
                    : b \in Builds, n \in {1, 5}}

(* Five cores with and without a second thread, one of them reserved.       *)
Machines == {AvailableComputeCores({{2 * c, 2 * c + 1} : c \in 0 .. n}, mask)
               : n \in 0 .. 5, mask \in {0 .. 11, {1, 4, 5, 7, 10}}} \ {<< >>}
Partitions == {[Base EXCEPT !.score = FALSE, !.affinity = TRUE, !.cores = c, !.numPunti = n, !.index = n - 1]
                 : c \in Machines, n \in 1 .. 6}

Resizes == {[Base EXCEPT !.axes = {[in |-> w, out |-> o] : w \in widths}]
              : widths \in {{1, 2, 4, 8}, {3, 5, 6, 7, 9}}, o \in 1 .. 6}

Models == {[Base EXCEPT !.score = FALSE], [Base EXCEPT !.inferenceType = "CLASSIFICATION"],
           [Base EXCEPT !.device = FALSE], [Base EXCEPT !.sessions = 0]}
          \cup {[Base EXCEPT !.metadata = Metadata(a, b, c, d)]
                  : a \in {Missing, 0, 2}, b \in {Missing, 1}, c \in {Missing, Malformed, 1}, d \in {Malformed, 1}}

(* Two sessions of one point on the CPU, with a slice of three cores.       *)
TwoPools == {[Base EXCEPT !.build = "ORT_EP_CPU", !.sessions = 2, !.affinity = TRUE,
                          !.cores = << 0, 1, 4, 6 >>]}

(* A scale that is no number passes, thresholds that are none as well.      *)
NotANumber == {[Base EXCEPT !.metadata = Metadata(a, b, c, d)]
                 : a \in {0, NaN}, b \in {NaN, 1}, c \in {NaN, 1}, d \in {NaN, Missing}}

MCConfigs == TwoSessions \cup TwoPools \cup NotANumber \cup ProviderChain \cup Partitions \cup Resizes \cup Models
=============================================================================
