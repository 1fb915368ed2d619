---------------------------- MODULE LifecycleProofs ----------------------------
(***************************************************************************)
(* Proofs about Lifecycle for any number of points and slots and any width  *)
(* of a LONG.  Two arguments, one for each half of the module:              *)
(*                                                                          *)
(* The protocol.  Request, trigger and acknowledgement alternate, so the    *)
(* list's state is the controller's while a request waits and the manager's *)
(* while it works (Handshake).  A worker's members are there from its       *)
(* constructor until its destructor has joined the ingest thread (Members), *)
(* and the manager's place in its loops says which workers exist (Progress).*)
(*                                                                          *)
(* The counters.  Permits keep the awaited batches within RingSlots of      *)
(* publishSeq (Window).  The counters of an ingest thread follow publishSeq *)
(* until it wraps; from then on the batch numbered with the largest LONG,   *)
(* which no thread can ever push, keeps its permit and stops the producer   *)
(* before a counter can turn negative (Follows, Blocked).                   *)
(***************************************************************************)
EXTENDS Lifecycle, TLAPS

Half == 2 ^ (Width - 1)

Destroying == {"quit", "signal", "join", "reset", "unmap"}

\* Whose turn it is, and what the list says then.
Handshake ==
    /\ controller \in {"idle", "signal"} => manager = "wait" /\ ~trigger /\ ~ack
    /\ controller \in {"signal", "await"} /\ (controller = "signal" \/ trigger) =>
          list \in {"UPDATE_PENDING", "QUIT"}
    /\ trigger => controller = "await" /\ manager = "wait" /\ ~ack
    /\ ack => controller = "await" /\ manager \in {"wait", "gone"}
    /\ manager \notin {"wait", "gone"} => controller = "await"
    /\ controller = "await" /\ manager \in {"wait", "gone"} => trigger \/ ack
    /\ ack /\ manager = "wait" => list \in {"CONFIGURED", "ERROR_DETECTED"}
    /\ manager \in {"look"} \union Destroying => list \in {"UPDATE_PENDING", "QUIT"}
    /\ manager \in {"look again", "clear", "construct", "start", "mark", "failed"} =>
          list = "UPDATE_PENDING"
    /\ manager = "ack" => list \in {"CONFIGURED", "ERROR_DETECTED"}
    /\ manager \in {"terminate", "gone"} => list = "QUIT"
    /\ controller = "done" => manager = "gone"

\* What there is of each worker.
Members ==
    \A p \in Points :
        /\ p \notin exists => ~running[p] /\ ingest[p] = "none" /\ ~detector[p] /\ ~mapped[p]
        /\ p \in exists => mapped[p] /\ (detector[p] \/ (manager = "unmap" /\ cursor = p))
        /\ ~detector[p] => inside[p] = {}
        /\ manager \in {"reset", "unmap"} /\ cursor = p => ingest[p] = "none"
        /\ manager = "unmap" /\ cursor = p => ~detector[p]
        /\ manager \in Destroying /\ cursor = p => p \in exists /\ ~running[p]

\* How far a configuration or a termination is.
Progress ==
    /\ manager \in {"construct", "start", "mark", "failed", "look"} \union Destroying =>
          cursor \in Points \/ (manager \in {"construct", "look"} /\ cursor = NumPoints + 1)
    /\ manager = "construct" => exists = 1 .. cursor - 1
    /\ manager \in {"start", "mark"} => exists = 1 .. cursor
    /\ manager = "start" => ~running[cursor] /\ ingest[cursor] = "none"
    /\ manager \in {"construct", "start", "mark"} =>
          \A p \in Points : p < cursor => status[p] = "CONFIGURED"
    /\ manager = "failed" => status[cursor] = "ERROR_DETECTED"
    /\ list = "CONFIGURED" => \A p \in Points : p \in exists /\ status[p] = "CONFIGURED"
    /\ list = "ERROR_DETECTED" => \E p \in Points : status[p] = "ERROR_DETECTED"
    /\ manager = "gone" => exists = {}

\* Permits: nobody waits for a batch whose slot has been published into since.
Window ==
    \A p \in Points : \A s \in awaited[p] : published[p] <= s + RingSlots

\* The batch numbered with the largest LONG is published and nobody pushes it.
Blocked(p) == Long(published[p]) < 0 /\ \E s \in awaited[p] : Long(s) = Half - 1

\* A counter is a sequence number that was published.
Follows(p, n) ==
    /\ n <= published[p]
    /\ n > 0 => n <= Long(published[p]) \/ Blocked(p)

\* The counters of the ingest threads, and what they have pushed.
Counters ==
    \A p \in Points :
        /\ consumedSeq[p] >= 0
        /\ Follows(p, consumedSeq[p])
        /\ Follows(p, drainTo[p])
        /\ \A s \in inside[p] : s >= 0 /\ s < published[p] /\ s < Half - 1

IInv ==
    /\ TypeOK /\ Handshake /\ Members /\ Progress
    /\ Window /\ Counters /\ NothingPassedOver

--------------------------------------------------------------------------------

\* A LONG has a positive range, and a ring is shorter than that.
LEMMA HalfType == Half \in Nat \ {0} /\ RingSlots \in Nat \ {0} /\ RingSlots < Half
<1>1. Width \in Nat \ {0} /\ RingSlots \in Nat \ {0} /\ RingSlots < Half
  BY LifecycleAssumption DEF Half
<1>2. Half \in Int
  BY <1>1 DEF Half
<1>3. QED
  BY <1>1, <1>2

\* What quotient and remainder are.
LEMMA DivMod ==
    ASSUME NEW m \in Nat \ {0}, NEW x \in Int
    PROVE  /\ x \div m \in Int /\ x % m \in 0 .. m - 1
           /\ x = m * (x \div m) + (x % m)
OBVIOUS

\* A remainder is recognised by its range.
LEMMA ModUnique ==
    ASSUME NEW m \in Nat \ {0}, NEW q \in Int, NEW r \in 0 .. m - 1
    PROVE  (m * q + r) % m = r
OBVIOUS

\* Different multiples of m are at least m apart.
LEMMA Multiple ==
    ASSUME NEW m \in Nat \ {0}, NEW d \in Int, d # 0
    PROVE  m * d \in Int /\ (m * d >= m \/ m * d <= -m)
<1>1. CASE d >= 1
  BY <1>1
<1>2. CASE d <= -1
  BY <1>2
<1>3. QED
  BY <1>1, <1>2

\* One turn back is the same slot.
LEMMA BackOne ==
    ASSUME NEW m \in Nat \ {0}, NEW s \in Int
    PROVE  (s - m) % m = s % m
<1> DEFINE a == s \div m
           r == s % m
<1>1. a \in Int /\ s = m * a + r /\ r \in 0 .. m - 1
  BY DivMod
<1> HIDE DEF a, r
<1>2. s - m = m * (a - 1) + r /\ a - 1 \in Int
  BY <1>1
<1>3. (m * (a - 1) + r) % m = r
  BY <1>1, <1>2, ModUnique
<1>4. QED
  BY <1>2, <1>3 DEF r

\* Long is a remainder shifted by half the range.
LEMMA LongIs ==
    /\ \A x : Long(x) = ((x + Half) % (2 * Half)) - Half
    /\ Longs = - Half .. Half - 1
BY DEF Long, Longs, Half

\* Long takes away the multiple of the range that leaves a LONG.
LEMMA LongUnique ==
    ASSUME NEW q \in Int, NEW r \in - Half .. Half - 1
    PROVE  Long((2 * Half) * q + r) = r
<1> DEFINE m == 2 * Half
           x == m * q + r
<1>1. Half \in Nat \ {0} /\ m \in Nat \ {0} /\ r + Half \in 0 .. m - 1
  BY HalfType
<1>2. (m * q + (r + Half)) % m = r + Half
  BY <1>1, ModUnique
<1>3. x + Half = m * q + (r + Half)
  BY <1>1
<1>4. (x + Half) % m = r + Half
  BY <1>2, <1>3
<1>5. Long(x) = ((x + Half) % m) - Half
  BY LongIs
<1>6. QED
  BY <1>1, <1>4, <1>5

\* What Long has taken away.
LEMMA LongSplit ==
    ASSUME NEW x \in Int
    PROVE  Long(x) \in - Half .. Half - 1 /\ \E q \in Int : x = (2 * Half) * q + Long(x)
<1> DEFINE m == 2 * Half
           y == x + Half
<1>1. Half \in Nat \ {0} /\ m \in Nat \ {0} /\ y \in Int
  BY HalfType
<1> DEFINE q == y \div m
           r == y % m
<1>2. q \in Int /\ r \in 0 .. m - 1 /\ y = m * q + r
  BY <1>1, DivMod
<1>3. Long(x) = r - Half
  BY LongIs
<1> HIDE DEF q, r
<1>4. Long(x) \in - Half .. Half - 1
  BY <1>1, <1>2, <1>3
<1>5. x = m * q + Long(x)
  <2>1. m * q \in Int
    BY <1>1, <1>2
  <2>2. QED
    BY <1>1, <1>2, <1>3, <2>1
<1>6. QED
  BY <1>2, <1>4, <1>5

\* Numbers that fit stay as they are; the next ones come out one range lower.
LEMMA LongNear ==
    ASSUME NEW x \in Int
    PROVE  /\ x \in - Half .. Half - 1 => Long(x) = x
           /\ x \in Half .. 3 * Half - 1 => Long(x) = x - 2 * Half
           /\ x \in - (3 * Half) .. - Half - 1 => Long(x) = x + 2 * Half
<1>0. Half \in Nat \ {0}
  BY HalfType
<1>1. ASSUME x \in - Half .. Half - 1 PROVE Long(x) = x
  <2>1. Long((2 * Half) * 0 + x) = x
    BY <1>1, LongUnique
  <2>2. QED
    BY <1>0, <2>1
<1>2. ASSUME x \in Half .. 3 * Half - 1 PROVE Long(x) = x - 2 * Half
  <2>1. x - 2 * Half \in - Half .. Half - 1
    BY <1>0, <1>2
  <2>2. Long((2 * Half) * 1 + (x - 2 * Half)) = x - 2 * Half
    BY <2>1, LongUnique
  <2>3. (2 * Half) * 1 + (x - 2 * Half) = x
    BY <1>0
  <2>4. QED
    BY <2>2, <2>3
<1>3. ASSUME x \in - (3 * Half) .. - Half - 1 PROVE Long(x) = x + 2 * Half
  <2>1. x + 2 * Half \in - Half .. Half - 1
    BY <1>0, <1>3
  <2>2. Long((2 * Half) * (-1) + (x + 2 * Half)) = x + 2 * Half
    BY <2>1, LongUnique
  <2>3. (2 * Half) * (-1) + (x + 2 * Half) = x
    BY <1>0
  <2>4. QED
    BY <2>2, <2>3
<1>4. QED
  BY <1>1, <1>2, <1>3

\* A LONG that wraps is never ahead of the number it stands for.
LEMMA LongBehind == ASSUME NEW x \in Nat PROVE Long(x) <= x /\ Long(x) \in Int
<1>0. Half \in Nat \ {0}
  BY HalfType
<1>1. PICK q \in Int : x = (2 * Half) * q + Long(x)
  BY LongSplit
<1>2. Long(x) \in - Half .. Half - 1
  BY LongSplit
<1>3. CASE q = 0
  BY <1>0, <1>1, <1>2, <1>3
<1>4. CASE q # 0
  <2>1. (2 * Half) * q \in Int /\ ((2 * Half) * q >= 2 * Half \/ (2 * Half) * q <= - (2 * Half))
    BY <1>0, <1>4, Multiple
  <2>2. QED
    BY <1>0, <1>1, <1>2, <2>1
<1>5. QED
  BY <1>3, <1>4

\* The LONG of the next number.
LEMMA LongNext ==
    ASSUME NEW x \in Int, NEW d \in Nat
    PROVE  /\ Long(x) + d <= Half - 1 => Long(x + d) = Long(x) + d
           /\ Long(x) = Half - 1 /\ d >= 1 /\ d <= Half => Long(x + d) = d - 1 - Half
<1>0. Half \in Nat \ {0}
  BY HalfType
<1>1. PICK q \in Int : x = (2 * Half) * q + Long(x)
  BY LongSplit
<1>2. Long(x) \in - Half .. Half - 1
  BY LongSplit
<1>3. ASSUME Long(x) + d <= Half - 1 PROVE Long(x + d) = Long(x) + d
  <2>1. Long((2 * Half) * q + (Long(x) + d)) = Long(x) + d
    <3>1. Long(x) + d \in - Half .. Half - 1
      BY <1>0, <1>2, <1>3
    <3>2. QED
      BY <3>1, LongUnique
  <2>2. (2 * Half) * q + (Long(x) + d) = x + d
    BY <1>0, <1>1, <1>2
  <2>3. QED
    BY <2>1, <2>2
<1>4. ASSUME Long(x) = Half - 1, d >= 1, d <= Half PROVE Long(x + d) = d - 1 - Half
  <2>1. d - 1 - Half \in - Half .. Half - 1 /\ q + 1 \in Int
    BY <1>0, <1>4
  <2>2. Long((2 * Half) * (q + 1) + (d - 1 - Half)) = d - 1 - Half
    BY <2>1, LongUnique
  <2>3. (2 * Half) * (q + 1) = (2 * Half) * q + 2 * Half
    BY <1>0
  <2>4. (2 * Half) * (q + 1) + (d - 1 - Half) = x + d
    BY <1>0, <1>1, <1>4, <2>3
  <2>5. QED
    BY <2>2, <2>4
<1>5. QED
  BY <1>3, <1>4

--------------------------------------------------------------------------------

\* The steps of a destructor, in order.
LEMMA Destructor ==
    /\ DOMAIN AfterStop = Destroying
    /\ Continue("quit") => manager' = "signal"
    /\ Continue("signal") => manager' = "join"
    /\ Continue("join") => manager' = "reset"
    /\ Continue("reset") => manager' = "unmap"
    /\ Continue("unmap") => manager' = IF Terminating THEN "terminate" ELSE "clear"
    /\ AfterStop["reset"] # "next" /\ AfterStop["unmap"] = "next"
BY DEF AfterStop, Continue, ManagerGoto, Destroying

--------------------------------------------------------------------------------

\* Who changes what.  Each group of variables is left alone by every step that
\* is not named.

\* The counters of the ring and the batches in the detector.
LEMMA RingFrame ==
    [Next]_vars =>
        \/ UNCHANGED ring
        \/ StartWorker \/ ResetDetector
        \/ \E p \in Points : IngestLoad(p) \/ IngestPush(p)
        \/ \E p \in Points : \E s \in inside[p] : SinkBegins(p, s) \/ SinkEnds(p, s)
<1> USE DEF ring, worker
<1>1. Manager \/ ConfigurationFails => UNCHANGED ring \/ StartWorker \/ ResetDetector
  BY DEF Manager, ManagerWait, ManagerLook, ManagerLookAgain, Destroy, BeginDestroy, SetQuit,
         WakeIngest, Join, Unmap, Cleared, Construct, MarkAsConfigured, Report, Acknowledge,
         AcknowledgeQuit, ConfigurationFails
<1>2. ASSUME NEW p \in Points, Ingest(p) PROVE UNCHANGED ring \/ IngestLoad(p) \/ IngestPush(p)
  BY <1>2 DEF Ingest, IngestTop, IngestWake, IngestCheck, IngestDone
<1>3. ASSUME \/ \E request \in {"UPDATE_PENDING", "QUIT"} : Ask(request)
             \/ Trigger \/ Acknowledged \/ UNCHANGED vars \/ \E p \in Points : Produce(p)
      PROVE  UNCHANGED ring
  BY <1>3 DEF Ask, Trigger, Acknowledged, Produce, vars
<1>4. QED
  BY <1>1, <1>2, <1>3 DEF Next

\* What is published and awaited.
LEMMA ProducerFrame ==
    [Next]_vars =>
        \/ UNCHANGED producer
        \/ \E p \in Points : Produce(p)
        \/ \E p \in Points : \E s \in inside[p] : SinkEnds(p, s)
<1> USE DEF producer, external
<1>1. Manager \/ ConfigurationFails => UNCHANGED producer
  BY DEF Manager, ManagerWait, ManagerLook, ManagerLookAgain, Destroy, BeginDestroy, SetQuit,
         WakeIngest, Join, ResetDetector, Unmap, Cleared, Construct, StartWorker,
         MarkAsConfigured, Report, Acknowledge, AcknowledgeQuit, ConfigurationFails
<1>2. ASSUME NEW p \in Points, Ingest(p) PROVE UNCHANGED producer
  BY <1>2 DEF Ingest, IngestTop, IngestWake, IngestCheck, IngestLoad, IngestPush, IngestDone
<1>3. ASSUME NEW p \in Points, NEW s \in inside[p], SinkBegins(p, s) PROVE UNCHANGED producer
  BY <1>3 DEF SinkBegins
<1>4. ASSUME \/ \E request \in {"UPDATE_PENDING", "QUIT"} : Ask(request)
             \/ Trigger \/ Acknowledged \/ UNCHANGED vars
      PROVE  UNCHANGED producer
  BY <1>4 DEF Ask, Trigger, Acknowledged, vars
<1>5. QED
  BY <1>1, <1>2, <1>3, <1>4 DEF Next

\* What the manager's thread owns.
LEMMA ManagerFrame ==
    [Next]_vars =>
        \/ UNCHANGED <<manager, cursor, faults, exists, running, detector, mapped, status>>
        \/ Manager \/ ConfigurationFails
<1> USE DEF worker, shared, ring, external
<1>1. ASSUME NEW p \in Points, Ingest(p) \/ Produce(p)
      PROVE  UNCHANGED <<manager, cursor, faults, exists, running, detector, mapped, status>>
  BY <1>1 DEF Ingest, IngestTop, IngestWake, IngestCheck, IngestLoad, IngestPush, IngestDone,
              Produce
<1>2. ASSUME NEW p \in Points, NEW s \in inside[p], SinkBegins(p, s) \/ SinkEnds(p, s)
      PROVE  UNCHANGED <<manager, cursor, faults, exists, running, detector, mapped, status>>
  BY <1>2 DEF SinkBegins, SinkEnds
<1>3. ASSUME \/ \E request \in {"UPDATE_PENDING", "QUIT"} : Ask(request)
             \/ Trigger \/ Acknowledged \/ UNCHANGED vars
      PROVE  UNCHANGED <<manager, cursor, faults, exists, running, detector, mapped, status>>
  BY <1>3 DEF Ask, Trigger, Acknowledged, vars
<1>4. QED
  BY <1>1, <1>2, <1>3 DEF Next

\* The handshake of controller and manager.
LEMMA HandshakeFrame ==
    [Next]_vars =>
        \/ UNCHANGED <<list, trigger, ack, controller, requests>>
        \/ \E request \in {"UPDATE_PENDING", "QUIT"} : Ask(request)
        \/ Trigger \/ Acknowledged
        \/ ManagerWait \/ Report \/ Acknowledge \/ AcknowledgeQuit
<1> USE DEF worker, shared, ring, external
<1>1. ASSUME NEW p \in Points, Ingest(p) \/ Produce(p)
      PROVE  UNCHANGED <<list, trigger, ack, controller, requests>>
  BY <1>1 DEF Ingest, IngestTop, IngestWake, IngestCheck, IngestLoad, IngestPush, IngestDone,
              Produce
<1>2. ASSUME NEW p \in Points, NEW s \in inside[p], SinkBegins(p, s) \/ SinkEnds(p, s)
      PROVE  UNCHANGED <<list, trigger, ack, controller, requests>>
  BY <1>2 DEF SinkBegins, SinkEnds
<1>3. ASSUME Manager \/ ConfigurationFails,
             ~(ManagerWait \/ Report \/ Acknowledge \/ AcknowledgeQuit)
      PROVE  UNCHANGED <<list, trigger, ack, controller, requests>>
  BY <1>3 DEF Manager, ManagerLook, ManagerLookAgain, Destroy, BeginDestroy, SetQuit,
         WakeIngest, Join, ResetDetector, Unmap, Cleared, Construct, StartWorker,
         MarkAsConfigured, ConfigurationFails
<1>4. UNCHANGED vars => UNCHANGED <<list, trigger, ack, controller, requests>>
  BY DEF vars
<1>5. QED
  BY <1>1, <1>2, <1>3, <1>4 DEF Next

\* The ingest threads and their event.
LEMMA IngestFrame ==
    [Next]_vars =>
        \/ UNCHANGED <<ingest, eventReady>>
        \/ Join \/ StartWorker \/ WakeIngest
        \/ \E p \in Points : Ingest(p) \/ Produce(p)
<1> USE DEF worker, shared, ring, external
<1>1. ASSUME NEW p \in Points, NEW s \in inside[p], SinkBegins(p, s) \/ SinkEnds(p, s)
      PROVE  UNCHANGED <<ingest, eventReady>>
  BY <1>1 DEF SinkBegins, SinkEnds
<1>2. ASSUME Manager \/ ConfigurationFails, ~(Join \/ StartWorker \/ WakeIngest)
      PROVE  UNCHANGED <<ingest, eventReady>>
  BY <1>2 DEF Manager, ManagerWait, ManagerLook, ManagerLookAgain, Destroy, BeginDestroy, SetQuit,
         ResetDetector, Unmap, Cleared, Construct, MarkAsConfigured, Report, Acknowledge,
         AcknowledgeQuit, ConfigurationFails
<1>3. ASSUME \/ \E request \in {"UPDATE_PENDING", "QUIT"} : Ask(request)
             \/ Trigger \/ Acknowledged \/ UNCHANGED vars
      PROVE  UNCHANGED <<ingest, eventReady>>
  BY <1>3 DEF Ask, Trigger, Acknowledged, vars
<1>4. QED
  BY <1>1, <1>2, <1>3 DEF Next

--------------------------------------------------------------------------------

\* TypeOK, in the same groups.

Places == Destroying \union {"wait", "look", "look again", "clear", "terminate", "construct",
                             "start", "mark", "failed", "ack", "gone"}

TypeHandshake ==
    /\ list \in States /\ trigger \in BOOLEAN /\ ack \in BOOLEAN
    /\ controller \in {"idle", "signal", "await", "done"} /\ requests \in 0 .. MaxRequests

TypeManager ==
    /\ manager \in Places /\ cursor \in 1 .. NumPoints + 1 /\ faults \in 0 .. MaxFaults
    /\ exists \subseteq Points /\ status \in [Points -> States]
    /\ running \in [Points -> BOOLEAN]
    /\ detector \in [Points -> BOOLEAN] /\ mapped \in [Points -> BOOLEAN]

TypeIngest ==
    /\ ingest \in [Points -> {"none", "top", "wait", "check", "load", "drain", "exited"}]
    /\ eventReady \in [Points -> BOOLEAN]

TypeRing ==
    /\ consumedSeq \in [Points -> Longs] /\ drainTo \in [Points -> Longs]
    /\ inside \in [Points -> SUBSET Longs] /\ sink \in [Points -> SUBSET Longs]
    /\ \A p \in Points : sink[p] \subseteq inside[p]

TypeProducer ==
    /\ batches \in 0 .. MaxBatches
    /\ published \in [Points -> Nat] /\ awaited \in [Points -> SUBSET Nat]
    /\ \A p \in Points : awaited[p] \subseteq 0 .. published[p] - 1

\* TypeOK is its groups.
LEMMA TypeSplit ==
    TypeOK <=> TypeHandshake /\ TypeManager /\ TypeIngest /\ TypeRing /\ TypeProducer
BY Destructor
   DEF TypeOK, TypeHandshake, TypeManager, TypeIngest, TypeRing, TypeProducer, Places

\* What the constants are.
LEMMA ConstantTypes ==
    /\ NumPoints \in Nat \ {0} /\ RingSlots \in Nat \ {0} /\ RingSlots < Half
    /\ MaxRequests \in Nat /\ MaxBatches \in Nat /\ MaxFaults \in Nat
    /\ Half \in Nat \ {0} /\ Longs = - Half .. Half - 1 /\ 0 \in Longs
    /\ \A x \in Int : Long(x) \in Longs
<1>1. /\ NumPoints \in Nat \ {0} /\ RingSlots \in Nat \ {0} /\ RingSlots < Half
      /\ MaxRequests \in Nat /\ MaxBatches \in Nat /\ MaxFaults \in Nat
  BY LifecycleAssumption, HalfType
<1>2. Half \in Nat \ {0} /\ Longs = - Half .. Half - 1
  BY HalfType, LongIs
<1>3. \A x \in Int : Long(x) \in Longs
  BY <1>2, LongSplit
<1>4. QED
  BY <1>1, <1>2, <1>3

\* The handshake's variables keep their types.
LEMMA TypeHandshakeStep == TypeHandshake /\ [Next]_vars => TypeHandshake'
<1> SUFFICES ASSUME TypeHandshake, [Next]_vars PROVE TypeHandshake'
  OBVIOUS
<1> USE ConstantTypes DEF TypeHandshake, States, external
<1>1. ASSUME NEW request \in {"UPDATE_PENDING", "QUIT"}, Ask(request) PROVE TypeHandshake'
  BY <1>1 DEF Ask
<1>2. CASE Trigger
  BY <1>2 DEF Trigger
<1>3. CASE Acknowledged
  BY <1>3 DEF Acknowledged
<1>4. CASE ManagerWait
  BY <1>4 DEF ManagerWait
<1>5. CASE Report
  BY <1>5 DEF Report
<1>6. CASE Acknowledge \/ AcknowledgeQuit
  BY <1>6 DEF Acknowledge, AcknowledgeQuit
<1>7. CASE UNCHANGED <<list, trigger, ack, controller, requests>>
  BY <1>7
<1>8. QED
  BY <1>1, <1>2, <1>3, <1>4, <1>5, <1>6, <1>7, HandshakeFrame

\* A function with one new value.
LEMMA Put ==
    ASSUME NEW S, NEW T, NEW f \in [S -> T], NEW a, NEW v \in T
    PROVE  [f EXCEPT ![a] = v] \in [S -> T]
OBVIOUS

\* The manager's variables keep their types: its place is inside its loops.
LEMMA TypeManagerStep == TypeManager /\ Progress /\ [Next]_vars => TypeManager'
<1> SUFFICES ASSUME TypeManager, Progress, [Next]_vars PROVE TypeManager'
  OBVIOUS
<1> USE DEF external, shared, worker, ring, ManagerGoto
<1>0. TRUE \in BOOLEAN /\ FALSE \in BOOLEAN
  OBVIOUS
<1>1. ASSUME NEW p \in Points, BeginDestroy(p) PROVE TypeManager'
  <2>1. running' = [running EXCEPT ![p] = FALSE]
    BY <1>1 DEF BeginDestroy
  <2>2. running' \in [Points -> BOOLEAN]
    BY <1>0, <2>1, Put DEF TypeManager
  <2>3. cursor' \in 1 .. NumPoints + 1 /\ manager' \in Places
    BY <1>1, ConstantTypes DEF BeginDestroy, Points, Places, Destroying
  <2>4. QED
    BY <1>1, <2>2, <2>3 DEF BeginDestroy, TypeManager
<1>2. CASE SetQuit
  <2>1. status' \in [Points -> States]
    BY <1>2, Put DEF SetQuit, TypeManager, States
  <2>2. QED
    BY <1>2, <2>1, Destructor DEF SetQuit, TypeManager, Places, Destroying
<1>3. CASE WakeIngest \/ Join
  BY <1>3, Destructor DEF WakeIngest, Join, TypeManager, Places, Destroying
<1>4. CASE ResetDetector
  <2>1. detector' \in [Points -> BOOLEAN]
    BY <1>0, <1>4, Put DEF ResetDetector, TypeManager
  <2>2. manager' \in Places /\ exists' \subseteq Points
    BY <1>4, Destructor DEF ResetDetector, TypeManager, Places, Destroying
  <2>3. QED
    BY <1>4, <2>1, <2>2 DEF ResetDetector, TypeManager
<1>5. CASE Unmap
  <2>1. mapped' \in [Points -> BOOLEAN]
    BY <1>0, <1>5, Put DEF Unmap, TypeManager
  <2>2. manager' \in Places /\ exists' \subseteq Points
    BY <1>5, Destructor DEF Unmap, TypeManager, Places, Destroying
  <2>3. QED
    BY <1>5, <2>1, <2>2 DEF Unmap, TypeManager
<1>6. CASE Cleared
  BY <1>6, ConstantTypes DEF Cleared, TypeManager, Places
<1>7. CASE Construct
  <2>1. detector' \in [Points -> BOOLEAN] /\ mapped' \in [Points -> BOOLEAN]
    BY <1>0, <1>7, Put DEF Construct, TypeManager
  <2>2. manager' \in Places /\ exists' \subseteq Points
    BY <1>7 DEF Construct, TypeManager, Places
  <2>3. QED
    BY <1>7, <2>1, <2>2 DEF Construct, TypeManager
<1>8. CASE StartWorker
  <2>1. running' \in [Points -> BOOLEAN]
    BY <1>0, <1>8, Put DEF StartWorker, TypeManager
  <2>2. QED
    BY <1>8, <2>1 DEF StartWorker, TypeManager, Places
<1>9. CASE MarkAsConfigured
  <2>1. status' \in [Points -> States]
    BY <1>9, Put DEF MarkAsConfigured, TypeManager, States
  <2>2. manager = "mark" /\ cursor \in Points
    BY <1>9 DEF MarkAsConfigured, Progress
  <2>3. cursor' \in 1 .. NumPoints + 1 /\ manager' \in Places
    BY <1>9, <2>2, ConstantTypes DEF MarkAsConfigured, NextPoint, Points, Places
  <2>4. QED
    BY <1>9, <2>1, <2>3 DEF MarkAsConfigured, TypeManager
<1>10. CASE ConfigurationFails
  <2>1. status' \in [Points -> States]
    BY <1>10, Put DEF ConfigurationFails, MarkAsError, TypeManager, States
  <2>2. running' \in [Points -> BOOLEAN]
    BY <1>0, <1>10, Put DEF ConfigurationFails, TypeManager
  <2>3. faults' \in 0 .. MaxFaults
    <3>1. faults \in 0 .. MaxFaults /\ faults < MaxFaults /\ faults' = faults + 1
      BY <1>10 DEF ConfigurationFails, TypeManager
    <3>2. QED
      BY ONLY <3>1, ConstantTypes
  <2>4. manager' \in Places
    BY <1>10 DEF ConfigurationFails, Places
  <2>5. QED
    BY <1>10, <2>1, <2>2, <2>3, <2>4 DEF ConfigurationFails, TypeManager
<1>11. CASE ManagerWait \/ ManagerLook \/ ManagerLookAgain \/ Report \/ Acknowledge \/ AcknowledgeQuit
  BY <1>11 DEF ManagerWait, ManagerLook, ManagerLookAgain, Report, Acknowledge, AcknowledgeQuit,
               TypeManager, Places
<1>12. CASE UNCHANGED <<manager, cursor, faults, exists, running, detector, mapped, status>>
  BY <1>12 DEF TypeManager
<1>13. QED
  BY <1>1, <1>2, <1>3, <1>4, <1>5, <1>6, <1>7, <1>8, <1>9, <1>10, <1>11, <1>12, ManagerFrame
     DEF Manager, Destroy

\* The ingest threads' variables keep their types.
LEMMA TypeIngestStep == TypeIngest /\ [Next]_vars => TypeIngest'
<1> SUFFICES ASSUME TypeIngest, [Next]_vars PROVE TypeIngest'
  OBVIOUS
<1> USE DEF external, shared, worker, ring
<1> DEFINE Stations == {"none", "top", "wait", "check", "load", "drain", "exited"}
<1>0. TRUE \in BOOLEAN /\ FALSE \in BOOLEAN
  OBVIOUS
<1>1. CASE Join \/ StartWorker
  <2>1. (\E p : ingest' = [ingest EXCEPT ![p] = "none"] \/ ingest' = [ingest EXCEPT ![p] = "top"])
        /\ eventReady' = eventReady
    BY <1>1 DEF Join, StartWorker
  <2>2. ingest' \in [Points -> Stations]
    BY <2>1, Put DEF TypeIngest
  <2>3. QED
    BY <2>1, <2>2 DEF TypeIngest
<1>2. CASE WakeIngest \/ \E p \in Points : Produce(p)
  <2>1. (\E p : eventReady' = [eventReady EXCEPT ![p] = TRUE]) /\ ingest' = ingest
    BY <1>2 DEF WakeIngest, Produce
  <2>2. eventReady' \in [Points -> BOOLEAN]
    BY <1>0, <2>1, Put DEF TypeIngest
  <2>3. QED
    BY <2>1, <2>2 DEF TypeIngest
<1>3. ASSUME NEW p \in Points, Ingest(p) PROVE TypeIngest'
  <2>1. /\ \E there \in Stations : ingest' = [ingest EXCEPT ![p] = there] \/ ingest' = ingest
        /\ eventReady' = eventReady \/ eventReady' = [eventReady EXCEPT ![p] = FALSE]
    BY <1>3 DEF Ingest, IngestTop, IngestWake, IngestCheck, IngestLoad, IngestPush, IngestDone,
                IngestGoto
  <2>2. ingest' \in [Points -> Stations]
    BY <2>1, Put DEF TypeIngest
  <2>3. eventReady' \in [Points -> BOOLEAN]
    BY <1>0, <2>1, Put DEF TypeIngest
  <2>4. QED
    BY <2>2, <2>3 DEF TypeIngest
<1>4. CASE UNCHANGED <<ingest, eventReady>>
  BY <1>4 DEF TypeIngest
<1>5. QED
  BY <1>1, <1>2, <1>3, <1>4, IngestFrame

\* What is awaited has been published.
LEMMA TypeProducerStep == TypeProducer /\ [Next]_vars => TypeProducer'
<1> SUFFICES ASSUME TypeProducer, [Next]_vars PROVE TypeProducer'
  OBVIOUS
<1>1. ASSUME NEW p \in Points, Produce(p) PROVE TypeProducer'
  <2>1. /\ batches < MaxBatches /\ batches' = batches + 1
        /\ published' = [published EXCEPT ![p] = published[p] + 1]
        /\ awaited' = [awaited EXCEPT ![p] = awaited[p] \union {published[p]}]
    BY <1>1 DEF Produce
  <2>2. published[p] \in Nat /\ awaited[p] \in SUBSET Nat
    BY DEF TypeProducer
  <2>3. published' \in [Points -> Nat]
    <3>1. published[p] + 1 \in Nat
      BY <2>2
    <3>2. QED
      BY <2>1, <3>1, Put DEF TypeProducer
  <2>4. awaited' \in [Points -> SUBSET Nat]
    <3>1. awaited[p] \union {published[p]} \in SUBSET Nat
      BY <2>2
    <3>2. QED
      BY <2>1, <3>1, Put DEF TypeProducer
  <2>5. batches' \in 0 .. MaxBatches
    BY <2>1, ConstantTypes DEF TypeProducer
  <2>6. ASSUME NEW q \in Points PROVE awaited'[q] \subseteq 0 .. published'[q] - 1
    <3>1. awaited[q] \subseteq 0 .. published[q] - 1 /\ published[q] \in Nat
      BY DEF TypeProducer
    <3>2. CASE q = p
      <4>1. awaited'[q] = awaited[q] \union {published[q]} /\ published'[q] = published[q] + 1
        BY <2>1, <3>2 DEF TypeProducer
      <4>2. QED
        BY <3>1, <4>1
    <3>3. CASE q # p
      BY <2>1, <3>1, <3>3 DEF TypeProducer
    <3>4. QED
      BY <3>2, <3>3
  <2>7. QED
    BY <2>3, <2>4, <2>5, <2>6 DEF TypeProducer
<1>2. ASSUME NEW p \in Points, NEW s \in inside[p], SinkEnds(p, s) PROVE TypeProducer'
  <2>1. awaited' = [awaited EXCEPT ![p] = awaited[p] \ {s}] /\ UNCHANGED <<batches, published>>
    BY <1>2 DEF SinkEnds
  <2>2. awaited' \in [Points -> SUBSET Nat]
    BY <2>1, Put DEF TypeProducer
  <2>3. \A q \in Points : awaited'[q] \subseteq awaited[q]
    BY <2>1 DEF TypeProducer
  <2>4. QED
    BY <2>1, <2>2, <2>3 DEF TypeProducer
<1>3. CASE UNCHANGED producer
  BY <1>3 DEF TypeProducer, producer
<1>4. QED
  BY <1>1, <1>2, <1>3, ProducerFrame

\* One counter or one set of batches changes, at one point.
LEMMA TypeRingStep == TypeRing /\ TypeProducer /\ [Next]_vars => TypeRing'
<1> SUFFICES ASSUME TypeRing, TypeProducer, [Next]_vars PROVE TypeRing'
  OBVIOUS
<1> USE DEF ring, worker
<1>1. CASE StartWorker
  <2>1. consumedSeq' = [consumedSeq EXCEPT ![cursor] = 0] /\ UNCHANGED <<drainTo, inside, sink>>
    BY <1>1 DEF StartWorker, FirstSeq
  <2>2. consumedSeq' \in [Points -> Longs]
    BY <2>1, ConstantTypes, Put DEF TypeRing
  <2>3. QED
    BY <2>1, <2>2 DEF TypeRing
<1>2. CASE ResetDetector
  <2>1. /\ inside' = [inside EXCEPT ![cursor] = {}] /\ UNCHANGED <<consumedSeq, drainTo, sink>>
        /\ sink[cursor] = {}
    BY <1>2 DEF ResetDetector
  <2>2. inside' \in [Points -> SUBSET Longs]
    BY <2>1, Put DEF TypeRing
  <2>3. \A p \in Points : sink'[p] \subseteq inside'[p]
    BY <2>1 DEF TypeRing
  <2>4. QED
    BY <2>1, <2>2, <2>3 DEF TypeRing
<1>3. ASSUME NEW p \in Points, IngestLoad(p) PROVE TypeRing'
  <2>1. /\ drainTo' = [drainTo EXCEPT ![p] = Long(published[p])]
        /\ consumedSeq' = [consumedSeq EXCEPT ![p] = Skip(p)] /\ UNCHANGED <<inside, sink>>
    BY <1>3 DEF IngestLoad, publishSeq
  <2>2. Long(published[p]) \in Longs
    BY ConstantTypes DEF TypeProducer
  <2>3. Skip(p) \in Longs
    <3>1. Long(published[p]) - RingSlots \in Int
      BY <2>2, ConstantTypes
    <3>2. Long(Long(published[p]) - RingSlots) \in Longs /\ consumedSeq[p] \in Longs
      BY <3>1, ConstantTypes DEF TypeRing
    <3>3. QED
      BY <3>2 DEF Skip, publishSeq
  <2>4. drainTo' \in [Points -> Longs] /\ consumedSeq' \in [Points -> Longs]
    BY <2>1, <2>2, <2>3, Put DEF TypeRing
  <2>5. QED
    BY <2>1, <2>4 DEF TypeRing
<1>4. ASSUME NEW p \in Points, IngestPush(p) PROVE TypeRing'
  <2>1. /\ inside' = [inside EXCEPT ![p] = inside[p] \union {consumedSeq[p]}]
        /\ consumedSeq' = [consumedSeq EXCEPT ![p] = Long(consumedSeq[p] + 1)]
        /\ UNCHANGED <<drainTo, sink>>
    BY <1>4 DEF IngestPush
  <2>2. consumedSeq[p] \in Longs /\ inside[p] \in SUBSET Longs
    BY DEF TypeRing
  <2>3. Long(consumedSeq[p] + 1) \in Longs
    BY <2>2, ConstantTypes
  <2>4. inside' \in [Points -> SUBSET Longs] /\ consumedSeq' \in [Points -> Longs]
    <3>1. inside[p] \union {consumedSeq[p]} \in SUBSET Longs
      BY <2>2
    <3>2. QED
      BY <2>1, <2>3, <3>1, Put DEF TypeRing
  <2>5. \A q \in Points : sink'[q] \subseteq inside'[q]
    BY <2>1 DEF TypeRing
  <2>6. QED
    BY <2>1, <2>4, <2>5 DEF TypeRing
<1>5. ASSUME NEW p \in Points, NEW s \in inside[p], SinkBegins(p, s) PROVE TypeRing'
  <2>1. sink' = [sink EXCEPT ![p] = sink[p] \union {s}] /\ UNCHANGED <<consumedSeq, drainTo, inside>>
    BY <1>5 DEF SinkBegins
  <2>2. sink[p] \union {s} \in SUBSET Longs
    BY DEF TypeRing
  <2>3. sink' \in [Points -> SUBSET Longs]
    BY <2>1, <2>2, Put DEF TypeRing
  <2>4. \A q \in Points : sink'[q] \subseteq inside'[q]
    BY <2>1 DEF TypeRing
  <2>5. QED
    BY <2>1, <2>3, <2>4 DEF TypeRing
<1>6. ASSUME NEW p \in Points, NEW s \in inside[p], SinkEnds(p, s) PROVE TypeRing'
  <2>1. /\ sink' = [sink EXCEPT ![p] = sink[p] \ {s}] /\ UNCHANGED <<consumedSeq, drainTo>>
        /\ inside' = [inside EXCEPT ![p] = inside[p] \ {s}]
    BY <1>6 DEF SinkEnds
  <2>2. sink[p] \ {s} \in SUBSET Longs /\ inside[p] \ {s} \in SUBSET Longs
    BY DEF TypeRing
  <2>3. sink' \in [Points -> SUBSET Longs] /\ inside' \in [Points -> SUBSET Longs]
    BY <2>1, <2>2, Put DEF TypeRing
  <2>4. \A q \in Points : sink'[q] \subseteq inside'[q]
    BY <2>1 DEF TypeRing
  <2>5. QED
    BY <2>1, <2>3, <2>4 DEF TypeRing
<1>7. CASE UNCHANGED ring
  BY <1>7 DEF TypeRing
<1>8. QED
  BY <1>1, <1>2, <1>3, <1>4, <1>5, <1>6, <1>7, RingFrame

\* The state is well typed.
LEMMA TypeStep == TypeOK /\ Progress /\ [Next]_vars => TypeOK'
<1>1. TypeOK' <=> (TypeHandshake /\ TypeManager /\ TypeIngest /\ TypeRing /\ TypeProducer)'
  BY TypeSplit, PTL
<1>2. QED
  BY <1>1, TypeSplit, TypeHandshakeStep, TypeManagerStep, TypeIngestStep, TypeRingStep,
     TypeProducerStep

--------------------------------------------------------------------------------

\* Request, trigger and acknowledgement alternate.
LEMMA HandshakeStep == TypeOK /\ Handshake /\ [Next]_vars => Handshake'
<1> SUFFICES ASSUME TypeOK, Handshake, [Next]_vars PROVE Handshake'
  OBVIOUS
<1>0. manager \in Places
  BY TypeSplit DEF TypeManager
<1> USE DEF Handshake, external, shared, ManagerGoto
<1>1. ASSUME NEW request \in {"UPDATE_PENDING", "QUIT"}, Ask(request) PROVE Handshake'
  BY <1>1 DEF Ask, Destroying
<1>2. CASE Trigger
  BY <1>2 DEF Trigger, Destroying
<1>3. CASE Acknowledged
  BY <1>3 DEF Acknowledged, Destroying
<1>4. CASE ManagerWait
  BY <1>4 DEF ManagerWait, Destroying
<1>5. CASE ManagerLook
  BY <1>5 DEF ManagerLook, Destroying
<1>6. CASE ManagerLookAgain
  BY <1>6 DEF ManagerLookAgain, Destroying
<1>7. CASE Report
  BY <1>7 DEF Report, Destroying
<1>8. CASE Acknowledge \/ AcknowledgeQuit
  <2>1. /\ manager \in {"ack", "terminate"} /\ ack' /\ UNCHANGED <<list, trigger, controller>>
        /\ manager' = IF manager = "ack" THEN "wait" ELSE "gone"
    BY <1>8 DEF Acknowledge, AcknowledgeQuit
  <2>2. /\ controller = "await" /\ ~trigger
        /\ manager = "ack" => list \in {"CONFIGURED", "ERROR_DETECTED"}
        /\ manager = "terminate" => list = "QUIT"
    BY <2>1
  <2>3. QED
    BY <2>1, <2>2 DEF Destroying
<1>9. ASSUME NEW p \in Points, BeginDestroy(p) PROVE Handshake'
  BY <1>9 DEF BeginDestroy, Destroying
<1>10. CASE SetQuit \/ WakeIngest \/ Join \/ ResetDetector
  <2>1. /\ UNCHANGED <<list, trigger, ack, controller>>
        /\ manager \in Destroying /\ manager' \in Destroying
    BY <1>10, Destructor DEF SetQuit, WakeIngest, Join, ResetDetector, Destroying
  <2>2. QED
    BY <2>1 DEF Destroying
<1>11. CASE Unmap
  BY <1>11, Destructor DEF Unmap, Terminating, Destroying
<1>12. CASE Cleared \/ Construct \/ StartWorker \/ MarkAsConfigured \/ ConfigurationFails
  <2>1. /\ UNCHANGED <<list, trigger, ack, controller>>
        /\ manager \in {"clear", "construct", "start", "mark"}
        /\ manager' \in {"construct", "start", "mark", "failed"}
    BY <1>12 DEF Cleared, Construct, StartWorker, MarkAsConfigured, NextPoint, ConfigurationFails
  <2>2. QED
    BY <2>1 DEF Destroying
<1>13. CASE UNCHANGED <<list, trigger, ack, controller, manager>>
  BY <1>13 DEF Destroying
<1>14. QED
  <2>1. CASE Manager \/ ConfigurationFails
    BY <2>1, <1>4, <1>5, <1>6, <1>7, <1>8, <1>9, <1>10, <1>11, <1>12 DEF Manager, Destroy
  <2>2. CASE ~(Manager \/ ConfigurationFails)
    BY <2>2, <1>1, <1>2, <1>3, <1>13, HandshakeFrame, ManagerFrame DEF Manager
  <2>3. QED
    BY <2>1, <2>2

\* A thread that is not there, or has ended, appears with StartWorker only.
LEMMA NoThread ==
    ASSUME TypeIngest, [Next]_vars, ~StartWorker, NEW q \in Points
    PROVE  /\ ingest[q] = "none" => ingest'[q] = "none"
           /\ ingest[q] \in {"none", "exited"} => ingest'[q] \in {"none", "exited"}
<1> USE DEF shared, worker, ring, external
<1>0. ingest \in [Points -> {"none", "top", "wait", "check", "load", "drain", "exited"}]
  BY DEF TypeIngest
<1>1. ASSUME NEW p \in Points, Ingest(p), ingest[q] \in {"none", "exited"} PROVE ingest'[q] = ingest[q]
  <2>1. ingest[p] \notin {"none", "exited"}
    BY <1>1 DEF Ingest, IngestTop, IngestWake, IngestCheck, IngestLoad, IngestPush, IngestDone
  <2>2. ingest' = ingest \/ \E there : ingest' = [ingest EXCEPT ![p] = there]
    BY <1>1 DEF Ingest, IngestTop, IngestWake, IngestCheck, IngestLoad, IngestPush, IngestDone,
                IngestGoto
  <2>3. QED
    BY <1>0, <1>1, <2>1, <2>2
<1>2. CASE Join
  BY <1>0, <1>2 DEF Join
<1>3. CASE WakeIngest \/ \E p \in Points : Produce(p)
  BY <1>3 DEF WakeIngest, Produce
<1>4. CASE UNCHANGED <<ingest, eventReady>>
  BY <1>4
<1>5. QED
  BY <1>1, <1>2, <1>3, <1>4, IngestFrame

\* Batches get into a detector by a push only.
LEMMA NotPushed ==
    ASSUME TypeRing, [Next]_vars, NEW q \in Points, ~IngestPush(q)
    PROVE  inside'[q] \subseteq inside[q]
<1> USE DEF ring, worker
<1>0. inside \in [Points -> SUBSET Longs]
  BY DEF TypeRing
<1>1. CASE UNCHANGED ring
  BY <1>1
<1>2. CASE StartWorker
  BY <1>2 DEF StartWorker
<1>3. CASE ResetDetector
  BY <1>0, <1>3 DEF ResetDetector
<1>4. ASSUME NEW p \in Points, IngestLoad(p) PROVE inside'[q] \subseteq inside[q]
  BY <1>4 DEF IngestLoad
<1>5. ASSUME NEW p \in Points, IngestPush(p) PROVE inside'[q] \subseteq inside[q]
  <2>1. p # q /\ inside' = [inside EXCEPT ![p] = inside[p] \union {consumedSeq[p]}]
    BY <1>5 DEF IngestPush
  <2>2. QED
    BY <1>0, <2>1
<1>6. ASSUME NEW p \in Points, NEW s \in inside[p], SinkBegins(p, s) \/ SinkEnds(p, s)
      PROVE  inside'[q] \subseteq inside[q]
  BY <1>0, <1>6 DEF SinkBegins, SinkEnds
<1>7. QED
  BY <1>1, <1>2, <1>3, <1>4, <1>5, <1>6, RingFrame

\* The manager's place says how far it is and what the list may say.
LEMMA ProgressStep == TypeOK /\ Handshake /\ Members /\ Progress /\ [Next]_vars => Progress'
<1> SUFFICES ASSUME TypeOK, Handshake, Members, Progress, [Next]_vars PROVE Progress'
  OBVIOUS
<1>0. /\ TypeManager /\ NumPoints \in Nat \ {0} /\ cursor \in 1 .. NumPoints + 1
      /\ Points = 1 .. NumPoints
      /\ exists \subseteq Points /\ status \in [Points -> States]
      /\ running \in [Points -> BOOLEAN]
      /\ ingest \in [Points -> {"none", "top", "wait", "check", "load", "drain", "exited"}]
  BY TypeSplit, ConstantTypes DEF TypeManager, TypeIngest, Points
<1> USE DEF external, shared, worker, ManagerGoto
<1>1. ASSUME NEW request \in {"UPDATE_PENDING", "QUIT"}, Ask(request) PROVE Progress'
  BY <1>1 DEF Ask, Handshake, Progress, Destroying
<1>2. CASE ManagerWait \/ ManagerLook \/ ManagerLookAgain
  <2>1. /\ manager' \in {"look", "look again", "terminate", "clear", "wait"}
        /\ UNCHANGED <<list, cursor, exists, status>>
    BY <1>2 DEF ManagerWait, ManagerLook, ManagerLookAgain
  <2>2. cursor \in Points \/ cursor = NumPoints + 1
    BY <1>0
  <2>3. QED
    BY <2>1, <2>2 DEF Progress, Destroying
<1>3. ASSUME NEW p \in Points, BeginDestroy(p) PROVE Progress'
  <2>1. /\ cursor' = p /\ manager' \in {"quit", "join"} /\ list' \in {"UPDATE_PENDING", "QUIT"}
    BY <1>3 DEF BeginDestroy, Handshake
  <2>2. QED
    BY <2>1 DEF Progress, Destroying
<1>4. CASE SetQuit \/ WakeIngest \/ Join \/ ResetDetector \/ Unmap
  <2>1. /\ manager \in Destroying /\ list' \in {"UPDATE_PENDING", "QUIT"} /\ cursor' = cursor
    BY <1>4 DEF SetQuit, WakeIngest, Join, ResetDetector, Unmap, Destroying, Handshake
  <2>2. manager' \in Destroying \union {"terminate", "clear"}
    BY <1>4, Destructor DEF SetQuit, WakeIngest, Join, ResetDetector, Unmap, Destroying
  <2>3. QED
    BY <2>1, <2>2 DEF Progress, Destroying
<1>5. CASE Cleared
  <2>1. /\ cursor' = 1 /\ manager' = "construct" /\ exists' = {} /\ list' = "UPDATE_PENDING"
    BY <1>5 DEF Cleared, Handshake
  <2>2. 1 \in Points /\ 1 .. 1 - 1 = {} /\ \A p \in Points : ~(p < 1)
    BY <1>0
  <2>3. QED
    BY <2>1, <2>2 DEF Progress, Destroying
<1>6. CASE Construct
  <2>1. /\ manager = "construct" /\ manager' = "start" /\ cursor \in Points /\ cursor' = cursor
        /\ exists' = exists \union {cursor} /\ list' = "UPDATE_PENDING"
        /\ UNCHANGED <<running, ingest, status>>
    BY <1>6 DEF Construct, Handshake
  <2>2. exists = 1 .. cursor - 1
    BY <2>1 DEF Progress
  <2>3. exists' = 1 .. cursor /\ cursor \notin exists
    BY <1>0, <2>1, <2>2
  <2>4. ~running[cursor] /\ ingest[cursor] = "none"
    BY <2>1, <2>3 DEF Members
  <2>5. \A p \in Points : p < cursor => status[p] = "CONFIGURED"
    BY <2>1 DEF Progress
  <2>6. QED
    BY <2>1, <2>3, <2>4, <2>5 DEF Progress, Destroying
<1>7. CASE StartWorker
  <2>1. /\ manager = "start" /\ manager' = "mark" /\ list' = "UPDATE_PENDING"
        /\ UNCHANGED <<cursor, exists, status>>
    BY <1>7 DEF StartWorker, Handshake
  <2>2. QED
    BY <2>1 DEF Progress, Destroying
<1>8. CASE MarkAsConfigured
  <2>1. /\ manager = "mark" /\ manager' = "construct" /\ cursor' = cursor + 1
        /\ status' = [status EXCEPT ![cursor] = "CONFIGURED"]
        /\ exists' = exists /\ list' = "UPDATE_PENDING"
    BY <1>8 DEF MarkAsConfigured, NextPoint, Handshake
  <2>2. cursor \in Points /\ exists = 1 .. cursor
    BY <2>1 DEF Progress
  <2>3. exists' = 1 .. cursor' - 1 /\ (cursor' \in Points \/ cursor' = NumPoints + 1)
    BY <1>0, <2>1, <2>2
  <2>4. ASSUME NEW p \in Points, p < cursor' PROVE status'[p] = "CONFIGURED"
    <3>1. p = cursor \/ p < cursor
      BY <1>0, <2>1, <2>4
    <3>2. p < cursor => status[p] = "CONFIGURED"
      BY <2>1 DEF Progress
    <3>3. QED
      BY <1>0, <2>1, <3>1, <3>2
  <2>5. QED
    BY <2>1, <2>3, <2>4 DEF Progress, Destroying
<1>9. CASE ConfigurationFails
  <2>1. /\ cursor \in Points /\ cursor' = cursor /\ manager' = "failed"
        /\ status' = [status EXCEPT ![cursor] = "ERROR_DETECTED"] /\ list' = "UPDATE_PENDING"
    BY <1>9 DEF ConfigurationFails, MarkAsError, Handshake
  <2>2. status'[cursor] = "ERROR_DETECTED"
    BY <1>0, <2>1
  <2>3. QED
    BY <2>1, <2>2 DEF Progress, Destroying
<1>10. CASE Report
  <2>1. manager' = "ack" /\ UNCHANGED <<exists, status>>
    BY <1>10 DEF Report
  <2>2. CASE manager = "construct" /\ cursor \notin Points /\ list' = "CONFIGURED"
    <3>1. exists = 1 .. cursor - 1 /\ cursor = NumPoints + 1
      BY <2>2 DEF Progress
    <3>2. \A p \in Points : p \in exists /\ p < cursor
      BY <1>0, <3>1
    <3>3. \A p \in Points : status[p] = "CONFIGURED"
      BY <2>2, <3>2 DEF Progress
    <3>4. QED
      BY <2>1, <2>2, <3>2, <3>3 DEF Progress, Destroying
  <2>3. CASE manager = "failed" /\ list' = "ERROR_DETECTED"
    <3>1. cursor \in Points /\ status[cursor] = "ERROR_DETECTED"
      BY <2>3 DEF Progress, Destroying
    <3>2. QED
      BY <2>1, <2>3, <3>1 DEF Progress, Destroying
  <2>4. QED
    BY <1>10, <2>2, <2>3 DEF Report
<1>11. CASE Acknowledge \/ AcknowledgeQuit
  BY <1>11 DEF Acknowledge, AcknowledgeQuit, Progress, Destroying
<1>12. CASE ~(Manager \/ ConfigurationFails) /\ list' = list
  <2>1. UNCHANGED <<manager, cursor, exists, running, status>>
    BY <1>12, ManagerFrame
  <2>2. \A q \in Points : ingest[q] = "none" => ingest'[q] = "none"
    BY <1>12, NoThread, TypeSplit DEF Manager
  <2>3. manager = "start" => cursor \in Points
    BY DEF Progress
  <2>4. QED
    BY <1>12, <2>1, <2>2, <2>3 DEF Progress
<1>13. QED
  <2>1. CASE Manager \/ ConfigurationFails
    BY <2>1, <1>2, <1>3, <1>4, <1>5, <1>6, <1>7, <1>8, <1>9, <1>10, <1>11 DEF Manager, Destroy
  <2>2. CASE ~(Manager \/ ConfigurationFails)
    <3>1. list' = list \/ \E request \in {"UPDATE_PENDING", "QUIT"} : Ask(request)
      BY <2>2, HandshakeFrame DEF Manager, Trigger, Acknowledged
    <3>2. QED
      BY <2>2, <3>1, <1>1, <1>12
  <2>3. QED
    BY <2>1, <2>2

\* A worker's members are there as long as its destructor has not come to them.
LEMMA MembersStep == TypeOK /\ Progress /\ Members /\ [Next]_vars => Members'
<1> SUFFICES ASSUME TypeOK, Progress, Members, [Next]_vars PROVE Members'
  OBVIOUS
<1>0. TypeManager /\ TypeIngest /\ TypeRing
  BY TypeSplit
<1>00. /\ running \in [Points -> BOOLEAN] /\ detector \in [Points -> BOOLEAN]
       /\ mapped \in [Points -> BOOLEAN] /\ inside \in [Points -> SUBSET Longs]
       /\ ingest \in [Points -> {"none", "top", "wait", "check", "load", "drain", "exited"}]
  BY <1>0 DEF TypeManager, TypeIngest, TypeRing
<1> USE DEF external, shared, worker, ring, ManagerGoto
<1>1. CASE \/ ManagerWait \/ ManagerLook \/ ManagerLookAgain \/ Cleared \/ MarkAsConfigured
           \/ Report \/ Acknowledge \/ AcknowledgeQuit
  <2>1. /\ manager \notin Destroying /\ manager' \notin Destroying
        /\ UNCHANGED <<exists, running, detector, mapped, ingest, inside>>
    BY <1>1 DEF ManagerWait, ManagerLook, ManagerLookAgain, Cleared, MarkAsConfigured, NextPoint,
                Report, Acknowledge, AcknowledgeQuit, Destroying
  <2>2. QED
    BY <2>1 DEF Members, Destroying
<1>2. ASSUME NEW p \in Points, BeginDestroy(p) PROVE Members'
  <2>1. /\ manager \notin Destroying /\ manager' \in {"quit", "join"} /\ cursor' = p
        /\ p \in exists /\ running' = [running EXCEPT ![p] = FALSE]
        /\ UNCHANGED <<exists, detector, mapped, ingest, inside>>
    BY <1>2 DEF BeginDestroy, Destroying
  <2>2. QED
    BY <1>00, <2>1 DEF Members, Destroying
<1>3. CASE SetQuit \/ WakeIngest
  <2>1. /\ manager \in {"quit", "signal"} /\ manager' \in {"signal", "join"}
        /\ UNCHANGED <<cursor, exists, running, detector, mapped, ingest, inside>>
    BY <1>3, Destructor DEF SetQuit, WakeIngest
  <2>2. QED
    BY <2>1 DEF Members, Destroying
<1>4. CASE Join
  <2>1. /\ manager = "join" /\ manager' = "reset" /\ ingest' = [ingest EXCEPT ![cursor] = "none"]
        /\ UNCHANGED <<cursor, exists, running, detector, mapped, inside>>
    BY <1>4, Destructor DEF Join
  <2>2. QED
    BY <1>00, <2>1 DEF Members, Destroying
<1>5. CASE ResetDetector
  <2>1. /\ manager = "reset" /\ manager' = "unmap"
        /\ detector' = [detector EXCEPT ![cursor] = FALSE]
        /\ inside' = [inside EXCEPT ![cursor] = {}]
        /\ UNCHANGED <<cursor, exists, running, mapped, ingest>>
    BY <1>5, Destructor DEF ResetDetector
  <2>2. QED
    BY <1>00, <2>1 DEF Members, Destroying
<1>6. CASE Unmap
  <2>1. /\ manager = "unmap" /\ manager' \in {"terminate", "clear"}
        /\ mapped' = [mapped EXCEPT ![cursor] = FALSE] /\ exists' = exists \ {cursor}
        /\ UNCHANGED <<cursor, running, detector, ingest, inside>>
    BY <1>6, Destructor DEF Unmap
  <2>2. QED
    BY <1>00, <2>1 DEF Members, Destroying
<1>7. CASE Construct
  <2>1. /\ manager = "construct" /\ manager' = "start"
        /\ detector' = [detector EXCEPT ![cursor] = TRUE]
        /\ mapped' = [mapped EXCEPT ![cursor] = TRUE] /\ exists' = exists \union {cursor}
        /\ UNCHANGED <<cursor, running, ingest, inside>>
    BY <1>7 DEF Construct
  <2>2. QED
    BY <1>00, <2>1 DEF Members, Destroying
<1>8. CASE StartWorker
  <2>1. /\ manager = "start" /\ manager' = "mark" /\ cursor \in exists
        /\ running' = [running EXCEPT ![cursor] = TRUE]
        /\ ingest' = [ingest EXCEPT ![cursor] = "top"]
        /\ UNCHANGED <<cursor, exists, detector, mapped, inside>>
    <3>1. manager = "start" => cursor \in Points /\ exists = 1 .. cursor
      BY DEF Progress
    <3>2. QED
      BY <1>8, <3>1, ConstantTypes DEF StartWorker, Points
  <2>2. QED
    BY <1>00, <2>1 DEF Members, Destroying
<1>9. CASE ConfigurationFails
  <2>1. /\ manager \in {"construct", "start"} /\ manager' = "failed"
        /\ running' = IF manager = "start" THEN [running EXCEPT ![cursor] = TRUE] ELSE running
        /\ UNCHANGED <<cursor, exists, detector, mapped, ingest, inside>>
    BY <1>9 DEF ConfigurationFails
  <2>2. manager = "start" => cursor \in exists
    <3>1. manager = "start" => cursor \in Points /\ exists = 1 .. cursor
      BY DEF Progress
    <3>2. QED
      BY <3>1, ConstantTypes DEF Points
  <2>3. QED
    BY <1>00, <2>1, <2>2 DEF Members, Destroying
<1>10. CASE ~(Manager \/ ConfigurationFails)
  <2>1. UNCHANGED <<manager, cursor, exists, running, detector, mapped>>
    BY <1>10, ManagerFrame
  <2>2. \A q \in Points : ingest[q] = "none" => ingest'[q] = "none"
    BY <1>0, <1>10, NoThread DEF Manager
  <2>3. ASSUME NEW q \in Points, ~detector[q] PROVE inside'[q] = {}
    <3>1. inside[q] = {} /\ ingest[q] = "none"
      BY <2>3 DEF Members
    <3>2. ~IngestPush(q)
      BY <3>1 DEF IngestPush
    <3>3. QED
      BY <1>0, <3>1, <3>2, NotPushed
  <2>4. QED
    BY <2>1, <2>2, <2>3 DEF Members
<1>11. QED
  BY <1>1, <1>2, <1>3, <1>4, <1>5, <1>6, <1>7, <1>8, <1>9, <1>10 DEF Manager, Destroy

--------------------------------------------------------------------------------

\* A permit is taken for a slot nobody waits for, so the ring bounds what is awaited.
LEMMA WindowStep == TypeOK /\ Window /\ [Next]_vars => Window'
<1> SUFFICES ASSUME TypeOK, Window, [Next]_vars PROVE Window'
  OBVIOUS
<1>0. /\ published \in [Points -> Nat] /\ awaited \in [Points -> SUBSET Nat]
      /\ RingSlots \in Nat \ {0}
  BY TypeSplit, ConstantTypes DEF TypeProducer
<1>1. ASSUME NEW p \in Points, Produce(p) PROVE Window'
  <2>1. /\ published' = [published EXCEPT ![p] = published[p] + 1]
        /\ awaited' = [awaited EXCEPT ![p] = awaited[p] \union {published[p]}]
        /\ \A s \in awaited[p] : s % RingSlots # published[p] % RingSlots
    BY <1>1 DEF Produce, InSlot
  <2>2. SUFFICES ASSUME NEW q \in Points, NEW s \in awaited'[q]
                 PROVE  published'[q] <= s + RingSlots
    BY DEF Window
  <2>3. CASE q # p
    BY <1>0, <2>1, <2>3 DEF Window
  <2>4. CASE q = p
    <3>1. published[p] \in Nat /\ published'[p] = published[p] + 1
      BY <1>0, <2>1
    <3>2. CASE s = published[p]
      BY <1>0, <2>4, <3>1, <3>2
    <3>3. CASE s \in awaited[p]
      <4>1. published[p] <= s + RingSlots /\ s \in Nat
        BY <1>0, <3>3 DEF Window
      <4>2. published[p] # s + RingSlots
        <5>1. SUFFICES ASSUME published[p] = s + RingSlots PROVE FALSE
          OBVIOUS
        <5>2. published[p] - RingSlots = s
          BY <1>0, <4>1, <5>1
        <5>3. (published[p] - RingSlots) % RingSlots = published[p] % RingSlots
          <6>1. published[p] \in Int /\ RingSlots \in Nat \ {0}
            BY <1>0
          <6>2. QED
            BY ONLY <6>1, BackOne
        <5>4. QED
          BY <2>1, <3>3, <5>2, <5>3
      <4>3. QED
        BY <1>0, <2>4, <3>1, <4>1, <4>2
    <3>4. QED
      BY <1>0, <2>1, <2>4, <3>2, <3>3
  <2>5. QED
    BY <2>3, <2>4
<1>2. ASSUME NEW p \in Points, NEW s \in inside[p], SinkEnds(p, s) PROVE Window'
  <2>1. awaited' = [awaited EXCEPT ![p] = awaited[p] \ {s}] /\ published' = published
    BY <1>2 DEF SinkEnds
  <2>2. \A q \in Points : awaited'[q] \subseteq awaited[q]
    BY <1>0, <2>1
  <2>3. QED
    BY <2>1, <2>2 DEF Window
<1>3. CASE UNCHANGED producer
  BY <1>3 DEF producer, Window
<1>4. QED
  BY <1>1, <1>2, <1>3, ProducerFrame

\* Where the producer stands once publishSeq has wrapped: less than a ring
\* beyond the batch that blocks it.
LEMMA BlockedAt ==
    ASSUME TypeOK, Window, NEW p \in Points, Blocked(p)
    PROVE  \E d \in 1 .. RingSlots :
              Long(published[p]) = d - 1 - Half /\ published[p] >= Half - 1 + d
<1>0. /\ published[p] \in Nat /\ awaited[p] \in SUBSET Nat /\ awaited[p] \subseteq 0 .. published[p] - 1
      /\ RingSlots \in Nat \ {0} /\ RingSlots < Half /\ Half \in Nat \ {0}
  BY TypeSplit, ConstantTypes DEF TypeProducer
<1>1. PICK s \in awaited[p] : Long(s) = Half - 1
  BY DEF Blocked
<1> DEFINE d == published[p] - s
<1>2. s \in Nat /\ d \in 1 .. RingSlots /\ published[p] = s + d
  BY <1>0 DEF Window
<1>3. Half - 1 <= s
  BY <1>1, <1>2, LongBehind
<1> HIDE DEF d
<1>4. Long(s + d) = d - 1 - Half
  <2>1. s \in Int /\ d \in Nat /\ d >= 1 /\ d <= Half
    BY <1>0, <1>2
  <2>2. QED
    BY ONLY <1>1, <2>1, LongNext
<1>5. published[p] >= Half - 1 + d
  BY <1>0, <1>2, <1>3
<1>6. QED
  BY <1>2, <1>4, <1>5

\* Where a drain begins: at the counter, or where the ring's window begins,
\* with every batch before it given up.
LEMMA SkipIs ==
    ASSUME TypeOK, Window, Counters, NEW p \in Points
    PROVE  \/ Skip(p) = consumedSeq[p]
           \/ /\ Skip(p) \in Nat /\ Skip(p) <= published[p] - RingSlots
              /\ Skip(p) <= Long(published[p]) \/ Blocked(p)
<1> DEFINE c == consumedSeq[p]
           L == Long(published[p])
<1>0. /\ published[p] \in Nat /\ c \in - Half .. Half - 1 /\ c >= 0
      /\ RingSlots \in Nat \ {0} /\ RingSlots < Half /\ Half \in Nat \ {0}
      /\ L \in - Half .. Half - 1 /\ L <= published[p]
      /\ c > 0 => c <= L \/ Blocked(p)
  BY TypeSplit, ConstantTypes, LongBehind DEF TypeProducer, TypeRing, Counters, Follows
<1>1. Skip(p) = IF Long(L - c) > RingSlots THEN Long(L - RingSlots) ELSE c
  BY DEF Skip, publishSeq
<1> HIDE DEF c, L
<1>2. CASE ~(Long(L - c) > RingSlots)
  BY <1>1, <1>2 DEF c
<1>3. CASE Long(L - c) > RingSlots /\ (c = 0 \/ c <= L)
  <2>1. L - c \in - Half .. Half - 1
    BY <1>0, <1>3
  <2>2. L - c > RingSlots
    BY <1>3, <2>1, LongNear
  <2>3. L - RingSlots \in 0 .. Half - 1
    BY <1>0, <2>2
  <2>4. Long(L - RingSlots) = L - RingSlots
    BY <1>0, <2>3, LongNear
  <2>5. Skip(p) \in Nat /\ Skip(p) <= published[p] - RingSlots /\ Skip(p) <= L
    BY <1>0, <1>1, <1>3, <2>3, <2>4
  <2>6. QED
    BY <2>5 DEF L
<1>4. CASE Long(L - c) > RingSlots /\ c > 0 /\ Blocked(p)
  <2>1. PICK d \in 1 .. RingSlots : L = d - 1 - Half /\ published[p] >= Half - 1 + d
    BY <1>4, BlockedAt DEF L
  <2>2. L - RingSlots \in - (3 * Half) .. - Half - 1
    BY <1>0, <2>1
  <2>3. Long(L - RingSlots) = L - RingSlots + 2 * Half
    BY <1>0, <2>2, LongNear
  <2>4. Skip(p) = Half + d - 1 - RingSlots
    BY <1>0, <1>1, <1>4, <2>1, <2>3
  <2>5. QED
    BY <1>0, <1>4, <2>1, <2>4
<1>5. QED
  BY <1>0, <1>2, <1>3, <1>4

\* publishSeq counts on: whatever followed it still does, until it wraps, and
\* then the permit of the last batch before the wrap is not back.
LEMMA FollowsOn ==
    ASSUME TypeOK, Window, Window', NEW p \in Points, Produce(p), NEW n \in Int, Follows(p, n)
    PROVE  Follows(p, n)'
<1> DEFINE P == published[p]
           L == Long(P)
<1>0. /\ P \in Nat /\ RingSlots \in Nat \ {0} /\ RingSlots < Half /\ Half \in Nat \ {0}
      /\ L \in - Half .. Half - 1
      /\ published \in [Points -> Nat] /\ awaited \in [Points -> SUBSET Nat]
  <2>1. published \in [Points -> Nat] /\ awaited \in [Points -> SUBSET Nat]
    BY TypeSplit DEF TypeProducer
  <2>2. P \in Int
    BY <2>1
  <2>3. L \in Longs
    BY <2>2, ConstantTypes
  <2>4. QED
    BY <2>1, <2>3, ConstantTypes
<1>1. published'[p] = P + 1 /\ awaited'[p] = awaited[p] \union {P}
  BY <1>0 DEF Produce
<1>2. n <= P /\ (n > 0 => n <= L \/ Blocked(p))
  BY DEF Follows
<1> HIDE DEF P, L
<1>3. n <= P + 1
  BY <1>0, <1>2
<1>4. ASSUME n > 0, n <= L PROVE n <= Long(P + 1) \/ (Long(P + 1) < 0 /\ L = Half - 1)
  <2>1. CASE L < Half - 1
    <3>1. P \in Int /\ 1 \in Nat /\ Long(P) + 1 <= Half - 1
      BY <1>0, <2>1 DEF L
    <3>2. Long(P + 1) = L + 1
      BY ONLY <3>1, LongNext DEF L
    <3>3. QED
      BY <1>0, <1>4, <3>2
  <2>2. CASE L = Half - 1
    <3>1. P \in Int /\ 1 \in Nat /\ 1 >= 1 /\ 1 <= Half /\ Long(P) = Half - 1
      BY <1>0, <2>2 DEF L
    <3>2. Long(P + 1) = 1 - 1 - Half
      BY ONLY <3>1, LongNext
    <3>3. QED
      BY <1>0, <2>2, <3>2
  <2>3. QED
    BY <1>0, <2>1, <2>2
<1>5. ASSUME Blocked(p) PROVE Blocked(p)'
  <2>1. PICK s \in awaited[p] : Long(s) = Half - 1
    BY <1>5 DEF Blocked
  <2>2. s \in awaited'[p] /\ s \in Nat
    BY <1>0, <1>1, <2>1
  <2>3. P + 1 <= s + RingSlots
    BY <1>1, <2>2 DEF Window
  <2>4. s <= P - 1
    BY <1>0, TypeSplit DEF TypeProducer, P
  <2> DEFINE d == P + 1 - s
  <2>5. s \in Int /\ d \in Nat /\ d >= 1 /\ d <= Half /\ d <= RingSlots /\ P + 1 = s + d
    BY <1>0, <2>2, <2>3, <2>4
  <2> HIDE DEF d
  <2>6. Long(s + d) = d - 1 - Half
    BY ONLY <2>1, <2>5, LongNext
  <2>7. Long(P + 1) < 0
    BY <1>0, <2>5, <2>6
  <2>8. QED
    BY <1>1, <2>1, <2>2, <2>7 DEF Blocked
<1>6. ASSUME n > 0 PROVE n <= Long(P + 1) \/ Blocked(p)'
  <2>1. CASE Blocked(p)
    BY <1>5, <2>1
  <2>2. CASE n <= L /\ Long(P + 1) < 0 /\ L = Half - 1
    BY <1>1, <2>2 DEF Blocked, L
  <2>3. QED
    BY <1>2, <1>4, <1>6, <2>1, <2>2
<1>7. QED
  BY <1>1, <1>3, <1>6 DEF Follows

\* The last batch before the wrap is never in a detector, so its permit stays away.
LEMMA StaysBlocked ==
    ASSUME TypeOK, Counters, NEW p \in Points, NEW s \in inside[p], SinkEnds(p, s),
           NEW q \in Points, Blocked(q)
    PROVE  Blocked(q)'
<1>0. /\ awaited \in [Points -> SUBSET Nat] /\ inside[p] \subseteq - Half .. Half - 1
      /\ Half \in Nat \ {0}
  BY TypeSplit, ConstantTypes DEF TypeProducer, TypeRing
<1>1. awaited' = [awaited EXCEPT ![p] = awaited[p] \ {s}] /\ published' = published
  BY DEF SinkEnds
<1>2. PICK t \in awaited[q] : Long(t) = Half - 1
  BY DEF Blocked
<1>3. s \in - Half .. Half - 1 /\ s < Half - 1 /\ s \in Int
  BY <1>0 DEF Counters
<1>4. Long(s) = s
  BY <1>0, <1>3, LongNear
<1>5. t # s
  BY <1>0, <1>2, <1>3, <1>4
<1>6. t \in awaited'[q]
  BY <1>0, <1>1, <1>2, <1>5
<1>7. QED
  BY <1>1, <1>2, <1>6 DEF Blocked

\* The counters stay between 0 and publishSeq, and what is pushed is published.
LEMMA CountersStep ==
    TypeOK /\ Window /\ Window' /\ Counters /\ [Next]_vars => Counters'
<1> SUFFICES ASSUME TypeOK, Window, Window', Counters, [Next]_vars PROVE Counters'
  OBVIOUS
<1>0. /\ published \in [Points -> Nat] /\ awaited \in [Points -> SUBSET Nat]
      /\ consumedSeq \in [Points -> Longs] /\ drainTo \in [Points -> Longs]
      /\ inside \in [Points -> SUBSET Longs] /\ Longs = - Half .. Half - 1 /\ Half \in Nat \ {0}
      /\ RingSlots \in Nat \ {0}
  BY TypeSplit, ConstantTypes DEF TypeProducer, TypeRing
<1>1. ASSUME NEW p \in Points, Produce(p) PROVE Counters'
  <2>1. /\ published' = [published EXCEPT ![p] = published[p] + 1]
        /\ \A q \in Points : q # p => awaited'[q] = awaited[q]
        /\ UNCHANGED <<consumedSeq, drainTo, inside>>
    BY <1>0, <1>1 DEF Produce, worker, ring
  <2>2. ASSUME NEW q \in Points, NEW n \in Int, Follows(q, n) PROVE Follows(q, n)'
    <3>1. CASE q = p
      BY <1>1, <2>2, <3>1, FollowsOn
    <3>2. CASE q # p
      <4>1. published'[q] = published[q] /\ awaited'[q] = awaited[q]
        BY <1>0, <2>1, <3>2
      <4>2. QED
        BY <2>2, <4>1 DEF Follows, Blocked
    <3>3. QED
      BY <3>1, <3>2
  <2>3. \A q \in Points : published[q] <= published'[q] /\ published'[q] \in Nat
    BY <1>0, <2>1
  <2>4. ASSUME NEW q \in Points
        PROVE  /\ consumedSeq'[q] >= 0 /\ Follows(q, consumedSeq[q])' /\ Follows(q, drainTo[q])'
               /\ \A s \in inside'[q] : s >= 0 /\ s < published'[q] /\ s < Half - 1
    <3>1. /\ consumedSeq[q] \in Int /\ drainTo[q] \in Int /\ consumedSeq[q] >= 0
          /\ Follows(q, consumedSeq[q]) /\ Follows(q, drainTo[q])
          /\ \A s \in inside[q] : s \in Int /\ s >= 0 /\ s < published[q] /\ s < Half - 1
      BY <1>0 DEF Counters
    <3>2. Follows(q, consumedSeq[q])' /\ Follows(q, drainTo[q])'
      BY <2>1, <2>2, <3>1 DEF Follows, Blocked
    <3>3. \A s \in inside'[q] : s >= 0 /\ s < published'[q] /\ s < Half - 1
      BY <1>0, <2>1, <2>3, <3>1
    <3>4. QED
      BY <2>1, <3>1, <3>2, <3>3
  <2>5. QED
    BY <2>4 DEF Counters
<1>2. ASSUME NEW p \in Points, NEW s \in inside[p], SinkEnds(p, s) PROVE Counters'
  <2>1. /\ UNCHANGED <<consumedSeq, drainTo, published>>
        /\ inside' = [inside EXCEPT ![p] = inside[p] \ {s}]
    BY <1>2 DEF SinkEnds
  <2>2. \A q \in Points : Blocked(q) => Blocked(q)'
    BY <1>2, StaysBlocked
  <2>3. \A q \in Points : inside'[q] \subseteq inside[q]
    BY <1>0, <2>1
  <2>4. QED
    BY <2>1, <2>2, <2>3 DEF Counters, Follows
<1>3. CASE UNCHANGED producer
  <2>1. UNCHANGED <<published, awaited>>
    BY <1>3 DEF producer
  <2>2. SUFFICES ASSUME NEW q \in Points
                 PROVE  /\ consumedSeq'[q] >= 0
                        /\ Follows(q, consumedSeq'[q]) /\ Follows(q, drainTo'[q])
                        /\ \A s \in inside'[q] : s >= 0 /\ s < published[q] /\ s < Half - 1
    BY <2>1 DEF Counters, Follows, Blocked
  <2>3. /\ consumedSeq[q] \in - Half .. Half - 1 /\ drainTo[q] \in - Half .. Half - 1
        /\ consumedSeq[q] >= 0 /\ published[q] \in Nat
        /\ Follows(q, consumedSeq[q]) /\ Follows(q, drainTo[q])
        /\ \A s \in inside[q] : s >= 0 /\ s < published[q] /\ s < Half - 1
    BY <1>0 DEF Counters
  <2>4. CASE StartWorker
    <3>1. UNCHANGED <<drainTo, inside>> /\ consumedSeq'[q] \in {0, consumedSeq[q]}
      BY <1>0, <2>4 DEF StartWorker, FirstSeq
    <3>2. Follows(q, 0)
      BY <2>3 DEF Follows
    <3>3. QED
      BY <2>3, <3>1, <3>2
  <2>5. CASE ResetDetector
    <3>1. UNCHANGED <<consumedSeq, drainTo>> /\ inside'[q] \subseteq inside[q]
      BY <1>0, <2>5 DEF ResetDetector
    <3>2. QED
      BY <2>3, <3>1
  <2>6. ASSUME NEW p \in Points, IngestLoad(p)
        PROVE  /\ consumedSeq'[q] >= 0
               /\ Follows(q, consumedSeq'[q]) /\ Follows(q, drainTo'[q])
               /\ \A s \in inside'[q] : s >= 0 /\ s < published[q] /\ s < Half - 1
    <3>1. inside' = inside /\ consumedSeq' = [consumedSeq EXCEPT ![p] = Skip(p)]
          /\ drainTo' = [drainTo EXCEPT ![p] = Long(published[p])]
      BY <2>6 DEF IngestLoad, publishSeq
    <3>2. CASE q # p
      BY <1>0, <2>3, <3>1, <3>2
    <3>3. CASE q = p
      <4>1. consumedSeq'[q] = Skip(q) /\ drainTo'[q] = Long(published[q])
        BY <1>0, <3>1, <3>3
      <4>2. Follows(q, Long(published[q]))
        <5>1. Long(published[q]) <= published[q] /\ Long(published[q]) \in Int
          BY <2>3, LongBehind
        <5>2. QED
          BY <5>1 DEF Follows
      <4>3. Skip(q) >= 0 /\ Follows(q, Skip(q))
        <5>1. CASE Skip(q) = consumedSeq[q]
          BY <2>3, <5>1
        <5>2. CASE /\ Skip(q) \in Nat /\ Skip(q) <= published[q] - RingSlots
                   /\ Skip(q) <= Long(published[q]) \/ Blocked(q)
          BY <1>0, <2>3, <5>2 DEF Follows
        <5>3. QED
          BY <5>1, <5>2, SkipIs
      <4>4. QED
        BY <2>3, <3>1, <4>1, <4>2, <4>3
    <3>4. QED
      BY <3>2, <3>3
  <2>7. ASSUME NEW p \in Points, IngestPush(p)
        PROVE  /\ consumedSeq'[q] >= 0
               /\ Follows(q, consumedSeq'[q]) /\ Follows(q, drainTo'[q])
               /\ \A s \in inside'[q] : s >= 0 /\ s < published[q] /\ s < Half - 1
    <3>1. /\ drainTo' = drainTo /\ consumedSeq[p] < drainTo[p]
          /\ inside' = [inside EXCEPT ![p] = inside[p] \union {consumedSeq[p]}]
          /\ consumedSeq' = [consumedSeq EXCEPT ![p] = Long(consumedSeq[p] + 1)]
      BY <2>7 DEF IngestPush, HasNext
    <3>2. CASE q # p
      BY <1>0, <2>3, <3>1, <3>2
    <3>3. CASE q = p
      <4> DEFINE c == consumedSeq[q]
                 d == drainTo[q]
      <4>1. /\ consumedSeq'[q] = Long(c + 1) /\ inside'[q] = inside[q] \union {c} /\ c < d
        BY <1>0, <3>1, <3>3
      <4>2. c \in Int /\ d \in Int /\ c >= 0 /\ c < d /\ d <= Half - 1 /\ Half \in Nat \ {0}
        BY <1>0, <2>3, <4>1
      <4>3. d <= published[q] /\ (d <= Long(published[q]) \/ Blocked(q))
        BY <2>3, <4>2 DEF Follows
      <4>4. Long(published[q]) \in Int /\ published[q] \in Int
        BY <2>3, LongBehind
      <4> HIDE DEF c, d
      <4>5. c + 1 \in Int /\ c + 1 \in - Half .. Half - 1 /\ c + 1 >= 0 /\ c + 1 <= d
        BY ONLY <4>2
      <4>6. Long(c + 1) = c + 1
        BY ONLY <4>5, LongNear
      <4>7. Follows(q, c + 1)
        BY <4>3, <4>4, <4>5, <4>2 DEF Follows
      <4>8. c >= 0 /\ c < published[q] /\ c < Half - 1
        BY <4>2, <4>3, <4>4
      <4>9. \A s \in inside'[q] : s >= 0 /\ s < published[q] /\ s < Half - 1
        BY <2>3, <4>1, <4>8
      <4>10. QED
        BY <2>3, <3>1, <4>1, <4>5, <4>6, <4>7, <4>9
    <3>4. QED
      BY <3>2, <3>3
  <2>8. ASSUME NEW p \in Points, NEW s \in inside[p], SinkBegins(p, s)
        PROVE  UNCHANGED <<consumedSeq, drainTo, inside>>
    BY <2>8 DEF SinkBegins
  <2>9. ASSUME NEW p \in Points, NEW s \in inside[p], SinkEnds(p, s)
        PROVE  /\ consumedSeq' = consumedSeq /\ drainTo' = drainTo /\ inside'[q] \subseteq inside[q]
    BY <1>0, <2>9 DEF SinkEnds
  <2>10. UNCHANGED ring => UNCHANGED <<consumedSeq, drainTo, inside>>
    BY DEF ring
  <2>11. QED
    BY <2>3, <2>4, <2>5, <2>6, <2>7, <2>8, <2>9, <2>10, RingFrame
<1>4. QED
  BY <1>1, <1>2, <1>3, ProducerFrame

\* A thread skips only to where the ring's window begins, and the permits of
\* the batches before it are back.
LEMMA PassedOverStep ==
    IInv /\ [Next]_vars => NothingPassedOver'
<1> SUFFICES ASSUME IInv, [Next]_vars, NEW q \in Points, ingest'[q] \notin {"none", "exited"},
                    NEW s \in awaited'[q], s < consumedSeq'[q]
             PROVE  s \in inside'[q]
  BY DEF NothingPassedOver
<1>0. /\ TypeOK /\ Members /\ Window /\ Counters /\ NothingPassedOver
      /\ published \in [Points -> Nat] /\ awaited \in [Points -> SUBSET Nat]
      /\ awaited[q] \subseteq 0 .. published[q] - 1
      /\ consumedSeq \in [Points -> Longs] /\ inside \in [Points -> SUBSET Longs]
      /\ Longs = - Half .. Half - 1 /\ Half \in Nat \ {0} /\ RingSlots \in Nat \ {0}
      /\ TypeIngest /\ TypeManager
  BY TypeSplit, ConstantTypes DEF IInv, TypeProducer, TypeRing
<1>1. CASE StartWorker
  <2>1. /\ UNCHANGED <<awaited, inside>> /\ consumedSeq' = [consumedSeq EXCEPT ![cursor] = 0]
        /\ \A p \in Points : p # cursor => ingest'[p] = ingest[p]
    BY <1>0, <1>1 DEF StartWorker, FirstSeq, external, producer, TypeIngest
  <2>2. CASE q = cursor
    BY <1>0, <2>1, <2>2
  <2>3. CASE q # cursor
    BY <1>0, <2>1, <2>3 DEF NothingPassedOver
  <2>4. QED
    BY <2>2, <2>3
<1>2. CASE ~StartWorker
  <2>1. ingest[q] \notin {"none", "exited"}
    BY <1>0, <1>2, NoThread
  <2>2. ASSUME s \in awaited[q], s < consumedSeq[q] PROVE s \in inside[q]
    BY <1>0, <2>1, <2>2 DEF NothingPassedOver
  <2>3. ASSUME NEW p \in Points, Produce(p) PROVE s \in inside'[q]
    <3>1. /\ UNCHANGED <<consumedSeq, inside>>
          /\ awaited' = [awaited EXCEPT ![p] = awaited[p] \union {published[p]}]
      BY <2>3 DEF Produce, worker, ring
    <3>2. s \in awaited[q] \/ s = published[q]
      BY <1>0, <3>1
    <3>3. consumedSeq[q] <= published[q]
      BY <1>0 DEF Counters, Follows
    <3>4. s \in awaited[q]
      BY <1>0, <3>1, <3>2, <3>3
    <3>5. QED
      BY <2>2, <3>1, <3>4
  <2>4. ASSUME NEW p \in Points, NEW t \in inside[p], SinkEnds(p, t) PROVE s \in inside'[q]
    <3>1. /\ consumedSeq' = consumedSeq /\ awaited' = [awaited EXCEPT ![p] = awaited[p] \ {t}]
          /\ inside' = [inside EXCEPT ![p] = inside[p] \ {t}]
      BY <2>4 DEF SinkEnds
    <3>2. s \in awaited[q] /\ (q = p => s # t)
      BY <1>0, <3>1
    <3>3. QED
      BY <1>0, <2>2, <3>1, <3>2
  <2>5. CASE UNCHANGED producer
    <3>1. s \in awaited[q]
      BY <2>5 DEF producer
    <3>2. CASE ResetDetector
      <4>1. q # cursor
        BY <1>0, <2>1, <3>2 DEF ResetDetector, Members
      <4>2. inside'[q] = inside[q] /\ consumedSeq' = consumedSeq
        BY <1>0, <3>2, <4>1 DEF ResetDetector
      <4>3. QED
        BY <2>2, <3>1, <4>2
    <3>3. ASSUME NEW p \in Points, IngestLoad(p) PROVE s \in inside'[q]
      <4>1. inside' = inside /\ consumedSeq'[q] = IF q = p THEN Skip(q) ELSE consumedSeq[q]
        BY <1>0, <3>3 DEF IngestLoad
      <4>2. CASE consumedSeq'[q] = consumedSeq[q]
        BY <2>2, <3>1, <4>1, <4>2
      <4>3. CASE consumedSeq'[q] = Skip(q) /\ Skip(q) \in Nat /\ Skip(q) <= published[q] - RingSlots
        <5>1. published[q] <= s + RingSlots /\ s \in Nat /\ published[q] \in Nat
          BY <1>0, <3>1 DEF Window
        <5>2. QED
          BY <1>0, <4>3, <5>1
      <4>4. QED
        BY <1>0, <4>1, <4>2, <4>3, SkipIs
    <3>4. ASSUME NEW p \in Points, IngestPush(p) PROVE s \in inside'[q]
      <4>1. /\ consumedSeq[p] < drainTo[p]
            /\ inside' = [inside EXCEPT ![p] = inside[p] \union {consumedSeq[p]}]
            /\ consumedSeq' = [consumedSeq EXCEPT ![p] = Long(consumedSeq[p] + 1)]
        BY <3>4 DEF IngestPush, HasNext
      <4>2. CASE q # p
        BY <1>0, <2>2, <3>1, <4>1, <4>2
      <4>3. CASE q = p
        <5> DEFINE c == consumedSeq[q]
        <5>1. consumedSeq'[q] = Long(c + 1) /\ inside'[q] = inside[q] \union {c}
          BY <1>0, <4>1, <4>3
        <5>2. c \in 0 .. Half - 1 /\ c < drainTo[q] /\ drainTo[q] \in - Half .. Half - 1
          BY <1>0, <4>1, <4>3, TypeSplit DEF TypeRing, Counters
        <5> HIDE DEF c
        <5>3. c \in Int /\ c + 1 \in Int /\ c + 1 \in - Half .. Half - 1 /\ s \in Nat
          BY <1>0, <3>1, <5>2
        <5>4. Long(c + 1) = c + 1
          BY ONLY <5>3, LongNear
        <5>5. s < c \/ s = c
          BY <5>1, <5>3, <5>4
        <5>6. QED
          BY <2>2, <3>1, <5>1, <5>5 DEF c
      <4>4. QED
        BY <4>2, <4>3
    <3>5. CASE UNCHANGED ring \/ \E p \in Points : \E t \in inside[p] : SinkBegins(p, t)
      <4>1. UNCHANGED <<consumedSeq, inside>>
        BY <3>5 DEF ring, SinkBegins
      <4>2. QED
        BY <2>2, <3>1, <4>1
    <3>6. QED
      BY <1>2, <2>4, <3>2, <3>3, <3>4, <3>5, RingFrame
  <2>6. QED
    BY <2>3, <2>4, <2>5, ProducerFrame
<1>3. QED
  BY <1>1, <1>2

--------------------------------------------------------------------------------

\* The program starts with the counters of the threads at 0, wherever publishSeq is.
LEMMA InitInv == Init => IInv
<1> SUFFICES ASSUME Init PROVE IInv
  OBVIOUS
<1> USE DEF Init
<1>1. PICK n \in Seen : published = [p \in Points |-> IF p \in Fed THEN n ELSE 0]
  OBVIOUS
<1>2. n \in Nat
  BY LifecycleAssumption
<1>3. TypeOK
  <2>1. TypeHandshake /\ TypeManager
    <3>1. requests \in 0 .. MaxRequests /\ faults \in 0 .. MaxFaults /\ cursor \in 1 .. NumPoints + 1
      BY ConstantTypes
    <3>2. /\ running \in [Points -> BOOLEAN] /\ detector \in [Points -> BOOLEAN]
          /\ mapped \in [Points -> BOOLEAN] /\ status \in [Points -> States]
      BY DEF States
    <3>3. QED
      BY <3>1, <3>2 DEF TypeHandshake, TypeManager, Places, States
  <2>2. TypeIngest
    BY DEF TypeIngest
  <2>3. TypeRing
    BY ConstantTypes DEF TypeRing
  <2>4. TypeProducer
    BY <1>1, <1>2, ConstantTypes DEF TypeProducer
  <2>5. QED
    BY <2>1, <2>2, <2>3, <2>4, TypeSplit
<1>4. Handshake
  BY DEF Handshake, Destroying
<1>5. Members
  BY DEF Members, Destroying
<1>6. Progress
  BY DEF Progress, Destroying
<1>7. Window /\ NothingPassedOver
  BY DEF Window, NothingPassedOver
<1>8. Counters
  <2>1. \A p \in Points : published[p] \in Nat
    BY <1>1, <1>2
  <2>2. \A p \in Points : Follows(p, 0)
    BY <2>1 DEF Follows
  <2>3. QED
    BY <2>2 DEF Counters
<1>9. QED
  BY <1>3, <1>4, <1>5, <1>6, <1>7, <1>8 DEF IInv

\* Every reachable state satisfies the inductive invariant: the handshake, the
\* life of the workers and the counters of the rings, together.
THEOREM Invariance == Spec => []IInv
<1>1. IInv /\ [Next]_vars => IInv'
  <2> SUFFICES ASSUME IInv, [Next]_vars PROVE IInv'
    OBVIOUS
  <2>1. TypeOK' /\ Handshake' /\ Members' /\ Progress' /\ Window'
    BY TypeStep, HandshakeStep, MembersStep, ProgressStep, WindowStep DEF IInv
  <2>2. Counters' /\ NothingPassedOver'
    BY <2>1, CountersStep, PassedOverStep DEF IInv
  <2>3. QED
    BY <2>1, <2>2 DEF IInv
<1>2. QED
  BY <1>1, InitInv, PTL DEF Spec

\* A worker's ingest thread and the sink of its detector find the detector and
\* the mapping there: ~WorkerGPU stops, joins, resets and unmaps in this order,
\* and a constructor that throws leaves no thread.
THEOREM MembersOutliveThreads == Spec => []NoUseAfterFree
<1>1. IInv => NoUseAfterFree
  <2> SUFFICES ASSUME IInv, NEW p \in Points
               PROVE  /\ ingest[p] \in {"top", "wait", "check", "load", "drain"} =>
                            detector[p] /\ mapped[p] /\ p \in exists
                      /\ sink[p] # {} => detector[p] /\ mapped[p]
    BY DEF NoUseAfterFree
  <2>1. Members /\ sink[p] \subseteq inside[p]
    BY TypeSplit DEF IInv, TypeRing
  <2>2. QED
    BY <2>1 DEF Members
<1>2. QED
  BY <1>1, Invariance, PTL

\* What the controller reads after an acknowledgement is what the manager has
\* reached: every point served, or one marked, or nothing left.
THEOREM AcknowledgementsTrue == Spec => []AcknowledgedState
<1>1. IInv => AcknowledgedState
  <2> SUFFICES ASSUME IInv, ack
               PROVE  \/ list = "CONFIGURED" /\ \A p \in Points : p \in exists /\ status[p] = "CONFIGURED"
                      \/ list = "ERROR_DETECTED" /\ \E p \in Points : status[p] = "ERROR_DETECTED"
                      \/ list = "QUIT" /\ exists = {} /\ \A p \in Points : ~mapped[p] /\ ingest[p] = "none"
    BY DEF AcknowledgedState
  <2>1. manager \in {"wait", "gone"}
    BY DEF IInv, Handshake
  <2>2. CASE manager = "wait"
    BY <2>2 DEF IInv, Handshake, Progress
  <2>3. CASE manager = "gone"
    BY <2>3 DEF IInv, Handshake, Progress, Members
  <2>4. QED
    BY <2>1, <2>2, <2>3
<1>2. QED
  BY <1>1, Invariance, PTL

\* No restart, skip or wrap of publishSeq makes an ingest thread pass over a
\* batch whose permit is still out.
THEOREM AwaitedBatchesKept == Spec => []NothingPassedOver
<1>1. IInv => NothingPassedOver
  BY DEF IInv
<1>2. QED
  BY <1>1, Invariance, PTL

\* What is in a detector has been published under its non-negative number, and
\* stale images are taken for answered batches only.
THEOREM StaleImagesHarmless == Spec => []StaleOnlyAnswered
<1>1. IInv => StaleOnlyAnswered
  <2> SUFFICES ASSUME IInv, NEW p \in Points, NEW s \in inside[p]
               PROVE  s \in 0 .. published[p] - 1 /\ (Overwritten(p, s) => s \notin awaited[p])
    BY DEF StaleOnlyAnswered, IInv
  <2>1. /\ inside[p] \subseteq - Half .. Half - 1 /\ published[p] \in Nat
        /\ RingSlots \in Nat \ {0} /\ Half \in Nat \ {0}
    BY TypeSplit, ConstantTypes DEF IInv, TypeRing, TypeProducer
  <2>2. s \in Int /\ s >= 0 /\ s < published[p]
    BY <2>1 DEF IInv, Counters
  <2>3. s \in awaited[p] => published[p] <= s + RingSlots
    BY DEF IInv, Window
  <2>4. QED
    BY <2>1, <2>2, <2>3 DEF Overwritten
<1>2. QED
  BY <1>1, Invariance, PTL
================================================================================
