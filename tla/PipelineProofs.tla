---------------------------- MODULE PipelineProofs ----------------------------
(***************************************************************************)
(* Proofs about Pipeline for any number of threads, buffers and batches and *)
(* any capacities.                                                          *)
(*                                                                          *)
(* Every batch inside is in one place only: at one position of one queue or *)
(* with one thread (Apart).  The place says whether the batch has a staging *)
(* buffer (Contents); a buffer is free, with one batch, or in the context   *)
(* of a callback, and with both of the last two only while the session's    *)
(* thread runs the batch (Ownership).  A copy that is under way for a batch *)
(* has a context to keep its buffer, or the batch while the context is      *)
(* still to be made (Copying).  Numbers are given out in order and every batch that  *)
(* gets lost has been counted (Ledger).  The destructor's steps come in     *)
(* their order (Teardown), and what it has joined or drained stays so.      *)
(***************************************************************************)
EXTENDS Pipeline, FiniteSetTheorems, SequenceTheorems, TLAPS

Stations ==
    {"top", "pop", "acquire", "submit", "context", "run", "sync", "push", "render", "exited"}

\* What may be on a stream.
Ops == {"copy", "orphan", "callback"} \X Buffers

TypeQueues ==
    /\ rawQ \in Seq(Batches) /\ Len(rawQ) <= RawCap
    /\ prepQ \in Seq(Batches) /\ Len(prepQ) <= PrepCap
    /\ infQ \in Seq(Batches) /\ Len(infQ) <= InfCap

TypeThreads ==
    /\ pc \in [Workers -> Stations]
    /\ task \in [Workers -> Batches \union {None}]

TypePools ==
    /\ buf \in [Batches -> Buffers \union {None}]
    /\ pinnedFree \subseteq Buffers
    /\ stream \in [InfWorkers -> Seq(Ops)]
    /\ leaked \in [InfWorkers -> SUBSET Buffers]

TypeOverlays ==
    /\ overlay \in [PostWorkers -> Overlays \union {None}]
    /\ overlayFree \subseteq Overlays

TypeLedger ==
    /\ accepted \subseteq Batches /\ refused \subseteq Batches
    /\ published \subseteq Batches /\ dropped \in Nat

\* Where each kind of thread can be, and where it has a batch.
Control ==
    /\ \A w \in Workers : pc[w] \in {"top", "pop", "exited"} => task[w] = None
    /\ \A w \in Workers : pc[w] \in {"acquire", "submit", "context", "push", "render"} => task[w] # None
    /\ \A w \in PrepWorkers : pc[w] \in {"top", "pop", "acquire", "push", "exited"}
    /\ \A w \in InfWorkers :
          pc[w] \in {"top", "pop", "submit", "context", "run", "sync", "push", "exited"}
    /\ \A w \in PostWorkers : pc[w] \in {"top", "pop", "acquire", "render", "exited"}
    /\ \A w \in PostWorkers : overlay[w] # None => pc[w] = "render"
    /\ Overlays \subseteq overlayFree \union Range(overlay)

Tasks == Range(task) \ {None}

\* Every batch is in one place.
Apart ==
    /\ IsInjective(rawQ) /\ IsInjective(prepQ) /\ IsInjective(infQ)
    /\ Range(rawQ) \intersect Range(prepQ) = {}
    /\ Range(rawQ) \intersect Range(infQ) = {}
    /\ Range(prepQ) \intersect Range(infQ) = {}
    /\ Tasks \intersect (Range(rawQ) \union Range(prepQ) \union Range(infQ)) = {}
    /\ \A v, w \in Workers : task[v] = task[w] /\ task[v] # None => v = w

\* Which batches have a staging buffer.
Contents ==
    /\ \A s \in Range(rawQ) \union Range(infQ) : buf[s] = None
    /\ \A s \in Range(prepQ) : buf[s] # None
    /\ \A w \in PrepWorkers : /\ pc[w] = "acquire" => buf[task[w]] = None
                              /\ pc[w] = "push" => buf[task[w]] # None
    /\ \A w \in InfWorkers : /\ pc[w] \in {"submit", "context"} => buf[task[w]] # None
                             /\ pc[w] = "push" => buf[task[w]] = None
    /\ \A w \in PostWorkers : task[w] # None => buf[task[w]] = None
    /\ \A s \in Batches : s \notin InFlight => buf[s] = None

\* Who has a staging buffer.
Ownership ==
    /\ pinnedFree \intersect Held = {}
    /\ Buffers \subseteq pinnedFree \union Held
    /\ NoBufferShared
    /\ \A w \in InfWorkers : \A b \in Contexts(w) : \A s \in Batches :
          buf[s] = b => task[w] = s /\ pc[w] \in {"run", "sync"}

\* Who keeps the buffer of a copy that is under way.
Copying ==
    \A w \in InfWorkers :
        /\ pc[w] = "context" /\ stream[w] # <<>> => stream[w][Len(stream[w])] = Copy(buf[task[w]])
        /\ \A i \in 1 .. Len(stream[w]) : \A b \in Buffers : stream[w][i] = Copy(b) =>
              \/ pc[w] = "context" /\ i = Len(stream[w])
              \/ b \in leaked[w]
              \/ \E j \in i + 1 .. Len(stream[w]) : stream[w][j] = Callback(b)

\* Numbers are given out one after the other; what is inside has been accepted.
Ledger ==
    /\ \E n \in 0 .. MaxSeq : accepted \union refused = 0 .. n - 1
    /\ InFlight \union published \subseteq accepted
    /\ InFlight \intersect published = {}
    /\ accepted \intersect refused = {}

\* What the destructor has done.
TakenDown(n) == {Order[i] : i \in 1 .. n}

Teardown ==
    /\ \E n \in 0 .. 10 : down = TakenDown(n)
    /\ Stopped("threads") => \A w \in Workers : pc[w] = "exited"
    /\ Stopped("sessions_") => \A w \in InfWorkers : stream[w] = <<>>
    /\ Stopped("queues") => rawQ = <<>> /\ prepQ = <<>> /\ infQ = <<>>

Types == TypeQueues /\ TypeThreads /\ TypePools /\ TypeOverlays /\ TypeLedger

IInv ==
    /\ Types /\ Control /\ Apart /\ Contents /\ Ownership /\ Copying
    /\ Ledger /\ LossesCounted /\ Teardown

--------------------------------------------------------------------------------

\* What is assumed of the constants.
LEMMA Constants ==
    /\ RawCap \in Nat \ {0} /\ PrepCap \in Nat \ {0} /\ InfCap \in Nat \ {0} /\ MaxSeq \in Nat
    /\ GpuSessions \subseteq InfWorkers
    /\ None \notin Batches /\ None \notin Buffers /\ None \notin Overlays
    /\ \A w \in PrepWorkers : w \notin InfWorkers /\ w \notin PostWorkers
    /\ \A w \in InfWorkers : w \notin PrepWorkers /\ w \notin PostWorkers
    /\ \A w \in PostWorkers : w \notin PrepWorkers /\ w \notin InfWorkers
    /\ \A w : w \in Workers <=> w \in PrepWorkers \/ w \in InfWorkers \/ w \in PostWorkers
BY PipelineAssumption, ThreadsAssumption DEF Batches, Workers

\* A function with one new value.
LEMMA Put ==
    ASSUME NEW S, NEW T, NEW f \in [S -> T], NEW a, NEW v \in T
    PROVE  [f EXCEPT ![a] = v] \in [S -> T]
OBVIOUS

\* A queue one longer.
LEMMA Appended ==
    ASSUME NEW S, NEW q \in Seq(S), NEW x \in S
    PROVE  /\ Append(q, x) \in Seq(S) /\ Len(Append(q, x)) = Len(q) + 1
           /\ Range(Append(q, x)) = Range(q) \union {x}
           /\ IsInjective(q) /\ x \notin Range(q) => IsInjective(Append(q, x))
<1> DEFINE r == Append(q, x)
<1>1. /\ r \in Seq(S) /\ Len(r) = Len(q) + 1 /\ Len(q) \in Nat
      /\ \A i \in 1 .. Len(q) : r[i] = q[i]
      /\ r[Len(q) + 1] = x
  BY AppendProperties, LenProperties
<1>2. DOMAIN q = 1 .. Len(q) /\ DOMAIN r = 1 .. Len(q) + 1
  BY <1>1, LenProperties
<1> HIDE DEF r
<1>3. Range(r) = Range(q) \union {x}
  <2>1. ASSUME NEW y \in Range(r) PROVE y \in Range(q) \union {x}
    <3>1. PICK i \in 1 .. Len(q) + 1 : y = r[i]
      BY <1>2 DEF Range
    <3>2. i \in 1 .. Len(q) \/ i = Len(q) + 1
      BY <1>1
    <3>3. QED
      BY <1>1, <1>2, <3>1, <3>2 DEF Range
  <2>2. ASSUME NEW y \in Range(q) \union {x} PROVE y \in Range(r)
    <3>1. CASE y = x
      <4>1. Len(q) + 1 \in DOMAIN r
        BY <1>1, <1>2
      <4>2. QED
        BY <1>1, <3>1, <4>1 DEF Range
    <3>2. CASE y \in Range(q)
      <4>1. PICK i \in 1 .. Len(q) : y = q[i]
        BY <1>2, <3>2 DEF Range
      <4>2. i \in DOMAIN r /\ y = r[i]
        BY <1>1, <1>2, <4>1
      <4>3. QED
        BY <4>2 DEF Range
    <3>3. QED
      BY <3>1, <3>2
  <2>3. QED
    BY <2>1, <2>2
<1>4. ASSUME IsInjective(q), x \notin Range(q) PROVE IsInjective(r)
  <2>1. SUFFICES ASSUME NEW i \in 1 .. Len(q) + 1, NEW j \in 1 .. Len(q) + 1, r[i] = r[j]
                 PROVE  i = j
    BY <1>2 DEF IsInjective
  <2>2. \A k \in 1 .. Len(q) : r[k] = q[k] /\ q[k] \in Range(q)
    BY <1>1, <1>2 DEF Range
  <2>3. (i \in 1 .. Len(q) \/ i = Len(q) + 1) /\ (j \in 1 .. Len(q) \/ j = Len(q) + 1)
    BY <1>1
  <2>4. CASE i \in 1 .. Len(q) /\ j \in 1 .. Len(q)
    BY <1>2, <1>4, <2>1, <2>2, <2>4 DEF IsInjective
  <2>5. CASE ~(i \in 1 .. Len(q) /\ j \in 1 .. Len(q))
    BY <1>1, <1>4, <2>1, <2>2, <2>3, <2>5
  <2>6. QED
    BY <2>4, <2>5
<1>5. QED
  BY <1>1, <1>3, <1>4 DEF r

\* A queue without its head.
LEMMA Popped ==
    ASSUME NEW S, NEW q \in Seq(S), q # <<>>
    PROVE  /\ Head(q) \in S /\ Tail(q) \in Seq(S) /\ Len(Tail(q)) <= Len(q)
           /\ Range(q) = Range(Tail(q)) \union {Head(q)}
           /\ IsInjective(q) => IsInjective(Tail(q)) /\ Head(q) \notin Range(Tail(q))
<1> DEFINE r == Tail(q)
<1>1. /\ Head(q) \in S /\ r \in Seq(S) /\ Len(r) = Len(q) - 1 /\ Len(q) \in Nat \ {0}
      /\ \A i \in 1 .. Len(r) : r[i] = q[i + 1]
  BY HeadTailProperties, EmptySeq
<1>2. Head(q) = q[1]
  OBVIOUS
<1>3. DOMAIN q = 1 .. Len(q) /\ DOMAIN r = 1 .. Len(q) - 1
  BY <1>1, LenProperties
<1> HIDE DEF r
<1>4. Range(q) = Range(r) \union {Head(q)}
  <2>1. ASSUME NEW y \in Range(q) PROVE y \in Range(r) \union {Head(q)}
    <3>1. PICK i \in 1 .. Len(q) : y = q[i]
      BY <1>3 DEF Range
    <3>2. CASE i = 1
      BY <1>2, <3>1, <3>2
    <3>3. CASE i # 1
      <4>1. i - 1 \in 1 .. Len(r) /\ i - 1 \in DOMAIN r /\ (i - 1) + 1 = i
        BY <1>1, <1>3, <3>3
      <4>2. r[i - 1] = q[i]
        BY <1>1, <4>1
      <4>3. QED
        BY <3>1, <4>1, <4>2 DEF Range
    <3>4. QED
      BY <3>2, <3>3
  <2>2. ASSUME NEW y \in Range(r) PROVE y \in Range(q)
    <3>1. PICK i \in 1 .. Len(q) - 1 : y = r[i]
      BY <1>3 DEF Range
    <3>2. i + 1 \in DOMAIN q /\ y = q[i + 1]
      BY <1>1, <1>3, <3>1
    <3>3. QED
      BY <3>2 DEF Range
  <2>3. Head(q) \in Range(q)
    <3>1. 1 \in DOMAIN q
      BY <1>1, <1>3
    <3>2. QED
      BY <1>2, <3>1 DEF Range
  <2>4. QED
    BY <2>1, <2>2, <2>3
<1>5. ASSUME IsInjective(q) PROVE IsInjective(r) /\ Head(q) \notin Range(r)
  <2>1. \A i \in 1 .. Len(q) - 1 : r[i] = q[i + 1] /\ i + 1 \in DOMAIN q /\ i + 1 # 1
    BY <1>1, <1>3
  <2>2. 1 \in DOMAIN q
    BY <1>1, <1>3
  <2>3. Head(q) \notin Range(r)
    <3>1. SUFFICES ASSUME NEW i \in 1 .. Len(q) - 1, r[i] = Head(q) PROVE FALSE
      BY <1>3 DEF Range
    <3>2. QED
      BY <1>2, <1>5, <2>1, <2>2, <3>1 DEF IsInjective
  <2>4. IsInjective(r)
    <3>1. SUFFICES ASSUME NEW i \in 1 .. Len(q) - 1, NEW j \in 1 .. Len(q) - 1, r[i] = r[j]
                   PROVE  i = j
      BY <1>3 DEF IsInjective
    <3>2. i + 1 = j + 1
      BY <1>5, <2>1, <3>1 DEF IsInjective
    <3>3. QED
      BY <3>2
  <2>5. QED
    BY <2>3, <2>4
<1>6. Len(r) <= Len(q)
  BY <1>1
<1>7. QED
  BY <1>1, <1>4, <1>5, <1>6 DEF r

\* An empty queue.
LEMMA Emptied == Range(<<>>) = {} /\ IsInjective(<<>>) /\ \A S : <<>> \in Seq(S)
BY DEF Range, IsInjective

\* The range of a function with one new value.
LEMMA RangePut ==
    ASSUME NEW S, NEW T, NEW f \in [S -> T], NEW a \in S, NEW v
    PROVE  /\ Range([f EXCEPT ![a] = v]) \subseteq Range(f) \union {v}
           /\ v \in Range([f EXCEPT ![a] = v])
           /\ Range(f) \subseteq Range([f EXCEPT ![a] = v]) \union {f[a]}
BY DEF Range

--------------------------------------------------------------------------------

\* How batches move.  Each of these keeps every batch in one place.

\* The batches of the threads.
LEMMA TasksAre == ASSUME TypeThreads PROVE \A s : s \in Tasks <=> s # None /\ \E w \in Workers : task[w] = s
BY DEF Tasks, TypeThreads, Range

\* What is inside.
LEMMA InFlightIs ==
    /\ InFlight = Range(rawQ) \union Range(prepQ) \union Range(infQ) \union Tasks
    /\ TypeQueues /\ TypeThreads => InFlight \subseteq Batches
<1>1. InFlight = Range(rawQ) \union Range(prepQ) \union Range(infQ) \union Tasks
  BY DEF InFlight, Tasks
<1>2. ASSUME TypeQueues, TypeThreads PROVE InFlight \subseteq Batches
  <2>1. Range(rawQ) \subseteq Batches /\ Range(prepQ) \subseteq Batches /\ Range(infQ) \subseteq Batches
    BY <1>2, RangeOfSeq DEF TypeQueues
  <2>2. Tasks \subseteq Batches
    BY <1>2, TasksAre DEF TypeThreads
  <2>3. QED
    BY <1>1, <2>1, <2>2
<1>3. QED
  BY <1>1, <1>2

\* A thread takes a batch that no thread has.
LEMMA TasksTake ==
    ASSUME TypeThreads, Apart, NEW w \in Workers, task[w] = None, NEW s \in Batches, s \notin Tasks,
           Take(w, s)
    PROVE  /\ Tasks' = Tasks \union {s}
           /\ \A v, u \in Workers : task'[v] = task'[u] /\ task'[v] # None => v = u
<1>1. /\ task' = [task EXCEPT ![w] = s] /\ task \in [Workers -> Batches \union {None}] /\ s # None
      /\ \A t : t \in Tasks <=> t # None /\ \E v \in Workers : task[v] = t
  BY TasksAre, Constants DEF Take, TypeThreads
<1>2. \A t : t \in Tasks' <=> t # None /\ \E v \in Workers : task'[v] = t
  BY <1>1 DEF Tasks, Range
<1>3. \A v \in Workers : task'[v] = IF v = w THEN s ELSE task[v]
  BY <1>1
<1>4. \A t : t \in Tasks' <=> t \in Tasks \union {s}
  BY <1>1, <1>2, <1>3
<1>5. \A v, u \in Workers : task[v] = task[u] /\ task[v] # None => v = u
  BY DEF Apart
<1>6. \A v \in Workers : task[v] # s
  BY <1>1
<1>7. QED
  BY <1>3, <1>4, <1>5, <1>6

\* A thread lets its batch go.
LEMMA TasksDrop ==
    ASSUME TypeThreads, Apart, NEW w \in Workers, Take(w, None)
    PROVE  /\ Tasks' = Tasks \ {task[w]}
           /\ \A v, u \in Workers : task'[v] = task'[u] /\ task'[v] # None => v = u
<1>1. /\ task' = [task EXCEPT ![w] = None] /\ task \in [Workers -> Batches \union {None}]
      /\ \A t : t \in Tasks <=> t # None /\ \E v \in Workers : task[v] = t
  BY TasksAre, Constants DEF Take, TypeThreads
<1>2. \A t : t \in Tasks' <=> t # None /\ \E v \in Workers : task'[v] = t
  BY <1>1 DEF Tasks, Range
<1>3. \A v \in Workers : task'[v] = IF v = w THEN None ELSE task[v]
  BY <1>1
<1>4. \A v, u \in Workers : task[v] = task[u] /\ task[v] # None => v = u
  BY DEF Apart
<1>5. \A t : t \in Tasks' <=> t \in Tasks \ {task[w]}
  BY <1>1, <1>2, <1>3, <1>4
<1>6. QED
  BY <1>3, <1>4, <1>5

\* A new batch comes in.
LEMMA MoveIn ==
    ASSUME TypeQueues, Apart, NEW s \in Batches, s \notin InFlight,
           rawQ' = Append(rawQ, s), UNCHANGED <<prepQ, infQ, task>>
    PROVE  /\ Apart' /\ InFlight' = InFlight \union {s} /\ Range(rawQ)' = Range(rawQ) \union {s}
<1>1. Range(rawQ)' = Range(rawQ) \union {s} /\ s \notin Range(rawQ) /\ IsInjective(rawQ)'
  BY Appended, InFlightIs DEF TypeQueues, Apart
<1>2. s \notin Range(prepQ) /\ s \notin Range(infQ) /\ s \notin Tasks /\ Tasks' = Tasks
  BY InFlightIs DEF Tasks
<1>3. InFlight' = InFlight \union {s}
  BY <1>1 DEF InFlight
<1>4. QED
  BY <1>1, <1>2, <1>3 DEF Apart

\* A thread takes the head of a queue.
LEMMA MoveOutRaw ==
    ASSUME TypeQueues, TypeThreads, Apart, NEW w \in Workers, task[w] = None, rawQ # <<>>,
           Take(w, Head(rawQ)), rawQ' = Tail(rawQ), UNCHANGED <<prepQ, infQ>>
    PROVE  /\ Apart' /\ InFlight' = InFlight /\ Head(rawQ) \in Range(rawQ)
           /\ Range(rawQ)' \subseteq Range(rawQ) /\ Head(rawQ) \in Batches
<1>1. /\ Head(rawQ) \in Batches /\ Range(rawQ) = Range(rawQ)' \union {Head(rawQ)}
      /\ IsInjective(rawQ)' /\ Head(rawQ) \notin Range(rawQ)'
  BY Popped DEF TypeQueues, Apart
<1>2. Head(rawQ) \notin Tasks /\ Head(rawQ) \notin Range(prepQ) /\ Head(rawQ) \notin Range(infQ)
  BY <1>1 DEF Apart
<1>3. /\ Tasks' = Tasks \union {Head(rawQ)}
      /\ \A v, u \in Workers : task'[v] = task'[u] /\ task'[v] # None => v = u
  BY <1>1, <1>2, TasksTake
<1>4. InFlight' = InFlight
  BY <1>1, <1>3, InFlightIs DEF InFlight, Tasks
<1>5. QED
  BY <1>1, <1>2, <1>3, <1>4 DEF Apart

\* The same from q_prep_.
LEMMA MoveOutPrep ==
    ASSUME TypeQueues, TypeThreads, Apart, NEW w \in Workers, task[w] = None, prepQ # <<>>,
           Take(w, Head(prepQ)), prepQ' = Tail(prepQ), UNCHANGED <<rawQ, infQ>>
    PROVE  /\ Apart' /\ InFlight' = InFlight /\ Head(prepQ) \in Range(prepQ)
           /\ Range(prepQ)' \subseteq Range(prepQ) /\ Head(prepQ) \in Batches
<1>1. /\ Head(prepQ) \in Batches /\ Range(prepQ) = Range(prepQ)' \union {Head(prepQ)}
      /\ IsInjective(prepQ)' /\ Head(prepQ) \notin Range(prepQ)'
  BY Popped DEF TypeQueues, Apart
<1>2. Head(prepQ) \notin Tasks /\ Head(prepQ) \notin Range(rawQ) /\ Head(prepQ) \notin Range(infQ)
  BY <1>1 DEF Apart
<1>3. /\ Tasks' = Tasks \union {Head(prepQ)}
      /\ \A v, u \in Workers : task'[v] = task'[u] /\ task'[v] # None => v = u
  BY <1>1, <1>2, TasksTake
<1>4. InFlight' = InFlight
  BY <1>1, <1>3, InFlightIs DEF InFlight, Tasks
<1>5. QED
  BY <1>1, <1>2, <1>3, <1>4 DEF Apart

\* The same from q_inf_.
LEMMA MoveOutInf ==
    ASSUME TypeQueues, TypeThreads, Apart, NEW w \in Workers, task[w] = None, infQ # <<>>,
           Take(w, Head(infQ)), infQ' = Tail(infQ), UNCHANGED <<rawQ, prepQ>>
    PROVE  /\ Apart' /\ InFlight' = InFlight /\ Head(infQ) \in Range(infQ)
           /\ Range(infQ)' \subseteq Range(infQ) /\ Head(infQ) \in Batches
<1>1. /\ Head(infQ) \in Batches /\ Range(infQ) = Range(infQ)' \union {Head(infQ)}
      /\ IsInjective(infQ)' /\ Head(infQ) \notin Range(infQ)'
  BY Popped DEF TypeQueues, Apart
<1>2. Head(infQ) \notin Tasks /\ Head(infQ) \notin Range(rawQ) /\ Head(infQ) \notin Range(prepQ)
  BY <1>1 DEF Apart
<1>3. /\ Tasks' = Tasks \union {Head(infQ)}
      /\ \A v, u \in Workers : task'[v] = task'[u] /\ task'[v] # None => v = u
  BY <1>1, <1>2, TasksTake
<1>4. InFlight' = InFlight
  BY <1>1, <1>3, InFlightIs DEF InFlight, Tasks
<1>5. QED
  BY <1>1, <1>2, <1>3, <1>4 DEF Apart

\* A thread hands its batch on to the next queue.
LEMMA MoveToPrep ==
    ASSUME TypeQueues, TypeThreads, Apart, NEW w \in Workers, task[w] \in Batches, Take(w, None),
           prepQ' = Append(prepQ, task[w]), UNCHANGED <<rawQ, infQ>>
    PROVE  Apart' /\ InFlight' = InFlight /\ Range(prepQ)' = Range(prepQ) \union {task[w]}
<1>1. task[w] \in Tasks
  BY TasksAre, Constants
<1>2. /\ Range(prepQ)' = Range(prepQ) \union {task[w]} /\ IsInjective(prepQ)'
  BY <1>1, Appended DEF TypeQueues, Apart
<1>3. /\ Tasks' = Tasks \ {task[w]}
      /\ \A v, u \in Workers : task'[v] = task'[u] /\ task'[v] # None => v = u
  BY TasksDrop
<1>4. InFlight' = InFlight
  BY <1>1, <1>2, <1>3, InFlightIs DEF InFlight, Tasks
<1>5. QED
  BY <1>1, <1>2, <1>3, <1>4 DEF Apart

\* The same for q_inf_.
LEMMA MoveToInf ==
    ASSUME TypeQueues, TypeThreads, Apart, NEW w \in Workers, task[w] \in Batches, Take(w, None),
           infQ' = Append(infQ, task[w]), UNCHANGED <<rawQ, prepQ>>
    PROVE  Apart' /\ InFlight' = InFlight /\ Range(infQ)' = Range(infQ) \union {task[w]}
<1>1. task[w] \in Tasks
  BY TasksAre, Constants
<1>2. /\ Range(infQ)' = Range(infQ) \union {task[w]} /\ IsInjective(infQ)'
  BY <1>1, Appended DEF TypeQueues, Apart
<1>3. /\ Tasks' = Tasks \ {task[w]}
      /\ \A v, u \in Workers : task'[v] = task'[u] /\ task'[v] # None => v = u
  BY TasksDrop
<1>4. InFlight' = InFlight
  BY <1>1, <1>2, <1>3, InFlightIs DEF InFlight, Tasks
<1>5. QED
  BY <1>1, <1>2, <1>3, <1>4 DEF Apart

\* A thread is done with its batch.
LEMMA MoveAway ==
    ASSUME TypeQueues, TypeThreads, Apart, NEW w \in Workers, Take(w, None), UNCHANGED queues
    PROVE  Apart' /\ InFlight' = InFlight \ {task[w]}
<1>0. UNCHANGED <<rawQ, prepQ, infQ>>
  BY DEF queues
<1>1. /\ Tasks' = Tasks \ {task[w]}
      /\ \A v, u \in Workers : task'[v] = task'[u] /\ task'[v] # None => v = u
  BY TasksDrop
<1>2. task[w] \notin Range(rawQ) \union Range(prepQ) \union Range(infQ)
  <2>1. CASE task[w] = None
    BY <2>1, Constants, RangeOfSeq DEF TypeQueues
  <2>2. CASE task[w] # None
    BY <2>2, TasksAre DEF Apart
  <2>3. QED
    BY <2>1, <2>2
<1>3. InFlight' = InFlight \ {task[w]}
  BY <1>0, <1>1, <1>2, InFlightIs DEF InFlight, Tasks
<1>4. QED
  BY <1>0, <1>1, <1>3 DEF Apart

--------------------------------------------------------------------------------

\* The kinds of steps.

\* A thread goes on without touching anything but its place.
Strolls(w) ==
    /\ w \in Workers
    /\ \E there \in Stations :
        /\ Goto(w, there)
        /\ \/ pc[w] \in {"top", "pop"} /\ there \in {"top", "pop", "exited"}
           \/ pc[w] = "pop" /\ there = "run" /\ w \in InfWorkers
           \/ pc[w] = "run" /\ there = "sync" /\ w \in InfWorkers
    /\ UNCHANGED <<queues, task, pools, ledger, down>>

\* A thread ends with its batch: at a stopped queue or pool, by an exception,
\* or in the sink.
LetsGo(w) ==
    /\ w \in Workers
    /\ pc[w] \notin {"top", "pop", "exited"}
    /\ \E there \in {"top", "exited"} : Goto(w, there)
    /\ Take(w, None)
    /\ UNCHANGED <<queues, leaked, accepted, refused, down>>
    /\ stream' = IF pc[w] = "context" THEN [stream EXCEPT ![w] = Disown(@)] ELSE stream
    /\ pc[w] = "context" => w \in InfWorkers
    /\ \/ /\ \E name \in {"pinnedPool_", "q_prep_", "q_inf_", "overlayPool_"} : Stopped(name)
          /\ UNCHANGED <<published, dropped>>
       \/ dropped' = dropped + 1 /\ published' = published
       \/ w \in PostWorkers /\ published' = published \union {task[w]} /\ dropped' = dropped
    /\ \/ /\ task[w] # None /\ pc[w] # "render"
          /\ ReleaseBuffer(task[w]) /\ UNCHANGED <<overlay, overlayFree>>
       \/ task[w] = None /\ UNCHANGED <<buf, pinnedFree, overlay, overlayFree>>
       \/ w \in PostWorkers /\ ReleaseOverlay(w) /\ UNCHANGED <<buf, pinnedFree>>

\* The context of a batch's callback is made, and the callback launched or not.
Launch(w) == LaunchHostFunc(w) \/ LaunchHostFuncFails(w)

\* A step is one of these.
LEMMA Steps ==
    Types /\ Control /\ [Next]_vars =>
        \/ \E s \in Batches : PushBatch(s)
        \/ \E w \in PrepWorkers : PopRaw(w) \/ AcquirePinned(w) \/ PushPrep(w)
        \/ \E w \in InfWorkers : PopPrep(w) \/ Submit(w) \/ Launch(w) \/ Sync(w) \/ PushInf(w)
                                 \/ StreamStep(w)
        \/ \E w \in PostWorkers : PopInf(w) \/ AcquireOverlay(w)
        \/ \E w \in Workers : Strolls(w) \/ LetsGo(w)
        \/ \E object \in Range(Order) : TakeDown(object)
        \/ UNCHANGED vars
<1> SUFFICES ASSUME Types, Control, [Next]_vars
             PROVE  \/ \E s \in Batches : PushBatch(s)
                    \/ \E w \in PrepWorkers : PopRaw(w) \/ AcquirePinned(w) \/ PushPrep(w)
                    \/ \E w \in InfWorkers : PopPrep(w) \/ Submit(w) \/ Launch(w) \/ Sync(w) \/ PushInf(w)
                                             \/ StreamStep(w)
                    \/ \E w \in PostWorkers : PopInf(w) \/ AcquireOverlay(w)
                    \/ \E w \in Workers : Strolls(w) \/ LetsGo(w)
                    \/ \E object \in Range(Order) : TakeDown(object)
                    \/ UNCHANGED vars
  OBVIOUS
<1>1. \A w : w \in PrepWorkers \/ w \in InfWorkers \/ w \in PostWorkers => w \in Workers
  BY Constants
<1>2. ASSUME NEW w \in Workers, NEW q, NEW name, Loop(w) \/ LeaveAtPop(w, q, name) PROVE Strolls(w)
  BY <1>2 DEF Loop, LeaveAtPop, Strolls, Goto, At, Stations
<1>3. ASSUME NEW w \in InfWorkers, PopTimeout(w) \/ Run(w) PROVE Strolls(w)
  BY <1>1, <1>3 DEF PopTimeout, Run, Strolls, Goto, At, Stations, ledger, pools, queues
<1>4. ASSUME NEW w \in Workers, NEW here \in {"acquire", "push"},
             NEW name \in {"pinnedPool_", "q_prep_", "q_inf_", "overlayPool_"}, Abandon(w, here, name)
      PROVE  LetsGo(w)
  <2>1. task[w] # None /\ pc[w] = here
    BY <1>4 DEF Abandon, At, Control
  <2>2. QED
    BY <1>4, <2>1 DEF Abandon, LetsGo, ledger
<1>5. ASSUME NEW w \in PrepWorkers, ThrowPrep(w) PROVE LetsGo(w)
  <2>1. task[w] # None /\ pc[w] \in {"acquire", "push"}
    BY <1>1, <1>5 DEF ThrowPrep, Control
  <2>2. QED
    BY <1>1, <1>5, <2>1 DEF ThrowPrep, Throw, CountDrop, LetsGo
<1>6. ASSUME NEW w \in InfWorkers, ThrowInf(w) PROVE LetsGo(w)
  BY <1>1, <1>6 DEF ThrowInf, Throw, CountDrop, LetsGo, At
<1>7. ASSUME NEW w \in PostWorkers, ThrowPost(w) PROVE LetsGo(w)
  BY <1>1, <1>7 DEF ThrowPost, Throw, CountDrop, LetsGo
<1>8. ASSUME NEW w \in PostWorkers, Sink(w) PROVE LetsGo(w)
  BY <1>1, <1>8 DEF Sink, At, LetsGo
<1>9. ASSUME NEW w \in PrepWorkers, PrepStep(w)
      PROVE  PopRaw(w) \/ AcquirePinned(w) \/ PushPrep(w) \/ Strolls(w) \/ LetsGo(w)
  BY <1>1, <1>2, <1>4, <1>9 DEF PrepStep
<1>10. ASSUME NEW w \in InfWorkers, InfStep(w)
       PROVE  PopPrep(w) \/ Submit(w) \/ Launch(w) \/ Sync(w) \/ PushInf(w) \/ Strolls(w) \/ LetsGo(w)
  BY <1>1, <1>2, <1>3, <1>4, <1>10 DEF InfStep, Launch
<1>11. ASSUME NEW w \in PostWorkers, PostStep(w)
       PROVE  PopInf(w) \/ AcquireOverlay(w) \/ Strolls(w) \/ LetsGo(w)
  BY <1>1, <1>2, <1>4, <1>8, <1>11 DEF PostStep
<1>12. QED
  BY <1>1, <1>5, <1>6, <1>7, <1>9, <1>10, <1>11 DEF Next, Terminated

--------------------------------------------------------------------------------

\* A thread at work has a batch.
LEMMA HasBatch ==
    ASSUME Types, Control, NEW w \in Workers, pc[w] \in {"acquire", "submit", "context", "push", "render"}
    PROVE  task[w] \in Batches
BY DEF Types, TypeThreads, Control

\* The queues hold batches, no more than fit.
LEMMA TypeQueuesStep == Types /\ Control /\ [Next]_vars => TypeQueues'
<1> SUFFICES ASSUME Types, Control, [Next]_vars PROVE TypeQueues'
  OBVIOUS
<1>0. TypeQueues
  BY DEF Types
<1>1. CASE UNCHANGED <<rawQ, prepQ, infQ>>
  BY <1>0, <1>1 DEF TypeQueues
<1>2. ASSUME NEW s \in Batches, PushBatch(s) PROVE TypeQueues'
  <2>1. /\ (rawQ' = Append(rawQ, s) /\ Len(rawQ) < RawCap) \/ rawQ' = rawQ
        /\ UNCHANGED <<prepQ, infQ>>
    BY <1>2 DEF PushBatch
  <2>2. CASE rawQ' = rawQ
    BY <1>0, <2>1, <2>2 DEF TypeQueues
  <2>3. CASE rawQ' = Append(rawQ, s) /\ Len(rawQ) < RawCap
    <3>1. rawQ' \in Seq(Batches) /\ Len(rawQ') = Len(rawQ) + 1 /\ Len(rawQ) \in Nat
      BY <1>0, <2>3, Appended, LenProperties DEF TypeQueues
    <3>2. Len(rawQ') <= RawCap
      BY <2>3, <3>1, Constants
    <3>3. QED
      BY <1>0, <2>1, <3>1, <3>2 DEF TypeQueues
  <2>4. QED
    BY <2>1, <2>2, <2>3
<1>3. ASSUME NEW w \in PrepWorkers, PopRaw(w) PROVE TypeQueues'
  <2>1. rawQ # <<>> /\ rawQ' = Tail(rawQ) /\ UNCHANGED <<prepQ, infQ>>
    BY <1>3 DEF PopRaw
  <2>2. rawQ' \in Seq(Batches) /\ Len(rawQ') <= Len(rawQ) /\ Len(rawQ) \in Nat /\ Len(rawQ') \in Nat
    BY <1>0, <2>1, Popped, LenProperties DEF TypeQueues
  <2>3. QED
    BY <1>0, <2>1, <2>2, Constants DEF TypeQueues
<1>4. ASSUME NEW w \in InfWorkers, PopPrep(w) PROVE TypeQueues'
  <2>1. prepQ # <<>> /\ prepQ' = Tail(prepQ) /\ UNCHANGED <<rawQ, infQ>>
    BY <1>4 DEF PopPrep
  <2>2. prepQ' \in Seq(Batches) /\ Len(prepQ') <= Len(prepQ) /\ Len(prepQ) \in Nat /\ Len(prepQ') \in Nat
    BY <1>0, <2>1, Popped, LenProperties DEF TypeQueues
  <2>3. QED
    BY <1>0, <2>1, <2>2, Constants DEF TypeQueues
<1>5. ASSUME NEW w \in PostWorkers, PopInf(w) PROVE TypeQueues'
  <2>1. infQ # <<>> /\ infQ' = Tail(infQ) /\ UNCHANGED <<rawQ, prepQ>>
    BY <1>5 DEF PopInf
  <2>2. infQ' \in Seq(Batches) /\ Len(infQ') <= Len(infQ) /\ Len(infQ) \in Nat /\ Len(infQ') \in Nat
    BY <1>0, <2>1, Popped, LenProperties DEF TypeQueues
  <2>3. QED
    BY <1>0, <2>1, <2>2, Constants DEF TypeQueues
<1>6. ASSUME NEW w \in PrepWorkers, PushPrep(w) PROVE TypeQueues'
  <2>1. Len(prepQ) < PrepCap /\ prepQ' = Append(prepQ, task[w]) /\ UNCHANGED <<rawQ, infQ>>
    BY <1>6 DEF PushPrep
  <2>2. task[w] \in Batches
    BY <1>6, HasBatch, Constants DEF PushPrep, At
  <2>3. prepQ' \in Seq(Batches) /\ Len(prepQ') = Len(prepQ) + 1 /\ Len(prepQ) \in Nat
    BY <1>0, <2>1, <2>2, Appended, LenProperties DEF TypeQueues
  <2>4. Len(prepQ') <= PrepCap
    BY <2>1, <2>3, Constants
  <2>5. QED
    BY <1>0, <2>1, <2>3, <2>4 DEF TypeQueues
<1>7. ASSUME NEW w \in InfWorkers, PushInf(w) PROVE TypeQueues'
  <2>1. Len(infQ) < InfCap /\ infQ' = Append(infQ, task[w]) /\ UNCHANGED <<rawQ, prepQ>>
    BY <1>7 DEF PushInf
  <2>2. task[w] \in Batches
    BY <1>7, HasBatch, Constants DEF PushInf, At
  <2>3. infQ' \in Seq(Batches) /\ Len(infQ') = Len(infQ) + 1 /\ Len(infQ) \in Nat
    BY <1>0, <2>1, <2>2, Appended, LenProperties DEF TypeQueues
  <2>4. Len(infQ') <= InfCap
    BY <2>1, <2>3, Constants
  <2>5. QED
    BY <1>0, <2>1, <2>3, <2>4 DEF TypeQueues
<1>8. ASSUME NEW object, TakeDown(object) PROVE TypeQueues'
  <2>1. CASE rawQ' = <<>> /\ prepQ' = <<>> /\ infQ' = <<>>
    BY <2>1, Constants, EmptySeq DEF TypeQueues
  <2>2. QED
    BY <1>1, <1>8, <2>1 DEF TakeDown, DestroyQueues, queues
<1>9. ASSUME NEW w, \/ AcquirePinned(w) \/ Submit(w) \/ Launch(w) \/ Sync(w) \/ StreamStep(w)
                    \/ AcquireOverlay(w) \/ Strolls(w) \/ LetsGo(w)
      PROVE  UNCHANGED <<rawQ, prepQ, infQ>>
  BY <1>9 DEF AcquirePinned, Submit, Launch, LaunchHostFunc, LaunchHostFuncFails, Sync, StreamStep, CopyDone, ReleasePinnedInputCallback, AcquireOverlay, Strolls,
              LetsGo, queues
<1>10. QED
  BY <1>1, <1>2, <1>3, <1>4, <1>5, <1>6, <1>7, <1>8, <1>9, Steps DEF vars, queues

\* The threads are at places of their loops, with batches.
LEMMA TypeThreadsStep == Types /\ Control /\ [Next]_vars => TypeThreads'
<1> SUFFICES ASSUME Types, Control, [Next]_vars PROVE TypeThreads'
  OBVIOUS
<1>0. TypeThreads /\ TypeQueues
  BY DEF Types
<1>1. ASSUME NEW w \in Workers, NEW there \in Stations, Goto(w, there),
             NEW s \in Batches \union {None}, Take(w, s) \/ task' = task
      PROVE  TypeThreads'
  <2>1. pc' \in [Workers -> Stations]
    BY <1>0, <1>1, Put DEF TypeThreads, Goto
  <2>2. task' \in [Workers -> Batches \union {None}]
    BY <1>0, <1>1, Put DEF TypeThreads, Take
  <2>3. QED
    BY <2>1, <2>2 DEF TypeThreads
<1>2. \A q \in {rawQ, prepQ, infQ} : q # <<>> => Head(q) \in Batches
  BY <1>0, Popped DEF TypeQueues
<1>3. ASSUME NEW w \in PrepWorkers, PopRaw(w) \/ AcquirePinned(w) \/ PushPrep(w) PROVE TypeThreads'
  BY <1>1, <1>2, <1>3, Constants DEF PopRaw, AcquirePinned, PushPrep, Stations
<1>4. ASSUME NEW w \in InfWorkers, PopPrep(w) \/ Submit(w) \/ Launch(w) \/ Sync(w) \/ PushInf(w) PROVE TypeThreads'
  BY <1>1, <1>2, <1>4, Constants DEF PopPrep, Submit, Launch, LaunchHostFunc, LaunchHostFuncFails, Sync, PushInf, Stations
<1>5. ASSUME NEW w \in PostWorkers, PopInf(w) \/ AcquireOverlay(w) PROVE TypeThreads'
  BY <1>1, <1>2, <1>5, Constants DEF PopInf, AcquireOverlay, Stations
<1>6. ASSUME NEW w \in Workers, Strolls(w) \/ LetsGo(w) PROVE TypeThreads'
  BY <1>1, <1>6 DEF Strolls, LetsGo, Stations
<1>7. CASE UNCHANGED <<pc, task>>
  BY <1>0, <1>7 DEF TypeThreads
<1>8. ASSUME NEW s, PushBatch(s) \/ StreamStep(s) \/ TakeDown(s) \/ UNCHANGED vars
      PROVE  UNCHANGED <<pc, task>>
  BY <1>8 DEF PushBatch, StreamStep, CopyDone, ReleasePinnedInputCallback, TakeDown, vars
<1>9. QED
  BY <1>3, <1>4, <1>5, <1>6, <1>7, <1>8, Steps

\* The overlay buffers are in the pool or with the post threads.
LEMMA TypeOverlaysStep == Types /\ Control /\ [Next]_vars => TypeOverlays'
<1> SUFFICES ASSUME Types, Control, [Next]_vars PROVE TypeOverlays'
  OBVIOUS
<1>0. TypeOverlays
  BY DEF Types
<1>1. ASSUME NEW w \in PostWorkers, AcquireOverlay(w) PROVE TypeOverlays'
  <2>1. PICK o \in overlayFree : overlay' = [overlay EXCEPT ![w] = o] /\ overlayFree' = overlayFree \ {o}
    BY <1>1 DEF AcquireOverlay
  <2>2. overlay' \in [PostWorkers -> Overlays \union {None}]
    BY <1>0, <2>1, Put DEF TypeOverlays
  <2>3. QED
    BY <1>0, <2>1, <2>2 DEF TypeOverlays
<1>2. ASSUME NEW w \in PostWorkers, ReleaseOverlay(w) PROVE TypeOverlays'
  <2>1. /\ overlay' = [overlay EXCEPT ![w] = None]
        /\ overlayFree' = overlayFree \union ({overlay[w]} \ {None})
    BY <1>2 DEF ReleaseOverlay
  <2>2. overlay' \in [PostWorkers -> Overlays \union {None}]
    BY <1>0, <2>1, Put DEF TypeOverlays
  <2>3. QED
    BY <1>0, <2>1, <2>2 DEF TypeOverlays
<1>3. CASE UNCHANGED <<overlay, overlayFree>>
  BY <1>0, <1>3 DEF TypeOverlays
<1>4. ASSUME NEW w, LetsGo(w)
      PROVE  UNCHANGED <<overlay, overlayFree>> \/ (w \in PostWorkers /\ ReleaseOverlay(w))
  BY <1>4 DEF LetsGo
<1>5. ASSUME NEW w, \/ PushBatch(w) \/ PopRaw(w) \/ AcquirePinned(w) \/ PushPrep(w) \/ PopPrep(w)
                    \/ Submit(w) \/ Launch(w) \/ Sync(w) \/ PushInf(w) \/ StreamStep(w)
                    \/ PopInf(w) \/ Strolls(w) \/ TakeDown(w) \/ UNCHANGED vars
      PROVE  UNCHANGED <<overlay, overlayFree>>
  BY <1>5 DEF PushBatch, PopRaw, AcquirePinned, PushPrep, PopPrep, Submit, Launch, LaunchHostFunc, LaunchHostFuncFails, Sync, PushInf,
              StreamStep, CopyDone, ReleasePinnedInputCallback, PopInf, Strolls, TakeDown, DestroyQueues, vars, pools
<1>6. QED
  BY <1>1, <1>2, <1>3, <1>4, <1>5, Steps

\* What has been pushed is a batch.
LEMMA TypeLedgerStep == Types /\ Control /\ [Next]_vars => TypeLedger'
<1> SUFFICES ASSUME Types, Control, [Next]_vars PROVE TypeLedger'
  OBVIOUS
<1>0. TypeLedger /\ TypeThreads
  BY DEF Types
<1>1. ASSUME NEW s \in Batches, PushBatch(s) PROVE TypeLedger'
  <2>1. dropped' = dropped \/ dropped' = dropped + 1
    BY <1>1 DEF PushBatch
  <2>2. dropped' \in Nat
    BY <1>0, <2>1 DEF TypeLedger
  <2>3. /\ accepted' = accepted \/ accepted' = accepted \union {s}
        /\ refused' = refused \/ refused' = refused \union {s}
        /\ published' = published
    BY <1>1 DEF PushBatch
  <2>4. accepted' \subseteq Batches /\ refused' \subseteq Batches /\ published' \subseteq Batches
    BY <1>0, <2>3 DEF TypeLedger
  <2>5. QED
    BY <2>2, <2>4 DEF TypeLedger
<1>2. ASSUME NEW w \in Workers, LetsGo(w) PROVE TypeLedger'
  <2>1. task[w] \in Batches \/ task[w] = None
    BY <1>0 DEF TypeThreads
  <2>2. published' = published \/ (w \in PostWorkers /\ published' = published \union {task[w]})
    BY <1>2 DEF LetsGo
  <2>3. w \in PostWorkers => task[w] \in Batches
    <3>1. w \in PostWorkers => pc[w] \in {"acquire", "render"}
      BY <1>2 DEF LetsGo, Control
    <3>2. QED
      BY <3>1, HasBatch
  <2>4. dropped' \in Nat /\ UNCHANGED <<accepted, refused>>
    BY <1>0, <1>2 DEF LetsGo, TypeLedger
  <2>5. QED
    BY <1>0, <2>2, <2>3, <2>4 DEF TypeLedger
<1>3. CASE UNCHANGED <<accepted, refused, published, dropped>>
  BY <1>0, <1>3 DEF TypeLedger
<1>4. ASSUME NEW w, \/ PopRaw(w) \/ AcquirePinned(w) \/ PushPrep(w) \/ PopPrep(w) \/ Submit(w) \/ Launch(w)
                    \/ Sync(w) \/ PushInf(w) \/ StreamStep(w) \/ PopInf(w)
                    \/ AcquireOverlay(w) \/ Strolls(w) \/ TakeDown(w) \/ UNCHANGED vars
      PROVE  UNCHANGED <<accepted, refused, published, dropped>>
  BY <1>4 DEF PopRaw, AcquirePinned, PushPrep, PopPrep, Submit, Launch, LaunchHostFunc, LaunchHostFuncFails, Sync, PushInf, PopInf,
              StreamStep, CopyDone, ReleasePinnedInputCallback, AcquireOverlay, Strolls, TakeDown, vars, ledger
<1>5. QED
  BY <1>1, <1>2, <1>3, <1>4, Steps

\* The threads are where their stage has work, and have a batch there.
LEMMA ControlStep == Types /\ Control /\ [Next]_vars => Control'
<1> SUFFICES ASSUME Types, Control, [Next]_vars PROVE Control'
  OBVIOUS
<1>0. /\ pc \in [Workers -> Stations] /\ task \in [Workers -> Batches \union {None}]
      /\ overlay \in [PostWorkers -> Overlays \union {None}] /\ overlayFree \subseteq Overlays
      /\ None \notin Batches /\ None \notin Overlays
  BY Constants DEF Types, TypeThreads, TypeOverlays
<1>w. /\ \A w \in PrepWorkers : w \notin InfWorkers /\ w \notin PostWorkers
      /\ \A w \in InfWorkers : w \notin PrepWorkers /\ w \notin PostWorkers
      /\ \A w \in PostWorkers : w \notin PrepWorkers /\ w \notin InfWorkers
      /\ \A w : w \in Workers <=> w \in PrepWorkers \/ w \in InfWorkers \/ w \in PostWorkers
  BY Constants
<1>q. \A q \in {rawQ, prepQ, infQ} : q # <<>> => Head(q) # None
  BY Popped, Constants DEF Types, TypeQueues
\* One thread moves: only its own place and batch matter.
<1>1. ASSUME NEW w \in Workers, NEW there \in Stations, Goto(w, there), NEW s, Take(w, s),
             there \in {"top", "pop", "exited"} => s = None,
             there \in {"acquire", "submit", "context", "push", "render"} => s # None,
             w \in PrepWorkers => there \in {"top", "pop", "acquire", "push", "exited"},
             w \in InfWorkers =>
                there \in {"top", "pop", "submit", "context", "run", "sync", "push", "exited"},
             w \in PostWorkers => there \in {"top", "pop", "acquire", "render", "exited"},
             \A v \in PostWorkers : overlay'[v] # None => pc'[v] = "render",
             Overlays \subseteq overlayFree' \union Range(overlay')
      PROVE  Control'
  <2>1. /\ \A v \in Workers : pc'[v] = IF v = w THEN there ELSE pc[v]
        /\ \A v \in Workers : task'[v] = IF v = w THEN s ELSE task[v]
    BY <1>0, <1>1 DEF Goto, Take
  <2>2. /\ \A v \in Workers : pc'[v] \in {"top", "pop", "exited"} => task'[v] = None
        /\ \A v \in Workers : pc'[v] \in {"acquire", "submit", "context", "push", "render"} => task'[v] # None
    BY <1>1, <2>1 DEF Control
  <2>3. /\ \A v \in PrepWorkers : pc'[v] \in {"top", "pop", "acquire", "push", "exited"}
        /\ \A v \in InfWorkers :
              pc'[v] \in {"top", "pop", "submit", "context", "run", "sync", "push", "exited"}
        /\ \A v \in PostWorkers : pc'[v] \in {"top", "pop", "acquire", "render", "exited"}
    BY <1>1, <1>w, <2>1 DEF Control
  <2>4. QED
    BY <1>1, <2>2, <2>3 DEF Control
<1>k. ASSUME NEW w \in Workers, task' = task PROVE Take(w, task[w])
  BY <1>0, <1>k DEF Take
\* Without a change of overlays, a thread that was not rendering moves.
<1>o. ASSUME NEW w \in Workers, NEW there, Goto(w, there), pc[w] # "render", UNCHANGED <<overlay, overlayFree>>
      PROVE  /\ \A v \in PostWorkers : overlay'[v] # None => pc'[v] = "render"
             /\ Overlays \subseteq overlayFree' \union Range(overlay')
  <2>1. \A v \in Workers : v # w => pc'[v] = pc[v]
    BY <1>0, <1>o DEF Goto
  <2>2. QED
    BY <1>o, <1>w, <2>1 DEF Control
<1>2. ASSUME NEW w \in PrepWorkers, PopRaw(w) \/ AcquirePinned(w) \/ PushPrep(w) PROVE Control'
  <2>1. \E there \in {"top", "acquire", "push"} : \E s :
          /\ Goto(w, there) /\ Take(w, s)
          /\ there = "top" => s = None
          /\ there # "top" => s # None
    BY <1>2, <1>k, <1>q, <1>w DEF PopRaw, AcquirePinned, PushPrep, At, Control
  <2>2. pc[w] # "render" /\ UNCHANGED <<overlay, overlayFree>> /\ w \in Workers
    BY <1>2, <1>w DEF PopRaw, AcquirePinned, PushPrep, At, pools
  <2>3. QED
    BY <1>1, <1>o, <1>w, <2>1, <2>2 DEF Stations
<1>3. ASSUME NEW w \in InfWorkers, PopPrep(w) \/ Submit(w) \/ Launch(w) \/ Sync(w) \/ PushInf(w) PROVE Control'
  <2>1. \E there \in {"top", "submit", "context", "run", "push"} : \E s :
          /\ Goto(w, there) /\ Take(w, s)
          /\ there = "top" => s = None
          /\ there \in {"submit", "context", "push"} => s # None
    BY <1>3, <1>k, <1>q, <1>w DEF PopPrep, Submit, Launch, LaunchHostFunc, LaunchHostFuncFails, Sync, PushInf, At, Control
  <2>2. pc[w] # "render" /\ UNCHANGED <<overlay, overlayFree>> /\ w \in Workers
    BY <1>3, <1>w DEF PopPrep, Submit, Launch, LaunchHostFunc, LaunchHostFuncFails, Sync, PushInf, At, pools
  <2>3. QED
    BY <1>1, <1>o, <1>w, <2>1, <2>2 DEF Stations
<1>4. ASSUME NEW w \in PostWorkers, PopInf(w) PROVE Control'
  <2>1. Goto(w, "acquire") /\ Take(w, Head(infQ)) /\ Head(infQ) # None
    BY <1>4, <1>q DEF PopInf
  <2>2. pc[w] # "render" /\ UNCHANGED <<overlay, overlayFree>> /\ w \in Workers
    BY <1>4, <1>w DEF PopInf, At, pools
  <2>3. QED
    BY <1>1, <1>o, <1>w, <2>1, <2>2 DEF Stations
<1>5. ASSUME NEW w \in PostWorkers, AcquireOverlay(w) PROVE Control'
  <2>1. PICK o \in overlayFree : overlay' = [overlay EXCEPT ![w] = o] /\ overlayFree' = overlayFree \ {o}
    BY <1>5 DEF AcquireOverlay
  <2>2. Goto(w, "render") /\ Take(w, task[w]) /\ task[w] # None /\ pc[w] = "acquire" /\ w \in Workers
    BY <1>5, <1>k, <1>w DEF AcquireOverlay, At, Control
  <2>3. overlay[w] = None
    BY <2>2 DEF Control
  <2>4. \A v \in PostWorkers : overlay'[v] # None => pc'[v] = "render"
    BY <1>0, <1>w, <2>1, <2>2 DEF Goto, Control
  <2>5. Overlays \subseteq overlayFree' \union Range(overlay')
    <3>1. Range(overlay) \subseteq Range(overlay') \union {None} /\ o \in Range(overlay')
      BY <1>0, <2>1, <2>3, RangePut
    <3>2. QED
      BY <1>0, <2>1, <3>1 DEF Control
  <2>6. QED
    BY <1>1, <1>w, <2>2, <2>4, <2>5 DEF Stations
<1>6. ASSUME NEW w \in Workers, Strolls(w) PROVE Control'
  <2>1. PICK there \in Stations :
          /\ Goto(w, there)
          /\ \/ pc[w] \in {"top", "pop"} /\ there \in {"top", "pop", "exited"}
             \/ pc[w] = "pop" /\ there = "run" /\ w \in InfWorkers
             \/ pc[w] = "run" /\ there = "sync" /\ w \in InfWorkers
    BY <1>6 DEF Strolls
  <2>2. Take(w, task[w]) /\ UNCHANGED <<overlay, overlayFree>>
    BY <1>6, <1>k DEF Strolls, pools
  <2>3. there \in {"top", "pop", "exited"} => task[w] = None
    BY <2>1 DEF Control
  <2>4. QED
    BY <1>1, <1>o, <1>w, <2>1, <2>2, <2>3
<1>7. ASSUME NEW w \in Workers, LetsGo(w) PROVE Control'
  <2>1. PICK there \in {"top", "exited"} : Goto(w, there)
    BY <1>7 DEF LetsGo
  <2>2. Take(w, None)
    BY <1>7 DEF LetsGo
  <2>3. CASE pc[w] # "render" /\ UNCHANGED <<overlay, overlayFree>>
    BY <1>1, <1>o, <2>1, <2>2, <2>3 DEF Stations
  <2>4. CASE w \in PostWorkers /\ ReleaseOverlay(w)
    <3>1. /\ overlay' = [overlay EXCEPT ![w] = None]
          /\ overlayFree' = overlayFree \union ({overlay[w]} \ {None})
      BY <2>4 DEF ReleaseOverlay
    <3>2. \A v \in PostWorkers : overlay'[v] # None => pc'[v] = "render"
      BY <1>0, <1>w, <2>1, <2>4, <3>1 DEF Goto, Control
    <3>3. Range(overlay) \subseteq Range(overlay') \union {overlay[w]}
      BY <1>0, <2>4, <3>1, RangePut
    <3>4. Overlays \subseteq overlayFree' \union Range(overlay')
      BY <1>0, <3>1, <3>3 DEF Control
    <3>5. QED
      BY <1>1, <2>1, <2>2, <3>2, <3>4 DEF Stations
  <2>5. QED
    <3>1. task[w] = None => pc[w] # "render"
      BY DEF Control
    <3>2. QED
      BY <1>7, <2>3, <2>4, <3>1 DEF LetsGo
<1>8. CASE UNCHANGED <<pc, task, overlay, overlayFree>>
  BY <1>8 DEF Control
<1>9. ASSUME NEW s, PushBatch(s) \/ StreamStep(s) \/ TakeDown(s) \/ UNCHANGED vars
      PROVE  UNCHANGED <<pc, task, overlay, overlayFree>>
  BY <1>9 DEF PushBatch, StreamStep, CopyDone, ReleasePinnedInputCallback, TakeDown, DestroyQueues, pools, vars
<1>10. QED
  BY <1>2, <1>3, <1>4, <1>5, <1>6, <1>7, <1>8, <1>9, Steps

--------------------------------------------------------------------------------

\* The next number belongs to no batch yet.
LEMMA FreshNumber ==
    ASSUME Ledger, NEW s \in Batches, s = Cardinality(accepted \union refused)
    PROVE  /\ accepted \union refused = 0 .. s - 1
           /\ s \notin accepted /\ s \notin refused /\ s \notin InFlight /\ s \notin published
<1>1. PICK n \in 0 .. MaxSeq : accepted \union refused = 0 .. n - 1
  BY DEF Ledger
<1>2. n \in Nat /\ Cardinality(0 .. n - 1) = n
  BY FS_Interval, Constants
<1>3. s = n /\ s \notin 0 .. s - 1
  BY <1>1, <1>2
<1>4. QED
  BY <1>1, <1>3 DEF Ledger

\* Every batch stays in one place, and what is inside changes only where a batch
\* comes in, where a thread ends with one, and where the queues are destroyed.
LEMMA ApartStep ==
    Types /\ Control /\ Apart /\ Ledger /\ [Next]_vars =>
        /\ Apart'
        /\ \/ \E s \in Batches : /\ PushBatch(s) /\ Len(rawQ) < RawCap
                                 /\ InFlight' = InFlight \union {s}
           \/ \E s \in Batches : PushBatch(s) /\ ~(Len(rawQ) < RawCap) /\ InFlight' = InFlight
           \/ \E w \in Workers : LetsGo(w) /\ InFlight' = InFlight \ {task[w]}
           \/ \E object \in Range(Order) : /\ TakeDown(object) /\ InFlight' \subseteq InFlight
                                           /\ object # "queues" => InFlight' = InFlight
           \/ InFlight' = InFlight /\ UNCHANGED <<ledger, down>>
<1> DEFINE Kept == InFlight' = InFlight /\ UNCHANGED <<ledger, down>>
<1> SUFFICES ASSUME Types, Control, Apart, Ledger, [Next]_vars
             PROVE  /\ Apart'
                    /\ \/ \E s \in Batches : /\ PushBatch(s) /\ Len(rawQ) < RawCap
                                             /\ InFlight' = InFlight \union {s}
                       \/ \E s \in Batches : /\ PushBatch(s) /\ ~(Len(rawQ) < RawCap)
                                             /\ InFlight' = InFlight
                       \/ \E w \in Workers : LetsGo(w) /\ InFlight' = InFlight \ {task[w]}
                       \/ \E object \in Range(Order) :
                             /\ TakeDown(object) /\ InFlight' \subseteq InFlight
                             /\ object # "queues" => InFlight' = InFlight
                       \/ Kept
  OBVIOUS
<1>0. TypeQueues /\ TypeThreads
  BY DEF Types
<1>u. ASSUME UNCHANGED <<queues, task>> PROVE Apart' /\ InFlight' = InFlight
  BY <1>u DEF Apart, Tasks, InFlight, queues
<1>w. \A w : w \in PrepWorkers \/ w \in InfWorkers \/ w \in PostWorkers => w \in Workers
  BY Constants
<1>1. ASSUME NEW s \in Batches, PushBatch(s)
      PROVE  /\ Apart'
             /\ Len(rawQ) < RawCap => InFlight' = InFlight \union {s}
             /\ ~(Len(rawQ) < RawCap) => InFlight' = InFlight
  <2>1. s \notin InFlight
    BY <1>1, FreshNumber DEF PushBatch
  <2>2. CASE Len(rawQ) < RawCap
    <3>1. rawQ' = Append(rawQ, s) /\ UNCHANGED <<prepQ, infQ, task>>
      BY <1>1, <2>2 DEF PushBatch
    <3>2. QED
      BY <1>0, <2>1, <2>2, <3>1, MoveIn
  <2>3. CASE ~(Len(rawQ) < RawCap)
    BY <1>1, <1>u, <2>3 DEF PushBatch, queues
  <2>4. QED
    BY <2>2, <2>3
<1>2. ASSUME NEW w \in PrepWorkers, PopRaw(w) PROVE Apart' /\ Kept
  <2>1. /\ rawQ # <<>> /\ Take(w, Head(rawQ)) /\ rawQ' = Tail(rawQ) /\ UNCHANGED <<prepQ, infQ>>
        /\ task[w] = None /\ UNCHANGED <<ledger, down>>
    BY <1>2, <1>w DEF PopRaw, At, Control
  <2>2. QED
    BY <1>0, <1>w, <2>1, MoveOutRaw
<1>3. ASSUME NEW w \in InfWorkers, PopPrep(w) PROVE Apart' /\ Kept
  <2>1. /\ prepQ # <<>> /\ Take(w, Head(prepQ)) /\ prepQ' = Tail(prepQ) /\ UNCHANGED <<rawQ, infQ>>
        /\ task[w] = None /\ UNCHANGED <<ledger, down>>
    BY <1>3, <1>w DEF PopPrep, At, Control
  <2>2. QED
    BY <1>0, <1>w, <2>1, MoveOutPrep
<1>4. ASSUME NEW w \in PostWorkers, PopInf(w) PROVE Apart' /\ Kept
  <2>1. /\ infQ # <<>> /\ Take(w, Head(infQ)) /\ infQ' = Tail(infQ) /\ UNCHANGED <<rawQ, prepQ>>
        /\ task[w] = None /\ UNCHANGED <<ledger, down>>
    BY <1>4, <1>w DEF PopInf, At, Control
  <2>2. QED
    BY <1>0, <1>w, <2>1, MoveOutInf
<1>5. ASSUME NEW w \in PrepWorkers, PushPrep(w) PROVE Apart' /\ Kept
  <2>1. /\ Take(w, None) /\ prepQ' = Append(prepQ, task[w]) /\ UNCHANGED <<rawQ, infQ>>
        /\ pc[w] = "push" /\ UNCHANGED <<ledger, down>>
    BY <1>5 DEF PushPrep, At
  <2>2. task[w] \in Batches
    BY <1>w, <2>1, HasBatch
  <2>3. QED
    BY <1>0, <1>w, <2>1, <2>2, MoveToPrep
<1>6. ASSUME NEW w \in InfWorkers, PushInf(w) PROVE Apart' /\ Kept
  <2>1. /\ Take(w, None) /\ infQ' = Append(infQ, task[w]) /\ UNCHANGED <<rawQ, prepQ>>
        /\ pc[w] = "push" /\ UNCHANGED <<ledger, down>>
    BY <1>6 DEF PushInf, At
  <2>2. task[w] \in Batches
    BY <1>w, <2>1, HasBatch
  <2>3. QED
    BY <1>0, <1>w, <2>1, <2>2, MoveToInf
<1>7. ASSUME NEW w \in Workers, LetsGo(w) PROVE Apart' /\ InFlight' = InFlight \ {task[w]}
  <2>1. Take(w, None) /\ UNCHANGED queues
    BY <1>7 DEF LetsGo
  <2>2. QED
    BY <1>0, <2>1, MoveAway
<1>8. ASSUME NEW object, TakeDown(object)
      PROVE  /\ Apart' /\ InFlight' \subseteq InFlight
             /\ object # "queues" => InFlight' = InFlight
  <2>1. CASE object # "queues"
    BY <1>8, <1>u, <2>1 DEF TakeDown
  <2>2. CASE object = "queues"
    <3>1. rawQ' = <<>> /\ prepQ' = <<>> /\ infQ' = <<>> /\ task' = task
      BY <1>8, <2>2 DEF TakeDown, DestroyQueues
    <3>2. QED
      BY <2>2, <3>1, Emptied DEF Apart, Tasks, InFlight
  <2>3. QED
    BY <2>1, <2>2
<1>9. ASSUME NEW w, \/ AcquirePinned(w) \/ Submit(w) \/ Launch(w) \/ Sync(w) \/ StreamStep(w)
                    \/ AcquireOverlay(w) \/ Strolls(w) \/ UNCHANGED vars
      PROVE  Apart' /\ Kept
  <2>1. UNCHANGED <<queues, task, ledger, down>>
    BY <1>9 DEF AcquirePinned, Submit, Launch, LaunchHostFunc, LaunchHostFuncFails, Sync, StreamStep, CopyDone, ReleasePinnedInputCallback, AcquireOverlay, Strolls,
                vars
  <2>2. QED
    BY <1>u, <2>1
<1>10. QED
  BY <1>1, <1>2, <1>3, <1>4, <1>5, <1>6, <1>7, <1>8, <1>9, Steps

\* The ledger agrees with what is inside.
LEMMA LedgerStep == Types /\ Control /\ Apart /\ Ledger /\ [Next]_vars => Ledger'
<1> SUFFICES ASSUME Types, Control, Apart, Ledger, [Next]_vars PROVE Ledger'
  OBVIOUS
<1>1. ASSUME NEW s \in Batches, PushBatch(s), Len(rawQ) < RawCap, InFlight' = InFlight \union {s}
      PROVE  Ledger'
  <2>1. /\ accepted \union refused = 0 .. s - 1
        /\ s \notin accepted /\ s \notin refused /\ s \notin InFlight /\ s \notin published
    BY <1>1, FreshNumber DEF PushBatch
  <2>2. accepted' = accepted \union {s} /\ UNCHANGED <<refused, published>>
    BY <1>1 DEF PushBatch
  <2>3. accepted' \union refused' = 0 .. (s + 1) - 1 /\ s + 1 \in 0 .. MaxSeq
    BY <2>1, <2>2, Constants DEF Batches
  <2>4. /\ InFlight' \union published' \subseteq accepted' /\ InFlight' \intersect published' = {}
        /\ accepted' \intersect refused' = {}
    BY <1>1, <2>1, <2>2 DEF Ledger
  <2>5. QED
    BY <2>3, <2>4 DEF Ledger
<1>2. ASSUME NEW s \in Batches, PushBatch(s), ~(Len(rawQ) < RawCap), InFlight' = InFlight
      PROVE  Ledger'
  <2>1. /\ accepted \union refused = 0 .. s - 1
        /\ s \notin accepted /\ s \notin refused /\ s \notin InFlight /\ s \notin published
    BY <1>2, FreshNumber DEF PushBatch
  <2>2. refused' = refused \union {s} /\ UNCHANGED <<accepted, published>>
    BY <1>2 DEF PushBatch
  <2>3. accepted' \union refused' = 0 .. (s + 1) - 1 /\ s + 1 \in 0 .. MaxSeq
    BY <2>1, <2>2, Constants DEF Batches
  <2>4. /\ InFlight' \union published' \subseteq accepted' /\ InFlight' \intersect published' = {}
        /\ accepted' \intersect refused' = {}
    BY <1>2, <2>1, <2>2 DEF Ledger
  <2>5. QED
    BY <2>3, <2>4 DEF Ledger
<1>3. ASSUME NEW w \in Workers, LetsGo(w), InFlight' = InFlight \ {task[w]} PROVE Ledger'
  <2>1. UNCHANGED <<accepted, refused>>
    BY <1>3 DEF LetsGo
  <2>2. published' = published \/ (w \in PostWorkers /\ published' = published \union {task[w]})
    BY <1>3 DEF LetsGo
  <2>3. w \in PostWorkers => task[w] \in InFlight
    <3>1. w \in PostWorkers => task[w] # None
      BY <1>3 DEF LetsGo, Control
    <3>2. QED
      BY <3>1, TasksAre, InFlightIs DEF Types
  <2>4. QED
    BY <1>3, <2>1, <2>2, <2>3 DEF Ledger
<1>4. ASSUME InFlight' \subseteq InFlight, UNCHANGED ledger PROVE Ledger'
  BY <1>4 DEF Ledger, ledger
<1>5. \A object : TakeDown(object) => UNCHANGED ledger
  BY DEF TakeDown
<1>6. QED
  BY <1>1, <1>2, <1>3, <1>4, <1>5, ApartStep

--------------------------------------------------------------------------------

\* The steps of the destructor.

\* The ten steps.
LEMMA Steps10 ==
    /\ Len(Order) = 10 /\ Range(Order) = {Order[i] : i \in 1 .. 10}
    /\ Order[1] = "is_running_" /\ Order[2] = "q_raw_" /\ Order[3] = "q_prep_"
    /\ Order[4] = "q_inf_" /\ Order[5] = "pinnedPool_" /\ Order[6] = "overlayPool_"
    /\ Order[7] = "threads" /\ Order[8] = "sessions_" /\ Order[9] = "queues" /\ Order[10] = "pools"
    /\ \A i, j \in 1 .. 10 : Order[i] = Order[j] => i = j
<1>1. /\ Order[1] = "is_running_" /\ Order[2] = "q_raw_" /\ Order[3] = "q_prep_"
      /\ Order[4] = "q_inf_" /\ Order[5] = "pinnedPool_" /\ Order[6] = "overlayPool_"
      /\ Order[7] = "threads" /\ Order[8] = "sessions_" /\ Order[9] = "queues" /\ Order[10] = "pools"
  BY DEF Order
<1>2. Len(Order) = 10 /\ DOMAIN Order = 1 .. 10
  BY DEF Order
<1>3. ASSUME NEW i \in 1 .. 10, NEW j \in 1 .. 10, Order[i] = Order[j] PROVE i = j
  <2>1. /\ i = 1 \/ i = 2 \/ i = 3 \/ i = 4 \/ i = 5 \/ i = 6 \/ i = 7 \/ i = 8 \/ i = 9 \/ i = 10
        /\ j = 1 \/ j = 2 \/ j = 3 \/ j = 4 \/ j = 5 \/ j = 6 \/ j = 7 \/ j = 8 \/ j = 9 \/ j = 10
    OBVIOUS
  <2>2. QED
    BY <1>1, <1>3, <2>1
<1>4. Range(Order) = {Order[i] : i \in 1 .. 10}
  BY <1>2 DEF Range
<1>5. QED
  BY <1>1, <1>2, <1>3, <1>4

\* The k-th step is done when at least k are.
LEMMA Done ==
    ASSUME NEW n \in 0 .. 10, NEW k \in 1 .. 10
    PROVE  Order[k] \in TakenDown(n) <=> k <= n
BY Steps10 DEF TakenDown

\* How many are done.
LEMMA DoneCount == ASSUME NEW n \in 0 .. 10 PROVE Cardinality(TakenDown(n)) = n
<1> DEFINE f == [i \in 1 .. n |-> Order[i]]
<1>1. f \in Bijection(1 .. n, TakenDown(n))
  <2>1. f \in [1 .. n -> TakenDown(n)]
    BY DEF TakenDown
  <2>2. \A i, j \in 1 .. n : f[i] = f[j] => i = j
    BY Steps10
  <2>3. \A y \in TakenDown(n) : \E i \in 1 .. n : f[i] = y
    BY DEF TakenDown
  <2>4. QED
    BY <2>1, <2>2, <2>3 DEF Bijection, Injection, Surjection, IsInjective
<1>2. IsFiniteSet(1 .. n) /\ Cardinality(1 .. n) = n
  <2>1. n \in Int /\ 1 \in Int /\ n >= 0 /\ (1 > n => n = 0) /\ (~(1 > n) => n - 1 + 1 = n)
    OBVIOUS
  <2>2. IsFiniteSet(1 .. n) /\ Cardinality(1 .. n) = IF 1 > n THEN 0 ELSE n - 1 + 1
    BY <2>1, FS_Interval
  <2>3. QED
    BY <2>1, <2>2
<1>3. QED
  BY <1>1, <1>2, FS_Bijection DEF ExistsBijection

\* What is done implies what comes before it.
LEMMA DoneBefore ==
    ASSUME Teardown
    PROVE  /\ Stopped("pools") => Stopped("queues")
           /\ Stopped("queues") => Stopped("sessions_")
           /\ Stopped("sessions_") => Stopped("threads")
           /\ Stopped("threads") => Stopped("is_running_")
           /\ down # {} => Stopped("is_running_")
<1>1. PICK n \in 0 .. 10 : down = TakenDown(n)
  BY DEF Teardown
<1>2. \A k \in 1 .. 10 : Order[k] \in down <=> k <= n
  BY <1>1, Done
<1>3. /\ "is_running_" \in down <=> 1 <= n
      /\ "threads" \in down <=> 7 <= n
      /\ "sessions_" \in down <=> 8 <= n
      /\ "queues" \in down <=> 9 <= n
      /\ "pools" \in down <=> 10 <= n
  BY <1>2, Steps10
<1>4. n = 0 => down = {}
  BY <1>1 DEF TakenDown
<1>5. QED
  BY <1>3, <1>4 DEF Stopped

\* The destructor takes one step after the other, and what it has joined,
\* drained and destroyed stays so.
LEMMA TeardownStep == Types /\ Control /\ Teardown /\ [Next]_vars => Teardown'
<1> SUFFICES ASSUME Types, Control, Teardown, [Next]_vars PROVE Teardown'
  OBVIOUS
<1>0. PICK n \in 0 .. 10 : down = TakenDown(n)
  BY DEF Teardown
<1>w. \A w : w \in PrepWorkers \/ w \in InfWorkers \/ w \in PostWorkers => w \in Workers
  BY Constants
<1>1. CASE \E object \in Range(Order) : TakeDown(object)
  <2>1. PICK object \in Range(Order) : TakeDown(object)
    BY <1>1
  <2>2. /\ n < 10 /\ object = Order[n + 1] /\ MayTakeDown(object) /\ down' = down \union {object}
        /\ UNCHANGED pc
    BY <1>0, <2>1, DoneCount, Steps10 DEF TakeDown
  <2>3. n + 1 \in 0 .. 10 /\ down' = TakenDown(n + 1)
    BY <1>0, <2>2 DEF TakenDown
  <2>4. Stopped("threads")' => \A w \in Workers : pc'[w] = "exited"
    BY <2>2 DEF Stopped, Teardown, MayTakeDown, At
  <2>5. UNCHANGED stream
    BY <2>1 DEF TakeDown, DestroyQueues, pools
  <2>6. Stopped("sessions_")' => \A w \in InfWorkers : stream'[w] = <<>>
    BY <2>2, <2>5 DEF Stopped, Teardown, MayTakeDown
  <2>7. Stopped("queues")' => rawQ' = <<>> /\ prepQ' = <<>> /\ infQ' = <<>>
    <3>1. CASE object = "queues"
      BY <2>1, <3>1 DEF TakeDown, DestroyQueues
    <3>2. CASE object # "queues"
      BY <2>1, <2>2, <3>2 DEF TakeDown, Stopped, Teardown, queues
    <3>3. QED
      BY <3>1, <3>2
  <2>8. QED
    BY <2>3, <2>4, <2>6, <2>7 DEF Teardown
\* No thread that has been joined steps.
<1>2. ASSUME NEW w \in Workers, \A v \in Workers : pc[v] = "exited",
             \/ PopRaw(w) \/ AcquirePinned(w) \/ PushPrep(w) \/ PopPrep(w) \/ Submit(w) \/ Launch(w) \/ Sync(w)
             \/ PushInf(w) \/ PopInf(w) \/ AcquireOverlay(w) \/ Strolls(w) \/ LetsGo(w)
      PROVE  FALSE
  BY <1>2 DEF PopRaw, AcquirePinned, PushPrep, PopPrep, Submit, Launch, LaunchHostFunc, LaunchHostFuncFails, Sync, PushInf, PopInf,
              AcquireOverlay, Strolls, LetsGo, At
<1>3. ASSUME NEW w \in Workers,
             \/ PopRaw(w) \/ AcquirePinned(w) \/ PushPrep(w) \/ PopPrep(w) \/ Submit(w) \/ Launch(w) \/ Sync(w)
             \/ PushInf(w) \/ PopInf(w) \/ AcquireOverlay(w) \/ Strolls(w) \/ LetsGo(w)
      PROVE  Teardown'
  <2>1. UNCHANGED down
    BY <1>3 DEF PopRaw, AcquirePinned, PushPrep, PopPrep, Submit, Launch, LaunchHostFunc, LaunchHostFuncFails, Sync, PushInf, PopInf,
                AcquireOverlay, Strolls, LetsGo
  <2>2. ~Stopped("threads")
    BY <1>2, <1>3 DEF Teardown
  <2>3. ~Stopped("sessions_") /\ ~Stopped("queues")
    BY <2>2, DoneBefore
  <2>4. QED
    BY <1>0, <2>1, <2>2, <2>3 DEF Teardown, Stopped
<1>4. ASSUME NEW w \in InfWorkers, StreamStep(w) PROVE Teardown'
  <2>1. UNCHANGED <<down, queues, pc>> /\ stream[w] # <<>>
    BY <1>4 DEF StreamStep, CopyDone, ReleasePinnedInputCallback
  <2>2. ~Stopped("sessions_")
    BY <2>1 DEF Teardown
  <2>3. QED
    BY <1>0, <2>1, <2>2 DEF Teardown, Stopped, queues
<1>5. ASSUME NEW s \in Batches, PushBatch(s) PROVE Teardown'
  <2>1. UNCHANGED <<down, pc>> /\ down = {}
    BY <1>5 DEF PushBatch
  <2>2. QED
    BY <1>0, <2>1 DEF Teardown, Stopped
<1>6. CASE UNCHANGED vars
  BY <1>0, <1>6 DEF Teardown, Stopped, vars, queues, pools
<1>7. QED
  BY <1>1, <1>3, <1>4, <1>5, <1>6, <1>w, Steps

--------------------------------------------------------------------------------

\* What was pushed and is neither inside nor published.
Missing == (accepted \union refused) \ (published \union InFlight)

\* One more in a set of batches.
LEMMA OneMore ==
    ASSUME NEW A, NEW B, A \subseteq Batches, NEW s, B \subseteq A \union {s}, B \subseteq Batches
    PROVE  /\ Cardinality(A) \in Nat /\ Cardinality(B) \in Nat
           /\ Cardinality(B) <= Cardinality(A) + 1
           /\ B \subseteq A => Cardinality(B) <= Cardinality(A)
<1>1. IsFiniteSet(Batches)
  BY FS_Interval, Constants DEF Batches
<1>2. IsFiniteSet(A) /\ IsFiniteSet(B)
  BY <1>1, FS_Subset
<1>3. Cardinality(A) \in Nat /\ Cardinality(B) \in Nat
  BY <1>2, FS_CardinalityType
<1>4. /\ IsFiniteSet(A \union {s})
      /\ Cardinality(A \union {s}) = Cardinality(A) \/ Cardinality(A \union {s}) = Cardinality(A) + 1
  BY <1>2, FS_AddElement
<1>5. Cardinality(B) <= Cardinality(A \union {s})
  BY <1>4, FS_Subset
<1>6. B \subseteq A => Cardinality(B) <= Cardinality(A)
  BY <1>2, FS_Subset
<1>7. QED
  BY <1>3, <1>4, <1>5, <1>6

\* Every batch that gets lost while the detector runs is counted.
LEMMA LossesStep ==
    Types /\ Control /\ Apart /\ Ledger /\ Teardown /\ LossesCounted /\ [Next]_vars => LossesCounted'
<1> SUFFICES ASSUME Types, Control, Apart, Ledger, Teardown, LossesCounted, [Next]_vars,
                    ~Stopped("is_running_")'
             PROVE  Cardinality(Missing') <= dropped'
  BY DEF LossesCounted, Missing, Stopped
<1>0. down = {} /\ ~Stopped("is_running_")
  <2>1. ASSUME down # {} PROVE FALSE
    <3>1. "is_running_" \in down
      BY <2>1, DoneBefore DEF Stopped
    <3>2. down \subseteq down'
      BY ApartStep DEF PushBatch, LetsGo, TakeDown
    <3>3. QED
      BY <3>1, <3>2 DEF Stopped
  <2>2. QED
    BY <2>1 DEF Stopped
<1>1. Cardinality(Missing) <= dropped
  BY <1>0 DEF LossesCounted, Missing
<1>2. Missing \subseteq Batches /\ Missing' \subseteq Batches /\ dropped \in Nat
  BY TypeLedgerStep DEF Types, TypeLedger, Missing
<1>3. ASSUME Missing' \subseteq Missing, dropped' = dropped \/ dropped' = dropped + 1
      PROVE  Cardinality(Missing') <= dropped'
  BY <1>1, <1>2, <1>3, OneMore
<1>4. ASSUME NEW s, Missing' \subseteq Missing \union {s}, dropped' = dropped + 1
      PROVE  Cardinality(Missing') <= dropped'
  <2>1. /\ Cardinality(Missing) \in Nat /\ Cardinality(Missing') \in Nat
        /\ Cardinality(Missing') <= Cardinality(Missing) + 1
    BY <1>2, <1>4, OneMore
  <2>2. QED
    BY <1>1, <1>2, <1>4, <2>1
<1>5. ASSUME NEW s \in Batches, PushBatch(s), Len(rawQ) < RawCap, InFlight' = InFlight \union {s}
      PROVE  Cardinality(Missing') <= dropped'
  <2>1. accepted' = accepted \union {s} /\ UNCHANGED <<refused, published, dropped>>
    BY <1>5 DEF PushBatch
  <2>2. Missing' \subseteq Missing
    BY <1>5, <2>1 DEF Missing
  <2>3. QED
    BY <1>3, <2>1, <2>2
<1>6. ASSUME NEW s \in Batches, PushBatch(s), ~(Len(rawQ) < RawCap), InFlight' = InFlight
      PROVE  Cardinality(Missing') <= dropped'
  <2>1. refused' = refused \union {s} /\ dropped' = dropped + 1 /\ UNCHANGED <<accepted, published>>
    BY <1>6 DEF PushBatch
  <2>2. Missing' \subseteq Missing \union {s}
    BY <1>6, <2>1 DEF Missing
  <2>3. QED
    BY <1>4, <2>1, <2>2
<1>7. ASSUME NEW w \in Workers, LetsGo(w), InFlight' = InFlight \ {task[w]}
      PROVE  Cardinality(Missing') <= dropped'
  <2>1. UNCHANGED <<accepted, refused>>
    BY <1>7 DEF LetsGo
  <2>2. CASE dropped' = dropped + 1 /\ published' = published
    <3>1. Missing' \subseteq Missing \union {task[w]}
      BY <1>7, <2>1, <2>2 DEF Missing
    <3>2. QED
      BY <1>4, <2>2, <3>1
  <2>3. CASE published' = published \union {task[w]} /\ dropped' = dropped
    <3>1. Missing' \subseteq Missing
      BY <1>7, <2>1, <2>3 DEF Missing
    <3>2. QED
      BY <1>3, <2>3, <3>1
  <2>4. QED
    BY <1>0, <1>7, <2>2, <2>3 DEF LetsGo, Stopped
<1>8. ASSUME NEW object \in Range(Order), TakeDown(object) PROVE FALSE
  <2>1. Cardinality(down) = 0
    BY <1>0, FS_EmptySet
  <2>2. object = "is_running_" /\ down' = down \union {object}
    BY <1>8, <2>1, Steps10 DEF TakeDown
  <2>3. QED
    BY <2>2 DEF Stopped
<1>9. CASE InFlight' = InFlight /\ UNCHANGED <<ledger, down>>
  <2>1. Missing' \subseteq Missing /\ dropped' = dropped
    BY <1>9 DEF Missing, ledger
  <2>2. QED
    BY <1>3, <2>1
<1>10. QED
  BY <1>5, <1>6, <1>7, <1>8, <1>9, ApartStep

--------------------------------------------------------------------------------

\* The staging buffers.

\* A buffer is held by a batch or by the context of a callback.
Holders ==
    \A b : b \in Held <=> \/ \E s \in Batches : buf[s] = b
                          \/ \E w \in InfWorkers : b \in Contexts(w)

\* These are all the holders there are.
LEMMA HeldIs == TypePools => Holders
<1> SUFFICES ASSUME TypePools PROVE Holders
  OBVIOUS
<1>1. \A b : b \in Range(buf) <=> \E s \in Batches : buf[s] = b
  BY DEF TypePools, Range
<1>2. \A b : b \in UNION {Contexts(w) : w \in InfWorkers}
                <=> \E w \in InfWorkers : b \in Contexts(w)
  OBVIOUS
<1>3. QED
  BY <1>1, <1>2 DEF Held, Holders

\* The same after a step.
LEMMA HeldIsNext == TypePools' => Holders'
BY HeldIs, PTL

\* The buffers are free or held, and held by one batch.
Owned ==
    /\ pinnedFree \intersect Held = {}
    /\ Buffers \subseteq pinnedFree \union Held
    /\ NoBufferShared

--------------------------------------------------------------------------------

\* What happens on a stream, and which contexts there are.

\* What is on a stream is at one of its positions.
LEMMA InRange ==
    ASSUME NEW S, NEW q \in Seq(S), NEW x
    PROVE  x \in Range(q) <=> \E i \in 1 .. Len(q) : q[i] = x
BY LenProperties DEF Range

\* What is enqueued differs by its kind and its buffer.
LEMMA Kinds ==
    /\ \A b, c : Copy(b) # Callback(c) /\ Orphan(b) # Callback(c) /\ Copy(b) # Orphan(c)
    /\ \A b, c : (Copy(b) = Copy(c) => b = c) /\ (Callback(b) = Callback(c) => b = c)
    /\ \A b \in Buffers : Copy(b) \in Ops /\ Orphan(b) \in Ops /\ Callback(b) \in Ops
BY DEF Copy, Orphan, Callback, Ops

\* No context is made and none deleted.
KeepsContexts ==
    /\ stream' \in [InfWorkers -> Seq(Ops)] /\ UNCHANGED leaked
    /\ \A w \in InfWorkers : Contexts(w)' = Contexts(w)

\* So it is when nothing happens there.
LEMMA Untouched == TypePools /\ UNCHANGED <<stream, leaked>> => KeepsContexts
BY DEF TypePools, KeepsContexts, Contexts

\* Something is enqueued on the stream of one session.
LEMMA Enqueued ==
    ASSUME TypePools, NEW w \in InfWorkers, NEW x \in Ops, stream' = [stream EXCEPT ![w] = Append(@, x)]
    PROVE  /\ stream' \in [InfWorkers -> Seq(Ops)] /\ stream'[w] = Append(stream[w], x)
           /\ Range(stream'[w]) = Range(stream[w]) \union {x}
           /\ \A v \in InfWorkers : v # w => stream'[v] = stream[v]
<1>1. stream \in [InfWorkers -> Seq(Ops)] /\ stream[w] \in Seq(Ops)
  BY DEF TypePools
<1>2. Append(stream[w], x) \in Seq(Ops) /\ Range(Append(stream[w], x)) = Range(stream[w]) \union {x}
  BY <1>1, Appended
<1>3. QED
  BY <1>1, <1>2, Put

\* A copy makes no context.
LEMMA NewCopy ==
    ASSUME TypePools, NEW w \in InfWorkers, NEW b \in Buffers,
           stream' = [stream EXCEPT ![w] = Append(@, Copy(b))], UNCHANGED leaked
    PROVE  KeepsContexts
<1>1. /\ stream' \in [InfWorkers -> Seq(Ops)] /\ Range(stream'[w]) = Range(stream[w]) \union {Copy(b)}
      /\ \A v \in InfWorkers : v # w => stream'[v] = stream[v]
  BY Enqueued, Kinds
<1>2. \A v \in InfWorkers : \A c : Callback(c) \in Range(stream'[v]) <=> Callback(c) \in Range(stream[v])
  BY <1>1, Kinds
<1>3. ASSUME NEW v \in InfWorkers PROVE Contexts(v)' = Contexts(v)
  BY <1>2 DEF Contexts
<1>4. QED
  BY <1>1, <1>3 DEF KeepsContexts

\* A callback is launched, or not, for a batch's buffer.
LEMMA NewContext ==
    ASSUME TypePools, Owned, NEW s \in Batches, buf[s] # None, NEW w \in InfWorkers,
           UNCHANGED <<buf, pinnedFree>>,
           \/ stream' = [stream EXCEPT ![w] = Append(@, Callback(buf[s]))] /\ UNCHANGED leaked
           \/ leaked' = [leaked EXCEPT ![w] = @ \union {buf[s]}] /\ UNCHANGED stream
    PROVE  /\ TypePools' /\ Owned'
           /\ \A v \in InfWorkers :
                 Contexts(v)' = IF v = w THEN Contexts(w) \union {buf[s]} ELSE Contexts(v)
<1>1. /\ buf \in [Batches -> Buffers \union {None}] /\ pinnedFree \subseteq Buffers
      /\ stream \in [InfWorkers -> Seq(Ops)] /\ leaked \in [InfWorkers -> SUBSET Buffers]
      /\ None \notin Buffers /\ buf[s] \in Buffers
  BY Constants DEF TypePools
<1>2. /\ stream' \in [InfWorkers -> Seq(Ops)] /\ leaked' \in [InfWorkers -> SUBSET Buffers]
      /\ \A v \in InfWorkers : \A c \in Buffers :
            (Callback(c) \in Range(stream'[v]) \/ c \in leaked'[v])
               <=> (Callback(c) \in Range(stream[v]) \/ c \in leaked[v] \/ (v = w /\ c = buf[s]))
  <2>1. CASE stream' = [stream EXCEPT ![w] = Append(@, Callback(buf[s]))] /\ UNCHANGED leaked
    <3>1. /\ stream' \in [InfWorkers -> Seq(Ops)]
          /\ Range(stream'[w]) = Range(stream[w]) \union {Callback(buf[s])}
          /\ \A v \in InfWorkers : v # w => stream'[v] = stream[v]
      BY <1>1, <2>1, Enqueued, Kinds
    <3>2. QED
      BY <1>1, <2>1, <3>1, Kinds
  <2>2. CASE leaked' = [leaked EXCEPT ![w] = @ \union {buf[s]}] /\ UNCHANGED stream
    <3>1. leaked[w] \union {buf[s]} \in SUBSET Buffers
      BY <1>1
    <3>2. leaked' \in [InfWorkers -> SUBSET Buffers]
      BY <1>1, <2>2, <3>1, Put
    <3>3. \A v \in InfWorkers : leaked'[v] = IF v = w THEN leaked[w] \union {buf[s]} ELSE leaked[v]
      BY <1>1, <2>2
    <3>4. QED
      BY <1>1, <2>2, <3>2, <3>3
  <2>3. QED
    BY <2>1, <2>2
<1>3. TypePools'
  BY <1>1, <1>2 DEF TypePools
<1>4. \A v \in InfWorkers : Contexts(v)' = IF v = w THEN Contexts(w) \union {buf[s]} ELSE Contexts(v)
  <2>1. ASSUME NEW v \in InfWorkers
        PROVE  \A c : c \in Contexts(v)' <=> c \in Contexts(v) \/ (v = w /\ c = buf[s])
    BY <1>1, <1>2, <2>1 DEF Contexts
  <2>2. QED
    BY <2>1
<1>5. \A b : b \in Held' <=> b \in Held
  BY <1>3, <1>4, HeldIs, HeldIsNext DEF Holders
<1>6. QED
  BY <1>3, <1>4, <1>5 DEF Owned, NoBufferShared

\* A copy that loses its batch deletes no context.
LEMMA Disowned ==
    ASSUME TypePools, NEW w \in InfWorkers, stream' = [stream EXCEPT ![w] = Disown(@)], UNCHANGED leaked,
           stream[w] # <<>> => \E b \in Buffers : stream[w][Len(stream[w])] = Copy(b)
    PROVE  /\ KeepsContexts /\ Len(stream'[w]) = Len(stream[w])
           /\ \A v \in InfWorkers : v # w => stream'[v] = stream[v]
           /\ \A i \in 1 .. Len(stream[w]) :
                 IF i = Len(stream[w]) THEN \E b \in Buffers : stream'[w][i] = Orphan(b)
                                       ELSE stream'[w][i] = stream[w][i]
<1>1. /\ stream \in [InfWorkers -> Seq(Ops)] /\ leaked \in [InfWorkers -> SUBSET Buffers]
      /\ stream[w] \in Seq(Ops)
  BY DEF TypePools
<1>2. /\ stream'[w] = Disown(stream[w])
      /\ \A v \in InfWorkers : v # w => stream'[v] = stream[v]
  BY <1>1
<1>3. CASE stream[w] = <<>>
  <2>1. Disown(stream[w]) = stream[w]
    BY <1>3 DEF Disown
  <2>2. stream' = stream
    BY <1>1, <2>1
  <2>3. KeepsContexts
    BY <2>2, Untouched
  <2>4. 1 .. Len(stream[w]) = {}
    BY <1>3
  <2>5. QED
    BY <2>2, <2>3, <2>4
<1>4. CASE stream[w] # <<>>
  <2>1. PICK b \in Buffers : stream[w][Len(stream[w])] = Copy(b)
    BY <1>4
  <2> DEFINE q == stream[w]
             n == Len(stream[w])
  <2>2. n \in Nat \ {0} /\ n \in 1 .. n /\ q \in [1 .. n -> Ops]
    BY <1>1, <1>4, LenProperties, EmptySeq
  <2>3. Orphan(q[n][2]) = Orphan(b) /\ Orphan(b) \in Ops
    <3>1. q[n][2] = b
      BY <2>1 DEF Copy
    <3>2. QED
      BY <3>1, Kinds
  <2>4. stream'[w] = [q EXCEPT ![n] = Orphan(b)]
    BY <1>2, <1>4, <2>2, <2>3 DEF Disown
  <2>5. /\ stream'[w] \in [1 .. n -> Ops]
        /\ \A i \in 1 .. n : stream'[w][i] = IF i = n THEN Orphan(b) ELSE q[i]
    BY <2>2, <2>3, <2>4
  <2>6. stream'[w] \in Seq(Ops) /\ Len(stream'[w]) = n
    <3> HIDE DEF n
    <3>1. stream'[w] \in Seq(Ops)
      BY <2>2, <2>5, IsASeq
    <3>2. DOMAIN stream'[w] = 1 .. n /\ DOMAIN stream'[w] = 1 .. Len(stream'[w]) /\ Len(stream'[w]) \in Nat
      BY <2>5, <3>1, LenProperties
    <3>3. QED
      BY <2>2, <3>1, <3>2
  <2>7. stream' \in [InfWorkers -> Seq(Ops)]
    BY <1>1, <1>2, <2>6, Put
  <2>8. \A c : Callback(c) \in Range(stream'[w]) <=> Callback(c) \in Range(q)
    <3>1. \A c : Callback(c) \in Range(stream'[w]) <=> \E i \in 1 .. n : stream'[w][i] = Callback(c)
      BY <2>6, InRange
    <3>2. \A c : Callback(c) \in Range(q) <=> \E i \in 1 .. n : q[i] = Callback(c)
      BY <1>1, InRange
    <3>3. \A c : q[n] # Callback(c) /\ Orphan(b) # Callback(c)
      BY <2>1, Kinds
    <3>4. QED
      BY <2>5, <3>1, <3>2, <3>3
  <2>9. \A v \in InfWorkers : Contexts(v)' = Contexts(v)
    BY <1>2, <2>8 DEF Contexts
  <2>10. QED
    BY <1>2, <2>5, <2>6, <2>7, <2>9 DEF KeepsContexts
<1>5. QED
  BY <1>3, <1>4

\* What is at the head of a stream is done.
LEMMA Dequeued ==
    ASSUME TypePools, NEW w \in InfWorkers, stream[w] # <<>>, stream' = [stream EXCEPT ![w] = Tail(@)]
    PROVE  /\ stream' \in [InfWorkers -> Seq(Ops)] /\ stream'[w] = Tail(stream[w])
           /\ Range(stream[w]) = Range(stream'[w]) \union {Head(stream[w])}
           /\ \A v \in InfWorkers : v # w => stream'[v] = stream[v]
<1>1. stream \in [InfWorkers -> Seq(Ops)] /\ stream[w] \in Seq(Ops)
  BY DEF TypePools
<1>2. Tail(stream[w]) \in Seq(Ops) /\ Range(stream[w]) = Range(Tail(stream[w])) \union {Head(stream[w])}
  BY <1>1, Popped
<1>3. QED
  BY <1>1, <1>2, Put

\* A copy is done.
LEMMA CopyLeaves == ASSUME TypePools, NEW w \in InfWorkers, CopyDone(w) PROVE KeepsContexts
<1>1. /\ stream[w] # <<>> /\ stream' = [stream EXCEPT ![w] = Tail(@)] /\ UNCHANGED leaked
      /\ \A c : Head(stream[w]) # Callback(c)
  BY Kinds DEF CopyDone
<1>2. /\ stream' \in [InfWorkers -> Seq(Ops)]
      /\ Range(stream[w]) = Range(stream'[w]) \union {Head(stream[w])}
      /\ \A v \in InfWorkers : v # w => stream'[v] = stream[v]
  BY <1>1, Dequeued
<1>3. \A v \in InfWorkers : \A c : Callback(c) \in Range(stream'[v]) <=> Callback(c) \in Range(stream[v])
  BY <1>1, <1>2
<1>4. ASSUME NEW v \in InfWorkers PROVE Contexts(v)' = Contexts(v)
  BY <1>1, <1>3 DEF Contexts
<1>5. QED
  BY <1>1, <1>2, <1>4 DEF KeepsContexts

\* A callback deletes its context.
LEMMA CallbackLeaves ==
    ASSUME TypePools, Owned, NEW w \in InfWorkers, ReleasePinnedInputCallback(w)
    PROVE  TypePools' /\ Owned' /\ \A v \in InfWorkers : Contexts(v)' \subseteq Contexts(v)
<1>1. /\ buf \in [Batches -> Buffers \union {None}] /\ pinnedFree \subseteq Buffers
      /\ leaked \in [InfWorkers -> SUBSET Buffers] /\ None \notin Buffers
  BY Constants DEF TypePools
<1>2. PICK b \in Buffers :
         /\ stream[w] # <<>> /\ Head(stream[w]) = Callback(b)
         /\ stream' = [stream EXCEPT ![w] = Tail(@)] /\ UNCHANGED <<buf, leaked>>
         /\ pinnedFree' = pinnedFree \union ({b} \ Held')
  BY DEF ReleasePinnedInputCallback
<1>3. /\ stream' \in [InfWorkers -> Seq(Ops)]
      /\ Range(stream[w]) = Range(stream'[w]) \union {Callback(b)}
      /\ \A v \in InfWorkers : v # w => stream'[v] = stream[v]
  BY <1>2, Dequeued
<1>4. TypePools'
  BY <1>1, <1>2, <1>3 DEF TypePools
<1>5. \A v \in InfWorkers : \A c : /\ Callback(c) \in Range(stream'[v]) => Callback(c) \in Range(stream[v])
                                   /\ Callback(c) \in Range(stream[v]) =>
                                         Callback(c) \in Range(stream'[v]) \/ c = b
  BY <1>3, Kinds
<1>6. \A v \in InfWorkers : /\ Contexts(v)' \subseteq Contexts(v)
                            /\ Contexts(v) \subseteq Contexts(v)' \union {b}
  BY <1>2, <1>5 DEF Contexts
<1>7. \A c : /\ c \in Held' => c \in Held
             /\ c \in Held => c \in Held' \/ c = b
  BY <1>2, <1>4, <1>6, HeldIs, HeldIsNext DEF Holders
<1>8. pinnedFree' \intersect Held' = {} /\ Buffers \subseteq pinnedFree' \union Held'
  BY <1>2, <1>7 DEF Owned
<1>9. QED
  BY <1>2, <1>4, <1>6, <1>8 DEF Owned, NoBufferShared

--------------------------------------------------------------------------------

\* How buffers change hands.

\* A batch gives up its buffer.
LEMMA Release ==
    ASSUME TypePools, Owned, NEW s \in Batches, ReleaseBuffer(s), KeepsContexts
    PROVE  TypePools' /\ Owned' /\ \A t \in Batches : buf'[t] = IF t = s THEN None ELSE buf[t]
<1>1. /\ buf \in [Batches -> Buffers \union {None}] /\ pinnedFree \subseteq Buffers
      /\ leaked \in [InfWorkers -> SUBSET Buffers] /\ None \notin Buffers
      /\ stream' \in [InfWorkers -> Seq(Ops)] /\ leaked' = leaked
      /\ \A w \in InfWorkers : Contexts(w)' = Contexts(w)
  BY Constants DEF TypePools, KeepsContexts
<1>2. /\ buf' = [buf EXCEPT ![s] = None]
      /\ pinnedFree' = pinnedFree \union ({buf[s]} \ ({None} \union Held'))
  BY DEF ReleaseBuffer
<1>3. \A t \in Batches : buf'[t] = IF t = s THEN None ELSE buf[t]
  BY <1>1, <1>2
<1>4. TypePools'
  <2>1. buf' \in [Batches -> Buffers \union {None}]
    BY <1>1, <1>2, Put
  <2>2. pinnedFree' \subseteq Buffers
    BY <1>1, <1>2
  <2>3. QED
    BY <1>1, <2>1, <2>2 DEF TypePools
<1>5. \A b \in Buffers : /\ b \in Held' => b \in Held
                         /\ b \in Held => b \in Held' \/ b = buf[s]
  <2>1. \A b \in Buffers : /\ (\E t \in Batches : buf'[t] = b) => \E t \in Batches : buf[t] = b
                           /\ (\E t \in Batches : buf[t] = b) => b = buf[s] \/ \E t \in Batches : buf'[t] = b
    BY <1>1, <1>3
  <2>2. \A b : /\ b \in Held <=> (\E t \in Batches : buf[t] = b) \/ \E w \in InfWorkers : b \in Contexts(w)
               /\ b \in Held' <=> (\E t \in Batches : buf'[t] = b) \/ \E w \in InfWorkers : b \in Contexts(w)
    BY <1>1, <1>4, HeldIs, HeldIsNext DEF Holders
  <2>3. ASSUME NEW b \in Buffers
        PROVE  (b \in Held' => b \in Held) /\ (b \in Held => b \in Held' \/ b = buf[s])
    BY <2>1, <2>2
  <2>4. QED
    BY <2>3
<1>6. pinnedFree' \intersect Held' = {} /\ Buffers \subseteq pinnedFree' \union Held'
  <2>1. ASSUME NEW b \in pinnedFree', b \in Held' PROVE FALSE
    BY <1>1, <1>2, <1>5, <2>1 DEF Owned
  <2>2. ASSUME NEW b \in Buffers PROVE b \in pinnedFree' \union Held'
    <3>1. CASE b \in pinnedFree \/ b \in Held'
      BY <1>2, <3>1
    <3>2. CASE b = buf[s] /\ b \notin Held'
      BY <1>1, <1>2, <3>2
    <3>3. QED
      BY <1>5, <3>1, <3>2 DEF Owned
  <2>3. QED
    BY <2>1, <2>2
<1>7. NoBufferShared'
  BY <1>3 DEF Owned, NoBufferShared
<1>8. QED
  BY <1>3, <1>4, <1>6, <1>7 DEF Owned

\* A batch gets a free buffer.
LEMMA Acquire ==
    ASSUME TypePools, Owned, NEW s \in Batches, buf[s] = None, NEW b \in pinnedFree,
           buf' = [buf EXCEPT ![s] = b], pinnedFree' = pinnedFree \ {b}, KeepsContexts
    PROVE  /\ TypePools' /\ Owned' /\ \A t \in Batches : buf'[t] = IF t = s THEN b ELSE buf[t]
           /\ \A w \in InfWorkers : b \notin Contexts(w)
<1>1. /\ buf \in [Batches -> Buffers \union {None}] /\ pinnedFree \subseteq Buffers
      /\ leaked \in [InfWorkers -> SUBSET Buffers] /\ None \notin Buffers
      /\ stream' \in [InfWorkers -> Seq(Ops)] /\ leaked' = leaked
      /\ \A w \in InfWorkers : Contexts(w)' = Contexts(w)
  BY Constants DEF TypePools, KeepsContexts
<1>2. \A t \in Batches : buf'[t] = IF t = s THEN b ELSE buf[t]
  BY <1>1
<1>3. TypePools'
  <2>1. buf' \in [Batches -> Buffers \union {None}]
    BY <1>1, Put
  <2>2. QED
    BY <1>1, <2>1 DEF TypePools
<1>4. b \notin Held
  BY DEF Owned
<1>5. /\ \A t \in Batches : buf[t] # b
      /\ \A w \in InfWorkers : b \notin Contexts(w)
  BY <1>4, HeldIs DEF Holders
<1>6. \A c \in Buffers : c \in Held' <=> c \in Held \/ c = b
  BY <1>1, <1>2, <1>3, HeldIs, HeldIsNext DEF Holders
<1>7. pinnedFree' \intersect Held' = {} /\ Buffers \subseteq pinnedFree' \union Held'
  BY <1>1, <1>6 DEF Owned
<1>8. NoBufferShared'
  BY <1>2, <1>5 DEF Owned, NoBufferShared
<1>9. QED
  BY <1>2, <1>3, <1>5, <1>7, <1>8 DEF Owned

\* The queues are destroyed after the streams have run empty.
LEMMA Destroy ==
    ASSUME TypePools, Owned, DestroyQueues,
           \A w \in InfWorkers : \A b \in Contexts(w) : \A s \in Batches : buf[s] # b
    PROVE  /\ TypePools' /\ Owned' /\ KeepsContexts
           /\ \A s \in Batches : buf'[s] = None
<1>1. /\ buf \in [Batches -> Buffers \union {None}] /\ pinnedFree \subseteq Buffers
      /\ stream \in [InfWorkers -> Seq(Ops)] /\ leaked \in [InfWorkers -> SUBSET Buffers]
      /\ None \notin Buffers
  BY Constants DEF TypePools
<1>2. /\ buf' = [s \in Batches |-> None] /\ UNCHANGED <<stream, leaked>>
      /\ pinnedFree' = pinnedFree \union (Range(buf) \ {None})
  BY DEF DestroyQueues, HeldByBatch
<1>3. \A b : b \in Range(buf) <=> \E s \in Batches : buf[s] = b
  BY <1>1 DEF Range
<1>4. KeepsContexts
  BY <1>2, Untouched
<1>5. TypePools'
  BY <1>1, <1>2, <1>3 DEF TypePools
<1>6. \A b \in Buffers : b \in Held' <=> \E w \in InfWorkers : b \in Contexts(w)
  <2>1. \A t \in Batches : buf'[t] = None
    BY <1>2
  <2>2. QED
    BY <1>1, <1>4, <1>5, <2>1, HeldIsNext DEF Holders, KeepsContexts
<1>7. pinnedFree' \intersect Held' = {} /\ Buffers \subseteq pinnedFree' \union Held'
  <2>1. ASSUME NEW b \in Buffers, b \in pinnedFree', b \in Held' PROVE FALSE
    <3>1. PICK w \in InfWorkers : b \in Contexts(w)
      BY <1>6, <2>1
    <3>2. b \notin pinnedFree
      BY <3>1, HeldIs DEF Owned, Holders
    <3>3. PICK s \in Batches : buf[s] = b
      BY <1>2, <1>3, <2>1, <3>2
    <3>4. QED
      BY <3>1, <3>3
  <2>2. ASSUME NEW b \in Buffers PROVE b \in pinnedFree' \union Held'
    BY <1>1, <1>2, <1>3, <1>6, <2>2, HeldIs DEF Owned, Holders
  <2>3. pinnedFree' \subseteq Buffers
    BY <1>5 DEF TypePools
  <2>4. QED
    BY <2>1, <2>2, <2>3
<1>8. \A s \in Batches : buf'[s] = None
  BY <1>2
<1>9. QED
  BY <1>4, <1>5, <1>7, <1>8 DEF Owned, NoBufferShared

\* When the queues are destroyed no thread is at work and no copy under way.
LEMMA Quiet ==
    ASSUME Teardown, NEW object, TakeDown(object), object = "queues"
    PROVE  /\ \A w \in Workers : pc[w] = "exited"
           /\ \A w \in InfWorkers : stream[w] = <<>>
<1>1. PICK n \in 0 .. 10 : down = TakenDown(n)
  BY DEF Teardown
<1>2. n < 10 /\ Order[n + 1] = Order[9]
  BY <1>1, DoneCount, Steps10 DEF TakeDown
<1>3. n + 1 \in 1 .. 10 /\ 9 \in 1 .. 10
  BY <1>2
<1>4. n = 8
  BY <1>2, <1>3, Steps10
<1>5. Order[7] \in down /\ Order[8] \in down
  BY <1>1, <1>4, Done
<1>6. Stopped("threads") /\ Stopped("sessions_")
  BY <1>5, Steps10 DEF Stopped
<1>7. QED
  BY <1>6 DEF Teardown

\* While a context has the buffer of a batch, its thread runs the batch.
Streaming ==
    \A w \in InfWorkers : \A b \in Contexts(w) : \A s \in Batches :
        buf[s] = b => task[w] = s /\ pc[w] \in {"run", "sync"}

\* At a thread that makes a context, only the copy of its batch can be last.
LEMMA AtContext ==
    ASSUME Types, Control, Contents, Copying, NEW w \in InfWorkers, pc[w] = "context"
    PROVE  stream[w] # <<>> => \E b \in Buffers : stream[w][Len(stream[w])] = Copy(b)
<1>1. task[w] \in Batches /\ buf[task[w]] # None
  BY Constants, HasBatch DEF Contents
<1>2. buf[task[w]] \in Buffers
  BY <1>1 DEF Types, TypePools
<1>3. QED
  BY <1>2 DEF Copying

\* A batch that is lost takes no context with it.
LEMMA LetsGoKeepsContexts ==
    ASSUME Types, Control, Contents, Copying, NEW w \in Workers, LetsGo(w)
    PROVE  KeepsContexts
<1>1. TypePools /\ UNCHANGED leaked
  BY DEF Types, LetsGo
<1>2. CASE pc[w] = "context"
  <2>1. w \in InfWorkers /\ stream' = [stream EXCEPT ![w] = Disown(@)]
    BY <1>2 DEF LetsGo
  <2>2. stream[w] # <<>> => \E b \in Buffers : stream[w][Len(stream[w])] = Copy(b)
    BY <1>2, <2>1, AtContext
  <2>3. QED
    BY <1>1, <2>1, <2>2, Disowned
<1>3. CASE pc[w] # "context"
  <2>1. stream' = stream
    BY <1>3 DEF LetsGo
  <2>2. QED
    BY <1>1, <2>1, Untouched
<1>4. QED
  BY <1>2, <1>3

\* Buffers are free, with one batch, or with a context.
LEMMA OwnershipStep ==
    Types /\ Control /\ Apart /\ Contents /\ Ownership /\ Copying /\ Teardown /\ [Next]_vars
        => TypePools' /\ Ownership'
<1> SUFFICES ASSUME Types, Control, Apart, Contents, Ownership, Copying, Teardown, [Next]_vars
             PROVE  TypePools' /\ Owned' /\ Streaming'
  BY DEF Ownership, Owned, Streaming
<1>0. TypePools /\ Owned /\ Streaming
  BY DEF Types, Ownership, Owned, Streaming
<1>t. /\ buf \in [Batches -> Buffers \union {None}]
      /\ pc \in [Workers -> Stations] /\ task \in [Workers -> Batches \union {None}]
      /\ None \notin Buffers
  BY Constants DEF Types, TypePools, TypeThreads
<1>w. /\ \A w \in PrepWorkers : w \in Workers /\ w \notin InfWorkers /\ w \notin PostWorkers
      /\ \A w \in InfWorkers : w \in Workers /\ w \notin PrepWorkers /\ w \notin PostWorkers
      /\ \A w \in PostWorkers : w \in Workers /\ w \notin PrepWorkers /\ w \notin InfWorkers
      /\ None \notin Batches
  BY Constants
<1>r. \A w \in InfWorkers : Contexts(w) \subseteq Buffers
  BY DEF Types, TypePools, Contexts
<1>x. UNCHANGED <<stream, leaked>> => KeepsContexts
  BY <1>0, Untouched
<1>u. ASSUME UNCHANGED <<buf, pinnedFree>>, KeepsContexts PROVE TypePools' /\ Owned'
  <2>1. TypePools'
    BY <1>0, <1>u DEF TypePools, KeepsContexts
  <2>2. \A b : b \in Held' <=> b \in Held
    BY <1>0, <1>u, <2>1, HeldIs, HeldIsNext DEF Holders, KeepsContexts
  <2>3. QED
    BY <1>0, <1>u, <2>1, <2>2 DEF Owned, NoBufferShared
<1>v. ASSUME UNCHANGED <<buf, pinnedFree, pc, task>>, KeepsContexts PROVE TypePools' /\ Owned' /\ Streaming'
  BY <1>0, <1>u, <1>v DEF Streaming, KeepsContexts
\* No buffer changes hands, and the thread that moves was not running a batch.
<1>1. ASSUME NEW w \in Workers, pc[w] \notin {"run", "sync"} \/ task[w] = None,
             UNCHANGED <<buf, pinnedFree>>, KeepsContexts,
             \A v \in Workers : v # w => pc'[v] = pc[v] /\ task'[v] = task[v]
      PROVE  TypePools' /\ Owned' /\ Streaming'
  <2>1. Streaming'
    <3>1. SUFFICES ASSUME NEW v \in InfWorkers, NEW b \in Contexts(v), NEW s \in Batches, buf[s] = b
                   PROVE  task'[v] = s /\ pc'[v] \in {"run", "sync"}
      BY <1>1 DEF Streaming, KeepsContexts
    <3>2. task[v] = s /\ pc[v] \in {"run", "sync"}
      BY <1>0, <3>1 DEF Streaming
    <3>3. v # w
      BY <1>1, <1>w, <3>2
    <3>4. QED
      BY <1>1, <1>w, <3>2, <3>3
  <2>2. QED
    BY <1>1, <1>u, <2>1
<1>m. ASSUME NEW w \in Workers, NEW there, Goto(w, there), NEW s, Take(w, s) \/ UNCHANGED task
      PROVE  \A v \in Workers : v # w => pc'[v] = pc[v] /\ task'[v] = task[v]
  BY <1>t, <1>m DEF Goto, Take
<1>2. ASSUME NEW w \in PrepWorkers, PopRaw(w) \/ PushPrep(w) PROVE TypePools' /\ Owned' /\ Streaming'
  <2>1. /\ \E there, s : Goto(w, there) /\ Take(w, s)
        /\ pc[w] \in {"pop", "push"} /\ UNCHANGED <<buf, pinnedFree, stream, leaked>>
    BY <1>2 DEF PopRaw, PushPrep, At, pools
  <2>2. QED
    BY <1>1, <1>m, <1>w, <1>x, <2>1
<1>3. ASSUME NEW w \in InfWorkers, PopPrep(w) \/ PushInf(w) PROVE TypePools' /\ Owned' /\ Streaming'
  <2>1. /\ \E there, s : Goto(w, there) /\ Take(w, s)
        /\ pc[w] \in {"pop", "push"} /\ UNCHANGED <<buf, pinnedFree, stream, leaked>>
    BY <1>3 DEF PopPrep, PushInf, At, pools
  <2>2. QED
    BY <1>1, <1>m, <1>w, <1>x, <2>1
<1>4. ASSUME NEW w \in PostWorkers, PopInf(w) \/ AcquireOverlay(w)
      PROVE  TypePools' /\ Owned' /\ Streaming'
  <2>1. /\ \E there, s : Goto(w, there) /\ (Take(w, s) \/ UNCHANGED task)
        /\ pc[w] \in {"pop", "acquire"} /\ UNCHANGED <<buf, pinnedFree, stream, leaked>>
    BY <1>4 DEF PopInf, AcquireOverlay, At, pools
  <2>2. QED
    BY <1>1, <1>m, <1>w, <1>x, <2>1
<1>5. ASSUME NEW w \in Workers, Strolls(w) PROVE TypePools' /\ Owned' /\ Streaming'
  <2>1. PICK there \in Stations :
          /\ Goto(w, there)
          /\ \/ pc[w] \in {"top", "pop"}
             \/ pc[w] = "run" /\ there = "sync"
    BY <1>5 DEF Strolls
  <2>2. UNCHANGED <<task, buf, pinnedFree, stream, leaked>>
    BY <1>5 DEF Strolls, pools
  <2>3. CASE pc[w] \in {"top", "pop"}
    BY <1>1, <1>m, <1>x, <2>1, <2>2, <2>3
  <2>4. CASE pc[w] = "run" /\ there = "sync"
    <3>1. \A v \in Workers : pc[v] \in {"run", "sync"} => pc'[v] \in {"run", "sync"}
      BY <1>t, <2>1, <2>4 DEF Goto
    <3>2. Streaming'
      BY <1>0, <1>w, <1>x, <2>2, <3>1 DEF Streaming, KeepsContexts
    <3>3. QED
      BY <1>u, <1>x, <2>2, <3>2
  <2>5. QED
    BY <2>1, <2>3, <2>4
<1>6. ASSUME NEW w \in PrepWorkers, AcquirePinned(w) PROVE TypePools' /\ Owned' /\ Streaming'
  <2>1. PICK b \in pinnedFree : buf' = [buf EXCEPT ![task[w]] = b] /\ pinnedFree' = pinnedFree \ {b}
    BY <1>6 DEF AcquirePinned
  <2>2. /\ pc[w] = "acquire" /\ Goto(w, "push") /\ UNCHANGED <<task, stream, leaked>>
        /\ buf[task[w]] = None
    BY <1>6 DEF AcquirePinned, At, Contents
  <2>3. task[w] \in Batches
    BY <1>w, <2>2, HasBatch
  <2>4. /\ TypePools' /\ Owned' /\ \A t \in Batches : buf'[t] = IF t = task[w] THEN b ELSE buf[t]
        /\ \A v \in InfWorkers : b \notin Contexts(v)
    BY <1>0, <1>x, <2>1, <2>2, <2>3, Acquire
  <2>5. \A v \in InfWorkers : pc'[v] = pc[v] /\ task'[v] = task[v]
    BY <1>6, <1>t, <1>w, <2>2 DEF Goto
  <2>6. Streaming'
    <3>1. SUFFICES ASSUME NEW v \in InfWorkers, NEW c \in Contexts(v), NEW s \in Batches, buf'[s] = c
                   PROVE  task[v] = s /\ pc[v] \in {"run", "sync"}
      BY <1>x, <2>2, <2>5 DEF Streaming, KeepsContexts
    <3>2. buf[s] = c
      BY <2>4, <3>1
    <3>3. QED
      BY <1>0, <3>2 DEF Streaming
  <2>7. QED
    BY <2>4, <2>6
<1>7. ASSUME NEW w \in InfWorkers, Submit(w) PROVE TypePools' /\ Owned' /\ Streaming'
  <2>1. /\ pc[w] = "submit" /\ (\E there : Goto(w, there)) /\ UNCHANGED <<task, buf, pinnedFree, leaked>>
        /\ \/ stream' = stream
           \/ stream' = [stream EXCEPT ![w] = Append(@, Copy(buf[task[w]]))]
    BY <1>7 DEF Submit, At
  <2>2. buf[task[w]] \in Buffers
    BY <1>t, <1>w, <2>1, HasBatch DEF Contents
  <2>3. KeepsContexts
    BY <1>0, <1>x, <2>1, <2>2, NewCopy
  <2>4. \A v \in Workers : v # w => pc'[v] = pc[v] /\ task'[v] = task[v]
    BY <1>m, <1>w, <2>1
  <2>5. QED
    BY <1>1, <1>w, <2>1, <2>3, <2>4
<1>15. ASSUME NEW w \in InfWorkers, Launch(w) PROVE TypePools' /\ Owned' /\ Streaming'
  <2>1. /\ pc[w] = "context" /\ Goto(w, "run") /\ UNCHANGED <<task, buf, pinnedFree>>
        /\ \/ stream' = [stream EXCEPT ![w] = Append(@, Callback(buf[task[w]]))] /\ UNCHANGED leaked
           \/ leaked' = [leaked EXCEPT ![w] = @ \union {buf[task[w]]}] /\ UNCHANGED stream
    BY <1>15 DEF Launch, LaunchHostFunc, LaunchHostFuncFails, At
  <2>2. task[w] \in Batches /\ buf[task[w]] # None
    BY <1>w, <2>1, HasBatch DEF Contents
  <2>3. /\ TypePools' /\ Owned'
        /\ \A v \in InfWorkers :
              Contexts(v)' = IF v = w THEN Contexts(w) \union {buf[task[w]]} ELSE Contexts(v)
    BY <1>0, <2>1, <2>2, NewContext
  <2>4. \A v \in InfWorkers : pc'[v] = IF v = w THEN "run" ELSE pc[v]
    BY <1>t, <1>w, <2>1 DEF Goto
  <2>5. Streaming'
    <3>1. SUFFICES ASSUME NEW v \in InfWorkers, NEW c \in Contexts(v)', NEW s \in Batches, buf[s] = c
                   PROVE  task[v] = s /\ pc'[v] \in {"run", "sync"}
      BY <2>1 DEF Streaming
    <3>2. CASE c \in Contexts(v)
      <4>1. task[v] = s /\ pc[v] \in {"run", "sync"}
        BY <1>0, <3>1, <3>2 DEF Streaming
      <4>2. QED
        BY <2>4, <4>1
    <3>3. CASE c \notin Contexts(v)
      <4>1. v = w /\ buf[s] = buf[task[w]]
        BY <2>3, <3>1, <3>3
      <4>2. s = task[w]
        BY <1>0, <2>2, <4>1 DEF Owned, NoBufferShared
      <4>3. QED
        BY <2>4, <4>1, <4>2
    <3>4. QED
      BY <3>2, <3>3
  <2>6. QED
    BY <2>3, <2>5
\* A thread gives up its batch's buffer.
<1>8. ASSUME NEW w \in Workers, task[w] \in Batches, ReleaseBuffer(task[w]), KeepsContexts,
             \A v \in Workers : v # w => pc'[v] = pc[v] /\ task'[v] = task[v]
      PROVE  TypePools' /\ Owned' /\ Streaming'
  <2>1. TypePools' /\ Owned' /\ \A t \in Batches : buf'[t] = IF t = task[w] THEN None ELSE buf[t]
    BY <1>0, <1>8, Release
  <2>2. Streaming'
    <3>1. SUFFICES ASSUME NEW v \in InfWorkers, NEW c \in Contexts(v), NEW s \in Batches, buf'[s] = c
                   PROVE  task'[v] = s /\ pc'[v] \in {"run", "sync"}
      BY <1>8 DEF Streaming, KeepsContexts
    <3>2. s # task[w] /\ buf[s] = c
      BY <1>r, <1>t, <2>1, <3>1
    <3>3. task[v] = s /\ pc[v] \in {"run", "sync"} /\ v # w
      BY <1>0, <3>2 DEF Streaming
    <3>4. QED
      BY <1>8, <1>w, <3>3
  <2>3. QED
    BY <2>1, <2>2
<1>9. ASSUME NEW w \in InfWorkers, Sync(w) PROVE TypePools' /\ Owned' /\ Streaming'
  <2>1. /\ KeepsContexts /\ UNCHANGED task /\ \E there : Goto(w, there)
        /\ \/ task[w] = None /\ UNCHANGED <<buf, pinnedFree>>
           \/ task[w] # None /\ ReleaseBuffer(task[w])
    BY <1>9, <1>x DEF Sync
  <2>2. \A v \in Workers : v # w => pc'[v] = pc[v] /\ task'[v] = task[v]
    BY <1>m, <1>w, <2>1
  <2>3. CASE task[w] = None /\ UNCHANGED <<buf, pinnedFree>>
    BY <1>1, <1>w, <2>1, <2>2, <2>3
  <2>4. CASE task[w] # None /\ ReleaseBuffer(task[w])
    <3>1. task[w] \in Batches
      BY <1>t, <1>w, <2>4
    <3>2. QED
      BY <1>8, <1>w, <2>1, <2>2, <2>4, <3>1
  <2>5. QED
    BY <2>1, <2>3, <2>4
<1>10. ASSUME NEW w \in Workers, LetsGo(w) PROVE TypePools' /\ Owned' /\ Streaming'
  <2>0. KeepsContexts
    BY <1>10, LetsGoKeepsContexts
  <2>1. /\ \E there : Goto(w, there) /\ Take(w, None)
        /\ \/ task[w] # None /\ ReleaseBuffer(task[w])
           \/ task[w] = None /\ UNCHANGED <<buf, pinnedFree>>
           \/ w \in PostWorkers /\ UNCHANGED <<buf, pinnedFree>>
    BY <1>10 DEF LetsGo
  <2>2. \A v \in Workers : v # w => pc'[v] = pc[v] /\ task'[v] = task[v]
    BY <1>m, <2>1
  <2>3. CASE task[w] # None /\ ReleaseBuffer(task[w])
    <3>1. task[w] \in Batches
      BY <1>t, <2>3
    <3>2. QED
      BY <1>8, <2>0, <2>2, <2>3, <3>1
  <2>4. CASE task[w] = None /\ UNCHANGED <<buf, pinnedFree>>
    BY <1>1, <2>0, <2>2, <2>4
  <2>5. CASE w \in PostWorkers /\ UNCHANGED <<buf, pinnedFree>>
    <3>1. pc[w] \notin {"run", "sync"}
      BY <2>5 DEF Control
    <3>2. QED
      BY <1>1, <2>0, <2>2, <2>5, <3>1
  <2>6. QED
    BY <2>1, <2>3, <2>4, <2>5
<1>11. ASSUME NEW w \in InfWorkers, StreamStep(w) PROVE TypePools' /\ Owned' /\ Streaming'
  <2>1. UNCHANGED <<pc, task, buf>>
    BY <1>11 DEF StreamStep, CopyDone, ReleasePinnedInputCallback
  <2>2. CASE CopyDone(w)
    <3>1. KeepsContexts /\ UNCHANGED pinnedFree
      BY <1>0, <2>2, CopyLeaves DEF CopyDone
    <3>2. QED
      BY <1>v, <2>1, <3>1
  <2>3. CASE ReleasePinnedInputCallback(w)
    <3>1. TypePools' /\ Owned' /\ \A v \in InfWorkers : Contexts(v)' \subseteq Contexts(v)
      BY <1>0, <2>3, CallbackLeaves
    <3>2. QED
      BY <1>0, <2>1, <3>1 DEF Streaming
  <2>4. QED
    BY <1>11, <2>2, <2>3 DEF StreamStep
<1>12. ASSUME NEW object, TakeDown(object) PROVE TypePools' /\ Owned' /\ Streaming'
  <2>1. CASE object = "queues"
    <3>1. (\A w \in Workers : pc[w] = "exited") /\ DestroyQueues
      BY <1>12, <2>1, Quiet DEF TakeDown
    <3>2. \A w \in InfWorkers : \A b \in Contexts(w) : \A s \in Batches : buf[s] # b
      BY <1>0, <1>w, <3>1 DEF Streaming
    <3>3. TypePools' /\ Owned' /\ KeepsContexts /\ \A s \in Batches : buf'[s] = None
      BY <1>0, <3>1, <3>2, Destroy
    <3>5. Streaming'
      BY <1>r, <1>t, <3>3 DEF Streaming, KeepsContexts
    <3>4. QED
      BY <3>3, <3>5
  <2>2. CASE object # "queues"
    BY <1>12, <1>v, <1>x, <2>2 DEF TakeDown, pools
  <2>3. QED
    BY <2>1, <2>2
<1>13. ASSUME NEW s, PushBatch(s) \/ UNCHANGED vars PROVE TypePools' /\ Owned' /\ Streaming'
  BY <1>13, <1>v, <1>x DEF PushBatch, vars, pools
<1>14. QED
  BY <1>2, <1>3, <1>4, <1>5, <1>6, <1>7, <1>9, <1>10, <1>11, <1>12, <1>13, <1>15, Steps

\* A batch has a staging buffer from the time its prep thread acquired one
\* until its inference thread is done with the copy.
LEMMA ContentsStep ==
    Types /\ Control /\ Apart /\ Contents /\ Ownership /\ Copying /\ Ledger /\ Teardown /\ [Next]_vars
        => Contents'
<1> SUFFICES ASSUME Types, Control, Apart, Contents, Ownership, Copying, Ledger, Teardown, [Next]_vars
             PROVE  Contents'
  OBVIOUS
<1>0. TypePools /\ Owned /\ Streaming /\ TypeQueues /\ TypeThreads
  BY DEF Types, Ownership, Owned, Streaming
<1>t. /\ buf \in [Batches -> Buffers \union {None}] 
      /\ pc \in [Workers -> Stations] /\ task \in [Workers -> Batches \union {None}]
      /\ pinnedFree \subseteq Buffers /\ None \notin Buffers
  BY Constants DEF Types, TypePools, TypeThreads
<1>w. /\ \A w \in PrepWorkers : w \in Workers /\ w \notin InfWorkers /\ w \notin PostWorkers
      /\ \A w \in InfWorkers : w \in Workers /\ w \notin PrepWorkers /\ w \notin PostWorkers
      /\ \A w \in PostWorkers : w \in Workers /\ w \notin PrepWorkers /\ w \notin InfWorkers
      /\ None \notin Batches
  BY Constants
<1>q. /\ Range(rawQ) \subseteq Batches /\ Range(prepQ) \subseteq Batches /\ Range(infQ) \subseteq Batches
  BY <1>0, RangeOfSeq DEF TypeQueues
<1>k. \A w \in Workers : task[w] # None =>
         /\ task[w] \in Batches /\ task[w] \in InFlight
         /\ task[w] \notin Range(rawQ) \union Range(prepQ) \union Range(infQ)
  BY <1>0, <1>t, TasksAre, InFlightIs DEF Apart
\* One thread moves, and the buffer of no batch but its own changes.
<1>1. ASSUME NEW w \in Workers, NEW there, Goto(w, there), NEW s \in Batches \union {None},
             Take(w, s) \/ (UNCHANGED task /\ s = task[w]),
             \A t \in Batches : t # task[w] => buf'[t] = buf[t],
             w \in PrepWorkers /\ there = "acquire" => buf'[s] = None,
             w \in PrepWorkers /\ there = "push" => buf'[s] # None,
             w \in InfWorkers /\ there \in {"submit", "context"} => buf'[s] # None,
             w \in InfWorkers /\ there = "push" => buf'[s] = None,
             w \in PostWorkers /\ s # None => buf'[s] = None,
             \A t \in Range(rawQ)' \union Range(infQ)' : buf'[t] = None,
             \A t \in Range(prepQ)' : buf'[t] # None,
             \A t \in Batches : t \notin InFlight' => buf'[t] = None
      PROVE  Contents'
  <2>1. /\ \A v \in Workers : pc'[v] = IF v = w THEN there ELSE pc[v]
        /\ \A v \in Workers : task'[v] = IF v = w THEN s ELSE task[v]
    BY <1>1, <1>t DEF Goto, Take
  <2>2. \A v \in Workers : v # w /\ task[v] # None => task[v] \in Batches /\ buf'[task[v]] = buf[task[v]]
    BY <1>1, <1>k DEF Apart
  <2>3. \A v \in PrepWorkers : /\ pc'[v] = "acquire" => buf'[task'[v]] = None
                               /\ pc'[v] = "push" => buf'[task'[v]] # None
    <3>1. SUFFICES ASSUME NEW v \in PrepWorkers
                   PROVE  /\ pc'[v] = "acquire" => buf'[task'[v]] = None
                          /\ pc'[v] = "push" => buf'[task'[v]] # None
      OBVIOUS
    <3>2. CASE v = w
      BY <1>1, <1>w, <2>1, <3>2
    <3>3. CASE v # w
      <4>1. pc'[v] = pc[v] /\ task'[v] = task[v] /\ v \in Workers
        BY <1>w, <2>1, <3>3
      <4>2. pc[v] \in {"acquire", "push"} => task[v] # None
        BY <4>1 DEF Control
      <4>3. QED
        BY <2>2, <3>3, <4>1, <4>2 DEF Contents
    <3>4. QED
      BY <3>2, <3>3
  <2>4. \A v \in InfWorkers : /\ pc'[v] \in {"submit", "context"} => buf'[task'[v]] # None
                              /\ pc'[v] = "push" => buf'[task'[v]] = None
    <3>1. SUFFICES ASSUME NEW v \in InfWorkers
                   PROVE  /\ pc'[v] \in {"submit", "context"} => buf'[task'[v]] # None
                          /\ pc'[v] = "push" => buf'[task'[v]] = None
      OBVIOUS
    <3>2. CASE v = w
      BY <1>1, <1>w, <2>1, <3>2
    <3>3. CASE v # w
      <4>1. pc'[v] = pc[v] /\ task'[v] = task[v] /\ v \in Workers
        BY <1>w, <2>1, <3>3
      <4>2. pc[v] \in {"submit", "context", "push"} => task[v] # None
        BY <4>1 DEF Control
      <4>3. QED
        BY <2>2, <3>3, <4>1, <4>2 DEF Contents
    <3>4. QED
      BY <3>2, <3>3
  <2>5. \A v \in PostWorkers : task'[v] # None => buf'[task'[v]] = None
    <3>1. SUFFICES ASSUME NEW v \in PostWorkers, task'[v] # None PROVE buf'[task'[v]] = None
      OBVIOUS
    <3>2. CASE v = w
      BY <1>1, <1>w, <2>1, <3>1, <3>2
    <3>3. CASE v # w
      <4>1. task'[v] = task[v] /\ v \in Workers
        BY <1>w, <2>1, <3>3
      <4>2. QED
        BY <2>2, <3>1, <3>3, <4>1 DEF Contents
    <3>4. QED
      BY <3>2, <3>3
  <2>6. QED
    BY <1>1, <2>3, <2>4, <2>5 DEF Contents
\* The same when batches and buffers stay where they are.
<1>2. ASSUME NEW w \in Workers, NEW there, Goto(w, there), UNCHANGED <<queues, task, buf>>,
             w \in PrepWorkers => there \notin {"acquire", "push"},
             w \in InfWorkers => there \notin {"submit", "push"},
             w \in InfWorkers /\ there = "context" => buf[task[w]] # None
      PROVE  Contents'
  <2>1. /\ \A t \in Range(rawQ)' \union Range(infQ)' : buf'[t] = None
        /\ \A t \in Range(prepQ)' : buf'[t] # None
        /\ \A t \in Batches : t \notin InFlight' => buf'[t] = None
    BY <1>2 DEF Contents, InFlight, queues
  <2>2. task[w] \in Batches \union {None}
    BY <1>t
  <2>3. w \in PostWorkers /\ task[w] # None => buf'[task[w]] = None
    BY <1>2 DEF Contents
  <2>4. QED
    BY <1>1, <1>2, <2>1, <2>2, <2>3
<1>3. CASE UNCHANGED <<queues, pc, task, buf>>
  BY <1>3 DEF Contents, InFlight, queues
<1>4. ASSUME NEW s \in Batches, PushBatch(s) PROVE Contents'
  <2>1. s \notin InFlight /\ buf[s] = None
    BY <1>4, FreshNumber DEF PushBatch, Contents
  <2>2. UNCHANGED <<prepQ, infQ, pc, task, buf>>
    BY <1>4 DEF PushBatch, pools
  <2>3. CASE rawQ' = Append(rawQ, s)
    <3>1. InFlight' = InFlight \union {s} /\ Range(rawQ)' = Range(rawQ) \union {s}
      BY <1>0, <2>1, <2>2, <2>3, MoveIn
    <3>2. QED
      BY <2>1, <2>2, <3>1 DEF Contents
  <2>4. CASE rawQ' = rawQ
    BY <1>3, <2>2, <2>4 DEF queues
  <2>5. QED
    BY <1>4, <2>3, <2>4 DEF PushBatch
<1>5. ASSUME NEW w \in PrepWorkers, PopRaw(w) PROVE Contents'
  <2>1. /\ rawQ # <<>> /\ Take(w, Head(rawQ)) /\ rawQ' = Tail(rawQ) /\ UNCHANGED <<prepQ, infQ, buf>>
        /\ Goto(w, "acquire") /\ task[w] = None
    BY <1>5, <1>w DEF PopRaw, At, Control, pools
  <2>2. /\ InFlight' = InFlight /\ Head(rawQ) \in Range(rawQ)
        /\ Range(rawQ)' \subseteq Range(rawQ) /\ Head(rawQ) \in Batches
    BY <1>0, <1>w, <2>1, MoveOutRaw
  <2>3. buf[Head(rawQ)] = None
    BY <2>2 DEF Contents
  <2>4. /\ \A t \in Range(rawQ)' \union Range(infQ)' : buf'[t] = None
        /\ \A t \in Range(prepQ)' : buf'[t] # None
        /\ \A t \in Batches : t \notin InFlight' => buf'[t] = None
    BY <2>1, <2>2 DEF Contents
  <2>5. QED
    BY <1>1, <1>w, <2>1, <2>2, <2>3, <2>4
<1>6. ASSUME NEW w \in InfWorkers, PopPrep(w) PROVE Contents'
  <2>1. /\ prepQ # <<>> /\ Take(w, Head(prepQ)) /\ prepQ' = Tail(prepQ) /\ UNCHANGED <<rawQ, infQ, buf>>
        /\ Goto(w, "submit") /\ task[w] = None
    BY <1>6, <1>w DEF PopPrep, At, Control, pools
  <2>2. /\ InFlight' = InFlight /\ Head(prepQ) \in Range(prepQ)
        /\ Range(prepQ)' \subseteq Range(prepQ) /\ Head(prepQ) \in Batches
    BY <1>0, <1>w, <2>1, MoveOutPrep
  <2>3. buf[Head(prepQ)] # None
    BY <2>2 DEF Contents
  <2>4. /\ \A t \in Range(rawQ)' \union Range(infQ)' : buf'[t] = None
        /\ \A t \in Range(prepQ)' : buf'[t] # None
        /\ \A t \in Batches : t \notin InFlight' => buf'[t] = None
    BY <2>1, <2>2 DEF Contents
  <2>5. QED
    BY <1>1, <1>w, <2>1, <2>2, <2>3, <2>4
<1>7. ASSUME NEW w \in PostWorkers, PopInf(w) PROVE Contents'
  <2>1. /\ infQ # <<>> /\ Take(w, Head(infQ)) /\ infQ' = Tail(infQ) /\ UNCHANGED <<rawQ, prepQ, buf>>
        /\ Goto(w, "acquire") /\ task[w] = None
    BY <1>7, <1>w DEF PopInf, At, Control, pools
  <2>2. /\ InFlight' = InFlight /\ Head(infQ) \in Range(infQ)
        /\ Range(infQ)' \subseteq Range(infQ) /\ Head(infQ) \in Batches
    BY <1>0, <1>w, <2>1, MoveOutInf
  <2>3. buf[Head(infQ)] = None
    BY <2>2 DEF Contents
  <2>4. /\ \A t \in Range(rawQ)' \union Range(infQ)' : buf'[t] = None
        /\ \A t \in Range(prepQ)' : buf'[t] # None
        /\ \A t \in Batches : t \notin InFlight' => buf'[t] = None
    BY <2>1, <2>2 DEF Contents
  <2>5. QED
    BY <1>1, <1>w, <2>1, <2>2, <2>3, <2>4
<1>8. ASSUME NEW w \in PrepWorkers, PushPrep(w) PROVE Contents'
  <2>1. /\ Take(w, None) /\ prepQ' = Append(prepQ, task[w]) /\ UNCHANGED <<rawQ, infQ, buf>>
        /\ pc[w] = "push" /\ Goto(w, "top") /\ buf[task[w]] # None
    BY <1>8 DEF PushPrep, At, pools, Contents
  <2>2. task[w] \in Batches
    BY <1>w, <2>1, HasBatch
  <2>3. InFlight' = InFlight /\ Range(prepQ)' = Range(prepQ) \union {task[w]}
    BY <1>0, <1>w, <2>1, <2>2, MoveToPrep
  <2>4. /\ \A t \in Range(rawQ)' \union Range(infQ)' : buf'[t] = None
        /\ \A t \in Range(prepQ)' : buf'[t] # None
        /\ \A t \in Batches : t \notin InFlight' => buf'[t] = None
    BY <2>1, <2>3 DEF Contents
  <2>5. QED
    BY <1>1, <1>w, <2>1, <2>4
<1>9. ASSUME NEW w \in InfWorkers, PushInf(w) PROVE Contents'
  <2>1. /\ Take(w, None) /\ infQ' = Append(infQ, task[w]) /\ UNCHANGED <<rawQ, prepQ, buf>>
        /\ pc[w] = "push" /\ Goto(w, "top") /\ buf[task[w]] = None
    BY <1>9 DEF PushInf, At, pools, Contents
  <2>2. task[w] \in Batches
    BY <1>w, <2>1, HasBatch
  <2>3. InFlight' = InFlight /\ Range(infQ)' = Range(infQ) \union {task[w]}
    BY <1>0, <1>w, <2>1, <2>2, MoveToInf
  <2>4. /\ \A t \in Range(rawQ)' \union Range(infQ)' : buf'[t] = None
        /\ \A t \in Range(prepQ)' : buf'[t] # None
        /\ \A t \in Batches : t \notin InFlight' => buf'[t] = None
    BY <2>1, <2>3 DEF Contents
  <2>5. QED
    BY <1>1, <1>w, <2>1, <2>4
<1>10. ASSUME NEW w \in PrepWorkers, AcquirePinned(w) PROVE Contents'
  <2>1. PICK b \in pinnedFree : buf' = [buf EXCEPT ![task[w]] = b] /\ pinnedFree' = pinnedFree \ {b}
    BY <1>10 DEF AcquirePinned
  <2>2. pc[w] = "acquire" /\ Goto(w, "push") /\ UNCHANGED <<queues, task>>
    BY <1>10 DEF AcquirePinned, At
  <2>3. task[w] \in Batches /\ b # None
    BY <1>t, <1>w, <2>1, <2>2, HasBatch
  <2>4. \A t \in Batches : buf'[t] = IF t = task[w] THEN b ELSE buf[t]
    BY <1>t, <2>1
  <2>5. /\ \A t \in Range(rawQ)' \union Range(infQ)' : buf'[t] = None
        /\ \A t \in Range(prepQ)' : buf'[t] # None
        /\ \A t \in Batches : t \notin InFlight' => buf'[t] = None
    <3>1. InFlight' = InFlight /\ UNCHANGED <<rawQ, prepQ, infQ>>
      BY <2>2 DEF InFlight, queues
    <3>2. task[w] \in InFlight /\ task[w] \notin Range(rawQ) \union Range(prepQ) \union Range(infQ)
      BY <1>k, <1>w, <2>3
    <3>3. QED
      BY <1>q, <2>4, <3>1, <3>2 DEF Contents
  <2>6. QED
    BY <1>1, <1>w, <2>2, <2>3, <2>4, <2>5
\* A thread gives up its batch's buffer, and goes on with the batch or without.
<1>11. ASSUME NEW w \in Workers, NEW there \in {"top", "push", "exited"}, Goto(w, there),
              there = "push" => w \in InfWorkers /\ UNCHANGED task,
              there # "push" => Take(w, None),
              task[w] # None, ReleaseBuffer(task[w]), UNCHANGED queues, KeepsContexts
       PROVE  Contents'
  <2>1. task[w] \in Batches
    BY <1>11, <1>t
  <2>2. \A t \in Batches : buf'[t] = IF t = task[w] THEN None ELSE buf[t]
    BY <1>0, <1>11, <2>1, Release
  <2>3. InFlight' = InFlight \/ InFlight' = InFlight \ {task[w]}
    <3>1. CASE there = "push"
      BY <1>11, <3>1 DEF InFlight, queues
    <3>2. CASE there # "push"
      BY <1>0, <1>11, <3>2, MoveAway
    <3>3. QED
      BY <3>1, <3>2
  <2>4. /\ \A t \in Range(rawQ)' \union Range(infQ)' : buf'[t] = None
        /\ \A t \in Range(prepQ)' : buf'[t] # None
    <3>1. UNCHANGED <<rawQ, prepQ, infQ>>
      BY <1>11 DEF queues
    <3>2. QED
      BY <1>11, <1>k, <1>q, <2>2, <3>1 DEF Contents
  <2>5. \A t \in Batches : t \notin InFlight' => buf'[t] = None
    BY <2>2, <2>3 DEF Contents
  <2>6. CASE there = "push"
    BY <1>1, <1>11, <1>w, <2>1, <2>2, <2>4, <2>5, <2>6
  <2>7. CASE there # "push"
    BY <1>1, <1>11, <1>w, <2>1, <2>2, <2>4, <2>5, <2>7
  <2>8. QED
    BY <2>6, <2>7
<1>12. ASSUME NEW w \in InfWorkers, Sync(w) PROVE Contents'
  <2>1. /\ UNCHANGED <<queues, task, stream, leaked>>
        /\ \/ task[w] = None /\ Goto(w, "top") /\ UNCHANGED buf
           \/ task[w] # None /\ Goto(w, "push") /\ ReleaseBuffer(task[w])
    BY <1>12 DEF Sync
  <2>2. CASE task[w] = None /\ Goto(w, "top") /\ UNCHANGED buf
    BY <1>2, <1>w, <2>1, <2>2
  <2>3. CASE task[w] # None /\ Goto(w, "push") /\ ReleaseBuffer(task[w])
    <3>1. KeepsContexts
      BY <1>0, <2>1, Untouched
    <3>2. QED
      BY <1>11, <1>w, <2>1, <2>3, <3>1
  <2>4. QED
    BY <2>1, <2>2, <2>3
<1>13. ASSUME NEW w \in Workers, LetsGo(w) PROVE Contents'
  <2>1. PICK there \in {"top", "exited"} : Goto(w, there)
    BY <1>13 DEF LetsGo
  <2>2. /\ UNCHANGED queues /\ Take(w, None)
        /\ \/ task[w] # None /\ ReleaseBuffer(task[w])
           \/ task[w] = None /\ UNCHANGED buf
           \/ w \in PostWorkers /\ UNCHANGED buf
    BY <1>13 DEF LetsGo
  <2>3. CASE task[w] # None /\ ReleaseBuffer(task[w])
    <3>1. KeepsContexts
      BY <1>13, LetsGoKeepsContexts
    <3>2. QED
      BY <1>11, <2>1, <2>2, <2>3, <3>1
  <2>4. CASE UNCHANGED buf /\ (task[w] # None => buf[task[w]] = None)
    <3>1. InFlight' = InFlight \ {task[w]} /\ UNCHANGED <<rawQ, prepQ, infQ>>
      BY <1>0, <2>2, MoveAway DEF queues
    <3>2. /\ \A t \in Range(rawQ)' \union Range(infQ)' : buf'[t] = None
          /\ \A t \in Range(prepQ)' : buf'[t] # None
          /\ \A t \in Batches : t \notin InFlight' => buf'[t] = None
      BY <1>w, <2>4, <3>1 DEF Contents
    <3>3. QED
      BY <1>1, <2>1, <2>2, <2>4, <3>2
  <2>5. QED
    BY <2>2, <2>3, <2>4 DEF Contents
<1>14. ASSUME NEW w \in InfWorkers, Submit(w) \/ Launch(w) PROVE Contents'
  <2>1. /\ pc[w] \in {"submit", "context"} /\ UNCHANGED <<queues, task, buf>>
        /\ \E there \in {"context", "run"} : Goto(w, there)
    BY <1>14 DEF Submit, Launch, LaunchHostFunc, LaunchHostFuncFails, At
  <2>2. buf[task[w]] # None
    BY <2>1 DEF Contents
  <2>3. QED
    BY <1>2, <1>w, <2>1, <2>2
<1>15. ASSUME NEW w \in PostWorkers, AcquireOverlay(w) PROVE Contents'
  BY <1>2, <1>15, <1>w DEF AcquireOverlay
<1>16. ASSUME NEW w \in Workers, Strolls(w) PROVE Contents'
  <2>1. PICK there \in {"top", "pop", "exited", "run", "sync"} : Goto(w, there)
    BY <1>16 DEF Strolls
  <2>2. UNCHANGED <<queues, task, buf>>
    BY <1>16 DEF Strolls, pools
  <2>3. QED
    BY <1>2, <2>1, <2>2
<1>17. ASSUME NEW object, TakeDown(object) PROVE Contents'
  <2>1. CASE object # "queues"
    BY <1>3, <1>17, <2>1 DEF TakeDown, pools
  <2>2. CASE object = "queues"
    <3>1. /\ \A w \in Workers : pc[w] = "exited"
          /\ \A w \in InfWorkers : stream[w] = <<>>
          /\ DestroyQueues /\ UNCHANGED <<pc, task>>
      BY <1>17, <2>2, Quiet DEF TakeDown
    <3>6. \A w \in InfWorkers : \A b \in Contexts(w) : \A s \in Batches : buf[s] # b
      BY <1>0, <1>w, <3>1 DEF Streaming
    <3>2. \A s \in Batches : buf'[s] = None
      BY <1>0, <3>1, <3>6, Destroy
    <3>3. Range(rawQ') = {} /\ Range(prepQ') = {} /\ Range(infQ') = {}
      BY <3>1, Emptied DEF DestroyQueues
    <3>4. \A w \in Workers : pc'[w] = "exited" /\ task'[w] = None
      BY <3>1 DEF Control
    <3>5. QED
      BY <1>w, <3>2, <3>3, <3>4 DEF Contents
  <2>3. QED
    BY <2>1, <2>2
<1>18. ASSUME NEW w, StreamStep(w) \/ UNCHANGED vars PROVE Contents'
  BY <1>3, <1>18 DEF StreamStep, CopyDone, ReleasePinnedInputCallback, vars, pools
<1>19. QED
  BY <1>4, <1>5, <1>6, <1>7, <1>8, <1>9, <1>10, <1>12, <1>13, <1>14, <1>15, <1>16, <1>17, <1>18, Steps

\* Whose copies are covered.
CopiesCovered(w) ==
    \A i \in 1 .. Len(stream[w]) : \A b \in Buffers : stream[w][i] = Copy(b) =>
        \/ pc[w] = "context" /\ i = Len(stream[w])
        \/ b \in leaked[w]
        \/ \E j \in i + 1 .. Len(stream[w]) : stream[w][j] = Callback(b)

LastIsNew(w) ==
    pc[w] = "context" /\ stream[w] # <<>> => stream[w][Len(stream[w])] = Copy(buf[task[w]])

\* A copy is enqueued on the stream of its session.
LEMMA CopyAppended ==
    ASSUME Types, NEW w \in InfWorkers, CopiesCovered(w), pc[w] # "context", pc'[w] = "context",
           NEW b \in Buffers, stream' = [stream EXCEPT ![w] = Append(@, Copy(b))], UNCHANGED leaked,
           buf'[task'[w]] = b
    PROVE  CopiesCovered(w)' /\ LastIsNew(w)'
<1> DEFINE q == stream[w]
           n == Len(stream[w])
           r == Append(q, Copy(b))
<1>1. /\ q \in Seq(Ops) /\ n \in Nat /\ Copy(b) \in Ops /\ stream'[w] = r
  BY Kinds, LenProperties DEF Types, TypePools
<1>2. Len(r) = n + 1 /\ r[n + 1] = Copy(b) /\ \A i \in 1 .. n : r[i] = q[i]
  BY <1>1, AppendProperties
<1> HIDE DEF r
<1>3. CopiesCovered(w)'
  <2>1. SUFFICES ASSUME NEW i \in 1 .. n + 1, NEW c \in Buffers, r[i] = Copy(c)
                 PROVE  \/ i = n + 1
                        \/ c \in leaked[w]
                        \/ \E j \in i + 1 .. n + 1 : r[j] = Callback(c)
    BY <1>1, <1>2 DEF CopiesCovered
  <2>2. CASE i \in 1 .. n
    <3>1. c \in leaked[w] \/ \E j \in i + 1 .. n : q[j] = Callback(c)
      BY <1>2, <2>1, <2>2 DEF CopiesCovered
    <3>2. ASSUME NEW j \in i + 1 .. n, q[j] = Callback(c) PROVE j \in i + 1 .. n + 1 /\ r[j] = Callback(c)
      BY <1>1, <1>2, <2>2, <3>2
    <3>3. QED
      BY <3>1, <3>2
  <2>3. QED
    BY <1>1, <2>2
<1>4. LastIsNew(w)'
  BY <1>1, <1>2 DEF LastIsNew
<1>5. QED
  BY <1>3, <1>4

\* The context of the last copy is made.
LEMMA ContextMade ==
    ASSUME Types, NEW w \in InfWorkers, CopiesCovered(w), LastIsNew(w),
           pc[w] = "context", pc'[w] # "context", buf[task[w]] \in Buffers,
           \/ stream' = [stream EXCEPT ![w] = Append(@, Callback(buf[task[w]]))] /\ UNCHANGED leaked
           \/ leaked' = [leaked EXCEPT ![w] = @ \union {buf[task[w]]}] /\ UNCHANGED stream
    PROVE  CopiesCovered(w)'
<1> DEFINE q == stream[w]
           n == Len(stream[w])
           b == buf[task[w]]
<1>1. q \in Seq(Ops) /\ n \in Nat /\ b \in Buffers /\ leaked \in [InfWorkers -> SUBSET Buffers]
  BY LenProperties DEF Types, TypePools
<1>2. ASSUME NEW i \in 1 .. n, NEW c \in Buffers, q[i] = Copy(c)
      PROVE  c = b \/ c \in leaked[w] \/ \E j \in i + 1 .. n : q[j] = Callback(c)
  <2>1. CASE i = n
    <3>1. q # <<>>
      BY <1>1, <2>1
    <3>2. q[n] = Copy(b)
      BY <3>1 DEF LastIsNew
    <3>3. QED
      BY <1>2, <2>1, <3>2, Kinds
  <2>2. QED
    BY <1>2, <2>1 DEF CopiesCovered
<1>3. CASE stream' = [stream EXCEPT ![w] = Append(@, Callback(b))] /\ UNCHANGED leaked
  <2> DEFINE r == Append(q, Callback(b))
  <2>1. r = stream'[w]
    BY <1>3 DEF Types, TypePools
  <2>2. Len(r) = n + 1 /\ r[n + 1] = Callback(b) /\ \A i \in 1 .. n : r[i] = q[i]
    BY <1>1, Kinds, AppendProperties
  <2> HIDE DEF r
  <2>3. SUFFICES ASSUME NEW i \in 1 .. n + 1, NEW c \in Buffers, r[i] = Copy(c)
                 PROVE  c \in leaked[w] \/ \E j \in i + 1 .. n + 1 : r[j] = Callback(c)
    BY <1>3, <2>1, <2>2 DEF CopiesCovered
  <2>4. i \in 1 .. n /\ q[i] = Copy(c)
    BY <1>1, <2>2, <2>3, Kinds
  <2>5. CASE c = b
    <3>1. n + 1 \in i + 1 .. n + 1
      BY <1>1, <2>4
    <3>2. QED
      BY <2>2, <2>5, <3>1
  <2>6. ASSUME NEW j \in i + 1 .. n, q[j] = Callback(c) PROVE j \in i + 1 .. n + 1 /\ r[j] = Callback(c)
    BY <1>1, <2>2, <2>4, <2>6
  <2>7. QED
    BY <1>2, <2>4, <2>5, <2>6
<1>4. CASE leaked' = [leaked EXCEPT ![w] = @ \union {b}] /\ UNCHANGED stream
  <2>1. leaked'[w] = leaked[w] \union {b}
    BY <1>1, <1>4
  <2>2. QED
    BY <1>2, <1>4, <2>1 DEF CopiesCovered
<1>5. QED
  BY <1>3, <1>4

\* The head of a stream goes: what covers the others comes behind them.
LEMMA HeadDone ==
    ASSUME Types, NEW w \in InfWorkers, CopiesCovered(w), LastIsNew(w), stream[w] # <<>>,
           stream' = [stream EXCEPT ![w] = Tail(@)], UNCHANGED <<leaked, pc, task, buf>>
    PROVE  CopiesCovered(w)' /\ LastIsNew(w)'
<1> DEFINE q == stream[w]
           n == Len(stream[w])
           r == Tail(stream[w])
<1>1. q \in Seq(Ops) /\ n \in Nat \ {0} /\ r = stream'[w]
  BY LenProperties, EmptySeq DEF Types, TypePools
<1>2. Len(r) = n - 1 /\ \A i \in 1 .. n - 1 : r[i] = q[i + 1]
  BY <1>1, HeadTailProperties
<1>e. r # <<>> => n - 1 \in 1 .. n - 1
  <2>1. r \in Seq(Ops)
    BY <1>1, HeadTailProperties
  <2>2. r # <<>> => Len(r) # 0
    BY <2>1, EmptySeq
  <2>3. QED
    BY <1>1, <1>2, <2>2
<1> HIDE DEF r
<1>3. CopiesCovered(w)'
  <2>1. SUFFICES ASSUME NEW i \in 1 .. n - 1, NEW c \in Buffers, r[i] = Copy(c)
                 PROVE  \/ pc[w] = "context" /\ i = n - 1
                        \/ c \in leaked[w]
                        \/ \E j \in i + 1 .. n - 1 : r[j] = Callback(c)
    BY <1>1, <1>2 DEF CopiesCovered
  <2>2. i + 1 \in 1 .. n /\ q[i + 1] = Copy(c) /\ (i + 1 = n => i = n - 1)
    BY <1>1, <1>2, <2>1
  <2>3. \/ pc[w] = "context" /\ i = n - 1
        \/ c \in leaked[w]
        \/ \E j \in (i + 1) + 1 .. n : q[j] = Callback(c)
    BY <2>2 DEF CopiesCovered
  <2>4. ASSUME NEW j \in (i + 1) + 1 .. n, q[j] = Callback(c)
        PROVE  j - 1 \in i + 1 .. n - 1 /\ r[j - 1] = Callback(c)
    <3>1. j - 1 \in i + 1 .. n - 1 /\ j - 1 \in 1 .. n - 1 /\ (j - 1) + 1 = j
      BY <1>1, <2>1
    <3>2. QED
      BY <1>2, <2>4, <3>1
  <2>5. QED
    BY <2>3, <2>4
<1>4. LastIsNew(w)'
  <2>1. SUFFICES ASSUME pc[w] = "context", r # <<>> PROVE r[n - 1] = Copy(buf[task[w]])
    BY <1>1, <1>2 DEF LastIsNew
  <2>2. q[n] = Copy(buf[task[w]]) /\ (n - 1) + 1 = n
    BY <1>1, <2>1 DEF LastIsNew
  <2>3. QED
    BY <1>2, <1>e, <2>1, <2>2
<1>5. QED
  BY <1>3, <1>4

\* A copy under way keeps its buffer: by the batch until there is a context for
\* it, and by the context from then on.
LEMMA CopyingStep ==
    Types /\ Control /\ Apart /\ Contents /\ Ownership /\ Copying /\ Teardown /\ [Next]_vars => Copying'
<1> SUFFICES ASSUME Types, Control, Apart, Contents, Ownership, Copying, Teardown, [Next]_vars,
                    NEW v \in InfWorkers
             PROVE  CopiesCovered(v)' /\ LastIsNew(v)'
  BY DEF Copying, CopiesCovered, LastIsNew
<1>0. /\ \A w \in InfWorkers : CopiesCovered(w) /\ LastIsNew(w)
      /\ buf \in [Batches -> Buffers \union {None}] /\ stream \in [InfWorkers -> Seq(Ops)]
      /\ leaked \in [InfWorkers -> SUBSET Buffers]
      /\ pc \in [Workers -> Stations] /\ task \in [Workers -> Batches \union {None}]
      /\ v \in Workers /\ None \notin Batches
      /\ \A w \in InfWorkers : w \in Workers
      /\ \A w \in PrepWorkers : w \in Workers /\ w # v
      /\ \A w \in PostWorkers : w \in Workers /\ w # v
  BY Constants DEF Copying, CopiesCovered, LastIsNew, Types, TypePools, TypeThreads
<1>t. pc[v] = "context" => task[v] \in Batches
  BY <1>0, HasBatch
\* Nothing changes for this session.
<1>1. ASSUME stream'[v] = stream[v], leaked'[v] = leaked[v], pc[v] = "context" <=> pc'[v] = "context",
             pc[v] = "context" => buf'[task'[v]] = buf[task[v]]
      PROVE  CopiesCovered(v)' /\ LastIsNew(v)'
  BY <1>0, <1>1 DEF CopiesCovered, LastIsNew
<1>2. ASSUME UNCHANGED <<stream, leaked, buf>>, NEW w \in Workers, pc[w] # "context",
             NEW there, there # "context", Goto(w, there), NEW s, Take(w, s) \/ UNCHANGED task
      PROVE  CopiesCovered(v)' /\ LastIsNew(v)'
  <2>1. w = v \/ (pc'[v] = pc[v] /\ task'[v] = task[v])
    BY <1>0, <1>2 DEF Goto, Take
  <2>2. w = v => pc'[v] # "context"
    BY <1>0, <1>2 DEF Goto
  <2>3. QED
    BY <1>1, <1>2, <2>1, <2>2
<1>3. ASSUME NEW w \in PrepWorkers, PopRaw(w) \/ PushPrep(w) PROVE CopiesCovered(v)' /\ LastIsNew(v)'
  <2>1. /\ \E there, s : Goto(w, there) /\ Take(w, s) /\ there # "context"
        /\ pc[w] # "context" /\ UNCHANGED <<stream, leaked, buf>>
    BY <1>3 DEF PopRaw, PushPrep, At, pools
  <2>2. QED
    BY <1>0, <1>2, <2>1
<1>4. ASSUME NEW w \in InfWorkers, PopPrep(w) \/ PushInf(w) PROVE CopiesCovered(v)' /\ LastIsNew(v)'
  <2>1. /\ \E there, s : Goto(w, there) /\ Take(w, s) /\ there # "context"
        /\ pc[w] # "context" /\ UNCHANGED <<stream, leaked, buf>>
    BY <1>4 DEF PopPrep, PushInf, At, pools
  <2>2. QED
    BY <1>0, <1>2, <2>1
<1>5. ASSUME NEW w \in PostWorkers, PopInf(w) \/ AcquireOverlay(w)
      PROVE  CopiesCovered(v)' /\ LastIsNew(v)'
  <2>1. /\ \E there, s : Goto(w, there) /\ (Take(w, s) \/ UNCHANGED task) /\ there # "context"
        /\ pc[w] # "context" /\ UNCHANGED <<stream, leaked, buf>>
    BY <1>5 DEF PopInf, AcquireOverlay, At, pools
  <2>2. QED
    BY <1>0, <1>2, <2>1
<1>6. ASSUME NEW w \in Workers, Strolls(w) PROVE CopiesCovered(v)' /\ LastIsNew(v)'
  <2>1. /\ \E there : Goto(w, there) /\ there # "context"
        /\ pc[w] # "context" /\ UNCHANGED <<stream, leaked, buf, task>>
    BY <1>6 DEF Strolls, pools
  <2>2. QED
    BY <1>2, <2>1
\* The buffer of another batch changes.
<1>7. ASSUME NEW w \in Workers, w # v, task[w] \in Batches, UNCHANGED <<stream, leaked>>,
             NEW there, Goto(w, there), NEW s, Take(w, s) \/ UNCHANGED task,
             NEW b, buf' = [buf EXCEPT ![task[w]] = b]
      PROVE  CopiesCovered(v)' /\ LastIsNew(v)'
  <2>1. pc'[v] = pc[v] /\ task'[v] = task[v]
    BY <1>0, <1>7 DEF Goto, Take
  <2>2. pc[v] = "context" => task[v] # task[w]
    BY <1>0, <1>7, <1>t DEF Apart
  <2>3. pc[v] = "context" => buf'[task[v]] = buf[task[v]]
    BY <1>0, <1>7, <1>t, <2>2
  <2>4. QED
    BY <1>1, <1>7, <2>1, <2>3
<1>8. ASSUME NEW w \in PrepWorkers, AcquirePinned(w) PROVE CopiesCovered(v)' /\ LastIsNew(v)'
  <2>1. /\ \E there : Goto(w, there)
        /\ UNCHANGED <<stream, leaked, task>>
        /\ \E b : buf' = [buf EXCEPT ![task[w]] = b]
        /\ pc[w] = "acquire"
    BY <1>8 DEF AcquirePinned, At
  <2>2. task[w] \in Batches
    BY <1>0, <2>1, HasBatch
  <2>3. QED
    BY <1>0, <1>7, <2>1, <2>2
<1>9. ASSUME NEW w \in InfWorkers, Submit(w) PROVE CopiesCovered(v)' /\ LastIsNew(v)'
  <2>1. /\ pc[w] = "submit" /\ UNCHANGED <<task, buf, leaked>>
        /\ \/ stream' = [stream EXCEPT ![w] = Append(@, Copy(buf[task[w]]))] /\ Goto(w, "context")
           \/ stream' = stream /\ Goto(w, "run")
    BY <1>9 DEF Submit, At
  <2>2. CASE w # v
    <3>1. pc'[v] = pc[v] /\ stream'[v] = stream[v]
      BY <1>0, <2>1, <2>2 DEF Goto
    <3>2. QED
      BY <1>1, <2>1, <3>1
  <2>3. CASE w = v /\ stream' = stream /\ Goto(w, "run")
    BY <1>0, <1>1, <2>1, <2>3 DEF Goto
  <2>4. CASE w = v /\ stream' = [stream EXCEPT ![w] = Append(@, Copy(buf[task[w]]))] /\ Goto(w, "context")
    <3>1. buf[task[v]] \in Buffers
      BY <1>0, <2>1, <2>4, HasBatch DEF Contents
    <3>2. pc[v] # "context" /\ pc'[v] = "context"
      BY <1>0, <2>1, <2>4 DEF Goto
    <3>3. QED
      BY <1>0, <2>1, <2>4, <3>1, <3>2, CopyAppended
  <2>5. QED
    BY <2>1, <2>2, <2>3, <2>4
<1>10. ASSUME NEW w \in InfWorkers, Launch(w) PROVE CopiesCovered(v)' /\ LastIsNew(v)'
  <2>1. /\ pc[w] = "context" /\ Goto(w, "run") /\ UNCHANGED <<task, buf>>
        /\ \/ stream' = [stream EXCEPT ![w] = Append(@, Callback(buf[task[w]]))] /\ UNCHANGED leaked
           \/ leaked' = [leaked EXCEPT ![w] = @ \union {buf[task[w]]}] /\ UNCHANGED stream
    BY <1>10 DEF Launch, LaunchHostFunc, LaunchHostFuncFails, At
  <2>2. CASE w # v
    <3>1. pc'[v] = pc[v] /\ stream'[v] = stream[v] /\ leaked'[v] = leaked[v]
      BY <1>0, <2>1, <2>2 DEF Goto
    <3>2. QED
      BY <1>1, <2>1, <3>1
  <2>3. CASE w = v
    <3>1. buf[task[v]] \in Buffers
      BY <1>0, <1>t, <2>1, <2>3 DEF Contents
    <3>2. pc'[v] # "context"
      BY <1>0, <2>1, <2>3 DEF Goto
    <3>3. CopiesCovered(v)'
      BY <1>0, <2>1, <2>3, <3>1, <3>2, ContextMade
    <3>4. QED
      BY <3>2, <3>3 DEF LastIsNew
  <2>4. QED
    BY <2>2, <2>3
<1>11. ASSUME NEW w \in InfWorkers, Sync(w) PROVE CopiesCovered(v)' /\ LastIsNew(v)'
  <2>1. /\ pc[w] = "sync" /\ UNCHANGED <<stream, leaked, task>>
        /\ \/ Goto(w, "top") /\ UNCHANGED buf
           \/ task[w] # None /\ Goto(w, "push") /\ buf' = [buf EXCEPT ![task[w]] = None]
    BY <1>11 DEF Sync, At, ReleaseBuffer
  <2>2. CASE w # v /\ task[w] # None /\ Goto(w, "push") /\ buf' = [buf EXCEPT ![task[w]] = None]
    BY <1>0, <1>7, <2>1, <2>2
  <2>3. CASE w # v /\ Goto(w, "top") /\ UNCHANGED buf
    BY <1>0, <1>2, <2>1, <2>3
  <2>4. CASE w = v
    BY <1>0, <1>1, <2>1, <2>4 DEF Goto
  <2>5. QED
    BY <2>1, <2>2, <2>3, <2>4
<1>12. ASSUME NEW w \in Workers, LetsGo(w) PROVE CopiesCovered(v)' /\ LastIsNew(v)'
  <2>1. /\ leaked' = leaked /\ Take(w, None)
        /\ stream' = IF pc[w] = "context" THEN [stream EXCEPT ![w] = Disown(@)] ELSE stream
        /\ pc[w] = "context" => w \in InfWorkers
        /\ (task[w] # None /\ buf' = [buf EXCEPT ![task[w]] = None]) \/ UNCHANGED buf
    BY <1>12 DEF LetsGo, ReleaseBuffer
  <2>2. PICK there \in {"top", "exited"} : Goto(w, there)
    BY <1>12 DEF LetsGo
  <2>3. CASE w # v
    <3>1. pc'[v] = pc[v] /\ task'[v] = task[v] /\ stream'[v] = stream[v]
      BY <1>0, <2>1, <2>2, <2>3 DEF Goto, Take
    <3>2. pc[v] = "context" => buf'[task[v]] = buf[task[v]]
      <4>1. pc[v] = "context" /\ task[w] # None => task[v] # task[w]
        BY <1>0, <1>t, <2>3 DEF Apart
      <4>2. QED
        BY <1>0, <1>t, <2>1, <4>1
    <3>3. QED
      BY <1>1, <2>1, <3>1, <3>2
  <2>4. CASE w = v /\ pc[v] # "context"
    BY <1>0, <1>1, <2>1, <2>2, <2>4 DEF Goto
  <2>5. CASE w = v /\ pc[v] = "context"
    <3>1. stream[v] # <<>> => \E b \in Buffers : stream[v][Len(stream[v])] = Copy(b)
      BY <2>5, AtContext
    <3>2. /\ Len(stream'[v]) = Len(stream[v])
          /\ \A i \in 1 .. Len(stream[v]) :
                IF i = Len(stream[v]) THEN \E b \in Buffers : stream'[v][i] = Orphan(b)
                                      ELSE stream'[v][i] = stream[v][i]
      BY <2>1, <2>5, <3>1, Disowned DEF Types
    <3>3. pc'[v] # "context"
      BY <1>0, <2>2, <2>5 DEF Goto
    <3>4. CopiesCovered(v)'
      <4>1. SUFFICES ASSUME NEW i \in 1 .. Len(stream[v]), NEW b \in Buffers, stream'[v][i] = Copy(b)
                     PROVE  \/ b \in leaked[v]
                            \/ \E j \in i + 1 .. Len(stream[v]) : stream'[v][j] = Callback(b)
        BY <2>1, <3>2, <3>3 DEF CopiesCovered
      <4>2. i # Len(stream[v]) /\ stream[v][i] = Copy(b)
        BY <3>2, <4>1, Kinds
      <4>3. b \in leaked[v] \/ \E j \in i + 1 .. Len(stream[v]) : stream[v][j] = Callback(b)
        BY <1>0, <4>2 DEF CopiesCovered
      <4>4. ASSUME NEW j \in i + 1 .. Len(stream[v]), stream[v][j] = Callback(b)
            PROVE  stream'[v][j] = Callback(b)
        <5>1. Len(stream[v]) \in Nat /\ j \in 1 .. Len(stream[v])
          BY <1>0, <4>1, <4>4, LenProperties
        <5>2. j # Len(stream[v])
          BY <3>1, <4>4, <5>1, Kinds
        <5>3. QED
          BY <3>2, <4>4, <5>1, <5>2
      <4>5. QED
        BY <4>3, <4>4
    <3>5. QED
      BY <3>3, <3>4 DEF LastIsNew
  <2>6. QED
    BY <2>3, <2>4, <2>5
<1>13. ASSUME NEW w \in InfWorkers, StreamStep(w) PROVE CopiesCovered(v)' /\ LastIsNew(v)'
  <2>1. /\ stream[w] # <<>> /\ stream' = [stream EXCEPT ![w] = Tail(@)]
        /\ UNCHANGED <<leaked, pc, task, buf>>
    BY <1>13 DEF StreamStep, CopyDone, ReleasePinnedInputCallback
  <2>2. CASE w = v
    BY <1>0, <2>1, <2>2, HeadDone
  <2>3. CASE w # v
    BY <1>0, <1>1, <2>1, <2>3
  <2>4. QED
    BY <2>2, <2>3
<1>14. ASSUME NEW object, TakeDown(object) PROVE CopiesCovered(v)' /\ LastIsNew(v)'
  <2>1. CASE object # "queues"
    BY <1>1, <1>14, <2>1 DEF TakeDown, pools
  <2>2. CASE object = "queues"
    <3>1. pc[v] = "exited" /\ UNCHANGED <<pc, stream, leaked>>
      BY <1>0, <1>14, <2>2, Quiet DEF TakeDown, DestroyQueues
    <3>2. QED
      BY <1>1, <3>1
  <2>3. QED
    BY <2>1, <2>2
<1>15. ASSUME NEW s, PushBatch(s) \/ UNCHANGED vars PROVE CopiesCovered(v)' /\ LastIsNew(v)'
  BY <1>1, <1>15 DEF PushBatch, vars, pools
<1>16. QED
  BY <1>3, <1>4, <1>5, <1>6, <1>8, <1>9, <1>10, <1>11, <1>12, <1>13, <1>14, <1>15, Steps

--------------------------------------------------------------------------------

\* Before anything runs.
LEMMA InitIsGood == Init => IInv
<1> SUFFICES ASSUME Init PROVE IInv
  OBVIOUS
<1>0. /\ rawQ = <<>> /\ prepQ = <<>> /\ infQ = <<>>
      /\ pc = [w \in Workers |-> "top"] /\ task = [w \in Workers |-> None]
      /\ buf = [s \in Batches |-> None] /\ overlay = [w \in PostWorkers |-> None]
      /\ pinnedFree = Buffers /\ overlayFree = Overlays
      /\ stream = [w \in InfWorkers |-> <<>>] /\ leaked = [w \in InfWorkers |-> {}]
      /\ accepted = {} /\ refused = {} /\ published = {} /\ dropped = 0 /\ down = {}
  BY DEF Init
<1>c. /\ RawCap \in Nat /\ PrepCap \in Nat /\ InfCap \in Nat /\ MaxSeq \in Nat
      /\ None \notin Batches /\ None \notin Buffers /\ None \notin Overlays
      /\ \A w : w \in Workers <=> w \in PrepWorkers \/ w \in InfWorkers \/ w \in PostWorkers
  BY Constants
<1>e. Range(<<>>) = {} /\ IsInjective(<<>>) /\ \A S : <<>> \in Seq(S)
  BY Emptied
<1>1. Types
  <2>1. TypeQueues
    BY <1>0, <1>c, <1>e, EmptySeq DEF TypeQueues
  <2>2. TypeThreads
    BY <1>0 DEF TypeThreads, Stations
  <2>3. TypePools
    BY <1>0, <1>e DEF TypePools
  <2>4. TypeOverlays /\ TypeLedger
    BY <1>0 DEF TypeOverlays, TypeLedger
  <2>5. QED
    BY <2>1, <2>2, <2>3, <2>4 DEF Types
<1>2. Control
  BY <1>0, <1>c DEF Control
<1>3. Tasks = {} /\ InFlight = {}
  <2>1. Tasks = {}
    BY <1>0 DEF Tasks, Range
  <2>2. QED
    BY <1>0, <1>e, <2>1, InFlightIs
<1>4. Apart
  BY <1>0, <1>e, <1>3 DEF Apart
<1>5. Contents
  BY <1>0, <1>c, <1>e DEF Contents
<1>6. Ownership
  <2>0. \A w \in InfWorkers : Contexts(w) = {}
    BY <1>0, <1>e DEF Contexts
  <2>1. \A b : b \in Held => b = None
    BY <1>0, <1>1, <2>0, HeldIs DEF Types, Holders
  <2>2. NoBufferShared
    BY <1>0 DEF NoBufferShared
  <2>3. QED
    BY <1>0, <1>c, <2>0, <2>1, <2>2 DEF Ownership
<1>11. Copying
  <2>1. \A w \in InfWorkers : stream[w] = <<>> /\ 1 .. Len(stream[w]) = {}
    BY <1>0
  <2>2. QED
    BY <2>1 DEF Copying
<1>7. Ledger
  <2>1. accepted \union refused = 0 .. 0 - 1 /\ 0 \in 0 .. MaxSeq
    BY <1>0, <1>c
  <2>2. QED
    BY <1>0, <1>3, <2>1 DEF Ledger
<1>8. LossesCounted
  <2>1. (accepted \union refused) \ (published \union InFlight) = {}
    BY <1>0
  <2>2. QED
    BY <1>0, <2>1, FS_EmptySet DEF LossesCounted
<1>9. Teardown
  <2>1. down = TakenDown(0)
    BY <1>0 DEF TakenDown
  <2>2. QED
    BY <1>0, <2>1 DEF Teardown, Stopped
<1>10. QED
  BY <1>1, <1>2, <1>4, <1>5, <1>6, <1>7, <1>8, <1>9, <1>11 DEF IInv

\* Every step keeps all of it.
LEMMA StepIsGood == IInv /\ [Next]_vars => IInv'
<1> SUFFICES ASSUME IInv, [Next]_vars PROVE IInv'
  OBVIOUS
<1>1. Types /\ Control /\ Apart /\ Contents /\ Ownership /\ Copying /\ Ledger /\ LossesCounted /\ Teardown
  BY DEF IInv
<1>2. TypeQueues' /\ TypeThreads' /\ TypeOverlays' /\ TypeLedger' /\ Control'
  BY <1>1, TypeQueuesStep, TypeThreadsStep, TypeOverlaysStep, TypeLedgerStep, ControlStep
<1>3. TypePools' /\ Ownership'
  BY <1>1, OwnershipStep
<1>4. Apart' /\ Contents' /\ Copying' /\ Ledger' /\ LossesCounted' /\ Teardown'
  BY <1>1, ApartStep, ContentsStep, CopyingStep, LedgerStep, LossesStep, TeardownStep
<1>5. QED
  BY <1>2, <1>3, <1>4 DEF IInv, Types

\* The inductive invariant of the pipeline.
THEOREM Invariance == SafeSpec => []IInv
BY InitIsGood, StepIsGood, PTL DEF SafeSpec

\* A post thread that looks for an overlay buffer has none, so not all are taken.
LEMMA OverlayLeft == IInv => OverlayNeverExhausted
<1> SUFFICES ASSUME IInv, NEW w \in PostWorkers, At(w, "acquire"), overlayFree = {} PROVE FALSE
  BY DEF OverlayNeverExhausted
<1>1. /\ overlay \in [PostWorkers -> Overlays \union {None}] /\ None \notin Overlays
      /\ overlay[w] = None /\ Overlays \subseteq Range(overlay)
  BY Constants DEF IInv, Types, TypeOverlays, Control, At
<1> DEFINE f == [o \in Overlays |-> CHOOSE v \in PostWorkers : overlay[v] = o]
<1>2. \A o \in Overlays : f[o] \in PostWorkers \ {w} /\ overlay[f[o]] = o
  <2>1. ASSUME NEW o \in Overlays PROVE f[o] \in PostWorkers \ {w} /\ overlay[f[o]] = o
    <3>1. \E v \in PostWorkers : overlay[v] = o
      BY <1>1 DEF Range
    <3>2. f[o] \in PostWorkers /\ overlay[f[o]] = o
      BY <3>1
    <3>3. QED
      BY <1>1, <3>2
  <2>2. QED
    BY <2>1
<1>3. f \in Injection(Overlays, PostWorkers \ {w})
  BY <1>2 DEF Injection, IsInjective
<1>4. /\ IsFiniteSet(PostWorkers \ {w}) /\ Cardinality(PostWorkers \ {w}) = Cardinality(PostWorkers) - 1
      /\ Cardinality(PostWorkers) \in Nat /\ Cardinality(Overlays) \in Nat
      /\ Cardinality(PostWorkers) <= Cardinality(Overlays)
  BY ThreadsAssumption, OverlaysAssumption, FS_RemoveElement, FS_CardinalityType
<1>5. Cardinality(Overlays) <= Cardinality(PostWorkers \ {w})
  BY <1>3, <1>4, FS_Injection
<1>6. QED
  BY <1>4, <1>5

\* On whatever way a batch ends, its buffers come back, none is given to two
\* batches, and no post thread waits for an overlay buffer.
THEOREM BuffersComeBack == SafeSpec => []BuffersAccounted
<1>1. IInv => BuffersAccounted
  <2> SUFFICES ASSUME IInv PROVE BuffersAccounted
    OBVIOUS
  <2>1. TypeOK
    <3>1. down \subseteq Range(Order)
      BY Steps10 DEF IInv, Teardown, TakenDown
    <3>2. QED
      BY <3>1 DEF IInv, Types, TypeQueues, TypeThreads, TypePools, TypeOverlays, TypeLedger,
                  Stations, Ops, TypeOK
  <2>2. NoBufferLost
    <3>1. SUFFICES ASSUME NEW b \in Buffers, b \notin pinnedFree
                   PROVE  \/ \E s \in InFlight : buf[s] = b
                          \/ \E w \in InfWorkers : Callback(b) \in Range(stream[w]) \/ b \in leaked[w]
      BY DEF NoBufferLost
    <3>2. b \in Held /\ b # None
      BY <3>1, Constants DEF IInv, Ownership
    <3>3. (\E s \in Batches : buf[s] = b) \/ \E w \in InfWorkers : b \in Contexts(w)
      BY <3>2, HeldIs DEF Holders, IInv, Types
    <3>4. QED
      BY <3>2, <3>3 DEF IInv, Contents, Contexts
  <2>3. NoBufferShared
    BY DEF IInv, Ownership
  <2>4. QED
    BY <2>1, <2>2, <2>3, OverlayLeft DEF BuffersAccounted
<1>2. QED
  BY <1>1, Invariance, PTL

\* A buffer the GPU may still read for a batch is neither in the pool nor with
\* another batch.
THEOREM CopiesKeepTheirBuffer == SafeSpec => []NoReuseUnderDMA
<1>1. IInv => NoReuseUnderDMA
  <2> SUFFICES ASSUME IInv, NEW w \in InfWorkers, NEW b \in Buffers, Copy(b) \in Range(stream[w])
               PROVE  b \notin pinnedFree /\ \A s \in InFlight : buf[s] = b => task[w] = s
    BY DEF NoReuseUnderDMA
  <2>0. InFlight \subseteq Batches /\ Types /\ Control /\ Copying /\ Ownership /\ Contents
    BY InFlightIs DEF IInv, Types
  <2>t. stream[w] \in Seq(Ops) /\ leaked[w] \subseteq Buffers /\ w \in Workers
    BY <2>0, Constants DEF Types, TypePools
  <2>1. PICK i \in 1 .. Len(stream[w]) : stream[w][i] = Copy(b)
    BY <2>t, InRange
  <2>2. \/ pc[w] = "context" /\ i = Len(stream[w])
        \/ b \in leaked[w]
        \/ \E j \in i + 1 .. Len(stream[w]) : stream[w][j] = Callback(b)
    BY <2>0, <2>1 DEF Copying
  <2>3. CASE pc[w] = "context" /\ i = Len(stream[w])
    <3>1. stream[w] # <<>>
      BY <2>1, <2>t
    <3>2. buf[task[w]] = b
      BY <2>0, <2>1, <2>3, <3>1, Kinds DEF Copying
    <3>3. task[w] \in Batches
      BY <2>0, <2>3, <2>t, HasBatch
    <3>4. b \in Held /\ b # None
      BY <2>0, <3>2, <3>3, Constants, HeldIs DEF Holders, Types
    <3>5. \A s \in Batches : buf[s] = b => s = task[w]
      BY <2>0, <3>2, <3>3, <3>4 DEF Ownership, NoBufferShared
    <3>6. QED
      BY <2>0, <3>4, <3>5 DEF Ownership
  <2>4. CASE b \in leaked[w] \/ \E j \in i + 1 .. Len(stream[w]) : stream[w][j] = Callback(b)
    <3>1. ASSUME NEW j \in i + 1 .. Len(stream[w]), stream[w][j] = Callback(b)
          PROVE  Callback(b) \in Range(stream[w])
      <4>1. j \in 1 .. Len(stream[w])
        BY <2>t, <2>1, LenProperties
      <4>2. QED
        BY <2>t, <3>1, <4>1, InRange
    <3>2. b \in Contexts(w)
      BY <2>4, <3>1 DEF Contexts
    <3>3. b \in Held
      BY <2>0, <3>2, HeldIs DEF Holders, Types
    <3>4. QED
      BY <2>0, <3>2, <3>3 DEF Ownership
  <2>5. QED
    BY <2>2, <2>3, <2>4
<1>2. QED
  BY <1>1, Invariance, PTL

\* While the detector runs, every batch that went in and is neither inside nor
\* published has been counted as a drop.
THEOREM DropsCoverLosses == SafeSpec => []LossesCounted
<1>1. IInv => LossesCounted
  BY DEF IInv
<1>2. QED
  BY <1>1, Invariance, PTL

\* Once the queues are gone, all buffers are in their pools but those of contexts
\* that were never launched.
AllBack == Stopped("queues") => pinnedFree = Buffers \ UNION Range(leaked) /\ overlayFree = Overlays

\* They are: nobody is left to have one.
LEMMA BuffersAreBack == IInv => AllBack
<1> SUFFICES ASSUME IInv, Stopped("queues") PROVE pinnedFree = Buffers \ UNION Range(leaked) /\ overlayFree = Overlays
  BY DEF AllBack
<1>1. /\ \A w \in Workers : pc[w] = "exited" /\ task[w] = None
      /\ \A w \in InfWorkers : stream[w] = <<>>
      /\ rawQ = <<>> /\ prepQ = <<>> /\ infQ = <<>>
  BY DoneBefore DEF IInv, Teardown, Control
<1>2. InFlight = {}
  <2>1. Tasks = {}
    BY <1>1, TasksAre DEF IInv, Types
  <2>2. QED
    BY <1>1, <2>1, Emptied, InFlightIs
<1>3. \A b \in Buffers : b \in Held <=> b \in UNION Range(leaked)
  <2>1. \A w \in InfWorkers : Contexts(w) = leaked[w]
    BY <1>1, Emptied DEF Contexts, IInv, Types, TypePools
  <2>2. \A s \in Batches : buf[s] = None
    BY <1>2 DEF IInv, Contents
  <2>3. \A b : b \in UNION Range(leaked) <=> \E w \in InfWorkers : b \in leaked[w]
    BY DEF IInv, Types, TypePools, Range
  <2>4. QED
    BY <2>1, <2>2, <2>3, Constants, HeldIs DEF Holders, IInv, Types
<1>4. pinnedFree = Buffers \ UNION Range(leaked)
  <2>1. pinnedFree \subseteq Buffers /\ Buffers \subseteq pinnedFree \union Held /\ pinnedFree \intersect Held = {}
    BY DEF IInv, Types, TypePools, Ownership
  <2>2. QED
    BY <1>3, <2>1
<1>5. \A w \in PostWorkers : overlay[w] = None
  BY <1>1, Constants DEF IInv, Control
<1>6. Overlays \subseteq overlayFree
  BY <1>5, Constants DEF IInv, Control, Types, TypeOverlays, Range
<1>7. QED
  BY <1>4, <1>6 DEF IInv, Types, TypeOverlays

\* Nothing is returned to a pool that has been destroyed.
THEOREM NoneReturnsLate == SafeSpec => NoLateRelease
<1> DEFINE A == /\ Stopped("queues") => pinnedFree = Buffers \ UNION Range(leaked) /\ overlayFree = Overlays
                /\ Stopped("pools") => UNCHANGED <<pinnedFree, overlayFree>>
<1>1. IInv /\ IInv' /\ [Next]_vars => [A]_vars
  <2> SUFFICES ASSUME IInv, IInv', [Next]_vars PROVE A
    OBVIOUS
  <2>1. Stopped("queues") => pinnedFree = Buffers \ UNION Range(leaked) /\ overlayFree = Overlays
    BY BuffersAreBack DEF AllBack
  <2>2. Stopped("queues")' => pinnedFree' = Buffers \ UNION Range(leaked') /\ overlayFree' = Overlays
    <3>1. IInv' => AllBack'
      BY BuffersAreBack, PTL
    <3>2. QED
      BY <3>1 DEF AllBack
  <2>3. Stopped("pools") => Stopped("queues") /\ Stopped("queues")'
    <3>1. Stopped("pools") => Stopped("queues")
      BY DoneBefore DEF IInv
    <3>2. down \subseteq down'
      BY ApartStep DEF IInv, PushBatch, LetsGo, TakeDown
    <3>3. QED
      BY <3>1, <3>2 DEF Stopped
  <2>4. Stopped("queues") => UNCHANGED leaked
    <3>1. Stopped("queues") => \A w \in InfWorkers : pc[w] = "exited"
      BY DoneBefore, Constants DEF IInv, Teardown
    <3>2. ASSUME NEW w \in InfWorkers, Launch(w) PROVE pc[w] # "exited"
      BY <3>2 DEF Launch, LaunchHostFunc, LaunchHostFuncFails, At
    <3>3. UNCHANGED leaked \/ \E w \in InfWorkers : Launch(w)
      BY Steps DEF IInv, PushBatch, PopRaw, AcquirePinned, PushPrep, PopPrep, Submit, Sync, PushInf,
                   StreamStep, CopyDone, ReleasePinnedInputCallback, PopInf, AcquireOverlay, Strolls,
                   LetsGo, TakeDown, DestroyQueues, vars, pools
    <3>4. QED
      BY <3>1, <3>2, <3>3
  <2>5. Stopped("pools") => pinnedFree' = pinnedFree /\ overlayFree' = overlayFree
    BY <2>1, <2>2, <2>3, <2>4
  <2>6. QED
    BY <2>1, <2>5
<1>2. QED
  BY <1>1, Invariance, PTL DEF SafeSpec, NoLateRelease

--------------------------------------------------------------------------------

\* The pipeline does what Detector says.

\* Accepted, and neither published nor inside.
Lost == accepted \ (published \union InFlight)

\* A queue has as many places as batches.
LEMMA QueueSize ==
    ASSUME NEW q \in Seq(Batches)
    PROVE  /\ IsFiniteSet(Range(q)) /\ Cardinality(Range(q)) \in Nat
           /\ Cardinality(Range(q)) <= Len(q)
           /\ IsInjective(q) => Cardinality(Range(q)) = Len(q)
<1>1. Len(q) \in Nat /\ DOMAIN q = 1 .. Len(q) /\ q \in [1 .. Len(q) -> Batches]
  BY LenProperties
<1>2. IsFiniteSet(1 .. Len(q)) /\ Cardinality(1 .. Len(q)) = Len(q)
  <2>1. Len(q) \in Int /\ (1 > Len(q) => Len(q) = 0) /\ (~(1 > Len(q)) => Len(q) - 1 + 1 = Len(q))
    BY <1>1
  <2>2. /\ IsFiniteSet(1 .. Len(q))
        /\ Cardinality(1 .. Len(q)) = IF 1 > Len(q) THEN 0 ELSE Len(q) - 1 + 1
    BY <2>1, FS_Interval
  <2>3. QED
    BY <2>1, <2>2
<1>3. q \in Surjection(1 .. Len(q), Range(q))
  BY <1>1 DEF Surjection, Range
<1>4. /\ IsFiniteSet(Range(q)) /\ Cardinality(Range(q)) <= Len(q)
      /\ Cardinality(Range(q)) = Len(q) <=> q \in Injection(1 .. Len(q), Range(q))
  BY <1>2, <1>3, FS_Surjection
<1>5. IsInjective(q) => q \in Injection(1 .. Len(q), Range(q))
  BY <1>1, <1>3 DEF Injection, Surjection, IsInjective
<1>6. QED
  BY <1>4, <1>5, FS_CardinalityType

\* There is room for as many batches as the queues have places and the stages
\* have threads, and a full q_raw_ means that RawCap batches are inside.
LEMMA Room ==
    ASSUME TypeQueues, TypeThreads, Apart
    PROVE  /\ IsFiniteSet(InFlight) /\ Cardinality(InFlight) \in Nat
           /\ Cardinality(InFlight) <= Len(rawQ) + PrepCap + InfCap + Cardinality(Workers)
           /\ Len(rawQ) <= Cardinality(InFlight)
           /\ Len(rawQ) \in Nat /\ Cardinality(Workers) \in Nat
<1>1. rawQ \in Seq(Batches) /\ prepQ \in Seq(Batches) /\ infQ \in Seq(Batches)
  BY DEF TypeQueues
<1>2. /\ Len(prepQ) \in Nat /\ Len(infQ) \in Nat /\ Len(rawQ) \in Nat
      /\ Len(prepQ) <= PrepCap /\ Len(infQ) <= InfCap
  BY <1>1, LenProperties DEF TypeQueues
<1> DEFINE R == Range(rawQ)
           P == Range(prepQ)
           I == Range(infQ)
           T == Tasks
<1>3. /\ IsFiniteSet(R) /\ IsFiniteSet(P) /\ IsFiniteSet(I)
      /\ Cardinality(R) = Len(rawQ) /\ Cardinality(P) <= Len(prepQ) /\ Cardinality(I) <= Len(infQ)
  BY <1>1, QueueSize DEF Apart
<1>4. IsFiniteSet(Workers) /\ Cardinality(Workers) \in Nat
  <2>1. IsFiniteSet(PrepWorkers \union InfWorkers)
    BY ThreadsAssumption, FS_Union
  <2>2. QED
    BY <2>1, ThreadsAssumption, FS_Union, FS_CardinalityType DEF Workers
<1>5. IsFiniteSet(T) /\ Cardinality(T) <= Cardinality(Workers)
  <2>1. task \in Surjection(Workers, Range(task))
    BY DEF TypeThreads, Surjection, Range
  <2>2. IsFiniteSet(Range(task)) /\ Cardinality(Range(task)) <= Cardinality(Workers)
    BY <1>4, <2>1, FS_Surjection
  <2>3. T \subseteq Range(task)
    BY DEF Tasks
  <2>4. IsFiniteSet(T) /\ Cardinality(T) <= Cardinality(Range(task))
    BY <2>2, <2>3, FS_Subset
  <2>5. Cardinality(T) \in Nat /\ Cardinality(Range(task)) \in Nat
    BY <2>2, <2>4, FS_CardinalityType
  <2>6. QED
    BY <1>4, <2>2, <2>4, <2>5
<1> HIDE DEF R, P, I, T
<1>6. /\ IsFiniteSet(R \union P) /\ IsFiniteSet((R \union P) \union I)
      /\ IsFiniteSet(((R \union P) \union I) \union T)
  BY <1>3, <1>5, FS_Union
<1>7. /\ Cardinality(R \union P) <= Cardinality(R) + Cardinality(P)
      /\ Cardinality((R \union P) \union I) <= Cardinality(R \union P) + Cardinality(I)
      /\ Cardinality(((R \union P) \union I) \union T) <= Cardinality((R \union P) \union I) + Cardinality(T)
  <2>1. ASSUME NEW X, NEW Y, IsFiniteSet(X), IsFiniteSet(Y)
        PROVE  Cardinality(X \union Y) <= Cardinality(X) + Cardinality(Y)
    <3>1. Cardinality(X \union Y) = Cardinality(X) + Cardinality(Y) - Cardinality(X \intersect Y)
      BY <2>1, FS_Union
    <3>2. IsFiniteSet(X \intersect Y)
      <4>1. X \intersect Y \subseteq X
        OBVIOUS
      <4>2. QED
        BY <2>1, <4>1, FS_Subset
    <3>3. Cardinality(X) \in Nat /\ Cardinality(Y) \in Nat /\ Cardinality(X \intersect Y) \in Nat
      BY <2>1, <3>2, FS_CardinalityType
    <3>4. QED
      BY <3>1, <3>3
  <2>2. QED
    BY <1>3, <1>5, <1>6, <2>1
<1>8. InFlight = ((R \union P) \union I) \union T
  BY InFlightIs DEF R, P, I, T
<1>9. /\ Cardinality(R) \in Nat /\ Cardinality(P) \in Nat /\ Cardinality(I) \in Nat
      /\ Cardinality(T) \in Nat /\ Cardinality(R \union P) \in Nat
      /\ Cardinality((R \union P) \union I) \in Nat /\ Cardinality(InFlight) \in Nat
  BY <1>3, <1>5, <1>6, <1>8, FS_CardinalityType
<1>10. Cardinality(R) <= Cardinality(InFlight)
  BY <1>6, <1>8, FS_Subset
<1>11. Cardinality(InFlight) <= Len(rawQ) + PrepCap + InfCap + Cardinality(Workers)
  BY <1>2, <1>3, <1>4, <1>5, <1>7, <1>8, <1>9, Constants
<1>12. QED
  BY <1>2, <1>3, <1>4, <1>6, <1>8, <1>9, <1>10, <1>11

\* Detector counts as this module does.
LEMMA SameCount == \A S : D!Cardinality(S) = Cardinality(S)
BY Zenon DEF D!Cardinality, Cardinality

\* Every step of the pipeline is a step of the detector, or invisible there.
LEMMA Simulation == IInv /\ [Next]_vars => [D!Next]_(D!vars)
<1> SUFFICES ASSUME IInv, [Next]_vars PROVE D!Next \/ UNCHANGED D!vars
  BY DEF D!vars
<1>0. Types /\ Control /\ Apart /\ Contents /\ Ownership /\ Ledger /\ LossesCounted /\ Teardown
  BY DEF IInv
<1>l. Ledger /\ Ledger' /\ InFlight \subseteq Batches
  BY <1>0, LedgerStep, InFlightIs DEF Types
<1>1. ASSUME NEW s \in Batches, PushBatch(s), Len(rawQ) < RawCap, InFlight' = InFlight \union {s}
      PROVE  D!Accept(s)
  <2>1. s \notin accepted /\ s \notin refused /\ s \notin InFlight /\ s \notin published
    BY <1>1, <1>l, FreshNumber DEF PushBatch
  <2>2. /\ accepted' = accepted \union {s} /\ UNCHANGED <<refused, published>>
        /\ down = {} /\ down' = down
    BY <1>1 DEF PushBatch
  <2>3. Lost' = Lost /\ s \notin Lost
    BY <1>1, <2>1, <2>2 DEF Lost
  <2>4. Cardinality(InFlight) < RawCap + PrepCap + InfCap + Cardinality(Workers)
    BY <1>0, <1>1, Room, Constants DEF Types
  <2>5. s \notin D!Pushed
    BY <2>1, <2>3 DEF D!Pushed, Lost
  <2>6. ~Stopped("is_running_") /\ ~Stopped("is_running_")'
    BY <2>2 DEF Stopped
  <2>7. QED
    BY <1>1, <2>2, <2>3, <2>4, <2>5, <2>6, SameCount DEF D!Accept, Lost
<1>2. ASSUME NEW s \in Batches, PushBatch(s), ~(Len(rawQ) < RawCap), InFlight' = InFlight
      PROVE  D!Refuse(s)
  <2>1. s \notin accepted /\ s \notin refused /\ s \notin InFlight /\ s \notin published
    BY <1>2, <1>l, FreshNumber DEF PushBatch
  <2>2. /\ refused' = refused \union {s} /\ UNCHANGED <<accepted, published>>
        /\ down = {} /\ down' = down
    BY <1>2 DEF PushBatch
  <2>3. Lost' = Lost /\ s \notin Lost
    BY <1>2, <2>1, <2>2 DEF Lost
  <2>4. Cardinality(InFlight) >= RawCap
    BY <1>0, <1>2, Room, Constants DEF Types
  <2>5. s \notin D!Pushed
    BY <2>1, <2>3 DEF D!Pushed, Lost
  <2>6. ~Stopped("is_running_") /\ ~Stopped("is_running_")'
    BY <2>2 DEF Stopped
  <2>7. QED
    BY <1>2, <2>2, <2>3, <2>4, <2>5, <2>6, SameCount DEF D!Refuse, Lost
<1>3. ASSUME NEW w \in Workers, LetsGo(w), InFlight' = InFlight \ {task[w]}
      PROVE  D!Next \/ UNCHANGED D!vars
  <2>1. UNCHANGED <<accepted, refused, down>>
    BY <1>3 DEF LetsGo
  <2>2. task[w] # None => task[w] \in InFlight /\ task[w] \in Batches
    BY <1>0, <1>l, TasksAre, InFlightIs DEF Types
  <2>3. CASE task[w] = None
    <3>1. InFlight' = InFlight
      BY <1>3, <1>l, <2>3, Constants
    <3>2. published' = published
      BY <1>0, <1>3, <2>3 DEF LetsGo, Control
    <3>3. QED
      BY <2>1, <3>1, <3>2 DEF D!vars, Stopped
  <2>4. CASE task[w] # None /\ published' = published \union {task[w]}
    <3>1. Lost' = Lost
      BY <1>3, <1>l, <2>1, <2>2, <2>4 DEF Lost, Ledger
    <3>2. D!Publish(task[w])
      BY <1>3, <2>1, <2>2, <2>4, <3>1 DEF D!Publish, Lost, Stopped
    <3>3. QED
      BY <2>2, <2>4, <3>2 DEF D!Next, D!Leave
  <2>5. CASE task[w] # None /\ published' = published
    <3> DEFINE S == {task[w]}
    <3>1. Lost' = Lost \union S
      BY <1>3, <1>l, <2>1, <2>2, <2>5 DEF Lost, Ledger
    <3>2. Cardinality(S) = 1
      BY FS_Singleton
    <3>3. /\ S # {} /\ S \subseteq InFlight /\ InFlight' = InFlight \ S
          /\ task[w] \in S /\ task[w] \in Batches
      BY <1>3, <2>2, <2>5
    <3> HIDE DEF S
    <3>4. (Stopped("is_running_")' <=> Stopped("is_running_")) /\ published' = published
      BY <2>1, <2>5 DEF Stopped
    <3>5. D!Lose(S)
      BY <2>1, <3>1, <3>2, <3>3, <3>4, SameCount DEF D!Lose, Lost
    <3>6. QED
      BY <3>3, <3>5 DEF D!Next, D!Leave
  <2>6. QED
    BY <1>3, <2>3, <2>4, <2>5 DEF LetsGo
<1>4. ASSUME NEW object \in Range(Order), TakeDown(object), InFlight' \subseteq InFlight,
             object # "queues" => InFlight' = InFlight
      PROVE  D!Next \/ UNCHANGED D!vars
  <2>1. UNCHANGED <<accepted, refused, published>> /\ down' = down \union {object}
    BY <1>4 DEF TakeDown, ledger
  <2>2. CASE object = "is_running_"
    <3>1. Lost' = Lost /\ InFlight' = InFlight /\ Stopped("is_running_")'
      BY <1>4, <2>1, <2>2 DEF Lost, Stopped
    <3>2. CASE Stopped("is_running_")
      BY <2>1, <3>1, <3>2 DEF D!vars, Lost
    <3>3. CASE ~Stopped("is_running_")
      BY <2>1, <3>1, <3>3 DEF D!Next, D!Close, Lost
    <3>4. QED
      BY <3>2, <3>3
  <2>3. CASE object # "is_running_"
    <3>1. Stopped("is_running_")' <=> Stopped("is_running_")
      BY <2>1, <2>3 DEF Stopped
    <3>2. CASE InFlight' = InFlight
      BY <2>1, <3>1, <3>2 DEF D!vars, Lost, Stopped
    <3>3. CASE InFlight' # InFlight
      <4>1. object = "queues"
        BY <1>4, <3>3
      <4>2. Stopped("is_running_")
        <5>1. down # {}
          <6>1. ASSUME down = {} PROVE FALSE
            <7>1. Cardinality(down) = 0
              BY <6>1, FS_EmptySet
            <7>2. object = "is_running_"
              BY <1>4, <7>1, Steps10 DEF TakeDown
            <7>3. QED
              BY <2>3, <7>2
          <6>2. QED
            BY <6>1
        <5>2. QED
          BY <1>0, <5>1, DoneBefore
      <4>3. PICK s \in InFlight : s \notin InFlight'
        BY <1>4, <3>3
      <4> DEFINE S == InFlight \ InFlight'
      <4>4. Lost' = Lost \union S
        BY <1>4, <1>l, <2>1 DEF Lost, Ledger
      <4>5. S # {} /\ S \subseteq InFlight /\ InFlight' = InFlight \ S /\ s \in S /\ s \in Batches
        BY <1>4, <1>l, <4>3
      <4> HIDE DEF S
      <4>6. D!Lose(S)
        BY <2>1, <3>1, <4>2, <4>4, <4>5 DEF D!Lose, Lost
      <4>7. QED
        BY <4>5, <4>6 DEF D!Next, D!Leave
    <3>4. QED
      BY <3>2, <3>3
  <2>4. QED
    BY <2>2, <2>3
<1>5. CASE InFlight' = InFlight /\ UNCHANGED <<ledger, down>>
  BY <1>5 DEF D!vars, ledger, Stopped
<1>6. QED
  BY <1>0, <1>1, <1>2, <1>3, <1>4, <1>5, ApartStep DEF D!Next

\* The safety half of ImplementsDetector: a batch is refused only when RawCap are
\* inside, never more than Capacity are, each is published at most once, and one
\* error loses one batch.
THEOREM SafeImplementation == SafeSpec => D!SafeSpec
<1>1. Init => D!Init
  <2>1. Init => InFlight = {}
    <3>1. ASSUME Init PROVE InFlight = {}
      <4>1. Tasks = {}
        BY <3>1 DEF Init, Tasks, Range
      <4>2. rawQ = <<>> /\ prepQ = <<>> /\ infQ = <<>>
        BY <3>1 DEF Init
      <4>3. QED
        BY <4>1, <4>2, Emptied, InFlightIs
    <3>2. QED
      BY <3>1
  <2>2. QED
    BY <2>1 DEF Init, D!Init, Stopped
<1>2. QED
  BY <1>1, Invariance, Simulation, PTL DEF SafeSpec, D!SafeSpec
================================================================================
