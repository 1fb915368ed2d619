---------------------------- MODULE KeepWarmProofs ----------------------------
(***************************************************************************)
(* Proofs about KeepWarm for any number of sessions and post threads, any   *)
(* idle time and quantum, and windows of any size.                          *)
(*                                                                          *)
(* Warm and Spaced relate the clocks of a session: what it has waited and   *)
(* the rest of its wait are a whole quantum at least; a GPU session has     *)
(* waited no longer than lastRealWork says, or is due, so the rest still    *)
(* fits; and it took its last batch no later than lastRealWork (the clocks  *)
(* stop at their limits).  Flow counts batches: as many as a stage has      *)
(* passed on are with the next one or behind it, unless they were dropped.  *)
(* Numbering says that each number is with one thread or in one summary.    *)
(* Rolling says what is at each place of a window, without the remainders   *)
(* of the code.                                                             *)
(***************************************************************************)
EXTENDS KeepWarm, FiniteSetTheorems, SequenceTheorems, TLAPS

Stations == {"pop", "timeout", "real", "dummy", "measure", "push"}
PostStations == {"pop", "add", "count", "print"}
Window == [buf : [0 .. kWindow - 1 -> Batches \union {None}], next : 0 .. kWindow - 1, count : 0 .. kWindow]

TypeSessions ==
    /\ pc \in [Sessions -> Stations]
    /\ left \in [Sessions -> 0 .. Quantum + MaxRun]
    /\ batch \in [Sessions -> Batches \union {None}]
    /\ \A s \in Sessions : pc[s] \in {"real", "measure", "push"} => batch[s] \in Batches

TypeClocks ==
    /\ sinceReal \in [Sessions -> 0 .. Idle]
    /\ waited \in [Sessions -> 0 .. Idle + Quantum]
    /\ sinceTaken \in [Sessions -> 0 .. Idle]

TypeQueues ==
    /\ prepQueue \in Seq(Batches) /\ infQueue \in Seq(Batches)
    /\ arrived \in 0 .. MaxBatches /\ dropped \in 0 .. MaxFaults

TypePosters ==
    /\ post \in [Posters -> PostStations]
    /\ rendered \in [Posters -> Batches \union {None}]
    /\ \A t \in Posters : post[t] # "pop" => rendered[t] \in Batches

TypeMetrics ==
    /\ field \in [Fields -> Window]
    /\ measured \in [Fields -> Seq(Batches)]
    /\ completedBatches \in Nat
    /\ number \in [Posters -> Nat]
    /\ summaries \in Seq(Nat)

Types == TypeSessions /\ TypeClocks /\ TypeQueues /\ TypePosters /\ TypeMetrics

\* How long a session has waited, and still will.
Warm ==
    /\ \A s \in Sessions :
        /\ pc[s] \notin {"pop", "timeout"} => waited[s] = 0
        /\ pc[s] = "timeout" => left[s] = 0
        /\ pc[s] \in {"pop", "timeout"} => waited[s] + left[s] >= Quantum
    /\ \A s \in Gpu : pc[s] \in {"pop", "timeout"} =>
        /\ waited[s] <= sinceReal[s] \/ sinceReal[s] >= Idle
        /\ waited[s] + left[s] < Idle + Quantum

\* Whoever took a batch did so no later than lastRealWork says.
Spaced == \A s \in Sessions : sinceReal[s] <= sinceTaken[s]

\* The sessions and post threads at some places of their loops.
SessionsAt(places) == {s \in Sessions : pc[s] \in places}
PostersAt(place) == {t \in Posters : post[t] = place}

\* The batches that wait for a session, are with one, wait for it to push them,
\* wait for a post thread, are with one before it is timed, and before it is counted.
Waiting == Len(prepQueue)
Computing == Cardinality(SessionsAt({"real", "measure"}))
Pushing == Cardinality(SessionsAt({"push"}))
Inferred == Len(infQueue)
Adding == Cardinality(PostersAt("add"))
Counting == Cardinality(PostersAt("count"))

\* The measurements of the sessions and of the post threads.
Timed == Len(measured["gpu"])
Rendered == Len(measured["post"])

\* What a stage has passed on is with the next one or behind it, or was dropped.
Flow ==
    /\ Waiting + Computing + Timed <= arrived
    /\ Pushing + Inferred + Adding + Rendered <= Timed
    /\ Counting + completedBatches <= Rendered

\* Each number is given out once, to a thread that has not printed it.
Numbering ==
    /\ \A t \in Posters : number[t] <= completedBatches
    /\ \A t \in Posters : post[t] = "print" => number[t] >= 1
    /\ \A t, u \in Posters : post[t] = "print" /\ post[u] = "print" /\ number[t] = number[u] => t = u
    /\ \A i \in DOMAIN summaries : summaries[i] \in 1 .. completedBatches
    /\ \A i, j \in DOMAIN summaries : summaries[i] = summaries[j] => i = j
    /\ \A t \in Posters : post[t] = "print" => \A i \in DOMAIN summaries : summaries[i] # number[t]

\* Which of the n measurements is at place i, if the next one goes to place next.
Rank(i, next, n) == IF i < next THEN (n + (i + 1)) - next ELSE (n + (i + 1)) - (next + kWindow)

\* Place i of a window w over the measurements seq: before the place to be
\* written next are the latest ones, from there on what is left of the round before.
InPlace(w, seq) ==
    /\ IF Len(seq) < kWindow THEN w.next = Len(seq) /\ w.count = Len(seq) ELSE w.count = kWindow
    /\ w.next <= Len(seq)
    /\ \A i \in 0 .. w.count - 1 :
          w.buf[i] = seq[Rank(i, w.next, Len(seq))]

Rolling == \A f \in Fields : InPlace(field[f], measured[f])

IInv == Types /\ Warm /\ Spaced /\ Flow /\ Numbering /\ Rolling

--------------------------------------------------------------------------------

\* What is assumed of the constants.
LEMMA Constants ==
    /\ Quantum \in Nat \ {0} /\ Idle \in Nat \ {0} /\ kWindow \in Nat \ {0} /\ MaxRun \in Nat \ {0}
    /\ MaxBatches \in Nat /\ MaxFaults \in Nat /\ Gpu \subseteq Sessions
    /\ IsFiniteSet(Sessions) /\ IsFiniteSet(Posters)
BY TimeAssumption, ThreadsAssumption

\* A function with one new value.
LEMMA Put ==
    ASSUME NEW S, NEW T, NEW f \in [S -> T], NEW a, NEW v \in T
    PROVE  [f EXCEPT ![a] = v] \in [S -> T]
OBVIOUS

\* A queue one longer, and one shorter.
LEMMA Queue ==
    ASSUME NEW q \in Seq(Batches)
    PROVE  /\ Len(q) \in Nat
           /\ \A b \in Batches : Append(q, b) \in Seq(Batches) /\ Len(Append(q, b)) = Len(q) + 1
           /\ q # <<>> => Head(q) \in Batches /\ Tail(q) \in Seq(Batches) /\ Len(Tail(q)) = Len(q) - 1
<1>1. Len(q) \in Nat
  BY LenProperties
<1>2. \A b \in Batches : Append(q, b) \in Seq(Batches) /\ Len(Append(q, b)) = Len(q) + 1
  BY AppendProperties
<1>3. q # <<>> => Head(q) \in Batches /\ Tail(q) \in Seq(Batches) /\ Len(Tail(q)) = Len(q) - 1
  BY HeadTailProperties, EmptySeq
<1>4. QED
  BY <1>1, <1>2, <1>3

--------------------------------------------------------------------------------

\* The windows.

\* The place after place i.
LEMMA NextPlaceIs ==
    ASSUME NEW i \in 0 .. kWindow - 1
    PROVE  M!NextPlace(i) = IF i + 1 = kWindow THEN 0 ELSE i + 1
<1>1. kWindow \in Nat \ {0}
  BY Constants
<1>2. CASE i + 1 = kWindow
  <2>1. kWindow % kWindow = 0
    BY <1>1
  <2>2. QED
    BY <1>2, <2>1 DEF M!NextPlace
<1>3. CASE i + 1 # kWindow
  <2>1. i + 1 \in 0 .. kWindow - 1
    BY <1>1, <1>3
  <2>2. (i + 1) % kWindow = i + 1
    BY <1>1, <2>1
  <2>3. QED
    BY <1>3, <2>2 DEF M!NextPlace
<1>4. QED
  BY <1>2, <1>3

\* The newest measurement has the last rank.
LEMMA RankOfNew ==
    ASSUME NEW n \in Nat, NEW a \in 0 .. kWindow - 1, NEW c, c = IF a + 1 = kWindow THEN 0 ELSE a + 1
    PROVE  Rank(a, c, n + 1) = n + 1
<1>1. kWindow \in Int /\ n \in Int /\ a \in Int /\ 0 <= a
  BY Constants
<1>2. CASE a + 1 = kWindow
  <2>1. ((n + 1) + (a + 1)) - (0 + kWindow) = n + 1
    BY <1>1, <1>2
  <2>2. QED
    BY <1>1, <1>2, <2>1 DEF Rank
<1>3. CASE a + 1 # kWindow
  <2>1. ((n + 1) + (a + 1)) - (a + 1) = n + 1
    BY <1>1
  <2>2. QED
    BY <1>1, <1>3, <2>1 DEF Rank
<1>4. QED
  BY <1>2, <1>3

\* It leaves the ranks of the others alone.
LEMMA RankKept ==
    ASSUME NEW n \in Nat, NEW a \in 0 .. kWindow - 1, NEW i \in 0 .. kWindow - 1, i # a,
           NEW c, c = IF a + 1 = kWindow THEN 0 ELSE a + 1
    PROVE  Rank(i, c, n + 1) = Rank(i, a, n)
<1>1. /\ kWindow \in Int /\ n \in Int /\ a \in Int /\ i \in Int
      /\ 0 <= a /\ a <= kWindow - 1 /\ 0 <= i /\ i <= kWindow - 1
  BY Constants
<1>2. CASE a + 1 = kWindow
  <2>1. i < a /\ ((n + 1) + (i + 1)) - (0 + kWindow) = (n + (i + 1)) - a
    BY <1>1, <1>2
  <2>2. QED
    BY <1>1, <1>2, <2>1 DEF Rank
<1>3. CASE a + 1 # kWindow
  <2>1. CASE i < a
    <3>1. ((n + 1) + (i + 1)) - (a + 1) = (n + (i + 1)) - a
      BY <1>1
    <3>2. QED
      BY <1>1, <1>3, <2>1, <3>1 DEF Rank
  <2>2. CASE i > a
    <3>1. ((n + 1) + (i + 1)) - ((a + 1) + kWindow) = (n + (i + 1)) - (a + kWindow)
      BY <1>1
    <3>2. QED
      BY <1>1, <1>3, <2>2, <3>1 DEF Rank
  <2>3. QED
    BY <1>1, <2>1, <2>2
<1>4. QED
  BY <1>2, <1>3

\* What is at a place that has been written is one of the measurements.
LEMMA RankInside ==
    ASSUME NEW n \in Nat, NEW a \in 0 .. kWindow - 1, NEW i \in 0 .. kWindow - 1,
           a <= n, i < a \/ n >= kWindow
    PROVE  Rank(i, a, n) \in 1 .. n
<1>1. /\ kWindow \in Int /\ n \in Int /\ a \in Int /\ i \in Int
      /\ 0 <= a /\ a <= kWindow - 1 /\ 0 <= i /\ i <= kWindow - 1
  BY Constants
<1>2. CASE i < a
  <2>1. (n + (i + 1)) - a \in 1 .. n
    BY <1>1, <1>2
  <2>2. QED
    BY <1>2, <2>1 DEF Rank
<1>3. CASE ~(i < a)
  <2>1. (n + (i + 1)) - (a + kWindow) \in 1 .. n
    BY <1>1, <1>3
  <2>2. QED
    BY <1>3, <2>1 DEF Rank
<1>4. QED
  BY <1>2, <1>3

\* A window with one more measurement.
LEMMA Rolled ==
    ASSUME NEW w \in Window, NEW seq \in Seq(Batches), NEW b \in Batches, InPlace(w, seq), NEW v,
           v.buf = [w.buf EXCEPT ![w.next] = b],
           v.next = IF w.next + 1 = kWindow THEN 0 ELSE w.next + 1,
           v.count = IF w.count < kWindow THEN w.count + 1 ELSE w.count
    PROVE  InPlace(v, Append(seq, b))
<1> DEFINE n == Len(seq)
           more == Append(seq, b)
           a == w.next
           c == v.next
<1>0. /\ kWindow \in Nat \ {0} /\ n \in Nat
      /\ a \in 0 .. kWindow - 1 /\ w.count \in 0 .. kWindow
      /\ w.buf \in [0 .. kWindow - 1 -> Batches \union {None}]
  BY Constants, LenProperties DEF Window
<1>1. /\ Len(more) = n + 1 /\ more[n + 1] = b
      /\ \A j \in 1 .. n : more[j] = seq[j]
  BY AppendProperties
<1>2. /\ n < kWindow => a = n /\ w.count = n
      /\ ~(n < kWindow) => w.count = kWindow
      /\ a <= n
      /\ \A i \in 0 .. w.count - 1 : w.buf[i] = seq[Rank(i, a, n)]
  BY DEF InPlace
<1>3. \A i \in 0 .. kWindow - 1 : v.buf[i] = IF i = a THEN b ELSE w.buf[i]
  BY <1>0
<1>4. c = IF a + 1 = kWindow THEN 0 ELSE a + 1
  OBVIOUS
<1>5. v.count = IF w.count < kWindow THEN w.count + 1 ELSE w.count
  OBVIOUS
<1> HIDE DEF n, more, a, c
<1>6. /\ IF n + 1 < kWindow THEN c = n + 1 /\ v.count = n + 1 ELSE v.count = kWindow
      /\ c <= n + 1 /\ v.count \in 1 .. kWindow
  BY <1>0, <1>2, <1>4, <1>5
<1>7. ASSUME NEW i \in 0 .. v.count - 1
      PROVE  v.buf[i] = more[Rank(i, c, n + 1)]
  <2>0. i \in 0 .. kWindow - 1
    BY <1>0, <1>6
  <2>2. CASE i = a
    <3>1. Rank(a, c, n + 1) = n + 1
      BY <1>0, <1>4, RankOfNew
    <3>2. QED
      BY <1>1, <1>3, <2>0, <2>2, <3>1
  <2>3. CASE i # a
    <3>1. i \in 0 .. w.count - 1
      BY <1>0, <1>2, <1>5, <2>0, <2>3
    <3>2. i < a \/ n >= kWindow
      BY <1>0, <1>2, <2>0, <2>3, <3>1
    <3>3. w.buf[i] = seq[Rank(i, a, n)]
      BY <1>2, <3>1
    <3>4. Rank(i, a, n) \in 1 .. n
      BY <1>0, <1>2, <2>0, <3>2, RankInside
    <3>5. Rank(i, c, n + 1) = Rank(i, a, n)
      BY <1>0, <1>4, <2>0, <2>3, RankKept
    <3>6. QED
      BY <1>1, <1>3, <2>0, <2>3, <3>3, <3>4, <3>5
  <2>4. QED
    BY <2>2, <2>3
<1>8. InPlace(v, more)
  <2>1. Len(more) = n + 1 /\ v.next = c
    BY <1>1 DEF c
  <2>2. \A i \in 0 .. v.count - 1 : v.buf[i] = more[Rank(i, v.next, Len(more))]
    BY <1>7, <2>1
  <2>3. /\ IF Len(more) < kWindow THEN v.next = Len(more) /\ v.count = Len(more) ELSE v.count = kWindow
        /\ v.next <= Len(more)
    BY <1>6, <2>1
  <2>4. QED
    BY <2>2, <2>3 DEF InPlace
<1>9. QED
  BY <1>8 DEF more

\* A measurement is added.
LEMMA Added ==
    ASSUME field \in [Fields -> Window], measured \in [Fields -> Seq(Batches)], Rolling,
           NEW f \in Fields, NEW b \in Batches, M!Add(f, b)
    PROVE  /\ field' \in [Fields -> Window] /\ measured' \in [Fields -> Seq(Batches)] /\ Rolling'
           /\ \A g \in Fields : Len(measured'[g]) = IF g = f THEN Len(measured[g]) + 1 ELSE Len(measured[g])
<1> DEFINE w == field[f]
           v == field'[f]
<1>0. /\ w \in Window /\ measured[f] \in Seq(Batches) /\ InPlace(w, measured[f])
      /\ kWindow \in Nat \ {0}
  BY Constants DEF Rolling
<1>1. /\ v = [w EXCEPT !.buf[w.next] = b, !.next = M!NextPlace(w.next),
                       !.count = IF w.count < kWindow THEN w.count + 1 ELSE w.count]
      /\ \A g \in Fields : g # f => field'[g] = field[g]
      /\ DOMAIN field' = Fields /\ field' = [g \in Fields |-> field'[g]]
  BY DEF M!Add
<1>2. /\ measured'[f] = Append(measured[f], b)
      /\ \A g \in Fields : g # f => measured'[g] = measured[g]
      /\ measured' = [measured EXCEPT ![f] = Append(measured[f], b)]
  BY DEF M!Add
<1>3. /\ w.next \in 0 .. kWindow - 1 /\ w.count \in 0 .. kWindow
      /\ w.buf \in [0 .. kWindow - 1 -> Batches \union {None}]
  BY <1>0 DEF Window
<1>4. /\ v.buf = [w.buf EXCEPT ![w.next] = b]
      /\ v.next = IF w.next + 1 = kWindow THEN 0 ELSE w.next + 1
      /\ v.count = IF w.count < kWindow THEN w.count + 1 ELSE w.count
      /\ v = [buf |-> v.buf, next |-> v.next, count |-> v.count]
  BY <1>0, <1>1, <1>3, NextPlaceIs DEF Window
<1>5. v \in Window
  <2>1. v.next \in 0 .. kWindow - 1 /\ v.count \in 0 .. kWindow
    BY <1>0, <1>3, <1>4
  <2>2. v.buf \in [0 .. kWindow - 1 -> Batches \union {None}]
    BY <1>3, <1>4, Put
  <2>3. QED
    BY <1>4, <2>1, <2>2 DEF Window
<1>6. InPlace(v, measured'[f])
  BY <1>0, <1>2, <1>4, Rolled
<1>7. measured'[f] \in Seq(Batches) /\ Len(measured'[f]) = Len(measured[f]) + 1
  BY <1>0, <1>2, Queue
<1> HIDE DEF w, v
<1>8. field' \in [Fields -> Window]
  BY <1>1, <1>5 DEF v
<1>9. Rolling'
  BY <1>1, <1>2, <1>6 DEF Rolling, v
<1>10. measured' \in [Fields -> Seq(Batches)]
  BY <1>2, <1>7
<1>11. QED
  BY <1>2, <1>7, <1>8, <1>9, <1>10

--------------------------------------------------------------------------------

\* The variables keep their types.

\* The sessions.
LEMMA SessionsStep ==
    ASSUME TypeSessions, TypeQueues, [Next]_vars
    PROVE  TypeSessions'
<1>0. /\ Quantum \in Nat /\ Idle \in Nat /\ MaxRun \in Nat
      /\ Quantum \in 0 .. Quantum + MaxRun /\ \A d \in 1 .. MaxRun : d \in 0 .. Quantum + MaxRun
  BY Constants
<1>1. ASSUME NEW s \in Sessions, Session(s)
      PROVE  TypeSessions'
  <2>1. CASE PopBatch(s)
    <3>1. PICK d \in 1 .. MaxRun : left' = [left EXCEPT ![s] = d]
      BY <2>1 DEF PopBatch, Begin
    <3>2. Head(prepQueue) \in Batches
      BY <2>1, Queue DEF PopBatch, TypeQueues
    <3>3. pc' = [pc EXCEPT ![s] = "real"] /\ batch' = [batch EXCEPT ![s] = Head(prepQueue)]
      BY <2>1 DEF PopBatch, Begin, Goto
    <3>4. QED
      BY <1>0, <3>1, <3>2, <3>3 DEF TypeSessions, Stations
  <2>2. CASE Timeout(s)
    BY <2>2 DEF TypeSessions, Stations, Timeout, Goto
  <2>3. CASE StartDummy(s)
    <3>1. PICK d \in 1 .. MaxRun : left' = [left EXCEPT ![s] = d]
      BY <2>3 DEF StartDummy, Begin
    <3>2. pc' = [pc EXCEPT ![s] = "dummy"] /\ batch' = batch
      BY <2>3 DEF StartDummy, Begin, Goto
    <3>3. QED
      BY <1>0, <3>1, <3>2 DEF TypeSessions, Stations
  <2>4. CASE StayIdle(s) \/ EndDummy(s) \/ FailDummy(s) \/ PushInf(s) \/ FailReal(s)
    <3>1. /\ pc' = [pc EXCEPT ![s] = "pop"] /\ left' = [left EXCEPT ![s] = Quantum]
          /\ batch' = batch \/ batch' = [batch EXCEPT ![s] = None]
      BY <2>4 DEF StayIdle, EndDummy, FailDummy, PushInf, FailReal, WaitAnew, Goto
    <3>2. QED
      BY <1>0, <3>1 DEF TypeSessions, Stations
  <2>5. CASE EndReal(s)
    <3>1. pc[s] = "real" /\ pc' = [pc EXCEPT ![s] = "measure"] /\ batch' = batch /\ left' = left
      BY <2>5 DEF EndReal, Goto
    <3>2. QED
      BY <3>1 DEF TypeSessions, Stations
  <2>6. CASE AddGpuTime(s)
    <3>1. pc[s] = "measure" /\ pc' = [pc EXCEPT ![s] = "push"] /\ batch' = batch /\ left' = left
      BY <2>6 DEF AddGpuTime, Goto
    <3>2. QED
      BY <3>1 DEF TypeSessions, Stations
  <2>7. QED
    BY <1>1, <2>1, <2>2, <2>3, <2>4, <2>5, <2>6 DEF Session
<1>2. CASE Tick
  <2>1. /\ pc' = pc /\ batch' = batch
        /\ left' = [s \in Sessions |-> IF Blocked(s) THEN left[s] ELSE left[s] - 1]
    BY <1>2 DEF Tick
  <2>2. \A s \in Sessions : Blocked(s) \/ left[s] > 0
    BY <1>2 DEF Tick, TakesTime
  <2>3. \A s \in Sessions : (IF Blocked(s) THEN left[s] ELSE left[s] - 1) \in 0 .. Quantum + MaxRun
    BY <1>0, <2>2 DEF TypeSessions
  <2>4. QED
    BY <2>1, <2>3 DEF TypeSessions
<1>3. CASE Arrive \/ (\E t \in Posters : Post(t)) \/ UNCHANGED vars
  BY <1>3 DEF TypeSessions, Arrive, Post, PopInf, AddPostprocessingTime, FailPost,
              CountBatch, PrintRollingAverage, vars, session
<1>4. QED
  BY <1>1, <1>2, <1>3 DEF Next

\* Their clocks.
LEMMA ClocksStep ==
    ASSUME TypeClocks, [Next]_vars
    PROVE  TypeClocks'
<1>0. Quantum \in Nat /\ Idle \in Nat
  BY Constants
<1>1. ASSUME NEW s \in Sessions, Session(s)
      PROVE  TypeClocks'
  <2>1. CASE PopBatch(s)
    BY <1>0, <2>1 DEF TypeClocks, PopBatch, Begin
  <2>2. CASE StartDummy(s)
    BY <1>0, <2>2 DEF TypeClocks, StartDummy, Begin
  <2>3. CASE EndDummy(s)
    BY <1>0, <2>3 DEF TypeClocks, EndDummy
  <2>4. CASE \/ Timeout(s) \/ StayIdle(s) \/ FailDummy(s) \/ EndReal(s) \/ AddGpuTime(s) \/ PushInf(s)
             \/ FailReal(s)
    BY <2>4 DEF TypeClocks, Timeout, StayIdle, FailDummy, EndReal, AddGpuTime, PushInf, FailReal, clocks
  <2>5. QED
    BY <1>1, <2>1, <2>2, <2>3, <2>4 DEF Session
<1>2. CASE Tick
  BY <1>0, <1>2 DEF TypeClocks, Tick, Later
<1>3. CASE Arrive \/ (\E t \in Posters : Post(t)) \/ UNCHANGED vars
  BY <1>3 DEF TypeClocks, Arrive, Post, PopInf, AddPostprocessingTime, FailPost,
              CountBatch, PrintRollingAverage, vars, session, clocks
<1>4. QED
  BY <1>1, <1>2, <1>3 DEF Next

\* The queues.
LEMMA QueuesStep ==
    ASSUME TypeSessions, TypeQueues, [Next]_vars
    PROVE  TypeQueues'
<1>0. CountDrop => dropped' \in 0 .. MaxFaults
  BY Constants DEF CountDrop, TypeQueues
<1>1. CASE Arrive
  <2>1. arrived' \in 0 .. MaxBatches /\ arrived' \in Batches
    BY <1>1, Constants DEF Arrive, TypeQueues, Batches
  <2>2. QED
    BY <1>1, <2>1, Queue DEF Arrive, TypeQueues
<1>2. ASSUME NEW s \in Sessions, Session(s)
      PROVE  TypeQueues'
  <2>1. CASE PopBatch(s)
    BY <2>1, Queue DEF TypeQueues, PopBatch
  <2>2. CASE PushInf(s)
    <3>1. batch[s] \in Batches
      BY <2>2 DEF TypeSessions, PushInf
    <3>2. QED
      BY <2>2, <3>1, Queue DEF TypeQueues, PushInf
  <2>3. CASE Timeout(s) \/ StartDummy(s) \/ StayIdle(s) \/ EndDummy(s) \/ EndReal(s) \/ AddGpuTime(s)
    BY <2>3 DEF TypeQueues, Timeout, StartDummy, StayIdle, EndDummy, EndReal, AddGpuTime, rest
  <2>4. CASE FailDummy(s) \/ FailReal(s)
    BY <1>0, <2>4 DEF TypeQueues, FailDummy, FailReal
  <2>5. QED
    BY <1>2, <2>1, <2>2, <2>3, <2>4 DEF Session
<1>3. ASSUME NEW t \in Posters, PopInf(t)
      PROVE  TypeQueues'
  BY <1>3, Queue DEF TypeQueues, PopInf
<1>4. ASSUME NEW t \in Posters, AddPostprocessingTime(t) \/ CountBatch(t) \/ PrintRollingAverage(t)
      PROVE  TypeQueues'
  BY <1>4 DEF TypeQueues, AddPostprocessingTime, CountBatch, PrintRollingAverage
<1>5. ASSUME NEW t \in Posters, FailPost(t)
      PROVE  TypeQueues'
  BY <1>0, <1>5 DEF TypeQueues, FailPost
<1>6. CASE Tick \/ UNCHANGED vars
  BY <1>6 DEF TypeQueues, Tick, vars, rest
<1>7. QED
  BY <1>1, <1>2, <1>3, <1>4, <1>5, <1>6 DEF Next, Post

\* The post threads.
LEMMA PostersStep ==
    ASSUME TypePosters, TypeQueues, [Next]_vars
    PROVE  TypePosters'
<1>1. ASSUME NEW t \in Posters, Post(t)
      PROVE  TypePosters'
  <2>1. CASE PopInf(t)
    <3>1. Head(infQueue) \in Batches
      BY <2>1, Queue DEF PopInf, TypeQueues
    <3>2. post' = [post EXCEPT ![t] = "add"] /\ rendered' = [rendered EXCEPT ![t] = Head(infQueue)]
      BY <2>1 DEF PopInf, PostGoto
    <3>3. QED
      BY <3>1, <3>2 DEF TypePosters, PostStations
  <2>2. CASE AddPostprocessingTime(t)
    <3>1. post[t] = "add" /\ post' = [post EXCEPT ![t] = "count"] /\ rendered' = rendered
      BY <2>2 DEF AddPostprocessingTime, PostGoto
    <3>2. QED
      BY <3>1 DEF TypePosters, PostStations
  <2>3. CASE CountBatch(t)
    <3>1. post[t] = "count" /\ post' = [post EXCEPT ![t] = "print"] /\ rendered' = rendered
      BY <2>3 DEF CountBatch, PostGoto
    <3>2. QED
      BY <3>1 DEF TypePosters, PostStations
  <2>4. CASE PrintRollingAverage(t)
    BY <2>4 DEF TypePosters, PostStations, PrintRollingAverage, PostGoto
  <2>5. CASE FailPost(t)
    BY <2>5 DEF TypePosters, PostStations, FailPost, PostGoto
  <2>6. QED
    BY <1>1, <2>1, <2>2, <2>3, <2>4, <2>5 DEF Post
<1>2. CASE Arrive \/ (\E s \in Sessions : Session(s)) \/ Tick \/ UNCHANGED vars
  BY <1>2 DEF TypePosters, Arrive, Session, PopBatch, Timeout, StartDummy, StayIdle, EndDummy, FailDummy,
              EndReal, AddGpuTime, PushInf, FailReal, Tick, vars, rest, posting
<1>3. QED
  BY <1>1, <1>2 DEF Next

\* What a step adds to the measurements: nothing, or what one thread has of its batch.
LEMMA Measurement ==
    ASSUME TypeSessions, TypePosters, [Next]_vars
    PROVE  \/ UNCHANGED <<field, measured>>
           \/ \E f \in Fields, b \in Batches : M!Add(f, b)
<1>1. ASSUME NEW s \in Sessions, EndReal(s)
      PROVE  UNCHANGED <<field, measured>> \/ \E f \in Fields, b \in Batches : M!Add(f, b)
  <2>1. batch[s] \in Batches
    BY <1>1 DEF EndReal, TypeSessions
  <2>2. M!Add("stream", batch[s]) \/ UNCHANGED <<field, measured>>
    BY <1>1 DEF EndReal
  <2>3. "stream" \in Fields
    BY DEF Fields
  <2>4. QED
    BY <2>1, <2>2, <2>3
<1>2. ASSUME NEW s \in Sessions, AddGpuTime(s)
      PROVE  \E f \in Fields, b \in Batches : M!Add(f, b)
  <2>1. batch[s] \in Batches
    BY <1>2 DEF AddGpuTime, TypeSessions
  <2>2. M!Add("gpu", batch[s]) /\ "gpu" \in Fields
    BY <1>2 DEF AddGpuTime, Fields
  <2>3. QED
    BY <2>1, <2>2
<1>3. ASSUME NEW t \in Posters, AddPostprocessingTime(t)
      PROVE  \E f \in Fields, b \in Batches : M!Add(f, b)
  <2>1. rendered[t] \in Batches
    BY <1>3 DEF AddPostprocessingTime, TypePosters
  <2>2. M!Add("post", rendered[t]) /\ "post" \in Fields
    BY <1>3 DEF AddPostprocessingTime, Fields
  <2>3. QED
    BY <2>1, <2>2
<1>4. ASSUME NEW s \in Sessions,
             \/ PopBatch(s) \/ Timeout(s) \/ StartDummy(s) \/ StayIdle(s) \/ EndDummy(s) \/ PushInf(s)
             \/ FailDummy(s) \/ FailReal(s)
      PROVE  UNCHANGED <<field, measured>>
  BY <1>4 DEF PopBatch, Timeout, StartDummy, StayIdle, EndDummy, PushInf, FailDummy, FailReal, RecordNothing,
              metrics
<1>5. ASSUME NEW t \in Posters, PopInf(t) \/ FailPost(t) \/ CountBatch(t) \/ PrintRollingAverage(t)
      PROVE  UNCHANGED <<field, measured>>
  BY <1>5 DEF PopInf, FailPost, CountBatch, PrintRollingAverage, metrics
<1>6. CASE Arrive \/ Tick \/ UNCHANGED vars
  BY <1>6 DEF Arrive, Tick, vars, metrics
<1>7. QED
  BY <1>1, <1>2, <1>3, <1>4, <1>5, <1>6 DEF Next, Session, Post

\* The metrics, and what is at each place of the windows.
LEMMA MetricsStep ==
    ASSUME Types, Rolling, [Next]_vars
    PROVE  TypeMetrics' /\ Rolling'
<1>1. field' \in [Fields -> Window] /\ measured' \in [Fields -> Seq(Batches)] /\ Rolling'
  <2>1. CASE UNCHANGED <<field, measured>>
    BY <2>1 DEF Types, TypeMetrics, Rolling
  <2>2. CASE \E f \in Fields, b \in Batches : M!Add(f, b)
    <3>1. PICK f \in Fields, b \in Batches : M!Add(f, b)
      BY <2>2
    <3>2. QED
      BY <3>1, Added DEF Types, TypeMetrics
  <2>3. QED
    BY <2>1, <2>2, Measurement DEF Types
<1>2. completedBatches' \in Nat /\ number' \in [Posters -> Nat] /\ summaries' \in Seq(Nat)
  <2>1. ASSUME NEW t \in Posters, CountBatch(t)
        PROVE  completedBatches' \in Nat /\ number' \in [Posters -> Nat] /\ summaries' \in Seq(Nat)
    BY <2>1 DEF CountBatch, M!Count, Types, TypeMetrics
  <2>2. ASSUME NEW t \in Posters, PrintRollingAverage(t)
        PROVE  completedBatches' \in Nat /\ number' \in [Posters -> Nat] /\ summaries' \in Seq(Nat)
    <3>1. number' = [number EXCEPT ![t] = 0] /\ completedBatches' = completedBatches
      BY <2>2 DEF PrintRollingAverage, M!Summarize
    <3>2. summaries' = summaries \/ summaries' = Append(summaries, number[t])
      BY <2>2 DEF PrintRollingAverage, M!Summarize
    <3>3. number[t] \in Nat
      BY DEF Types, TypeMetrics
    <3>4. summaries \in Seq(Nat) /\ Append(summaries, number[t]) \in Seq(Nat)
      BY <3>3, AppendProperties DEF Types, TypeMetrics
    <3>5. QED
      BY <3>1, <3>2, <3>4 DEF Types, TypeMetrics
  <2>3. ASSUME NEW t \in Posters, PopInf(t) \/ AddPostprocessingTime(t) \/ FailPost(t)
        PROVE  UNCHANGED <<completedBatches, number, summaries>>
    BY <2>3 DEF PopInf, AddPostprocessingTime, FailPost, metrics
  <2>4. CASE Arrive \/ (\E s \in Sessions : Session(s)) \/ Tick \/ UNCHANGED vars
    BY <2>4 DEF Types, TypeMetrics, Arrive, Session, PopBatch, Timeout, StartDummy, StayIdle, EndDummy,
                FailDummy, EndReal, AddGpuTime, PushInf, FailReal, Tick, vars, metrics
  <2>5. QED
    BY <2>1, <2>2, <2>3, <2>4 DEF Next, Post, Types, TypeMetrics
<1>3. QED
  BY <1>1, <1>2 DEF TypeMetrics

\* All of them.
LEMMA TypesStep ==
    ASSUME Types, Rolling, [Next]_vars
    PROVE  Types'
BY SessionsStep, ClocksStep, QueuesStep, PostersStep, MetricsStep DEF Types

--------------------------------------------------------------------------------

\* The clocks of a session.

\* Clocks that stop at their limits.
LEMMA LaterIs ==
    ASSUME NEW far \in Nat, NEW clock \in [Sessions -> 0 .. far], NEW s \in Sessions
    PROVE  /\ Later(clock, far)[s] \in 0 .. far
           /\ clock[s] < far => Later(clock, far)[s] = clock[s] + 1
           /\ clock[s] >= far => Later(clock, far)[s] = far
BY DEF Later

\* How long a session has waited, and still will.
LEMMA WarmStep ==
    ASSUME TypeSessions, TypeClocks, Warm, [Next]_vars
    PROVE  Warm'
<1>0. Quantum \in Nat \ {0} /\ Idle \in Nat \ {0} /\ Gpu \subseteq Sessions
  BY Constants
<1>1. ASSUME NEW s \in Sessions, Session(s)
      PROVE  Warm'
  <2>1. CASE PopBatch(s) \/ StartDummy(s)
    <3>1. /\ pc' = [pc EXCEPT ![s] = "real"] \/ pc' = [pc EXCEPT ![s] = "dummy"]
          /\ waited' = [waited EXCEPT ![s] = 0]
          /\ \A r \in Sessions : r # s => sinceReal'[r] = sinceReal[r] /\ left'[r] = left[r]
      BY <2>1 DEF PopBatch, StartDummy, Begin, Goto, TypeSessions, TypeClocks
    <3>2. QED
      BY <1>0, <3>1 DEF Warm, TypeSessions, TypeClocks
  <2>2. CASE Timeout(s)
    <3>1. /\ pc[s] = "pop" /\ left[s] = 0 /\ pc' = [pc EXCEPT ![s] = "timeout"]
          /\ UNCHANGED <<left, waited, sinceReal>>
      BY <2>2 DEF Timeout, Goto, clocks
    <3>2. QED
      BY <1>0, <3>1 DEF Warm, TypeSessions, TypeClocks
  <2>3. CASE StayIdle(s)
    <3>1. /\ pc[s] = "timeout" /\ pc' = [pc EXCEPT ![s] = "pop"] /\ left' = [left EXCEPT ![s] = Quantum]
          /\ sinceReal' = sinceReal /\ waited' = waited
          /\ s \in Gpu => ~(sinceReal[s] >= Idle)
      BY <2>3 DEF StayIdle, WaitAnew, Goto, WarmDue, clocks
    <3>2. s \in Gpu => waited[s] <= sinceReal[s]
      BY <3>1 DEF Warm
    <3>3. s \in Gpu => waited[s] + Quantum < Idle + Quantum
      BY <1>0, <3>1, <3>2 DEF TypeClocks
    <3>4. waited[s] + Quantum >= Quantum
      BY <1>0 DEF TypeClocks
    <3>5. QED
      BY <1>0, <3>1, <3>2, <3>3, <3>4 DEF Warm, TypeSessions, TypeClocks
  <2>4. CASE EndDummy(s) \/ FailDummy(s) \/ PushInf(s) \/ FailReal(s)
    <3>1. /\ pc[s] \in {"dummy", "real", "push"}
          /\ pc' = [pc EXCEPT ![s] = "pop"] /\ left' = [left EXCEPT ![s] = Quantum]
          /\ waited' = waited
          /\ \A r \in Sessions : r # s => sinceReal'[r] = sinceReal[r]
          /\ sinceReal'[s] \in {0, sinceReal[s]}
      BY <2>4 DEF EndDummy, FailDummy, PushInf, FailReal, WaitAnew, Goto, clocks, TypeClocks
    <3>2. waited[s] = 0
      BY <3>1 DEF Warm
    <3>3. waited[s] + Quantum >= Quantum /\ waited[s] + Quantum < Idle + Quantum /\ waited[s] <= sinceReal'[s]
      BY <1>0, <3>1, <3>2 DEF TypeClocks
    <3>4. QED
      BY <1>0, <3>1, <3>3 DEF Warm, TypeSessions, TypeClocks
  <2>5. CASE EndReal(s) \/ AddGpuTime(s)
    <3>1. /\ pc[s] \in {"real", "measure"}
          /\ pc' = [pc EXCEPT ![s] = "measure"] \/ pc' = [pc EXCEPT ![s] = "push"]
          /\ UNCHANGED <<left, waited, sinceReal>>
      BY <2>5 DEF EndReal, AddGpuTime, Goto, clocks
    <3>2. QED
      BY <1>0, <3>1 DEF Warm, TypeSessions, TypeClocks
  <2>6. QED
    BY <1>1, <2>1, <2>2, <2>3, <2>4, <2>5 DEF Session
<1>2. CASE Tick
  <2>0. TypeClocks'
    BY ClocksStep
  <2>1. /\ pc' = pc /\ sinceReal' = Later(sinceReal, Idle)
        /\ \A s \in Sessions :
              /\ TakesTime(s)
              /\ left'[s] = IF Blocked(s) THEN left[s] ELSE left[s] - 1
              /\ waited'[s] = IF pc[s] = "pop" THEN Later(waited, Idle + Quantum)[s] ELSE waited[s]
    BY <1>2 DEF Tick
  <2>2. \A s \in Sessions : pc[s] # "timeout"
    BY <2>1 DEF TakesTime, Blocked
  <2>3. ASSUME NEW s \in Sessions, pc[s] = "pop"
        PROVE  /\ waited'[s] + left'[s] >= Quantum
               /\ s \in Gpu => /\ waited'[s] <= sinceReal'[s] \/ sinceReal'[s] >= Idle
                               /\ waited'[s] + left'[s] < Idle + Quantum
    <3>1. left[s] > 0 /\ left'[s] = left[s] - 1 /\ waited'[s] = Later(waited, Idle + Quantum)[s]
      BY <2>1, <2>3 DEF TakesTime, Blocked
    <3>2. /\ waited[s] \in Nat /\ sinceReal[s] \in Nat /\ left[s] \in Nat
          /\ waited[s] <= Idle + Quantum /\ sinceReal[s] <= Idle
      BY <1>0 DEF TypeClocks, TypeSessions
    <3>3. /\ waited[s] + left[s] >= Quantum
          /\ s \in Gpu => /\ waited[s] <= sinceReal[s] \/ sinceReal[s] >= Idle
                          /\ waited[s] + left[s] < Idle + Quantum
      BY <1>0, <2>3 DEF Warm
    <3>4. /\ sinceReal[s] < Idle => sinceReal'[s] = sinceReal[s] + 1
          /\ sinceReal[s] >= Idle => sinceReal'[s] = Idle
      BY <1>0, <2>1, LaterIs DEF TypeClocks
    <3>5. /\ waited[s] < Idle + Quantum => waited'[s] = waited[s] + 1
          /\ waited[s] >= Idle + Quantum => waited'[s] = Idle + Quantum
      <4>1. Idle + Quantum \in Nat /\ waited \in [Sessions -> 0 .. Idle + Quantum]
        BY <1>0 DEF TypeClocks
      <4>2. /\ waited[s] < Idle + Quantum => Later(waited, Idle + Quantum)[s] = waited[s] + 1
            /\ waited[s] >= Idle + Quantum => Later(waited, Idle + Quantum)[s] = Idle + Quantum
        BY <4>1, LaterIs
      <4>3. QED
        BY <3>1, <4>2
    <3>6. waited'[s] + left'[s] >= Quantum
      BY <1>0, <3>1, <3>2, <3>3, <3>5
    <3>7. s \in Gpu => waited'[s] = waited[s] + 1
      BY <1>0, <3>1, <3>2, <3>3, <3>5
    <3>8. s \in Gpu => waited'[s] <= sinceReal'[s] \/ sinceReal'[s] >= Idle
      BY <1>0, <3>2, <3>3, <3>4, <3>7
    <3>9. s \in Gpu => waited'[s] + left'[s] < Idle + Quantum
      BY <1>0, <3>1, <3>2, <3>3, <3>7
    <3>10. QED
      BY <3>6, <3>8, <3>9
  <2>4. \A s \in Sessions : pc[s] # "pop" => waited'[s] = waited[s]
    BY <2>1
  <2>5. QED
    BY <1>0, <2>1, <2>2, <2>3, <2>4 DEF Warm
<1>3. CASE Arrive \/ (\E t \in Posters : Post(t)) \/ UNCHANGED vars
  BY <1>3 DEF Warm, Arrive, Post, PopInf, AddPostprocessingTime, FailPost,
              CountBatch, PrintRollingAverage, vars, session, clocks
<1>4. QED
  BY <1>1, <1>2, <1>3 DEF Next

\* When a session last took a batch.
LEMMA SpacedStep ==
    ASSUME TypeClocks, Spaced, [Next]_vars
    PROVE  Spaced'
<1>0. Quantum \in Nat \ {0} /\ Idle \in Nat \ {0}
  BY Constants
<1>1. ASSUME NEW s \in Sessions, Session(s)
      PROVE  Spaced'
  <2>1. CASE PopBatch(s)
    BY <1>0, <2>1 DEF PopBatch, Spaced, TypeClocks
  <2>2. CASE EndDummy(s)
    BY <1>0, <2>2 DEF EndDummy, Spaced, TypeClocks
  <2>3. CASE \/ Timeout(s) \/ StartDummy(s) \/ StayIdle(s) \/ FailDummy(s) \/ EndReal(s) \/ AddGpuTime(s)
             \/ PushInf(s) \/ FailReal(s)
    BY <2>3 DEF Timeout, StartDummy, StayIdle, FailDummy, EndReal, AddGpuTime, PushInf, FailReal, clocks, Spaced
  <2>4. QED
    BY <1>1, <2>1, <2>2, <2>3 DEF Session
<1>2. CASE Tick
  <2>1. sinceReal' = Later(sinceReal, Idle) /\ sinceTaken' = Later(sinceTaken, Idle)
    BY <1>2 DEF Tick
  <2>2. ASSUME NEW s \in Sessions
        PROVE  sinceReal'[s] <= sinceTaken'[s]
    <3>1. sinceReal[s] <= sinceTaken[s]
      BY DEF Spaced
    <3>2. sinceReal[s] \in 0 .. Idle /\ sinceTaken[s] \in 0 .. Idle
      BY DEF TypeClocks
    <3>3. /\ sinceReal[s] < Idle => sinceReal'[s] = sinceReal[s] + 1
          /\ sinceReal[s] >= Idle => sinceReal'[s] = Idle
          /\ sinceTaken[s] < Idle => sinceTaken'[s] = sinceTaken[s] + 1
          /\ sinceTaken[s] >= Idle => sinceTaken'[s] = Idle
      BY <1>0, <2>1, LaterIs DEF TypeClocks
    <3>4. QED
      BY <1>0, <3>1, <3>2, <3>3
  <2>3. QED
    BY <2>2 DEF Spaced
<1>3. CASE Arrive \/ (\E t \in Posters : Post(t)) \/ UNCHANGED vars
  BY <1>3 DEF Spaced, Arrive, Post, PopInf, AddPostprocessingTime, FailPost,
              CountBatch, PrintRollingAverage, vars, session, clocks
<1>4. QED
  BY <1>1, <1>2, <1>3 DEF Next

--------------------------------------------------------------------------------

\* How many threads are where.

\* A session goes from one place of its loop to another.
LEMMA SessionMoves ==
    ASSUME TypeSessions, NEW s \in Sessions, NEW there, pc' = [pc EXCEPT ![s] = there],
           NEW CONSTANT places
    PROVE  /\ Cardinality(SessionsAt(places)) \in Nat
           /\ (pc[s] \in places <=> there \in places) => SessionsAt(places)' = SessionsAt(places)
           /\ pc[s] \in places /\ there \notin places =>
                 Cardinality(SessionsAt(places)') = Cardinality(SessionsAt(places)) - 1
           /\ pc[s] \notin places /\ there \in places =>
                 Cardinality(SessionsAt(places)') = Cardinality(SessionsAt(places)) + 1
<1>1. IsFiniteSet(SessionsAt(places))
  BY Constants, FS_Subset DEF SessionsAt
<1>2. \A r \in Sessions : pc'[r] = IF r = s THEN there ELSE pc[r]
  BY DEF TypeSessions
<1>3. (pc[s] \in places <=> there \in places) => SessionsAt(places)' = SessionsAt(places)
  BY <1>2 DEF SessionsAt
<1>4. ASSUME pc[s] \in places, there \notin places
      PROVE  Cardinality(SessionsAt(places)') = Cardinality(SessionsAt(places)) - 1
  <2>1. SessionsAt(places)' = SessionsAt(places) \ {s} /\ s \in SessionsAt(places)
    BY <1>2, <1>4 DEF SessionsAt
  <2>2. QED
    BY <1>1, <2>1, FS_RemoveElement
<1>5. ASSUME pc[s] \notin places, there \in places
      PROVE  Cardinality(SessionsAt(places)') = Cardinality(SessionsAt(places)) + 1
  <2>1. SessionsAt(places)' = SessionsAt(places) \union {s} /\ s \notin SessionsAt(places)
    BY <1>2, <1>5 DEF SessionsAt
  <2>2. QED
    BY <1>1, <2>1, FS_AddElement
<1>6. QED
  BY <1>1, <1>3, <1>4, <1>5, FS_CardinalityType

\* So does a post thread.
LEMMA PosterMoves ==
    ASSUME TypePosters, NEW t \in Posters, NEW there, post' = [post EXCEPT ![t] = there],
           NEW CONSTANT place
    PROVE  /\ Cardinality(PostersAt(place)) \in Nat
           /\ (post[t] = place <=> there = place) => PostersAt(place)' = PostersAt(place)
           /\ post[t] = place /\ there # place =>
                 Cardinality(PostersAt(place)') = Cardinality(PostersAt(place)) - 1
           /\ post[t] # place /\ there = place =>
                 Cardinality(PostersAt(place)') = Cardinality(PostersAt(place)) + 1
<1>1. IsFiniteSet(PostersAt(place))
  BY Constants, FS_Subset DEF PostersAt
<1>2. \A u \in Posters : post'[u] = IF u = t THEN there ELSE post[u]
  BY DEF TypePosters
<1>3. (post[t] = place <=> there = place) => PostersAt(place)' = PostersAt(place)
  BY <1>2 DEF PostersAt
<1>4. ASSUME post[t] = place, there # place
      PROVE  Cardinality(PostersAt(place)') = Cardinality(PostersAt(place)) - 1
  <2>1. PostersAt(place)' = PostersAt(place) \ {t} /\ t \in PostersAt(place)
    BY <1>2, <1>4 DEF PostersAt
  <2>2. QED
    BY <1>1, <2>1, FS_RemoveElement
<1>5. ASSUME post[t] # place, there = place
      PROVE  Cardinality(PostersAt(place)') = Cardinality(PostersAt(place)) + 1
  <2>1. PostersAt(place)' = PostersAt(place) \union {t} /\ t \notin PostersAt(place)
    BY <1>2, <1>5 DEF PostersAt
  <2>2. QED
    BY <1>1, <2>1, FS_AddElement
<1>6. QED
  BY <1>1, <1>3, <1>4, <1>5, FS_CardinalityType

\* What a move does to the numbers of Flow.
LEMMA SessionCounts ==
    ASSUME TypeSessions, NEW s \in Sessions, NEW there, pc' = [pc EXCEPT ![s] = there]
    PROVE  /\ Computing' = (Computing + (IF there \in {"real", "measure"} THEN 1 ELSE 0))
                             - (IF pc[s] \in {"real", "measure"} THEN 1 ELSE 0)
           /\ Pushing' = (Pushing + (IF there = "push" THEN 1 ELSE 0)) - (IF pc[s] = "push" THEN 1 ELSE 0)
<1>1. ASSUME NEW CONSTANT places
      PROVE  Cardinality(SessionsAt(places)') = (Cardinality(SessionsAt(places)) + (IF there \in places THEN 1 ELSE 0))
                - (IF pc[s] \in places THEN 1 ELSE 0)
  <2> DEFINE c == Cardinality(SessionsAt(places))
             d == Cardinality(SessionsAt(places)')
  <2>1. /\ c \in Nat
        /\ (pc[s] \in places <=> there \in places) => SessionsAt(places)' = SessionsAt(places)
        /\ pc[s] \in places /\ there \notin places => d = c - 1
        /\ pc[s] \notin places /\ there \in places => d = c + 1
    BY SessionMoves
  <2>2. (pc[s] \in places <=> there \in places) => d = c
    BY <2>1
  <2> HIDE DEF c, d
  <2>3. d = (c + (IF there \in places THEN 1 ELSE 0)) - (IF pc[s] \in places THEN 1 ELSE 0)
    BY <2>1, <2>2
  <2>4. QED
    BY <2>3 DEF c, d
<1> DEFINE pl == {"push"}
           co == {"real", "measure"}
<1>2. Cardinality(SessionsAt(pl)') = (Cardinality(SessionsAt(pl)) + (IF there \in pl THEN 1 ELSE 0))
         - (IF pc[s] \in pl THEN 1 ELSE 0)
  <2> HIDE DEF pl
  <2>1. QED
    BY <1>1
<1>3. Cardinality(SessionsAt(co)') = (Cardinality(SessionsAt(co)) + (IF there \in co THEN 1 ELSE 0))
         - (IF pc[s] \in co THEN 1 ELSE 0)
  <2> HIDE DEF co
  <2>1. QED
    BY <1>1
<1>4. /\ there \in {"push"} <=> there = "push"
      /\ pc[s] \in {"push"} <=> pc[s] = "push"
  OBVIOUS
<1>5. QED
  BY <1>2, <1>3, <1>4 DEF Computing, Pushing

\* A post thread's.
LEMMA PosterCounts ==
    ASSUME TypePosters, NEW t \in Posters, NEW there, post' = [post EXCEPT ![t] = there]
    PROVE  /\ Adding' = (Adding + (IF there = "add" THEN 1 ELSE 0)) - (IF post[t] = "add" THEN 1 ELSE 0)
           /\ Counting' = (Counting + (IF there = "count" THEN 1 ELSE 0)) - (IF post[t] = "count" THEN 1 ELSE 0)
<1>1. ASSUME NEW CONSTANT place
      PROVE  Cardinality(PostersAt(place)') = (Cardinality(PostersAt(place)) + (IF there = place THEN 1 ELSE 0))
                - (IF post[t] = place THEN 1 ELSE 0)
  <2> DEFINE c == Cardinality(PostersAt(place))
             d == Cardinality(PostersAt(place)')
  <2>1. /\ c \in Nat
        /\ (post[t] = place <=> there = place) => PostersAt(place)' = PostersAt(place)
        /\ post[t] = place /\ there # place => d = c - 1
        /\ post[t] # place /\ there = place => d = c + 1
    BY PosterMoves
  <2>2. (post[t] = place <=> there = place) => d = c
    BY <2>1
  <2> HIDE DEF c, d
  <2>3. d = (c + (IF there = place THEN 1 ELSE 0)) - (IF post[t] = place THEN 1 ELSE 0)
    BY <2>1, <2>2
  <2>4. QED
    BY <2>3 DEF c, d
<1>2. QED
  BY <1>1 DEF Adding, Counting

\* The numbers of Flow.
LEMMA Counts ==
    ASSUME TypeQueues, TypeMetrics
    PROVE  /\ Waiting \in Nat /\ Inferred \in Nat /\ Timed \in Nat /\ Rendered \in Nat
           /\ Computing \in Nat /\ Pushing \in Nat /\ Adding \in Nat /\ Counting \in Nat
           /\ completedBatches \in Nat /\ arrived \in Nat
<1>1. Timed \in Nat /\ Rendered \in Nat
  BY LenProperties DEF TypeMetrics, Fields, Timed, Rendered
<1>2. Waiting \in Nat /\ Inferred \in Nat
  BY LenProperties DEF TypeQueues, Waiting, Inferred
<1>3. \A places : IsFiniteSet(SessionsAt(places)) /\ IsFiniteSet(PostersAt(places))
  BY Constants, FS_Subset DEF SessionsAt, PostersAt
<1>4. completedBatches \in Nat /\ arrived \in Nat
  BY Constants DEF TypeMetrics, TypeQueues
<1>5. QED
  BY <1>1, <1>2, <1>3, <1>4, FS_CardinalityType DEF Computing, Pushing, Adding, Counting

\* What a stage has passed on is with the next one or behind it.
LEMMA FlowStep ==
    ASSUME Types, Rolling, Flow, [Next]_vars
    PROVE  Flow'
<1>0. /\ TypeSessions /\ TypeQueues /\ TypePosters /\ TypeMetrics
      /\ "gpu" \in Fields /\ "post" \in Fields /\ "stream" \in Fields
  BY DEF Types, Fields
<1>a. /\ Waiting \in Nat /\ Inferred \in Nat /\ Timed \in Nat /\ Rendered \in Nat
      /\ Computing \in Nat /\ Pushing \in Nat /\ Adding \in Nat /\ Counting \in Nat
      /\ completedBatches \in Nat /\ arrived \in Nat
  BY <1>0, Counts
<1>b. /\ Waiting + Computing + Timed <= arrived
      /\ Pushing + Inferred + Adding + Rendered <= Timed
      /\ Counting + completedBatches <= Rendered
  BY DEF Flow
<1>c. SUFFICES /\ Waiting' + Computing' + Timed' <= arrived'
               /\ Pushing' + Inferred' + Adding' + Rendered' <= Timed'
               /\ Counting' + completedBatches' <= Rendered'
  BY DEF Flow
<1>d. ASSUME UNCHANGED post
      PROVE  Adding' = Adding /\ Counting' = Counting
  BY <1>d DEF PostersAt, Adding, Counting
<1>e. ASSUME UNCHANGED pc
      PROVE  Computing' = Computing /\ Pushing' = Pushing
  BY <1>e DEF SessionsAt, Computing, Pushing
<1>f. ASSUME NEW f \in Fields, NEW b \in Batches, M!Add(f, b)
      PROVE  /\ Timed' = IF f = "gpu" THEN Timed + 1 ELSE Timed
             /\ Rendered' = IF f = "post" THEN Rendered + 1 ELSE Rendered
  BY <1>0, <1>f, Added DEF TypeMetrics, Timed, Rendered
<1>1. CASE Arrive
  <2>1. Waiting' = Waiting + 1 /\ arrived' = arrived + 1
    <3>1. arrived' \in Batches
      BY <1>0, <1>1, Constants DEF Arrive, TypeQueues, Batches
    <3>2. QED
      BY <1>0, <1>1, <3>1, Queue DEF Arrive, TypeQueues, Waiting
  <2>2. UNCHANGED <<pc, post, Inferred, Timed, Rendered, completedBatches>>
    BY <1>1 DEF Arrive, session, posting, metrics, Inferred, Timed, Rendered
  <2>3. QED
    BY <1>a, <1>b, <1>d, <1>e, <2>1, <2>2
<1>2. ASSUME NEW s \in Sessions, PopBatch(s)
      PROVE  <1>c!1
  <2>1. Waiting' = Waiting - 1
    BY <1>0, <1>2, Queue DEF PopBatch, TypeQueues, Waiting
  <2>2. UNCHANGED <<post, Inferred, arrived, Timed, Rendered, completedBatches>>
    BY <1>2 DEF PopBatch, posting, metrics, Inferred, Timed, Rendered
  <2>3. pc[s] = "pop" /\ pc' = [pc EXCEPT ![s] = "real"]
    BY <1>2 DEF PopBatch, Begin, Goto
  <2>4. /\ Computing' = (Computing + (IF "real" \in {"real", "measure"} THEN 1 ELSE 0))
                             - (IF pc[s] \in {"real", "measure"} THEN 1 ELSE 0)
        /\ Pushing' = (Pushing + (IF "real" = "push" THEN 1 ELSE 0)) - (IF pc[s] = "push" THEN 1 ELSE 0)
    BY <1>0, <2>3, SessionCounts
  <2>5. Computing' = Computing + 1 /\ Pushing' = Pushing
    BY <1>a, <2>3, <2>4
  <2>6. QED
    BY <1>a, <1>b, <1>d, <2>1, <2>2, <2>4, <2>5
<1>3. ASSUME NEW s \in Sessions,
             Timeout(s) \/ StartDummy(s) \/ StayIdle(s) \/ EndDummy(s) \/ FailDummy(s)
      PROVE  <1>c!1
  <2>1. UNCHANGED <<post, Waiting, Inferred, arrived, Timed, Rendered, completedBatches>>
    BY <1>3 DEF Timeout, StartDummy, StayIdle, EndDummy, FailDummy, RecordNothing, rest, posting, metrics,
                Waiting, Inferred, Timed, Rendered
  <2>2. PICK there \in {"pop", "timeout", "dummy"} : pc' = [pc EXCEPT ![s] = there]
    BY <1>3 DEF Timeout, StartDummy, StayIdle, EndDummy, FailDummy, WaitAnew, Begin, Goto
  <2>3. pc[s] \in {"pop", "timeout", "dummy"}
    BY <1>3 DEF Timeout, StartDummy, StayIdle, EndDummy, FailDummy
  <2>4. /\ Computing' = (Computing + (IF there \in {"real", "measure"} THEN 1 ELSE 0))
                             - (IF pc[s] \in {"real", "measure"} THEN 1 ELSE 0)
        /\ Pushing' = (Pushing + (IF there = "push" THEN 1 ELSE 0)) - (IF pc[s] = "push" THEN 1 ELSE 0)
    BY <1>0, <2>2, <2>3, SessionCounts
  <2>5. Computing' = Computing /\ Pushing' = Pushing
    BY <1>a, <2>2, <2>3, <2>4
  <2>6. QED
    BY <1>a, <1>b, <1>d, <2>1, <2>4, <2>5
<1>4. ASSUME NEW s \in Sessions, EndReal(s)
      PROVE  <1>c!1
  <2>1. UNCHANGED <<post, Waiting, Inferred, arrived, completedBatches>>
    BY <1>4 DEF EndReal, rest, posting, Waiting, Inferred
  <2>2. pc[s] = "real" /\ pc' = [pc EXCEPT ![s] = "measure"]
    BY <1>4 DEF EndReal, Goto
  <2>3. Timed' = Timed /\ Rendered' = Rendered
    <3>1. batch[s] \in Batches
      BY <1>0, <2>2 DEF TypeSessions
    <3>2. M!Add("stream", batch[s]) \/ UNCHANGED <<Timed, Rendered>>
      BY <1>4 DEF EndReal, Timed, Rendered
    <3>3. QED
      BY <1>0, <1>f, <3>1, <3>2
  <2>4. /\ Computing' = (Computing + (IF "measure" \in {"real", "measure"} THEN 1 ELSE 0))
                             - (IF pc[s] \in {"real", "measure"} THEN 1 ELSE 0)
        /\ Pushing' = (Pushing + (IF "measure" = "push" THEN 1 ELSE 0)) - (IF pc[s] = "push" THEN 1 ELSE 0)
    BY <1>0, <2>2, SessionCounts
  <2>5. Computing' = Computing /\ Pushing' = Pushing
    BY <1>a, <2>2, <2>4
  <2>6. QED
    BY <1>a, <1>b, <1>d, <2>1, <2>3, <2>4, <2>5
<1>5. ASSUME NEW s \in Sessions, AddGpuTime(s)
      PROVE  <1>c!1
  <2>1. UNCHANGED <<post, Waiting, Inferred, arrived, completedBatches>>
    BY <1>5 DEF AddGpuTime, rest, posting, Waiting, Inferred
  <2>2. pc[s] = "measure" /\ pc' = [pc EXCEPT ![s] = "push"]
    BY <1>5 DEF AddGpuTime, Goto
  <2>3. Timed' = Timed + 1 /\ Rendered' = Rendered
    <3>1. batch[s] \in Batches
      BY <1>0, <2>2 DEF TypeSessions
    <3>2. M!Add("gpu", batch[s])
      BY <1>5 DEF AddGpuTime
    <3>3. QED
      BY <1>0, <1>f, <3>1, <3>2
  <2>4. /\ Computing' = (Computing + (IF "push" \in {"real", "measure"} THEN 1 ELSE 0))
                             - (IF pc[s] \in {"real", "measure"} THEN 1 ELSE 0)
        /\ Pushing' = (Pushing + (IF "push" = "push" THEN 1 ELSE 0)) - (IF pc[s] = "push" THEN 1 ELSE 0)
    BY <1>0, <2>2, SessionCounts
  <2>5. Computing' = Computing - 1 /\ Pushing' = Pushing + 1
    BY <1>a, <2>2, <2>4
  <2>6. QED
    BY <1>a, <1>b, <1>d, <2>1, <2>3, <2>4, <2>5
<1>6. ASSUME NEW s \in Sessions, PushInf(s)
      PROVE  <1>c!1
  <2>1. UNCHANGED <<post, Waiting, arrived, Timed, Rendered, completedBatches>>
    BY <1>6 DEF PushInf, posting, metrics, Waiting, Timed, Rendered
  <2>2. pc[s] = "push" /\ pc' = [pc EXCEPT ![s] = "pop"]
    BY <1>6 DEF PushInf, WaitAnew, Goto
  <2>3. Inferred' = Inferred + 1
    <3>1. batch[s] \in Batches
      BY <1>0, <2>2 DEF TypeSessions
    <3>2. QED
      BY <1>0, <1>6, <3>1, Queue DEF PushInf, TypeQueues, Inferred
  <2>4. /\ Computing' = (Computing + (IF "pop" \in {"real", "measure"} THEN 1 ELSE 0))
                             - (IF pc[s] \in {"real", "measure"} THEN 1 ELSE 0)
        /\ Pushing' = (Pushing + (IF "pop" = "push" THEN 1 ELSE 0)) - (IF pc[s] = "push" THEN 1 ELSE 0)
    BY <1>0, <2>2, SessionCounts
  <2>5. Computing' = Computing /\ Pushing' = Pushing - 1
    BY <1>a, <2>2, <2>4
  <2>6. QED
    BY <1>a, <1>b, <1>d, <2>1, <2>3, <2>4, <2>5
<1>7. ASSUME NEW t \in Posters, PopInf(t)
      PROVE  <1>c!1
  <2>1. UNCHANGED <<pc, Waiting, arrived, Timed, Rendered, completedBatches>>
    BY <1>7 DEF PopInf, session, metrics, Waiting, Timed, Rendered
  <2>2. post[t] = "pop" /\ post' = [post EXCEPT ![t] = "add"]
    BY <1>7 DEF PopInf, PostGoto
  <2>3. Inferred' = Inferred - 1
    BY <1>0, <1>7, Queue DEF PopInf, TypeQueues, Inferred
  <2>4. /\ Adding' = (Adding + (IF "add" = "add" THEN 1 ELSE 0)) - (IF post[t] = "add" THEN 1 ELSE 0)
        /\ Counting' = (Counting + (IF "add" = "count" THEN 1 ELSE 0))
                            - (IF post[t] = "count" THEN 1 ELSE 0)
    BY <1>0, <2>2, PosterCounts
  <2>5. Adding' = Adding + 1 /\ Counting' = Counting
    BY <1>a, <2>2, <2>4
  <2>6. QED
    BY <1>a, <1>b, <1>e, <2>1, <2>3, <2>4, <2>5
<1>8. ASSUME NEW t \in Posters, AddPostprocessingTime(t)
      PROVE  <1>c!1
  <2>1. UNCHANGED <<pc, Waiting, Inferred, arrived, completedBatches>>
    BY <1>8 DEF AddPostprocessingTime, session, Waiting, Inferred
  <2>2. post[t] = "add" /\ post' = [post EXCEPT ![t] = "count"]
    BY <1>8 DEF AddPostprocessingTime, PostGoto
  <2>3. Timed' = Timed /\ Rendered' = Rendered + 1
    <3>1. rendered[t] \in Batches
      BY <1>0, <2>2 DEF TypePosters
    <3>2. M!Add("post", rendered[t])
      BY <1>8 DEF AddPostprocessingTime
    <3>3. QED
      BY <1>0, <1>f, <3>1, <3>2
  <2>4. /\ Adding' = (Adding + (IF "count" = "add" THEN 1 ELSE 0)) - (IF post[t] = "add" THEN 1 ELSE 0)
        /\ Counting' = (Counting + (IF "count" = "count" THEN 1 ELSE 0))
                            - (IF post[t] = "count" THEN 1 ELSE 0)
    BY <1>0, <2>2, PosterCounts
  <2>5. Adding' = Adding - 1 /\ Counting' = Counting + 1
    BY <1>a, <2>2, <2>4
  <2>6. QED
    BY <1>a, <1>b, <1>e, <2>1, <2>3, <2>4, <2>5
<1>9. ASSUME NEW t \in Posters, CountBatch(t)
      PROVE  <1>c!1
  <2>1. UNCHANGED <<pc, Waiting, Inferred, arrived, Timed, Rendered>> /\ completedBatches' = completedBatches + 1
    BY <1>9 DEF CountBatch, M!Count, session, Waiting, Inferred, Timed, Rendered
  <2>2. post[t] = "count" /\ post' = [post EXCEPT ![t] = "print"]
    BY <1>9 DEF CountBatch, PostGoto
  <2>3. /\ Adding' = (Adding + (IF "print" = "add" THEN 1 ELSE 0)) - (IF post[t] = "add" THEN 1 ELSE 0)
        /\ Counting' = (Counting + (IF "print" = "count" THEN 1 ELSE 0))
                            - (IF post[t] = "count" THEN 1 ELSE 0)
    BY <1>0, <2>2, PosterCounts
  <2>4. Adding' = Adding /\ Counting' = Counting - 1
    BY <1>a, <2>2, <2>3
  <2>5. QED
    BY <1>a, <1>b, <1>e, <2>1, <2>3, <2>4
<1>10. ASSUME NEW t \in Posters, PrintRollingAverage(t)
       PROVE  <1>c!1
  <2>1. UNCHANGED <<pc, Waiting, Inferred, arrived, Timed, Rendered, completedBatches>>
    BY <1>10 DEF PrintRollingAverage, session, Waiting, Inferred, Timed, Rendered
  <2>2. post[t] = "print" /\ post' = [post EXCEPT ![t] = "pop"]
    BY <1>10 DEF PrintRollingAverage, PostGoto
  <2>3. /\ Adding' = (Adding + (IF "pop" = "add" THEN 1 ELSE 0)) - (IF post[t] = "add" THEN 1 ELSE 0)
        /\ Counting' = (Counting + (IF "pop" = "count" THEN 1 ELSE 0))
                            - (IF post[t] = "count" THEN 1 ELSE 0)
    BY <1>0, <2>2, PosterCounts
  <2>4. Adding' = Adding /\ Counting' = Counting
    BY <1>a, <2>2, <2>3
  <2>5. QED
    BY <1>a, <1>b, <1>e, <2>1, <2>3, <2>4
<1>11. ASSUME NEW s \in Sessions, FailReal(s)
       PROVE  <1>c!1
  <2>1. UNCHANGED <<post, Waiting, Inferred, arrived, Timed, Rendered, completedBatches>>
    BY <1>11 DEF FailReal, posting, metrics, Waiting, Inferred, Timed, Rendered
  <2>2. pc[s] \in {"real", "push"} /\ pc' = [pc EXCEPT ![s] = "pop"]
    BY <1>11 DEF FailReal, WaitAnew, Goto
  <2>3. /\ Computing' = (Computing + (IF "pop" \in {"real", "measure"} THEN 1 ELSE 0))
                             - (IF pc[s] \in {"real", "measure"} THEN 1 ELSE 0)
        /\ Pushing' = (Pushing + (IF "pop" = "push" THEN 1 ELSE 0)) - (IF pc[s] = "push" THEN 1 ELSE 0)
    BY <1>0, <2>2, SessionCounts
  <2>4. \/ Computing' = Computing - 1 /\ Pushing' = Pushing
        \/ Computing' = Computing /\ Pushing' = Pushing - 1
    BY <1>a, <2>2, <2>3
  <2>5. Adding' = Adding /\ Counting' = Counting
    BY <1>d, <2>1
  <2>6. QED
    BY <1>a, <1>b, <2>1, <2>4, <2>5
<1>12. ASSUME NEW t \in Posters, FailPost(t)
       PROVE  <1>c!1
  <2>1. UNCHANGED <<pc, Waiting, Inferred, arrived, Timed, Rendered, completedBatches>>
    BY <1>12 DEF FailPost, session, metrics, Waiting, Inferred, Timed, Rendered
  <2>2. post[t] = "add" /\ post' = [post EXCEPT ![t] = "pop"]
    BY <1>12 DEF FailPost, PostGoto
  <2>3. /\ Adding' = (Adding + (IF "pop" = "add" THEN 1 ELSE 0)) - (IF post[t] = "add" THEN 1 ELSE 0)
        /\ Counting' = (Counting + (IF "pop" = "count" THEN 1 ELSE 0))
                            - (IF post[t] = "count" THEN 1 ELSE 0)
    BY <1>0, <2>2, PosterCounts
  <2>4. Adding' = Adding - 1 /\ Counting' = Counting
    BY <1>a, <2>2, <2>3
  <2>5. QED
    BY <1>a, <1>b, <1>e, <2>1, <2>4
<1>13. CASE Tick \/ UNCHANGED vars
  <2>1. UNCHANGED <<pc, post, Waiting, Inferred, arrived, Timed, Rendered, completedBatches>>
    BY <1>13 DEF Tick, vars, session, rest, posting, metrics, Waiting, Inferred, Timed, Rendered
  <2>2. QED
    BY <1>a, <1>b, <1>d, <1>e, <2>1
<1>14. QED
  BY <1>1, <1>2, <1>3, <1>4, <1>5, <1>6, <1>7, <1>8, <1>9, <1>10, <1>11, <1>12, <1>13 DEF Next, Session, Post

--------------------------------------------------------------------------------

\* Each number is with one thread or in one summary.
LEMMA NumberingStep ==
    ASSUME Types, Numbering, [Next]_vars
    PROVE  Numbering'
<1>0. /\ post \in [Posters -> PostStations] /\ number \in [Posters -> Nat] /\ completedBatches \in Nat
      /\ summaries \in Seq(Nat)
  BY DEF Types, TypePosters, TypeMetrics
<1>1. ASSUME NEW t \in Posters, CountBatch(t)
      PROVE  Numbering'
  <2>1. /\ completedBatches' = completedBatches + 1
        /\ number' = [number EXCEPT ![t] = completedBatches + 1]
        /\ post' = [post EXCEPT ![t] = "print"] /\ summaries' = summaries
    BY <1>1 DEF CountBatch, M!Count, PostGoto
  <2>2. \A u \in Posters : number[u] # completedBatches + 1
    BY <1>0 DEF Numbering
  <2>3. \A i \in DOMAIN summaries : summaries[i] # completedBatches + 1
                                    /\ summaries[i] \in 1 .. completedBatches + 1
    BY <1>0 DEF Numbering
  <2>4. \A u \in Posters : number'[u] <= completedBatches'
    BY <1>0, <2>1 DEF Numbering
  <2>5. \A u \in Posters : post'[u] = "print" => number'[u] >= 1
    BY <1>0, <2>1 DEF Numbering
  <2>6. \A u, v \in Posters :
           post'[u] = "print" /\ post'[v] = "print" /\ number'[u] = number'[v] => u = v
    BY <1>0, <2>1, <2>2 DEF Numbering
  <2>7. \A u \in Posters : post'[u] = "print" => \A i \in DOMAIN summaries' : summaries'[i] # number'[u]
    BY <1>0, <2>1, <2>3 DEF Numbering
  <2>8. QED
    BY <2>1, <2>3, <2>4, <2>5, <2>6, <2>7 DEF Numbering
<1>2. ASSUME NEW t \in Posters, PrintRollingAverage(t)
      PROVE  Numbering'
  <2>1. /\ post[t] = "print" /\ post' = [post EXCEPT ![t] = "pop"]
        /\ number' = [number EXCEPT ![t] = 0] /\ completedBatches' = completedBatches
        /\ summaries' = summaries \/ summaries' = Append(summaries, number[t])
    BY <1>2 DEF PrintRollingAverage, M!Summarize, PostGoto
  <2>2. \A u \in Posters : number'[u] <= completedBatches'
    BY <1>0, <2>1 DEF Numbering
  <2>3. \A u \in Posters : post'[u] = "print" => u # t /\ post[u] = "print" /\ number'[u] = number[u]
    BY <1>0, <2>1
  <2>4. \A u, v \in Posters :
           post'[u] = "print" /\ post'[v] = "print" /\ number'[u] = number'[v] => u = v
    BY <2>3 DEF Numbering
  <2>5. CASE summaries' = summaries
    BY <2>1, <2>2, <2>3, <2>4, <2>5 DEF Numbering
  <2>6. CASE summaries' = Append(summaries, number[t])
    <3> DEFINE n == Len(summaries)
    <3>1. /\ n \in Nat /\ DOMAIN summaries = 1 .. n /\ DOMAIN summaries' = 1 .. n + 1
          /\ \A i \in 1 .. n : summaries'[i] = summaries[i]
          /\ summaries'[n + 1] = number[t]
      BY <1>0, <2>6, LenProperties, AppendProperties
    <3> HIDE DEF n
    <3>2. \A i \in 1 .. n + 1 : i \in 1 .. n \/ i = n + 1
      BY <3>1
    <3>3. /\ \A i \in 1 .. n : summaries[i] \in 1 .. completedBatches /\ summaries[i] # number[t]
          /\ \A i, j \in 1 .. n : summaries[i] = summaries[j] => i = j
      BY <2>1, <3>1 DEF Numbering
    <3>4. number[t] \in 1 .. completedBatches
      BY <1>0, <2>1 DEF Numbering
    <3>5. \A i \in DOMAIN summaries' : summaries'[i] \in 1 .. completedBatches'
      BY <2>1, <3>1, <3>2, <3>3, <3>4
    <3>6. \A i, j \in DOMAIN summaries' : summaries'[i] = summaries'[j] => i = j
      BY <3>1, <3>2, <3>3
    <3>7. ASSUME NEW u \in Posters, post'[u] = "print", NEW i \in DOMAIN summaries'
          PROVE  summaries'[i] # number'[u]
      <4>1. u # t /\ post[u] = "print" /\ number'[u] = number[u]
        BY <2>3, <3>7
      <4>2. CASE i \in 1 .. n
        BY <3>1, <4>1, <4>2 DEF Numbering
      <4>3. CASE i = n + 1
        BY <2>1, <3>1, <4>1, <4>3 DEF Numbering
      <4>4. QED
        BY <3>1, <3>2, <4>2, <4>3
    <3>8. \A u \in Posters : post'[u] = "print" => number'[u] >= 1
      BY <2>3 DEF Numbering
    <3>9. QED
      BY <2>2, <2>4, <3>5, <3>6, <3>7, <3>8 DEF Numbering
  <2>7. QED
    BY <2>1, <2>5, <2>6
<1>3. ASSUME NEW t \in Posters, PopInf(t) \/ AddPostprocessingTime(t) \/ FailPost(t)
      PROVE  Numbering'
  <2>1. /\ \E there \in {"add", "count", "pop"} : post' = [post EXCEPT ![t] = there]
        /\ UNCHANGED <<completedBatches, number, summaries>>
    BY <1>3 DEF PopInf, AddPostprocessingTime, FailPost, PostGoto, metrics
  <2>2. \A u \in Posters : post'[u] = "print" => post[u] = "print"
    BY <1>0, <2>1
  <2>3. QED
    BY <2>1, <2>2 DEF Numbering
<1>4. CASE Arrive \/ (\E s \in Sessions : Session(s)) \/ Tick \/ UNCHANGED vars
  <2>1. UNCHANGED <<post, completedBatches, number, summaries>>
    BY <1>4 DEF Arrive, Session, PopBatch, Timeout, StartDummy, StayIdle, EndDummy, FailDummy, EndReal,
                AddGpuTime, PushInf, FailReal, Tick, vars, rest, posting, metrics
  <2>2. QED
    BY <2>1 DEF Numbering
<1>5. QED
  BY <1>1, <1>2, <1>3, <1>4 DEF Next, Post

--------------------------------------------------------------------------------

\* All of it holds at the start.
LEMMA Initially == Init => IInv
<1> SUFFICES ASSUME Init PROVE IInv
  OBVIOUS
<1>0. /\ Quantum \in Nat \ {0} /\ Idle \in Nat \ {0} /\ kWindow \in Nat \ {0} /\ MaxRun \in Nat \ {0}
      /\ MaxBatches \in Nat /\ MaxFaults \in Nat /\ Gpu \subseteq Sessions
  BY Constants
<1>1. TypeSessions /\ TypeClocks /\ TypePosters
  BY <1>0 DEF Init, TypeSessions, TypeClocks, TypePosters, Stations, PostStations
<1>2. TypeQueues
  BY <1>0, EmptySeq DEF Init, TypeQueues
<1>3. TypeMetrics
  <2>1. [buf |-> [i \in 0 .. kWindow - 1 |-> None], next |-> 0, count |-> 0] \in Window
    BY <1>0 DEF Window
  <2>2. field \in [Fields -> Window] /\ completedBatches \in Nat /\ number \in [Posters -> Nat]
    BY <2>1 DEF Init, M!Init
  <2>3. measured \in [Fields -> Seq(Batches)] /\ summaries \in Seq(Nat)
    BY EmptySeq DEF Init, M!Init
  <2>4. QED
    BY <2>2, <2>3 DEF TypeMetrics
<1>4. Warm /\ Spaced
  BY <1>0 DEF Init, Warm, Spaced
<1>5. Flow
  <2>1. /\ SessionsAt({"real", "measure"}) = {} /\ SessionsAt({"push"}) = {}
        /\ PostersAt("add") = {} /\ PostersAt("count") = {}
    BY DEF Init, SessionsAt, PostersAt
  <2>2. Computing = 0 /\ Pushing = 0 /\ Adding = 0 /\ Counting = 0
    BY <2>1, FS_EmptySet DEF Computing, Pushing, Adding, Counting
  <2>3. Waiting = 0 /\ Inferred = 0 /\ Timed = 0 /\ Rendered = 0
    BY EmptySeq DEF Init, M!Init, Fields, Waiting, Inferred, Timed, Rendered
  <2>4. arrived = 0 /\ completedBatches = 0
    BY DEF Init, M!Init
  <2>5. QED
    BY <2>2, <2>3, <2>4 DEF Flow
<1>6. Numbering
  <2>1. DOMAIN summaries = {}
    BY EmptySeq DEF Init, M!Init
  <2>2. QED
    BY <2>1 DEF Init, M!Init, Numbering
<1>7. Rolling
  <2>1. ASSUME NEW f \in Fields
        PROVE  InPlace(field[f], measured[f])
    <3>1. field[f].next = 0 /\ field[f].count = 0 /\ Len(measured[f]) = 0
      BY EmptySeq DEF Init, M!Init
    <3>2. \A i \in 0 .. field[f].count - 1 : FALSE
      BY <3>1
    <3>3. QED
      BY <1>0, <3>1, <3>2 DEF InPlace
  <2>2. QED
    BY <2>1 DEF Rolling
<1>8. QED
  BY <1>1, <1>2, <1>3, <1>4, <1>5, <1>6, <1>7 DEF IInv, Types

\* Every step keeps it.
LEMMA Inductive == IInv /\ [Next]_vars => IInv'
BY TypesStep, WarmStep, SpacedStep, FlowStep, NumberingStep, MetricsStep DEF IInv, Types

\* Every reachable state has it.
THEOREM Invariance == Spec => []IInv
<1>1. QED
  BY Initially, Inductive, PTL DEF Spec

\* A GPU session waits for batches less than the idle time and a quantum before it
\* does something else, whatever the idle time, the quantum, the longest batch and
\* q_inf_ are, and whatever throws.
THEOREM SessionsStayWarm == Spec => []StaysWarm
<1>1. IInv => StaysWarm
  <2> SUFFICES ASSUME IInv, NEW s \in Gpu, pc[s] \in {"pop", "timeout"}
               PROVE  waited[s] < Idle + Quantum
    BY DEF StaysWarm
  <2>1. waited[s] + left[s] < Idle + Quantum
    BY DEF IInv, Warm
  <2>2. left[s] \in Nat /\ waited[s] \in Nat
    BY Constants DEF IInv, Types, TypeSessions, TypeClocks
  <2>3. Idle \in Nat /\ Quantum \in Nat
    BY Constants
  <2>4. QED
    BY <2>1, <2>2, <2>3
<1>2. QED
  BY <1>1, Invariance, PTL

\* Between whatever a session did last and a dummy batch lies a whole quantum of
\* waiting, even if dummies throw, and between the last batch it took and the dummy
\* the idle time (keepWarmIdleMs_).
THEOREM DummiesKeepTheirDistance == Spec => NeverTooSoon
<1>1. ASSUME IInv, [Next]_vars, NEW s \in Sessions, BeginsDummy(s)
      PROVE  waited[s] >= Quantum /\ sinceTaken[s] >= Idle
  <2>0. pc \in [Sessions -> Stations] /\ pc[s] = "timeout" /\ pc'[s] = "dummy"
    BY <1>1 DEF IInv, Types, TypeSessions, BeginsDummy
  <2>1. ASSUME NEW r \in Sessions, StartDummy(r)
        PROVE  waited[s] >= Quantum /\ sinceTaken[s] >= Idle
    <3>1. pc' = [pc EXCEPT ![r] = "dummy"] /\ sinceReal[r] >= Idle
      BY <2>1 DEF StartDummy, Begin, Goto, WarmDue
    <3>2. r = s
      BY <2>0, <3>1
    <3>3. sinceReal[s] <= sinceTaken[s]
      BY <1>1 DEF IInv, Spaced
    <3>4. left[s] = 0 /\ waited[s] + left[s] >= Quantum
      BY <1>1, <2>0 DEF IInv, Warm
    <3>5. /\ sinceReal[s] \in Nat /\ sinceTaken[s] \in Nat /\ waited[s] \in Nat
          /\ Idle \in Nat /\ Quantum \in Nat
      BY <1>1, Constants DEF IInv, Types, TypeClocks
    <3>6. QED
      BY <3>1, <3>2, <3>3, <3>4, <3>5
  <2>2. ASSUME NEW r \in Sessions,
               \/ PopBatch(r) \/ Timeout(r) \/ StayIdle(r) \/ EndDummy(r) \/ FailDummy(r) \/ EndReal(r)
               \/ AddGpuTime(r) \/ PushInf(r) \/ FailReal(r)
        PROVE  FALSE
    <3>1. PICK there \in Stations \ {"dummy"} : pc' = [pc EXCEPT ![r] = there]
      BY <2>2 DEF PopBatch, Timeout, StayIdle, EndDummy, FailDummy, EndReal, AddGpuTime, PushInf, FailReal,
                  Begin, WaitAnew, Goto, Stations
    <3>2. QED
      BY <2>0, <3>1
  <2>3. CASE Arrive \/ Tick \/ (\E t \in Posters : Post(t)) \/ UNCHANGED vars
    <3>1. pc' = pc
      BY <2>3 DEF Arrive, Tick, Post, PopInf, AddPostprocessingTime, FailPost, CountBatch,
                  PrintRollingAverage, vars, session
    <3>2. QED
      BY <2>0, <3>1
  <2>4. QED
    BY <1>1, <2>1, <2>2, <2>3 DEF Next, Session
<1>2. IInv /\ [Next]_vars =>
         [\A s \in Sessions : BeginsDummy(s) => waited[s] >= Quantum /\ sinceTaken[s] >= Idle]_vars
  BY <1>1
<1>3. QED
  BY <1>2, Invariance, PTL DEF Spec, NeverTooSoon

\* No number is summarized twice, and a summary never speaks of more batches
\* than have their gpu and post times added.
THEOREM SummariesComplete == Spec => []SummariesOnce
<1>1. IInv => SummariesOnce
  <2> SUFFICES ASSUME IInv PROVE SummariesOnce
    OBVIOUS
  <2>0. TypeQueues /\ TypeMetrics
    BY DEF IInv, Types
  <2>1. completedBatches <= Rendered /\ Rendered <= Timed
    BY <2>0, Counts DEF IInv, Flow
  <2>2. /\ \A i, j \in DOMAIN summaries : summaries[i] = summaries[j] => i = j
        /\ \A i \in DOMAIN summaries : summaries[i] \in 1 .. completedBatches
    BY DEF IInv, Numbering
  <2>3. Rendered \in Nat /\ Timed \in Nat /\ completedBatches \in Nat
    BY <2>0, Counts
  <2>4. \A i \in DOMAIN summaries : Timed >= summaries[i] /\ Rendered >= summaries[i]
    BY <2>1, <2>2, <2>3
  <2>5. QED
    BY <2>2, <2>4 DEF SummariesOnce, Timed, Rendered
<1>2. QED
  BY <1>1, Invariance, PTL

\* The windows always hold the last kWindow measurements.
THEOREM WindowsAreLatest == Spec => []WindowIsLatest
<1>1. ASSUME IInv
      PROVE  TypeOK
  <2>0. TypeQueues /\ TypeMetrics
    BY <1>1 DEF IInv, Types
  <2>1. completedBatches \in 0 .. MaxBatches
    <3>1. completedBatches <= Rendered /\ Rendered <= Timed /\ Timed <= arrived
      BY <1>1, <2>0, Counts DEF IInv, Flow
    <3>2. QED
      BY <2>0, <3>1, Counts, Constants DEF TypeQueues
  <2>2. number \in [Posters -> 0 .. MaxBatches]
    BY <1>1, <2>0, <2>1, Constants DEF TypeMetrics, IInv, Numbering
  <2>3. \A f \in Fields : field[f].next \in 0 .. kWindow - 1 /\ field[f].count \in 0 .. kWindow
    BY <2>0 DEF TypeMetrics, Window
  <2>4. \A n \in 0 .. Idle : n \in 0 .. Idle + Quantum
    BY Constants
  <2>5. /\ sinceReal \in [Sessions -> 0 .. Idle + Quantum]
        /\ waited \in [Sessions -> 0 .. Idle + Quantum]
        /\ sinceTaken \in [Sessions -> 0 .. Idle + Quantum]
    BY <1>1, <2>4 DEF IInv, Types, TypeClocks
  <2>6. QED
    BY <1>1, <2>1, <2>2, <2>3, <2>5
       DEF TypeOK, IInv, Types, TypeSessions, TypeQueues, TypePosters, Stations, PostStations
<1>2. ASSUME IInv, NEW f \in Fields
      PROVE  M!Averaged(f) = Last(measured[f], kWindow) /\ M!Averaged(f) \subseteq Batches
  <2> DEFINE w == field[f]
             seq == measured[f]
             n == Len(seq)
             a == w.next
             c == w.count
  <2>1. /\ w \in Window /\ seq \in Seq(Batches) /\ InPlace(w, seq)
    BY <1>2 DEF IInv, Types, TypeMetrics, Rolling
  <2>2. /\ kWindow \in Nat \ {0} /\ n \in Nat /\ DOMAIN seq = 1 .. n
        /\ \A j \in 1 .. n : seq[j] \in Batches
        /\ a \in 0 .. kWindow - 1 /\ c \in 0 .. kWindow
    BY <2>1, Constants, LenProperties, ElementOfSeq DEF Window
  <2>3. /\ n < kWindow => a = n /\ c = n
        /\ ~(n < kWindow) => c = kWindow
        /\ a <= n
        /\ \A i \in 0 .. c - 1 : w.buf[i] = seq[Rank(i, a, n)]
    BY <2>1 DEF InPlace
  <2>4. M!Averaged(f) = {w.buf[i] : i \in 0 .. c - 1}
    BY DEF M!Averaged
  <2>5. Last(seq, kWindow) = {seq[j] : j \in {j \in 1 .. n : j > n - kWindow}}
    BY <2>2 DEF Last
  <2> HIDE DEF w, seq, n, a, c
  <2>6. ASSUME NEW i \in 0 .. c - 1
        PROVE  Rank(i, a, n) \in 1 .. n /\ Rank(i, a, n) > n - kWindow
    <3>1. i \in 0 .. kWindow - 1 /\ (i < a \/ n >= kWindow)
      BY <2>2, <2>3
    <3>2. Rank(i, a, n) \in 1 .. n
      BY <2>2, <2>3, <3>1, RankInside
    <3>3. (n + (i + 1)) - a > n - kWindow /\ (i >= a => (n + (i + 1)) - (a + kWindow) > n - kWindow)
      BY <2>2, <3>1
    <3>4. Rank(i, a, n) > n - kWindow
      BY <2>2, <3>1, <3>3 DEF Rank
    <3>5. QED
      BY <3>2, <3>4
  <2>7. ASSUME NEW j \in 1 .. n, j > n - kWindow
        PROVE  \E i \in 0 .. c - 1 : Rank(i, a, n) = j
    <3>1. CASE j + a >= n + 1
      <4> DEFINE i == (j + a) - (n + 1)
      <4>1. i \in 0 .. c - 1 /\ i < a
        BY <2>2, <2>3, <3>1
      <4>2. (n + (i + 1)) - a = j
        BY <2>2
      <4>3. QED
        BY <4>1, <4>2 DEF Rank
    <3>2. CASE ~(j + a >= n + 1)
      <4> DEFINE i == (j + a + kWindow) - (n + 1)
      <4>1. n >= kWindow /\ c = kWindow
        BY <2>2, <2>3, <3>2
      <4>2. i \in 0 .. c - 1 /\ ~(i < a)
        BY <2>2, <2>7, <3>2, <4>1
      <4>3. (n + (i + 1)) - (a + kWindow) = j
        BY <2>2
      <4>4. QED
        BY <4>2, <4>3 DEF Rank
    <3>3. QED
      BY <3>1, <3>2
  <2>8. M!Averaged(f) = Last(seq, kWindow)
    <3>1. \A i \in 0 .. c - 1 : w.buf[i] \in Last(seq, kWindow)
      BY <2>3, <2>5, <2>6
    <3>2. \A j \in 1 .. n : j > n - kWindow => \E i \in 0 .. c - 1 : w.buf[i] = seq[j]
      BY <2>3, <2>7
    <3>3. QED
      BY <2>4, <2>5, <3>1, <3>2
  <2>9. M!Averaged(f) \subseteq Batches
    BY <2>2, <2>5, <2>8
  <2>10. QED
    BY <2>8, <2>9 DEF seq
<1>3. IInv => WindowIsLatest
  BY <1>1, <1>2 DEF WindowIsLatest
<1>4. QED
  BY <1>3, Invariance, PTL
================================================================================
