------------------------------ MODULE LoggerProofs ------------------------------
(***************************************************************************)
(* Proofs about Logger for any capacity, threshold, number of threads and   *)
(* of messages.                                                             *)
(*                                                                          *)
(* InOrder is a statement about three sequences, and not inductive.  Turns  *)
(* is the same thing said of each slot: as the messages are numbered in the *)
(* order of Enqueue, what a position of the ring must hold follows from how *)
(* many were accepted and how many are still queued.  Moving a message from *)
(* ring to hand to console keeps that only because there is one drainer at  *)
(* a time, which is what Shutdown joins the consumer for.                   *)
(***************************************************************************)
EXTENDS Logger, SequenceTheorems, TLAPS

\* The position i places after position t, and that of the i-th queued message,
\* counted from 0.
At(t, i) == (t + i) % kQueueCapacity
Place(i) == At(tail, i)

\* Only the thread that drains has a message in its hand, and Shutdown drains
\* when the consumer is gone.
OneDrainer ==
    /\ main = "before" => consumer = "none"
    /\ main \in {"drain", "report", "returned"} => consumer = "exited"
    /\ hand["consumer"] # None => consumer = "drain"
    /\ hand["main"] # None => main = "drain"

Held == IF hand["consumer"] = None /\ hand["main"] = None THEN 0 ELSE 1

\* Each message is where its turn says it must be.
Turns ==
    /\ Len(printed) + Held + count = accepted
    /\ \A i \in 1 .. Len(printed) : printed[i] = i
    /\ \A d \in Drainers : hand[d] # None => hand[d] = Len(printed) + 1
    /\ \A i \in 0 .. count - 1 : ring[Place(i)].id = accepted - count + 1 + i
    /\ head = Place(count)

\* What Shutdown promised had been accepted, and was printed by the final drain.
Flushed ==
    /\ promised <= accepted
    /\ main \in {"report", "returned"} => Len(printed) >= promised

IInv == TypeOK /\ DropsReported /\ OneDrainer /\ Turns /\ Flushed

--------------------------------------------------------------------------------

\* The two sides of a capacity's remainder: positions wrap around once.
LEMMA Wrap ==
    ASSUME NEW k \in Nat \ {0}, NEW x \in 0 .. 2 * k - 1
    PROVE  x % k = IF x < k THEN x ELSE x - k
OBVIOUS

\* Queued messages have places, different ones, and taking the oldest shifts them.
LEMMA Places ==
    ASSUME TypeOK
    PROVE  /\ \A i \in 0 .. kQueueCapacity :
                Place(i) = IF tail + i < kQueueCapacity THEN tail + i ELSE tail + i - kQueueCapacity
           /\ \A i \in 0 .. kQueueCapacity : Place(i) \in Positions
           /\ \A i, j \in 0 .. kQueueCapacity - 1 : i # j => Place(i) # Place(j)
           /\ (tail + 1) % kQueueCapacity = Place(1)
           /\ (head + 1) % kQueueCapacity \in Positions
           /\ kQueueCapacity \in Nat \ {0} /\ tail \in Nat /\ count \in Nat
<1>0. /\ kQueueCapacity \in Nat \ {0} /\ tail \in 0 .. kQueueCapacity - 1
      /\ head \in 0 .. kQueueCapacity - 1 /\ count \in 0 .. kQueueCapacity
  BY LoggerAssumption DEF TypeOK, Positions
<1>1. ASSUME NEW i \in 0 .. kQueueCapacity
      PROVE  Place(i) = IF tail + i < kQueueCapacity THEN tail + i ELSE tail + i - kQueueCapacity
  <2>1. tail + i \in 0 .. 2 * kQueueCapacity - 1
    BY <1>0
  <2> DEFINE x == tail + i
  <2>2. x \in 0 .. 2 * kQueueCapacity - 1
    BY <2>1
  <2> HIDE DEF x
  <2>3. x % kQueueCapacity = IF x < kQueueCapacity THEN x ELSE x - kQueueCapacity
    BY <1>0, <2>2, Wrap
  <2>4. QED
    BY <1>0, <2>1, <2>3 DEF Place, At, x
<1>2. \A i \in 0 .. kQueueCapacity : Place(i) \in Positions
  BY <1>0, <1>1 DEF Positions
<1>3. \A i, j \in 0 .. kQueueCapacity - 1 : i # j => Place(i) # Place(j)
  BY <1>0, <1>1
<1>4. (head + 1) % kQueueCapacity \in Positions
  <2>1. head + 1 \in 0 .. 2 * kQueueCapacity - 1
    BY <1>0
  <2>2. QED
    BY <1>0, <2>1, Wrap DEF Positions
<1>5. QED
  BY <1>0, <1>1, <1>2, <1>3, <1>4 DEF Place, At

\* The state is well typed: in particular no message number exceeds the number of
\* calls and the counters of the ring stay inside it.
LEMMA TypeStep == TypeOK /\ [Next]_vars => TypeOK'
<1> SUFFICES ASSUME TypeOK, [Next]_vars PROVE TypeOK'
  OBVIOUS
<1> USE LoggerAssumption DEF slots, drainers, tally
<1>1. ASSUME NEW t \in Producers, NEW level \in Levels, Enqueue(t, level) PROVE TypeOK'
  <2>1. CASE Full
    BY <1>1, <2>1 DEF Enqueue, TypeOK
  <2>2. CASE ~Full
    <3>1. accepted + 1 \in 1 .. MaxMessages
      BY <1>1 DEF Enqueue, TypeOK
    <3>2. ring' \in [Positions -> [id : 1 .. MaxMessages \union {None}, level : Levels]]
      <4>1. [id |-> accepted + 1, level |-> level] \in
                [id : 1 .. MaxMessages \union {None}, level : Levels]
        BY <3>1
      <4>2. QED
        BY <1>1, <2>2, <4>1 DEF Enqueue, TypeOK
    <3>3. head' \in Positions
      BY <1>1, <2>2, Places DEF Enqueue
    <3>4. count' \in 0 .. kQueueCapacity
      BY <1>1, <2>2 DEF Enqueue, TypeOK, Full
    <3>5. producer' \in [Producers -> {"idle", "notify"}]
      BY <1>1, <2>2 DEF Enqueue, TypeOK
    <3>6. accepted' \in Nat
      BY <1>1, <2>2 DEF Enqueue, TypeOK
    <3>7. UNCHANGED <<tail, running, dropped, consumer, main, hand, refused, reported, printed,
                      promised>>
      BY <1>1, <2>2 DEF Enqueue
    <3>8. QED
      BY <3>2, <3>3, <3>4, <3>5, <3>6, <3>7 DEF TypeOK
  <2>3. QED
    BY <2>1, <2>2
<1>2. ASSUME NEW t \in Producers, Notify(t) PROVE TypeOK'
  BY <1>2 DEF Notify, WakeConsumer, TypeOK
<1>3. ASSUME NEW d \in Drainers, DrainTake(d) PROVE TypeOK'
  <2>1. tail' \in Positions /\ tail \in Positions /\ count' \in 0 .. kQueueCapacity
    <3>1. 1 \in 0 .. kQueueCapacity
      BY LoggerAssumption
    <3>2. QED
      BY <1>3, <3>1, Places DEF DrainTake, TypeOK
  <2>2. hand' \in [Drainers -> 1 .. MaxMessages \union {None}]
    BY <1>3, <2>1 DEF DrainTake, TypeOK
  <2>3. QED
    BY <1>3, <2>1, <2>2 DEF DrainTake, TypeOK
<1>4. ASSUME NEW d \in Drainers, DrainPrint(d) PROVE TypeOK'
  <2>1. hand[d] \in 1 .. MaxMessages
    BY <1>4 DEF DrainPrint, TypeOK
  <2>2. printed' \in Seq(1 .. MaxMessages) /\ hand' \in [Drainers -> 1 .. MaxMessages \union {None}]
    BY <1>4, <2>1 DEF DrainPrint, TypeOK
  <2>3. QED
    BY <1>4, <2>2 DEF DrainPrint, TypeOK
<1>5. CASE ConsumerTop \/ ConsumerWait \/ ConsumerSleep \/ ConsumerTimeout \/ SpuriousWakeup
  BY <1>5 DEF ConsumerTop, ConsumerWait, ConsumerSleep, ConsumerTimeout, SpuriousWakeup,
              ConsumerGoto, TypeOK
<1>6. CASE ConsumerDrain
  BY <1>3, <1>4, <1>6 DEF ConsumerDrain, DrainedAll, Drainers, TypeOK
<1>7. CASE FinalDrain
  BY <1>3, <1>4, <1>7 DEF FinalDrain, DrainedAll, Drainers, TypeOK
<1>8. CASE ConsumerReport \/ FinalReport
  BY <1>8 DEF ConsumerReport, FinalReport, DrainDone, ReportDrops, TypeOK
<1>9. CASE Start \/ BeginShutdown \/ NotifyShutdown \/ Join
  BY <1>9 DEF Start, BeginShutdown, NotifyShutdown, Join, WakeConsumer, TypeOK
<1>10. CASE UNCHANGED vars
  BY <1>10 DEF vars, TypeOK
<1>11. QED
  BY <1>1, <1>2, <1>5, <1>6, <1>7, <1>8, <1>9, <1>10 DEF Next, Consumer, Shutdown

\* Every drop is in the counter or in a report.
LEMMA DropStep == TypeOK /\ DropsReported /\ [Next]_vars => DropsReported'
<1> SUFFICES ASSUME TypeOK, DropsReported, [Next]_vars PROVE DropsReported'
  OBVIOUS
<1>0. dropped \in Nat /\ refused \in Nat /\ reported \in Nat /\ refused = dropped + reported
  BY DEF TypeOK, DropsReported
<1>1. ASSUME NEW t \in Producers, NEW level \in Levels, Enqueue(t, level) PROVE DropsReported'
  BY <1>0, <1>1 DEF Enqueue, DropsReported, drainers
<1>2. CASE ConsumerReport \/ FinalReport
  BY <1>0, <1>2 DEF ConsumerReport, FinalReport, DrainDone, ReportDrops, DropsReported, tally
<1>3. ASSUME UNCHANGED <<dropped, refused, reported>> PROVE DropsReported'
  BY <1>3 DEF DropsReported
<1>4. CASE \/ \E t \in Producers : Notify(t)
           \/ ConsumerTop \/ ConsumerWait \/ ConsumerSleep \/ ConsumerTimeout \/ SpuriousWakeup
           \/ ConsumerDrain \/ FinalDrain
           \/ Start \/ BeginShutdown \/ NotifyShutdown \/ Join \/ UNCHANGED vars
  BY <1>3, <1>4
     DEF Notify, ConsumerTop, ConsumerWait, ConsumerSleep, ConsumerTimeout, SpuriousWakeup,
         ConsumerGoto, ConsumerDrain, FinalDrain, DrainTake, DrainPrint, DrainedAll, Start,
         BeginShutdown, NotifyShutdown, Join, vars, tally, drainers
<1>5. QED
  BY <1>1, <1>2, <1>4 DEF Next, Consumer, Shutdown

\* Walking on from a place leads to the places after it.
LEMMA Walk ==
    ASSUME TypeOK, NEW i \in 0 .. kQueueCapacity, NEW j \in 0 .. kQueueCapacity,
           i + j <= kQueueCapacity
    PROVE  (Place(i) + j) % kQueueCapacity = Place(i + j)
<1>0. kQueueCapacity \in Nat \ {0} /\ tail \in 0 .. kQueueCapacity - 1
  BY LoggerAssumption DEF TypeOK, Positions
<1>1. Place(i) \in 0 .. kQueueCapacity - 1
  BY Places DEF Positions
<1> DEFINE x == Place(i) + j
<1>2. x \in 0 .. 2 * kQueueCapacity - 1
  BY <1>0, <1>1
<1>3. x % kQueueCapacity = IF x < kQueueCapacity THEN x ELSE x - kQueueCapacity
  <2> HIDE DEF x
  <2>1. QED
    BY <1>0, <1>2, Wrap
<1>4. /\ Place(i) = IF tail + i < kQueueCapacity THEN tail + i ELSE tail + i - kQueueCapacity
      /\ i + j \in 0 .. kQueueCapacity
      /\ Place(i + j) = IF tail + (i + j) < kQueueCapacity
                        THEN tail + (i + j) ELSE tail + (i + j) - kQueueCapacity
  BY <1>0, Places
<1>5. QED
  BY <1>0, <1>3, <1>4

--------------------------------------------------------------------------------

\* The consumer and Shutdown never drain at the same time.
LEMMA DrainerStep == TypeOK /\ OneDrainer /\ [Next]_vars => OneDrainer'
<1> SUFFICES ASSUME TypeOK, OneDrainer, [Next]_vars PROVE OneDrainer'
  OBVIOUS
<1>0. hand \in [Drainers -> 1 .. MaxMessages \union {None}] /\ Drainers = {"consumer", "main"}
  BY DEF TypeOK, Drainers
<1>1. CASE \E t \in Producers : (\E level \in Levels : Enqueue(t, level)) \/ Notify(t)
  BY <1>1 DEF OneDrainer, Enqueue, Notify, WakeConsumer, drainers
<1>2. CASE ConsumerTop \/ ConsumerWait \/ ConsumerSleep \/ ConsumerTimeout \/ SpuriousWakeup
  BY <1>2 DEF OneDrainer, ConsumerTop, ConsumerWait, ConsumerSleep, ConsumerTimeout,
              SpuriousWakeup, ConsumerGoto
<1>3. CASE ConsumerDrain
  BY <1>0, <1>3 DEF OneDrainer, ConsumerDrain, DrainTake, DrainPrint, DrainedAll
<1>4. CASE FinalDrain
  BY <1>0, <1>4 DEF OneDrainer, FinalDrain, DrainTake, DrainPrint, DrainedAll
<1>5. CASE ConsumerReport \/ FinalReport
  BY <1>5 DEF OneDrainer, ConsumerReport, FinalReport, DrainDone
<1>6. CASE Start \/ BeginShutdown \/ NotifyShutdown \/ Join
  BY <1>6 DEF OneDrainer, Start, BeginShutdown, NotifyShutdown, Join, WakeConsumer
<1>7. CASE UNCHANGED vars
  BY <1>7 DEF OneDrainer, vars, drainers
<1>8. QED
  BY <1>1, <1>2, <1>3, <1>4, <1>5, <1>6, <1>7 DEF Next, Consumer, Shutdown

\* A message takes its turn when it is accepted.
LEMMA EnqueueTurn ==
    ASSUME TypeOK, Turns, NEW t \in Producers, NEW level \in Levels, Enqueue(t, level)
    PROVE  Turns'
<1>0. /\ kQueueCapacity \in Nat \ {0} /\ accepted \in Nat /\ Len(printed) \in Nat
      /\ count \in 0 .. kQueueCapacity /\ tail \in Positions /\ Held \in {0, 1}
      /\ ring \in [Positions -> [id : 1 .. MaxMessages \union {None}, level : Levels]]
  BY LoggerAssumption DEF TypeOK, Held
<1>1. CASE Full
  BY <1>1 DEF Enqueue, Turns, Place, Held, slots, drainers
<1>2. CASE ~Full
  <2>1. /\ accepted' = accepted + 1 /\ count' = count + 1
        /\ ring' = [ring EXCEPT ![head] = [id |-> accepted + 1, level |-> level]]
        /\ head' = (head + 1) % kQueueCapacity /\ UNCHANGED <<tail, hand, printed>>
    BY <1>2 DEF Enqueue, drainers
  <2>2. count \in 0 .. kQueueCapacity - 1
    BY <1>0, <1>2 DEF Full
  <2>3. Held' = Held /\ \A i : Place(i)' = Place(i)
    BY <2>1 DEF Held, Place
  <2>4. head = Place(count) /\ head \in Positions
    BY <2>2, Places DEF Turns
  <2>5. head' = Place(count + 1)
    BY <1>0, <2>1, <2>2, <2>4, Walk
  <2>6. ring'[head].id = accepted + 1
    BY <1>0, <2>1, <2>4
  <2>7. ASSUME NEW i \in 0 .. count - 1 PROVE ring'[Place(i)].id = accepted - count + 1 + i
    <3>1. Place(i) \in Positions /\ Place(i) # head
      BY <1>0, <2>2, <2>4, Places
    <3>2. ring'[Place(i)] = ring[Place(i)]
      BY <1>0, <2>1, <3>1
    <3>3. QED
      BY <3>2 DEF Turns
  <2>8. ASSUME NEW i \in 0 .. count' - 1
        PROVE  ring'[Place(i)].id = accepted' - count' + 1 + i
    <3>1. CASE i = count
      BY <1>0, <2>1, <2>4, <2>6, <3>1
    <3>2. CASE i # count
      <4>1. i \in 0 .. count - 1
        BY <1>0, <2>1, <3>2
      <4>2. QED
        BY <1>0, <2>1, <2>7, <4>1
    <3>3. QED
      BY <3>1, <3>2
  <2>9. Len(printed') + Held' + count' = accepted'
    BY <1>0, <2>1, <2>3 DEF Turns
  <2>10. QED
    BY <2>1, <2>3, <2>5, <2>8, <2>9 DEF Turns
<1>3. QED
  BY <1>1, <1>2

\* The oldest message moves from the ring to the hand.
LEMMA TakeTurn ==
    ASSUME TypeOK, Turns, NEW d \in Drainers, DrainTake(d), \A c \in Drainers : hand[c] = None
    PROVE  Turns'
<1>0. /\ kQueueCapacity \in Nat \ {0} /\ accepted \in Nat /\ Len(printed) \in Nat
      /\ count \in 1 .. kQueueCapacity /\ tail \in 0 .. kQueueCapacity - 1
      /\ hand \in [Drainers -> 1 .. MaxMessages \union {None}] /\ None \notin Nat
      /\ Drainers = {"consumer", "main"}
  BY LoggerAssumption DEF TypeOK, DrainTake, Drainers, Positions
<1>1. /\ hand' = [hand EXCEPT ![d] = ring[tail].id]
      /\ tail' = (tail + 1) % kQueueCapacity
      /\ count' = count - 1 /\ UNCHANGED <<ring, head, printed, accepted>>
  BY DEF DrainTake, tally
<1>2. Held = 0 /\ Len(printed) = accepted - count
  BY <1>0 DEF Held, Turns
<1>3. Place(0) = tail
  <2>1. 0 \in 0 .. kQueueCapacity
    BY <1>0
  <2>2. QED
    BY <1>0, <2>1, Places
<1>4. ring[tail].id = Len(printed) + 1
  BY <1>0, <1>2, <1>3 DEF Turns
<1>5. hand'[d] = Len(printed) + 1 /\ \A c \in Drainers : c # d => hand'[c] = None
  BY <1>0, <1>1, <1>4
<1>6. Held' = 1
  BY <1>0, <1>5 DEF Held
<1>7. ASSUME NEW i \in 0 .. kQueueCapacity - 1 PROVE At(tail', i) = Place(1 + i)
  <2>1. tail' = Place(1)
    BY <1>1 DEF Place, At
  <2>2. (Place(1) + i) % kQueueCapacity = Place(1 + i)
    BY <1>0, Walk
  <2>3. QED
    BY <2>1, <2>2 DEF At
<1>8. ASSUME NEW i \in 0 .. count' - 1
      PROVE  ring'[At(tail', i)].id = accepted' - count' + 1 + i
  <2>1. At(tail', i) = Place(1 + i) /\ 1 + i \in 0 .. count - 1
    BY <1>0, <1>1, <1>7
  <2>2. ring[Place(1 + i)].id = accepted - count + 1 + (1 + i)
    BY <2>1 DEF Turns
  <2>3. QED
    BY <1>0, <1>1, <2>1, <2>2
<1>9. head' = At(tail', count')
  <2>1. count' \in 0 .. kQueueCapacity - 1 /\ 1 + count' = count
    BY <1>0, <1>1
  <2>2. QED
    BY <1>1, <1>7, <2>1 DEF Turns
<1>10. Len(printed') + Held' + count' = accepted'
  BY <1>0, <1>1, <1>2, <1>6
<1>11. \A c \in Drainers : hand'[c] # None => hand'[c] = Len(printed') + 1
  BY <1>1, <1>5
<1>12. \A i \in 1 .. Len(printed') : printed'[i] = i
  BY <1>1 DEF Turns
<1>13. QED
  BY <1>8, <1>9, <1>10, <1>11, <1>12 DEF Turns, Place

\* The message in the hand is the next to print.
LEMMA PrintTurn ==
    ASSUME TypeOK, Turns, NEW d \in Drainers, DrainPrint(d),
           \A c \in Drainers : c # d => hand[c] = None
    PROVE  Turns'
<1>0. /\ accepted \in Nat /\ Len(printed) \in Nat /\ count \in Nat
      /\ printed \in Seq(1 .. MaxMessages)
      /\ hand \in [Drainers -> 1 .. MaxMessages \union {None}] /\ None \notin Nat
      /\ Drainers = {"consumer", "main"}
  BY LoggerAssumption DEF TypeOK, Drainers
<1>1. /\ printed' = Append(printed, hand[d]) /\ hand[d] # None
      /\ hand' = [hand EXCEPT ![d] = None]
      /\ UNCHANGED <<ring, head, tail, count, accepted>>
  BY DEF DrainPrint, slots, tally
<1>2. hand[d] = Len(printed) + 1 /\ hand[d] \in 1 .. MaxMessages
  BY <1>0, <1>1 DEF Turns
<1>3. /\ Len(printed') = Len(printed) + 1
      /\ \A i \in 1 .. Len(printed) : printed'[i] = printed[i]
      /\ printed'[Len(printed) + 1] = hand[d]
  BY <1>0, <1>1, <1>2
<1>4. ASSUME NEW i \in 1 .. Len(printed') PROVE printed'[i] = i
  <2>1. CASE i = Len(printed) + 1
    BY <1>2, <1>3, <2>1
  <2>2. CASE i # Len(printed) + 1
    <3>1. i \in 1 .. Len(printed)
      BY <1>0, <1>3, <2>2
    <3>2. QED
      BY <1>3, <3>1 DEF Turns
  <2>3. QED
    BY <2>1, <2>2
<1>5. Held = 1 /\ Held' = 0 /\ \A c \in Drainers : hand'[c] = None
  BY <1>0, <1>1 DEF Held
<1>6. Len(printed') + Held' + count' = accepted'
  BY <1>0, <1>1, <1>3, <1>5 DEF Turns
<1>7. /\ \A i \in 0 .. count' - 1 : ring'[At(tail', i)].id = accepted' - count' + 1 + i
      /\ head' = At(tail', count')
  BY <1>1 DEF Turns, Place
<1>8. QED
  BY <1>4, <1>5, <1>6, <1>7 DEF Turns, Place

\* Every step leaves each message where its turn says.
LEMMA TurnStep == TypeOK /\ OneDrainer /\ Turns /\ [Next]_vars => Turns'
<1> SUFFICES ASSUME TypeOK, OneDrainer, Turns, [Next]_vars PROVE Turns'
  OBVIOUS
<1>0. Drainers = {"consumer", "main"}
  BY DEF Drainers
<1>1. ASSUME UNCHANGED <<slots, hand, printed, accepted>> PROVE Turns'
  BY <1>1 DEF Turns, Place, Held, slots
<1>2. CASE ConsumerDrain
  <2>1. hand["main"] = None
    BY <1>2 DEF OneDrainer, ConsumerDrain
  <2>2. CASE DrainTake("consumer")
    BY <1>0, <2>1, <2>2, TakeTurn DEF DrainTake
  <2>3. CASE DrainPrint("consumer")
    BY <1>0, <2>1, <2>3, PrintTurn
  <2>4. CASE DrainedAll("consumer")
    BY <1>1, <2>4 DEF DrainedAll, tally
  <2>5. QED
    BY <1>2, <2>2, <2>3, <2>4 DEF ConsumerDrain
<1>3. CASE FinalDrain
  <2>1. hand["consumer"] = None
    BY <1>3 DEF OneDrainer, FinalDrain
  <2>2. CASE DrainTake("main")
    BY <1>0, <2>1, <2>2, TakeTurn DEF DrainTake
  <2>3. CASE DrainPrint("main")
    BY <1>0, <2>1, <2>3, PrintTurn
  <2>4. CASE DrainedAll("main")
    BY <1>1, <2>4 DEF DrainedAll, tally
  <2>5. QED
    BY <1>3, <2>2, <2>3, <2>4 DEF FinalDrain
<1>4. CASE \/ \E t \in Producers : Notify(t)
           \/ ConsumerTop \/ ConsumerWait \/ ConsumerSleep \/ ConsumerTimeout \/ SpuriousWakeup
           \/ ConsumerReport \/ FinalReport
           \/ Start \/ BeginShutdown \/ NotifyShutdown \/ Join \/ UNCHANGED vars
  BY <1>1, <1>4
     DEF Notify, ConsumerTop, ConsumerWait, ConsumerSleep, ConsumerTimeout, SpuriousWakeup,
         ConsumerGoto, ConsumerReport, FinalReport, DrainDone, Start, BeginShutdown,
         NotifyShutdown, Join, vars, tally, drainers
<1>5. QED
  BY <1>2, <1>3, <1>4, EnqueueTurn DEF Next, Consumer, Shutdown

\* The final drain ends when everything accepted is printed.
LEMMA FlushStep == TypeOK /\ OneDrainer /\ Turns /\ Flushed /\ [Next]_vars => Flushed'
<1> SUFFICES ASSUME TypeOK, OneDrainer, Turns, Flushed, [Next]_vars PROVE Flushed'
  OBVIOUS
<1>0. /\ accepted \in Nat /\ promised \in Nat /\ Len(printed) \in Nat /\ count \in Nat
      /\ printed \in Seq(1 .. MaxMessages)
  BY DEF TypeOK
<1>1. ASSUME UNCHANGED <<promised, accepted, printed, main>> PROVE Flushed'
  BY <1>1 DEF Flushed
<1>2. ASSUME NEW t \in Producers, NEW level \in Levels, Enqueue(t, level) PROVE Flushed'
  BY <1>0, <1>2 DEF Flushed, Enqueue, drainers
<1>3. ASSUME NEW d \in Drainers, DrainPrint(d) PROVE Flushed'
  <2>1. hand[d] \in 1 .. MaxMessages
    BY <1>3 DEF DrainPrint, TypeOK
  <2>2. Len(printed') = Len(printed) + 1
    BY <1>0, <1>3, <2>1 DEF DrainPrint
  <2>3. QED
    BY <1>0, <1>3, <2>2 DEF Flushed, DrainPrint, tally
<1>4. ASSUME NEW d \in Drainers, DrainTake(d) PROVE Flushed'
  BY <1>1, <1>4 DEF DrainTake, tally
<1>5. CASE ConsumerDrain
  BY <1>1, <1>3, <1>4, <1>5 DEF ConsumerDrain, DrainedAll, Drainers, tally
<1>6. CASE FinalDrain
  <2>1. CASE DrainedAll("main") /\ main' = "report"
    <3>1. hand["consumer"] = None /\ hand["main"] = None /\ count = 0
      BY <1>6, <2>1 DEF FinalDrain, OneDrainer, DrainedAll
    <3>2. Len(printed) = accepted
      BY <1>0, <3>1 DEF Turns, Held
    <3>3. UNCHANGED <<promised, accepted, printed>>
      BY <2>1 DEF DrainedAll, tally
    <3>4. QED
      BY <1>0, <3>2, <3>3 DEF Flushed
  <2>2. QED
    BY <1>3, <1>4, <1>6, <2>1 DEF FinalDrain, Drainers
<1>7. CASE Start \/ BeginShutdown \/ NotifyShutdown \/ Join \/ FinalReport
  BY <1>0, <1>7 DEF Flushed, Start, BeginShutdown, NotifyShutdown, Join, FinalReport,
                    DrainDone, tally
<1>8. CASE \/ \E t \in Producers : Notify(t)
           \/ ConsumerTop \/ ConsumerWait \/ ConsumerSleep \/ ConsumerTimeout \/ SpuriousWakeup
           \/ ConsumerReport \/ UNCHANGED vars
  BY <1>1, <1>8
     DEF Notify, ConsumerTop, ConsumerWait, ConsumerSleep, ConsumerTimeout, SpuriousWakeup,
         ConsumerGoto, ConsumerReport, DrainDone, vars, tally, drainers
<1>9. QED
  BY <1>2, <1>5, <1>6, <1>7, <1>8 DEF Next, Consumer, Shutdown

\* The logger starts with an empty ring and nothing promised.
LEMMA Begin == Init => IInv
<1> SUFFICES ASSUME Init PROVE IInv
  OBVIOUS
<1> USE LoggerAssumption DEF Init
<1>1. TypeOK
  <2>1. ring \in [Positions -> [id : 1 .. MaxMessages \union {None}, level : Levels]]
    BY DEF Levels
  <2>2. head \in Positions /\ tail \in Positions /\ count \in 0 .. kQueueCapacity
    BY DEF Positions
  <2>3. hand \in [Drainers -> 1 .. MaxMessages \union {None}] /\ printed \in Seq(1 .. MaxMessages)
    OBVIOUS
  <2>4. producer \in [Producers -> {"idle", "notify"}]
    OBVIOUS
  <2>5. running \in BOOLEAN
    BY ONLY Init DEF Init
  <2>6. /\ consumer \in {"none", "top", "wait", "doze", "asleep", "drain", "report", "exited"}
        /\ main \in {"before", "started", "notify", "join", "drain", "report", "returned"}
        /\ {dropped, accepted, refused, reported, promised} \subseteq Nat
    OBVIOUS
  <2>7. QED
    BY ONLY <2>1, <2>2, <2>3, <2>4, <2>5, <2>6 DEF TypeOK
<1>2. DropsReported
  BY DEF DropsReported
<1>3. OneDrainer
  BY DEF OneDrainer, Drainers
<1>4. Turns
  <2>1. 0 % kQueueCapacity = 0
    BY Wrap
  <2>2. head = Place(count) /\ Len(printed) = 0 /\ Held = 0
    BY <2>1 DEF Place, At, Held, Drainers
  <2>3. QED
    BY <2>2 DEF Turns
<1>5. Flushed
  BY DEF Flushed
<1>6. QED
  BY <1>1, <1>2, <1>3, <1>4, <1>5 DEF IInv

\* The inductive invariant holds in every state of the logger.
THEOREM Invariance == Spec => []IInv
<1>1. IInv /\ [Next]_vars => IInv'
  BY TypeStep, DropStep, DrainerStep, TurnStep, FlushStep DEF IInv
<1>2. QED
  BY <1>1, Begin, PTL DEF Spec

--------------------------------------------------------------------------------

\* Three sequences that continue each other's count, one after the other, count.
LEMMA Counting ==
    ASSUME NEW p \in Seq(Nat), NEW h \in Seq(Nat), NEW r \in Seq(Nat),
           \A i \in 1 .. Len(p) : p[i] = i,
           \A i \in 1 .. Len(h) : h[i] = Len(p) + i,
           \A i \in 1 .. Len(r) : r[i] = Len(p) + Len(h) + i
    PROVE  p \o h \o r = [i \in 1 .. Len(p) + Len(h) + Len(r) |-> i]
<1> DEFINE n == Len(p) + Len(h) + Len(r)
           a == p \o h
           c == a \o r
           e == [i \in 1 .. n |-> i]
<1>1. Len(p) \in Nat /\ Len(h) \in Nat /\ Len(r) \in Nat /\ n \in Nat
  OBVIOUS
<1>2. /\ a \in Seq(Nat) /\ Len(a) = Len(p) + Len(h)
      /\ \A i \in 1 .. Len(p) + Len(h) :
            a[i] = IF i <= Len(p) THEN p[i] ELSE h[i - Len(p)]
  BY <1>1, ConcatProperties
<1>3. \A i \in 1 .. Len(a) : a[i] = i
  BY <1>1, <1>2
<1> HIDE DEF a
<1>4. /\ c \in Seq(Nat) /\ Len(c) = n
      /\ \A i \in 1 .. n : c[i] = IF i <= Len(a) THEN a[i] ELSE r[i - Len(a)]
  <2>1. /\ c \in Seq(Nat) /\ Len(c) = Len(a) + Len(r)
        /\ \A i \in 1 .. Len(a) + Len(r) : c[i] = IF i <= Len(a) THEN a[i] ELSE r[i - Len(a)]
    BY <1>2, ConcatProperties
  <2>2. Len(a) + Len(r) = n
    BY <1>1, <1>2
  <2> HIDE DEF c, n
  <2>3. QED
    BY <2>1, <2>2
<1>5. \A i \in 1 .. n : c[i] = i
  BY <1>1, <1>2, <1>3, <1>4
<1>6. e \in Seq(Nat) /\ Len(e) = n /\ \A i \in 1 .. n : e[i] = i
  BY <1>1
<1> HIDE DEF c, e, n
<1>7. c = e
  BY <1>1, <1>4, <1>5, <1>6, SeqEqual
<1>8. QED
  BY <1>7 DEF a, c, e, n

\* If each message is where its turn says, console, hand and ring are the accepted
\* messages in order.
LEMMA TurnsInOrder == IInv => InOrder
<1> SUFFICES ASSUME IInv PROVE InOrder
  OBVIOUS
<1> DEFINE ids == [i \in 1 .. count |-> Queued[i].id]
<1>0. /\ TypeOK /\ Turns /\ OneDrainer
      /\ count \in 0 .. kQueueCapacity /\ kQueueCapacity \in Nat \ {0}
      /\ accepted \in Nat /\ None \notin Nat /\ Drainers = {"consumer", "main"}
      /\ Len(printed) \in Nat /\ printed \in Seq(Nat)
      /\ \A d \in Drainers : hand[d] \in 1 .. MaxMessages \union {None}
  <2>1. TypeOK /\ Turns /\ OneDrainer
    BY DEF IInv
  <2>2. printed \in Seq(1 .. MaxMessages)
    BY <2>1 DEF TypeOK
  <2>3. printed \in Seq(Nat) /\ Len(printed) \in Nat
    <3>1. \A i \in 1 .. Len(printed) : printed[i] \in Nat
      BY <2>2, LoggerAssumption, ElementOfSeq
    <3>2. QED
      BY <2>2, <3>1
  <2>4. QED
    BY <2>1, <2>3, LoggerAssumption DEF TypeOK, Drainers
<1>1. InHand \in Seq(Nat) /\ Len(InHand) = Held
  BY <1>0 DEF InHand, Held, OneDrainer
<1>2. \A i \in 1 .. Len(InHand) : InHand[i] = Len(printed) + i
  <2>1. hand["consumer"] # None => InHand = <<hand["consumer"]>>
    <3>1. hand["consumer"] # None => hand["main"] = None
      BY <1>0 DEF OneDrainer
    <3>2. hand["consumer"] # None => InHand = <<hand["consumer"]>> \o <<>>
      BY <3>1 DEF InHand
    <3>3. hand["consumer"] # None => <<hand["consumer"]>> \in Seq(Nat)
      BY <1>0
    <3>4. QED
      BY <3>2, <3>3, ConcatEmptySeq
  <2>2. hand["consumer"] = None /\ hand["main"] # None => InHand = <<hand["main"]>>
    <3>1. hand["consumer"] = None /\ hand["main"] # None => InHand = <<>> \o <<hand["main"]>>
      BY DEF InHand
    <3>2. hand["main"] # None => <<hand["main"]>> \in Seq(Nat)
      BY <1>0
    <3>3. QED
      BY <3>1, <3>2, ConcatEmptySeq
  <2>3. QED
    BY <1>0, <1>1, <2>1, <2>2 DEF Held, Turns
<1>3. ASSUME NEW i \in 1 .. count PROVE Queued[i].id = accepted - count + i
  <2>1. Queued[i] = ring[Place(i - 1)]
    <3>1. tail \in Int /\ tail + i - 1 = tail + (i - 1)
      BY <1>0 DEF TypeOK, Positions
    <3>2. QED
      BY <3>1 DEF Queued, Place, At
  <2>2. i - 1 \in 0 .. count - 1
    BY <1>0
  <2>3. ring[Place(i - 1)].id = accepted - count + 1 + (i - 1)
    BY <1>0, <2>2 DEF Turns
  <2>4. QED
    BY <1>0, <2>1, <2>2, <2>3
<1>4. Len(printed) + Held + count = accepted /\ Held \in Nat
  BY <1>0 DEF Turns, Held
<1>5. /\ ids \in Seq(Nat) /\ Len(ids) = count
      /\ \A i \in 1 .. count : ids[i] = Len(printed) + Len(InHand) + i
  <2>1. \A i \in 1 .. count : Queued[i].id = Len(printed) + Held + i
    BY <1>0, <1>3, <1>4
  <2>2. ids = [i \in 1 .. count |-> ids[i]] /\ \A i \in 1 .. count : ids[i] = Queued[i].id
    OBVIOUS
  <2> HIDE DEF ids
  <2>3. \A i \in 1 .. count : ids[i] = Len(printed) + Held + i
    BY <2>1, <2>2
  <2>4. \A i \in 1 .. count : ids[i] \in Nat
    BY <1>0, <1>4, <2>3
  <2>5. ids \in Seq(Nat) /\ Len(ids) = count
    <3>1. count \in Nat
      BY <1>0
    <3>2. ids \in [1 .. count -> Nat]
      BY <2>2, <2>4
    <3>3. ids \in Seq(Nat)
      BY <3>1, <3>2, SeqDef
    <3>4. DOMAIN ids = 1 .. count
      BY <3>2
    <3>5. DOMAIN ids = 1 .. Len(ids) /\ Len(ids) \in Nat
      BY <3>3, LenProperties
    <3>6. QED
      BY <3>1, <3>3, <3>4, <3>5
  <2>6. QED
    BY <1>1, <2>3, <2>5
<1> HIDE DEF ids
<1>6. printed \o InHand \o ids = [i \in 1 .. Len(printed) + Len(InHand) + Len(ids) |-> i]
  BY <1>0, <1>1, <1>2, <1>5, Counting DEF Turns
<1>7. Len(printed) + Len(InHand) + Len(ids) = accepted
  BY <1>1, <1>4, <1>5
<1>8. QED
  BY <1>0, <1>6, <1>7 DEF InOrder, ids

\* No message is lost, doubled or overtaken.
THEOREM OrderKept == Spec => []InOrder
BY Invariance, TurnsInOrder, PTL

\* Each drop is reported once.
THEOREM DropsCounted == Spec => []DropsReported
BY Invariance, PTL DEF IInv

\* When Shutdown returns, what had been logged before is printed.
THEOREM FlushComplete == Spec => []FlushedAtShutdown
<1>1. IInv => FlushedAtShutdown
  BY DEF IInv, Flushed, FlushedAtShutdown
<1>2. QED
  BY <1>1, Invariance, PTL
================================================================================
