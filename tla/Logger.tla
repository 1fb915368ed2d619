--------------------------------- MODULE Logger ---------------------------------
(***************************************************************************)
(* AsyncLogger: a bounded ring that any thread writes to and one consumer   *)
(* thread prints, woken by its flush interval or by a notify.               *)
(*                                                                          *)
(* A message is the number of its turn among those the ring accepted; its   *)
(* text is left out.  Start and Shutdown are called by the main thread,     *)
(* once each, while other threads log at any time.                          *)
(***************************************************************************)
EXTENDS Integers, Sequences

CONSTANTS Producers,        \* threads that log
          kQueueCapacity, kNotifyThreshold,
          None,
          MaxMessages       \* bound: calls of Enqueue

ASSUME LoggerAssumption ==
    /\ kQueueCapacity \in Nat \ {0}
    /\ kNotifyThreshold \in 1 .. kQueueCapacity
    /\ MaxMessages \in Nat
    /\ None \notin Nat

VARIABLES
    ring, head, tail, count,  \* the slots, under mutex_
    running, dropped,         \* the atomics
    producer,                 \* "idle", or about to call notify_one
    consumer, main,           \* where these threads are
    hand,                     \* the message a drainer has taken and not printed
    accepted, refused, reported,
    printed,                  \* what was printed, in order
    promised                  \* messages accepted when Shutdown was called

slots == <<ring, head, tail, count>>
drainers == <<consumer, main, hand, printed, reported>>
tally == <<accepted, refused, promised>>
vars == <<slots, running, dropped, producer, drainers, tally>>

Positions == 0 .. kQueueCapacity - 1
Levels == {"Info", "Error"}
Drainers == {"consumer", "main"}

Init ==
    /\ ring = [i \in Positions |-> [id |-> None, level |-> "Info"]]
    /\ head = 0 /\ tail = 0 /\ count = 0
    /\ running = FALSE /\ dropped = 0
    /\ producer = [t \in Producers |-> "idle"]
    /\ consumer = "none" /\ main = "before"
    /\ hand = [d \in Drainers |-> None]
    /\ accepted = 0 /\ refused = 0 /\ reported = 0
    /\ printed = <<>>
    /\ promised = 0

--------------------------------------------------------------------------------
\* Enqueue: one critical section, then perhaps a notify outside of it.  A
\* consumer that dozes has found nothing to do and still owns mutex_.

Full == count = kQueueCapacity

Enqueue(t, level) ==
    /\ producer[t] = "idle"
    /\ consumer # "doze"
    /\ accepted + refused < MaxMessages
    /\ IF Full
       THEN /\ dropped' = dropped + 1
            /\ refused' = refused + 1
            /\ UNCHANGED <<slots, accepted, producer>>
       ELSE /\ accepted' = accepted + 1
            /\ ring' = [ring EXCEPT ![head] = [id |-> accepted + 1, level |-> level]]
            /\ head' = (head + 1) % kQueueCapacity
            /\ count' = count + 1
            /\ producer' = IF count + 1 >= kNotifyThreshold \/ level = "Error"
                           THEN [producer EXCEPT ![t] = "notify"] ELSE producer
            /\ UNCHANGED <<tail, dropped, refused>>
    /\ UNCHANGED <<running, drainers, promised>>

\* notify_one reaches the consumer only while it sleeps.
WakeConsumer == consumer' = IF consumer = "asleep" THEN "wait" ELSE consumer

Notify(t) ==
    /\ producer[t] = "notify"
    /\ producer' = [producer EXCEPT ![t] = "idle"]
    /\ WakeConsumer
    /\ UNCHANGED <<slots, running, dropped, main, hand, printed, reported, tally>>

--------------------------------------------------------------------------------
\* DrainQueue, called by the consumer and, after the join, by Shutdown.

DrainTake(d) ==
    /\ hand[d] = None
    /\ count > 0
    /\ hand' = [hand EXCEPT ![d] = ring[tail].id]
    /\ tail' = (tail + 1) % kQueueCapacity
    /\ count' = count - 1
    /\ UNCHANGED <<ring, head, running, dropped, producer, consumer, main, printed, reported, tally>>

DrainPrint(d) ==
    /\ hand[d] # None
    /\ printed' = Append(printed, hand[d])
    /\ hand' = [hand EXCEPT ![d] = None]
    /\ UNCHANGED <<slots, running, dropped, producer, consumer, main, reported, tally>>

\* The variant reports the counter and does not reset it.
ReportAndKeep ==
    /\ reported' = reported + dropped
    /\ dropped' = dropped

\* dropped_.exchange(0)
ReportDrops ==
    /\ reported' = reported + dropped
    /\ dropped' = 0

\* count_ is 0: break out of the loop.
DrainedAll(d) ==
    /\ hand[d] = None
    /\ count = 0
    /\ UNCHANGED <<slots, running, dropped, producer, hand, printed, reported, tally>>

DrainDone ==
    /\ ReportDrops
    /\ UNCHANGED <<slots, running, producer, hand, printed, tally>>

--------------------------------------------------------------------------------
\* ConsumerLoop

ConsumerGoto(there) ==
    /\ consumer' = there
    /\ UNCHANGED <<slots, running, dropped, producer, main, hand, printed, reported, tally>>

ConsumerTop ==
    /\ consumer = "top"
    /\ ConsumerGoto(IF running THEN "wait" ELSE "exited")

\* The predicate of wait_for, under mutex_.
ConsumerWait ==
    /\ consumer = "wait"
    /\ ConsumerGoto(IF count >= kNotifyThreshold \/ ~running THEN "drain" ELSE "doze")

\* The wait releases mutex_.  Shutdown takes no mutex, and its notify, if it came
\* since the predicate was evaluated, has reached nobody.
ConsumerSleep ==
    /\ consumer = "doze"
    /\ ConsumerGoto("asleep")

\* The variant waits for a notify for ever.
ConsumerWaitsForEver ==
    /\ consumer = "asleep"
    /\ count >= kNotifyThreshold
    /\ ConsumerGoto("drain")

\* kFlushIntervalMs have passed.
ConsumerTimeout ==
    /\ consumer = "asleep"
    /\ ConsumerGoto("drain")

SpuriousWakeup ==
    /\ consumer = "asleep"
    /\ ConsumerGoto("wait")

ConsumerDrain ==
    /\ consumer = "drain"
    /\ \/ DrainTake("consumer")
       \/ DrainPrint("consumer")
       \/ DrainedAll("consumer") /\ consumer' = "report" /\ main' = main

ConsumerReport ==
    /\ consumer = "report"
    /\ DrainDone
    /\ consumer' = "top" /\ main' = main

Consumer ==
    \/ ConsumerTop \/ ConsumerWait \/ ConsumerSleep \/ ConsumerTimeout
    \/ ConsumerDrain \/ ConsumerReport

--------------------------------------------------------------------------------
\* Start and Shutdown, on the main thread.

Start ==
    /\ main = "before"
    /\ running' = TRUE
    /\ consumer' = "top"
    /\ main' = "started"
    /\ UNCHANGED <<slots, dropped, producer, hand, printed, reported, tally>>

BeginShutdown ==
    /\ main = "started"
    /\ running' = FALSE
    /\ promised' = accepted
    /\ main' = "notify"
    /\ UNCHANGED <<slots, dropped, producer, consumer, hand, printed, reported, accepted, refused>>

NotifyShutdown ==
    /\ main = "notify"
    /\ main' = "join"
    /\ WakeConsumer
    /\ UNCHANGED <<slots, running, dropped, producer, hand, printed, reported, tally>>

\* The variant drains while the consumer may still be draining.
DrainWithoutJoin ==
    /\ main = "join"
    /\ main' = "drain"
    /\ UNCHANGED <<slots, running, dropped, producer, consumer, hand, printed, reported, tally>>

\* The variant returns when the consumer is gone.
JoinAndReturn ==
    /\ main = "join"
    /\ consumer = "exited"
    /\ main' = "returned"
    /\ UNCHANGED <<slots, running, dropped, producer, consumer, hand, printed, reported, tally>>

Join ==
    /\ main = "join"
    /\ consumer = "exited"
    /\ main' = "drain"
    /\ UNCHANGED <<slots, running, dropped, producer, consumer, hand, printed, reported, tally>>

FinalDrain ==
    /\ main = "drain"
    /\ \/ DrainTake("main")
       \/ DrainPrint("main")
       \/ DrainedAll("main") /\ main' = "report" /\ consumer' = consumer

FinalReport ==
    /\ main = "report"
    /\ DrainDone
    /\ main' = "returned" /\ consumer' = consumer

Shutdown == NotifyShutdown \/ Join \/ FinalDrain \/ FinalReport

--------------------------------------------------------------------------------

Next ==
    \/ \E t \in Producers : (\E level \in Levels : Enqueue(t, level)) \/ Notify(t)
    \/ Consumer \/ SpuriousWakeup
    \/ Start \/ BeginShutdown \/ Shutdown

\* The threads run and the interval passes; nobody is obliged to log, nor the
\* main thread to call Start or Shutdown.
Fairness ==
    /\ WF_vars(Consumer)
    /\ WF_vars(Shutdown)
    /\ \A t \in Producers : WF_vars(Notify(t))

Spec == Init /\ [][Next]_vars /\ Fairness

--------------------------------------------------------------------------------

TypeOK ==
    /\ ring \in [Positions -> [id : 1 .. MaxMessages \union {None}, level : Levels]]
    /\ head \in Positions /\ tail \in Positions /\ count \in 0 .. kQueueCapacity
    /\ running \in BOOLEAN /\ dropped \in Nat
    /\ producer \in [Producers -> {"idle", "notify"}]
    /\ consumer \in {"none", "top", "wait", "doze", "asleep", "drain", "report", "exited"}
    /\ main \in {"before", "started", "notify", "join", "drain", "report", "returned"}
    /\ hand \in [Drainers -> 1 .. MaxMessages \union {None}]
    /\ {accepted, refused, reported, promised} \subseteq Nat
    /\ printed \in Seq(1 .. MaxMessages)

\* The queued messages, oldest first.
Queued == [i \in 1 .. count |-> ring[(tail + i - 1) % kQueueCapacity]]

InHand == LET taken(d) == IF hand[d] = None THEN <<>> ELSE <<hand[d]>>
          IN  taken("consumer") \o taken("main")

\* No message is lost, doubled or overtaken between Enqueue and the console,
\* although the consumer prints without the lock and Shutdown drains as well,
\* and the ring's counters stay in range.
InOrder ==
    /\ TypeOK
    /\ printed \o InHand \o [i \in 1 .. count |-> Queued[i].id] = [i \in 1 .. accepted |-> i]

\* "the message is DROPPED (and counted)": each drop is reported once.
DropsReported == refused = dropped + reported

\* "Final drain": when Shutdown returns, all that was logged before it was
\* called has been printed.
FlushedAtShutdown == main = "returned" => Len(printed) >= promised

\* Shutdown returns although its notify is sent without the lock and may come
\* before the consumer sleeps.
ShutdownReturns == (main = "notify") ~> (main = "returned")
================================================================================
