---------------------------- MODULE BoundedQueueProofs ----------------------------
(***************************************************************************)
(* Proofs about BoundedQueue for any number of threads of each kind and any *)
(* capacity.                                                                *)
(*                                                                          *)
(* The four invariants are inductive together.  The counting argument: a    *)
(* step that adds an item also makes a sleeping popper runnable, a step     *)
(* that takes a runnable popper away either takes an item or finds the      *)
(* queue empty; and the same for pushers and free places, except that a     *)
(* pusher also gives up when the queue is stopped, where                    *)
(* StopWakesEverybody says that nobody is left asleep.                      *)
(***************************************************************************)
EXTENDS BoundedQueue, FiniteSetTheorems, TLAPS

Where == {"out", "ready", "asleep", "expired"}

--------------------------------------------------------------------------------

\* Every set of threads is finite, so it can be counted.
LEMMA ThreadsFinite ==
    \A S \in SUBSET Threads : IsFiniteSet(S) /\ Cardinality(S) \in Nat
<1>1. IsFiniteSet(Threads)
  BY ThreadsAssumption, FS_Union DEF Threads, Takers
<1>2. QED
  BY <1>1, FS_Subset, FS_CardinalityType

\* A set of threads that gains one and loses none counts one more.
LEMMA OneMore ==
    ASSUME NEW R \in SUBSET Threads, NEW S \in SUBSET Threads,
           NEW u \in S, u \notin R, R \subseteq S
    PROVE  Cardinality(R) + 1 <= Cardinality(S)
<1>1. IsFiniteSet(R) /\ IsFiniteSet(S)
  BY ThreadsFinite
<1>2. Cardinality(R \union {u}) = Cardinality(R) + 1
  BY <1>1, FS_AddElement
<1>3. Cardinality(R \union {u}) <= Cardinality(S)
  BY <1>1, FS_Subset
<1>4. QED
  BY <1>2, <1>3

\* A set of threads that loses at most one counts at most one less.
LEMMA OneLess ==
    ASSUME NEW R \in SUBSET Threads, NEW S \in SUBSET Threads,
           NEW u \in R, R \ {u} \subseteq S
    PROVE  Cardinality(R) - 1 <= Cardinality(S)
<1>1. IsFiniteSet(R) /\ IsFiniteSet(S)
  BY ThreadsFinite
<1>2. Cardinality(R \ {u}) = Cardinality(R) - 1
  BY <1>1, FS_RemoveElement
<1>3. Cardinality(R \ {u}) <= Cardinality(S)
  BY <1>1, FS_Subset
<1>4. QED
  BY <1>2, <1>3

\* A set of threads that loses none counts no less.
LEMMA NoLess ==
    ASSUME NEW R \in SUBSET Threads, NEW S \in SUBSET Threads, R \subseteq S
    PROVE  Cardinality(R) <= Cardinality(S)
BY ThreadsFinite, FS_Subset

\* What notify_one leaves behind: threads become what the caller said, except
\* that one sleeper of S, if there is one, is ready.
LEMMA Notified ==
    ASSUME NEW S \in SUBSET Threads, NEW f \in [Threads -> Where], NotifyOne(S, f)
    PROVE  /\ pc' \in [Threads -> Where]
           /\ \A t \in Threads : t \notin Sleepers(S) => pc'[t] = f[t]
           /\ \A t \in Sleepers(S) : pc'[t] \in {f[t], "ready"}
           /\ Sleepers(S) # {} => \E u \in Sleepers(S) : pc'[u] = "ready"
BY DEF NotifyOne, Sleepers, Where

--------------------------------------------------------------------------------

\* Every reachable state is well typed: no more than max_ items are ever
\* queued, and only pop_for can time out.
LEMMA TypeStep == TypeOK /\ [Next]_vars => TypeOK'
<1> SUFFICES ASSUME TypeOK, [Next]_vars PROVE TypeOK'
  OBVIOUS
<1> USE DEF TypeOK
<1>0. /\ Pushers \subseteq Threads /\ Takers \subseteq Threads
      /\ pc \in [Threads -> Where]
      /\ \A t \in Threads : Returned(t) \in [Threads -> Where]
  BY DEF Threads, Takers, Where, Returned
<1>1. ASSUME NEW t \in Pushers, Push(t) PROVE TypeOK'
  <2>1. q' \in Seq(Items) /\ Len(q') <= Max
    BY <1>1, MaxAssumption DEF Push
  <2>2. NotifyOne(Takers, Returned(t)) /\ Returned(t) \in [Threads -> Where]
    BY <1>0, <1>1 DEF Push
  <2>3. \A u \in Threads : Returned(t)[u] = "expired" => pc[u] = "expired"
    BY <1>0, <1>1 DEF Returned
  <2>4. /\ pc' \in [Threads -> Where]
        /\ \A u \in Threads : pc'[u] \in {Returned(t)[u], "ready"}
    BY <1>0, <2>2, Notified DEF Sleepers
  <2>5. QED
    BY <1>1, <2>1, <2>3, <2>4 DEF Push, Where
<1>2. ASSUME TryPush PROVE TypeOK'
  <2>1. q' \in Seq(Items) /\ Len(q') <= Max
    BY <1>2, MaxAssumption DEF TryPush
  <2>2. /\ pc' \in [Threads -> Where]
        /\ \A u \in Threads : pc'[u] \in {pc[u], "ready"}
    BY <1>0, <1>2, Notified DEF TryPush, Sleepers
  <2>3. QED
    BY <1>2, <2>1, <2>2 DEF TryPush, Where
<1>3. ASSUME NEW t \in Takers, Pop(t) PROVE TypeOK'
  <2>1. q' \in Seq(Items) /\ Len(q') <= Max
    BY <1>3, MaxAssumption DEF Pop
  <2>2. NotifyOne(Pushers, Returned(t)) /\ Returned(t) \in [Threads -> Where]
    BY <1>0, <1>3 DEF Pop
  <2>3. \A u \in Threads : Returned(t)[u] = "expired" => pc[u] = "expired"
    BY <1>0, <1>3 DEF Returned
  <2>4. /\ pc' \in [Threads -> Where]
        /\ \A u \in Threads : pc'[u] \in {Returned(t)[u], "ready"}
    BY <1>0, <2>2, Notified DEF Sleepers
  <2>5. QED
    BY <1>3, <2>1, <2>3, <2>4 DEF Pop, Where
<1>4. ASSUME NEW t \in Threads, Call(t) \/ GiveUp(t) \/ Sleep(t) \/ SpuriousWakeup(t)
      PROVE TypeOK'
  BY <1>4 DEF Call, GiveUp, Sleep, SpuriousWakeup, Returned
<1>5. ASSUME NEW t \in TimedPoppers, Expire(t) \/ Timeout(t) PROVE TypeOK'
  BY <1>5 DEF Expire, Timeout, Returned
<1>6. ASSUME Stop PROVE TypeOK'
  BY <1>6 DEF Stop, NotifyAll
<1>7. CASE UNCHANGED vars
  BY <1>7 DEF vars
<1>8. QED
  BY <1>1, <1>2, <1>3, <1>4, <1>5, <1>6, <1>7 DEF Next

\* A step that puts an item in wakes a popper, if one sleeps.
LEMMA ItemWakes ==
    ASSUME TypeOK, NoLostItem, NEW f \in [Threads -> Where],
           \A t \in Takers : f[t] = pc[t],
           NotifyOne(Takers, f), Len(q') = Len(q) + 1
    PROVE  NoLostItem'
<1>0. Takers \subseteq Threads /\ pc \in [Threads -> Where] /\ Len(q) \in Nat
  BY DEF Threads, TypeOK, Where
<1>1. /\ \A t \in Threads : t \notin Sleepers(Takers) => pc'[t] = f[t]
      /\ \A t \in Sleepers(Takers) : pc'[t] \in {f[t], "ready"}
      /\ Sleepers(Takers) # {} => \E u \in Sleepers(Takers) : pc'[u] = "ready"
  BY <1>0, Notified
<1>2. SUFFICES ASSUME Sleepers(Takers)' # {}
               PROVE  Len(q) + 1 <= Cardinality(Runnable(Takers)')
  BY DEF NoLostItem
<1>3. PICK u \in Sleepers(Takers) : pc'[u] = "ready"
  BY <1>0, <1>1, <1>2 DEF Sleepers
<1>4. /\ Runnable(Takers) \in SUBSET Threads
      /\ Runnable(Takers)' \in SUBSET Threads
      /\ u \in Runnable(Takers)' /\ u \notin Runnable(Takers)
      /\ Runnable(Takers) \subseteq Runnable(Takers)'
  BY <1>0, <1>1, <1>3 DEF Runnable, Sleepers
<1>5. Cardinality(Runnable(Takers)) + 1 <= Cardinality(Runnable(Takers)')
  BY <1>4, OneMore
<1>6. Len(q) <= Cardinality(Runnable(Takers))
  BY <1>3 DEF NoLostItem
<1>7. Cardinality(Runnable(Takers)) \in Nat /\ Cardinality(Runnable(Takers)') \in Nat
  BY <1>4, ThreadsFinite
<1>8. QED
  BY <1>0, <1>5, <1>6, <1>7

\* The step of a pop makes room and wakes a pusher, if one sleeps.
LEMMA RoomWakes ==
    ASSUME TypeOK, NoLostRoom, NEW f \in [Threads -> Where],
           \A t \in Pushers : f[t] = pc[t],
           NotifyOne(Pushers, f), q # <<>>, q' = Tail(q)
    PROVE  NoLostRoom'
<1>0. /\ Pushers \subseteq Threads /\ pc \in [Threads -> Where]
      /\ Len(q) \in Nat /\ Len(q') = Len(q) - 1 /\ Max \in Nat
  BY MaxAssumption DEF Threads, TypeOK, Where
<1>1. /\ \A t \in Threads : t \notin Sleepers(Pushers) => pc'[t] = f[t]
      /\ \A t \in Sleepers(Pushers) : pc'[t] \in {f[t], "ready"}
      /\ Sleepers(Pushers) # {} => \E u \in Sleepers(Pushers) : pc'[u] = "ready"
  BY <1>0, Notified
<1>2. SUFFICES ASSUME Sleepers(Pushers)' # {}
               PROVE  Max - (Len(q) - 1) <= Cardinality(Runnable(Pushers)')
  BY <1>0 DEF NoLostRoom
<1>3. PICK u \in Sleepers(Pushers) : pc'[u] = "ready"
  BY <1>0, <1>1, <1>2 DEF Sleepers
<1>4. /\ Runnable(Pushers) \in SUBSET Threads
      /\ Runnable(Pushers)' \in SUBSET Threads
      /\ u \in Runnable(Pushers)' /\ u \notin Runnable(Pushers)
      /\ Runnable(Pushers) \subseteq Runnable(Pushers)'
  BY <1>0, <1>1, <1>3 DEF Runnable, Sleepers
<1>5. Cardinality(Runnable(Pushers)) + 1 <= Cardinality(Runnable(Pushers)')
  BY <1>4, OneMore
<1>6. Max - Len(q) <= Cardinality(Runnable(Pushers))
  BY <1>3 DEF NoLostRoom
<1>7. Cardinality(Runnable(Pushers)) \in Nat /\ Cardinality(Runnable(Pushers)') \in Nat
  BY <1>4, ThreadsFinite
<1>8. QED
  BY <1>0, <1>5, <1>6, <1>7

\* No popper is left asleep beside an item nobody is coming for.
LEMMA ItemStep == Inv /\ [Next]_vars => NoLostItem'
<1> SUFFICES ASSUME Inv, [Next]_vars PROVE NoLostItem'
  OBVIOUS
<1>0. /\ TypeOK /\ NoLostItem /\ TypeOK'
      /\ Pushers \subseteq Threads /\ Takers \subseteq Threads
      /\ Pushers \intersect Takers = {}
      /\ pc \in [Threads -> Where] /\ pc' \in [Threads -> Where]
      /\ Len(q) \in Nat /\ Len(q') \in Nat
      /\ Runnable(Takers) \in SUBSET Threads /\ Runnable(Takers)' \in SUBSET Threads
      /\ Cardinality(Runnable(Takers)) \in Nat
      /\ Cardinality(Runnable(Takers)') \in Nat
  <2>1. TypeOK /\ NoLostItem /\ TypeOK'
    BY TypeStep DEF Inv
  <2>2. /\ Pushers \subseteq Threads /\ Takers \subseteq Threads
        /\ Pushers \intersect Takers = {}
    BY ThreadsAssumption DEF Threads, Takers
  <2>3. Runnable(Takers) \in SUBSET Threads /\ Runnable(Takers)' \in SUBSET Threads
    BY <2>2 DEF Runnable
  <2>4. Cardinality(Runnable(Takers)) \in Nat /\ Cardinality(Runnable(Takers)') \in Nat
    BY <2>3, ThreadsFinite
  <2>5. QED
    BY <2>1, <2>2, <2>3, <2>4 DEF TypeOK, Where
<1>1. ASSUME NEW t \in Pushers, Push(t) PROVE NoLostItem'
  <2>1. Returned(t) \in [Threads -> Where] /\ \A u \in Takers : Returned(t)[u] = pc[u]
    BY <1>0 DEF Returned, Where
  <2>2. NotifyOne(Takers, Returned(t)) /\ Len(q') = Len(q) + 1
    BY <1>0, <1>1 DEF Push, TypeOK
  <2>3. QED
    BY <1>0, <2>1, <2>2, ItemWakes
<1>2. ASSUME TryPush PROVE NoLostItem'
  <2>1. NotifyOne(Takers, pc) /\ Len(q') = Len(q) + 1
    BY <1>0, <1>2 DEF TryPush, TypeOK
  <2>2. QED
    BY <1>0, <2>1, ItemWakes
<1>3. ASSUME NEW t \in Takers, Pop(t) PROVE NoLostItem'
  <2>1. /\ Returned(t) \in [Threads -> Where]
        /\ NotifyOne(Pushers, Returned(t)) /\ Len(q') = Len(q) - 1
    BY <1>0, <1>3 DEF Pop, TypeOK, Returned, Where
  <2>2. \A u \in Takers : pc'[u] = Returned(t)[u]
    BY <1>0, <2>1, Notified DEF Sleepers
  <2>3. \A u \in Takers : pc'[u] = IF u = t THEN "out" ELSE pc[u]
    BY <1>0, <2>2 DEF Returned
  <2>4. t \in Runnable(Takers) /\ Runnable(Takers) \ {t} \subseteq Runnable(Takers)'
    BY <1>3, <2>3 DEF Runnable, Pop
  <2>5. Cardinality(Runnable(Takers)) - 1 <= Cardinality(Runnable(Takers)')
    BY <1>0, <2>4, OneLess
  <2>6. Sleepers(Takers)' # {} => Sleepers(Takers) # {}
    BY <2>3 DEF Sleepers
  <2>7. QED
    BY <1>0, <2>1, <2>5, <2>6 DEF NoLostItem
<1>4. ASSUME NEW t \in Threads, GiveUp(t) \/ Sleep(t) PROVE NoLostItem'
  <2>1. CASE t \in Takers
    BY <1>0, <1>4, <2>1 DEF NoLostItem, GiveUp, Sleep, HasItem
  <2>2. CASE t \in Pushers
    <3>1. \A u \in Takers : pc'[u] = pc[u]
      BY <1>0, <1>4, <2>2 DEF GiveUp, Sleep, Returned
    <3>2. Runnable(Takers)' = Runnable(Takers) /\ Sleepers(Takers)' = Sleepers(Takers)
      BY <3>1 DEF Runnable, Sleepers
    <3>3. QED
      BY <1>0, <1>4, <3>2 DEF NoLostItem, GiveUp, Sleep
  <2>3. QED
    BY <2>1, <2>2 DEF Threads
<1>5. ASSUME NEW t \in Threads, Call(t) \/ SpuriousWakeup(t) \/ Expire(t)
      PROVE NoLostItem'
  <2>1. /\ Runnable(Takers) \subseteq Runnable(Takers)'
        /\ Sleepers(Takers)' # {} => Sleepers(Takers) # {}
    BY <1>0, <1>5 DEF Runnable, Sleepers, Call, SpuriousWakeup, Expire
  <2>2. Cardinality(Runnable(Takers)) <= Cardinality(Runnable(Takers)')
    BY <1>0, <2>1, NoLess
  <2>3. QED
    BY <1>0, <1>5, <2>1, <2>2 DEF NoLostItem, Call, SpuriousWakeup, Expire
<1>6. ASSUME NEW t \in TimedPoppers, Timeout(t) PROVE NoLostItem'
  BY <1>0, <1>6 DEF NoLostItem, Timeout, HasItem
<1>7. ASSUME Stop PROVE NoLostItem'
  BY <1>0, <1>7 DEF NoLostItem, Stop, NotifyAll, Sleepers
<1>8. CASE UNCHANGED vars
  BY <1>0, <1>8 DEF NoLostItem, vars, Sleepers, Runnable
<1>9. QED
  BY <1>1, <1>2, <1>3, <1>4, <1>5, <1>6, <1>7, <1>8 DEF Next, Threads, Takers

\* No pusher is left asleep beside a free place nobody is coming for.
LEMMA RoomStep == Inv /\ [Next]_vars => NoLostRoom'
<1> SUFFICES ASSUME Inv, [Next]_vars PROVE NoLostRoom'
  OBVIOUS
<1>0. /\ TypeOK /\ NoLostRoom /\ TypeOK'
      /\ Pushers \subseteq Threads /\ Takers \subseteq Threads
      /\ Pushers \intersect Takers = {}
      /\ pc \in [Threads -> Where] /\ pc' \in [Threads -> Where]
      /\ Len(q) \in Nat /\ Len(q') \in Nat /\ Max \in Nat
      /\ Runnable(Pushers) \in SUBSET Threads /\ Runnable(Pushers)' \in SUBSET Threads
      /\ Cardinality(Runnable(Pushers)) \in Nat
      /\ Cardinality(Runnable(Pushers)') \in Nat
  <2>1. TypeOK /\ NoLostRoom /\ TypeOK'
    BY TypeStep DEF Inv
  <2>2. /\ Pushers \subseteq Threads /\ Takers \subseteq Threads
        /\ Pushers \intersect Takers = {}
    BY ThreadsAssumption DEF Threads, Takers
  <2>3. Runnable(Pushers) \in SUBSET Threads /\ Runnable(Pushers)' \in SUBSET Threads
    BY <2>2 DEF Runnable
  <2>4. Cardinality(Runnable(Pushers)) \in Nat /\ Cardinality(Runnable(Pushers)') \in Nat
    BY <2>3, ThreadsFinite
  <2>5. QED
    BY <2>1, <2>2, <2>3, <2>4, MaxAssumption DEF TypeOK, Where
<1>1. ASSUME NEW t \in Pushers, Push(t) PROVE NoLostRoom'
  <2>1. /\ Returned(t) \in [Threads -> Where]
        /\ NotifyOne(Takers, Returned(t)) /\ Len(q') = Len(q) + 1
    BY <1>0, <1>1 DEF Push, TypeOK, Returned, Where
  <2>2. \A u \in Pushers : pc'[u] = Returned(t)[u]
    BY <1>0, <2>1, Notified DEF Sleepers
  <2>3. \A u \in Pushers : pc'[u] = IF u = t THEN "out" ELSE pc[u]
    BY <1>0, <2>2 DEF Returned
  <2>4. t \in Runnable(Pushers) /\ Runnable(Pushers) \ {t} \subseteq Runnable(Pushers)'
    BY <1>1, <2>3 DEF Runnable, Push
  <2>5. Cardinality(Runnable(Pushers)) - 1 <= Cardinality(Runnable(Pushers)')
    BY <1>0, <2>4, OneLess
  <2>6. Sleepers(Pushers)' # {} => Sleepers(Pushers) # {}
    BY <2>3 DEF Sleepers
  <2>7. QED
    BY <1>0, <2>1, <2>5, <2>6 DEF NoLostRoom
<1>2. ASSUME TryPush PROVE NoLostRoom'
  <2>1. NotifyOne(Takers, pc) /\ Len(q') = Len(q) + 1
    BY <1>0, <1>2 DEF TryPush, TypeOK
  <2>2. \A u \in Pushers : pc'[u] = pc[u]
    BY <1>0, <2>1, Notified DEF Sleepers
  <2>3. Runnable(Pushers)' = Runnable(Pushers) /\ Sleepers(Pushers)' = Sleepers(Pushers)
    BY <2>2 DEF Runnable, Sleepers
  <2>4. QED
    BY <1>0, <2>1, <2>3 DEF NoLostRoom
<1>3. ASSUME NEW t \in Takers, Pop(t) PROVE NoLostRoom'
  <2>1. Returned(t) \in [Threads -> Where] /\ \A u \in Pushers : Returned(t)[u] = pc[u]
    BY <1>0 DEF Returned, Where
  <2>2. NotifyOne(Pushers, Returned(t)) /\ q # <<>> /\ q' = Tail(q)
    BY <1>3 DEF Pop
  <2>3. QED
    BY <1>0, <2>1, <2>2, RoomWakes
<1>4. ASSUME NEW t \in Takers,
             Call(t) \/ GiveUp(t) \/ Sleep(t) \/ SpuriousWakeup(t) \/ Expire(t) \/ Timeout(t)
      PROVE NoLostRoom'
  <2>1. \A u \in Pushers : pc'[u] = pc[u]
    BY <1>0, <1>4 DEF Call, GiveUp, Sleep, SpuriousWakeup, Expire, Timeout, Returned
  <2>2. Runnable(Pushers)' = Runnable(Pushers) /\ Sleepers(Pushers)' = Sleepers(Pushers)
    BY <2>1 DEF Runnable, Sleepers
  <2>3. QED
    BY <1>0, <1>4, <2>2
       DEF NoLostRoom, Call, GiveUp, Sleep, SpuriousWakeup, Expire, Timeout
<1>5. ASSUME NEW t \in Pushers, Call(t) \/ SpuriousWakeup(t) PROVE NoLostRoom'
  <2>1. /\ Runnable(Pushers) \subseteq Runnable(Pushers)'
        /\ Sleepers(Pushers)' # {} => Sleepers(Pushers) # {}
    BY <1>0, <1>5 DEF Runnable, Sleepers, Call, SpuriousWakeup
  <2>2. Cardinality(Runnable(Pushers)) <= Cardinality(Runnable(Pushers)')
    BY <1>0, <2>1, NoLess
  <2>3. QED
    BY <1>0, <1>5, <2>1, <2>2 DEF NoLostRoom, Call, SpuriousWakeup
<1>6. ASSUME NEW t \in Pushers, GiveUp(t) PROVE NoLostRoom'
  <2>1. Sleepers(Threads) = {}
    BY <1>6 DEF GiveUp, Inv, StopWakesEverybody
  <2>2. Sleepers(Pushers)' = {}
    BY <1>0, <1>6, <2>1 DEF GiveUp, Returned, Sleepers
  <2>3. QED
    BY <2>2 DEF NoLostRoom
<1>7. ASSUME NEW t \in Pushers, Sleep(t) PROVE NoLostRoom'
  BY <1>0, <1>7 DEF NoLostRoom, Sleep, HasRoom
<1>8. ASSUME Stop PROVE NoLostRoom'
  BY <1>0, <1>8 DEF NoLostRoom, Stop, NotifyAll, Sleepers
<1>9. CASE UNCHANGED vars
  BY <1>0, <1>9 DEF NoLostRoom, vars, Sleepers, Runnable
<1>10. QED
  BY <1>1, <1>2, <1>3, <1>4, <1>5, <1>6, <1>7, <1>8, <1>9 DEF Next, Threads, Takers

\* Once stopped, nobody is asleep and nobody falls asleep again.
LEMMA StopStep == Inv /\ [Next]_vars => StopWakesEverybody'
<1> SUFFICES ASSUME Inv, [Next]_vars, stopped' PROVE Sleepers(Threads)' = {}
  BY DEF StopWakesEverybody
<1>0. /\ Pushers \subseteq Threads /\ Takers \subseteq Threads
      /\ pc \in [Threads -> Where]
  BY DEF Inv, TypeOK, Threads, Where
<1>1. CASE Stop
  BY <1>0, <1>1 DEF Stop, NotifyAll, Sleepers
<1>2. CASE stopped /\ ~Stop
  <2>1. Sleepers(Threads) = {}
    BY <1>2 DEF Inv, StopWakesEverybody
  <2>2. ASSUME NEW t \in Takers, Pop(t) PROVE Sleepers(Threads)' = {}
    BY <1>0, <2>1, <2>2 DEF Pop, NotifyOne, Sleepers, Returned
  <2>3. ASSUME NEW t \in Threads, Call(t) \/ GiveUp(t) PROVE Sleepers(Threads)' = {}
    BY <1>0, <2>1, <2>3 DEF Call, GiveUp, Returned, Sleepers
  <2>4. ASSUME NEW t \in TimedPoppers, Timeout(t) PROVE Sleepers(Threads)' = {}
    BY <1>0, <2>1, <2>4 DEF Timeout, Returned, Sleepers
  <2>5. CASE UNCHANGED vars
    BY <2>1, <2>5 DEF vars, Sleepers
  <2>6. QED
    BY <1>2, <2>1, <2>2, <2>3, <2>4, <2>5
       DEF Next, Push, TryPush, Sleep, SpuriousWakeup, Expire, HasRoom, HasItem, Sleepers,
           Threads, Takers
<1>3. ASSUME ~stopped, ~Stop PROVE FALSE
  BY <1>3 DEF Next, vars, Call, GiveUp, Sleep, SpuriousWakeup, Push, TryPush, Pop, Expire, Timeout
<1>4. QED
  BY <1>1, <1>2, <1>3 DEF Inv, TypeOK

\* The four invariants hold in every state the queue can reach, whatever the
\* number of threads and the capacity.
THEOREM Invariance == Spec => []Inv
<1>1. Init => Inv
  <2>1. ASSUME Init PROVE TypeOK /\ Sleepers(Threads) = {}
    <3>1. q \in Seq(Items) /\ Len(q) <= Max
      BY <2>1, MaxAssumption DEF Init
    <3>2. /\ pc \in [Threads -> {"out", "ready", "asleep", "expired"}]
          /\ \A t \in Threads : pc[t] = "out"
      BY <2>1 DEF Init
    <3>3. QED
      BY <2>1, <3>1, <3>2 DEF Init, TypeOK, Sleepers
  <2>2. ASSUME Init PROVE Sleepers(Pushers) = {} /\ Sleepers(Takers) = {}
    BY <2>1, <2>2 DEF Sleepers, Threads
  <2>3. QED
    BY <2>1, <2>2 DEF Inv, NoLostItem, NoLostRoom, StopWakesEverybody
<1>2. Inv /\ [Next]_vars => Inv'
  BY TypeStep, ItemStep, RoomStep, StopStep DEF Inv
<1>3. QED
  BY <1>1, <1>2, PTL DEF Spec, SafeSpec

\* Type correctness.
THEOREM TypeCorrect == Spec => []TypeOK
BY Invariance, PTL DEF Inv

\* The absence of lost wake-ups, for both condition variables and for stop().
THEOREM NoLostWakeup == Spec => [](NoLostItem /\ NoLostRoom /\ StopWakesEverybody)
BY Invariance, PTL DEF Inv

--------------------------------------------------------------------------------

\* What a return and a wake-up mean to somebody who only sees who is inside.
LEMMA InsideAfterNotify ==
    ASSUME TypeOK, NEW S \in SUBSET Threads, NEW f \in [Threads -> Where], NotifyOne(S, f),
           \A t \in Threads : t \in Sleepers(S) => f[t] # "out"
    PROVE  \A t \in Threads : pc'[t] # "out" <=> f[t] # "out"
BY Notified

\* Every step of the queue is a step of the atomic queue, or invisible there.
LEMMA Simulation == TypeOK /\ [Next]_vars => [A!Next]_(A!vars)
<1> SUFFICES ASSUME TypeOK, [Next]_vars PROVE A!Next \/ UNCHANGED A!vars
  BY DEF A!vars
<1> DEFINE in == {t \in Threads : pc[t] # "out"}
<1>0. /\ Pushers \subseteq Threads /\ Takers \subseteq Threads /\ Takers = A!Takers
      /\ Threads = Pushers \union A!Takers /\ TimedPoppers \subseteq Takers
      /\ Pushers \intersect Takers = {}
      /\ pc \in [Threads -> Where]
      /\ \A t \in Threads : Returned(t) \in [Threads -> Where]
      /\ \A t \in Threads : {u \in Threads : Returned(t)[u] # "out"} = in \ {t}
  BY ThreadsAssumption DEF TypeOK, Threads, Takers, A!Takers, Where, Returned
<1>1. ASSUME NEW t \in Pushers, Push(t) PROVE A!Push(t)
  <2>1. \A u \in Threads : u \in Sleepers(Takers) => Returned(t)[u] # "out"
    BY <1>0, <1>1 DEF Sleepers, Returned
  <2>2. in' = in \ {t}
    <3>1. \A u \in Threads : pc'[u] # "out" <=> Returned(t)[u] # "out"
      BY <1>0, <1>1, <2>1, InsideAfterNotify DEF Push
    <3>2. QED
      BY <1>0, <1>1, <3>1 DEF Returned
  <2>3. t \in in
    BY <1>0, <1>1 DEF Push
  <2>4. QED
    BY <1>1, <2>2, <2>3 DEF Push, A!Push, A!Return
<1>2. ASSUME TryPush PROVE A!TryPush
  <2>1. in' = in
    <3>1. \A u \in Threads : pc'[u] # "out" <=> pc[u] # "out"
      BY <1>0, <1>2, InsideAfterNotify DEF TryPush, Sleepers
    <3>2. QED
      BY <3>1
  <2>2. QED
    BY <1>2, <2>1 DEF TryPush, A!TryPush
<1>3. ASSUME NEW t \in Takers, Pop(t) PROVE A!Pop(t)
  <2>1. \A u \in Threads : u \in Sleepers(Pushers) => Returned(t)[u] # "out"
    BY <1>0, <1>3 DEF Sleepers, Returned
  <2>2. in' = in \ {t}
    <3>1. \A u \in Threads : pc'[u] # "out" <=> Returned(t)[u] # "out"
      BY <1>0, <1>3, <2>1, InsideAfterNotify DEF Pop
    <3>2. QED
      BY <1>0, <1>3, <3>1 DEF Returned
  <2>3. t \in in
    BY <1>0, <1>3 DEF Pop
  <2>4. QED
    BY <1>3, <2>2, <2>3 DEF Pop, A!Pop, A!Return
<1>4. ASSUME NEW t \in Threads, Call(t) PROVE A!Call(t)
  <2>1. t \notin in /\ in' = in \union {t}
    BY <1>0, <1>4 DEF Call
  <2>2. QED
    BY <1>4, <2>1 DEF Call, A!Call
<1>5. ASSUME NEW t \in Threads, GiveUp(t) PROVE A!GiveUp(t)
  <2>1. t \in in /\ in' = in \ {t}
    BY <1>0, <1>5 DEF GiveUp
  <2>2. QED
    BY <1>0, <1>5, <2>1 DEF GiveUp, A!GiveUp, A!Return
<1>6. ASSUME NEW t \in TimedPoppers, Timeout(t) PROVE A!Timeout(t)
  <2>1. t \in in /\ in' = in \ {t}
    BY <1>0, <1>6 DEF Timeout
  <2>2. QED
    BY <1>6, <2>1 DEF Timeout, HasItem, A!Timeout, A!Return, TypeOK
<1>7. ASSUME NEW t \in Threads, Sleep(t) \/ SpuriousWakeup(t) \/ Expire(t)
      PROVE UNCHANGED A!vars
  <2>1. in' = in
    BY <1>0, <1>7 DEF Sleep, SpuriousWakeup, Expire
  <2>2. QED
    BY <1>7, <2>1 DEF Sleep, SpuriousWakeup, Expire, A!vars
<1>8. ASSUME Stop PROVE A!Stop
  <2>1. in' = in
    BY <1>0, <1>8 DEF Stop, NotifyAll
  <2>2. QED
    BY <1>8, <2>1 DEF Stop, A!Stop
<1>9. ASSUME UNCHANGED vars PROVE UNCHANGED A!vars
  BY <1>9 DEF vars, A!vars
<1> HIDE DEF in
<1>10. QED
  BY <1>0, <1>1, <1>2, <1>3, <1>4, <1>5, <1>6, <1>7, <1>8, <1>9 DEF Next, A!Next

\* The safety half of ImplementsAtomicQueue: with its mutex, wait sets, spurious
\* wake-ups and timeouts, the queue does nothing the atomic queue does not do.
THEOREM SafeImplementation == Spec => A!SafeSpec
<1>1. Init => A!Init
  <2>1. ASSUME Init PROVE {t \in Threads : pc[t] # "out"} = {}
    BY <2>1 DEF Init
  <2>2. QED
    BY <2>1 DEF Init, A!Init
<1>2. QED
  BY <1>1, TypeCorrect, Simulation, PTL DEF Spec, SafeSpec, A!SafeSpec
================================================================================
