---------------------------- MODULE BufferPoolProofs ----------------------------
(***************************************************************************)
(* Proofs about BufferPool for any number of threads, buffers and faults.   *)
(*                                                                          *)
(* What has to be added to the invariants is Stages, the account of who has *)
(* a buffer at each point of submitBatch: the callback's context exists     *)
(* from "new" to the callback, the batch cannot let go between the copy and *)
(* the launch, and a copy still to be done is one of a batch or a context.  *)
(* NoReuseUnderCopy follows from it.  The wake-ups are counted as in        *)
(* BoundedQueueProofs.                                                      *)
(***************************************************************************)
EXTENDS BufferPool, FiniteSetTheorems, SequenceTheorems, TLAPS

Where == {"out", "ready", "asleep"}

\* Who holds a buffer at each stage.
Stages ==
    \A b \in Buffers :
        /\ "context" \in refs[b] <=> stage[b] \in {"context", "launched", "leaked"}
        /\ stage[b] \in {"copy", "context"} => "batch" \in refs[b]
        /\ b \in copying => stage[b] \in {"copy", "context", "launched", "leaked"}

\* After stop() nobody is asleep.
StopWakesAll == stopped => Sleepers = {}

IInv == OneOwner /\ NoLostWakeup /\ StopWakesAll /\ Stages

--------------------------------------------------------------------------------

\* Every set of threads is finite, so it can be counted; a subset counts no more.
LEMMA ThreadsFinite ==
    /\ \A S \in SUBSET Threads : IsFiniteSet(S) /\ Cardinality(S) \in Nat
    /\ \A S \in SUBSET Threads : \A R \in SUBSET S : Cardinality(R) <= Cardinality(S)
BY PoolAssumption, FS_Subset, FS_CardinalityType

\* A set of threads that gains one and loses none counts one more.
LEMMA OneMore ==
    ASSUME NEW R \in SUBSET Threads, NEW S \in SUBSET Threads,
           NEW u \in S, u \notin R, R \subseteq S
    PROVE  Cardinality(R) + 1 <= Cardinality(S)
<1>1. IsFiniteSet(R) /\ R \union {u} \in SUBSET S
  BY ThreadsFinite
<1>2. Cardinality(R \union {u}) = Cardinality(R) + 1
  BY <1>1, FS_AddElement
<1>3. QED
  BY <1>1, <1>2, ThreadsFinite

\* A set of threads that loses at most one counts at most one less.
LEMMA OneLess ==
    ASSUME NEW R \in SUBSET Threads, NEW S \in SUBSET Threads,
           NEW u \in R, R \ {u} \subseteq S
    PROVE  Cardinality(R) - 1 <= Cardinality(S)
<1>1. IsFiniteSet(R) /\ R \ {u} \in SUBSET S
  BY ThreadsFinite
<1>2. Cardinality(R \ {u}) = Cardinality(R) - 1
  BY <1>1, FS_RemoveElement
<1>3. QED
  BY <1>1, <1>2, ThreadsFinite

\* A stack without duplicates is no longer than there are buffers.
LEMMA DistinctFit ==
    ASSUME NEW s \in Seq(Buffers), \A i, j \in DOMAIN s : s[i] = s[j] => i = j
    PROVE  Len(s) <= Cardinality(Buffers)
<1>1. /\ Len(s) \in Nat /\ DOMAIN s = 1 .. Len(s)
      /\ s \in Injection(1 .. Len(s), Buffers)
  BY DEF Injection, IsInjective
<1>2. Cardinality(1 .. Len(s)) <= Cardinality(Buffers)
  BY <1>1, PoolAssumption, FS_Injection
<1>3. Cardinality(1 .. Len(s)) = Len(s)
  BY <1>1, FS_Interval
<1>4. QED
  BY <1>2, <1>3

--------------------------------------------------------------------------------

\* What notify_one leaves behind: at most sleepers became ready, and one did if
\* there was one.
LEMMA Notified ==
    ASSUME pc \in [Threads -> Where], NotifyOne
    PROVE  /\ pc' \in [Threads -> Where]
           /\ \A t \in Threads : pc'[t] = pc[t] \/ (pc[t] = "asleep" /\ pc'[t] = "ready")
           /\ Sleepers # {} => \E u \in Sleepers : pc'[u] = "ready"
BY DEF NotifyOne, Sleepers, Where

\* A buffer that goes back wakes a sleeper, if there is one, so it has somebody
\* on the way to it.
LEMMA ReleaseWakes ==
    ASSUME TypeOK, NoLostWakeup, NotifyOne, Len(free') = Len(free) + 1
    PROVE  NoLostWakeup'
<1>0. pc \in [Threads -> Where] /\ Len(free) \in Nat
  BY DEF TypeOK, Where
<1>1. /\ \A t \in Threads : pc'[t] = pc[t] \/ (pc[t] = "asleep" /\ pc'[t] = "ready")
      /\ Sleepers # {} => \E u \in Sleepers : pc'[u] = "ready"
  BY <1>0, Notified
<1>2. SUFFICES ASSUME Sleepers' # {}
               PROVE  Len(free) + 1 <= Cardinality(Runnable')
  BY DEF NoLostWakeup
<1>3. PICK u \in Sleepers : pc'[u] = "ready"
  BY <1>1, <1>2 DEF Sleepers
<1>4. /\ Runnable \in SUBSET Threads /\ Runnable' \in SUBSET Threads
      /\ u \in Runnable' /\ u \notin Runnable /\ Runnable \subseteq Runnable'
  BY <1>0, <1>1, <1>3 DEF Runnable, Sleepers
<1>5. Cardinality(Runnable) + 1 <= Cardinality(Runnable')
  BY <1>4, OneMore
<1>6. Len(free) <= Cardinality(Runnable)
  BY <1>3 DEF NoLostWakeup
<1>7. Cardinality(Runnable) \in Nat /\ Cardinality(Runnable') \in Nat
  BY <1>4, ThreadsFinite
<1>8. QED
  BY <1>0, <1>5, <1>6, <1>7

\* The destructor of a shared_ptr keeps the books of the pool: a buffer somebody
\* had goes back once, when nobody has it any more.
LEMMA DropStep ==
    ASSUME IInv, NEW b \in Buffers, refs[b] # {},
           NEW owners \in SUBSET {"batch", "context"}, Drop(b, owners)
    PROVE  /\ free' \in Seq(Buffers) /\ Len(free') <= Cardinality(Buffers)
           /\ \A i, j \in DOMAIN free' : free'[i] = free'[j] => i = j
           /\ refs' = [refs EXCEPT ![b] = owners]
           /\ refs' \in [Buffers -> SUBSET {"batch", "context"}]
           /\ \A c \in Buffers : InPool(c)' <=> refs'[c] = {}
           /\ pc' \in [Threads -> Where] /\ stopped' = stopped
           /\ NoLostWakeup' /\ StopWakesAll'
<1>0. /\ free \in Seq(Buffers) /\ Len(free) \in Nat /\ pc \in [Threads -> Where]
      /\ refs \in [Buffers -> SUBSET {"batch", "context"}]
      /\ TypeOK /\ NoLostWakeup /\ StopWakesAll
      /\ \A i, j \in DOMAIN free : free[i] = free[j] => i = j
      /\ \A c \in Buffers : InPool(c) <=> refs[c] = {}
  BY DEF IInv, OneOwner, TypeOK, Where
<1>1. /\ stopped' = stopped /\ refs' = [refs EXCEPT ![b] = owners]
      /\ refs' \in [Buffers -> SUBSET {"batch", "context"}]
  BY <1>0 DEF Drop
<1>2. CASE owners = {}
  <2>1. free' = Append(free, b) /\ NotifyOne
    BY <1>2 DEF Drop, LastOwner
  <2>2. /\ free' \in Seq(Buffers) /\ Len(free') = Len(free) + 1
        /\ \A i \in 1 .. Len(free) : free'[i] = free[i]
        /\ free'[Len(free) + 1] = b
        /\ DOMAIN free' = 1 .. Len(free) + 1 /\ DOMAIN free = 1 .. Len(free)
    BY <1>0, <2>1
  <2>3. \A i \in 1 .. Len(free) : free[i] # b
    BY <1>0, <2>2 DEF InPool
  <2>4. \A i, j \in DOMAIN free' : free'[i] = free'[j] => i = j
    BY <1>0, <2>2, <2>3
  <2>5. Len(free') <= Cardinality(Buffers)
    BY <2>2, <2>4, DistinctFit
  <2>6. \A c \in Buffers : InPool(c)' <=> InPool(c) \/ c = b
    BY <1>0, <2>2 DEF InPool
  <2>7. \A c \in Buffers : InPool(c)' <=> refs'[c] = {}
    BY <1>0, <1>1, <1>2, <2>6
  <2>8. pc' \in [Threads -> Where] /\ (Sleepers = {} => Sleepers' = {})
    BY <1>0, <2>1, Notified DEF Sleepers
  <2>9. NoLostWakeup'
    BY <1>0, <2>1, <2>2, ReleaseWakes
  <2>10. StopWakesAll'
    BY <1>0, <1>1, <2>8 DEF StopWakesAll
  <2>11. QED
    BY <1>1, <2>2, <2>4, <2>5, <2>7, <2>8, <2>9, <2>10
<1>3. CASE owners # {}
  <2>1. free' = free /\ pc' = pc
    BY <1>3 DEF Drop, LastOwner
  <2>2. \A c \in Buffers : InPool(c)' <=> refs'[c] = {}
    BY <1>0, <1>1, <1>3, <2>1 DEF InPool
  <2>3. NoLostWakeup' /\ StopWakesAll'
    BY <1>0, <1>1, <2>1 DEF NoLostWakeup, StopWakesAll, Sleepers, Runnable
  <2>4. QED
    BY <1>0, <1>1, <2>1, <2>2, <2>3 DEF TypeOK
<1>4. QED
  BY <1>2, <1>3

\* r is s without its last element, which is a buffer found nowhere else in s.
PoppedFrom(s, r) ==
    /\ r \in Seq(Buffers) /\ Len(r) = Len(s) - 1 /\ Len(s) \in Nat \ {0}
    /\ DOMAIN r = 1 .. Len(s) - 1 /\ DOMAIN s = 1 .. Len(s)
    /\ \A i \in DOMAIN r : r[i] = s[i] /\ s[i] # s[Len(s)]
    /\ s[Len(s)] \in Buffers

\* pop_back takes the last buffer and leaves the others where they are.
LEMMA PopStep ==
    ASSUME NEW s \in Seq(Buffers), s # <<>>, \A i, j \in DOMAIN s : s[i] = s[j] => i = j
    PROVE  PoppedFrom(s, SubSeq(s, 1, Len(s) - 1))
<1> DEFINE r == SubSeq(s, 1, Len(s) - 1)
<1>1. Len(s) \in Nat \ {0} /\ DOMAIN s = 1 .. Len(s)
  BY EmptySeq, LenProperties
<1>2. /\ r \in Seq(Buffers) /\ Len(r) = Len(s) - 1
      /\ \A i \in 1 .. Len(s) - 1 : r[i] = s[i]
  BY <1>1, SubSeqProperties
<1>3. DOMAIN r = 1 .. Len(s) - 1
  BY <1>1, <1>2
<1> HIDE DEF r
<1>4. PoppedFrom(s, r)
  BY <1>1, <1>2, <1>3 DEF PoppedFrom
<1>5. QED
  BY <1>4 DEF r

--------------------------------------------------------------------------------

\* Steps of the threads: a buffer that is lent out was free, nobody had it and
\* nothing read it; who takes one, gives up or falls asleep leaves no free buffer
\* without somebody on the way to it.
LEMMA ThreadStep ==
    ASSUME IInv, NEW t \in Threads,
           Call(t) \/ Acquire(t) \/ GiveUp(t) \/ Sleep(t) \/ SpuriousWakeup(t)
    PROVE  IInv'
<1>0. /\ TypeOK /\ NoLostWakeup /\ StopWakesAll /\ Stages
      /\ free \in Seq(Buffers) /\ Len(free) \in Nat /\ Cardinality(Buffers) \in Nat
      /\ pc \in [Threads -> Where]
      /\ \A i, j \in DOMAIN free : free[i] = free[j] => i = j
      /\ \A b \in Buffers : InPool(b) <=> refs[b] = {}
      /\ Runnable \in SUBSET Threads /\ Runnable' \in SUBSET Threads
      /\ Cardinality(Runnable) \in Nat /\ Cardinality(Runnable') \in Nat
  BY ThreadsFinite, PoolAssumption, FS_CardinalityType
     DEF IInv, OneOwner, TypeOK, Where, Runnable
<1>1. CASE Acquire(t)
  <2>1. /\ free # <<>> /\ free' = SubSeq(free, 1, Len(free) - 1)
        /\ pc[t] = "ready" /\ pc' = [pc EXCEPT ![t] = "out"]
        /\ UNCHANGED <<stopped, copying, orphaned, faults>> /\ ~stopped
    BY <1>1 DEF Acquire, Pop
  <2> DEFINE b == free[Len(free)]
  <2>2. /\ free' \in Seq(Buffers) /\ Len(free') = Len(free) - 1 /\ Len(free) \in Nat \ {0}
        /\ DOMAIN free' = 1 .. Len(free) - 1 /\ DOMAIN free = 1 .. Len(free)
        /\ \A i \in DOMAIN free' : free'[i] = free[i] /\ free[i] # b
        /\ b \in Buffers
    <3>1. PoppedFrom(free, free')
      BY <1>0, <2>1, PopStep DEF PoppedFrom
    <3>2. QED
      BY <3>1 DEF PoppedFrom, b
  <2>3. refs[b] = {}
    BY <1>0, <2>2 DEF InPool
  <2>4. b \notin copying
    BY <1>0, <2>2, <2>3 DEF Stages
  <2>5. /\ refs' = [refs EXCEPT ![b] = {"batch"}]
        /\ stage' = [stage EXCEPT ![b] = "host"]
    BY <1>1 DEF Acquire
  <2> HIDE DEF b
  <2>6. TypeOK'
    <3>1. pc' \in [Threads -> Where] /\ stopped' \in BOOLEAN
      BY <1>0, <2>1 DEF Where, TypeOK
    <3>2. refs' \in [Buffers -> SUBSET {"batch", "context"}]
      BY <1>0, <2>5 DEF TypeOK
    <3>3. stage' \in [Buffers -> {"host", "copy", "context", "launched", "leaked", "done"}]
      BY <1>0, <2>5 DEF TypeOK
    <3>4. Len(free') <= Cardinality(Buffers)
      BY <1>0, <2>2 DEF TypeOK
    <3>5. QED
      BY <1>0, <2>1, <2>2, <3>1, <3>2, <3>3, <3>4 DEF TypeOK, Where
  <2>7. \A c \in Buffers : InPool(c)' <=> InPool(c) /\ c # b
    BY <2>2 DEF InPool, b
  <2>8. OneOwner'
    <3>1. \A i, j \in DOMAIN free' : free'[i] = free'[j] => i = j
      BY <1>0, <2>2
    <3>2. \A c \in Buffers : refs'[c] = IF c = b THEN {"batch"} ELSE refs[c]
      BY <1>0, <2>5 DEF TypeOK
    <3>3. \A c \in Buffers : InPool(c)' <=> refs'[c] = {}
      BY <1>0, <2>3, <2>7, <3>2
    <3>4. QED
      BY <2>6, <3>1, <3>3 DEF OneOwner
  <2>9. Stages'
    <3>1. \A c \in Buffers : /\ refs'[c] = IF c = b THEN {"batch"} ELSE refs[c]
                             /\ stage'[c] = IF c = b THEN "host" ELSE stage[c]
      BY <1>0, <2>5 DEF TypeOK
    <3>2. QED
      BY <1>0, <2>1, <2>4, <3>1 DEF Stages
  <2>10. t \in Runnable /\ Runnable \ {t} \subseteq Runnable'
    BY <1>0, <2>1 DEF Runnable
  <2>11. Cardinality(Runnable) - 1 <= Cardinality(Runnable')
    BY <1>0, <2>10, OneLess
  <2>12. NoLostWakeup'
    BY <1>0, <2>1, <2>2, <2>11 DEF NoLostWakeup, Sleepers
  <2>13. StopWakesAll'
    BY <2>1 DEF StopWakesAll
  <2>14. QED
    BY <2>8, <2>9, <2>12, <2>13 DEF IInv
<1>2. CASE Call(t) \/ GiveUp(t) \/ Sleep(t) \/ SpuriousWakeup(t)
  <2>1. UNCHANGED <<free, stopped, refs, stage, copying, orphaned, faults>>
    BY <1>2 DEF Call, GiveUp, Sleep, SpuriousWakeup
  <2>2. TypeOK'
    BY <1>0, <1>2, <2>1 DEF TypeOK, Call, GiveUp, Sleep, SpuriousWakeup
  <2>3. OneOwner' /\ Stages'
    BY <1>0, <2>1, <2>2 DEF OneOwner, Stages, InPool
  <2>4. StopWakesAll'
    BY <1>0, <1>2, <2>1 DEF StopWakesAll, Sleepers, Call, GiveUp, Sleep, SpuriousWakeup
  <2>5. CASE Call(t) \/ SpuriousWakeup(t)
    <3>1. Runnable \subseteq Runnable' /\ (Sleepers' # {} => Sleepers # {})
      BY <1>0, <2>5 DEF Runnable, Sleepers, Call, SpuriousWakeup
    <3>2. Cardinality(Runnable) <= Cardinality(Runnable')
      BY <1>0, <3>1, ThreadsFinite
    <3>3. NoLostWakeup'
      BY <1>0, <2>1, <3>1, <3>2 DEF NoLostWakeup
    <3>4. QED
      BY <2>3, <2>4, <3>3 DEF IInv
  <2>6. CASE GiveUp(t) \/ Sleep(t)
    <3>1. NoLostWakeup'
      BY <1>0, <2>1, <2>4, <2>6 DEF NoLostWakeup, StopWakesAll, GiveUp, Sleep
    <3>2. QED
      BY <2>3, <2>4, <3>1 DEF IInv
  <2>7. QED
    BY <1>2, <2>5, <2>6
<1>3. QED
  BY <1>1, <1>2

\* Steps of submitBatch, of the stream and of the callback.
LEMMA BufferStep ==
    ASSUME IInv, NEW b \in Buffers,
           \/ EnqueueCopy(b) \/ NewContext(b) \/ NewContextThrows(b) \/ LaunchHostFunc(b)
           \/ LaunchHostFuncFails(b) \/ Copied(b) \/ OrphanCopied(b)
           \/ ReleasePinnedInputCallback(b) \/ BatchGone(b)
    PROVE  IInv'
<1>0. /\ TypeOK /\ OneOwner /\ NoLostWakeup /\ StopWakesAll /\ Stages
      /\ refs \in [Buffers -> SUBSET {"batch", "context"}] /\ MaxFaults \in Nat
      /\ \A c \in Buffers : InPool(c) <=> refs[c] = {}
  BY PoolAssumption DEF IInv, OneOwner, TypeOK
<1>1. CASE \/ EnqueueCopy(b) \/ NewContext(b) \/ LaunchHostFunc(b) \/ LaunchHostFuncFails(b)
           \/ Copied(b) \/ OrphanCopied(b)
  <2>1. free' = free /\ stopped' = stopped /\ pc' = pc
    BY <1>1 DEF EnqueueCopy, NewContext, LaunchHostFunc, LaunchHostFuncFails, Copied,
                OrphanCopied, pool
  <2>2. TypeOK'
    BY <1>0, <1>1, <2>1
       DEF TypeOK, EnqueueCopy, NewContext, LaunchHostFunc, LaunchHostFuncFails, Copied,
           OrphanCopied
  <2>3. Stages'
    BY <1>0, <1>1
       DEF Stages, TypeOK, EnqueueCopy, NewContext, LaunchHostFunc, LaunchHostFuncFails,
           Copied, OrphanCopied, pool
  <2>4. \A c \in Buffers : refs'[c] = {} <=> refs[c] = {}
    BY <1>0, <1>1
       DEF Stages, EnqueueCopy, NewContext, LaunchHostFunc, LaunchHostFuncFails, Copied,
           OrphanCopied, pool
  <2>5. OneOwner'
    BY <1>0, <2>1, <2>2, <2>4 DEF OneOwner, InPool
  <2>6. NoLostWakeup' /\ StopWakesAll'
    BY <1>0, <2>1 DEF NoLostWakeup, StopWakesAll, Sleepers, Runnable
  <2>7. QED
    BY <2>3, <2>5, <2>6 DEF IInv
<1>2. ASSUME NEW owners \in SUBSET {"batch", "context"}, Drop(b, owners), refs[b] # {},
             /\ stage' \in [Buffers ->
                     {"host", "copy", "context", "launched", "leaked", "done"}]
             /\ copying' \subseteq Buffers /\ orphaned' \subseteq Buffers
             /\ faults' \in 0 .. MaxFaults /\ Stages'
      PROVE  IInv'
  <2>1. /\ free' \in Seq(Buffers) /\ Len(free') <= Cardinality(Buffers)
        /\ \A i, j \in DOMAIN free' : free'[i] = free'[j] => i = j
        /\ refs' \in [Buffers -> SUBSET {"batch", "context"}]
        /\ \A c \in Buffers : InPool(c)' <=> refs'[c] = {}
        /\ pc' \in [Threads -> Where] /\ stopped' = stopped
        /\ NoLostWakeup' /\ StopWakesAll'
    BY <1>2, DropStep
  <2>2. TypeOK'
    BY <1>0, <1>2, <2>1 DEF TypeOK, Where
  <2>3. QED
    BY <1>2, <2>1, <2>2 DEF IInv, OneOwner
<1>3. CASE NewContextThrows(b)
  <2>1. refs[b] # {} /\ refs' = [refs EXCEPT ![b] = {}]
    BY <1>0, <1>3 DEF NewContextThrows, Stages, Drop
  <2>2. Stages'
    BY <1>0, <1>3, <2>1 DEF NewContextThrows, Stages, TypeOK
  <2>3. QED
    BY <1>0, <1>2, <1>3, <2>1, <2>2 DEF NewContextThrows, TypeOK
<1>4. CASE ReleasePinnedInputCallback(b)
  <2>1. refs[b] # {} /\ refs' = [refs EXCEPT ![b] = refs[b] \ {"context"}]
    BY <1>0, <1>4 DEF ReleasePinnedInputCallback, Stages, Drop
  <2>2. Stages'
    BY <1>0, <1>4, <2>1 DEF ReleasePinnedInputCallback, Stages, TypeOK
  <2>3. QED
    BY <1>0, <1>2, <1>4, <2>1, <2>2 DEF ReleasePinnedInputCallback, TypeOK
<1>5. CASE BatchGone(b)
  <2>1. refs[b] # {} /\ refs' = [refs EXCEPT ![b] = refs[b] \ {"batch"}]
    BY <1>0, <1>5 DEF BatchGone, Drop
  <2>2. Stages'
    BY <1>0, <1>5, <2>1 DEF BatchGone, Stages, TypeOK
  <2>3. QED
    BY <1>0, <1>2, <1>5, <2>1, <2>2 DEF BatchGone, TypeOK
<1>6. QED
  BY <1>1, <1>3, <1>4, <1>5

\* Every step preserves the inductive invariant.
LEMMA Step == IInv /\ [Next]_vars => IInv'
<1> SUFFICES ASSUME IInv, [Next]_vars PROVE IInv'
  OBVIOUS
<1>1. CASE Stop
  <2>1. TypeOK' /\ Sleepers' = {}
    BY <1>1 DEF Stop, WakeAll, IInv, OneOwner, TypeOK, Sleepers
  <2>2. OneOwner' /\ Stages'
    BY <1>1, <2>1 DEF Stop, IInv, OneOwner, Stages, InPool
  <2>3. QED
    BY <2>1, <2>2 DEF IInv, NoLostWakeup, StopWakesAll
<1>2. CASE UNCHANGED vars
  <2>1. OneOwner' /\ Stages'
    BY <1>2 DEF vars, pool, IInv, OneOwner, TypeOK, Stages, InPool
  <2>2. NoLostWakeup' /\ StopWakesAll'
    BY <1>2 DEF vars, pool, IInv, NoLostWakeup, StopWakesAll, Sleepers, Runnable
  <2>3. QED
    BY <2>1, <2>2 DEF IInv
<1>3. QED
  BY <1>1, <1>2, ThreadStep, BufferStep DEF Next

\* At the start all buffers are in the pool, each once.
LEMMA Start == Init => IInv
<1> SUFFICES ASSUME Init PROVE IInv
  OBVIOUS
<1>1. Cardinality(Buffers) \in Nat /\ IsFiniteSet(Buffers)
  BY PoolAssumption, FS_CardinalityType
<1> DEFINE n == Cardinality(Buffers)
<1>2. /\ free \in [1 .. n -> Buffers]
      /\ \A b \in Buffers : \E i \in DOMAIN free : free[i] = b
  BY DEF Init
<1>3. free \in Surjection(1 .. n, Buffers)
  BY <1>2 DEF Surjection
<1>4. IsFiniteSet(1 .. n) /\ Cardinality(1 .. n) = n
  BY <1>1, FS_Interval
<1>5. free \in Injection(1 .. n, Buffers)
  BY <1>3, <1>4, FS_SurjSameCardinalityImpliesInj
<1>6. \A i, j \in DOMAIN free : free[i] = free[j] => i = j
  BY <1>2, <1>5 DEF Injection, IsInjective
<1>7. free \in Seq(Buffers) /\ Len(free) = n
  BY <1>1, <1>2
<1>8. TypeOK
  <2>1. pc \in [Threads -> {"out", "ready", "asleep"}]
    BY DEF Init
  <2>2. refs \in [Buffers -> SUBSET {"batch", "context"}]
    BY DEF Init
  <2>3. stage \in [Buffers -> {"host", "copy", "context", "launched", "leaked", "done"}]
    BY DEF Init
  <2>4. faults \in 0 .. MaxFaults /\ stopped = FALSE
    BY PoolAssumption DEF Init
  <2>5. copying \subseteq Buffers /\ orphaned \subseteq Buffers
    BY DEF Init
  <2>6. free \in Seq(Buffers) /\ Len(free) <= Cardinality(Buffers)
    BY <1>1, <1>7
  <2>7. stopped \in BOOLEAN
    BY <2>4
  <2>8. QED
    BY <2>1, <2>2, <2>3, <2>4, <2>5, <2>6, <2>7 DEF TypeOK
<1>9. OneOwner
  BY <1>2, <1>6, <1>8 DEF OneOwner, Init, InPool
<1>10. Stages
  BY DEF Init, Stages
<1>11. NoLostWakeup /\ StopWakesAll
  BY DEF Init, NoLostWakeup, StopWakesAll, Sleepers
<1>12. QED
  BY <1>9, <1>10, <1>11 DEF IInv

\* The inductive invariant holds in every state the pool can reach.
THEOREM Invariance == Spec => []IInv
BY Start, Step, PTL DEF Spec, SafeSpec

\* A buffer is in the pool exactly once or somebody has it, whichever of batch
\* and callback goes last and whatever fails.
THEOREM OwnersCorrect == Spec => []OneOwner
BY Invariance, PTL DEF IInv

\* One notify_one per release is enough.
THEOREM WakeupsCorrect == Spec => []NoLostWakeup
BY Invariance, PTL DEF IInv

\* No buffer is free, or filled again, while the copy of its batch reads it.
THEOREM CopiesCorrect == Spec => []NoReuseUnderCopy
<1>1. IInv => NoReuseUnderCopy
  <2>1. ASSUME IInv, NEW b \in copying
        PROVE  refs[b] # {} /\ stage[b] \notin {"host", "done"}
    <3>1. b \in Buffers /\ Stages
      BY <2>1 DEF IInv, OneOwner, TypeOK
    <3>2. stage[b] \in {"copy", "context", "launched", "leaked"}
      BY <2>1, <3>1 DEF Stages
    <3>3. "batch" \in refs[b] \/ "context" \in refs[b]
      BY <3>1, <3>2 DEF Stages
    <3>4. QED
      BY <3>2, <3>3
  <2>2. QED
    BY <2>1 DEF NoReuseUnderCopy
<1>2. QED
  BY <1>1, Invariance, PTL

--------------------------------------------------------------------------------

\* The free buffers, as the atomic pool sees them, are those nobody has.
LEMMA FreeSet == OneOwner => {b \in Buffers : InPool(b)} = {b \in Buffers : refs[b] = {}}
BY DEF OneOwner

\* A step in which a buffer changes hands, or goes back.
LEMMA SimulatedDrop ==
    ASSUME IInv, NEW b \in Buffers, refs[b] # {},
           NEW owners \in SUBSET {"batch", "context"}, Drop(b, owners)
    PROVE  A!Release(b) \/ UNCHANGED A!vars
<1> DEFINE in == {t \in Threads : pc[t] # "out"}
           left == {c \in Buffers : InPool(c)}
<1>1. /\ pc \in [Threads -> Where]
      /\ refs \in [Buffers -> SUBSET {"batch", "context"}]
      /\ \A c \in Buffers : InPool(c) <=> refs[c] = {}
  BY DEF IInv, OneOwner, TypeOK, Where
<1>2. /\ refs' = [refs EXCEPT ![b] = owners] /\ stopped' = stopped
      /\ \A c \in Buffers : InPool(c)' <=> refs'[c] = {}
  BY DropStep
<1>3. in' = in
  <2>1. CASE owners = {}
    BY <1>1, <2>1, Notified DEF Drop, LastOwner
  <2>2. CASE owners # {}
    BY <2>2 DEF Drop, LastOwner
  <2>3. QED
    BY <2>1, <2>2
<1>4. \A c \in Buffers : InPool(c)' <=> (InPool(c) \/ (c = b /\ owners = {}))
  BY <1>1, <1>2
<1>5. b \notin left /\ left' = IF owners = {} THEN left \union {b} ELSE left
  BY <1>1, <1>4
<1> HIDE DEF in, left
<1>6. (left' = left \union {b} /\ in' = in /\ stopped' = stopped /\ b \notin left)
         \/ (left' = left /\ in' = in /\ stopped' = stopped)
  BY <1>2, <1>3, <1>5
<1>7. QED
  BY <1>6 DEF A!Release, A!vars, in, left

\* Every step of the pool is a step of the atomic pool, or invisible there.
LEMMA Simulation == IInv /\ [Next]_vars => [A!Next]_(A!vars)
<1> SUFFICES ASSUME IInv, [Next]_vars PROVE A!Next \/ UNCHANGED A!vars
  BY DEF A!vars
<1> DEFINE in == {t \in Threads : pc[t] # "out"}
           left == {c \in Buffers : InPool(c)}
<1>0. /\ pc \in [Threads -> Where] /\ free \in Seq(Buffers)
      /\ \A i, j \in DOMAIN free : free[i] = free[j] => i = j
  BY DEF IInv, OneOwner, TypeOK, Where
<1>1. ASSUME NEW t \in Threads, Call(t) PROVE A!Call(t)
  <2>1. t \notin in /\ in' = in \union {t}
    BY <1>0, <1>1 DEF Call
  <2>2. left' = left /\ stopped' = stopped
    BY <1>1 DEF Call, InPool
  <2>3. QED
    BY <2>1, <2>2 DEF A!Call
<1>2. ASSUME NEW t \in Threads, Acquire(t) PROVE A!Acquire(t)
  <2>1. t \in in /\ in' = in \ {t}
    BY <1>0, <1>2 DEF Acquire
  <2>2. PoppedFrom(free, free')
    BY <1>0, <1>2, PopStep DEF Acquire, Pop
  <2>3. /\ \A c \in Buffers : InPool(c)' <=> InPool(c) /\ c # free[Len(free)]
        /\ free[Len(free)] \in Buffers /\ InPool(free[Len(free)])
    BY <2>2 DEF PoppedFrom, InPool
  <2>4. \E b \in left : left' = left \ {b}
    BY <2>3
  <2>5. ~stopped /\ stopped' = stopped
    BY <1>2 DEF Acquire
  <2>6. QED
    BY <2>1, <2>4, <2>5 DEF A!Acquire
<1>3. ASSUME NEW t \in Threads, GiveUp(t) PROVE A!GiveUp(t)
  <2>1. t \in in /\ in' = in \ {t}
    BY <1>0, <1>3 DEF GiveUp
  <2>2. left' = left /\ stopped /\ stopped' = stopped
    BY <1>3 DEF GiveUp, InPool
  <2>3. QED
    BY <2>1, <2>2 DEF A!GiveUp
<1>4. ASSUME NEW t \in Threads, Sleep(t) \/ SpuriousWakeup(t) PROVE UNCHANGED A!vars
  <2>1. in' = in
    BY <1>0, <1>4 DEF Sleep, SpuriousWakeup
  <2>2. left' = left /\ stopped' = stopped
    BY <1>4 DEF Sleep, SpuriousWakeup, InPool
  <2>3. QED
    BY <2>1, <2>2 DEF A!vars
<1>5. ASSUME Stop PROVE A!Stop
  <2>1. in' = in
    BY <1>0, <1>5 DEF Stop, WakeAll
  <2>2. left' = left /\ stopped' = TRUE
    BY <1>5 DEF Stop, InPool
  <2>3. QED
    BY <2>1, <2>2 DEF A!Stop
<1>6. ASSUME free' = free, stopped' = stopped, pc' = pc PROVE UNCHANGED A!vars
  BY <1>6 DEF A!vars, InPool
<1>7. ASSUME NEW b \in Buffers,
             NewContextThrows(b) \/ ReleasePinnedInputCallback(b) \/ BatchGone(b)
      PROVE A!Release(b) \/ UNCHANGED A!vars
  <2>1. /\ refs[b] # {} /\ refs[b] \in SUBSET {"batch", "context"}
        /\ Drop(b, {}) \/ Drop(b, refs[b] \ {"context"}) \/ Drop(b, refs[b] \ {"batch"})
    BY <1>7 DEF NewContextThrows, ReleasePinnedInputCallback, BatchGone, IInv, Stages,
                OneOwner, TypeOK
  <2>2. QED
    BY <2>1, SimulatedDrop
<1>8. ASSUME NEW b \in Buffers,
             \/ EnqueueCopy(b) \/ NewContext(b) \/ LaunchHostFunc(b)
             \/ LaunchHostFuncFails(b) \/ Copied(b) \/ OrphanCopied(b)
      PROVE UNCHANGED A!vars
  BY <1>6, <1>8
     DEF EnqueueCopy, NewContext, LaunchHostFunc, LaunchHostFuncFails, Copied, OrphanCopied,
         pool
<1>9. UNCHANGED vars => UNCHANGED A!vars
  BY <1>6 DEF vars, pool
<1> HIDE DEF in, left
<1>10. QED
  BY <1>1, <1>2, <1>3, <1>4, <1>5, <1>7, <1>8, <1>9 DEF Next, A!Next

\* The safety half of ImplementsAtomicPool: mutex, condition variable, shared_ptr
\* and callback together do nothing the atomic pool does not do.
THEOREM SafeImplementation == Spec => A!SafeSpec
<1>1. Init => A!Init
  <2>1. ASSUME Init
        PROVE  {b \in Buffers : InPool(b)} = Buffers /\ {t \in Threads : pc[t] # "out"} = {}
    BY <2>1 DEF Init, InPool
  <2>2. QED
    BY <2>1 DEF Init, A!Init
<1>2. QED
  BY <1>1, Invariance, Simulation, PTL DEF Spec, SafeSpec, A!SafeSpec
================================================================================
