---------------------------- MODULE MemoryProofs ----------------------------
(***************************************************************************)
(* The buffer pool and its memory cap: no wake-up is lost, the queue never   *)
(* outgrows its counter, and the counter of the cap is exactly what is       *)
(* checked out and never above the limit, for any number of threads, limits  *)
(* and sizes.                                                                *)
(***************************************************************************)
EXTENDS BufferPool, CommonProofs, FunctionTheorems

\* The leaves are tried with Zenon unless they name another prover.
USE Zenon

-----------------------------------------------------------------------------
(* The buffer pool and its memory cap                                         *)

\* The mutex is held from the second look at the counter to the sleep, and by nobody
\* else.
MutexHeld ==
    \A t \in Copiers : (gate[t] \in {"check", "sleepy"}) <=> (backpressure = t)

CapType ==
    /\ outstanding \in Int
    /\ outstanding <= Limit
    /\ gate \in [Copiers -> Gates]
    /\ asked \in [Copiers -> Nat]

\* NoLostWakeUp is not inductive by itself: a notification would find the thread
\* that is about to sleep still awake, were it not for the mutex.
CapInv == CapType /\ MutexHeld /\ NoLostWakeUp

LEMMA CapStart == CapInit => CapInv
BY CopiersAssumption, LimitAssumption, SMTT(60) DEF CapInit, CapInv, CapType, MutexHeld, NoLostWakeUp, Gates

LEMMA CapStep == CapInv /\ [CapNext]_capVars => CapInv'
<1> SUFFICES ASSUME CapInv, [CapNext]_capVars PROVE CapInv'
    OBVIOUS
<1> USE CopiersAssumption, LimitAssumption
<1>1. CASE UNCHANGED capVars
      BY <1>1 DEF CapInv, CapType, MutexHeld, NoLostWakeUp, Fits, capVars
<1>2. ASSUME NEW t \in Copiers, NEW n \in Nat, WaitAndReserve(t, n) PROVE CapInv'
  <2>1. CASE Fits(n)
        BY <1>2, <2>1, SMTT(60) DEF CapInv, CapType, MutexHeld, NoLostWakeUp, Fits, WaitAndReserve, Gates
  <2>2. CASE ~Fits(n)
        BY <1>2, <2>2 DEF CapInv, CapType, MutexHeld, NoLostWakeUp, Fits, WaitAndReserve, Gates
  <2>3. QED BY <2>1, <2>2
<1>3. ASSUME NEW t \in Copiers, NEW n \in Nat, TryReserve(t, n) PROVE CapInv'
      BY <1>3, SMTT(60) DEF CapInv, CapType, MutexHeld, NoLostWakeUp, Fits, TryReserve, Gates
<1>4. ASSUME NEW t \in Copiers, NEW n \in Nat, GiveBack(t, n) PROVE CapInv'
      BY <1>4, SMTT(60) DEF CapInv, CapType, MutexHeld, NoLostWakeUp, Fits, GiveBack, Gates
<1>5. ASSUME NEW t \in Copiers, LockSlow(t) PROVE CapInv'
      BY <1>5 DEF CapInv, CapType, MutexHeld, NoLostWakeUp, Fits, LockSlow, Gates
<1>6. ASSUME NEW t \in Copiers, Recheck(t) PROVE CapInv'
  <2>1. CASE Fits(asked[t])
    <3>1. outstanding' \in Int /\ outstanding' <= Limit /\ outstanding' = outstanding + asked[t]
          BY <1>6, <2>1, SMTT(60) DEF CapInv, CapType, Fits, Recheck
    <3>2. /\ gate' = [gate EXCEPT ![t] = "away"]
          /\ asked' = [asked EXCEPT ![t] = 0]
          /\ backpressure' = Nobody
          /\ backpressure = t
          BY <1>6, <2>1 DEF CapInv, CapType, MutexHeld, Recheck
    <3>3. CapType' /\ MutexHeld'
          BY <3>1, <3>2 DEF CapInv, CapType, MutexHeld, Gates
    <3>4. NoLostWakeUp'
      <4>1. \A u \in Copiers : gate[u] # "sleepy"
            BY <1>6, <3>2 DEF CapInv, MutexHeld, Recheck
      <4>2. QED BY <1>6, <3>1, <3>2, <4>1, SMTT(60) DEF CapInv, CapType, NoLostWakeUp, Fits, Gates, Recheck
    <3>5. QED BY <3>3, <3>4 DEF CapInv
  <2>2. CASE ~Fits(asked[t])
        BY <1>6, <2>2 DEF CapInv, CapType, MutexHeld, NoLostWakeUp, Fits, Recheck, Gates
  <2>3. QED BY <2>1, <2>2
<1>7. ASSUME NEW t \in Copiers, Sleep(t) PROVE CapInv'
      BY <1>7 DEF CapInv, CapType, MutexHeld, NoLostWakeUp, Fits, Sleep, Gates
<1>8. ASSUME NEW t \in Copiers, SpuriousWakeUp(t) PROVE CapInv'
      BY <1>8 DEF CapInv, CapType, MutexHeld, NoLostWakeUp, Fits, SpuriousWakeUp, Gates
<1>9. ASSUME NEW t \in Copiers, Notify(t) PROVE CapInv'
      BY <1>9 DEF CapInv, CapType, MutexHeld, NoLostWakeUp, Fits, Notify, Gates
<1>10. QED
      BY <1>1, <1>2, <1>3, <1>4, <1>5, <1>6, <1>7, <1>8, <1>9 DEF CapNext, Inside

-----------------------------------------------------------------------------
Sources == {"none", "new", "cache", "queue", "guard"}
Places == {"idle", "reserve", "popped", "release", "store", "admit", "slot", "push",
           "return", "notify"}
Buffer == [len : Nat, cap : Nat]
Operation == [src : Sources, len : Nat, cap : Nat]

BufferShape ==
    /\ buffers \in Seq(Nat)
    /\ local \in [Copiers -> Nat]
    /\ guards \in [Copiers -> Seq(Buffer)]
    /\ op \in [Copiers -> Operation]

PlaceShape ==
    /\ poolcfg \in [soft : Nat, budget : Nat]
    /\ central_count \in Int
    /\ doing \in [Copiers -> Places]

LEMMA ShapeStart == PoolInit => BufferShape /\ PlaceShape
BY PoolAssumption, SMTT(60) DEF PoolInit, BufferShape, PlaceShape, Operation, Buffer, Sources, Places

LEMMA PlaceShapeStep == PlaceShape /\ [PoolNext]_poolVars => PlaceShape'
<1> SUFFICES ASSUME PlaceShape, [PoolNext]_poolVars PROVE PlaceShape'
    OBVIOUS
<1> USE DEF PlaceShape, Places, Then, centralVars
<1>1. CASE UNCHANGED poolOnlyVars
      BY <1>1 DEF poolOnlyVars
<1>2. ASSUME NEW t \in Copiers, NEW n \in {PoolSize} \cup Adaptive, Acquire(t, n) PROVE PlaceShape'
      BY <1>2 DEF Acquire, Take
<1>3. ASSUME NEW t \in Copiers, TryAcquire(t) PROVE PlaceShape'
      BY <1>3 DEF TryAcquire, Take
<1>4. ASSUME NEW t \in Copiers, HandOutReserved(t) \/ Allocate(t) \/ PopBuffer(t)
      PROVE  PlaceShape'
      BY <1>4 DEF HandOutReserved, Allocate, PopBuffer, HandOut
<1>5. ASSUME NEW t \in Copiers, Uncount(t) \/ TakeSlot(t) PROVE PlaceShape'
      BY <1>5, SMTT(60) DEF Uncount, TakeSlot
<1>6. ASSUME NEW t \in Copiers, LoadRetained(t) \/ StoreRetained(t) PROVE PlaceShape'
      BY <1>6 DEF LoadRetained, StoreRetained, HandOut
<1>7. ASSUME NEW t \in Copiers, DropGuard(t) \/ Admit(t) \/ PushBuffer(t) PROVE PlaceShape'
      BY <1>7 DEF DropGuard, Admit, PushBuffer
<1>8. ASSUME NEW t \in Copiers, TrackReturn(t) \/ EndReturn(t) PROVE PlaceShape'
      BY <1>8 DEF TrackReturn, EndReturn, Notifying
<1>9. QED
      BY <1>1, <1>2, <1>3, <1>4, <1>5, <1>6, <1>7, <1>8
      DEF PoolNext, Proceeds, Locks, poolVars

LEMMA BufferShapeStep == BufferShape /\ [PoolNext]_poolVars => BufferShape'
<1> SUFFICES ASSUME BufferShape, [PoolNext]_poolVars PROVE BufferShape'
    OBVIOUS
<1> USE PoolAssumption DEF BufferShape, Sources, centralVars
<1>1. CASE UNCHANGED poolOnlyVars
      BY <1>1 DEF poolOnlyVars
<1>2. ASSUME NEW t \in Copiers, NEW n \in Nat, Take(t, n), UNCHANGED <<buffers, guards>>
      PROVE  BufferShape'
  <2>1. Source(t, n) \in Operation
        BY <1>2 DEF Source, Operation
  <2>2. op' \in [Copiers -> Operation]
        BY <1>2, <2>1 DEF Take
  <2>3. local' \in [Copiers -> Nat]
        BY <1>2 DEF Take
  <2>4. QED BY <1>2, <2>2, <2>3
<1>3. ASSUME NEW t \in Copiers, NEW n \in {PoolSize} \cup Adaptive, Acquire(t, n) PROVE BufferShape'
      BY <1>2, <1>3 DEF Acquire
<1>4. ASSUME NEW t \in Copiers, TryAcquire(t) PROVE BufferShape'
  <2>1. UNCHANGED <<buffers, guards>>
        BY <1>4 DEF TryAcquire
  <2>2. CASE Take(t, PoolSize)
        BY <1>2, <2>1, <2>2
  <2>3. CASE UNCHANGED <<op, local>>
        BY <2>1, <2>3
  <2>4. QED BY <1>4, <2>2, <2>3 DEF TryAcquire
<1>5. ASSUME NEW t \in Copiers, NEW n \in Nat, NEW c \in Nat, HandOut(t, n, c),
             UNCHANGED <<buffers, local>>
      PROVE  BufferShape'
  <2>1. [len |-> n, cap |-> c] \in Buffer
        BY DEF Buffer
  <2>2. guards' \in [Copiers -> Seq(Buffer)]
        BY <1>5, <2>1, SMTT(60) DEF HandOut
  <2>3. op' \in [Copiers -> Operation]
        BY <1>5 DEF HandOut, Operation
  <2>4. QED BY <1>5, <2>2, <2>3
<1>6. \A t \in Copiers : op[t].len \in Nat /\ op[t].cap \in Nat
      BY DEF Operation
<1>7. ASSUME NEW t \in Copiers, HandOutReserved(t) \/ Allocate(t) PROVE BufferShape'
      BY <1>5, <1>6, <1>7 DEF HandOutReserved, Allocate
<1>8. ASSUME NEW t \in Copiers, PopBuffer(t) PROVE BufferShape'
  <2>1. Head(buffers) \in Nat /\ Tail(buffers) \in Seq(Nat)
        BY <1>8, SMTT(60) DEF PopBuffer
  <2>2. [src |-> "queue", len |-> PoolSize, cap |-> Head(buffers)] \in Operation
        BY <2>1 DEF Operation
  <2>3. op' \in [Copiers -> Operation]
        BY <1>8, <2>2 DEF PopBuffer
  <2>4. QED BY <1>8, <2>1, <2>3 DEF PopBuffer
<1>9. ASSUME NEW t \in Copiers, StoreRetained(t) PROVE BufferShape'
      BY <1>5, <1>6, <1>9 DEF StoreRetained
<1>10. ASSUME NEW t \in Copiers, DropGuard(t) PROVE BufferShape'
  <2>1. guards[t][Len(guards[t])] \in Buffer
        BY <1>10, SMTT(60) DEF DropGuard
  <2>2. SubSeq(guards[t], 1, Len(guards[t]) - 1) \in Seq(Buffer)
        BY <1>10, SMTT(60) DEF DropGuard
  <2>3. guards[t][Len(guards[t])].len \in Nat /\ AtLeast(guards[t][Len(guards[t])].cap, PoolSize) \in Nat
        BY <2>1 DEF Buffer, AtLeast
  <2>4. [src |-> "guard", len |-> guards[t][Len(guards[t])].len,
         cap |-> AtLeast(guards[t][Len(guards[t])].cap, PoolSize)] \in Operation
        BY <2>3 DEF Operation
  <2>5. op' \in [Copiers -> Operation]
        BY <1>10, <2>4 DEF DropGuard
  <2>6. local' \in [Copiers -> Nat]
        BY <1>10, <2>3 DEF DropGuard
  <2>7. guards' \in [Copiers -> Seq(Buffer)]
        BY <1>10, <2>2 DEF DropGuard
  <2>8. QED BY <1>10, <2>5, <2>6, <2>7 DEF DropGuard
<1>11. ASSUME NEW t \in Copiers, PushBuffer(t) PROVE BufferShape'
      BY <1>6, <1>11, SMTT(60) DEF PushBuffer
<1>12. ASSUME NEW t \in Copiers, TrackReturn(t) PROVE BufferShape'
  <2>1. op' \in [Copiers -> Operation]
        BY <1>12 DEF TrackReturn, Notifying, Operation
  <2>2. QED BY <1>12, <2>1 DEF TrackReturn, Notifying
<1>13. ASSUME NEW t \in Copiers,
              Uncount(t) \/ LoadRetained(t) \/ Admit(t) \/ TakeSlot(t) \/ EndReturn(t)
       PROVE  BufferShape'
      BY <1>13 DEF Uncount, LoadRetained, Admit, TakeSlot, EndReturn
<1>14. QED
      BY <1>1, <1>3, <1>4, <1>7, <1>8, <1>9, <1>10, <1>11, <1>12, <1>13
      DEF PoolNext, Proceeds, Locks, poolVars

\* Every step of the pool is a step of the cap, or none.
LEMMA PoolStepsTheCap == BufferShape /\ [PoolNext]_poolVars => [CapNext]_capVars
<1> SUFFICES ASSUME BufferShape, [PoolNext]_poolVars PROVE [CapNext]_capVars
    OBVIOUS
<1> USE PoolAssumption DEF CapNext, Inside
<1>1. ASSUME NEW t \in Copiers, NEW n \in {PoolSize} \cup Adaptive, Acquire(t, n)
      PROVE  CapNext
      BY <1>1 DEF Acquire
<1>2. ASSUME NEW t \in Copiers, TryAcquire(t) PROVE CapNext \/ UNCHANGED capVars
      BY <1>2 DEF TryAcquire
<1>3. ASSUME NEW t \in Copiers, TrackReturn(t) PROVE CapNext
  <2>1. op[t].len \in Nat
        BY DEF BufferShape, Operation
  <2>2. QED BY <1>3, <2>1 DEF TrackReturn
<1>4. ASSUME NEW t \in Copiers, Locks(t) PROVE CapNext
      BY <1>4 DEF Locks, EndReturn
<1>5. ASSUME NEW t \in Copiers, Proceeds(t) PROVE CapNext \/ UNCHANGED capVars
      BY <1>3, <1>5
           DEF Proceeds, HandOutReserved, Allocate, PopBuffer, Uncount, LoadRetained,
                        StoreRetained, DropGuard, Admit, TakeSlot, PushBuffer
<1>6. QED
      BY <1>1, <1>2, <1>4, <1>5 DEF PoolNext, poolVars

\* No wake-up is lost (`wait_and_reserve' against `track_return'), for every number of
\* threads, limit, buffer size and configuration of the pool.
THEOREM NoWakeUpIsLost == PoolSpec => []NoLostWakeUp
<1>1. PoolInit => BufferShape /\ CapInv
      BY ShapeStart, CapStart DEF PoolInit
<1>2. BufferShape /\ CapInv /\ [PoolNext]_poolVars => (BufferShape /\ CapInv)'
      BY BufferShapeStep, PoolStepsTheCap, CapStep
<1>3. BufferShape /\ CapInv => NoLostWakeUp
      BY DEF CapInv
<1>4. QED BY <1>1, <1>2, <1>3, PTL DEF PoolSpec

-----------------------------------------------------------------------------
LEMMA SizeOfBetween ==
    ASSUME NEW S, IsFiniteSet(S), NEW t
    PROVE  /\ Cardinality(S) \in Nat
           /\ t \notin S => Cardinality(S \cup {t}) = Cardinality(S) + 1
           /\ t \in S => Cardinality(S \ {t}) = Cardinality(S) - 1
BY FS_CardinalityType, FS_AddElement, FS_RemoveElement

LEMMA BetweenIsFinite == IsFiniteSet(Between)
BY PoolAssumption, FS_Subset DEF Between

\* A step that moves one thread moves it into, out of or not across `Between'.
LEMMA Crossing ==
    ASSUME NEW t \in Copiers, NEW place \in Places, PlaceShape, Then(t, place)
    PROVE  Between' = IF place \in {"push", "popped"} THEN Between \cup {t} ELSE Between \ {t}
BY DEF PlaceShape, Then, Between

LEMMA CountStep ==
    ASSUME PlaceShape, BufferShape, CountCoversQueue, [PoolNext]_poolVars
    PROVE  CountCoversQueue'
<1> DEFINE n == Cardinality(Between)
<1> USE DEF CountCoversQueue, PlaceShape, centralVars
<1>0. /\ n \in Nat
      /\ \A t \in Copiers : t \notin Between => Cardinality(Between \cup {t}) = n + 1
      /\ \A t \in Copiers : t \in Between => Cardinality(Between \ {t}) = n - 1
      BY SizeOfBetween, BetweenIsFinite
<1>a. Len(buffers) \in Nat
      BY SMTT(60) DEF BufferShape
<1>1. ASSUME UNCHANGED <<poolcfg, buffers, central_count>>, Between' = Between
      PROVE  CountCoversQueue'
      BY <1>1
<1>2. CASE UNCHANGED poolOnlyVars
      BY <1>1, <1>2 DEF poolOnlyVars, Between
<1>3. ASSUME NEW t \in Copiers, NEW place \in Places \ {"push", "popped"}, Then(t, place),
             doing[t] \notin {"push", "popped"}
      PROVE  Between' = Between
      BY <1>3, Crossing DEF Between
<1> USE DEF Places
<1>4. ASSUME NEW t \in Copiers, NEW k \in {PoolSize} \cup Adaptive, Acquire(t, k)
      PROVE  CountCoversQueue'
      BY <1>1, <1>3, <1>4 DEF Acquire, Take
<1>5. ASSUME NEW t \in Copiers, TryAcquire(t) PROVE CountCoversQueue'
  <2>1. CASE Take(t, PoolSize)
        BY <1>1, <1>3, <1>5, <2>1 DEF TryAcquire, Take
  <2>2. CASE UNCHANGED doing
        BY <1>1, <1>5, <2>2 DEF TryAcquire, Between
  <2>3. QED BY <1>5, <2>1, <2>2 DEF TryAcquire
<1>6. ASSUME NEW t \in Copiers, HandOutReserved(t) \/ Allocate(t) PROVE CountCoversQueue'
      BY <1>1, <1>3, <1>6 DEF HandOutReserved, Allocate, HandOut
<1>7. ASSUME NEW t \in Copiers, PopBuffer(t) PROVE CountCoversQueue'
  <2>1. Between' = Between \cup {t} /\ t \notin Between
        BY <1>7, Crossing DEF PopBuffer, Between
  <2>2. Len(buffers') = Len(buffers) - 1
        BY <1>7, SMTT(60) DEF PopBuffer, BufferShape
  <2>3. Cardinality(Between') = n + 1
        BY <1>0, <2>1
  <2>4. central_count' = central_count /\ poolcfg' = poolcfg
        BY <1>7 DEF PopBuffer
  <2>5. QED BY <1>0, <1>a, <2>2, <2>3, <2>4, SMTT(60)
<1>8. ASSUME NEW t \in Copiers, Uncount(t) PROVE CountCoversQueue'
  <2>1. Between' = Between \ {t} /\ t \in Between
        BY <1>8, Crossing DEF Uncount, Between
  <2>2. QED BY <1>0, <1>8, <1>a, <2>1, SMTT(60) DEF Uncount
<1>9. ASSUME NEW t \in Copiers, LoadRetained(t) \/ Admit(t) PROVE CountCoversQueue'
      BY <1>1, <1>3, <1>9 DEF LoadRetained, Admit
<1>10. ASSUME NEW t \in Copiers, StoreRetained(t) PROVE CountCoversQueue'
      BY <1>1, <1>3, <1>10 DEF StoreRetained, HandOut
<1>11. ASSUME NEW t \in Copiers, DropGuard(t) PROVE CountCoversQueue'
      BY <1>1, <1>3, <1>11 DEF DropGuard
<1>12. ASSUME NEW t \in Copiers, TakeSlot(t) PROVE CountCoversQueue'
  <2>1. CASE central_count >= poolcfg.soft
        BY <1>1, <1>3, <1>12, <2>1 DEF TakeSlot
  <2>2. CASE ~(central_count >= poolcfg.soft)
    <3>1. Between' = Between \cup {t} /\ t \notin Between
          BY <1>12, <2>2, Crossing DEF TakeSlot, Between
    <3>2. poolcfg.soft \in Nat
          OBVIOUS
    <3>3. Cardinality(Between') = n + 1
          BY <1>0, <3>1
    <3>4. central_count' = central_count + 1 /\ poolcfg' = poolcfg /\ buffers' = buffers
          BY <1>12, <2>2 DEF TakeSlot
    <3>5. QED BY <1>0, <1>a, <2>2, <3>2, <3>3, <3>4, SMTT(60)
  <2>3. QED BY <2>1, <2>2
<1>13. ASSUME NEW t \in Copiers, PushBuffer(t) PROVE CountCoversQueue'
  <2>1. Between' = Between \ {t} /\ t \in Between
        BY <1>13, Crossing DEF PushBuffer, Between
  <2>2. Len(buffers') = Len(buffers) + 1
        BY <1>13, SMTT(60) DEF PushBuffer, BufferShape, Operation
  <2>3. Cardinality(Between') = n - 1
        BY <1>0, <2>1
  <2>4. central_count' = central_count /\ poolcfg' = poolcfg
        BY <1>13 DEF PushBuffer
  <2>5. QED BY <1>0, <1>a, <2>2, <2>3, <2>4, SMTT(60)
<1>14. ASSUME NEW t \in Copiers, TrackReturn(t) \/ EndReturn(t) PROVE CountCoversQueue'
      BY <1>1, <1>3, <1>14 DEF TrackReturn, EndReturn, Notifying
<1>15. QED
      BY <1>2, <1>4, <1>5, <1>6, <1>7, <1>8, <1>9, <1>10, <1>11, <1>12, <1>13, <1>14
      DEF PoolNext, Proceeds, Locks, poolVars

\* The slot count of the central queue covers it under any interleaving of any number
\* of threads (`admit_or_deallocate' against `pop_buffer'): a buffer that got a slot
\* is always taken by the queue, which never outgrows the soft capacity.
THEOREM QueueNeverOverflows == PoolSpec => []CountCoversQueue
<1> DEFINE Inv == PlaceShape /\ BufferShape /\ CountCoversQueue
<1>1. PoolInit => Inv
  <2> SUFFICES ASSUME PoolInit PROVE CountCoversQueue
      BY ShapeStart
  <2>1. Between = {}
        BY DEF PoolInit, Between
  <2>2. poolcfg.soft \in Nat
        BY ShapeStart DEF PlaceShape
  <2>3. QED BY <2>1, <2>2, FS_EmptySet, SMTT(60) DEF PoolInit, CountCoversQueue
<1>2. Inv /\ [PoolNext]_poolVars => Inv'
      BY PlaceShapeStep, BufferShapeStep, CountStep
<1>3. QED BY <1>1, <1>2, PTL DEF PoolSpec

-----------------------------------------------------------------------------
(* What is checked out                                                        *)

\* The bytes of the guards g of a thread.
Bytes(g) == MapThenSumSet(LAMBDA i : g[i].len, DOMAIN g)

\* The sum of the lengths is the sum over the positions.
LEMMA BytesAre ==
  ASSUME NEW g \in Seq(Buffer)
  PROVE  LET l == [i \in DOMAIN g |-> g[i].len]
         IN  Addends(l, DOMAIN g) /\ Bytes(g) = Total(l, DOMAIN g)
<1> DEFINE l == [i \in DOMAIN g |-> g[i].len]
           S == DOMAIN g
           F == CHOOSE iter : iter = [s \in SUBSET S |-> IF s = {} THEN 0
                   ELSE g[CHOOSE x \in s : TRUE].len + iter[s \ {CHOOSE x \in s : TRUE}]]
<1>1. Addends(l, S)
  <2>1. S = 1..Len(g) /\ Len(g) \in Nat /\ \A i \in S : g[i] \in Buffer
    BY SMTT(60)
  <2>2. 1 \in Int /\ Len(g) \in Int
    BY <2>1, SMTT(60)
  <2>3. IsFiniteSet(S)
    BY <2>1, <2>2, FS_Interval
  <2>4. \A i \in S : l[i] \in Nat
    BY <2>1 DEF Buffer
  <2>5. QED
    BY <2>3, <2>4 DEF Addends
<1>2. PICK G : SumsUp(G, l, S) /\ Total(l, S) = G[S]
  BY <1>1, TotalIs
<1>3. ASSUME NEW s \in SUBSET S, s # {}
      PROVE  g[CHOOSE x \in s : TRUE].len = l[CHOOSE x \in s : TRUE]
  <2>1. (CHOOSE x \in s : TRUE) \in S
    BY <1>3
  <2>2. \A i \in S : l[i] = g[i].len
    OBVIOUS
  <2>3. QED
    BY <2>1, <2>2
<1>4. Bytes(g) = F[S]
  BY DEF Bytes, MapThenSumSet, MapThenFoldSet
<1>5. G = [s \in SUBSET S |-> IF s = {} THEN 0
              ELSE g[CHOOSE x \in s : TRUE].len + G[s \ {CHOOSE x \in s : TRUE}]]
  BY <1>2, <1>3 DEF SumsUp
<1>6. F = [s \in SUBSET S |-> IF s = {} THEN 0
              ELSE g[CHOOSE x \in s : TRUE].len + F[s \ {CHOOSE x \in s : TRUE}]]
  BY <1>5
<1> HIDE DEF F, l
<1>7. SumsUp(F, l, S)
  <2>1. F = [s \in SUBSET S |-> IF s = {} THEN 0
              ELSE l[CHOOSE x \in s : TRUE] + F[s \ {CHOOSE x \in s : TRUE}]]
    BY <1>3, <1>6
  <2>2. QED
    BY <1>1, <2>1 DEF SumsUp, Addends
<1>8. Agree(F, l, S, G, l, S)
  BY <1>2, <1>7, SumsAgree
<1>9. F[S] = G[S]
  BY <1>8 DEF Agree
<1>10. QED
  BY <1>1, <1>2, <1>4, <1>9 DEF l

\* No guards, one more, one less.
LEMMA BytesMove ==
  ASSUME NEW g \in Seq(Buffer), NEW e \in Buffer
  PROVE  Bytes(g) \in Nat /\ Bytes(Append(g, e)) = Bytes(g) + e.len
<1> DEFINE h == Append(g, e)
           n == Len(g)
           l == [i \in DOMAIN g |-> g[i].len]
           m == [i \in DOMAIN h |-> h[i].len]
<1>1. /\ h \in Seq(Buffer) /\ n \in Nat
      /\ DOMAIN g = 1..n /\ DOMAIN h = (1..n) \cup {n + 1}
      /\ n + 1 \notin 1..n
      /\ h[n + 1] = e /\ \A i \in 1..n : h[i] = g[i]
  BY SMTT(60)
<1>2. e.len \in Nat
  BY DEF Buffer
<1>3. Addends(l, 1..n) /\ Bytes(g) = Total(l, 1..n)
  BY <1>1, BytesAre
<1>4. Addends(m, (1..n) \cup {n + 1}) /\ Bytes(h) = Total(m, (1..n) \cup {n + 1})
  <2> HIDE DEF h
  <2>1. Addends(m, DOMAIN h) /\ Bytes(h) = Total(m, DOMAIN h)
    BY <1>1, BytesAre
  <2>2. QED
    BY <1>1, <2>1
<1>5. m[n + 1] = e.len /\ \A i \in 1..n : l[i] = m[i]
  <2> HIDE DEF h
  <2>1. \A i \in DOMAIN h : m[i] = h[i].len
    OBVIOUS
  <2>2. QED
    BY <1>1, <2>1
<1> HIDE DEF h, l, m, n
<1>6. Total(l, 1..n) \in Nat /\ Total(m, 1..n) = Total(l, 1..n)
  BY <1>3, <1>5, TotalSame
<1>7. Addends(m, 1..n)
  BY <1>3, <1>5 DEF Addends
<1>8. Total(m, (1..n) \cup {n + 1}) = Total(m, 1..n) + m[n + 1]
  <2> DEFINE D == 1..n
             k == n + 1
  <2>1. Addends(m, D) /\ k \notin D /\ m[k] \in Nat
    BY <1>1, <1>2, <1>5, <1>7
  <2> HIDE DEF D, k
  <2>2. Total(m, D \cup {k}) = Total(m, D) + m[k]
    BY <2>1, TotalAdd
  <2>3. QED
    BY <2>2 DEF D, k
<1>9. QED
  BY <1>3, <1>4, <1>5, <1>6, <1>8 DEF h

LEMMA BytesNone == Bytes(<< >>) = 0
<1>1. << >> \in Seq(Buffer) /\ DOMAIN << >> = {}
  BY SMTT(60)
<1>2. QED
  BY <1>1, BytesAre, TotalOfNone

\* The last guard is dropped.
LEMMA BytesDrop ==
  ASSUME NEW g \in Seq(Buffer), g # << >>
  PROVE  /\ g[Len(g)] \in Buffer /\ SubSeq(g, 1, Len(g) - 1) \in Seq(Buffer)
         /\ Bytes(g) = Bytes(SubSeq(g, 1, Len(g) - 1)) + g[Len(g)].len
<1> DEFINE f == SubSeq(g, 1, Len(g) - 1)
           e == g[Len(g)]
<1>1. f \in Seq(Buffer) /\ e \in Buffer /\ Append(f, e) = g
  BY SMTT(60)
<1> HIDE DEF f, e
<1>2. Bytes(Append(f, e)) = Bytes(f) + e.len
  BY <1>1, BytesMove
<1>3. QED
  BY <1>1, <1>2 DEF f, e

\* What a thread has reserved outside its guards.
InProgress(d, a, o) == IF (d = "reserve" /\ a # "away") \/ d = "notify" THEN 0 ELSE o.len

\* The sum over the threads.
LEMMA AllBytes ==
  ASSUME NEW gs \in [Copiers -> Seq(Buffer)], NEW ds, NEW as, NEW os \in [Copiers -> Operation]
  PROVE  LET w == [t \in Copiers |-> Bytes(gs[t]) + InProgress(ds[t], as[t], os[t])]
         IN  /\ Addends(w, Copiers)
             /\ MapThenSumSet(LAMBDA t : Bytes(gs[t]) + InProgress(ds[t], as[t], os[t]), Copiers)
                  = Total(w, Copiers)
<1> DEFINE S == Copiers
           v(t) == Bytes(gs[t]) + InProgress(ds[t], as[t], os[t])
           w == [t \in S |-> v(t)]
           F == CHOOSE iter : iter = [s \in SUBSET S |-> IF s = {} THEN 0
                   ELSE v(CHOOSE x \in s : TRUE) + iter[s \ {CHOOSE x \in s : TRUE}]]
           M == MapThenSumSet(LAMBDA t : Bytes(gs[t]) + InProgress(ds[t], as[t], os[t]), Copiers)
<1>1. M = F[S]
  BY DEF MapThenSumSet, MapThenFoldSet
<1>2. Addends(w, S)
  <2>1. ASSUME NEW t \in S
        PROVE  v(t) \in Nat
    <3>1. Bytes(gs[t]) \in Nat
      <4>1. [len |-> 0, cap |-> 0] \in Buffer
        BY SMTT(60) DEF Buffer
      <4>2. gs[t] \in Seq(Buffer)
        OBVIOUS
      <4>3. QED
        BY <4>1, <4>2, BytesMove
    <3>2. InProgress(ds[t], as[t], os[t]) \in Nat
      <4>1. os[t].len \in Nat
        BY DEF Operation
      <4>2. 0 \in Nat
        BY SMTT(60)
      <4>3. QED
        BY <4>1, <4>2 DEF InProgress
    <3>3. \A a, b \in Nat : a + b \in Nat
      BY SMTT(60)
    <3>4. QED
      BY <3>1, <3>2, <3>3
  <2> HIDE DEF v
  <2>2. QED
    BY <2>1, PoolAssumption DEF Addends
<1> HIDE DEF v, M
<1>3. PICK G : SumsUp(G, w, S) /\ Total(w, S) = G[S]
  BY <1>2, TotalIs
<1>4. ASSUME NEW s \in SUBSET S, s # {}
      PROVE  v(CHOOSE x \in s : TRUE) = w[CHOOSE x \in s : TRUE]
  <2>1. (CHOOSE x \in s : TRUE) \in S
    BY <1>4
  <2>2. \A i \in S : w[i] = v(i)
    OBVIOUS
  <2>3. QED
    BY <2>1, <2>2
<1>5. G = [s \in SUBSET S |-> IF s = {} THEN 0
              ELSE v(CHOOSE x \in s : TRUE) + G[s \ {CHOOSE x \in s : TRUE}]]
  BY <1>3, <1>4 DEF SumsUp
<1>6. F = [s \in SUBSET S |-> IF s = {} THEN 0
              ELSE v(CHOOSE x \in s : TRUE) + F[s \ {CHOOSE x \in s : TRUE}]]
  BY <1>5
<1> HIDE DEF F, w
<1>7. SumsUp(F, w, S)
  <2>1. F = [s \in SUBSET S |-> IF s = {} THEN 0
              ELSE w[CHOOSE x \in s : TRUE] + F[s \ {CHOOSE x \in s : TRUE}]]
    BY <1>4, <1>6
  <2>2. QED
    BY <1>2, <2>1 DEF SumsUp, Addends
<1>8. Agree(F, w, S, G, w, S)
  BY <1>3, <1>7, SumsAgree
<1>9. F[S] = G[S]
  BY <1>8 DEF Agree
<1>10. QED
  BY <1>1, <1>2, <1>3, <1>9 DEF w, v, M

\* Where a thread is in the code of the pool and in the code of the cap fit together,
\* and so do the request it waits for and the buffer it is working on.
Waiting == {"slow", "check", "sleepy", "asleep"}
StageOf(g, a, d, o) ==
    /\ g \in Waiting => d = "reserve" /\ a = o.len
    /\ g = "notify" <=> d = "notify"
    /\ d \in {"idle", "notify"} => o.len = 0
    /\ o.src = "queue" => o.len = PoolSize
StageInv == \A t \in Copiers : StageOf(gate[t], asked[t], doing[t], op[t])

\* What a thread has checked out.
Share(t) == Bytes(guards[t]) + InProgress(doing[t], gate[t], op[t])

Exact == outstanding = MapThenSumSet(CheckedOut, Copiers)

\* The threads a step leaves alone.
Aside(t) ==
    \A u \in Copiers \ {t} :
        /\ guards'[u] = guards[u] /\ doing'[u] = doing[u] /\ op'[u] = op[u]
        /\ asked'[u] = asked[u]
        /\ gate'[u] = gate[u] \/ (gate[u] = "asleep" /\ gate'[u] = "slow")

\* A step changes the counter by what the share of one thread changes by.
LEMMA OneMoves ==
  ASSUME BufferShape, BufferShape', Exact, outstanding' \in Int, NEW t \in Copiers, Aside(t),
         outstanding' + Share(t) = outstanding + Share(t)'
  PROVE  Exact' /\ outstanding' \in Nat
<1> DEFINE f == [u \in Copiers |-> Bytes(guards[u]) + InProgress(doing[u], gate[u], op[u])]
           g == [u \in Copiers |-> Bytes(guards'[u]) + InProgress(doing'[u], gate'[u], op'[u])]
<1>1. guards \in [Copiers -> Seq(Buffer)] /\ op \in [Copiers -> Operation]
  BY DEF BufferShape
<1>2. guards' \in [Copiers -> Seq(Buffer)] /\ op' \in [Copiers -> Operation]
  BY DEF BufferShape
<1>3. /\ Addends(f, Copiers)
      /\ MapThenSumSet(LAMBDA u : Bytes(guards[u]) + InProgress(doing[u], gate[u], op[u]), Copiers)
           = Total(f, Copiers)
  BY <1>1, AllBytes
<1>4. /\ Addends(g, Copiers)
      /\ MapThenSumSet(LAMBDA u : Bytes(guards'[u]) + InProgress(doing'[u], gate'[u], op'[u]), Copiers)
           = Total(g, Copiers)
  BY <1>2, AllBytes
<1>5. outstanding = Total(f, Copiers)
  BY <1>3 DEF Exact, CheckedOut, Bytes, InProgress, MapThenSumSet, MapThenFoldSet
<1>6. MapThenSumSet(CheckedOut, Copiers)' = Total(g, Copiers)
  BY <1>4 DEF CheckedOut, Bytes, InProgress, MapThenSumSet, MapThenFoldSet
<1>7. f[t] = Share(t) /\ g[t] = Share(t)'
  BY DEF Share
<1>8. ASSUME NEW u \in Copiers, u # t
      PROVE  f[u] = g[u]
  <2>1. /\ guards'[u] = guards[u] /\ doing'[u] = doing[u] /\ op'[u] = op[u]
        /\ gate'[u] = gate[u] \/ (gate[u] = "asleep" /\ gate'[u] = "slow")
    BY <1>8 DEF Aside
  <2>2. InProgress(doing'[u], gate'[u], op'[u]) = InProgress(doing[u], gate[u], op[u])
    BY <2>1 DEF InProgress
  <2>3. QED
    BY <2>1, <2>2
<1> HIDE DEF f, g
<1>9. Total(g, Copiers) + f[t] = Total(f, Copiers) + g[t]
  <2>1. Addends(f, Copiers) /\ Addends(g, Copiers) /\ SameBut(f, g, Copiers, t)
    BY <1>3, <1>4, <1>8 DEF SameBut
  <2>2. QED
    BY <2>1, TotalChange, SMTT(60)
<1>10. f[t] \in Nat /\ g[t] \in Nat
  BY <1>3, <1>4 DEF Addends
<1>11. Total(g, Copiers) \in Nat
  BY <1>4, TotalSame
<1>12. outstanding' = Total(g, Copiers)
  <2> DEFINE o == outstanding'
             x == f[t]
             y == g[t]
             G == Total(g, Copiers)
  <2>1. /\ G + x = outstanding + y /\ o + x = outstanding + y
        /\ x \in Nat /\ y \in Nat /\ G \in Nat /\ o \in Int
    BY <1>5, <1>7, <1>9, <1>10, <1>11
  <2> HIDE DEF o, x, y, G
  <2>3. o = G
    BY <2>1, SMTT(60)
  <2>4. QED
    BY <2>3 DEF o, G
<1>13. QED
  BY <1>6, <1>11, <1>12 DEF Exact

\* The stages after a step of t.
LEMMA StagesMove ==
  ASSUME NEW t \in Copiers, StageInv, Aside(t), StageOf(gate'[t], asked'[t], doing'[t], op'[t])
  PROVE  StageInv'
<1>1. ASSUME NEW u \in Copiers
      PROVE  StageOf(gate'[u], asked'[u], doing'[u], op'[u])
  <2>1. CASE u = t
    BY <2>1
  <2>2. CASE u # t
    <3>1. StageOf(gate[u], asked[u], doing[u], op[u])
      BY DEF StageInv
    <3>2. /\ doing'[u] = doing[u] /\ op'[u] = op[u] /\ asked'[u] = asked[u]
          /\ gate'[u] = gate[u] \/ (gate[u] = "asleep" /\ gate'[u] = "slow")
      BY <2>2 DEF Aside
    <3>3. QED
      BY <3>1, <3>2 DEF StageOf, Waiting
  <2>3. QED
    BY <2>1, <2>2
<1>2. QED
  BY <1>1 DEF StageInv

\* A step of t that leaves its guards.
LEMMA KeepsGuards ==
  ASSUME BufferShape, BufferShape', CapType, CapType', StageInv, Exact, NEW t \in Copiers, Aside(t),
         guards'[t] = guards[t], StageOf(gate'[t], asked'[t], doing'[t], op'[t]),
         outstanding' + InProgress(doing[t], gate[t], op[t])
           = outstanding + InProgress(doing'[t], gate'[t], op'[t])
  PROVE  Exact' /\ StageInv'
<1> DEFINE p == InProgress(doing[t], gate[t], op[t])
           q == InProgress(doing'[t], gate'[t], op'[t])
           b == Bytes(guards[t])
<1>1. outstanding \in Int /\ outstanding' \in Int
  BY DEF CapType
<1>2. op[t].len \in Nat /\ op'[t].len \in Nat /\ guards[t] \in Seq(Buffer)
  BY DEF BufferShape, Operation
<1>3. 0 \in Nat /\ [len |-> 0, cap |-> 0] \in Buffer
  BY SMTT(60) DEF Buffer
<1>4. p \in Nat /\ q \in Nat
  BY <1>2, <1>3 DEF InProgress
<1>5. b \in Nat
  BY <1>2, <1>3, BytesMove
<1>6. Share(t) = b + p /\ Share(t)' = b + q
  BY DEF Share
<1>7. outstanding' + p = outstanding + q
  OBVIOUS
<1> HIDE DEF p, q, b
<1>8. outstanding' + (b + p) = outstanding + (b + q)
  <2> DEFINE x == outstanding
             y == outstanding'
  <2>1. x \in Int /\ y \in Int /\ y + p = x + q
    BY <1>1, <1>7
  <2> HIDE DEF x, y
  <2>2. y + (b + p) = x + (b + q)
    BY <1>4, <1>5, <2>1, SMTT(60)
  <2>3. QED
    BY <2>2 DEF x, y
<1>9. outstanding' + Share(t) = outstanding + Share(t)'
  BY <1>6, <1>8
<1>10. Exact'
  BY <1>1, <1>9, OneMoves
<1>11. QED
  BY <1>10, StagesMove

\* The first step of an acquisition.
LEMMA TakeIsExact ==
  ASSUME BufferShape, BufferShape', CapType, CapType', PlaceShape, StageInv, Exact,
         NEW t \in Copiers, NEW n \in Nat,
         doing[t] = "idle", WaitAndReserve(t, n) \/ TryReserve(t, n), Take(t, n), UNCHANGED guards
  PROVE  Exact' /\ StageInv'
<1> DEFINE o == Source(t, n)
<1>1. /\ o.len = n /\ (o.src = "queue" => o.len = PoolSize)
  BY DEF Source
<1> HIDE DEF o
<1>2. /\ op' = [op EXCEPT ![t] = o] /\ doing' = [doing EXCEPT ![t] = "reserve"]
      /\ gate[t] = "away"
      /\ \/ outstanding' = outstanding + n /\ gate' = gate /\ asked' = asked
         \/ /\ outstanding' = outstanding /\ gate' = [gate EXCEPT ![t] = "slow"]
            /\ asked' = [asked EXCEPT ![t] = n]
  BY DEF Take, Then, o, WaitAndReserve, TryReserve
<1>3. /\ gate \in [Copiers -> Gates] /\ asked \in [Copiers -> Nat]
      /\ op \in [Copiers -> Operation] /\ doing \in [Copiers -> Places]
  BY DEF CapType, BufferShape, PlaceShape
<1>4. Aside(t) /\ guards'[t] = guards[t]
  BY <1>2, <1>3 DEF Aside
<1>5. /\ op'[t] = o /\ doing'[t] = "reserve"
      /\ \/ outstanding' = outstanding + n /\ gate'[t] = "away"
         \/ outstanding' = outstanding /\ gate'[t] = "slow" /\ asked'[t] = n
  BY <1>2, <1>3
<1>6. InProgress(doing[t], gate[t], op[t]) = 0
  BY DEF InProgress, StageInv, StageOf
<1>7. outstanding' = outstanding + InProgress(doing'[t], gate'[t], op'[t])
  <2>1. CASE outstanding' = outstanding + n /\ gate'[t] = "away"
    BY <1>1, <1>5, <2>1 DEF InProgress
  <2>2. CASE outstanding' = outstanding /\ gate'[t] = "slow"
    <3>1. InProgress(doing'[t], gate'[t], op'[t]) = 0
      BY <1>5, <2>2 DEF InProgress
    <3>2. outstanding = outstanding + 0
      BY SMTT(60) DEF CapType
    <3>3. QED
      BY <2>2, <3>1, <3>2
  <2>3. QED
    BY <1>5, <2>1, <2>2
<1>8. outstanding' + 0 = outstanding'
  <2>1. \A x \in Int : x + 0 = x
    BY SMTT(60)
  <2>2. QED
    BY <2>1 DEF CapType
<1>9. StageOf(gate'[t], asked'[t], doing'[t], op'[t])
  BY <1>1, <1>5 DEF StageOf, Waiting
<1>10. QED
  BY <1>4, <1>6, <1>7, <1>8, <1>9, KeepsGuards

\* The reservation becomes a guard.
LEMMA HandOutIsExact ==
  ASSUME BufferShape, BufferShape', CapType, CapType', PlaceShape, StageInv, Exact,
         NEW t \in Copiers, NEW n \in Nat, NEW c \in Nat, op[t].len = n, gate[t] = "away",
         doing[t] # "notify", HandOut(t, n, c), UNCHANGED <<outstanding, gate, asked>>
  PROVE  Exact' /\ StageInv'
<1> DEFINE e == [len |-> n, cap |-> c]
           z == [src |-> "none", len |-> 0, cap |-> 0]
           b == Bytes(guards[t])
<1>1. /\ gate \in [Copiers -> Gates] /\ guards \in [Copiers -> Seq(Buffer)]
      /\ op \in [Copiers -> Operation] /\ doing \in [Copiers -> Places]
  BY DEF CapType, BufferShape, PlaceShape
<1>2. /\ guards' = [guards EXCEPT ![t] = Append(guards[t], e)]
      /\ doing' = [doing EXCEPT ![t] = "idle"] /\ op' = [op EXCEPT ![t] = z]
  BY DEF HandOut, Then
<1>0. z.len = 0 /\ z.src = "none"
  OBVIOUS
<1> HIDE DEF z
<1>3. /\ Aside(t) /\ guards'[t] = Append(guards[t], e) /\ doing'[t] = "idle" /\ op'[t] = z
      /\ gate'[t] = "away"
  BY <1>1, <1>2 DEF Aside
<1>4. e \in Buffer /\ e.len = n /\ guards[t] \in Seq(Buffer)
  BY <1>1 DEF Buffer
<1>5. InProgress(doing[t], gate[t], op[t]) = n /\ InProgress(doing'[t], gate'[t], op'[t]) = 0
  <2>1. op'[t].len = 0
    BY <1>0, <1>3
  <2>2. InProgress(doing'[t], gate'[t], op'[t]) = 0
    BY <2>1 DEF InProgress
  <2>3. QED
    BY <2>2 DEF InProgress
<1> HIDE DEF e
<1>6. b \in Nat /\ Bytes(guards'[t]) = b + n
  BY <1>3, <1>4, BytesMove
<1> HIDE DEF b
<1>7. Share(t) = b + n /\ Share(t)' = (b + n) + 0
  BY <1>5, <1>6 DEF Share, b
<1>8. outstanding + (b + n) = outstanding + ((b + n) + 0)
  BY <1>6, SMTT(60) DEF CapType
<1>9. outstanding' + Share(t) = outstanding + Share(t)' /\ outstanding' \in Int
  BY <1>7, <1>8 DEF CapType
<1>10. Exact'
  BY <1>3, <1>9, OneMoves
<1>11. StageOf(gate'[t], asked'[t], doing'[t], op'[t])
  <2>1. op'[t].len = 0 /\ op'[t].src = "none"
    BY <1>0, <1>3
  <2>2. QED
    BY <1>3, <2>1 DEF StageOf, Waiting
<1>12. QED
  BY <1>3, <1>10, <1>11, StagesMove

\* A guard is dropped: its bytes are those of the operation now.
LEMMA DropIsExact ==
  ASSUME BufferShape, BufferShape', CapType, CapType', PlaceShape, StageInv, Exact,
         NEW t \in Copiers, gate[t] = "away", DropGuard(t)
  PROVE  Exact' /\ StageInv'
<1> DEFINE g == guards[t]
           e == g[Len(g)]
           h == SubSeq(g, 1, Len(g) - 1)
           o == op'[t]
<1>1. /\ gate \in [Copiers -> Gates] /\ guards \in [Copiers -> Seq(Buffer)]
      /\ op \in [Copiers -> Operation] /\ doing \in [Copiers -> Places]
  BY DEF CapType, BufferShape, PlaceShape
<1>2. /\ doing[t] = "idle" /\ g # << >>
      /\ guards' = [guards EXCEPT ![t] = h] /\ UNCHANGED <<outstanding, gate, asked>>
  BY DEF DropGuard, capVars
<1>3. o.len = e.len /\ o.src = "guard" /\ doing'[t] \in {"return", "admit"}
      /\ \A u \in Copiers \ {t} : op'[u] = op[u] /\ doing'[u] = doing[u]
  BY <1>1 DEF DropGuard, Then
<1>4. Aside(t) /\ guards'[t] = h /\ gate'[t] = "away"
  BY <1>1, <1>2, <1>3 DEF Aside
<1>5. e \in Buffer /\ h \in Seq(Buffer) /\ Bytes(g) = Bytes(h) + e.len
  BY <1>1, <1>2, BytesDrop
<1>6. Bytes(h) \in Nat /\ e.len \in Nat
  BY <1>5, BytesMove DEF Buffer
<1>7. InProgress(doing[t], gate[t], op[t]) = 0 /\ InProgress(doing'[t], gate'[t], op'[t]) = e.len
  BY <1>2, <1>3, <1>4 DEF InProgress, StageInv, StageOf
<1> HIDE DEF e, h
<1>8. Share(t) = (Bytes(h) + e.len) + 0 /\ Share(t)' = Bytes(h) + e.len
  BY <1>4, <1>5, <1>7 DEF Share
<1> DEFINE b == Bytes(h)
           k == e.len
<1>9. b \in Nat /\ k \in Nat /\ outstanding \in Int
  BY <1>6 DEF CapType
<1> HIDE DEF b, k
<1>10. outstanding + ((b + k) + 0) = outstanding + (b + k)
  BY <1>9, SMTT(60)
<1>11. outstanding' + Share(t) = outstanding + Share(t)' /\ outstanding' \in Int
  BY <1>2, <1>8, <1>9, <1>10 DEF b, k
<1>12. Exact'
  BY <1>4, <1>11, OneMoves
<1>13. StageOf(gate'[t], asked'[t], doing'[t], op'[t])
  BY <1>3, <1>4 DEF StageOf, Waiting
<1>14. QED
  BY <1>4, <1>12, <1>13, StagesMove

\* A step of t through the pool's code, the buffer in its hands.
LEMMA CarryIsExact ==
  ASSUME BufferShape, BufferShape', CapType, CapType', PlaceShape, StageInv, Exact,
         NEW t \in Copiers, NEW d \in Places \ {"idle", "reserve", "notify"},
         doing[t] \in Places \ {"idle", "reserve", "notify"} \/ (doing[t] = "reserve" /\ gate[t] = "away"),
         doing' = [doing EXCEPT ![t] = d], UNCHANGED <<outstanding, gate, asked, guards>>,
         op'[t].len = op[t].len, op'[t].src = op[t].src,
         \A u \in Copiers \ {t} : op'[u] = op[u]
  PROVE  Exact' /\ StageInv'
<1>1. doing'[t] = d /\ \A u \in Copiers \ {t} : doing'[u] = doing[u]
  BY DEF PlaceShape
<1>2. Aside(t) /\ guards'[t] = guards[t] /\ gate'[t] = gate[t] /\ asked'[t] = asked[t]
  BY <1>1 DEF Aside
<1>3. InProgress(doing[t], gate[t], op[t]) = op[t].len
  BY DEF InProgress
<1>4. InProgress(doing'[t], gate'[t], op'[t]) = op[t].len
  BY <1>1 DEF InProgress
<1>5. StageOf(gate[t], asked[t], doing[t], op[t])
  BY DEF StageInv
<1>6. StageOf(gate'[t], asked'[t], doing'[t], op'[t])
  BY <1>1, <1>2, <1>5 DEF StageOf, Waiting
<1>7. outstanding' + op[t].len = outstanding + op[t].len
  OBVIOUS
<1>8. QED
  BY <1>2, <1>3, <1>4, <1>6, <1>7, KeepsGuards

\* A thread outside the cap's code.
LEMMA AwayFrom ==
  ASSUME CapType, StageInv, NEW t \in Copiers, doing[t] \notin {"reserve", "notify"}
  PROVE  gate[t] = "away"
BY DEF CapType, StageInv, StageOf, Waiting, Gates

\* The steps of the cap's code.
LEMMA WaitIsExact ==
  ASSUME BufferShape, BufferShape', CapType, CapType', PlaceShape, StageInv, Exact,
         NEW t \in Copiers, UNCHANGED poolOnlyVars,
         Recheck(t) \/ Sleep(t) \/ LockSlow(t) \/ SpuriousWakeUp(t)
  PROVE  Exact' /\ StageInv'
<1>1. /\ guards' = guards /\ doing' = doing /\ op' = op
      /\ gate \in [Copiers -> Gates] /\ asked \in [Copiers -> Nat]
  BY DEF poolOnlyVars, CapType
<1>2. StageOf(gate[t], asked[t], doing[t], op[t])
  BY DEF StageInv
<1>3. gate[t] \in Waiting
  BY DEF Recheck, Sleep, LockSlow, SpuriousWakeUp, Waiting
<1>4. doing[t] = "reserve" /\ asked[t] = op[t].len /\ gate[t] # "away"
  BY <1>2, <1>3 DEF StageOf, Waiting
<1>5. InProgress(doing[t], gate[t], op[t]) = 0
  BY <1>4 DEF InProgress
<1>6. outstanding' \in Int /\ outstanding \in Int /\ \A x \in Int : x + 0 = x
  BY SMTT(60) DEF CapType
<1>7. CASE outstanding' = outstanding + asked[t] /\ gate' = [gate EXCEPT ![t] = "away"]
           /\ asked' = [asked EXCEPT ![t] = 0]
  <2>1. Aside(t) /\ gate'[t] = "away"
    BY <1>1, <1>7 DEF Aside
  <2>2. InProgress(doing'[t], gate'[t], op'[t]) = asked[t]
    BY <1>1, <1>4, <2>1 DEF InProgress
  <2>3. StageOf(gate'[t], asked'[t], doing'[t], op'[t])
    BY <1>1, <1>2, <1>4, <2>1 DEF StageOf, Waiting
  <2>4. outstanding' + 0 = outstanding + asked[t]
    BY <1>6, <1>7
  <2>5. QED
    BY <1>1, <1>5, <2>1, <2>2, <2>3, <2>4, KeepsGuards
<1>8. CASE outstanding' = outstanding /\ asked' = asked
           /\ \E a \in Waiting : gate' = [gate EXCEPT ![t] = a]
  <2>1. Aside(t) /\ gate'[t] \in Waiting
    BY <1>1, <1>8 DEF Aside
  <2>2. InProgress(doing'[t], gate'[t], op'[t]) = 0
    BY <1>1, <1>4, <2>1 DEF InProgress, Waiting
  <2>3. StageOf(gate'[t], asked'[t], doing'[t], op'[t])
    BY <1>1, <1>2, <1>4, <1>8, <2>1 DEF StageOf, Waiting
  <2>4. outstanding' + 0 = outstanding + 0
    BY <1>8
  <2>5. QED
    BY <1>1, <1>5, <2>1, <2>2, <2>3, <2>4, KeepsGuards
<1>9. QED
  BY <1>7, <1>8 DEF Recheck, Sleep, LockSlow, SpuriousWakeUp, Waiting

\* The bytes of a returned buffer leave the counter with the operation.
LEMMA ReturnIsExact ==
  ASSUME BufferShape, BufferShape', CapType, CapType', PlaceShape, StageInv, Exact,
         NEW t \in Copiers, TrackReturn(t)
  PROVE  Exact' /\ StageInv'
<1> DEFINE z == [src |-> "none", len |-> 0, cap |-> 0]
           n == op[t].len
<1>1. z.len = 0 /\ z.src = "none"
  OBVIOUS
<1> HIDE DEF z
<1>2. /\ doing[t] = "return" /\ gate[t] = "away" /\ outstanding' = outstanding - n
      /\ gate' = [gate EXCEPT ![t] = "notify"] /\ asked' = asked /\ guards' = guards
      /\ doing' = [doing EXCEPT ![t] = "notify"] /\ op' = [op EXCEPT ![t] = z]
  BY DEF TrackReturn, GiveBack, Notifying, Then, z
<1>3. /\ gate \in [Copiers -> Gates] /\ asked \in [Copiers -> Nat]
      /\ op \in [Copiers -> Operation] /\ doing \in [Copiers -> Places]
  BY DEF CapType, BufferShape, PlaceShape
<1>4. /\ Aside(t) /\ guards'[t] = guards[t] /\ gate'[t] = "notify" /\ doing'[t] = "notify"
      /\ op'[t] = z
  BY <1>2, <1>3 DEF Aside
<1>5. InProgress(doing[t], gate[t], op[t]) = n /\ InProgress(doing'[t], gate'[t], op'[t]) = 0
  BY <1>2, <1>4 DEF InProgress
<1>6. n \in Nat
  BY <1>3 DEF Operation
<1> HIDE DEF n
<1>7. outstanding' + n = outstanding + 0
  <2>1. (outstanding - n) + n = outstanding + 0
    BY <1>6, SMTT(60) DEF CapType
  <2>2. QED
    BY <1>2, <2>1
<1>8. StageOf(gate'[t], asked'[t], doing'[t], op'[t])
  <2>1. op'[t].len = 0 /\ op'[t].src = "none"
    BY <1>1, <1>4
  <2>2. QED
    BY <1>4, <2>1 DEF StageOf, Waiting
<1>9. QED
  BY <1>4, <1>5, <1>7, <1>8, KeepsGuards

\* The notification.
LEMMA NotifyIsExact ==
  ASSUME BufferShape, BufferShape', CapType, CapType', PlaceShape, StageInv, Exact,
         NEW t \in Copiers, EndReturn(t)
  PROVE  Exact' /\ StageInv'
<1>1. /\ doing[t] = "notify" /\ gate[t] = "notify" /\ outstanding' = outstanding
      /\ gate' = [u \in Copiers |-> IF u = t THEN "away"
                                    ELSE IF gate[u] = "asleep" THEN "slow" ELSE gate[u]]
      /\ asked' = asked /\ guards' = guards /\ op' = op
      /\ doing' = [doing EXCEPT ![t] = "idle"]
  BY DEF EndReturn, Notify, Then
<1>2. gate'[t] = "away" /\ doing'[t] = "idle" /\ op'[t] = op[t]
  BY <1>1 DEF PlaceShape
<1>3. Aside(t)
  BY <1>1 DEF Aside, PlaceShape
<1>4. StageOf(gate[t], asked[t], doing[t], op[t])
  BY DEF StageInv
<1>5. op[t].len = 0
  BY <1>1, <1>4 DEF StageOf
<1>6. InProgress(doing[t], gate[t], op[t]) = 0 /\ InProgress(doing'[t], gate'[t], op'[t]) = 0
  BY <1>1, <1>2, <1>5 DEF InProgress
<1>7. StageOf(gate'[t], asked'[t], doing'[t], op'[t])
  BY <1>2, <1>4, <1>5 DEF StageOf, Waiting
<1>8. QED
  BY <1>1, <1>3, <1>6, <1>7, KeepsGuards

\* The counter is exact after every step of the pool.
LEMMA ExactStep ==
  ASSUME BufferShape, CapInv, PlaceShape, StageInv, Exact, [PoolNext]_poolVars
  PROVE  Exact' /\ StageInv'
<1>1. BufferShape' /\ CapType /\ CapType'
  BY BufferShapeStep, PoolStepsTheCap, CapStep DEF CapInv
<1>2. CASE UNCHANGED <<outstanding, gate, asked, guards, doing, op>>
  <2> DEFINE f == [t \in Copiers |-> Bytes(guards[t]) + InProgress(doing[t], gate[t], op[t])]
             g == [t \in Copiers |-> Bytes(guards'[t]) + InProgress(doing'[t], gate'[t], op'[t])]
  <2>1. /\ Addends(f, Copiers)
        /\ MapThenSumSet(LAMBDA t : Bytes(guards[t]) + InProgress(doing[t], gate[t], op[t]), Copiers)
             = Total(f, Copiers)
    <3>1. guards \in [Copiers -> Seq(Buffer)] /\ op \in [Copiers -> Operation]
      BY DEF BufferShape
    <3>2. QED
      BY <3>1, AllBytes
  <2>2. /\ Addends(g, Copiers)
        /\ MapThenSumSet(LAMBDA t : Bytes(guards'[t]) + InProgress(doing'[t], gate'[t], op'[t]), Copiers)
             = Total(g, Copiers)
    <3>1. guards' \in [Copiers -> Seq(Buffer)] /\ op' \in [Copiers -> Operation]
      BY <1>1 DEF BufferShape
    <3>2. QED
      BY <3>1, AllBytes
  <2>3. MapThenSumSet(CheckedOut, Copiers) = Total(f, Copiers)
    BY <2>1 DEF CheckedOut, Bytes, InProgress, MapThenSumSet, MapThenFoldSet
  <2>4. MapThenSumSet(CheckedOut, Copiers)' = Total(g, Copiers)
    BY <2>2 DEF CheckedOut, Bytes, InProgress, MapThenSumSet, MapThenFoldSet
  <2>5. \A t \in Copiers : f[t] = g[t]
    BY <1>2
  <2> HIDE DEF f, g
  <2>6. Total(g, Copiers) = Total(f, Copiers)
    BY <2>1, <2>5, TotalSame
  <2>7. Exact'
    BY <1>2, <2>3, <2>4, <2>6 DEF Exact
  <2>8. StageInv'
    BY <1>2 DEF StageInv
  <2>9. QED
    BY <2>7, <2>8
<1>3. ASSUME NEW t \in Copiers, NEW n \in {PoolSize} \cup Adaptive, Acquire(t, n)
      PROVE  Exact' /\ StageInv'
  <2>1. n \in Nat
    BY PoolAssumption
  <2>2. doing[t] = "idle" /\ WaitAndReserve(t, n) /\ Take(t, n) /\ UNCHANGED guards
    BY <1>3 DEF Acquire
  <2>3. QED
    BY <1>1, <2>1, <2>2, TakeIsExact
<1>4. ASSUME NEW t \in Copiers, TryAcquire(t)
      PROVE  Exact' /\ StageInv'
  <2>1. CASE TryReserve(t, PoolSize) /\ Take(t, PoolSize)
    <3>1. PoolSize \in Nat /\ doing[t] = "idle" /\ UNCHANGED guards
      BY <1>4, PoolAssumption DEF TryAcquire
    <3>2. QED
      BY <1>1, <2>1, <3>1, TakeIsExact
  <2>2. CASE UNCHANGED <<capVars, op, local, doing>>
    BY <1>2, <1>4, <2>2 DEF TryAcquire, capVars
  <2>3. QED
    BY <1>4, <2>1, <2>2 DEF TryAcquire
<1>5. ASSUME NEW t \in Copiers, HandOutReserved(t) \/ Allocate(t) \/ StoreRetained(t)
      PROVE  Exact' /\ StageInv'
  <2>1. /\ op[t].len \in Nat /\ op[t].cap \in Nat /\ PoolSize \in Nat
        /\ op[t].src = "queue" => op[t].len = PoolSize
    BY PoolAssumption DEF BufferShape, Operation, StageInv, StageOf
  <2>2. (doing[t] = "reserve" /\ gate[t] = "away") \/ doing[t] = "store"
    BY <1>5 DEF HandOutReserved, Allocate, StoreRetained
  <2>3. gate[t] = "away" /\ doing[t] # "notify"
    BY <1>1, <2>2, AwayFrom
  <2>4. UNCHANGED <<outstanding, gate, asked>>
    BY <1>5 DEF HandOutReserved, Allocate, StoreRetained, capVars
  <2>5. CASE \E c \in Nat : HandOut(t, op[t].len, c)
    BY <1>1, <2>1, <2>3, <2>4, <2>5, HandOutIsExact
  <2>6. CASE StoreRetained(t) /\ op[t].src # "queue"
    <3>1. doing[t] = "store" /\ doing' = [doing EXCEPT ![t] = "return"] /\ op' = op /\ guards' = guards
      BY <2>6 DEF StoreRetained, Then
    <3>2. "return" \in Places \ {"idle", "reserve", "notify"}
          /\ doing[t] \in Places \ {"idle", "reserve", "notify"}
      BY <3>1 DEF Places
    <3>3. QED
      BY <1>1, <2>4, <3>1, <3>2, CarryIsExact
  <2>7. QED
    BY <1>5, <2>1, <2>5, <2>6 DEF HandOutReserved, Allocate, StoreRetained
<1>6. ASSUME NEW t \in Copiers, PopBuffer(t)
      PROVE  Exact' /\ StageInv'
  <2>1. /\ doing[t] = "reserve" /\ gate[t] = "away" /\ op[t].src = "queue"
        /\ doing' = [doing EXCEPT ![t] = "popped"]
        /\ op' = [op EXCEPT ![t] = [src |-> "queue", len |-> PoolSize, cap |-> Head(buffers)]]
        /\ UNCHANGED <<outstanding, gate, asked, guards>>
    BY <1>6 DEF PopBuffer, Then, capVars
  <2>2. op[t].len = PoolSize
    BY <2>1 DEF StageInv, StageOf
  <2>3. op'[t].len = PoolSize /\ op'[t].src = "queue" /\ \A u \in Copiers \ {t} : op'[u] = op[u]
    BY <2>1 DEF BufferShape
  <2>4. "popped" \in Places \ {"idle", "reserve", "notify"}
    BY DEF Places
  <2>5. QED
    BY <1>1, <2>1, <2>2, <2>3, <2>4, CarryIsExact
<1>7. ASSUME NEW t \in Copiers,
             Uncount(t) \/ LoadRetained(t) \/ Admit(t) \/ TakeSlot(t) \/ PushBuffer(t)
      PROVE  Exact' /\ StageInv'
  <2>1. UNCHANGED <<outstanding, gate, asked, guards, op>>
    BY <1>7 DEF Uncount, LoadRetained, Admit, TakeSlot, PushBuffer, capVars
  <2>2. PICK d \in {"return", "slot", "release", "push", "store"} : doing' = [doing EXCEPT ![t] = d]
    BY <1>7 DEF Uncount, LoadRetained, Admit, TakeSlot, PushBuffer, Then
  <2>3. doing[t] \in Places \ {"idle", "reserve", "notify"} /\ d \in Places \ {"idle", "reserve", "notify"}
    BY <1>7, <2>2 DEF Uncount, LoadRetained, Admit, TakeSlot, PushBuffer, Places
  <2>4. QED
    BY <1>1, <2>1, <2>2, <2>3, CarryIsExact
<1>8. ASSUME NEW t \in Copiers, DropGuard(t)
      PROVE  Exact' /\ StageInv'
  <2>1. doing[t] = "idle"
    BY <1>8 DEF DropGuard
  <2>2. gate[t] = "away"
    BY <1>1, <2>1, AwayFrom
  <2>3. QED
    BY <1>1, <1>8, <2>2, DropIsExact
<1>9. ASSUME NEW t \in Copiers, TrackReturn(t) \/ EndReturn(t)
      PROVE  Exact' /\ StageInv'
  BY <1>1, <1>9, ReturnIsExact, NotifyIsExact
<1>10. ASSUME NEW t \in Copiers, UNCHANGED poolOnlyVars,
              Recheck(t) \/ Sleep(t) \/ LockSlow(t) \/ SpuriousWakeUp(t)
       PROVE  Exact' /\ StageInv'
  BY <1>1, <1>10, WaitIsExact
<1>11. CASE UNCHANGED poolVars
  BY <1>2, <1>11 DEF poolVars, capVars, poolOnlyVars
<1>12. QED
  BY <1>3, <1>4, <1>5, <1>6, <1>7, <1>8, <1>9, <1>10, <1>11 DEF PoolNext, Proceeds, Locks

LEMMA ExactStart == PoolInit => Exact /\ StageInv
<1> SUFFICES ASSUME PoolInit PROVE Exact /\ StageInv
  OBVIOUS
<1>1. BufferShape
  BY ShapeStart
<1>2. ASSUME NEW t \in Copiers
      PROVE  guards[t] = << >> /\ op[t].len = 0 /\ op[t].src = "none" /\ doing[t] = "idle"
             /\ gate[t] = "away"
  BY DEF PoolInit, CapInit
<1>3. StageInv
  BY <1>2 DEF StageInv, StageOf, Waiting
<1> DEFINE w == [t \in Copiers |-> Bytes(guards[t]) + InProgress(doing[t], gate[t], op[t])]
<1>4. /\ Addends(w, Copiers)
      /\ MapThenSumSet(LAMBDA t : Bytes(guards[t]) + InProgress(doing[t], gate[t], op[t]), Copiers)
           = Total(w, Copiers)
  <2>1. guards \in [Copiers -> Seq(Buffer)] /\ op \in [Copiers -> Operation]
    BY <1>1 DEF BufferShape
  <2>2. QED
    BY <2>1, AllBytes
<1>5. MapThenSumSet(CheckedOut, Copiers) = Total(w, Copiers)
  BY <1>4 DEF CheckedOut, Bytes, InProgress, MapThenSumSet, MapThenFoldSet
<1>6. \A t \in Copiers : w[t] = 0
  <2>1. ASSUME NEW t \in Copiers
        PROVE  w[t] = 0
    <3>1. Bytes(guards[t]) = 0 /\ InProgress(doing[t], gate[t], op[t]) = 0
      BY <1>2, BytesNone DEF InProgress
    <3>2. 0 + 0 = 0
      BY SMTT(60)
    <3>3. QED
      BY <3>1, <3>2
  <2>2. QED
    BY <2>1
<1> HIDE DEF w
<1>7. Total(w, Copiers) = 0
  BY <1>4, <1>6, TotalOfZeros
<1>8. QED
  BY <1>3, <1>5, <1>7 DEF Exact, PoolInit, CapInit

\* The counter of the cap (`MemoryCap::outstanding') is at every moment the sum of what
\* is checked out, and never above the limit, whatever the number of threads, the sizes,
\* the limit and the configuration of the pool.
THEOREM CapAlwaysExact == PoolSpec => []CapIsExact
<1> DEFINE Inv == BufferShape /\ CapInv /\ PlaceShape /\ StageInv /\ Exact
<1>1. PoolInit => Inv
  BY ShapeStart, CapStart, ExactStart DEF PoolInit
<1>2. Inv /\ [PoolNext]_poolVars => Inv'
  BY BufferShapeStep, PlaceShapeStep, PoolStepsTheCap, CapStep, ExactStep
<1>3. Inv => CapIsExact
  BY DEF CapInv, CapType, CapIsExact, Exact
<1>4. QED
  BY <1>1, <1>2, <1>3, PTL DEF PoolSpec
==============================================================================
