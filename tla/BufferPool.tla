------------------------------ MODULE BufferPool ------------------------------
(***************************************************************************)
(* The pool of copy buffers (`BufferPool'): a one-buffer cache per thread, a *)
(* lock-free central queue bounded by a count and by a budget of retained    *)
(* bytes, and the memory cap of module MemoryCap on what is checked out.     *)
(*                                                                         *)
(* A thread's operation is a sequence of steps on shared state, one atomic   *)
(* access each, with the buffer it carries in `op'.  A buffer is its         *)
(* capacity, as long as it is at rest its length is PoolSize.  One pool, no  *)
(* adaptive resizing (no caller enables it).  Threads take one buffer at a   *)
(* time when they may block, as the callers do, and a second one only by     *)
(* try_acquire.                                                              *)
(***************************************************************************)
EXTENDS MemoryCap, Sequences, FiniteSets, FiniteSetsExt

CONSTANTS PoolSize,      \* buffer_size of the pool
          Adaptive,      \* other sizes adaptive_buffer_size may choose
          PoolCfgs,      \* [soft |-> soft_capacity, budget |-> bytes]
          Calls          \* acquisitions of a thread

ASSUME PoolAssumption ==
    /\ IsFiniteSet(Copiers)
    /\ PoolSize \in Nat \ {0}
    /\ Adaptive \subseteq Nat
    /\ PoolCfgs \subseteq [soft : Nat, budget : Nat]

VARIABLES poolcfg,        \* the pool's configuration, one of PoolCfgs
          buffers,        \* the central queue: capacities
          central_count,  \* slots taken in it
          retained,       \* bytes charged to the budget
          local,          \* the thread-local caches: a capacity, 0 when empty
          guards,         \* checked-out buffers of each thread: [len, cap]
          doing,          \* where each thread is in the pool's code
          op,             \* the buffer it is working on: [src, len, cap]
          prev,           \* what its release of the budget has loaded
          left            \* acquisitions left

centralVars == <<buffers, central_count, retained>>
poolOnlyVars == <<poolcfg, centralVars, local, guards, doing, op, prev, left>>
poolVars == <<capVars, poolOnlyVars>>

PoolInit ==
    /\ CapInit
    /\ poolcfg \in PoolCfgs
    /\ buffers = <<>>
    /\ central_count = 0
    /\ retained = 0
    /\ local = [t \in Copiers |-> 0]
    /\ guards = [t \in Copiers |-> <<>>]
    /\ doing = [t \in Copiers |-> "idle"]
    /\ op = [t \in Copiers |-> [src |-> "none", len |-> 0, cap |-> 0]]
    /\ prev = [t \in Copiers |-> 0]
    /\ left = [t \in Copiers |-> Calls]

Then(t, place) == doing' = [doing EXCEPT ![t] = place]

\* Where the buffer comes from: the cache (which gives it up before the wait), else
\* the central queue; an adaptive size is always allocated.
Source(t, n) ==
    IF n # PoolSize THEN [src |-> "new", len |-> n, cap |-> n]
    ELSE IF local[t] > 0 THEN [src |-> "cache", len |-> n, cap |-> local[t]]
    ELSE [src |-> "queue", len |-> n, cap |-> 0]

Take(t, n) ==
    /\ op' = [op EXCEPT ![t] = Source(t, n)]
    /\ local' = IF n = PoolSize THEN [local EXCEPT ![t] = 0] ELSE local
    /\ Then(t, "reserve")

\* acquire, acquire_adaptive: take from the cache, then wait for the cap.
Acquire(t, n) ==
    /\ doing[t] = "idle"
    /\ left[t] > 0
    /\ guards[t] = <<>>
    /\ WaitAndReserve(t, n)
    /\ Take(t, n)
    /\ left' = [left EXCEPT ![t] = @ - 1]
    /\ UNCHANGED <<poolcfg, centralVars, guards, prev>>

\* try_acquire: no room leaves the cache as it was.
TryAcquire(t) ==
    /\ doing[t] = "idle"
    /\ left[t] > 0
    /\ Len(guards[t]) < 2
    /\ left' = [left EXCEPT ![t] = @ - 1]
    /\ \/ TryReserve(t, PoolSize) /\ Take(t, PoolSize)
       \/ ~Fits(PoolSize) /\ UNCHANGED <<capVars, op, local, doing>>
    /\ UNCHANGED <<poolcfg, centralVars, guards, prev>>

\* The thread has its buffer: the guard, and back to the caller.
HandOut(t, n, c) ==
    /\ guards' = [guards EXCEPT ![t] = Append(@, [len |-> n, cap |-> c])]
    /\ Then(t, "idle")
    /\ op' = [op EXCEPT ![t] = [src |-> "none", len |-> 0, cap |-> 0]]

\* The reservation is made (the thread is out of the cap's code): a buffer from the
\* cache or of another size,
HandOutReserved(t) ==
    /\ doing[t] = "reserve"
    /\ gate[t] = "away"
    /\ op[t].src # "queue"
    /\ HandOut(t, op[t].len, op[t].cap)
    /\ UNCHANGED <<capVars, poolcfg, centralVars, local, prev, left>>

\* pop_buffer on an empty queue,
Allocate(t) ==
    /\ doing[t] = "reserve"
    /\ gate[t] = "away"
    /\ op[t].src = "queue"
    /\ buffers = <<>>
    /\ HandOut(t, PoolSize, PoolSize)
    /\ UNCHANGED <<capVars, poolcfg, centralVars, local, prev, left>>

\* or one from the queue.
PopBuffer(t) ==
    /\ doing[t] = "reserve"
    /\ gate[t] = "away"
    /\ op[t].src = "queue"
    /\ buffers # <<>>
    /\ Then(t, "popped")
    /\ op' = [op EXCEPT ![t] = [src |-> "queue", len |-> PoolSize, cap |-> Head(buffers)]]
    /\ buffers' = Tail(buffers)
    /\ UNCHANGED <<capVars, poolcfg, central_count, retained, local, guards, prev, left>>

\* The slot of a popped buffer is not given back.
MutUncount(t) ==
    /\ doing[t] = "popped"
    /\ Then(t, "release")
    /\ UNCHANGED <<capVars, poolcfg, centralVars, local, guards, op, prev, left>>

Uncount(t) ==
    /\ doing[t] = "popped"
    /\ central_count' = central_count - 1
    /\ Then(t, "release")
    /\ UNCHANGED <<capVars, poolcfg, buffers, retained, local, guards, op, prev, left>>

\* ByteBudget::release: a load ...
LoadRetained(t) ==
    /\ doing[t] = "release"
    /\ prev' = [prev EXCEPT ![t] = retained]
    /\ Then(t, "store")
    /\ UNCHANGED <<capVars, poolcfg, centralVars, local, guards, op, left>>

\* ... and a store of the difference; then the buffer is handed out (pop) or
\* dropped (a return that found the queue full).
StoreRetained(t) ==
    /\ doing[t] = "store"
    /\ retained' = IF prev[t] > op[t].cap THEN prev[t] - op[t].cap ELSE 0
    /\ prev' = [prev EXCEPT ![t] = 0]
    /\ IF op[t].src = "queue" THEN HandOut(t, PoolSize, op[t].cap)
       ELSE Then(t, "return") /\ UNCHANGED <<guards, op>>
    /\ UNCHANGED <<capVars, poolcfg, buffers, central_count, local, left>>

AtLeast(a, b) == IF a < b THEN b ELSE a

\* Drop of a guard, return_buffer: no capacity at all, the cache, or the queue.
DropGuard(t) ==
    /\ doing[t] = "idle"
    /\ guards[t] # <<>>
    /\ guards' = [guards EXCEPT ![t] = SubSeq(@, 1, Len(@) - 1)]
    /\ LET g == guards[t][Len(guards[t])]
           c == AtLeast(g.cap, PoolSize)
           cached == poolcfg.soft > 0 /\ local[t] = 0
       IN  /\ local' = [local EXCEPT ![t] = IF cached THEN c ELSE @]
           /\ op' = [op EXCEPT ![t] = [src |-> "guard", len |-> g.len, cap |-> c]]
           /\ Then(t, IF poolcfg.soft = 0 \/ cached THEN "return" ELSE "admit")
    /\ UNCHANGED <<capVars, poolcfg, centralVars, prev, left>>

\* admit_or_deallocate: the byte budget ...
Admit(t) ==
    /\ doing[t] = "admit"
    /\ IF retained + op[t].cap > poolcfg.budget
       THEN Then(t, "return") /\ UNCHANGED retained
       ELSE Then(t, "slot") /\ retained' = retained + op[t].cap
    /\ UNCHANGED <<capVars, poolcfg, buffers, central_count, local, guards, op, prev, left>>

\* ... a slot of the count ...
TakeSlot(t) ==
    /\ doing[t] = "slot"
    /\ IF central_count >= poolcfg.soft
       THEN Then(t, "release") /\ UNCHANGED central_count
       ELSE Then(t, "push") /\ central_count' = central_count + 1
    /\ UNCHANGED <<capVars, poolcfg, buffers, retained, local, guards, op, prev, left>>

\* ... and the queue, which has room for as many as the count admits.
PushBuffer(t) ==
    /\ doing[t] = "push"
    /\ buffers' = Append(buffers, op[t].cap)
    /\ Then(t, "return")
    /\ UNCHANGED <<capVars, poolcfg, central_count, retained, local, guards, op, prev, left>>

Notifying(t) ==
    /\ Then(t, "notify")
    /\ op' = [op EXCEPT ![t] = [src |-> "none", len |-> 0, cap |-> 0]]
    /\ UNCHANGED <<poolcfg, centralVars, local, guards, prev, left>>

\* track_return, up to the notification, ...
TrackReturn(t) == doing[t] = "return" /\ GiveBack(t, op[t].len) /\ Notifying(t)

\* ... and the notification.
EndReturn(t) ==
    /\ doing[t] = "notify"
    /\ Notify(t)
    /\ Then(t, "idle")
    /\ UNCHANGED <<poolcfg, centralVars, local, guards, op, prev, left>>

\* Steps a thread takes by itself once it has started an operation, and the end of
\* its use of a buffer.
Proceeds(t) ==
    \/ Recheck(t) /\ UNCHANGED poolOnlyVars
    \/ Sleep(t) /\ UNCHANGED poolOnlyVars
    \/ HandOutReserved(t) \/ Allocate(t) \/ PopBuffer(t) \/ Uncount(t)
    \/ LoadRetained(t) \/ StoreRetained(t)
    \/ DropGuard(t) \/ Admit(t) \/ TakeSlot(t) \/ PushBuffer(t) \/ TrackReturn(t)

\* Steps that need the mutex.
Locks(t) == (LockSlow(t) /\ UNCHANGED poolOnlyVars) \/ EndReturn(t)

PoolNext ==
    \E t \in Copiers :
        \/ \E n \in {PoolSize} \cup Adaptive : Acquire(t, n)
        \/ TryAcquire(t)
        \/ Proceeds(t)
        \/ Locks(t)
        \/ SpuriousWakeUp(t) /\ UNCHANGED poolOnlyVars

\* A thread runs, is done with a buffer at some point, and gets a mutex that is free
\* again and again.
PoolFairness == \A t \in Copiers : WF_poolVars(Proceeds(t)) /\ SF_poolVars(Locks(t))

PoolSpec == PoolInit /\ [][PoolNext]_poolVars

-----------------------------------------------------------------------------
PoolTypeOK ==
    /\ outstanding \in Nat
    /\ backpressure \in Copiers \cup {Nobody}
    /\ \A t \in Copiers : gate[t] \in Gates /\ asked[t] \in Nat
    /\ retained \in 0..poolcfg.budget
    /\ \A t \in Copiers : local[t] = 0 \/ local[t] >= PoolSize
    /\ \A i \in DOMAIN buffers : buffers[i] >= PoolSize

\* Bytes a thread has reserved: its guards and the buffer it is acquiring or
\* returning.
CheckedOut(t) ==
    MapThenSumSet(LAMBDA i : guards[t][i].len, DOMAIN guards[t])
    + IF (doing[t] = "reserve" /\ gate[t] # "away") \/ doing[t] = "notify" THEN 0
      ELSE op[t].len

\* The cap is hard: whatever the threads do at once, the counter is exactly what is
\* checked out and never passes the limit; a cached buffer of another capacity does
\* not distort it.
CapIsExact ==
    /\ outstanding <= Limit
    /\ outstanding = MapThenSumSet(CheckedOut, Copiers)

Between == {t \in Copiers : doing[t] \in {"push", "popped"}}

\* The count is ahead of the queue by the threads between the two, so a push that
\* got a slot finds room (the branch for a full queue is dead) and the queue never
\* holds more than the soft capacity.
CountCoversQueue ==
    /\ central_count = Len(buffers) + Cardinality(Between)
    /\ central_count <= poolcfg.soft

\* No thread waits for room: returns wake the waiters up, and what a waiter found in
\* its cache is kept for it.
AcquiresReturned == \A t \in Copiers : doing[t] # "reserve"

\* What the comment in ByteBudget::release says of its unguarded store: the error is
\* only ever on the side of more headroom, that is, the budget is never charged for
\* more than is in the queue or on its way in or out.
HeadroomNeverLess ==
    retained <=
        MapThenSumSet(LAMBDA i : buffers[i], DOMAIN buffers)
        + MapThenSumSet(LAMBDA t : IF doing[t] \in {"slot", "push", "popped", "release", "store"}
                                   THEN op[t].cap ELSE 0, Copiers)
==============================================================================
