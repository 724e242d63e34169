------------------------------ MODULE MemoryCap ------------------------------
(***************************************************************************)
(* The hard cap on checked-out copy buffers (`MemoryCap'): reservations by  *)
(* compare-and-swap on a counter, and a mutex with a condition variable for *)
(* those that find no room.                                                 *)
(*                                                                         *)
(* A load followed by a successful compare-and-swap is one step; a failed   *)
(* one changes nothing and is left out.  The counter is given back without  *)
(* the mutex and the notification is sent with it, so these are two steps,  *)
(* and so are a waiter's last look at the counter and its sleep.            *)
(***************************************************************************)
EXTENDS Integers

CONSTANTS Copiers,    \* the threads that use the pool
          Limit,      \* the cap in bytes
          Nobody      \* no thread

ASSUME LimitAssumption == Limit \in Nat \ {0}
ASSUME CopiersAssumption == Nobody \notin Copiers

VARIABLES outstanding,    \* bytes checked out
          backpressure,   \* who has the mutex
          gate,           \* where each thread is in the cap's code
          asked           \* what it waits for

capVars == <<outstanding, backpressure, gate, asked>>

Gates == {"away", "slow", "check", "sleepy", "asleep", "notify"}

CapInit ==
    /\ outstanding = 0
    /\ backpressure = Nobody
    /\ gate = [t \in Copiers |-> "away"]
    /\ asked = [t \in Copiers |-> 0]

Fits(n) == outstanding + n <= Limit

\* wait_and_reserve up to the end of its fast path.
WaitAndReserve(t, n) ==
    /\ gate[t] = "away"
    /\ IF Fits(n)
       THEN outstanding' = outstanding + n /\ UNCHANGED <<gate, asked>>
       ELSE /\ gate' = [gate EXCEPT ![t] = "slow"]
            /\ asked' = [asked EXCEPT ![t] = n]
            /\ UNCHANGED outstanding
    /\ UNCHANGED backpressure

\* try_reserve returns true.
TryReserve(t, n) ==
    /\ gate[t] = "away"
    /\ Fits(n)
    /\ outstanding' = outstanding + n
    /\ UNCHANGED <<backpressure, gate, asked>>

\* The slow path: the mutex, also after a wake-up.
LockSlow(t) ==
    /\ gate[t] = "slow"
    /\ backpressure = Nobody
    /\ backpressure' = t
    /\ gate' = [gate EXCEPT ![t] = "check"]
    /\ UNCHANGED <<outstanding, asked>>

\* The second look does not count what the fast path has taken since the first.
MutRecheck(t) ==
    /\ gate[t] = "check"
    /\ outstanding' = outstanding + asked[t]
    /\ backpressure' = Nobody
    /\ gate' = [gate EXCEPT ![t] = "away"]
    /\ asked' = [asked EXCEPT ![t] = 0]

Recheck(t) ==
    /\ gate[t] = "check"
    /\ IF Fits(asked[t])
       THEN /\ outstanding' = outstanding + asked[t]
            /\ backpressure' = Nobody
            /\ gate' = [gate EXCEPT ![t] = "away"]
            /\ asked' = [asked EXCEPT ![t] = 0]
       ELSE /\ gate' = [gate EXCEPT ![t] = "sleepy"]
            /\ UNCHANGED <<outstanding, backpressure, asked>>

\* Condvar::wait gives up the mutex and sleeps.
Sleep(t) ==
    /\ gate[t] = "sleepy"
    /\ backpressure' = Nobody
    /\ gate' = [gate EXCEPT ![t] = "asleep"]
    /\ UNCHANGED <<outstanding, asked>>

SpuriousWakeUp(t) ==
    /\ gate[t] = "asleep"
    /\ gate' = [gate EXCEPT ![t] = "slow"]
    /\ UNCHANGED <<outstanding, backpressure, asked>>

\* track_return: the subtraction ...
GiveBack(t, n) ==
    /\ gate[t] = "away"
    /\ outstanding' = outstanding - n
    /\ gate' = [gate EXCEPT ![t] = "notify"]
    /\ UNCHANGED <<backpressure, asked>>

\* The notification does not take the mutex.
MutNotify(t) ==
    /\ gate[t] = "notify"
    /\ gate' = [u \in Copiers |-> IF u = t THEN "away"
                                  ELSE IF gate[u] = "asleep" THEN "slow" ELSE gate[u]]
    /\ UNCHANGED <<outstanding, backpressure, asked>>

\* ... then, with the mutex, the notification.
Notify(t) ==
    /\ gate[t] = "notify"
    /\ backpressure = Nobody
    /\ gate' = [u \in Copiers |-> IF u = t THEN "away"
                                  ELSE IF gate[u] = "asleep" THEN "slow" ELSE gate[u]]
    /\ UNCHANGED <<outstanding, backpressure, asked>>

Inside(t) == LockSlow(t) \/ Recheck(t) \/ Sleep(t) \/ Notify(t)

CapNext ==
    \E t \in Copiers :
        \/ Inside(t)
        \/ SpuriousWakeUp(t)
        \/ \E n \in Nat : WaitAndReserve(t, n) \/ TryReserve(t, n) \/ GiveBack(t, n)

CapSpec == CapInit /\ [][CapNext]_capVars

-----------------------------------------------------------------------------
\* A thread that sleeps, or is about to, although its request would fit by now has
\* a wake-up on its way: a return has subtracted and will notify, and it cannot do
\* so before the sleeper has let go of the mutex.
NoLostWakeUp ==
    \A t \in Copiers :
        gate[t] \in {"sleepy", "asleep"} /\ Fits(asked[t]) =>
            \E u \in Copiers : gate[u] = "notify"
==============================================================================
