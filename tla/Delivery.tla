------------------------------ MODULE Delivery ------------------------------
(***************************************************************************)
(* What the parallel delta pipeline promises the receiver: it behaves like  *)
(* the sequential per-file loop it replaces.  Work items are accepted one   *)
(* by one, numbered from 0, and each result is handed back after its item   *)
(* was accepted, exactly once, in the order of acceptance unless the        *)
(* caller asked for completion order.                                       *)
(***************************************************************************)
EXTENDS Naturals, Sequences

CONSTANT Items       \* the number of work items a caller may submit

VARIABLES accepted,  \* work items submitted so far
          results,   \* results made available, in order
          ordered    \* results come in submission order

deliveryVars == <<accepted, results, ordered>>

Given == {results[i] : i \in 1..Len(results)}

DeliveryInit == accepted = 0 /\ results = << >> /\ ordered \in BOOLEAN

Submit == /\ accepted < Items
          /\ accepted' = accepted + 1
          /\ UNCHANGED <<results, ordered>>

Deliver == /\ \E s \in (0..accepted - 1) \ Given :
                 /\ ordered => s = Len(results)
                 /\ results' = Append(results, s)
           /\ UNCHANGED <<accepted, ordered>>

\* Fewer items than the threshold: they are processed one by one in the flush.
DeliverAll == /\ results = << >>
              /\ results' = [i \in 1..accepted |-> i - 1]
              /\ UNCHANGED <<accepted, ordered>>

DeliverySpec == DeliveryInit /\ [][Submit \/ Deliver \/ DeliverAll]_deliveryVars
=============================================================================
