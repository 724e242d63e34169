-------------------------------- MODULE Spsc --------------------------------
(***************************************************************************)
(* The lock-free channel between the network thread and the disk thread    *)
(* (crates/transfer/src/pipeline/spsc.rs), one action per atomic access.   *)
(*                                                                         *)
(* The crossbeam ArrayQueue is a linearizable bounded queue, so push and   *)
(* pop are single steps.  The two liveness flags are separate atomics: a   *)
(* half can be dropped between any two accesses of the other half, which   *)
(* is what the model explores.  A relaxed load of consumer_alive may be    *)
(* stale; a stale load is an earlier load, and the step between the check  *)
(* and the push already admits it.                                         *)
(***************************************************************************)
EXTENDS Naturals, Sequences

CONSTANTS Capacity,   \* spsc::channel(capacity)
          Items       \* bound: how many items the producer offers

ASSUME CapacityAssumption == Capacity \in Nat \ {0}
ASSUME ItemsAssumption == Items \in Nat

VARIABLES queue,            \* Shared.queue
          producer_alive,   \* Shared.producer_alive
          consumer_alive,   \* Shared.consumer_alive
          spc,              \* where the producer is
          rpc,              \* where the consumer is
          offered,          \* items offered so far; the current item's number
          accepted,         \* history: items pushed, in order
          received,         \* history: items popped, in order
          reported          \* history: a receive call has returned Disconnected

vars == <<queue, producer_alive, consumer_alive, spc, rpc, offered,
          accepted, received, reported>>

prodVars == <<producer_alive, spc, offered, accepted>>
consVars == <<consumer_alive, rpc, received, reported>>

ProducerPC == {"idle", "send_check", "send_push", "try_check", "try_push", "gone"}
ConsumerPC == {"idle", "recv_pop", "recv_alive", "recv_last",
               "try_pop", "try_alive", "gone"}

Init ==
    /\ queue = << >>
    /\ producer_alive = TRUE
    /\ consumer_alive = TRUE
    /\ spc = "idle"
    /\ rpc = "idle"
    /\ offered = 0
    /\ accepted = << >>
    /\ received = << >>
    /\ reported = FALSE

-----------------------------------------------------------------------------
(* The producer. *)

\* The caller enters send() or try_send() with the next item.
SendCall ==
    /\ spc = "idle"
    /\ offered < Items
    /\ offered' = offered + 1
    /\ spc' \in {"send_check", "try_check"}
    /\ UNCHANGED <<queue, producer_alive, accepted, consVars>>

\* Mutant: send() ignores that the receiver is gone.
MutCheckConsumer ==
    /\ spc \in {"send_check", "try_check"}
    /\ spc' = IF spc = "send_check" THEN "send_push" ELSE "try_push"
    /\ UNCHANGED <<queue, producer_alive, offered, accepted, consVars>>

\* The load of consumer_alive: Err(SendError) when the receiver is gone.
CheckConsumer ==
    /\ spc \in {"send_check", "try_check"}
    /\ spc' = CASE ~consumer_alive     -> "idle"
                [] spc = "send_check"  -> "send_push"
                [] OTHER               -> "try_push"
    /\ UNCHANGED <<queue, producer_alive, offered, accepted, consVars>>

\* queue.push: Ok when a slot is free; a full queue sends send() back to its
\* check (after a backoff) and makes try_send() give the item back.
Push ==
    /\ spc \in {"send_push", "try_push"}
    /\ IF Len(queue) < Capacity
         THEN /\ queue' = Append(queue, offered)
              /\ accepted' = Append(accepted, offered)
              /\ spc' = "idle"
         ELSE /\ spc' = IF spc = "send_push" THEN "send_check" ELSE "idle"
              /\ UNCHANGED <<queue, accepted>>
    /\ UNCHANGED <<producer_alive, offered, consVars>>

\* Drop for Sender: only between calls, the value is owned.
DropSender ==
    /\ spc = "idle"
    /\ spc' = "gone"
    /\ producer_alive' = FALSE
    /\ UNCHANGED <<queue, offered, accepted, consVars>>

-----------------------------------------------------------------------------
(* The consumer. *)

\* The caller enters recv() or try_recv().
RecvCall ==
    /\ rpc = "idle"
    /\ rpc' \in {"recv_pop", "try_pop"}
    /\ UNCHANGED <<queue, prodVars, consumer_alive, received, reported>>

\* Mutant: the slot is read but not released, so its item is seen twice.
MutPop ==
    /\ rpc \in {"recv_pop", "try_pop"}
    /\ IF queue /= << >>
         THEN /\ received' = Append(received, Head(queue))
              /\ rpc' = "idle"
         ELSE /\ rpc' = IF rpc = "recv_pop" THEN "recv_alive" ELSE "try_alive"
              /\ UNCHANGED received
    /\ UNCHANGED <<queue, prodVars, consumer_alive, reported>>

\* The first probe of the queue.
Pop ==
    /\ rpc \in {"recv_pop", "try_pop"}
    /\ IF queue /= << >>
         THEN /\ received' = Append(received, Head(queue))
              /\ queue' = Tail(queue)
              /\ rpc' = "idle"
         ELSE /\ rpc' = IF rpc = "recv_pop" THEN "recv_alive" ELSE "try_alive"
              /\ UNCHANGED <<queue, received>>
    /\ UNCHANGED <<prodVars, consumer_alive, reported>>

\* Mutant: recv() spins on an empty queue without looking at the producer.
MutCheckProducer ==
    /\ rpc \in {"recv_alive", "try_alive"}
    /\ rpc' = IF rpc = "recv_alive" THEN "recv_pop" ELSE "idle"
    /\ UNCHANGED <<queue, prodVars, consumer_alive, received, reported>>

\* The load of producer_alive after an empty probe: a dead producer leads to
\* the last probe, a live one to another round (recv) or to Empty (try_recv).
CheckProducer ==
    /\ rpc \in {"recv_alive", "try_alive"}
    /\ rpc' = CASE ~producer_alive     -> "recv_last"
                [] rpc = "recv_alive"  -> "recv_pop"
                [] OTHER               -> "idle"
    /\ UNCHANGED <<queue, prodVars, consumer_alive, received, reported>>

\* Mutant: Disconnected straight after the flag, without the last probe.
MutLastPop ==
    /\ rpc = "recv_last"
    /\ rpc' = "idle"
    /\ reported' = TRUE
    /\ UNCHANGED <<queue, received, prodVars, consumer_alive>>

\* The probe after the producer was seen dead: an item pushed between the
\* first probe and the drop is still found; otherwise Disconnected.
LastPop ==
    /\ rpc = "recv_last"
    /\ rpc' = "idle"
    /\ IF queue /= << >>
         THEN /\ received' = Append(received, Head(queue))
              /\ queue' = Tail(queue)
              /\ UNCHANGED reported
         ELSE /\ reported' = TRUE
              /\ UNCHANGED <<queue, received>>
    /\ UNCHANGED <<prodVars, consumer_alive>>

\* Drop for Receiver.
DropReceiver ==
    /\ rpc = "idle"
    /\ rpc' = "gone"
    /\ consumer_alive' = FALSE
    /\ UNCHANGED <<queue, prodVars, received, reported>>

-----------------------------------------------------------------------------

Producer == SendCall \/ CheckConsumer \/ Push \/ DropSender
Consumer == RecvCall \/ Pop \/ CheckProducer \/ LastPop \/ DropReceiver

Next == Producer \/ Consumer

\* The backoff of both wait loops spins, yields and then parks with a timeout,
\* so neither thread is starved: each of its own steps is eventually taken.
\* The consumer keeps asking or goes away, as the disk loop does.
Fairness ==
    /\ WF_vars(CheckConsumer) /\ WF_vars(Push)
    /\ WF_vars(Pop) /\ WF_vars(CheckProducer) /\ WF_vars(LastPop)
    /\ WF_vars(RecvCall \/ DropReceiver)

Spec == Init /\ [][Next]_vars
FairSpec == Spec /\ Fairness

-----------------------------------------------------------------------------
(* Properties. *)

DataTypeOK ==
    /\ queue \in Seq(Nat)
    /\ spc \in ProducerPC
    /\ rpc \in ConsumerPC
    /\ offered \in Nat
    /\ accepted \in Seq(Nat)
    /\ received \in Seq(Nat)

FlagTypeOK ==
    /\ producer_alive \in BOOLEAN
    /\ consumer_alive \in BOOLEAN
    /\ reported \in BOOLEAN

TypeOK == DataTypeOK /\ FlagTypeOK /\ Len(queue) <= Capacity

\* recv and try_recv answer Disconnected only when the sender is gone and
\* every item it managed to push has been handed out: no message of the
\* transfer is lost between the last push and the drop of the Sender.
DisconnectedMeansDrained ==
    reported => (~producer_alive /\ received = accepted)

\* Whatever the interleaving of push, pop and the two drops, the consumer has
\* received a prefix of what was pushed and the queue holds exactly the rest:
\* nothing is lost, duplicated or reordered.
NothingLostOrReordered == accepted = received \o queue

\* No call is under way that must come back: a send gets through or is refused,
\* a receive returns once the Sender is dropped.
CallsReturned ==
    /\ spc \in {"idle", "gone"}
    /\ spc = "gone" => rpc \in {"idle", "gone"}

\* The lock-free channel implements the atomic one: the abstract consumer and
\* producer are gone when their flag is down.
Chan == INSTANCE Channel WITH producerGone <- ~producer_alive,
                              consumerGone <- ~consumer_alive
ImplementsChannel == Chan!ChanSpec
==============================================================================
