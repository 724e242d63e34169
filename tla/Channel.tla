------------------------------- MODULE Channel -------------------------------
(***************************************************************************)
(* What the single-producer single-consumer channel of the transfer crate  *)
(* promises its two users: a bounded FIFO whose operations are atomic, a   *)
(* refusal only once the other half is gone, and a disconnection report    *)
(* only once nothing is left to receive.  `Spsc' shows that the lock-free  *)
(* code keeps this promise; `DiskCommit' is written against it.            *)
(***************************************************************************)
EXTENDS Naturals, Sequences

CONSTANTS Capacity,   \* slots of the queue
          Items       \* the number of items the producer may offer

VARIABLES accepted,      \* the items taken into the channel, in order
          received,      \* the items handed to the consumer, in order
          producerGone,  \* the Sender has been dropped
          consumerGone,  \* the Receiver has been dropped
          reported       \* the consumer has been told Disconnected

chanVars == <<accepted, received, producerGone, consumerGone, reported>>

InFlight == Len(accepted) - Len(received)

ChanInit ==
    /\ accepted = << >>
    /\ received = << >>
    /\ producerGone = FALSE
    /\ consumerGone = FALSE
    /\ reported = FALSE

\* An accepted item enters a free slot.  It may still enter after the consumer
\* has gone: nobody will read it, and the producer learns that on its next send.
Accept ==
    /\ ~producerGone
    /\ InFlight < Capacity
    /\ Len(accepted) < Items
    /\ \E v \in 1..Items : accepted' = Append(accepted, v)
    /\ UNCHANGED <<received, producerGone, consumerGone, reported>>

\* The consumer gets the oldest item it has not seen.
Deliver ==
    /\ ~consumerGone
    /\ InFlight > 0
    /\ received' = Append(received, accepted[Len(received) + 1])
    /\ UNCHANGED <<accepted, producerGone, consumerGone, reported>>

\* Disconnected is reported only when the producer is gone and every accepted
\* item has been delivered.
Report ==
    /\ producerGone
    /\ InFlight = 0
    /\ reported' = TRUE
    /\ UNCHANGED <<accepted, received, producerGone, consumerGone>>

CloseProducer ==
    /\ producerGone' = TRUE
    /\ UNCHANGED <<accepted, received, consumerGone, reported>>

CloseConsumer ==
    /\ consumerGone' = TRUE
    /\ UNCHANGED <<accepted, received, producerGone, reported>>

ChanNext == Accept \/ Deliver \/ Report \/ CloseProducer \/ CloseConsumer

ChanSpec == ChanInit /\ [][ChanNext]_chanVars
==============================================================================
