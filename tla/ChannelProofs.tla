---------------------------- MODULE ChannelProofs ----------------------------
(***************************************************************************)
(* What goes in comes out.  The lock-free channel between the receiver's    *)
(* threads loses, doubles and reorders nothing, for every capacity and      *)
(* every number of items.  The encoding of file indexes is read back        *)
(* exactly, for every state of the codec, every index and whatever follows  *)
(* on the wire.                                                             *)
(***************************************************************************)
EXTENDS Spsc, NdxStream, SequenceTheorems, TLAPS

-----------------------------------------------------------------------------
(* The channel                                                                *)

\* Appending an item, and taking the first one off, keep a sequence of items.
LEMMA QueueTypes ==
  /\ \A q \in Seq(Nat), x \in Nat : Append(q, x) \in Seq(Nat)
  /\ \A q \in Seq(Nat) : q /= << >> => Head(q) \in Nat /\ Tail(q) \in Seq(Nat)
<1>1. ASSUME NEW q \in Seq(Nat), NEW x \in Nat
      PROVE  Append(q, x) \in Seq(Nat)
  OBVIOUS
<1>2. ASSUME NEW q \in Seq(Nat), q /= << >>
      PROVE  Head(q) \in Nat /\ Tail(q) \in Seq(Nat)
  BY <1>2
<1> QED
  BY <1>1, <1>2

\* Type correctness of the queue, the histories and the two loops.  The flags
\* have a lemma of their own: the provers handle the two kinds apart.
LEMMA DataTypeStep ==
  ASSUME DataTypeOK, [Next]_vars
  PROVE  DataTypeOK'
<1>0. queue \in Seq(Nat) /\ accepted \in Seq(Nat) /\ received \in Seq(Nat) /\ offered \in Nat
  BY DEF DataTypeOK
<1>1. CASE SendCall
  BY <1>1 DEF DataTypeOK, SendCall, ProducerPC, consVars
<1>2. CASE CheckConsumer
  BY <1>2 DEF DataTypeOK, CheckConsumer, ProducerPC, consVars
<1>3. CASE Push
  <2>1. \/ queue' = Append(queue, offered) /\ accepted' = Append(accepted, offered)
        \/ queue' = queue /\ accepted' = accepted
    BY <1>3 DEF Push
  <2>2. /\ spc' \in {"idle", "send_check"}
        /\ offered' = offered /\ rpc' = rpc /\ received' = received
    BY <1>3 DEF Push, consVars
  <2>3. queue' \in Seq(Nat) /\ accepted' \in Seq(Nat)
    BY <1>0, <2>1, QueueTypes, Zenon
  <2>4. spc' \in ProducerPC
    BY <2>2 DEF ProducerPC
  <2> QED
    BY <2>2, <2>3, <2>4 DEF DataTypeOK
<1>4. CASE DropSender
  BY <1>4 DEF DataTypeOK, DropSender, ProducerPC, consVars
<1>5. CASE RecvCall
  BY <1>5 DEF DataTypeOK, RecvCall, ConsumerPC, prodVars
<1>6. CASE Pop
  <2>1. \/ /\ queue /= << >>
           /\ received' = Append(received, Head(queue))
           /\ queue' = Tail(queue)
        \/ queue' = queue /\ received' = received
    BY <1>6 DEF Pop
  <2>2. /\ rpc' \in {"idle", "recv_alive", "try_alive"}
        /\ offered' = offered /\ spc' = spc /\ accepted' = accepted
    BY <1>6 DEF Pop, prodVars
  <2>3. queue' \in Seq(Nat) /\ received' \in Seq(Nat)
    BY <1>0, <2>1, QueueTypes, Zenon
  <2>4. rpc' \in ConsumerPC
    BY <2>2 DEF ConsumerPC
  <2> QED
    BY <2>2, <2>3, <2>4 DEF DataTypeOK
<1>7. CASE CheckProducer
  BY <1>7 DEF DataTypeOK, CheckProducer, ConsumerPC, prodVars
<1>8. CASE LastPop
  <2>1. \/ /\ queue /= << >>
           /\ received' = Append(received, Head(queue))
           /\ queue' = Tail(queue)
        \/ queue' = queue /\ received' = received
    BY <1>8 DEF LastPop
  <2>2. /\ rpc' = "idle"
        /\ offered' = offered /\ spc' = spc /\ accepted' = accepted
    BY <1>8 DEF LastPop, prodVars
  <2>3. queue' \in Seq(Nat) /\ received' \in Seq(Nat)
    BY <1>0, <2>1, QueueTypes, Zenon
  <2>4. rpc' \in ConsumerPC
    BY <2>2 DEF ConsumerPC
  <2> QED
    BY <2>2, <2>3, <2>4 DEF DataTypeOK
<1>9. CASE DropReceiver
  BY <1>9 DEF DataTypeOK, DropReceiver, ConsumerPC, prodVars
<1>10. CASE UNCHANGED vars
  BY <1>10 DEF DataTypeOK, vars
<1> QED
  BY <1>1, <1>2, <1>3, <1>4, <1>5, <1>6, <1>7, <1>8, <1>9, <1>10
     DEF Next, Producer, Consumer

\* Type correctness of the two flags and of the report.
LEMMA FlagTypeStep ==
  ASSUME FlagTypeOK, [Next]_vars
  PROVE  FlagTypeOK'
<1> USE DEF FlagTypeOK
<1>1. CASE SendCall
  BY <1>1 DEF SendCall, consVars
<1>2. CASE CheckConsumer
  BY <1>2 DEF CheckConsumer, consVars
<1>3. CASE Push
  BY <1>3 DEF Push, consVars
<1>4. CASE DropSender
  BY <1>4, ZenonT(60) DEF DropSender, consVars
<1>5. CASE RecvCall
  BY <1>5 DEF RecvCall, prodVars
<1>6. CASE Pop
  BY <1>6 DEF Pop, prodVars
<1>7. CASE CheckProducer
  BY <1>7 DEF CheckProducer, prodVars
<1>8. CASE LastPop
  BY <1>8, ZenonT(60) DEF LastPop, prodVars
<1>9. CASE DropReceiver
  BY <1>9, ZenonT(60) DEF DropReceiver, prodVars
<1>10. CASE UNCHANGED vars
  BY <1>10 DEF vars
<1> QED
  BY <1>1, <1>2, <1>3, <1>4, <1>5, <1>6, <1>7, <1>8, <1>9, <1>10
     DEF Next, Producer, Consumer

\* The queue never holds more than its capacity.
LEMMA CapacityStep ==
  ASSUME DataTypeOK, Len(queue) <= Capacity, [Next]_vars
  PROVE  (Len(queue) <= Capacity)'
<1>0. queue \in Seq(Nat) /\ offered \in Nat /\ Capacity \in Nat
  BY CapacityAssumption DEF DataTypeOK
<1>1. CASE Push
  <2>1. \/ Len(queue) < Capacity /\ queue' = Append(queue, offered)
        \/ queue' = queue
    BY <1>1 DEF Push
  <2>2. CASE Len(queue) < Capacity /\ queue' = Append(queue, offered)
    BY <1>0, <2>2
  <2>3. CASE queue' = queue
    BY <2>3
  <2> QED
    BY <2>1, <2>2, <2>3
<1>2. CASE Pop \/ LastPop
  <2>1. \/ queue /= << >> /\ queue' = Tail(queue)
        \/ queue' = queue
    BY <1>2 DEF Pop, LastPop
  <2>2. CASE queue /= << >> /\ queue' = Tail(queue)
    BY <1>0, <2>2
  <2>3. CASE queue' = queue
    BY <2>3
  <2> QED
    BY <2>1, <2>2, <2>3
<1>3. CASE ~(Push \/ Pop \/ LastPop)
  <2>1. queue' = queue
    BY <1>3 DEF Next, Producer, Consumer, vars, SendCall, CheckConsumer, DropSender,
                RecvCall, CheckProducer, DropReceiver
  <2> QED
    BY <2>1
<1> QED
  BY <1>1, <1>2, <1>3

\* Every variable of the channel keeps its type in every reachable state.
THEOREM TypeCorrect == Spec => []TypeOK
<1>1. Init => DataTypeOK
  BY DEF Init, DataTypeOK, ProducerPC, ConsumerPC
<1>2. Init => FlagTypeOK
  BY ZenonT(60) DEF Init, FlagTypeOK
<1>3. Init => Len(queue) <= Capacity
  BY CapacityAssumption DEF Init
<1>4. TypeOK /\ [Next]_vars => TypeOK'
  BY DataTypeStep, FlagTypeStep, CapacityStep DEF TypeOK
<1> QED
  BY <1>1, <1>2, <1>3, <1>4, PTL DEF Spec, TypeOK

-----------------------------------------------------------------------------

\* The inductive invariant behind the channel's promises.  Beside the
\* bookkeeping of the queue it ties the two program counters to the flags: the
\* producer's flag is down exactly when it is gone, so nothing is pushed after
\* the consumer has reached its last probe.
ChannelInv ==
    /\ NothingLostOrReordered
    /\ producer_alive <=> spc /= "gone"
    /\ rpc = "recv_last" => ~producer_alive
    /\ reported => (~producer_alive /\ queue = << >>)

\* Appending one item to the right part of a concatenation.
LEMMA AppendConcat ==
  ASSUME NEW r \in Seq(Nat), NEW q \in Seq(Nat), NEW x \in Nat
  PROVE  Append(r \o q, x) = r \o Append(q, x)
BY SMTT(60)

\* Moving the head of the right part to the end of the left part.
LEMMA ShiftConcat ==
  ASSUME NEW r \in Seq(Nat), NEW q \in Seq(Nat), q /= << >>
  PROVE  r \o q = Append(r, Head(q)) \o Tail(q)
<1>1. /\ Append(r, Head(q)) \in Seq(Nat)
      /\ Tail(q) \in Seq(Nat)
      /\ Len(Tail(q)) = Len(q) - 1
      /\ Len(q) > 0
  BY SMT
<1>2. Len(r \o q) = Len(Append(r, Head(q)) \o Tail(q))
  BY <1>1, SMT
<1>3. \A i \in 1 .. Len(r \o q) : (r \o q)[i] = (Append(r, Head(q)) \o Tail(q))[i]
  BY <1>1, SMT
<1> QED
  BY <1>1, <1>2, <1>3, SeqEqual, ConcatProperties, SMTT(60)

\* The channel's invariant holds initially and is kept by every step.
THEOREM ChannelInvariant == Spec => []ChannelInv
<1>1. Init => ChannelInv
  BY DEF Init, ChannelInv, NothingLostOrReordered
<1>2. TypeOK /\ ChannelInv /\ [Next]_vars => ChannelInv'
  <2> SUFFICES ASSUME TypeOK, ChannelInv, [Next]_vars PROVE ChannelInv'
    OBVIOUS
  <2> USE DEF TypeOK, DataTypeOK, FlagTypeOK, ChannelInv, NothingLostOrReordered
  <2>1. CASE SendCall
    BY <2>1 DEF SendCall, consVars
  <2>2. CASE CheckConsumer
    BY <2>2 DEF CheckConsumer, consVars
  <2>3. CASE Push
    <3>1. CASE Len(queue) < Capacity
      <4>1. accepted' = received' \o queue'
        <5>1. /\ queue' = Append(queue, offered)
              /\ accepted' = Append(accepted, offered)
              /\ received' = received
          BY <2>3, <3>1 DEF Push, consVars
        <5>2. /\ queue \in Seq(Nat) /\ received \in Seq(Nat) /\ offered \in Nat
              /\ accepted = received \o queue
          OBVIOUS
        <5>3. Append(received \o queue, offered) = received \o Append(queue, offered)
          BY <5>2, AppendConcat, ZenonT(60)
        <5> QED
          BY <5>1, <5>2, <5>3
      <4> QED
        BY <2>3, <3>1, <4>1 DEF Push, consVars
    <3>2. CASE ~(Len(queue) < Capacity)
      BY <2>3, <3>2 DEF Push, consVars
    <3> QED
      BY <3>1, <3>2
  <2>4. CASE DropSender
    BY <2>4 DEF DropSender, consVars
  <2>5. CASE RecvCall
    BY <2>5 DEF RecvCall, prodVars
  <2>6. CASE Pop
    <3>1. CASE queue /= << >>
      <4>1. accepted' = received' \o queue'
        <5>1. /\ received' = Append(received, Head(queue))
              /\ queue' = Tail(queue)
              /\ accepted' = accepted
          BY <2>6, <3>1 DEF Pop, prodVars
        <5>2. /\ queue \in Seq(Nat) /\ received \in Seq(Nat)
              /\ accepted = received \o queue
          OBVIOUS
        <5> QED
          BY <3>1, <5>1, <5>2, ShiftConcat, ZenonT(60)
      <4> QED
        BY <2>6, <3>1, <4>1 DEF Pop, prodVars
    <3>2. CASE queue = << >>
      BY <2>6, <3>2 DEF Pop, prodVars
    <3> QED
      BY <3>1, <3>2
  <2>7. CASE CheckProducer
    BY <2>7 DEF CheckProducer, prodVars
  <2>8. CASE LastPop
    <3>1. CASE queue /= << >>
      <4>1. accepted' = received' \o queue'
        <5>1. /\ received' = Append(received, Head(queue))
              /\ queue' = Tail(queue)
              /\ accepted' = accepted
          BY <2>8, <3>1 DEF LastPop, prodVars
        <5>2. /\ queue \in Seq(Nat) /\ received \in Seq(Nat)
              /\ accepted = received \o queue
          OBVIOUS
        <5> QED
          BY <3>1, <5>1, <5>2, ShiftConcat, ZenonT(60)
      <4> QED
        BY <2>8, <3>1, <4>1 DEF LastPop, prodVars
    <3>2. CASE queue = << >>
      BY <2>8, <3>2 DEF LastPop, prodVars
    <3> QED
      BY <3>1, <3>2
  <2>9. CASE DropReceiver
    BY <2>9 DEF DropReceiver, prodVars
  <2>10. CASE UNCHANGED vars
    BY <2>10 DEF vars
  <2> QED
    BY <2>1, <2>2, <2>3, <2>4, <2>5, <2>6, <2>7, <2>8, <2>9, <2>10
       DEF Next, Producer, Consumer
<1> QED
  BY <1>1, <1>2, TypeCorrect, PTL DEF Spec

\* No item is lost, duplicated or reordered.
THEOREM NoLoss == Spec => []NothingLostOrReordered
BY ChannelInvariant, PTL DEF ChannelInv

\* Disconnected is only answered once everything pushed has been received.
THEOREM DisconnectSafe == Spec => []DisconnectedMeansDrained
<1>1. TypeOK /\ ChannelInv => DisconnectedMeansDrained
  <2> SUFFICES ASSUME TypeOK, ChannelInv, reported
               PROVE  ~producer_alive /\ received = accepted
    BY DEF DisconnectedMeansDrained
  <2>1. received \o << >> = received
    BY DEF TypeOK, DataTypeOK
  <2> QED
    BY <2>1 DEF TypeOK, DataTypeOK, ChannelInv, NothingLostOrReordered
<1> QED
  BY <1>1, ChannelInvariant, TypeCorrect, PTL

-----------------------------------------------------------------------------
(* The lock-free channel implements the atomic one. *)

Sending == {"send_check", "send_push", "try_check", "try_push"}

\* What the abstract channel asks of a step beyond ChannelInv: an item is offered
\* once and is among the Items, and a consumer that pops is still there.
OfferInv ==
    /\ offered <= Items
    /\ Len(accepted) <= offered
    /\ spc \in Sending => Len(accepted) < offered
    /\ consumer_alive <=> rpc /= "gone"

LEMMA OfferStep ==
  ASSUME TypeOK, OfferInv, [Next]_vars
  PROVE  OfferInv'
<1>0. /\ accepted \in Seq(Nat) /\ offered \in Nat /\ Items \in Nat /\ Len(accepted) \in Nat
      /\ consumer_alive \in BOOLEAN
  BY ItemsAssumption DEF TypeOK, DataTypeOK, FlagTypeOK
<1> USE DEF OfferInv, Sending
<1>1. CASE SendCall
  BY <1>0, <1>1 DEF SendCall, consVars
<1>2. CASE CheckConsumer
  BY <1>0, <1>2 DEF CheckConsumer, consVars
<1>3. CASE Push
  <2>1. spc \in Sending /\ offered' = offered /\ consumer_alive' = consumer_alive /\ rpc' = rpc
    BY <1>3 DEF Push, consVars
  <2>2. CASE Len(queue) < Capacity
    <3>1. accepted' = Append(accepted, offered) /\ spc' = "idle"
      BY <1>3, <2>2 DEF Push
    <3>2. Len(accepted') = Len(accepted) + 1
      BY <1>0, <3>1
    <3> QED
      BY <1>0, <2>1, <3>1, <3>2
  <2>3. CASE ~(Len(queue) < Capacity)
    <3>1. accepted' = accepted /\ spc' \in {"send_check", "idle"}
      BY <1>3, <2>3 DEF Push
    <3> QED
      BY <1>0, <2>1, <3>1
  <2> QED
    BY <2>2, <2>3
<1>4. CASE DropSender
  BY <1>0, <1>4 DEF DropSender, consVars
<1>5. CASE RecvCall \/ Pop \/ CheckProducer \/ LastPop
  <2>1. UNCHANGED <<accepted, offered, spc, consumer_alive>>
    BY <1>5 DEF RecvCall, Pop, CheckProducer, LastPop, prodVars
  <2>2. rpc /= "gone" /\ rpc' /= "gone"
    BY <1>5 DEF RecvCall, Pop, CheckProducer, LastPop
  <2> QED
    BY <2>1, <2>2
<1>6. CASE DropReceiver
  BY <1>6 DEF DropReceiver, prodVars
<1>7. CASE UNCHANGED vars
  BY <1>7 DEF vars
<1> QED
  BY <1>1, <1>2, <1>3, <1>4, <1>5, <1>6, <1>7 DEF Next, Producer, Consumer

\* A pop of the queue's head is a delivery of the oldest item not yet received.
LEMMA PopDelivers ==
  ASSUME TypeOK, ChannelInv, OfferInv, rpc /= "gone", queue /= << >>,
         received' = Append(received, Head(queue)),
         UNCHANGED <<accepted, producer_alive, consumer_alive, reported>>
  PROVE  Chan!Deliver
<1>1. /\ queue \in Seq(Nat) /\ received \in Seq(Nat) /\ Len(queue) > 0
      /\ accepted = received \o queue
  BY DEF TypeOK, DataTypeOK, ChannelInv, NothingLostOrReordered
<1>2. Len(accepted) = Len(received) + Len(queue)
  BY <1>1
<1>3. accepted[Len(received) + 1] = Head(queue)
  BY <1>1
<1>4. Len(accepted) - Len(received) > 0
  BY <1>1, <1>2
<1>5. consumer_alive
  BY DEF OfferInv
<1> QED
  BY <1>3, <1>4, <1>5 DEF Chan!Deliver, Chan!InFlight

\* Every atomic access is one step of the abstract channel or leaves it alone.
LEMMA StepSimulates ==
  ASSUME TypeOK, ChannelInv, OfferInv, [Next]_vars
  PROVE  [Chan!ChanNext]_(Chan!chanVars)
<1> USE DEF Chan!chanVars
<1>1. CASE SendCall \/ CheckConsumer \/ RecvCall \/ CheckProducer
  BY <1>1 DEF SendCall, CheckConsumer, RecvCall, CheckProducer, consVars, prodVars
<1>2. CASE Push
  <2>1. UNCHANGED <<received, producer_alive, consumer_alive, reported>> /\ spc \in Sending
    BY <1>2 DEF Push, consVars, Sending
  <2>2. CASE Len(queue) < Capacity
    <3>1. accepted' = Append(accepted, offered)
      BY <1>2, <2>2 DEF Push
    <3>2. /\ queue \in Seq(Nat) /\ received \in Seq(Nat) /\ accepted \in Seq(Nat)
          /\ offered \in Nat /\ Items \in Nat /\ Capacity \in Nat
          /\ accepted = received \o queue
      BY ItemsAssumption, CapacityAssumption
         DEF TypeOK, DataTypeOK, ChannelInv, NothingLostOrReordered
    <3>3. Len(accepted) - Len(received) < Capacity
      BY <2>2, <3>2
    <3>4. Len(accepted) < Items /\ offered \in 1..Items
      BY <2>1, <3>2 DEF OfferInv
    <3>5. producer_alive
      BY <2>1 DEF ChannelInv, Sending
    <3>6. Chan!Accept
      BY <2>1, <3>1, <3>3, <3>4, <3>5 DEF Chan!Accept, Chan!InFlight
    <3> QED
      BY <3>6 DEF Chan!ChanNext
  <2>3. CASE ~(Len(queue) < Capacity)
    BY <1>2, <2>1, <2>3 DEF Push
  <2> QED
    BY <2>2, <2>3
<1>3. CASE DropSender
  <2>1. Chan!CloseProducer
    BY <1>3 DEF DropSender, consVars, Chan!CloseProducer
  <2> QED
    BY <2>1 DEF Chan!ChanNext
<1>4. CASE Pop
  <2>1. CASE queue /= << >>
    <3>1. Chan!Deliver
      BY <1>4, <2>1, PopDelivers DEF Pop, prodVars
    <3> QED
      BY <3>1 DEF Chan!ChanNext
  <2>2. CASE queue = << >>
    BY <1>4, <2>2 DEF Pop, prodVars
  <2> QED
    BY <2>1, <2>2
<1>5. CASE LastPop
  <2>1. CASE queue /= << >>
    <3>1. Chan!Deliver
      BY <1>5, <2>1, PopDelivers DEF LastPop, prodVars
    <3> QED
      BY <3>1 DEF Chan!ChanNext
  <2>2. CASE queue = << >>
    <3>1. Len(accepted) - Len(received) = 0
      BY <2>2 DEF TypeOK, DataTypeOK, ChannelInv, NothingLostOrReordered
    <3>2. ~producer_alive
      BY <1>5 DEF LastPop, ChannelInv
    <3>3. Chan!Report
      BY <1>5, <2>2, <3>1, <3>2 DEF LastPop, prodVars, Chan!Report, Chan!InFlight
    <3> QED
      BY <3>3 DEF Chan!ChanNext
  <2> QED
    BY <2>1, <2>2
<1>6. CASE DropReceiver
  <2>1. Chan!CloseConsumer
    BY <1>6 DEF DropReceiver, prodVars, Chan!CloseConsumer
  <2> QED
    BY <2>1 DEF Chan!ChanNext
<1>7. CASE UNCHANGED vars
  BY <1>7 DEF vars
<1> QED
  BY <1>1, <1>2, <1>3, <1>4, <1>5, <1>6, <1>7 DEF Next, Producer, Consumer

\* The lock-free send, recv, try_send, try_recv and the two drops of spsc.rs behave
\* like the atomic bounded FIFO that DiskCommit is written against, for every capacity
\* and any number of items.
THEOREM SpscImplementsChannel == Spec => ImplementsChannel
<1>1. Init => Chan!ChanInit
  BY DEF Init, Chan!ChanInit
<1>2. Init => OfferInv
  BY ItemsAssumption DEF Init, OfferInv, Sending
<1>3. TypeOK /\ OfferInv /\ [Next]_vars => OfferInv'
  BY OfferStep
<1>4. Spec => []OfferInv
  BY <1>2, <1>3, TypeCorrect, PTL DEF Spec
<1>5. TypeOK /\ ChannelInv /\ OfferInv /\ [Next]_vars => [Chan!ChanNext]_(Chan!chanVars)
  BY StepSimulates
<1> QED
  BY <1>1, <1>4, <1>5, TypeCorrect, ChannelInvariant, PTL
     DEF Spec, ImplementsChannel, Chan!ChanSpec

-----------------------------------------------------------------------------
(* The file indexes                                                           *)

\* A previous or a present index without its sign, and "b holds s from byte i on".
Num(n) == n \in Int /\ n >= -1 /\ n <= 2147483646
Holds(b, i, s) == \A k \in 1 .. Len(s) : b[i + k - 1] = s[k]

\* Shifting a byte at a time is shifting by all of them (the shifts of write_ndx).
LEMMA DivDiv ==
    ASSUME NEW n \in Nat
    PROVE  /\ (n \div 256) \div 256 = n \div 65536
           /\ (n \div 65536) \div 256 = n \div 16777216
           /\ n \div 1 = n
  BY SMT

\* A number is put together again from its four bytes.
LEMMA FourBytes ==
    ASSUME NEW n \in Nat, n <= 2147483646
    PROVE  /\ n = Byte(n, 16777216) * 16777216 + Byte(n, 1) + Byte(n, 256) * 256
                    + Byte(n, 65536) * 65536
           /\ Byte(n, 16777216) \in 0 .. 127
           /\ Byte(n, 1) \in 0 .. 255 /\ Byte(n, 256) \in 0 .. 255
           /\ Byte(n, 65536) \in 0 .. 255
<1> DEFINE q1 == n \div 256
           q2 == n \div 65536
           q3 == n \div 16777216
<1>1. q1 \in Nat /\ n % 256 \in 0 .. 255 /\ n = q1 * 256 + (n % 256)
  BY SMT
<1>2. q2 \in Nat /\ q1 % 256 \in 0 .. 255 /\ q1 = q2 * 256 + (q1 % 256)
  BY SMT
<1>3. q3 \in Nat /\ q2 % 256 \in 0 .. 255 /\ q2 = q3 * 256 + (q2 % 256)
  BY SMT
<1>4. q3 \in 0 .. 127 /\ q3 % 256 = q3
  BY SMT, <1>1, <1>2, <1>3
<1>5. n \div 1 = n
  BY SMT, DivDiv
<1> HIDE DEF q1, q2, q3
<1>6. n = q3 * 16777216 + (n % 256) + (q1 % 256) * 256 + (q2 % 256) * 65536
  BY SMT, <1>1, <1>2, <1>3
<1> QED
  BY SMT, <1>1, <1>2, <1>3, <1>4, <1>5, <1>6 DEF Byte, q1, q2, q3

\* An index is its predecessor plus the difference read (read_ndx, short form).
LEMMA Reassemble ==
    ASSUME NEW num \in Int, NEW prev \in Int, NEW x \in Int, NEW y \in Int,
           num - prev = x * 256 + y
    PROVE  prev + x * 256 + y = num
  BY SMT

\* And a difference from its two.
LEMMA TwoBytes ==
    ASSUME NEW n \in Nat, n <= 32767
    PROVE  /\ n = Byte(n, 256) * 256 + Byte(n, 1)
           /\ Byte(n, 256) \in 0 .. 127 /\ Byte(n, 1) \in 0 .. 255
  BY SMT, DivDiv DEF Byte

\* The body write_ndx puts out is a nonempty sequence of numbers.
LEMMA EncodeDiffType ==
    ASSUME NEW num \in Nat, NEW prev, Num(prev)
    PROVE  EncodeDiff(num, prev) \in Seq(Int) /\ Len(EncodeDiff(num, prev)) > 0
  BY SMT DEF EncodeDiff, Byte, Num

\* The body of an index reads back as its magnitude, wherever it stands on the
\* wire, in each of the three forms; its first byte is neither 0 (NDX_DONE) nor
\* 255 (a sign), and the reader stops where the writer stopped.
LEMMA DiffRoundTrip ==
    ASSUME NEW num \in Nat, Num(num), NEW prev, Num(prev),
           NEW b, NEW i \in Nat, Holds(b, i, EncodeDiff(num, prev))
    PROVE  /\ DecodeDiff(b, i, prev) = [num |-> num, next |-> i + Len(EncodeDiff(num, prev))]
           /\ b[i] \in Nat /\ b[i] > 0 /\ b[i] < 255
           /\ EncodeDiff(num, prev) \in Seq(Int)
<1> DEFINE diff == num - prev
           e == EncodeDiff(num, prev)
<1>0. diff \in Int /\ prev \in Int
  BY SMT DEF Num
<1>1. CASE diff > 0 /\ diff < 254
  <2>1. e = <<diff>>
    BY SMT, <1>1 DEF EncodeDiff
  <2>2. b[i] = diff
    BY SMT, <2>1 DEF Holds
  <2> QED
    BY SMT, <1>0, <1>1, <2>1, <2>2 DEF DecodeDiff
<1>2. CASE diff >= 0 /\ diff <= 32767 /\ ~(diff > 0 /\ diff < 254)
  <2>1. e = <<254, Byte(diff, 256), Byte(diff, 1)>>
    BY SMT, <1>2 DEF EncodeDiff
  <2>2. /\ diff = Byte(diff, 256) * 256 + Byte(diff, 1)
        /\ Byte(diff, 256) \in 0 .. 127 /\ Byte(diff, 1) \in 0 .. 255
    BY SMT, <1>0, <1>2, TwoBytes
  <2>3. b[i] = 254 /\ b[i + 1] = Byte(diff, 256) /\ b[i + 2] = Byte(diff, 1)
    BY SMT, <2>1 DEF Holds
  <2> HIDE DEF e
  <2>4. DecodeDiff(b, i, prev) = [num |-> prev + b[i + 1] * 256 + b[i + 2], next |-> i + 3]
    BY SMT, <2>2, <2>3 DEF DecodeDiff
  <2>5. prev + b[i + 1] * 256 + b[i + 2] = num
    <3>1. b[i + 1] \in Int /\ b[i + 2] \in Int
      BY SMT, <2>2, <2>3
    <3>2. num - prev = b[i + 1] * 256 + b[i + 2]
      BY SMT, <2>2, <2>3
    <3> QED
      BY SMT, <1>0, <3>1, <3>2, Reassemble
  <2>6. Len(e) = 3 /\ e \in Seq(Int)
    BY SMT, <2>1, <2>2
  <2> QED
    BY SMT, <2>3, <2>4, <2>5, <2>6 DEF e
<1>3. CASE ~(diff >= 0 /\ diff <= 32767)
  <2>1. e = <<254, Byte(num, 16777216) + 128, Byte(num, 1), Byte(num, 256), Byte(num, 65536)>>
    BY SMT, <1>0, <1>3 DEF EncodeDiff
  <2>2. /\ num = Byte(num, 16777216) * 16777216 + Byte(num, 1) + Byte(num, 256) * 256
                    + Byte(num, 65536) * 65536
        /\ Byte(num, 16777216) \in 0 .. 127
        /\ Byte(num, 1) \in 0 .. 255 /\ Byte(num, 256) \in 0 .. 255
        /\ Byte(num, 65536) \in 0 .. 255
    BY SMT, FourBytes DEF Num
  <2>3. /\ b[i] = 254 /\ b[i + 1] = Byte(num, 16777216) + 128
        /\ b[i + 2] = Byte(num, 1) /\ b[i + 3] = Byte(num, 256)
        /\ b[i + 4] = Byte(num, 65536)
    BY SMTT(60), <2>1 DEF Holds
  <2> HIDE DEF e
  <2>4. DecodeDiff(b, i, prev)
          = [num |-> (b[i + 1] - 128) * 16777216 + b[i + 2] + b[i + 3] * 256 + b[i + 4] * 65536,
             next |-> i + 5]
    BY SMT, <2>2, <2>3 DEF DecodeDiff
  <2> QED
    BY SMTT(60), <1>0, <2>1, <2>2, <2>3, <2>4 DEF e
<1> QED
  BY SMT, <1>0, <1>1, <1>2, <1>3

\* A negative number is put together again from its bytes, the highest of which
\* carries the sign.
LEMMA FourSignedBytes ==
    ASSUME NEW n \in Int, -2147483646 <= n, n < 0
    PROVE  /\ n = (Byte(n, 16777216) - 256) * 16777216 + Byte(n, 1) + Byte(n, 256) * 256
                    + Byte(n, 65536) * 65536
           /\ Byte(n, 16777216) \in 128 .. 255
           /\ Byte(n, 1) \in 0 .. 255 /\ Byte(n, 256) \in 0 .. 255
           /\ Byte(n, 65536) \in 0 .. 255
<1> DEFINE q1 == n \div 256
           q2 == n \div 65536
           q3 == n \div 16777216
<1>1. q1 \in Int /\ n % 256 \in 0 .. 255 /\ n = q1 * 256 + (n % 256)
  BY SMT
<1>2. q2 \in Int /\ q1 % 256 \in 0 .. 255 /\ q1 = q2 * 256 + (q1 % 256)
  BY SMT
<1>3. q3 \in Int /\ q2 % 256 \in 0 .. 255 /\ q2 = q3 * 256 + (q2 % 256)
  BY SMT
<1>4. q3 < 0 /\ q3 >= -128 /\ q3 % 256 = q3 + 256
  BY SMT, <1>1, <1>2, <1>3
<1>5. n \div 1 = n
  BY SMT
<1> HIDE DEF q1, q2, q3
<1>6. n = q3 * 16777216 + (n % 256) + (q1 % 256) * 256 + (q2 % 256) * 65536
  BY SMT, <1>1, <1>2, <1>3
<1> QED
  BY SMT, <1>1, <1>2, <1>3, <1>4, <1>5, <1>6 DEF Byte, q1, q2, q3

\* What the proofs need to know of a codec state and of an index.
CodecOK(st) == st \in Codec /\ Num(st.pos) /\ Num(st.neg)
Index(n) == n \in Int /\ -2147483646 <= n /\ n <= 2147483646

\* A sign byte in front moves the body by one.
LEMMA SignByte ==
    ASSUME NEW s \in Seq(Int), NEW b, NEW i \in Nat, Holds(b, i, << 255 >> \o s)
    PROVE  /\ b[i] = 255 /\ Holds(b, i + 1, s)
           /\ Len(<< 255 >> \o s) = Len(s) + 1 /\ (<< 255 >> \o s) \in Seq(Int)
<1> DEFINE t == << 255 >> \o s
<1>1. /\ t \in Seq(Int) /\ Len(t) = Len(s) + 1 /\ t[1] = 255
      /\ \A k \in 1 .. Len(s) : t[k + 1] = s[k]
  BY SMT
<1> HIDE DEF t
<1>2. Len(s) \in Nat
  BY SMT
<1>3. \A k \in 1 .. Len(t) : b[i + k - 1] = t[k]
  BY SMT DEF Holds, t
<1>4. b[i] = 255
  BY SMT, <1>1, <1>2, <1>3
<1>5. ASSUME NEW k \in 1 .. Len(s) PROVE b[(i + 1) + k - 1] = s[k]
  BY SMTT(60), <1>1, <1>2, <1>3
<1> QED
  BY SMT, <1>1, <1>4, <1>5 DEF Holds, t

\* write_ndx then read_ndx: for every protocol, every state of the codec and every
\* index, what is read is what was written, and the reader stops exactly where the
\* writer did, whatever follows on the wire.
THEOREM RoundTrip ==
    ASSUME NEW p \in Nat, NEW st, CodecOK(st), NEW n, Index(n),
           NEW b, NEW i \in Nat, Holds(b, i, EncodeNdx(p, st, n))
    PROVE  /\ DecodeNdx(p, st, i, b) = [ndx |-> n, next |-> i + Len(EncodeNdx(p, st, n))]
           /\ EncodeNdx(p, st, n) \in Seq(Int) /\ Len(EncodeNdx(p, st, n)) > 0
<1> DEFINE e == EncodeNdx(p, st, n)
<1>0. n \in Int /\ st.pos \in Int /\ st.neg \in Int /\ Num(st.pos) /\ Num(st.neg)
  BY SMT DEF Index, CodecOK, Num
<1>1. CASE p < 30
  <2>1. e = <<Byte(n, 1), Byte(n, 256), Byte(n, 65536), Byte(n, 16777216)>>
    BY SMT, <1>1 DEF EncodeNdx
  <2>2. /\ n = (IF n < 0 THEN Byte(n, 16777216) - 256 ELSE Byte(n, 16777216)) * 16777216
                 + Byte(n, 1) + Byte(n, 256) * 256 + Byte(n, 65536) * 65536
        /\ Byte(n, 16777216) \in Int /\ (Byte(n, 16777216) >= 128 <=> n < 0)
        /\ Byte(n, 1) \in Int /\ Byte(n, 256) \in Int /\ Byte(n, 65536) \in Int
    <3>1. CASE n < 0
      BY SMTT(60), <3>1, FourSignedBytes DEF Index
    <3>2. CASE n >= 0
      <4>1. n \in Nat /\ n <= 2147483646
        BY SMT, <3>2 DEF Index
      <4>2. /\ n = Byte(n, 16777216) * 16777216 + Byte(n, 1) + Byte(n, 256) * 256
                     + Byte(n, 65536) * 65536
            /\ Byte(n, 16777216) \in 0 .. 127
            /\ Byte(n, 1) \in 0 .. 255 /\ Byte(n, 256) \in 0 .. 255
            /\ Byte(n, 65536) \in 0 .. 255
        BY ONLY <4>1, FourBytes, SMTT(60)
      <4> QED
        BY SMTT(60), <4>1, <4>2
    <3> QED
      BY SMT, <1>0, <3>1, <3>2
  <2>3. /\ b[i] = Byte(n, 1) /\ b[i + 1] = Byte(n, 256) /\ b[i + 2] = Byte(n, 65536)
        /\ b[i + 3] = Byte(n, 16777216)
    BY SMT, <2>1 DEF Holds
  <2>4. DecodeNdx(p, st, i, b) = [ndx |-> n, next |-> i + 4]
    <3> HIDE DEF e
    <3> QED
      BY SMT, <1>1, <2>2, <2>3 DEF DecodeNdx
  <2>5. e \in Seq(Int) /\ Len(e) = 4
    BY SMT, <2>1, <2>2
  <2> QED
    BY SMT, <2>4, <2>5
<1>2. CASE ~(p < 30) /\ n = -1
  <2>1. e = << 0 >>
    BY SMT, <1>2 DEF EncodeNdx, NDX_DONE
  <2>2. b[i] = 0
    BY SMT, <2>1 DEF Holds
  <2>3. e \in Seq(Int) /\ Len(e) = 1
    BY SMTT(60), <2>1
  <2>4. DecodeNdx(p, st, i, b) = [ndx |-> n, next |-> i + 1]
    <3> HIDE DEF e
    <3> QED
      BY SMTT(60), <1>2, <2>2 DEF DecodeNdx, NDX_DONE
  <2> QED
    BY SMT, <2>3, <2>4
<1>3. CASE ~(p < 30) /\ n < -1
  <2> DEFINE s == EncodeDiff(-n, st.neg)
  <2>0. -n \in Nat /\ Num(-n)
    BY SMT, <1>0, <1>3 DEF Num, Index
  <2>1. e = << 255 >> \o s
    BY SMT, <1>0, <1>3 DEF EncodeNdx, NDX_DONE
  <2>2. s \in Seq(Int)
    BY SMT, <1>0, <2>0, EncodeDiffType
  <2>3. b[i] = 255 /\ Holds(b, i + 1, s) /\ Len(e) = Len(s) + 1 /\ e \in Seq(Int)
    BY <2>1, <2>2, SignByte
  <2>4. DecodeDiff(b, i + 1, st.neg) = [num |-> -n, next |-> i + 1 + Len(s)]
    <3>1. i + 1 \in Nat
      BY SMT
    <3> QED
      BY <1>0, <2>0, <2>3, <3>1, DiffRoundTrip
  <2>5. Len(s) \in Nat
    BY SMTT(60), <2>2
  <2> HIDE DEF s, e
  <2>6. DecodeNdx(p, st, i, b) = [ndx |-> n, next |-> i + Len(e)]
    BY SMTT(60), <1>0, <1>3, <2>3, <2>4, <2>5 DEF DecodeNdx
  <2> QED
    BY SMT, <2>3, <2>5, <2>6 DEF e
<1>4. CASE ~(p < 30) /\ n >= 0
  <2> DEFINE s == EncodeDiff(n, st.pos)
  <2>0. n \in Nat /\ Num(n)
    BY SMT, <1>0, <1>4 DEF Num, Index
  <2>1. e = s
    BY SMT, <1>0, <1>4 DEF EncodeNdx, NDX_DONE
  <2>2. Holds(b, i, s)
    BY <2>1
  <2>3. /\ DecodeDiff(b, i, st.pos) = [num |-> n, next |-> i + Len(s)]
        /\ b[i] \in Nat /\ b[i] > 0 /\ b[i] < 255 /\ s \in Seq(Int)
    BY <1>0, <2>0, <2>2, DiffRoundTrip
  <2>4. Len(s) > 0
    BY SMTT(60) DEF EncodeDiff
  <2> HIDE DEF s, e
  <2>5. DecodeNdx(p, st, i, b) = [ndx |-> n, next |-> i + Len(s)]
    BY SMTT(60), <1>0, <1>4, <2>3 DEF DecodeNdx
  <2> QED
    BY SMT, <2>1, <2>3, <2>4, <2>5 DEF e
<1> QED
  BY SMT, <1>0, <1>1, <1>2, <1>3, <1>4

-----------------------------------------------------------------------------
\* The strengthening that makes ReadsWhatWasWritten inductive: every index written
\* stands at its place in the stream, encoded in the state recorded for it, and the
\* reader is at the place, and in the state, of the first index it has not read.
Shape ==
    /\ proto \in Nat /\ stream \in Seq(Int) /\ sent \in Seq(Int) /\ got \in Seq(Int)
    /\ starts \in Seq(Nat) /\ states \in Seq(Codec)
    /\ Len(starts) = Len(sent) + 1 /\ Len(states) = Len(sent) + 1

Written(j) ==
    LET e == EncodeNdx(proto, states[j], sent[j]) IN
    /\ Index(sent[j])
    /\ Holds(stream, starts[j], e)
    /\ starts[j + 1] = starts[j] + Len(e)
    /\ states[j + 1] = Advance(states[j], sent[j])

Ends ==
    /\ \A j \in 1 .. Len(starts) :
         starts[j] > 0 /\ starts[j] <= Len(stream) + 1 /\ CodecOK(states[j])
    /\ starts[Len(sent) + 1] = Len(stream) + 1
    /\ states[Len(sent) + 1] = wst

ReaderInStep ==
    /\ Len(got) <= Len(sent)
    /\ at = starts[Len(got) + 1]
    /\ rst = states[Len(got) + 1]
    /\ \A j \in 1 .. Len(got) : got[j] = sent[j]

StreamInv ==
    /\ Shape
    /\ \A j \in 1 .. Len(sent) : Written(j)
    /\ Ends
    /\ ReaderInStep

\* A codec state stays one: the previous values are indices without their sign.
LEMMA AdvanceOK ==
    ASSUME NEW st, CodecOK(st), NEW n, Index(n)
    PROVE  CodecOK(Advance(st, n))
  BY SMT DEF CodecOK, Index, Num, Codec, Advance, NDX_DONE

\* What write_ndx puts out is a nonempty sequence of numbers, in every protocol.
LEMMA EncodeType ==
    ASSUME NEW p \in Nat, NEW st, CodecOK(st), NEW n, Index(n)
    PROVE  EncodeNdx(p, st, n) \in Seq(Int) /\ Len(EncodeNdx(p, st, n)) > 0
<1> DEFINE e == EncodeNdx(p, st, n)
<1>1. Holds([k \in Int |-> e[k]], 1, e)
  BY SMT DEF Holds
<1> QED
  BY <1>1, RoundTrip, 1 \in Nat

\* The invariant below holds of two new codecs and an empty stream.
LEMMA InitInv == NdxInit => StreamInv
<1> SUFFICES ASSUME NdxInit PROVE StreamInv
  OBVIOUS
<1>1. proto \in Nat
  BY ProtosAssumption DEF NdxInit
<1>2. NewCodec \in Codec /\ CodecOK(NewCodec)
  BY SMT DEF NewCodec, Codec, CodecOK, Num
<1>3. Shape
  BY SMT, <1>1, <1>2 DEF NdxInit, Shape
<1>4. \A j \in 1 .. Len(sent) : Written(j)
  BY SMT DEF NdxInit
<1>5. Ends
  BY SMT, <1>2 DEF NdxInit, Ends
<1>6. ReaderInStep
  BY SMT DEF NdxInit, ReaderInStep
<1> QED
  BY <1>3, <1>4, <1>5, <1>6 DEF StreamInv

\* Appending bytes leaves what stood in the stream where it was.
LEMMA HoldsAppend ==
    ASSUME NEW b \in Seq(Int), NEW t \in Seq(Int), NEW s \in Seq(Int), NEW i \in Nat,
           i > 0, i + Len(s) <= Len(b) + 1, Holds(b, i, s)
    PROVE  Holds(b \o t, i, s)
<1> SUFFICES ASSUME NEW k \in 1 .. Len(s) PROVE (b \o t)[i + k - 1] = s[k]
  BY DEF Holds
<1>1. i + k - 1 \in 1 .. Len(b) /\ b[i + k - 1] = s[k]
  BY SMT DEF Holds
<1> QED
  BY SMT, <1>1

\* The bytes just appended stand at the end of the stream.
LEMMA HoldsAtEnd ==
    ASSUME NEW b \in Seq(Int), NEW s \in Seq(Int)
    PROVE  Holds(b \o s, Len(b) + 1, s)
<1> SUFFICES ASSUME NEW k \in 1 .. Len(s) PROVE (b \o s)[Len(b) + 1 + k - 1] = s[k]
  BY DEF Holds
<1> QED
  BY SMTT(60)

\* What an append does to a sequence of any kind.
LEMMA AppendFacts ==
    ASSUME NEW S, NEW s \in Seq(S), NEW x \in S
    PROVE  /\ Append(s, x) \in Seq(S) /\ Len(Append(s, x)) = Len(s) + 1
           /\ Append(s, x)[Len(s) + 1] = x
           /\ \A j \in 1 .. Len(s) : Append(s, x)[j] = s[j]
           /\ Len(s) \in Nat
  BY SMT

\* write_ndx keeps the invariant.
LEMMA WriteInv ==
    ASSUME StreamInv, NEW n \in Indices, WriteNdx(n)
    PROVE  StreamInv'
<1> DEFINE e == EncodeNdx(proto, wst, n)
           L == Len(sent)
<1>0. L \in Nat /\ L = Len(sent) /\ Len(starts) = L + 1 /\ Len(states) = L + 1
  BY SMT DEF StreamInv, Shape
<1>1. Index(n) /\ n \in Int
  BY SMT, IndicesAssumption DEF Index
<1>2. CodecOK(wst) /\ wst = states[L + 1] /\ starts[L + 1] = Len(stream) + 1
  BY SMT, <1>0 DEF StreamInv, Ends
<1>3. e \in Seq(Int) /\ Len(e) > 0 /\ Len(e) \in Nat
  <2>1. proto \in Nat
    BY DEF StreamInv, Shape
  <2>2. e \in Seq(Int) /\ Len(e) > 0
    BY <1>1, <1>2, <2>1, EncodeType, ZenonT(60)
  <2> QED
    BY SMT, <2>2
<1>4. CodecOK(wst') /\ wst' \in Codec /\ wst' = Advance(wst, n)
  BY <1>1, <1>2, AdvanceOK, ZenonT(60) DEF WriteNdx, CodecOK
<1>5. /\ stream \in Seq(Int) /\ stream' = stream \o e
      /\ stream' \in Seq(Int) /\ Len(stream') = Len(stream) + Len(e) /\ Len(stream) \in Nat
  <2>1. stream' = stream \o e /\ stream \in Seq(Int)
    BY DEF WriteNdx, StreamInv, Shape
  <2> HIDE DEF e
  <2> QED
    BY SMT, <1>3, <2>1
<1> HIDE DEF e
<1>6. /\ sent' \in Seq(Int) /\ Len(sent') = L + 1 /\ sent'[L + 1] = n
      /\ \A j \in 1 .. L : sent'[j] = sent[j]
  <2>1. sent \in Seq(Int) /\ sent' = Append(sent, n)
    BY DEF WriteNdx, StreamInv, Shape
  <2> QED
    BY <1>1, <2>1, AppendFacts
<1>7. /\ starts' \in Seq(Nat) /\ Len(starts') = L + 2 /\ starts'[L + 2] = Len(stream') + 1
      /\ \A j \in 1 .. L + 1 : starts'[j] = starts[j]
  <2>1. starts \in Seq(Nat) /\ starts' = Append(starts, Len(stream') + 1)
    BY DEF WriteNdx, StreamInv, Shape
  <2>2. Len(stream') + 1 \in Nat
    BY SMT, <1>3, <1>5
  <2>3. /\ starts' \in Seq(Nat) /\ Len(starts') = Len(starts) + 1
        /\ starts'[Len(starts) + 1] = Len(stream') + 1
        /\ \A j \in 1 .. Len(starts) : starts'[j] = starts[j]
    BY <2>1, <2>2, AppendFacts
  <2> QED
    BY SMT, <1>0, <2>3
<1>8. /\ states' \in Seq(Codec) /\ Len(states') = L + 2 /\ states'[L + 2] = wst'
      /\ \A j \in 1 .. L + 1 : states'[j] = states[j]
  <2>1. states \in Seq(Codec) /\ states' = Append(states, wst')
    BY DEF WriteNdx, StreamInv, Shape
  <2>2. /\ states' \in Seq(Codec) /\ Len(states') = Len(states) + 1
        /\ states'[Len(states) + 1] = wst'
        /\ \A j \in 1 .. Len(states) : states'[j] = states[j]
    BY <1>4, <2>1, AppendFacts
  <2> QED
    BY SMT, <1>0, <2>2
<1>9. proto' = proto /\ got' = got /\ at' = at /\ rst' = rst
  BY DEF WriteNdx
<1>10. Shape'
  <2>1. proto \in Nat /\ got \in Seq(Int)
    BY DEF StreamInv, Shape
  <2>2. Len(starts') = Len(sent') + 1 /\ Len(states') = Len(sent') + 1
    BY SMT, <1>0, <1>6, <1>7, <1>8
  <2> QED
    BY <1>5, <1>6, <1>7, <1>8, <1>9, <2>1, <2>2 DEF Shape
<1>11. ASSUME NEW j \in 1 .. Len(sent') PROVE Written(j)'
  <2>1. CASE j = L + 1
    <3>1. /\ sent'[j] = n /\ states'[j] = wst /\ states'[j + 1] = wst'
          /\ starts'[j] = Len(stream) + 1 /\ starts'[j + 1] = Len(stream') + 1
      <4>1. L + 1 \in 1 .. L + 1 /\ j + 1 = L + 2
        BY SMT, <1>0, <2>1
      <4>2. states'[j] = wst /\ states'[j + 1] = wst'
        BY <1>2, <1>8, <2>1, <4>1
      <4>3. starts'[j] = Len(stream) + 1 /\ starts'[j + 1] = Len(stream') + 1
        BY <1>2, <1>7, <2>1, <4>1
      <4> QED
        BY <1>6, <2>1, <4>2, <4>3
    <3>2. Holds(stream', Len(stream) + 1, e)
      BY <1>3, <1>5, HoldsAtEnd
    <3>3. starts'[j + 1] = starts'[j] + Len(e)
      BY SMTT(60), <1>3, <1>5, <3>1
    <3>4. e = EncodeNdx(proto', states'[j], sent'[j])
      BY <1>9, <3>1, SMTT(60) DEF e
    <3> QED
      BY <1>1, <1>4, <3>1, <3>2, <3>3, <3>4, SMTT(60) DEF Written
  <2>2. CASE j \in 1 .. L
    <3> DEFINE s == EncodeNdx(proto, states[j], sent[j])
    <3>1. Written(j)
      BY <2>2 DEF StreamInv
    <3>2. /\ sent'[j] = sent[j] /\ states'[j] = states[j] /\ states'[j + 1] = states[j + 1]
          /\ starts'[j] = starts[j] /\ starts'[j + 1] = starts[j + 1]
      BY SMTT(60), <1>0, <1>6, <1>7, <1>8, <2>2
    <3>3. /\ starts[j] \in Nat /\ starts[j] > 0 /\ starts[j + 1] <= Len(stream) + 1
          /\ CodecOK(states[j])
      BY SMTT(60), <1>0, <2>2 DEF StreamInv, Ends, Shape
    <3>4. s \in Seq(Int)
      BY <1>9, <3>1, <3>3, EncodeType DEF Written, StreamInv, Shape
    <3>5. Holds(stream, starts[j], s) /\ starts[j] + Len(s) <= Len(stream) + 1
      BY SMT, <3>1, <3>3 DEF Written
    <3> HIDE DEF s
    <3>6. Holds(stream', starts[j], s)
      BY <1>3, <1>5, <3>3, <3>4, <3>5, HoldsAppend
    <3> QED
      BY <1>9, <3>1, <3>2, <3>6, ZenonT(60) DEF Written, s
  <2> QED
    BY SMTT(60), <1>0, <1>6, <2>1, <2>2
<1>12. Ends'
  <2>1. ASSUME NEW j \in 1 .. Len(starts')
        PROVE  starts'[j] > 0 /\ starts'[j] <= Len(stream') + 1 /\ CodecOK(states'[j])
    <3>1. CASE j = L + 2
      BY SMTT(60), <1>3, <1>4, <1>5, <1>7, <1>8, <3>1
    <3>2. CASE j \in 1 .. L + 1
      <4>1. /\ starts[j] \in Nat /\ starts[j] > 0 /\ starts[j] <= Len(stream) + 1
            /\ CodecOK(states[j])
        BY SMTT(60), <1>0, <3>2 DEF StreamInv, Ends, Shape
      <4>2. starts'[j] = starts[j] /\ states'[j] = states[j]
        BY <1>7, <1>8, <3>2
      <4> QED
        BY SMTT(60), <1>3, <1>5, <4>1, <4>2
    <3> QED
      BY SMTT(60), <1>0, <1>7, <3>1, <3>2
  <2>2. starts'[Len(sent') + 1] = Len(stream') + 1 /\ states'[Len(sent') + 1] = wst'
    BY SMTT(60), <1>0, <1>6, <1>7, <1>8
  <2> QED
    BY <2>1, <2>2 DEF Ends
<1>13. ReaderInStep'
  <2>1. ReaderInStep /\ Len(got) \in Nat
    BY SMT DEF StreamInv, Shape
  <2>2. Len(got) <= L /\ Len(got) + 1 \in 1 .. L + 1
    BY SMTT(60), <1>0, <2>1 DEF ReaderInStep
  <2>3. starts'[Len(got) + 1] = starts[Len(got) + 1] /\ states'[Len(got) + 1] = states[Len(got) + 1]
    BY <1>7, <1>8, <2>2, SMTT(60)
  <2>4. \A j \in 1 .. Len(got) : got[j] = sent'[j]
    BY SMTT(60), <1>0, <1>6, <2>1, <2>2 DEF ReaderInStep
  <2>5. Len(got) <= Len(sent')
    BY SMT, <1>0, <1>6, <2>1, <2>2
  <2> QED
    BY <1>9, <2>1, <2>3, <2>4, <2>5 DEF ReaderInStep
<1> QED
  BY <1>10, <1>11, <1>12, <1>13 DEF StreamInv

\* read_ndx keeps the invariant.
LEMMA ReadInv ==
    ASSUME StreamInv, ReadNdx
    PROVE  StreamInv'
<1> DEFINE K == Len(got)
           e == EncodeNdx(proto, states[K + 1], sent[K + 1])
           d == DecodeNdx(proto, rst, at, stream)
<1>0. /\ K \in Nat /\ Len(sent) \in Nat /\ K <= Len(sent) /\ K + 1 \in 1 .. Len(starts)
      /\ Len(stream) \in Nat
  BY SMTT(60) DEF StreamInv, Shape, ReaderInStep
<1>1. K + 1 \in 1 .. Len(sent)
  <2>1. K /= Len(sent)
    BY SMTT(60), <1>0 DEF ReadNdx, StreamInv, Ends, ReaderInStep
  <2> QED
    BY SMTT(60), <1>0, <2>1
<1>2. /\ at = starts[K + 1] /\ rst = states[K + 1] /\ at \in Nat /\ CodecOK(rst)
      /\ proto \in Nat
  BY SMT, <1>0 DEF StreamInv, Shape, Ends, ReaderInStep
<1>3. /\ Index(sent[K + 1]) /\ Holds(stream, at, e)
      /\ starts[K + 2] = at + Len(e) /\ states[K + 2] = Advance(rst, sent[K + 1])
  <2>1. Written(K + 1) /\ K + 1 + 1 = K + 2
    BY SMTT(60), <1>0, <1>1 DEF StreamInv
  <2> QED
    BY <1>2, <2>1 DEF Written
<1>4. d = [ndx |-> sent[K + 1], next |-> at + Len(e)]
  BY <1>2, <1>3, RoundTrip, SMTT(60)
<1>5. at' = starts[K + 2] /\ rst' = states[K + 2] /\ got' = Append(got, sent[K + 1])
  <2>1. at' = d.next /\ rst' = Advance(rst, d.ndx) /\ got' = Append(got, d.ndx)
    BY DEF ReadNdx
  <2> HIDE DEF d, e
  <2>2. d.next = at + Len(e) /\ d.ndx = sent[K + 1]
    BY <1>4
  <2> QED
    BY <1>3, <2>1, <2>2, ZenonT(60)
<1>6. /\ got' \in Seq(Int) /\ Len(got') = K + 1 /\ got'[K + 1] = sent[K + 1]
      /\ \A j \in 1 .. K : got'[j] = got[j]
  <2>1. got \in Seq(Int) /\ sent[K + 1] \in Int
    BY <1>3 DEF StreamInv, Shape, Index
  <2> QED
    BY <1>5, <2>1, AppendFacts
<1>7. /\ proto' = proto /\ wst' = wst /\ stream' = stream /\ sent' = sent
      /\ starts' = starts /\ states' = states
  BY DEF ReadNdx
<1>8. Shape'
  BY <1>6, <1>7, SMTT(60) DEF StreamInv, Shape
<1>9. \A j \in 1 .. Len(sent') : Written(j)'
  <2> SUFFICES ASSUME NEW j \in 1 .. Len(sent) PROVE Written(j)'
    BY <1>7
  <2>1. Written(j)
    BY DEF StreamInv
  <2> QED
    BY <1>7, <2>1 DEF Written
<1>10. Ends'
  BY <1>7, SMTT(60) DEF StreamInv, Ends
<1>11. ReaderInStep'
  <2>1. Len(got') <= Len(sent')
    BY SMTT(60), <1>0, <1>1, <1>6, <1>7
  <2>2. at' = starts'[Len(got') + 1] /\ rst' = states'[Len(got') + 1]
    <3>1. Len(got') + 1 = K + 2
      BY SMT, <1>0, <1>6
    <3> QED
      BY <1>5, <1>7, <3>1, SMTT(60)
  <2>3. ASSUME NEW j \in 1 .. Len(got') PROVE got'[j] = sent'[j]
    <3>1. CASE j = K + 1
      BY <1>6, <1>7, <3>1
    <3>2. CASE j \in 1 .. K
      BY <1>6, <1>7, <3>2 DEF StreamInv, ReaderInStep
    <3> QED
      BY SMTT(60), <1>0, <1>6, <3>1, <3>2
  <2> QED
    BY <2>1, <2>2, <2>3, ZenonT(60) DEF ReaderInStep
<1> QED
  BY <1>8, <1>9, <1>10, <1>11, SMTT(60) DEF StreamInv

\* So does a step that changes nothing.
LEMMA UnchangedInv == StreamInv /\ UNCHANGED ndxVars => StreamInv'
<1> SUFFICES ASSUME StreamInv, UNCHANGED ndxVars PROVE StreamInv'
  OBVIOUS
<1>1. /\ proto' = proto /\ wst' = wst /\ rst' = rst /\ stream' = stream /\ at' = at
      /\ sent' = sent /\ got' = got /\ starts' = starts /\ states' = states
  BY SMTT(60) DEF ndxVars
<1>2. Shape' /\ Ends' /\ ReaderInStep'
  BY <1>1 DEF StreamInv, Shape, Ends, ReaderInStep
<1>3. \A j \in 1 .. Len(sent') : Written(j)'
  BY <1>1 DEF StreamInv, Written
<1> QED
  BY <1>2, <1>3 DEF StreamInv

\* The inductive invariant holds of every behaviour of a stream.
THEOREM StreamInvariant == NdxSpec => []StreamInv
<1>1. StreamInv /\ [NdxNext]_ndxVars => StreamInv'
  <2> SUFFICES ASSUME StreamInv, [NdxNext]_ndxVars PROVE StreamInv'
    OBVIOUS
  <2>1. CASE \E n \in Indices : WriteNdx(n)
    BY <2>1, WriteInv
  <2>2. CASE ReadNdx
    BY <2>2, ReadInv
  <2>3. CASE UNCHANGED ndxVars
    BY <2>3, UnchangedInv
  <2> QED
    BY <2>1, <2>2, <2>3 DEF NdxNext, NdxDone
<1> QED
  BY InitInv, <1>1, PTL DEF NdxSpec

\* read_ndx returns the indices write_ndx was given, in order and unchanged, for
\* every protocol version, every set of indices and any number of them.
THEOREM NothingMisread == NdxSpec => []ReadsWhatWasWritten
<1>1. StreamInv => ReadsWhatWasWritten
  BY DEF StreamInv, ReaderInStep, ReadsWhatWasWritten
<1> QED
  BY StreamInvariant, <1>1, PTL

\* Once every byte is read every index is, and writer and reader are in the same
\* delta state, so the next index will be read correctly too.
THEOREM StaysInStep == NdxSpec => []CodecsAgree
<1>1. StreamInv => CodecsAgree
  <2> SUFFICES ASSUME StreamInv, at > Len(stream)
               PROVE  Len(got) = Len(sent) /\ rst = wst
    BY DEF CodecsAgree
  <2> DEFINE K == Len(got)
             e == EncodeNdx(proto, states[K + 1], sent[K + 1])
  <2>0. /\ K \in Nat /\ Len(sent) \in Nat /\ K <= Len(sent) /\ K + 1 \in 1 .. Len(starts)
        /\ Len(stream) \in Nat /\ at = starts[K + 1] /\ at \in Nat
    BY SMT DEF StreamInv, Shape, ReaderInStep
  <2>1. K = Len(sent)
    <3> SUFFICES ASSUME K /= Len(sent) PROVE FALSE
      OBVIOUS
    <3>1. K + 1 \in 1 .. Len(sent) /\ K + 1 + 1 = K + 2 /\ K + 2 \in 1 .. Len(starts)
      BY SMTT(60), <2>0 DEF StreamInv, Shape
    <3>2. Written(K + 1) /\ starts[K + 2] <= Len(stream) + 1 /\ CodecOK(states[K + 1])
      BY <2>0, <3>1 DEF StreamInv, Ends
    <3>3. e \in Seq(Int) /\ Len(e) > 0
      BY <3>2, EncodeType DEF Written, StreamInv, Shape
    <3>4. starts[K + 2] = at + Len(e)
      BY <2>0, <3>1, <3>2 DEF Written
    <3> HIDE DEF e
    <3>5. Len(e) \in Nat
      BY SMT, <3>3
    <3> QED
      BY SMTT(60), <2>0, <3>2, <3>3, <3>4, <3>5
  <2> QED
    BY <2>1 DEF StreamInv, Ends, ReaderInStep
<1> QED
  BY StreamInvariant, <1>1, PTL
=============================================================================
