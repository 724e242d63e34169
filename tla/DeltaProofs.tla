----------------------------- MODULE DeltaProofs -----------------------------
(***************************************************************************)
(* The delta pipeline hands out results in submission order, balances its   *)
(* permits, loses and doubles no result, and implements the sequential loop *)
(* it replaces, for every number of items, every queue and ring capacity,   *)
(* every pool size, every threshold and every way the ceiling moves.        *)
(* OrderInv (the ring, with the types of what reaches it) and PermitInv     *)
(* (the work queue and the permits) are inductive each on its own; only the *)
(* four steps of the reorder thread touch the ring.  PlaceInv says where    *)
(* each item is and which threads have ended: each step of a thread moves   *)
(* at most one item, and the order keeps a result out of the ring twice.    *)
(***************************************************************************)
EXTENDS DeltaPipeline, CommonProofs

\* The leaves are tried with Zenon unless they name another prover.
USE Zenon

-----------------------------------------------------------------------------
(* The pipeline around the ring *)

\* The inductive invariant: the ring and the types of what goes through it.
OrderInv ==
    /\ RingInOrder /\ mode \in {"buffering", "parallel"}
    /\ cfg \in Configs /\ DOMAIN buf = Fields
    /\ stream \in Seq(Seqs)
    /\ cur \in Int /\ accepted \in Nat
    /\ ~cfg.bypass => out \in Seq(Int)

\* A pipeline starts with an empty ring of its ceiling, and nothing out.
LEMMA StartsInOrder == Init => OrderInv
<1> SUFFICES ASSUME Init PROVE OrderInv
  OBVIOUS
<1>1. /\ cfg \in Configs /\ cfg.bypass \in BOOLEAN /\ cfg.capacity \in Nat \ {0, 1}
      /\ stream = << >> /\ cur = NoItem /\ accepted = 0 /\ out = << >>
      /\ mode = "buffering" /\ rpc = "off" /\ pc = "idle"
      /\ buf = IF cfg.bypass THEN Passthrough ELSE New(Ceiling)
  BY PipelineAssumption DEF Init
<1>2. Ceiling \in Nat \ {0}
  BY <1>1, SMTT(60) DEF Ceiling
<1>3. stream \in Seq(Seqs) /\ out \in Seq(Int) /\ cur \in Int /\ accepted \in Nat
  BY <1>1, SMTT(60) DEF NoItem
<1>4. mode = "buffering" /\ rpc = "off" /\ pc = "idle" /\ cfg \in Configs /\ out = << >>
  BY <1>1
<1>5. CASE cfg.bypass
  <2>1. buf.bypass = TRUE /\ DOMAIN buf = Fields
    BY <1>1, <1>5 DEF Passthrough, New, Fields
  <2>2. QED
    BY <1>5, <1>3, <1>4, <2>1 DEF OrderInv, RingInOrder
<1>6. CASE ~cfg.bypass
  <2>1. RingOK(buf) /\ buf.next = 0 /\ buf.bypass = FALSE /\ DOMAIN buf = Fields
    BY <1>1, <1>2, <1>6, NewInOrder DEF RingOK
  <2>2. InOrder
    BY <1>1, SMTT(60) DEF InOrder
  <2>3. rpc \notin {"recv", "full", "drain", "final"}
    BY <1>4
  <2>4. QED
    BY <1>6, <1>3, <1>4, <2>1, <2>2, <2>3 DEF OrderInv, RingInOrder
<1>7. QED
  BY <1>1, <1>5, <1>6

\* A step that leaves the reorder thread alone keeps the invariant.
LEMMA Frame ==
  ASSUME OrderInv, UNCHANGED <<cfg, mode, rpc, cur, buf, out>>,
         stream' \in Seq(Seqs), accepted' \in Nat,
         rpc = "off" => pc' \in {"idle", "done", "dropped"},
         (rpc = "off" /\ pc' = "idle") => pc = "idle"
  PROVE  OrderInv'
<1>1. InOrder <=> InOrder'
  BY DEF InOrder
<1>2. QED
  BY <1>1 DEF OrderInv, RingInOrder

\* A sequence stays one over the same set when an element is added or taken.
LEMMA SeqSteps ==
  ASSUME NEW S, NEW q \in Seq(S)
  PROVE  /\ \A s \in S : Append(q, s) \in Seq(S)
         /\ q # << >> => Head(q) \in S /\ Tail(q) \in Seq(S)
  BY SMTT(60)

\* The caller's steps.
LEMMA CallerKeepsOrder ==
  ASSUME OrderInv, Caller
  PROVE  OrderInv'
<1> USE DEF callerVars, semVars, taskVars, reorderVars
<1>1. CASE SubmitWork
  <2>1. /\ pc = "idle" /\ accepted' = accepted + 1
        /\ UNCHANGED <<cfg, cur, buf, out, stream>>
        /\ \/ pc' = "acquire" /\ mode = "parallel" /\ UNCHANGED <<mode, rpc>>
           \/ pc' = "acquire" /\ mode' = "parallel" /\ rpc' = "recv" /\ mode # "parallel"
           \/ UNCHANGED <<pc, mode, rpc>>
    BY <1>1 DEF SubmitWork
  <2>2. accepted' \in Nat /\ stream' \in Seq(Seqs)
    BY <2>1, SMTT(60) DEF OrderInv
  <2>3. CASE pc' = "acquire" /\ mode = "parallel" /\ UNCHANGED <<mode, rpc>>
    BY <2>1, <2>2, <2>3, Frame DEF OrderInv, RingInOrder
  <2>4. CASE pc' = "acquire" /\ mode' = "parallel" /\ rpc' = "recv" /\ mode = "buffering"
    <3>1. rpc = "off"
      BY <2>4 DEF OrderInv, RingInOrder
    <3>2. ~cfg.bypass => buf.next = 0 /\ out = << >> /\ RingOK(buf) /\ InOrder
      BY <2>1, <3>1 DEF OrderInv, RingInOrder
    <3>3. ~cfg.bypass => Len(out') = buf'.next /\ RingOK(buf)' /\ InOrder'
      BY <2>1, <3>2 DEF InOrder
    <3>4. mode' # "buffering" /\ rpc' # "off"
      BY <2>4
    <3>5. RingInOrder'
      BY <2>1, <3>3, <3>4 DEF RingInOrder, OrderInv
    <3>6. QED
      BY <2>1, <2>2, <3>5 DEF OrderInv
  <2>5. CASE UNCHANGED <<pc, mode, rpc>>
    BY <2>1, <2>2, <2>5, Frame DEF OrderInv, RingInOrder
  <2>6. mode \in {"buffering", "parallel"}
    BY DEF OrderInv
  <2>7. QED
    BY <2>1, <2>3, <2>4, <2>5, <2>6
<1>2. CASE Acquire
  BY <1>2, Frame DEF Acquire, OrderInv, RingInOrder
<1>3. CASE Send
  BY <1>3, Frame DEF Send, OrderInv, RingInOrder
<1>4. CASE TakeResult
  BY <1>4, Frame DEF TakeResult, OrderInv, RingInOrder
<1>5. CASE Flush
  BY <1>5, Frame DEF Flush, OrderInv, RingInOrder
<1>6. CASE FlushEnds
  BY <1>6, Frame DEF FlushEnds, OrderInv, RingInOrder
<1>7. CASE FlushSequential
  <2>1. /\ mode = "buffering" /\ pc' = "done"
        /\ UNCHANGED <<cfg, mode, rpc, cur, buf, stream, accepted>>
        /\ out' = [i \in 1..accepted |-> i - 1]
    BY <1>7 DEF FlushSequential
  <2>2. rpc = "off" /\ accepted \in Nat
    BY <2>1 DEF OrderInv, RingInOrder
  <2>3. out' \in Seq(Int) /\ Len(out') = accepted
    BY <2>1, <2>2, SMTT(60)
  <2>4. InOrder'
    BY <2>1, <2>2, <2>3 DEF InOrder
  <2>5. rpc' \notin {"recv", "full", "drain", "final"} /\ pc' # "idle"
    BY <2>1, <2>2
  <2>6. RingInOrder'
    BY <2>1, <2>2, <2>4, <2>5 DEF OrderInv, RingInOrder
  <2>7. QED
    BY <2>1, <2>2, <2>3, <2>6 DEF OrderInv
<1>8. CASE Abandon
  BY <1>8, Frame DEF Abandon, OrderInv, RingInOrder
<1>9. QED
  BY <1>1, <1>2, <1>3, <1>4, <1>5, <1>6, <1>7, <1>8 DEF Caller

\* The drain thread's steps and the tasks': they only add to the stream.
LEMMA WorkersKeepOrder ==
  ASSUME OrderInv,
         Spawn \/ QueueEnds \/ ScopeEnds \/ \E s \in Seqs : Task(s)
  PROVE  OrderInv'
<1> USE DEF callerVars, semVars, taskVars, reorderVars
<1>1. CASE Spawn
  BY <1>1, Frame DEF Spawn, OrderInv, RingInOrder
<1>2. CASE QueueEnds
  BY <1>2, Frame DEF QueueEnds, OrderInv, RingInOrder
<1>3. CASE ScopeEnds
  BY <1>3, Frame DEF ScopeEnds, OrderInv, RingInOrder
<1>4. ASSUME NEW s \in Seqs, Task(s)
      PROVE  OrderInv'
  <2>1. CASE Start(s)
    BY <2>1, Frame DEF Start, OrderInv, RingInOrder
  <2>2. CASE SendResult(s)
    <3>1. /\ stream' = stream \/ stream' = Append(stream, s)
          /\ UNCHANGED <<cfg, pc, mode, accepted, rpc, cur, buf, out>>
      BY <2>2 DEF SendResult
    <3>2. stream \in Seq(Seqs) /\ accepted \in Nat
      BY DEF OrderInv
    <3>3. stream' \in Seq(Seqs)
      BY <3>1, <3>2, SeqSteps
    <3>4. QED
      BY <3>1, <3>2, <3>3, Frame DEF OrderInv, RingInOrder
  <2>3. CASE Panic(s)
    BY <2>3, Frame DEF Panic, OrderInv, RingInOrder
  <2>4. CASE Release(s)
    BY <2>4, Frame DEF Release, OrderInv, RingInOrder
  <2>5. CASE Notify(s)
    BY <2>5, Frame DEF Notify, OrderInv, RingInOrder
  <2>6. QED
    BY <1>4, <2>1, <2>2, <2>3, <2>4, <2>5 DEF Task
<1>5. QED
  BY <1>1, <1>2, <1>3, <1>4

\* The queue of a pass-through buffer replaces the ring; the flag stays.
LEMMA BypassStays ==
  ASSUME NEW b, DOMAIN b = Fields, b.bypass, NEW s
  PROVE  \A n \in {Insert(b, s), ForceInsert(b, s), NextInOrder(b)} :
            DOMAIN n = Fields /\ n.bypass
  BY DEF Insert, ForceInsert, Enqueue, NextInOrder, Fields

\* A step of the reorder thread that changes the ring and forwards nothing.
LEMMA RingFrame ==
  ASSUME OrderInv,
         UNCHANGED <<cfg, pc, mode, accepted, out>>,
         rpc # "off", rpc' # "off", stream' \in Seq(Seqs), cur' \in Int,
         DOMAIN buf' = Fields, buf'.bypass <=> buf.bypass,
         ~cfg.bypass => RingOK(buf)',
         (~cfg.bypass /\ rpc' \in {"recv", "full", "drain", "final"}) =>
            rpc \in {"recv", "full", "drain", "final"} /\ buf'.next = buf.next
  PROVE  OrderInv'
<1>1. InOrder <=> InOrder'
  BY DEF InOrder
<1>2. RingInOrder'
  BY <1>1 DEF OrderInv, RingInOrder
<1>3. QED
  BY <1>2 DEF OrderInv

\* The reorder thread's steps.
LEMMA ReorderKeepsOrder ==
  ASSUME OrderInv, Reorder
  PROVE  OrderInv'
<1> USE DEF callerVars, semVars, taskVars, ReorderUnchanged
<1>1. /\ stream \in Seq(Seqs) /\ cur \in Int /\ accepted \in Nat
      /\ DOMAIN buf = Fields
  BY DEF OrderInv
<1>2. cfg.bypass \in BOOLEAN /\ (buf.bypass <=> cfg.bypass)
  BY PipelineAssumption DEF OrderInv, RingInOrder
<1>3. ~cfg.bypass => RingOK(buf) /\ out \in Seq(Int) /\ InOrder
  BY DEF OrderInv, RingInOrder
<1>4. Seqs \subseteq Int
  BY SMTT(60) DEF Seqs
<1>5. CASE Receive
  <2> DEFINE s == Head(stream)
  <2>1. /\ rpc = "recv" /\ stream # << >> /\ stream' = Tail(stream)
        /\ UNCHANGED <<cfg, pc, mode, accepted, out>>
        /\ \/ Accepts(buf, s) /\ buf' = Insert(buf, s) /\ rpc' = "drain" /\ cur' = cur
           \/ buf' = buf /\ rpc' = "full" /\ cur' = s
    BY <1>5 DEF Receive
  <2>2. s \in Seqs /\ stream' \in Seq(Seqs)
    BY <1>1, <2>1, SeqSteps
  <2> HIDE DEF s
  <2>3. s \in Int /\ cur' \in Int
    BY <1>1, <1>4, <2>1, <2>2
  <2>4. /\ DOMAIN buf' = Fields /\ (buf'.bypass <=> buf.bypass)
        /\ ~cfg.bypass => RingOK(buf') /\ buf'.next = buf.next
    <3>1. CASE buf' = buf
      BY <1>1, <1>3, <3>1
    <3>2. CASE Accepts(buf, s) /\ buf' = Insert(buf, s) /\ cfg.bypass
      BY <1>1, <1>2, <3>2, BypassStays
    <3>3. CASE Accepts(buf, s) /\ buf' = Insert(buf, s) /\ ~cfg.bypass
      BY <1>2, <1>3, <2>3, <3>3, InsertKeepsOrder DEF RingOK
    <3>4. QED
      BY <1>2, <2>1, <3>1, <3>2, <3>3
  <2>5. QED
    BY <2>1, <2>2, <2>3, <2>4, RingFrame
<1>6. CASE Forward
  <2>1. /\ rpc \in {"full", "drain", "final"} /\ Ready(buf) /\ buf' = NextInOrder(buf)
        /\ UNCHANGED <<cfg, pc, mode, accepted, cur>>
        /\ \/ rpc' = "join" /\ stream' = << >> /\ out' = out
           \/ rpc' = rpc /\ stream' = stream /\ out' = Append(out, HeadItem(buf))
    BY <1>6 DEF Forward
  <2>2. DOMAIN buf' = Fields /\ (buf'.bypass <=> buf.bypass)
    <3>1. CASE cfg.bypass
      BY <1>1, <1>2, <2>1, <3>1, BypassStays
    <3>2. CASE ~cfg.bypass
      BY <1>2, <1>3, <2>1, <3>2, NextKeepsOrder DEF RingOK
    <3>3. QED
      BY <1>2, <3>1, <3>2
  <2>3. ~cfg.bypass => /\ HeadItem(buf) = buf.next /\ RingOK(buf')
                       /\ buf'.next = buf.next + 1 /\ buf.next \in Nat
    <3> SUFFICES ASSUME ~cfg.bypass
                 PROVE  /\ HeadItem(buf) = buf.next /\ RingOK(NextInOrder(buf))
                        /\ NextInOrder(buf).next = buf.next + 1 /\ buf.next \in Nat
      BY <2>1
    <3>1. RingOK(buf) /\ ~buf.bypass
      BY <1>2, <1>3
    <3>2. buf.next \in Nat
      BY <3>1 DEF RingOK
    <3>3. QED
      BY <2>1, <3>1, <3>2, NextKeepsOrder
  <2>4. stream' \in Seq(Seqs)
    <3>1. << >> \in Seq(Seqs)
      BY SMTT(60)
    <3>2. QED
      BY <1>1, <2>1, <3>1
  <2>5. CASE rpc' = "join" /\ out' = out
    BY <1>1, <2>1, <2>2, <2>3, <2>4, <2>5, RingFrame
  <2>6. CASE rpc' = rpc /\ out' = Append(out, HeadItem(buf))
    <3>1. ~cfg.bypass => Len(out) = buf.next
      BY <2>1 DEF OrderInv, RingInOrder
    <3>2. ~cfg.bypass => /\ out' \in Seq(Int) /\ Len(out') = buf.next + 1
                         /\ \A i \in 1..Len(out') : out'[i] = i - 1
      BY <1>3, <2>3, <2>6, <3>1, SMTT(60) DEF InOrder
    <3>3. InOrder'
      BY <2>1, <3>2 DEF InOrder
    <3>4. rpc' # "off" /\ rpc # "off"
      BY <2>1, <2>6
    <3>5. RingInOrder'
      BY <2>1, <2>2, <2>3, <2>6, <3>2, <3>3, <3>4 DEF OrderInv, RingInOrder
    <3>6. QED
      BY <1>1, <2>1, <2>2, <2>4, <3>2, <3>5 DEF OrderInv
  <2>7. QED
    BY <2>1, <2>5, <2>6
<1>7. CASE Retry
  <2>1. /\ rpc = "full" /\ stream' = stream /\ UNCHANGED <<cfg, pc, mode, accepted, out>>
        /\ \/ buf' = buf /\ rpc' = rpc /\ cur' = cur
           \/ Accepts(buf, cur) /\ buf' = Insert(buf, cur) /\ rpc' = "drain" /\ cur' = NoItem
           \/ buf' = ForceInsert(buf, cur) /\ rpc' = "drain" /\ cur' = NoItem
    BY <1>7 DEF Retry
  <2>2. cur' \in Int
    BY <1>1, <2>1, SMTT(60) DEF NoItem
  <2>3. /\ DOMAIN buf' = Fields /\ (buf'.bypass <=> buf.bypass)
        /\ ~cfg.bypass => RingOK(buf') /\ buf'.next = buf.next
    <3>1. CASE buf' = buf
      BY <1>1, <1>3, <3>1
    <3>2. CASE (buf' = Insert(buf, cur) \/ buf' = ForceInsert(buf, cur)) /\ cfg.bypass
      BY <1>1, <1>2, <3>2, BypassStays
    <3>3. CASE Accepts(buf, cur) /\ buf' = Insert(buf, cur) /\ ~cfg.bypass
      BY <1>1, <1>2, <1>3, <3>3, InsertKeepsOrder DEF RingOK
    <3>4. CASE buf' = ForceInsert(buf, cur) /\ ~cfg.bypass
      BY <1>1, <1>2, <1>3, <3>4, ForceKeepsOrder DEF RingOK
    <3>5. QED
      BY <1>2, <2>1, <3>1, <3>2, <3>3, <3>4
  <2>4. rpc' \in {"full", "drain"} /\ stream' \in Seq(Seqs)
    BY <1>1, <2>1
  <2>5. QED
    BY <2>1, <2>2, <2>3, <2>4, RingFrame
<1>8. CASE Advance
  <2>1. /\ UNCHANGED <<cfg, pc, mode, accepted, stream, cur, buf, out>>
        /\ \/ rpc = "drain" /\ rpc' = "recv"
           \/ rpc = "recv" /\ rpc' = "final"
           \/ rpc = "final" /\ rpc' = "join"
           \/ rpc = "join" /\ rpc' = "exit"
    BY <1>8 DEF Advance
  <2>2. ~cfg.bypass => RingOK(buf')
    BY <1>3, <2>1
  <2>3. QED
    BY <1>1, <2>1, <2>2, RingFrame
<1>9. QED
  BY <1>5, <1>6, <1>7, <1>8 DEF Reorder

LEMMA StepKeepsOrder == OrderInv /\ [Next]_vars => OrderInv'
<1> SUFFICES ASSUME OrderInv, [Next]_vars PROVE OrderInv'
  OBVIOUS
<1>1. CASE Caller
  BY <1>1, CallerKeepsOrder
<1>2. CASE Spawn \/ QueueEnds \/ ScopeEnds \/ \E s \in Seqs : Task(s)
  BY <1>2, WorkersKeepOrder
<1>3. CASE Reorder
  BY <1>3, ReorderKeepsOrder
<1>4. CASE UNCHANGED vars
  BY <1>4, Frame DEF vars, callerVars, taskVars, reorderVars, OrderInv, RingInOrder
<1>5. QED
  BY <1>1, <1>2, <1>3, <1>4 DEF Next, Finished

\* The ring is in order in every reachable state, across wrap-around, overflow,
\* forced growth, panics and a dropped caller (run_bare_loop, ReorderBuffer).
THEOREM RingAlwaysInOrder == Spec => [](RingInOrder)
<1>1. OrderInv => RingInOrder
  BY DEF OrderInv
<1>2. QED
  BY <1>1, StartsInOrder, StepKeepsOrder, PTL DEF Spec

\* Results reach the caller in the order of submission, for every queue, ring,
\* pool, threshold and number of items (poll_result, DeltaConsumer).
THEOREM DeliversInOrder == Spec => [](InOrder)
<1>1. RingInOrder => InOrder
  BY DEF RingInOrder, InOrder
<1>2. QED
  BY <1>1, RingAlwaysInOrder, PTL

-----------------------------------------------------------------------------
(* The permits of the adaptive work queue.                                    *)

Stages == {"none", "task", "run", "release", "notify", "fin"}
Holding == {"task", "run", "release"}

\* Items enter the work queue in the order of their numbers and leave it from the
\* front, so it holds the last ones numbered, and their tasks do not exist yet.
Queued ==
    /\ cfg \in Configs
    /\ accepted \in Nat /\ accepted <= cfg.items /\ next \in Nat /\ next <= accepted
    /\ pc \in {"acquire", "parked", "send"} => next < accepted
    /\ workq \in Seq(Nat) /\ Len(workq) <= next
    /\ \A i \in 1..Len(workq) : workq[i] = (next - Len(workq)) + (i - 1)
    /\ stage \in [Seqs -> Stages]
    /\ \A s \in Seqs : s >= next - Len(workq) => stage[s] = "none"

\* PermitsBalance is not inductive: that a new task holds no permit yet needs Queued,
\* and that there is room needs the ceiling on the permits given out, which stays
\* when the controller lowers the ceiling below what is in flight.
PermitInv ==
    /\ Queued
    /\ cap \in Nat /\ cap <= Ceiling
    /\ inFlight \in Nat
    /\ cfg.dynamic => /\ inFlight <= Ceiling
                      /\ inFlight = Len(workq) + Cardinality(At(Holding))
                                       + (IF pc = "send" THEN 1 ELSE 0)

-----------------------------------------------------------------------------
\* The items whose task holds a permit can be counted.
LEMMA HoldersFinite == IsFiniteSet(At(Holding)) /\ Cardinality(At(Holding)) \in Nat
<1>1. IsFiniteSet(Seqs)
  BY PipelineAssumption, FS_Interval, SMTT(60) DEF Seqs
<1>2. At(Holding) \subseteq Seqs
  BY DEF At
<1>3. IsFiniteSet(At(Holding))
  BY <1>1, <1>2, FS_Subset
<1>4. QED
  BY <1>3, FS_CardinalityType

\* How the number of holders moves when one item's stage does.
LEMMA HoldersMove ==
  ASSUME NEW s \in Seqs, NEW to \in Stages, stage \in [Seqs -> Stages],
         stage' = [stage EXCEPT ![s] = to]
  PROVE  /\ Cardinality(At(Holding)) \in Nat
         /\ (stage[s] \in Holding <=> to \in Holding) => At(Holding)' = At(Holding)
         /\ (stage[s] \notin Holding /\ to \in Holding) =>
               Cardinality(At(Holding)') = Cardinality(At(Holding)) + 1
         /\ (stage[s] \in Holding /\ to \notin Holding) =>
               /\ Cardinality(At(Holding)) > 0
               /\ Cardinality(At(Holding)') = Cardinality(At(Holding)) - 1
<1> DEFINE H == At(Holding)
<1>2. IsFiniteSet(H) /\ Cardinality(H) \in Nat
  BY HoldersFinite
<1>3. (stage[s] \in Holding <=> to \in Holding) => H' = H
  BY DEF At
<1>4. ASSUME stage[s] \notin Holding, to \in Holding
      PROVE  Cardinality(H') = Cardinality(H) + 1
  <2>1. H' = H \cup {s} /\ s \notin H
    BY <1>4 DEF At
  <2>2. QED
    BY <1>2, <2>1, FS_AddElement
<1>5. ASSUME stage[s] \in Holding, to \notin Holding
      PROVE  Cardinality(H) > 0 /\ Cardinality(H') = Cardinality(H) - 1
  <2>1. H' = H \ {s} /\ s \in H
    BY <1>5 DEF At
  <2>2. Cardinality(H') = Cardinality(H) - 1
    BY <1>2, <2>1, FS_RemoveElement, ZenonT(60)
  <2>3. Cardinality(H) # 0
    BY <1>2, <2>1, FS_EmptySet
  <2>4. QED
    BY <1>2, <2>2, <2>3, SMTT(60)
<1>6. QED
  BY <1>2, <1>3, <1>4, <1>5

LEMMA ConfigFacts ==
  ASSUME NEW c \in Configs
  PROVE  /\ c.items \in Nat /\ c.items <= Items /\ c.capacity \in Nat
         /\ c.dynamic \in BOOLEAN
  BY PipelineAssumption, SMTT(60)

\* An empty queue, all stages "none", and no permit given out.
LEMMA PermitStart == Init => PermitInv
<1> SUFFICES ASSUME Init PROVE PermitInv
  OBVIOUS
<1>1. /\ cfg \in Configs /\ pc = "idle" /\ accepted = 0 /\ next = 0
      /\ cap = cfg.capacity /\ inFlight = 0 /\ workq = << >>
      /\ stage = [i \in Seqs |-> "none"]
  BY DEF Init
<1>2. cfg.items \in Nat /\ cfg.capacity \in Nat /\ cfg.dynamic \in BOOLEAN
  BY <1>1, ConfigFacts
<1>3. Queued
  BY <1>1, <1>2, SMTT(60) DEF Queued, Stages
<1>4. cap \in Nat /\ cap <= Ceiling /\ 0 <= Ceiling
  BY <1>1, <1>2, SMTT(60) DEF Ceiling
<1>5. At(Holding) = {}
  BY <1>1 DEF At, Holding
<1>6. Cardinality(At(Holding)) = 0
  BY <1>5, FS_EmptySet
<1>7. QED
  BY <1>1, <1>3, <1>4, <1>6, SMTT(60) DEF PermitInv

\* A step that touches neither the queue, the tasks nor the permits.
LEMMA PermitFrame ==
  ASSUME PermitInv, UNCHANGED <<cfg, next, workq, stage, cap, inFlight>>,
         accepted' \in Nat, accepted <= accepted', accepted' <= cfg.items,
         pc' \in {"acquire", "parked", "send"} => next < accepted',
         pc' = "send" <=> pc = "send"
  PROVE  PermitInv'
<1>1. Queued'
  BY SMTT(60) DEF PermitInv, Queued
<1>2. At(Holding)' = At(Holding) /\ Ceiling' = Ceiling
  BY DEF At, Ceiling
<1>3. QED
  BY <1>1, <1>2 DEF PermitInv

-----------------------------------------------------------------------------
\* The caller's steps.
LEMMA CallerKeepsPermits ==
  ASSUME PermitInv, Caller
  PROVE  PermitInv'
<1> USE DEF callerVars, semVars, taskVars, reorderVars
<1>0. /\ cfg \in Configs /\ accepted \in Nat /\ accepted <= cfg.items /\ next \in Nat
      /\ next <= accepted /\ cfg.items \in Nat /\ cfg.items <= Items /\ cfg.capacity \in Nat
      /\ cfg.dynamic \in BOOLEAN /\ cap \in Nat /\ cap <= Ceiling /\ inFlight \in Nat
      /\ pc \in {"acquire", "parked", "send"} => next < accepted
  BY ConfigFacts DEF PermitInv, Queued
<1>1. CASE SubmitWork
  <2>1. /\ accepted' = accepted + 1 /\ accepted < cfg.items /\ pc = "idle"
        /\ pc' \in {"idle", "acquire"}
        /\ UNCHANGED <<cfg, next, workq, stage, cap, inFlight>>
    BY <1>1 DEF SubmitWork
  <2>2. QED
    BY <1>0, <2>1, PermitFrame, SMTT(60)
<1>2. CASE Acquire
  <2>1. pc = "acquire" /\ UNCHANGED <<cfg, next, accepted, workq, stage, cap>>
    BY <1>2 DEF Acquire
  <2>2. CASE pc' = "parked" /\ inFlight' = inFlight
    BY <1>0, <2>1, <2>2, PermitFrame, SMTT(60)
  <2>3. CASE /\ pc' = "send" /\ ~(cfg.dynamic /\ inFlight >= cap)
             /\ inFlight' = IF cfg.dynamic THEN inFlight + 1 ELSE inFlight
    <3>1. Queued'
      BY <1>0, <2>1, <2>3 DEF PermitInv, Queued
    <3>2. At(Holding)' = At(Holding) /\ Ceiling' = Ceiling /\ Ceiling \in Nat
      BY <1>0, <2>1, SMTT(60) DEF At, Ceiling
    <3>3. cfg.dynamic => inFlight' = inFlight + 1 /\ inFlight + 1 <= Ceiling
      BY <1>0, <2>3, <3>2, SMTT(60)
    <3>4. Len(workq) \in Nat /\ Cardinality(At(Holding)) \in Nat
      BY HoldersFinite, SMTT(60) DEF PermitInv, Queued
    <3>5. cfg.dynamic => inFlight = Len(workq) + Cardinality(At(Holding)) + 0
      BY <2>1 DEF PermitInv
    <3>6. cfg.dynamic => inFlight' = Len(workq) + Cardinality(At(Holding)) + 1
      BY <3>3, <3>4, <3>5, SMTT(60)
    <3>7. inFlight' \in Nat
      BY <1>0, <2>3, SMTT(60)
    <3>8. QED
      BY <1>0, <2>1, <2>3, <3>1, <3>2, <3>3, <3>6, <3>7 DEF PermitInv
  <2>4. QED
    BY <1>2, <2>2, <2>3 DEF Acquire
<1>3. CASE Send
  <2>1. /\ pc = "send" /\ workq' = Append(workq, next) /\ next' = next + 1
        /\ UNCHANGED <<cfg, accepted, stage, inFlight>>
        /\ pc' = IF next + 1 < accepted THEN "acquire" ELSE "idle"
        /\ cap' = cap \/ cap' \in MinDepth..Ceiling
    BY <1>3 DEF Send
  <2>2. /\ workq \in Seq(Nat) /\ Len(workq) <= next /\ stage \in [Seqs -> Stages]
        /\ \A i \in 1..Len(workq) : workq[i] = (next - Len(workq)) + (i - 1)
        /\ \A s \in Seqs : s >= next - Len(workq) => stage[s] = "none"
    BY DEF PermitInv, Queued
  <2>3. /\ workq' \in Seq(Nat) /\ Len(workq') = Len(workq) + 1
        /\ \A i \in 1..Len(workq) : workq'[i] = workq[i]
        /\ workq'[Len(workq) + 1] = next
    BY <1>0, <2>1, <2>2, SMTT(60)
  <2>4. next' - Len(workq') = next - Len(workq)
    BY <1>0, <2>1, <2>2, <2>3, SMTT(60)
  <2>5. \A i \in 1..Len(workq') : workq'[i] = (next' - Len(workq')) + (i - 1)
    <3> SUFFICES ASSUME NEW i \in 1..Len(workq')
                 PROVE  workq'[i] = (next - Len(workq)) + (i - 1)
      BY <2>4
    <3>1. CASE i \in 1..Len(workq)
      BY <2>2, <2>3, <3>1
    <3>2. CASE i = Len(workq) + 1
      BY <1>0, <2>2, <2>3, <3>2, SMTT(60)
    <3>3. i \in 1..Len(workq) \/ i = Len(workq) + 1
      BY <2>2, <2>3, SMTT(60)
    <3>4. QED
      BY <3>1, <3>2, <3>3
  <2>6. Queued'
    <3>1. next' \in Nat /\ next' <= accepted' /\ Len(workq') <= next'
      BY <1>0, <2>1, <2>2, <2>3, SMTT(60)
    <3>2. pc' \in {"acquire", "parked", "send"} => next' < accepted'
      BY <1>0, <2>1
    <3>3. QED
      BY <1>0, <2>1, <2>2, <2>3, <2>4, <2>5, <3>1, <3>2 DEF Queued
  <2>7. At(Holding)' = At(Holding) /\ Ceiling' = Ceiling /\ Ceiling \in Nat
    BY <1>0, <2>1, SMTT(60) DEF At, Ceiling
  <2>8. cap' \in Nat /\ cap' <= Ceiling'
    BY <1>0, <2>1, <2>7, SMTT(60) DEF MinDepth, Smaller
  <2>9. Cardinality(At(Holding)) \in Nat
    BY HoldersFinite
  <2>10. cfg.dynamic => inFlight = Len(workq) + Cardinality(At(Holding)) + 1 /\ inFlight <= Ceiling
    BY <2>1 DEF PermitInv
  <2>11. cfg.dynamic => inFlight = Len(workq') + Cardinality(At(Holding)) + 0
    BY <2>2, <2>3, <2>9, <2>10, SMTT(60)
  <2>12. pc' # "send"
    BY <2>1
  <2>13. QED
    BY <1>0, <2>1, <2>6, <2>7, <2>8, <2>10, <2>11, <2>12 DEF PermitInv
<1>4. CASE TakeResult \/ Flush \/ FlushEnds \/ FlushSequential \/ Abandon
  <2>1. /\ UNCHANGED <<cfg, next, accepted, workq, stage, cap, inFlight>>
        /\ pc # "send" /\ pc' \notin {"acquire", "parked", "send"}
    BY <1>4 DEF TakeResult, Flush, FlushEnds, FlushSequential, Abandon
  <2>2. QED
    BY <1>0, <2>1, PermitFrame, SMTT(60)
<1>5. QED
  BY <1>1, <1>2, <1>3, <1>4 DEF Caller

\* A task is spawned for the item at the front of the queue.
LEMMA SpawnKeepsPermits ==
  ASSUME PermitInv, Spawn
  PROVE  PermitInv'
<1> USE DEF callerVars, semVars, taskVars, reorderVars
<1> DEFINE s == Head(workq)
<1>1. /\ workq # << >> /\ workq' = Tail(workq) /\ stage' = [stage EXCEPT ![s] = "task"]
      /\ UNCHANGED <<cfg, pc, accepted, next, cap, inFlight>>
  BY DEF Spawn
<1>2. /\ cfg \in Configs /\ accepted \in Nat /\ accepted <= cfg.items /\ next \in Nat
      /\ next <= accepted /\ cfg.items \in Nat /\ cfg.items <= Items
      /\ workq \in Seq(Nat) /\ Len(workq) <= next /\ stage \in [Seqs -> Stages]
      /\ \A i \in 1..Len(workq) : workq[i] = (next - Len(workq)) + (i - 1)
      /\ \A i \in Seqs : i >= next - Len(workq) => stage[i] = "none"
      /\ Items \in Nat
  BY ConfigFacts, PipelineAssumption DEF PermitInv, Queued
<1>3. /\ Len(workq) \in Nat \ {0} /\ s = next - Len(workq) /\ s \in Seqs
  BY <1>1, <1>2, SMTT(60) DEF Seqs
<1>4. stage[s] = "none"
  BY <1>2, <1>3, SMTT(60)
<1>5. /\ workq' \in Seq(Nat) /\ Len(workq') = Len(workq) - 1
      /\ \A i \in 1..Len(workq') : workq'[i] = workq[i + 1]
  BY <1>1, <1>2, <1>3, SMTT(60)
<1>6. next - Len(workq') = s + 1
  BY <1>2, <1>3, <1>5, SMTT(60)
<1>7. \A i \in 1..Len(workq') : workq'[i] = (next - Len(workq')) + (i - 1)
  BY <1>2, <1>3, <1>5, <1>6, SMTT(60)
<1> HIDE DEF s
<1>8. \A i \in Seqs : i >= s + 1 => stage'[i] = "none"
  BY <1>1, <1>2, <1>3, SMTT(60) DEF Seqs
<1>9. stage' \in [Seqs -> Stages]
  <2>1. "task" \in Stages
    BY DEF Stages
  <2>2. QED
    BY <1>1, <1>2, <2>1
<1>10. Queued'
  <2>1. pc \in {"acquire", "parked", "send"} => next < accepted
    BY DEF PermitInv, Queued
  <2>2. Len(workq') <= next
    BY <1>2, <1>3, <1>5, SMTT(60)
  <2>3. QED
    BY <1>1, <1>2, <1>5, <1>6, <1>7, <1>8, <1>9, <2>1, <2>2 DEF Queued
<1>11. /\ Cardinality(At(Holding)) \in Nat
       /\ Cardinality(At(Holding)') = Cardinality(At(Holding)) + 1
  <2>1. "task" \in Stages /\ "task" \in Holding /\ stage[s] \notin Holding
    BY <1>4 DEF Stages, Holding
  <2>2. QED
    BY <1>1, <1>2, <1>3, <2>1, HoldersMove
<1>12. Ceiling' = Ceiling
  BY <1>1 DEF Ceiling
<1>13. cfg.dynamic => Len(workq') + Cardinality(At(Holding)') = Len(workq) + Cardinality(At(Holding))
  BY <1>3, <1>5, <1>11, SMTT(60)
<1>14. QED
  BY <1>1, <1>10, <1>12, <1>13 DEF PermitInv

\* A step of a task.
LEMMA TaskKeepsPermits ==
  ASSUME PermitInv, NEW s \in Seqs, Task(s)
  PROVE  PermitInv'
<1> USE DEF callerVars, semVars, taskVars, reorderVars
<1>1. /\ UNCHANGED <<cfg, accepted, next, workq, cap>>
      /\ pc' = pc \/ (pc = "parked" /\ pc' = "acquire")
  BY DEF Task, Start, SendResult, Panic, Release, Notify
<1>2. PICK to \in Stages :
         /\ stage' = [stage EXCEPT ![s] = to]
         /\ to # "none" /\ stage[s] # "none"
         /\ \/ stage[s] = "release" /\ to = "notify"
               /\ inFlight' = IF inFlight = 0 THEN 0 ELSE inFlight - 1
            \/ inFlight' = inFlight /\ (cfg.dynamic => (stage[s] \in Holding <=> to \in Holding))
  BY DEF Task, Start, SendResult, Panic, Release, Notify, AfterTask, Stages, Holding
<1>3. stage \in [Seqs -> Stages] /\ workq \in Seq(Nat) /\ Len(workq) \in Nat
  BY SMTT(60) DEF PermitInv, Queued
<1>4. Queued'
  <2>1. stage' \in [Seqs -> Stages]
    BY <1>2, <1>3
  <2>2. \A i \in Seqs : i >= next - Len(workq) => stage'[i] = "none"
    BY <1>2, <1>3 DEF PermitInv, Queued
  <2>3. pc' \in {"acquire", "parked", "send"} => next < accepted
    BY <1>1 DEF PermitInv, Queued
  <2>4. QED
    BY <1>1, <2>1, <2>2, <2>3 DEF PermitInv, Queued
<1>5. Ceiling' = Ceiling /\ Ceiling \in Nat /\ inFlight \in Nat
  BY <1>1, ConfigFacts, SMTT(60) DEF Ceiling, PermitInv, Queued
<1>6. pc' = "send" <=> pc = "send"
  BY <1>1
<1>7. CASE inFlight' = inFlight /\ (cfg.dynamic => (stage[s] \in Holding <=> to \in Holding))
  <2>1. cfg.dynamic => At(Holding)' = At(Holding)
    BY <1>2, <1>3, <1>7, HoldersMove
  <2>2. QED
    BY <1>1, <1>4, <1>5, <1>6, <1>7, <2>1 DEF PermitInv
<1>8. CASE /\ stage[s] = "release" /\ to = "notify"
           /\ inFlight' = IF inFlight = 0 THEN 0 ELSE inFlight - 1
  <2>1. stage[s] \in Holding /\ to \notin Holding
    BY <1>8 DEF Holding
  <2>2. /\ Cardinality(At(Holding)) \in Nat /\ Cardinality(At(Holding)) > 0
        /\ Cardinality(At(Holding)') = Cardinality(At(Holding)) - 1
    BY <1>2, <1>3, <2>1, HoldersMove
  <2>3. inFlight' \in Nat /\ inFlight' <= inFlight
    BY <1>5, <1>8, SMTT(60)
  <2> DEFINE p == IF pc = "send" THEN 1 ELSE 0
  <2>4. cfg.dynamic => /\ inFlight <= Ceiling
                       /\ inFlight = Len(workq) + Cardinality(At(Holding)) + p
    BY DEF PermitInv
  <2>5. p \in Nat /\ p' = p
    BY <1>6
  <2> HIDE DEF p
  <2>6. cfg.dynamic => /\ inFlight' = Len(workq) + Cardinality(At(Holding)') + p
                       /\ inFlight' <= Ceiling
    BY <1>3, <1>5, <1>8, <2>2, <2>4, <2>5, SMTT(60)
  <2>7. QED
    BY <1>1, <1>4, <1>5, <2>3, <2>5, <2>6 DEF PermitInv, p
<1>9. QED
  BY <1>2, <1>7, <1>8

\* Every other step leaves queue, tasks and permits alone.
LEMMA OthersKeepPermits ==
  ASSUME PermitInv, QueueEnds \/ ScopeEnds \/ Reorder \/ UNCHANGED vars
  PROVE  PermitInv'
<1>1. UNCHANGED <<cfg, pc, accepted, next, workq, stage, cap, inFlight>>
  BY DEF QueueEnds, ScopeEnds, Reorder, Receive, Forward, Retry, Advance, ReorderUnchanged,
         vars, callerVars, semVars, taskVars, reorderVars
<1>2. accepted \in Nat /\ accepted <= cfg.items
      /\ (pc \in {"acquire", "parked", "send"} => next < accepted)
  BY DEF PermitInv, Queued
<1>3. QED
  BY <1>1, <1>2, PermitFrame, SMTT(60)

LEMMA StepKeepsPermits == PermitInv /\ [Next]_vars => PermitInv'
<1> SUFFICES ASSUME PermitInv, [Next]_vars PROVE PermitInv'
  OBVIOUS
<1>1. CASE Caller
  BY <1>1, CallerKeepsPermits
<1>2. CASE Spawn
  BY <1>2, SpawnKeepsPermits
<1>3. ASSUME NEW s \in Seqs, Task(s) PROVE PermitInv'
  BY <1>3, TaskKeepsPermits
<1>4. CASE QueueEnds \/ ScopeEnds \/ Reorder \/ UNCHANGED vars
  BY <1>4, OthersKeepPermits
<1>5. QED
  BY <1>1, <1>2, <1>3, <1>4, ZenonT(60) DEF Next, Finished

\* AdaptiveSemaphore counts exactly the admitted items whose task has not given its
\* permit back, panics included, and a sender with a permit finds room in the channel,
\* however the controller moves the ceiling (bounded.rs, adaptive_semaphore.rs).
THEOREM PermitsAlwaysBalance == Spec => []PermitsBalance
<1>1. PermitInv => PermitsBalance
  <2> SUFFICES ASSUME PermitInv, cfg.dynamic
               PROVE  /\ inFlight = Len(workq) + Cardinality(At(Holding))
                                       + (IF pc = "send" THEN 1 ELSE 0)
                      /\ pc = "send" => Len(workq) < ChannelCapacity
    BY DEF PermitsBalance, Holding
  <2>1. /\ inFlight = Len(workq) + Cardinality(At(Holding)) + (IF pc = "send" THEN 1 ELSE 0)
        /\ inFlight <= Ceiling /\ Ceiling \in Nat /\ Len(workq) \in Nat
    BY ConfigFacts, SMTT(60) DEF PermitInv, Queued, Ceiling
  <2>2. Cardinality(At(Holding)) \in Nat
    BY HoldersFinite
  <2>3. QED
    BY <2>1, <2>2, SMTT(60) DEF ChannelCapacity
<1>2. QED
  BY <1>1, PermitStart, StepKeepsPermits, PTL DEF Spec

-----------------------------------------------------------------------------
(* Where each item is *)

Count(q, s) == Cardinality({i \in 1..Len(q) : q[i] = s})

InTask(s) == IF stage[s] \in {"task", "run"} THEN 1 ELSE 0
InHand(s) == IF cur = s THEN 1 ELSE 0
InRing(s) == IF buf.bypass THEN Count(buf.queue, s) ELSE IF s \in Held(buf) THEN 1 ELSE 0
Lost(s) == IF s \in panicked THEN 1 ELSE 0
Places(s) == Count(workq, s) + Count(stream, s) + Count(out, s)
               + InTask(s) + InHand(s) + InRing(s) + Lost(s)

\* What goes through the pipeline is items.
Typed ==
    /\ workq \in Seq(Seqs) /\ stream \in Seq(Seqs) /\ out \in Seq(Seqs)
    /\ cur \in Seqs \cup {NoItem} /\ panicked \subseteq Seqs
    /\ buf.bypass => buf.queue \in Seq(Seqs)
    /\ ~buf.bypass => Held(buf) \subseteq Seqs
    /\ pc \in {"idle", "acquire", "parked", "send", "flush", "done", "dropped"}
    /\ drain \in {"off", "recv", "scope", "joined"}
    /\ rpc \in {"off", "recv", "full", "drain", "final", "join", "exit"}
    /\ taken \in Nat /\ taken <= Len(out)

\* How far the threads are: each stage of the pipeline ends after the one before it,
\* with nothing left in between, unless the caller dropped the pipeline.
Phases ==
    /\ mode = "buffering" <=> drain = "off"
    /\ mode = "buffering" => next = 0
    /\ (mode = "buffering" /\ pc = "idle") => out = << >>
    /\ (mode = "parallel" /\ pc \in {"idle", "flush", "done"}) => next = accepted
    /\ (mode = "parallel" /\ pc = "done") => rpc = "exit" /\ taken = Len(out)
    /\ drain \in {"scope", "joined"} => workq = << >> /\ WorkTxDropped
    /\ drain = "joined" => At({"task", "run", "release", "notify"}) = {}
    /\ rpc = "full" => cur # NoItem
    /\ pc # "dropped" => /\ cur # NoItem => rpc = "full"
                         /\ rpc \in {"final", "join", "exit"} => stream = << >> /\ drain = "joined"
                         /\ rpc \in {"join", "exit"} =>
                               ~Ready(buf) /\ (~cfg.bypass => Len(out) = buf.next)

\* InOnePlace with the items not submitted yet, which are nowhere: an item is never
\* in two places, and a submitted one never in none.
Balanced ==
    (pc # "dropped" /\ (mode = "parallel" \/ pc = "idle")) =>
        \A s \in Seqs : Places(s) = IF s < next THEN 1 ELSE 0

PlaceInv == Typed /\ Phases /\ Balanced
-----------------------------------------------------------------------------
\* How often an item is in a queue.
LEMMA CountFacts ==
  ASSUME NEW S, NEW q \in Seq(S), NEW s
  PROVE  /\ IsFiniteSet({i \in 1..Len(q) : q[i] = s})
         /\ Count(q, s) \in Nat
         /\ Count(q, s) = 0 <=> \A i \in 1..Len(q) : q[i] # s
<1> DEFINE D == {i \in 1..Len(q) : q[i] = s}
<1>1. IsFiniteSet(1..Len(q)) /\ D \subseteq 1..Len(q)
  <2>1. 1 \in Int /\ Len(q) \in Int
    BY SMTT(60)
  <2>2. QED
    BY <2>1, FS_Interval
<1>2. IsFiniteSet(D)
  BY <1>1, FS_Subset
<1>3. Cardinality(D) \in Nat
  BY <1>2, FS_CardinalityType
<1>4. Cardinality(D) = 0 <=> D = {}
  BY <1>2, FS_EmptySet
<1>5. D = {} <=> \A i \in 1..Len(q) : q[i] # s
  OBVIOUS
<1>6. QED
  BY <1>2, <1>3, <1>4, <1>5 DEF Count

LEMMA CountEmpty == \A s : Count(<< >>, s) = 0
<1> SUFFICES ASSUME NEW s PROVE Count(<< >>, s) = 0
  OBVIOUS
<1>1. {i \in 1..Len(<< >>) : << >>[i] = s} = {}
  BY SMTT(60)
<1>2. QED
  BY <1>1, FS_EmptySet DEF Count

LEMMA CountAppend ==
  ASSUME NEW S, NEW q \in Seq(S), NEW x \in S, NEW s
  PROVE  Count(Append(q, x), s) = Count(q, s) + (IF x = s THEN 1 ELSE 0)
<1> DEFINE D == {i \in 1..Len(q) : q[i] = s}
           n == Len(q) + 1
           E == {i \in 1..Len(Append(q, x)) : Append(q, x)[i] = s}
<1>0. Count(q, s) = Cardinality(D) /\ Count(Append(q, x), s) = Cardinality(E)
  BY DEF Count
<1>1. IsFiniteSet(D) /\ Cardinality(D) \in Nat
  BY CountFacts DEF Count
<1>2. /\ Len(q) \in Nat /\ Len(Append(q, x)) = n /\ n \notin D
      /\ Append(q, x)[n] = x /\ \A i \in 1..Len(q) : Append(q, x)[i] = q[i]
  BY SMTT(60)
<1>3. x = s => E = D \cup {n}
  BY <1>2, SMTT(60)
<1>4. x # s => E = D
  BY <1>2, SMTT(60)
<1>5. Cardinality(D \cup {n}) = Cardinality(D) + 1
  BY <1>1, <1>2, FS_AddElement
<1>6. x = s => Count(Append(q, x), s) = Cardinality(D) + 1
  BY <1>0, <1>3, <1>5
<1>7. x # s => Count(Append(q, x), s) = Cardinality(D)
  BY <1>0, <1>4
<1> DEFINE a == Count(Append(q, x), s)
           d == Cardinality(D)
<1>8. (x = s => a = d + 1) /\ (x # s => a = d) /\ d \in Nat /\ Count(q, s) = d
  BY <1>0, <1>1, <1>6, <1>7
<1> HIDE DEF a, d
<1>9. a = d + (IF x = s THEN 1 ELSE 0)
  BY <1>8, SMTT(60)
<1>10. QED
  BY <1>8, <1>9 DEF a

LEMMA CountTail ==
  ASSUME NEW S, NEW q \in Seq(S), q # << >>, NEW s
  PROVE  Count(Tail(q), s) = Count(q, s) - (IF Head(q) = s THEN 1 ELSE 0)
<1> DEFINE D == {i \in 1..Len(q) : q[i] = s}
           T == {i \in 1..Len(Tail(q)) : Tail(q)[i] = s}
           f == [i \in T |-> i + 1]
<1>0. Count(q, s) = Cardinality(D) /\ Count(Tail(q), s) = Cardinality(T)
  BY DEF Count
<1>1. IsFiniteSet(D) /\ Cardinality(D) \in Nat
  BY CountFacts DEF Count
<1>2. Tail(q) \in Seq(S)
  BY SMTT(60)
<1>3. IsFiniteSet(T)
  BY <1>2, CountFacts
<1>4. /\ Len(q) \in Nat \ {0} /\ Len(Tail(q)) = Len(q) - 1 /\ Head(q) = q[1]
      /\ \A i \in 1..Len(Tail(q)) : Tail(q)[i] = q[i + 1]
  BY SMTT(60)
<1>5. f \in Bijection(T, D \ {1})
  <2>1. \A i \in T : i \in Int /\ i + 1 \in D \ {1}
    BY <1>4, SMTT(60)
  <2>2. f \in [T -> D \ {1}]
    BY <2>1
  <2>3. \A i, j \in T : f[i] = f[j] => i = j
    BY <2>1, SMTT(60)
  <2>4. \A k \in D \ {1} : k - 1 \in T /\ f[k - 1] = k
    BY <1>4, SMTT(60)
  <2>5. QED
    BY <2>2, <2>3, <2>4 DEF Bijection, Injection, Surjection, IsInjective
<1>6. Cardinality(D \ {1}) = Cardinality(T)
  BY <1>3, <1>5, FS_Bijection, ZenonT(60) DEF ExistsBijection
<1>7. Cardinality(D \ {1}) = IF 1 \in D THEN Cardinality(D) - 1 ELSE Cardinality(D)
  BY <1>1, FS_RemoveElement
<1>8. 1 \in D <=> Head(q) = s
  BY <1>4, SMTT(60)
<1> HIDE DEF D, T
<1>9. QED
  BY <1>0, <1>1, <1>6, <1>7, <1>8, SMTT(60)
-----------------------------------------------------------------------------
\* The facts about the pipeline's configuration and numbering that the steps need.
LEMMA ItemFacts ==
  ASSUME OrderInv, PermitInv
  PROVE  /\ Items \in Nat \ {0} /\ accepted \in Nat /\ accepted <= Items
         /\ next \in Nat /\ next <= accepted
         /\ cfg.bypass \in BOOLEAN /\ (buf.bypass <=> cfg.bypass)
         /\ mode \in {"buffering", "parallel"} /\ (mode = "buffering" <=> rpc = "off")
         /\ stage \in [Seqs -> Stages]
         /\ pc \in {"acquire", "parked", "send"} => mode = "parallel" /\ next < accepted
<1>1. Items \in Nat \ {0} /\ cfg.bypass \in BOOLEAN /\ cfg.items \in Nat /\ cfg.items <= Items
  BY PipelineAssumption, SMTT(60) DEF OrderInv
<1>2. /\ accepted \in Nat /\ accepted <= cfg.items /\ next \in Nat /\ next <= accepted
      /\ stage \in [Seqs -> Stages] /\ (pc \in {"acquire", "parked", "send"} => next < accepted)
  BY DEF PermitInv, Queued
<1>3. /\ buf.bypass <=> cfg.bypass
      /\ mode \in {"buffering", "parallel"} /\ (mode = "buffering" <=> rpc = "off")
      /\ rpc = "off" => pc \in {"idle", "done", "dropped"}
  BY DEF OrderInv, RingInOrder
<1>4. QED
  BY <1>1, <1>2, <1>3, SMTT(60)

LEMMA PartsAreNat ==
  ASSUME Typed, NEW s \in Seqs
  PROVE  /\ Count(workq, s) \in Nat /\ Count(stream, s) \in Nat /\ Count(out, s) \in Nat
         /\ InTask(s) \in {0, 1} /\ InHand(s) \in {0, 1} /\ Lost(s) \in {0, 1}
         /\ InRing(s) \in Nat
<1>1. workq \in Seq(Seqs) /\ stream \in Seq(Seqs) /\ out \in Seq(Seqs)
      /\ (buf.bypass => buf.queue \in Seq(Seqs))
  BY DEF Typed
<1>2. Count(workq, s) \in Nat /\ Count(stream, s) \in Nat /\ Count(out, s) \in Nat
      /\ (buf.bypass => Count(buf.queue, s) \in Nat)
  BY <1>1, CountFacts
<1>3. QED
  BY <1>2 DEF InTask, InHand, Lost, InRing

\* The items are where they were.
LEMMA SamePlaces ==
  ASSUME Balanced, UNCHANGED <<workq, stream, out, cur, buf, panicked, next>>,
         \A s \in Seqs : stage'[s] \in {"task", "run"} <=> stage[s] \in {"task", "run"},
         (pc' # "dropped" /\ (mode' = "parallel" \/ pc' = "idle")) =>
            (pc # "dropped" /\ (mode = "parallel" \/ pc = "idle"))
  PROVE  Balanced'
<1>1. ASSUME NEW s \in Seqs PROVE Places(s)' = Places(s)
  BY DEF Places, InTask, InHand, InRing, Lost
<1>2. QED
  BY <1>1 DEF Balanced

\* One part of an item's places gains what another loses.
LEMMA OneMoves ==
  ASSUME Balanced, next' = next, pc' = pc, mode' = mode,
         \A s \in Seqs : Places(s)' = Places(s)
  PROVE  Balanced'
  BY DEF Balanced

\* While the caller listens, an item that is somewhere is nowhere else.
LEMMA NowhereElse ==
  ASSUME Balanced, Typed, pc # "dropped", mode = "parallel", NEW s \in Seqs
  PROVE  /\ Count(workq, s) + Count(stream, s) + Count(out, s)
               + InTask(s) + InHand(s) + InRing(s) + Lost(s) <= 1
         /\ (Count(workq, s) + Count(stream, s) + Count(out, s)
               + InTask(s) + InHand(s) + InRing(s) + Lost(s) > 0) => s < next
<1>1. Places(s) = IF s < next THEN 1 ELSE 0
  BY DEF Balanced
<1>2. QED
  BY <1>1, SMTT(60) DEF Places

\* An empty pipeline.
LEMMA PlaceStart == Init => PlaceInv
<1> SUFFICES ASSUME Init PROVE PlaceInv
  OBVIOUS
<1>1. /\ pc = "idle" /\ mode = "buffering" /\ accepted = 0 /\ next = 0 /\ workq = << >>
      /\ drain = "off" /\ stage = [i \in Seqs |-> "none"] /\ panicked = {} /\ stream = << >>
      /\ rpc = "off" /\ cur = NoItem /\ out = << >> /\ taken = 0
      /\ buf = (IF cfg.bypass THEN Passthrough ELSE New(Ceiling))
  BY DEF Init
<1>2. cfg.bypass \in BOOLEAN /\ cfg.capacity \in Nat /\ cfg.dynamic \in BOOLEAN
  BY PipelineAssumption DEF Init
<1>3. /\ buf.bypass <=> cfg.bypass
      /\ buf.bypass => buf.queue = << >>
      /\ ~buf.bypass => Held(buf) = {}
  <2>1. CASE cfg.bypass
    BY <1>1, <2>1 DEF Passthrough, New
  <2>2. CASE ~cfg.bypass
    <3>1. /\ buf.bypass = FALSE /\ buf.capacity = Ceiling
          /\ buf.slots = [i \in 0..Ceiling - 1 |-> NoItem]
      BY <1>1, <2>2 DEF New
    <3>2. QED
      BY <2>2, <3>1 DEF Held
  <2>3. QED
    BY <1>2, <2>1, <2>2
<1>4. Typed
  <2>1. workq \in Seq(Seqs) /\ stream \in Seq(Seqs) /\ out \in Seq(Seqs)
    BY <1>1, SMTT(60)
  <2>2. taken \in Nat /\ taken <= Len(out)
    BY <1>1, SMTT(60)
  <2>3. /\ buf.bypass => buf.queue \in Seq(Seqs)
        /\ ~buf.bypass => Held(buf) \subseteq Seqs
    <3>1. << >> \in Seq(Seqs)
      BY SMTT(60)
    <3>2. QED
      BY <1>3, <3>1
  <2>4. QED
    BY <1>1, <2>1, <2>2, <2>3 DEF Typed
<1>5. Phases
  BY <1>1 DEF Phases
<1>6. ASSUME NEW s \in Seqs PROVE Places(s) = IF s < next THEN 1 ELSE 0
  <2>1. Count(workq, s) = 0 /\ Count(stream, s) = 0 /\ Count(out, s) = 0
    BY <1>1, CountEmpty
  <2>2. InTask(s) = 0 /\ Lost(s) = 0 /\ InHand(s) = 0
    BY <1>1, SMTT(60) DEF InTask, Lost, InHand, Seqs, NoItem
  <2>3. InRing(s) = 0
    BY <1>3, CountEmpty DEF InRing
  <2>4. ~(s < next)
    BY <1>1, SMTT(60) DEF Seqs
  <2>5. QED
    BY <2>1, <2>2, <2>3, <2>4, SMTT(60) DEF Places
<1>7. QED
  BY <1>4, <1>5, <1>6 DEF PlaceInv, Balanced

\* The caller's steps.
LEMMA CallerKeepsPlaces ==
  ASSUME OrderInv, PermitInv, PlaceInv, Caller
  PROVE  PlaceInv'
<1> USE DEF callerVars, semVars, taskVars, reorderVars
<1>0. Typed /\ Phases /\ Balanced
  BY DEF PlaceInv
<1>1. /\ Items \in Nat \ {0} /\ accepted \in Nat /\ accepted <= Items
      /\ next \in Nat /\ next <= accepted
      /\ mode \in {"buffering", "parallel"} /\ (mode = "buffering" <=> rpc = "off")
      /\ pc \in {"acquire", "parked", "send"} => mode = "parallel" /\ next < accepted
  BY ItemFacts
<1>2. CASE SubmitWork
  <2>1. /\ pc = "idle"
        /\ UNCHANGED <<next, workq, stage, panicked, stream, cur, buf, out, taken>>
        /\ \/ mode = "parallel" /\ pc' = "acquire" /\ UNCHANGED <<mode, drain, rpc>>
           \/ mode # "parallel" /\ pc' = "acquire" /\ mode' = "parallel"
                /\ drain' = "recv" /\ rpc' = "recv"
           \/ mode # "parallel" /\ UNCHANGED <<pc, mode, drain, rpc>>
    BY <1>2 DEF SubmitWork
  <2>2. Balanced'
    BY <1>0, <2>1, SamePlaces
  <2>3. Typed'
    BY <1>0, <2>1 DEF Typed
  <2>4. At({"task", "run", "release", "notify"})' = At({"task", "run", "release", "notify"})
    BY <2>1 DEF At
  <2>5. Phases'
    BY <1>0, <1>1, <2>1, <2>4 DEF Phases, WorkTxDropped
  <2>6. QED
    BY <2>2, <2>3, <2>5 DEF PlaceInv
<1>3. CASE Acquire \/ TakeResult \/ Flush \/ FlushEnds \/ Abandon
  <2>1. /\ UNCHANGED <<cfg, accepted, mode, next, workq, drain, stage, panicked, stream,
                       rpc, cur, buf, out>>
        /\ \/ pc = "acquire" /\ pc' \in {"parked", "send"} /\ taken' = taken
           \/ pc \in {"idle", "flush"} /\ pc' = pc /\ taken < Len(out) /\ taken' = taken + 1
           \/ pc = "idle" /\ pc' = "flush" /\ mode = "parallel" /\ taken' = taken
           \/ pc = "flush" /\ pc' = "done" /\ taken = Len(out) /\ rpc = "exit" /\ taken' = taken
           \/ pc = "idle" /\ pc' = "dropped" /\ taken' = taken
    BY <1>3 DEF Acquire, TakeResult, Flush, FlushEnds, Abandon
  <2>2. Balanced'
    BY <1>0, <1>1, <2>1, SamePlaces
  <2>3. Typed'
    BY <1>0, <2>1, SMTT(60) DEF Typed
  <2>4. At({"task", "run", "release", "notify"})' = At({"task", "run", "release", "notify"})
    BY <2>1 DEF At
  <2>5. WorkTxDropped => WorkTxDropped'
    BY <2>1 DEF WorkTxDropped
  <2>6. Phases'
    BY <1>0, <1>1, <2>1, <2>4, <2>5 DEF Phases, WorkTxDropped
  <2>7. QED
    BY <2>2, <2>3, <2>6 DEF PlaceInv
<1>4. CASE Send
  <2>1. /\ pc = "send" /\ workq' = Append(workq, next) /\ next' = next + 1
        /\ pc' = (IF next + 1 < accepted THEN "acquire" ELSE "idle")
        /\ UNCHANGED <<accepted, mode, drain, stage, panicked, stream, rpc, cur, buf, out, taken>>
    BY <1>4 DEF Send
  <2>2. next \in Seqs /\ mode = "parallel"
    BY <1>1, <2>1, SMTT(60) DEF Seqs
  <2>3. workq \in Seq(Seqs) /\ workq' \in Seq(Seqs)
    BY <1>0, <2>1, <2>2, SMTT(60) DEF Typed
  <2>4. Typed'
    BY <1>0, <2>1, <2>3 DEF Typed
  <2>5. drain \notin {"scope", "joined"}
    BY <1>0, <2>1 DEF Phases, WorkTxDropped
  <2>6. Phases'
    BY <1>0, <1>1, <2>1, <2>2, <2>5, SMTT(60) DEF Phases
  <2>7. ASSUME NEW s \in Seqs PROVE Places(s)' = IF s < next' THEN 1 ELSE 0
    <3>1. Places(s) = IF s < next THEN 1 ELSE 0
      BY <1>0, <2>1, <2>2 DEF Balanced
    <3>2. Count(workq', s) = Count(workq, s) + (IF next = s THEN 1 ELSE 0)
      <4>1. Count(Append(workq, next), s) = Count(workq, s) + (IF next = s THEN 1 ELSE 0)
        BY <2>2, <2>3, CountAppend, SMTT(60)
      <4>2. QED
        BY <2>1, <4>1
    <3>3. /\ InTask(s)' = InTask(s) /\ InHand(s)' = InHand(s) /\ InRing(s)' = InRing(s)
          /\ Lost(s)' = Lost(s) /\ Count(stream, s)' = Count(stream, s)
          /\ Count(out, s)' = Count(out, s)
      BY <2>1 DEF InTask, InHand, InRing, Lost
    <3>4. Places(s)' = Places(s) + (IF next = s THEN 1 ELSE 0)
      BY <1>0, <3>2, <3>3, PartsAreNat, SMTT(60) DEF Places
    <3>5. QED
      BY <1>1, <2>1, <3>1, <3>4, SMTT(60) DEF Seqs
  <2>8. QED
    BY <2>4, <2>6, <2>7 DEF PlaceInv, Balanced
<1>5. CASE FlushSequential
  <2>1. /\ pc = "idle" /\ mode = "buffering" /\ pc' = "done" /\ taken' = accepted
        /\ out' = [i \in 1..accepted |-> i - 1]
        /\ UNCHANGED <<accepted, mode, next, workq, drain, stage, panicked, stream, rpc, cur, buf>>
    BY <1>5 DEF FlushSequential
  <2>2. out' \in Seq(Seqs) /\ Len(out') = accepted
    BY <1>1, <2>1, SMTT(60) DEF Seqs
  <2>3. Typed'
    BY <1>0, <1>1, <2>1, <2>2, SMTT(60) DEF Typed
  <2>4. Phases'
    BY <1>0, <1>1, <2>1 DEF Phases
  <2>5. Balanced'
    BY <2>1 DEF Balanced
  <2>6. QED
    BY <2>3, <2>4, <2>5 DEF PlaceInv
<1>6. QED
  BY <1>2, <1>3, <1>4, <1>5 DEF Caller
\* The drain thread spawns the task of the item at the front of the queue.
LEMMA SpawnKeepsPlaces ==
  ASSUME OrderInv, PermitInv, PlaceInv, Spawn
  PROVE  PlaceInv'
<1> USE DEF callerVars, semVars, taskVars, reorderVars
<1> DEFINE h == Head(workq)
<1>0. Typed /\ Phases /\ Balanced
  BY DEF PlaceInv
<1>1. /\ drain = "recv" /\ workq # << >> /\ workq' = Tail(workq)
      /\ stage' = [stage EXCEPT ![h] = "task"]
      /\ UNCHANGED <<pc, accepted, mode, next, drain, panicked, stream, rpc, cur, buf, out, taken>>
  BY DEF Spawn
<1>2. /\ stage \in [Seqs -> Stages] /\ workq \in Seq(Nat) /\ Len(workq) <= next /\ next \in Nat
      /\ \A i \in 1..Len(workq) : workq[i] = (next - Len(workq)) + (i - 1)
      /\ \A i \in Seqs : i >= next - Len(workq) => stage[i] = "none"
  BY DEF PermitInv, Queued
<1>3. workq \in Seq(Seqs) /\ h \in Seqs /\ workq' \in Seq(Seqs)
  BY <1>0, <1>1, SMTT(60) DEF Typed
<1>4. stage[h] = "none"
  <2>1. Len(workq) \in Nat \ {0} /\ h = workq[1]
    BY <1>1, <1>2, SMTT(60)
  <2>2. h = next - Len(workq)
    BY <1>2, <2>1, SMTT(60)
  <2>3. QED
    BY <1>2, <1>3, <2>1, <2>2, SMTT(60)
<1> HIDE DEF h
<1>5. Typed'
  BY <1>0, <1>1, <1>3 DEF Typed
<1>6. Phases'
  BY <1>0, <1>1 DEF Phases
<1>7. ASSUME NEW s \in Seqs PROVE Places(s)' = Places(s)
  <2>1. Count(Tail(workq), s) = Count(workq, s) - (IF h = s THEN 1 ELSE 0)
    BY <1>1, <1>3, CountTail DEF h
  <2>2. Count(workq', s) = Count(workq, s) - (IF h = s THEN 1 ELSE 0)
    BY <1>1, <2>1
  <2>3. InTask(s)' = InTask(s) + (IF h = s THEN 1 ELSE 0)
    BY <1>1, <1>2, <1>3, <1>4, SMTT(60) DEF InTask
  <2>4. /\ InHand(s)' = InHand(s) /\ InRing(s)' = InRing(s)
        /\ Lost(s)' = Lost(s) /\ Count(stream, s)' = Count(stream, s)
        /\ Count(out, s)' = Count(out, s)
    BY <1>1 DEF InHand, InRing, Lost
  <2>5. QED
    BY <1>0, <2>2, <2>3, <2>4, PartsAreNat, SMTT(60) DEF Places
<1>8. Balanced'
  BY <1>0, <1>1, <1>7, OneMoves
<1>9. QED
  BY <1>5, <1>6, <1>8 DEF PlaceInv

\* The drain thread ends after the queue and after its tasks.
LEMMA DrainKeepsPlaces ==
  ASSUME OrderInv, PermitInv, PlaceInv, QueueEnds \/ ScopeEnds
  PROVE  PlaceInv'
<1> USE DEF callerVars, semVars, taskVars, reorderVars
<1>0. Typed /\ Phases /\ Balanced
  BY DEF PlaceInv
<1>1. /\ UNCHANGED <<pc, accepted, mode, next, workq, stage, panicked, stream, rpc, cur, buf,
                     out, taken>>
      /\ \/ drain = "recv" /\ workq = << >> /\ WorkTxDropped /\ drain' = "scope"
         \/ /\ drain = "scope" /\ At({"task", "run", "release", "notify"}) = {}
            /\ drain' = "joined"
  BY DEF QueueEnds, ScopeEnds
<1>2. Typed'
  BY <1>0, <1>1 DEF Typed
<1>3. At({"task", "run", "release", "notify"})' = At({"task", "run", "release", "notify"})
  BY <1>1 DEF At
<1>4. WorkTxDropped' = WorkTxDropped /\ Ready(buf)' = Ready(buf)
  BY <1>1 DEF WorkTxDropped
<1>5. Phases'
  BY <1>0, <1>1, <1>3, <1>4 DEF Phases
<1>6. Balanced'
  BY <1>0, <1>1, SamePlaces
<1>7. QED
  BY <1>2, <1>5, <1>6 DEF PlaceInv

\* A step of a task.
LEMMA TaskKeepsPlaces ==
  ASSUME OrderInv, PermitInv, PlaceInv, NEW t \in Seqs, Task(t)
  PROVE  PlaceInv'
<1> USE DEF callerVars, semVars, taskVars, reorderVars
<1>0. Typed /\ Phases /\ Balanced
  BY DEF PlaceInv
<1>1. /\ UNCHANGED <<accepted, mode, next, workq, drain, rpc, cur, buf, out, taken>>
      /\ stage[t] \in {"task", "run", "release", "notify"}
      /\ \/ pc' = pc
         \/ pc = "parked" /\ pc' = "acquire"
  BY DEF Task, Start, SendResult, Panic, Release, Notify
<1>2. stage \in [Seqs -> Stages] /\ mode \in {"buffering", "parallel"}
      /\ (mode = "buffering" <=> rpc = "off")
      /\ (pc = "parked" => mode = "parallel")
  BY ItemFacts
<1>3. drain # "joined"
  BY <1>0, <1>1 DEF Phases, At
<1>4. pc # "dropped" => rpc \notin {"final", "join", "exit"}
  BY <1>0, <1>3 DEF Phases
<1>5. ASSUME stream' \in Seq(Seqs), panicked' \subseteq Seqs
      PROVE  Typed' /\ Phases'
  <2>1. Typed'
    BY <1>0, <1>1, <1>5, ZenonT(60) DEF Typed
  <2>2. WorkTxDropped' = WorkTxDropped /\ Ready(buf)' = Ready(buf)
    BY <1>1, SMTT(60) DEF WorkTxDropped
  <2>3. Phases'
    BY <1>0, <1>1, <1>3, <1>4, <2>2 DEF Phases
  <2>4. QED
    BY <2>1, <2>3
<1>6. CASE Start(t) \/ Release(t) \/ Notify(t)
  <2>1. UNCHANGED <<stream, panicked>>
    BY <1>6 DEF Start, Release, Notify
  <2>2. \A s \in Seqs : stage'[s] \in {"task", "run"} <=> stage[s] \in {"task", "run"}
    BY <1>2, <1>6 DEF Start, Release, Notify
  <2>3. Balanced'
    BY <1>0, <1>1, <1>2, <2>1, <2>2, SamePlaces
  <2>4. stream \in Seq(Seqs) /\ panicked \subseteq Seqs
    BY <1>0 DEF Typed
  <2>5. QED
    BY <1>5, <2>1, <2>3, <2>4 DEF PlaceInv
<1>7. CASE SendResult(t)
  <2>1. /\ stage[t] = "run" /\ stage' = [stage EXCEPT ![t] = AfterTask]
        /\ pc' = pc /\ panicked' = panicked
        /\ \/ StreamRxDropped /\ stream' = stream
           \/ stream' = Append(stream, t)
    BY <1>7 DEF SendResult
  <2>2. stream \in Seq(Seqs) /\ stream' \in Seq(Seqs) /\ panicked' \subseteq Seqs
    <3>1. stream \in Seq(Seqs) /\ panicked \subseteq Seqs
      BY <1>0 DEF Typed
    <3>2. QED
      BY <2>1, <3>1, SeqSteps
  <2>3. CASE pc = "dropped"
    BY <1>5, <2>1, <2>2, <2>3 DEF PlaceInv, Balanced
  <2>4. CASE pc # "dropped"
    <3>1. stream' = Append(stream, t)
      BY <1>4, <2>1, <2>4 DEF StreamRxDropped
    <3>2. ASSUME NEW s \in Seqs PROVE Places(s)' = Places(s)
      <4>1. Count(Append(stream, t), s) = Count(stream, s) + (IF t = s THEN 1 ELSE 0)
        BY <2>2, CountAppend, SMTT(60)
      <4>2. Count(stream', s) = Count(stream, s) + (IF t = s THEN 1 ELSE 0)
        BY <3>1, <4>1
      <4>3. InTask(s)' = InTask(s) - (IF t = s THEN 1 ELSE 0)
        BY <1>2, <2>1, SMTT(60) DEF InTask, AfterTask
      <4>4. /\ InHand(s)' = InHand(s) /\ InRing(s)' = InRing(s)
            /\ Lost(s)' = Lost(s) /\ Count(workq, s)' = Count(workq, s)
            /\ Count(out, s)' = Count(out, s)
        BY <1>1, <2>1 DEF InHand, InRing, Lost
      <4>5. QED
        BY <1>0, <4>2, <4>3, <4>4, PartsAreNat, SMTT(60) DEF Places
    <3>3. Balanced'
      BY <1>0, <1>1, <2>1, <3>2, OneMoves
    <3>4. QED
      BY <1>5, <2>2, <3>3 DEF PlaceInv
  <2>5. QED
    BY <2>3, <2>4
<1>8. CASE Panic(t)
  <2>1. /\ stage[t] = "run" /\ stage' = [stage EXCEPT ![t] = AfterTask]
        /\ pc' = pc /\ panicked' = panicked \cup {t} /\ stream' = stream
    BY <1>8 DEF Panic
  <2>2. stream' \in Seq(Seqs) /\ panicked' \subseteq Seqs
    BY <1>0, <2>1 DEF Typed
  <2>3. CASE pc = "dropped" \/ mode # "parallel"
    <3>1. mode = "parallel"
      <4>1. mode = "buffering" => next = 0
        BY <1>0 DEF Phases
      <4>2. /\ workq \in Seq(Nat) /\ Len(workq) <= next /\ next \in Nat
            /\ t >= next - Len(workq) => stage[t] = "none"
        BY DEF PermitInv, Queued
      <4>3. next = 0 => t >= next - Len(workq)
        BY <4>2, SMTT(60) DEF Seqs
      <4>4. QED
        BY <1>2, <2>1, <4>1, <4>2, <4>3
    <3>2. QED
      BY <1>5, <2>1, <2>2, <2>3, <3>1 DEF PlaceInv, Balanced
  <2>4. CASE pc # "dropped" /\ mode = "parallel"
    <3>1. InTask(t) = 1
      BY <2>1 DEF InTask
    <3>2. Lost(t) = 0
      BY <1>0, <2>4, <3>1, NowhereElse, PartsAreNat, SMTT(60)
    <3>3. ASSUME NEW s \in Seqs PROVE Places(s)' = Places(s)
      <4>1. Lost(s)' = Lost(s) + (IF t = s THEN 1 ELSE 0)
        BY <2>1, <3>2, SMTT(60) DEF Lost
      <4>2. InTask(s)' = InTask(s) - (IF t = s THEN 1 ELSE 0)
        BY <1>2, <2>1, SMTT(60) DEF InTask, AfterTask
      <4>3. /\ InHand(s)' = InHand(s) /\ InRing(s)' = InRing(s)
            /\ Count(stream, s)' = Count(stream, s) /\ Count(workq, s)' = Count(workq, s)
            /\ Count(out, s)' = Count(out, s)
        BY <1>1, <2>1 DEF InHand, InRing
      <4>4. QED
        BY <1>0, <4>1, <4>2, <4>3, PartsAreNat, SMTT(60) DEF Places
    <3>4. Balanced'
      BY <1>0, <1>1, <2>1, <3>3, OneMoves
    <3>5. QED
      BY <1>5, <2>2, <3>4 DEF PlaceInv
  <2>5. QED
    BY <2>3, <2>4
<1>9. QED
  BY <1>6, <1>7, <1>8 DEF Task
\* The ring, or the queue that replaces it, takes a result it does not have.
LEMMA RingTakes ==
  ASSUME OrderInv, PermitInv, Typed, NEW x \in Seqs,
         \/ Accepts(buf, x) /\ buf' = Insert(buf, x)
         \/ (~buf.bypass => buf.next <= x) /\ buf' = ForceInsert(buf, x),
         ~buf.bypass => x \notin Held(buf)
  PROVE  /\ buf'.bypass <=> buf.bypass
         /\ buf'.bypass => buf'.queue \in Seq(Seqs)
         /\ ~buf'.bypass => Held(buf') \subseteq Seqs
         /\ \A s \in Seqs : InRing(s)' = InRing(s) + (IF x = s THEN 1 ELSE 0)
<1>1. cfg.bypass \in BOOLEAN /\ (buf.bypass <=> cfg.bypass) /\ DOMAIN buf = Fields
  BY ItemFacts DEF OrderInv
<1>2. CASE buf.bypass
  <2>1. buf' = Enqueue(buf, x)
    BY <1>2 DEF Insert, ForceInsert
  <2>2. buf'.bypass = buf.bypass /\ buf'.queue = Append(buf.queue, x)
    BY <1>1, <2>1 DEF Enqueue, Fields
  <2>3. buf.queue \in Seq(Seqs)
    BY <1>2 DEF Typed
  <2>4. buf'.queue \in Seq(Seqs)
    BY <2>2, <2>3, SeqSteps
  <2>5. ASSUME NEW s \in Seqs PROVE InRing(s)' = InRing(s) + (IF x = s THEN 1 ELSE 0)
    <3>1. Count(Append(buf.queue, x), s) = Count(buf.queue, s) + (IF x = s THEN 1 ELSE 0)
      BY <2>3, CountAppend, SMTT(60)
    <3>2. InRing(s) = Count(buf.queue, s) /\ InRing(s)' = Count(Append(buf.queue, x), s)
      BY <1>2, <2>2 DEF InRing
    <3>3. QED
      BY <3>1, <3>2
  <2>6. QED
    BY <1>2, <2>2, <2>4, <2>5
<1>3. CASE ~buf.bypass
  <2>1. RingOK(buf) /\ x \in Int
    BY <1>1, <1>3, SMTT(60) DEF OrderInv, RingInOrder, Seqs
  <2>2. Held(buf') = Held(buf) \cup {x} /\ buf'.bypass = buf.bypass
    <3>1. CASE Accepts(buf, x) /\ buf' = Insert(buf, x)
      <4>1. Held(Insert(buf, x)) = Held(buf) \cup {x} /\ Insert(buf, x).bypass = buf.bypass
        BY <1>3, <2>1, <3>1, InsertHolds, InsertKeepsOrder
      <4>2. QED
        BY <3>1, <4>1
    <3>2. CASE buf.next <= x /\ buf' = ForceInsert(buf, x)
      <4>1. Held(ForceInsert(buf, x)) = Held(buf) \cup {x} /\ ForceInsert(buf, x).bypass = buf.bypass
        BY <1>3, <2>1, <3>2, ForceHolds, ForceKeepsOrder
      <4>2. QED
        BY <3>2, <4>1
    <3>3. QED
      BY <1>3, <3>1, <3>2
  <2>3. Held(buf) \subseteq Seqs
    BY <1>3 DEF Typed
  <2>4. ASSUME NEW s \in Seqs PROVE InRing(s)' = InRing(s) + (IF x = s THEN 1 ELSE 0)
    <3>1. InRing(s) = (IF s \in Held(buf) THEN 1 ELSE 0)
          /\ InRing(s)' = IF s \in Held(buf) \cup {x} THEN 1 ELSE 0
      BY <1>3, <2>2 DEF InRing
    <3>2. QED
      BY <1>3, <3>1, SMTT(60)
  <2>5. QED
    BY <1>3, <2>2, <2>3, <2>4
<1>4. QED
  BY <1>1, <1>2, <1>3

\* What is ready leaves the ring, or the front of the queue.
LEMMA RingGives ==
  ASSUME OrderInv, PermitInv, Typed, Ready(buf), buf' = NextInOrder(buf)
  PROVE  /\ buf'.bypass <=> buf.bypass
         /\ buf'.bypass => buf'.queue \in Seq(Seqs)
         /\ ~buf'.bypass => Held(buf') \subseteq Seqs
         /\ HeadItem(buf) \in Seqs
         /\ \A s \in Seqs : InRing(s)' = InRing(s) - (IF HeadItem(buf) = s THEN 1 ELSE 0)
         /\ InRing(HeadItem(buf)) > 0
<1>1. cfg.bypass \in BOOLEAN /\ (buf.bypass <=> cfg.bypass) /\ DOMAIN buf = Fields
  BY ItemFacts DEF OrderInv
<1>2. CASE buf.bypass
  <2>1. buf'.bypass = buf.bypass /\ buf'.queue = Tail(buf.queue)
    BY <1>1, <1>2 DEF NextInOrder, Fields
  <2>2. buf.queue \in Seq(Seqs) /\ buf.queue # << >> /\ HeadItem(buf) = Head(buf.queue)
    BY <1>2 DEF Typed, Ready, HeadItem
  <2>3. Head(buf.queue) \in Seqs /\ Tail(buf.queue) \in Seq(Seqs)
    BY <2>2, SeqSteps
  <2>4. ASSUME NEW s \in Seqs
        PROVE  InRing(s)' = InRing(s) - (IF HeadItem(buf) = s THEN 1 ELSE 0)
    <3>1. Count(Tail(buf.queue), s) = Count(buf.queue, s) - (IF Head(buf.queue) = s THEN 1 ELSE 0)
      BY <2>2, CountTail
    <3>2. InRing(s) = Count(buf.queue, s) /\ InRing(s)' = Count(Tail(buf.queue), s)
      BY <1>2, <2>1 DEF InRing
    <3>3. QED
      BY <2>2, <3>1, <3>2
  <2>5. InRing(HeadItem(buf)) > 0
    <3>1. InRing(HeadItem(buf)) = Count(buf.queue, Head(buf.queue))
      BY <1>2, <2>2 DEF InRing
    <3>2. 1 \in 1..Len(buf.queue) /\ buf.queue[1] = Head(buf.queue)
      BY <2>2, SMTT(60)
    <3>3. /\ Count(buf.queue, Head(buf.queue)) \in Nat
          /\ Count(buf.queue, Head(buf.queue)) # 0
      BY <2>2, <3>2, CountFacts
    <3>4. QED
      BY <3>1, <3>3, SMTT(60)
  <2>6. QED
    BY <1>2, <2>1, <2>2, <2>3, <2>4, <2>5
<1>3. CASE ~buf.bypass
  <2>1. RingOK(buf)
    BY <1>1, <1>3 DEF OrderInv, RingInOrder
  <2>2. /\ HeadItem(buf) = buf.next /\ buf.next \in Held(buf)
        /\ Held(NextInOrder(buf)) = Held(buf) \ {buf.next}
        /\ NextInOrder(buf).bypass = buf.bypass
    BY <1>3, <2>1, NextHolds, NextKeepsOrder
  <2>3. Held(buf) \subseteq Seqs
    BY <1>3 DEF Typed
  <2>4. Held(buf') = Held(buf) \ {buf.next} /\ buf'.bypass = buf.bypass
    BY <2>2
  <2>5. ASSUME NEW s \in Seqs
        PROVE  InRing(s)' = InRing(s) - (IF HeadItem(buf) = s THEN 1 ELSE 0)
    <3>1. InRing(s) = (IF s \in Held(buf) THEN 1 ELSE 0)
          /\ InRing(s)' = IF s \in Held(buf) \ {buf.next} THEN 1 ELSE 0
      BY <1>3, <2>4 DEF InRing
    <3>2. QED
      BY <2>2, <3>1, SMTT(60)
  <2>6. InRing(HeadItem(buf)) > 0
    BY <1>3, <2>2, SMTT(60) DEF InRing
  <2>7. QED
    BY <1>3, <2>2, <2>3, <2>4, <2>5, <2>6
<1>4. QED
  BY <1>1, <1>2, <1>3
\* Whatever the ring already has, it takes items only.
LEMMA InsertTyped ==
  ASSUME OrderInv, PermitInv, Typed, NEW x \in Seqs,
         \/ Accepts(buf, x) /\ buf' = Insert(buf, x)
         \/ buf' = ForceInsert(buf, x)
  PROVE  /\ buf'.bypass <=> buf.bypass
         /\ buf'.bypass => buf'.queue \in Seq(Seqs)
         /\ ~buf'.bypass => Held(buf') \subseteq Seqs
<1>1. cfg.bypass \in BOOLEAN /\ (buf.bypass <=> cfg.bypass) /\ DOMAIN buf = Fields
  BY ItemFacts DEF OrderInv
<1>2. CASE buf.bypass
  <2>1. buf' = Enqueue(buf, x)
    BY <1>2 DEF Insert, ForceInsert
  <2>2. buf'.bypass = buf.bypass /\ buf'.queue = Append(buf.queue, x)
    BY <1>1, <2>1 DEF Enqueue, Fields
  <2>3. buf.queue \in Seq(Seqs)
    BY <1>2 DEF Typed
  <2>4. buf'.queue \in Seq(Seqs)
    BY <2>2, <2>3, SeqSteps
  <2>5. QED
    BY <1>2, <2>2, <2>4
<1>3. CASE ~buf.bypass
  <2>1. RingOK(buf) /\ x \in Int /\ buf.next \in Nat
    BY <1>1, <1>3, SMTT(60) DEF OrderInv, RingInOrder, RingOK, Seqs
  <2>2. Held(buf) \subseteq Seqs
    BY <1>3 DEF Typed
  <2>3. CASE Accepts(buf, x) /\ buf' = Insert(buf, x)
    <3>1. Held(Insert(buf, x)) = Held(buf) \cup {x} /\ Insert(buf, x).bypass = buf.bypass
      BY <1>3, <2>1, <2>3, InsertHolds, InsertKeepsOrder
    <3>2. QED
      BY <1>3, <2>2, <2>3, <3>1
  <2>4. CASE buf' = ForceInsert(buf, x)
    <3>1. ForceInsert(buf, x).bypass = buf.bypass
      BY <1>3, <2>1, ForceKeepsOrder
    <3>2. buf.next <= x => Held(ForceInsert(buf, x)) = Held(buf) \cup {x}
      BY <1>3, <2>1, ForceHolds
    <3>3. ~(buf.next <= x) => ForceInsert(buf, x) = buf
      BY <1>3, <2>1, SMTT(60) DEF ForceInsert, SlotIndex
    <3>4. QED
      BY <1>3, <2>2, <2>4, <3>1, <3>2, <3>3
  <2>5. QED
    BY <2>3, <2>4
<1>4. QED
  BY <1>1, <1>2, <1>3

\* A result that is in the reorder thread's hand, or comes to it, is not in the ring
\* and was not forwarded, so it is not stale either.
LEMMA NotInRing ==
  ASSUME OrderInv, PermitInv, Typed, Balanced, pc # "dropped", mode = "parallel",
         NEW x \in Seqs, Count(stream, x) + InHand(x) > 0
  PROVE  /\ ~buf.bypass => x \notin Held(buf)
         /\ (~buf.bypass /\ rpc \in {"recv", "full", "drain", "final"}) => buf.next <= x
<1>1. InRing(x) = 0 /\ Count(out, x) = 0
  BY NowhereElse, PartsAreNat, SMTT(60)
<1>2. ~buf.bypass => x \notin Held(buf)
  BY <1>1, SMTT(60) DEF InRing
<1>3. ASSUME ~buf.bypass, rpc \in {"recv", "full", "drain", "final"}
      PROVE  buf.next <= x
  <2>1. RingOK(buf) /\ InOrder /\ Len(out) = buf.next /\ ~cfg.bypass
    BY <1>3 DEF OrderInv, RingInOrder
  <2>2. buf.next \in Nat /\ out \in Seq(Seqs)
    BY <2>1 DEF RingOK, Typed
  <2>3. \A i \in 1..Len(out) : out[i] # x
    BY <1>1, <2>2, CountFacts
  <2>4. x \in Nat
    BY SMTT(60) DEF Seqs
  <2>5. x < buf.next => x + 1 \in 1..Len(out) /\ out[x + 1] = x
    BY <2>1, <2>2, <2>4, SMTT(60) DEF InOrder
  <2>6. QED
    BY <2>2, <2>3, <2>4, <2>5, SMTT(60)
<1>4. QED
  BY <1>2, <1>3

\* The steps of the reorder thread.
LEMMA ReorderKeepsPlaces ==
  ASSUME OrderInv, PermitInv, PlaceInv, Reorder
  PROVE  PlaceInv'
<1> USE DEF callerVars, semVars, taskVars, ReorderUnchanged
<1>0. Typed /\ Phases /\ Balanced
  BY DEF PlaceInv
<1>1. UNCHANGED <<cfg, pc, accepted, mode, next, workq, drain, stage, panicked, taken>>
  BY DEF Reorder, Receive, Forward, Retry, Advance
<1>2. /\ WorkTxDropped' = WorkTxDropped
      /\ At({"task", "run", "release", "notify"})' = At({"task", "run", "release", "notify"})
  BY <1>1 DEF WorkTxDropped, At
<1>3. mode = "parallel" /\ rpc # "off"
  <2>1. rpc # "off"
    BY DEF Reorder, Receive, Forward, Retry, Advance
  <2>2. QED
    BY <2>1, ItemFacts
<1>4. stream \in Seq(Seqs) /\ out \in Seq(Seqs) /\ cur \in Seqs \cup {NoItem}
  BY <1>0 DEF Typed
<1>5. ASSUME NEW s \in Seqs
      PROVE  /\ Count(workq, s)' = Count(workq, s)
             /\ InTask(s)' = InTask(s) /\ Lost(s)' = Lost(s)
  BY <1>1 DEF InTask, Lost
<1>6. ASSUME pc = "dropped", Typed', rpc' = "full" => cur' # NoItem
      PROVE  PlaceInv'
  BY <1>0, <1>1, <1>2, <1>3, <1>6 DEF PlaceInv, Phases, Balanced
<1>7. CASE Receive
  <2> DEFINE h == Head(stream)
  <2>1. /\ rpc = "recv" /\ stream # << >> /\ stream' = Tail(stream) /\ out' = out
        /\ \/ Accepts(buf, h) /\ buf' = Insert(buf, h) /\ rpc' = "drain" /\ cur' = cur
           \/ buf' = buf /\ rpc' = "full" /\ cur' = h
    BY <1>7 DEF Receive
  <2>2. h \in Seqs /\ stream' \in Seq(Seqs)
    BY <1>4, <2>1, SeqSteps
  <2>3. 1 \in 1..Len(stream) /\ stream[1] = h
    BY <1>4, <2>1, SMTT(60)
  <2>4. Count(stream, h) \in Nat /\ Count(stream, h) # 0
    BY <1>4, <2>3, CountFacts
  <2>5. ASSUME NEW s \in Seqs
        PROVE  Count(stream', s) = Count(stream, s) - (IF h = s THEN 1 ELSE 0)
    <3>1. Count(Tail(stream), s) = Count(stream, s) - (IF h = s THEN 1 ELSE 0)
      BY <1>4, <2>1, CountTail
    <3>2. QED
      BY <2>1, <3>1
  <2> HIDE DEF h
  <2>6. CASE pc = "dropped"
    <3>1. CASE buf' = buf /\ rpc' = "full" /\ cur' = h
      <4>1. Typed'
        BY <1>0, <1>1, <2>1, <2>2, <3>1 DEF Typed
      <4>2. QED
        BY <1>6, <2>2, <2>6, <3>1, <4>1, SMTT(60) DEF Seqs, NoItem
    <3>2. CASE Accepts(buf, h) /\ buf' = Insert(buf, h) /\ rpc' = "drain" /\ cur' = cur
      <4>1. /\ buf'.bypass <=> buf.bypass
            /\ buf'.bypass => buf'.queue \in Seq(Seqs)
            /\ ~buf'.bypass => Held(buf') \subseteq Seqs
        BY <1>0, <2>2, <3>2, InsertTyped
      <4>2. Typed'
        BY <1>0, <1>1, <2>1, <2>2, <3>2, <4>1 DEF Typed
      <4>3. QED
        BY <1>6, <2>6, <3>2, <4>2
    <3>3. QED
      BY <2>1, <3>1, <3>2
  <2>7. CASE pc # "dropped"
    <3>1. cur = NoItem
      BY <1>0, <2>1, <2>7 DEF Phases
    <3>2. Count(stream, h) + InHand(h) > 0
      BY <1>0, <2>2, <2>4, PartsAreNat, SMTT(60)
    <3>3. ~buf.bypass => h \notin Held(buf)
      BY <1>0, <1>3, <2>2, <2>7, <3>2, NotInRing, ZenonT(60)
    <3>4. CASE buf' = buf /\ rpc' = "full" /\ cur' = h
      <4>1. Typed'
        BY <1>0, <1>1, <2>1, <2>2, <3>4 DEF Typed
      <4>2. h # NoItem
        BY <2>2, SMTT(60) DEF Seqs, NoItem
      <4>3. Phases'
        BY <1>0, <1>1, <1>2, <1>3, <2>1, <3>4, <4>2 DEF Phases
      <4>4. ASSUME NEW s \in Seqs PROVE Places(s)' = Places(s)
        <5>1. InHand(s)' = InHand(s) + (IF h = s THEN 1 ELSE 0)
          BY <3>1, <3>4, SMTT(60) DEF InHand, Seqs, NoItem
        <5>2. InRing(s)' = InRing(s) /\ Count(out, s)' = Count(out, s)
          BY <2>1, <3>4 DEF InRing
        <5>3. QED
          BY <1>0, <1>5, <2>5, <5>1, <5>2, PartsAreNat, SMTT(60) DEF Places
      <4>5. Balanced'
        BY <1>0, <1>1, <4>4, OneMoves, ZenonT(60)
      <4>6. QED
        BY <4>1, <4>3, <4>5 DEF PlaceInv
    <3>5. CASE Accepts(buf, h) /\ buf' = Insert(buf, h) /\ rpc' = "drain" /\ cur' = cur
      <4>1. /\ buf'.bypass <=> buf.bypass
            /\ buf'.bypass => buf'.queue \in Seq(Seqs)
            /\ ~buf'.bypass => Held(buf') \subseteq Seqs
            /\ \A s \in Seqs : InRing(s)' = InRing(s) + (IF h = s THEN 1 ELSE 0)
        BY <1>0, <2>2, <3>3, <3>5, RingTakes
      <4>2. Typed'
        BY <1>0, <1>1, <2>1, <2>2, <3>5, <4>1 DEF Typed
      <4>3. Phases'
        BY <1>0, <1>1, <1>2, <1>3, <2>1, <3>1, <3>5, ZenonT(60) DEF Phases
      <4>4. ASSUME NEW s \in Seqs PROVE Places(s)' = Places(s)
        <5>1. InHand(s)' = InHand(s) /\ Count(out, s)' = Count(out, s)
          BY <2>1, <3>5 DEF InHand
        <5>2. /\ Count(stream, s)' = Count(stream, s) - (IF h = s THEN 1 ELSE 0)
              /\ InRing(s)' = InRing(s) + (IF h = s THEN 1 ELSE 0)
          BY <2>5, <4>1
        <5>3. QED
          BY <1>0, <1>5, <5>1, <5>2, PartsAreNat, SMTT(60) DEF Places
      <4>5. Balanced'
        BY <1>0, <1>1, <4>4, OneMoves
      <4>6. QED
        BY <4>2, <4>3, <4>5 DEF PlaceInv
    <3>6. QED
      BY <2>1, <3>4, <3>5
  <2>8. QED
    BY <2>6, <2>7
<1>8. CASE Forward
  <2> DEFINE h == HeadItem(buf)
  <2>1. /\ rpc \in {"full", "drain", "final"} /\ Ready(buf) /\ buf' = NextInOrder(buf) /\ cur' = cur
        /\ \/ ResultRxDropped /\ rpc' = "join" /\ stream' = << >> /\ out' = out
           \/ ~ResultRxDropped /\ rpc' = rpc /\ stream' = stream /\ out' = Append(out, h)
    BY <1>8 DEF Forward
  <2>2. /\ buf'.bypass <=> buf.bypass
        /\ buf'.bypass => buf'.queue \in Seq(Seqs)
        /\ ~buf'.bypass => Held(buf') \subseteq Seqs
        /\ h \in Seqs
        /\ \A s \in Seqs : InRing(s)' = InRing(s) - (IF h = s THEN 1 ELSE 0)
    BY <1>0, <2>1, RingGives
  <2> HIDE DEF h
  <2>3. out' \in Seq(Seqs) /\ stream' \in Seq(Seqs) /\ (out' = out \/ Len(out') = Len(out) + 1)
    <3>1. << >> \in Seq(Seqs) /\ Append(out, h) \in Seq(Seqs) /\ Len(Append(out, h)) = Len(out) + 1
      BY <1>4, <2>2, SMTT(60)
    <3>2. QED
      BY <1>4, <2>1, <3>1
  <2>4. Typed'
    <3>1. taken \in Nat /\ taken <= Len(out')
      BY <1>0, <1>4, <2>3, SMTT(60) DEF Typed
    <3>2. QED
      BY <1>0, <1>1, <2>1, <2>2, <2>3, <3>1 DEF Typed
  <2>5. CASE ResultRxDropped
    BY <1>6, <2>1, <2>4, <2>5, ZenonT(60) DEF ResultRxDropped
  <2>6. CASE ~ResultRxDropped
    <3>1. pc # "dropped" /\ rpc' = rpc /\ stream' = stream /\ out' = Append(out, h)
      BY <2>1, <2>6 DEF ResultRxDropped
    <3>2. Phases'
      BY <1>0, <1>1, <1>2, <1>3, <2>1, <3>1 DEF Phases
    <3>3. ASSUME NEW s \in Seqs PROVE Places(s)' = Places(s)
      <4>1. Count(Append(out, h), s) = Count(out, s) + (IF h = s THEN 1 ELSE 0)
        BY <1>4, <2>2, CountAppend, SMTT(60)
      <4>2. Count(out', s) = Count(out, s) + (IF h = s THEN 1 ELSE 0)
        BY <3>1, <4>1
      <4>3. InHand(s)' = InHand(s) /\ Count(stream, s)' = Count(stream, s)
        BY <2>1, <3>1 DEF InHand
      <4>4. InRing(s)' = InRing(s) - (IF h = s THEN 1 ELSE 0)
        BY <2>2
      <4>5. QED
        BY <1>0, <1>5, <4>2, <4>3, <4>4, PartsAreNat, SMTT(60) DEF Places
    <3>4. Balanced'
      BY <1>0, <1>1, <3>3, OneMoves
    <3>5. QED
      BY <2>4, <3>2, <3>4 DEF PlaceInv
  <2>7. QED
    BY <2>5, <2>6
<1>9. CASE Retry
  <2>1. /\ rpc = "full" /\ stream' = stream /\ out' = out
        /\ \/ buf' = buf /\ rpc' = rpc /\ cur' = cur
           \/ /\ \/ Accepts(buf, cur) /\ buf' = Insert(buf, cur)
                 \/ buf' = ForceInsert(buf, cur)
              /\ rpc' = "drain" /\ cur' = NoItem
    BY <1>9 DEF Retry
  <2>2. CASE buf' = buf /\ rpc' = rpc /\ cur' = cur
    <3>1. Typed'
      BY <1>0, <1>1, <2>1, <2>2 DEF Typed
    <3>2. Phases'
      BY <1>0, <1>1, <1>2, <2>1, <2>2 DEF Phases
    <3>3. Balanced'
      BY <1>0, <1>1, <2>1, <2>2, SamePlaces
    <3>4. QED
      BY <3>1, <3>2, <3>3 DEF PlaceInv
  <2>3. CASE /\ \/ Accepts(buf, cur) /\ buf' = Insert(buf, cur)
                \/ buf' = ForceInsert(buf, cur)
             /\ rpc' = "drain" /\ cur' = NoItem
    <3>1. CASE cur \in Seqs
      <4>1. /\ buf'.bypass <=> buf.bypass
            /\ buf'.bypass => buf'.queue \in Seq(Seqs)
            /\ ~buf'.bypass => Held(buf') \subseteq Seqs
        BY <1>0, <2>3, <3>1, InsertTyped
      <4>2. Typed'
        BY <1>0, <1>1, <2>1, <2>3, <4>1 DEF Typed
      <4>3. CASE pc = "dropped"
        BY <1>6, <2>3, <4>2, <4>3
      <4>4. CASE pc # "dropped"
        <5>1. InHand(cur) = 1
          BY DEF InHand
        <5>2. Count(stream, cur) + InHand(cur) > 0
          BY <1>0, <3>1, <5>1, PartsAreNat, SMTT(60)
        <5>3. /\ ~buf.bypass => cur \notin Held(buf)
              /\ ~buf.bypass => buf.next <= cur
          BY <1>0, <1>3, <2>1, <3>1, <4>4, <5>2, NotInRing
        <5>4. \A s \in Seqs : InRing(s)' = InRing(s) + (IF cur = s THEN 1 ELSE 0)
          BY <1>0, <2>3, <3>1, <5>3, RingTakes
        <5>5. ASSUME NEW s \in Seqs PROVE Places(s)' = Places(s)
          <6>1. InHand(s)' = InHand(s) - (IF cur = s THEN 1 ELSE 0)
            BY <2>3, SMTT(60) DEF InHand, Seqs, NoItem
          <6>2. Count(out, s)' = Count(out, s) /\ Count(stream, s)' = Count(stream, s)
            BY <2>1
          <6>3. QED
            BY <1>0, <1>5, <5>4, <6>1, <6>2, PartsAreNat, SMTT(60) DEF Places
        <5>6. Balanced'
          BY <1>0, <1>1, <5>5, OneMoves
        <5>7. Phases'
          BY <1>0, <1>1, <1>2, <1>3, <2>1, <2>3 DEF Phases
        <5>8. QED
          BY <4>2, <5>6, <5>7 DEF PlaceInv
      <4>5. QED
        BY <4>3, <4>4
    <3>2. CASE cur \notin Seqs
      BY <1>0, <1>4, <2>1, <3>2 DEF Phases
    <3>3. QED
      BY <3>1, <3>2
  <2>4. QED
    BY <2>1, <2>2, <2>3
<1>10. CASE Advance
  <2>1. /\ UNCHANGED <<stream, cur, buf, out>>
        /\ \/ rpc = "drain" /\ ~Ready(buf) /\ rpc' = "recv"
           \/ rpc = "recv" /\ stream = << >> /\ drain = "joined" /\ rpc' = "final"
           \/ rpc = "final" /\ ~Ready(buf) /\ rpc' = "join"
           \/ rpc = "join" /\ drain = "joined" /\ rpc' = "exit"
    BY <1>10 DEF Advance
  <2>2. Typed'
    BY <1>0, <1>1, <2>1 DEF Typed
  <2>3. Ready(buf)' = Ready(buf)
    BY <2>1
  <2>4. (rpc = "final" /\ ~cfg.bypass) => Len(out) = buf.next
    BY DEF OrderInv, RingInOrder
  <2>5. rpc' \in {"join", "exit"} => rpc \in {"final", "join"} /\ (rpc = "final" => ~Ready(buf))
    BY <2>1
  <2>6. (pc # "dropped" /\ rpc' \in {"join", "exit"}) =>
          ~Ready(buf)' /\ (~cfg'.bypass => Len(out') = buf'.next)
    BY <1>0, <1>1, <2>1, <2>3, <2>4, <2>5 DEF Phases
  <2>7. Phases'
    BY <1>0, <1>1, <1>2, <1>3, <2>1, <2>6 DEF Phases
  <2>8. Balanced'
    BY <1>0, <1>1, <2>1, SamePlaces
  <2>9. QED
    BY <2>2, <2>7, <2>8 DEF PlaceInv
<1>11. QED
  BY <1>7, <1>8, <1>9, <1>10 DEF Reorder
-----------------------------------------------------------------------------
\* The whole inductive invariant.
PipelineInv == OrderInv /\ PermitInv /\ PlaceInv

LEMMA StepKeepsPlaces == PipelineInv /\ [Next]_vars => PipelineInv'
<1> SUFFICES ASSUME OrderInv, PermitInv, PlaceInv, [Next]_vars PROVE PlaceInv'
  BY StepKeepsOrder, StepKeepsPermits DEF PipelineInv
<1>1. CASE Caller
  BY <1>1, CallerKeepsPlaces
<1>2. CASE Spawn
  BY <1>2, SpawnKeepsPlaces
<1>3. CASE QueueEnds \/ ScopeEnds
  BY <1>3, DrainKeepsPlaces
<1>4. ASSUME NEW s \in Seqs, Task(s) PROVE PlaceInv'
  BY <1>4, TaskKeepsPlaces
<1>5. CASE Reorder
  BY <1>5, ReorderKeepsPlaces
<1>6. CASE UNCHANGED vars
  <2>1. UNCHANGED <<cfg, pc, mode, accepted, next, workq, drain, stage, panicked,
                    stream, rpc, cur, buf, out, taken>>
    BY <1>6 DEF vars, callerVars, taskVars, reorderVars
  <2>2. Typed'
    BY <2>1 DEF PlaceInv, Typed
  <2>3. WorkTxDropped' = WorkTxDropped
        /\ At({"task", "run", "release", "notify"})' = At({"task", "run", "release", "notify"})
    BY <2>1 DEF WorkTxDropped, At
  <2>4. Phases'
    BY <2>1, <2>3 DEF PlaceInv, Phases
  <2>5. Balanced'
    BY <2>1, SamePlaces DEF PlaceInv
  <2>6. QED
    BY <2>2, <2>4, <2>5 DEF PlaceInv
<1>7. QED
  BY <1>1, <1>2, <1>3, <1>4, <1>5, <1>6 DEF Next, Finished

LEMMA PipelineAlways == Spec => []PipelineInv
<1>1. Init => PipelineInv
  BY StartsInOrder, PermitStart, PlaceStart DEF PipelineInv
<1>2. QED
  BY <1>1, StepKeepsPlaces, PTL DEF Spec

\* Every variable keeps its type: the counters stay within what the caller submits,
\* and the tick counter within its window (maybe_tick).
THEOREM PipelineTypeCorrect == Spec => []TypeOK
<1> DEFINE InWindow == since \in 0..TickWindow - 1
<1>1. Init => InWindow
  BY PipelineAssumption, SMTT(60) DEF Init
<1>2. InWindow /\ [Next]_vars => InWindow'
  <2> SUFFICES ASSUME InWindow, [Next]_vars PROVE InWindow'
    OBVIOUS
  <2>1. CASE Send
    BY <2>1, PipelineAssumption, SMTT(60) DEF Send
  <2>2. CASE ~Send
    <3>1. since' = since
      BY <2>2 DEF Next, Caller, Task, Reorder, Finished, SubmitWork, Acquire, TakeResult, Flush,
        FlushEnds, FlushSequential, Abandon, Spawn, QueueEnds, ScopeEnds, Start, SendResult,
        Panic, Release, Notify, Receive, Forward, Retry, Advance, ReorderUnchanged,
        callerVars, vars
    <3>2. QED
      BY <3>1
  <2>3. QED
    BY <2>1, <2>2
<1>3. PipelineInv /\ InWindow => TypeOK
  <2> SUFFICES ASSUME OrderInv, PermitInv, PlaceInv, InWindow PROVE TypeOK
    BY DEF PipelineInv
  <2>1. /\ cfg \in Configs /\ mode \in {"buffering", "parallel"}
        /\ accepted \in 0..Items /\ next \in 0..accepted
        /\ stage \in [Seqs -> {"none", "task", "run", "release", "notify", "fin"}]
    BY ItemFacts, SMTT(60) DEF OrderInv, Stages
  <2>2. cap \in Nat /\ inFlight \in Nat
    BY DEF PermitInv
  <2>3. Typed /\ taken \in 0..Len(out)
    BY SMTT(60) DEF PlaceInv, Typed
  <2>4. QED
    BY <2>1, <2>2, <2>3 DEF TypeOK, Typed
<1>4. QED
  BY <1>1, <1>2, <1>3, PipelineAlways, PTL DEF Spec

\* No result is lost or duplicated between submit_work and the caller: every
\* submitted item is in exactly one place, whatever the tasks, the stream and the
\* ring do (run_bare_loop, drain_parallel_into, ReorderBuffer).
THEOREM NothingLostOrDoubled == Spec => []InOnePlace
<1>1. PipelineInv => InOnePlace
  <2> SUFFICES ASSUME OrderInv, PermitInv, Typed, Balanced, pc # "dropped", mode = "parallel",
                      NEW s \in 0..next - 1
               PROVE  Count(workq, s) + Count(stream, s) + Count(out, s)
                        + InTask(s) + InHand(s) + (IF s \in Held(buf) THEN 1 ELSE 0)
                        + Lost(s) = 1
    BY DEF PipelineInv, PlaceInv, InOnePlace, Count, InTask, InHand, Lost
  <2>1. s \in Seqs /\ s < next
    BY ItemFacts, SMTT(60) DEF Seqs
  <2>2. Places(s) = 1
    BY <2>1 DEF Balanced
  <2>3. InRing(s) = IF s \in Held(buf) THEN 1 ELSE 0
    <3>1. CASE ~buf.bypass
      BY <3>1 DEF InRing
    <3>2. CASE buf.bypass
      <4>1. buf.queue \in Seq(Seqs) /\ Held(buf) = {buf.queue[i] : i \in 1..Len(buf.queue)}
        BY <3>2 DEF Typed, Held
      <4>2. Count(buf.queue, s) \in Nat
            /\ (Count(buf.queue, s) = 0 <=> \A i \in 1..Len(buf.queue) : buf.queue[i] # s)
        BY <4>1, CountFacts
      <4>3. Count(buf.queue, s) = 0 <=> s \notin Held(buf)
        BY <4>1, <4>2
      <4>4. InRing(s) = Count(buf.queue, s)
        BY <3>2 DEF InRing
      <4>5. InRing(s) <= 1
        BY <2>1, <2>2, PartsAreNat, SMTT(60) DEF Places
      <4>6. QED
        BY <4>2, <4>3, <4>4, <4>5, SMTT(60)
    <3>3. QED
      BY <3>1, <3>2
  <2>4. QED
    BY <2>1, <2>2, <2>3, PartsAreNat DEF Places
<1>2. QED
  BY <1>1, PipelineAlways, PTL

\* When flush returns nothing is under way, so an item is out, in the ring or lost.
LEMMA AfterFlush ==
  ASSUME OrderInv, PermitInv, PlaceInv, pc = "done", mode = "parallel", NEW s \in Seqs
  PROVE  /\ Count(out, s) + InRing(s) + Lost(s) = (IF s < accepted THEN 1 ELSE 0)
         /\ rpc = "exit" /\ ~Ready(buf) /\ taken = Len(out)
<1>0. Typed /\ Phases /\ Balanced
  BY DEF PlaceInv
<1>1. rpc = "exit" /\ taken = Len(out) /\ next = accepted
  BY <1>0 DEF Phases
<1>2. stream = << >> /\ drain = "joined" /\ ~Ready(buf) /\ cur = NoItem
  BY <1>0, <1>1 DEF Phases
<1>3. workq = << >> /\ At({"task", "run", "release", "notify"}) = {}
  BY <1>0, <1>2 DEF Phases
<1>4. Count(workq, s) = 0 /\ Count(stream, s) = 0
  BY <1>2, <1>3, CountEmpty
<1>5. InTask(s) = 0 /\ InHand(s) = 0
  BY <1>2, <1>3, SMTT(60) DEF InTask, InHand, At, Seqs, NoItem
<1>6. Places(s) = IF s < accepted THEN 1 ELSE 0
  BY <1>0, <1>1 DEF Balanced
<1>7. QED
  BY <1>0, <1>1, <1>2, <1>4, <1>5, <1>6, PartsAreNat, SMTT(60) DEF Places

\* flush returns every result, or, when a dispatch panicked, every result that can
\* still be delivered: all others in completion order, and in submission order
\* those before the first gap (ParallelDeltaPipeline::flush).
THEOREM FlushReturnsAll == Spec => []FlushComplete
<1>1. PipelineInv => FlushComplete
  <2> DEFINE O == {out[i] : i \in 1..taken}
             R == {s \in 0..accepted - 1 : \A p \in panicked : s # p /\ (~cfg.bypass => s < p)}
  <2> SUFFICES ASSUME OrderInv, PermitInv, PlaceInv, pc = "done", mode = "parallel"
               PROVE  O = R
    BY DEF PipelineInv, FlushComplete
  <2>0. Typed /\ Phases
    BY DEF PlaceInv
  <2>1. /\ accepted \in Nat /\ accepted <= Items /\ Items \in Nat \ {0}
        /\ cfg.bypass \in BOOLEAN /\ (buf.bypass <=> cfg.bypass)
    BY ItemFacts
  <2>2. ~Ready(buf) /\ taken = Len(out) /\ rpc = "exit"
    BY <2>0 DEF Phases
  <2>3. ASSUME NEW s \in Seqs
        PROVE  Count(out, s) + InRing(s) + Lost(s) = (IF s < accepted THEN 1 ELSE 0)
    BY AfterFlush
  <2>4. out \in Seq(Seqs) /\ panicked \subseteq Seqs
    BY <2>0 DEF Typed
  <2>5. ASSUME NEW s \in Seqs
        PROVE  /\ Count(out, s) \in Nat /\ (Count(out, s) # 0 <=> s \in O)
               /\ InRing(s) \in Nat
               /\ Lost(s) \in {0, 1} /\ (Lost(s) = 1 <=> s \in panicked)
    <3>1. Count(out, s) = 0 <=> \A i \in 1..Len(out) : out[i] # s
      BY <2>4, CountFacts
    <3>2. Count(out, s) # 0 <=> s \in O
      BY <2>2, <3>1
    <3>3. QED
      BY <2>0, <3>2, PartsAreNat, SMTT(60) DEF Lost
  <2>6. O \subseteq Seqs
    BY <2>2, <2>4, SMTT(60)
  <2>7. R \subseteq Seqs
    BY <2>1, SMTT(60) DEF Seqs
  <2>8. CASE cfg.bypass
    <3>1. ASSUME NEW s \in Seqs PROVE InRing(s) = 0
      <4>1. buf.queue = << >>
        BY <2>1, <2>2, <2>8 DEF Ready
      <4>2. QED
        BY <2>1, <2>8, <4>1, CountEmpty DEF InRing
    <3>2. ASSUME NEW s \in Seqs PROVE s \in O <=> s < accepted /\ s \notin panicked
      BY <2>3, <2>5, <3>1, SMTT(60)
    <3>3. ASSUME NEW s \in Seqs PROVE s \in R <=> s < accepted /\ s \notin panicked
      BY <2>1, <2>8, SMTT(60) DEF Seqs
    <3>4. QED
      BY <2>6, <2>7, <3>2, <3>3
  <2>9. CASE ~cfg.bypass
    <3> DEFINE n == buf.next
    <3>1. RingOK(buf) /\ InOrder /\ ~buf.bypass
      BY <2>1, <2>9 DEF OrderInv, RingInOrder
    <3>2. n \in Nat /\ Len(out) = n
      BY <2>0, <2>2, <2>9, <3>1 DEF Phases, RingOK
    <3>3. n \notin Held(buf)
      BY <2>2, <3>1, NextHolds
    <3>4. \A i \in 1..n : out[i] = i - 1
      BY <2>9, <3>1, <3>2 DEF InOrder
    <3> HIDE DEF n
    <3>5. ASSUME NEW s \in Seqs PROVE s \in O <=> s < n
      <4>1. s \in Nat
        BY SMTT(60) DEF Seqs
      <4>2. s < n => s + 1 \in 1..Len(out) /\ out[s + 1] = s
        BY <3>2, <3>4, <4>1, SMTT(60)
      <4>3. s \in O => s < n
        BY <2>2, <3>2, <3>4, <4>1, SMTT(60)
      <4>4. QED
        BY <2>2, <4>2, <4>3
    <3>6. n \in Seqs => (n < accepted => n \in panicked)
      <4> SUFFICES ASSUME n \in Seqs, n < accepted PROVE n \in panicked
        OBVIOUS
      <4>1. InRing(n) = 0
        BY <3>1, <3>3 DEF InRing
      <4>2. n \notin O
        BY <3>2, <3>5, SMTT(60)
      <4>3. QED
        BY <2>3, <2>5, <4>1, <4>2, SMTT(60)
    <3>7. ASSUME NEW s \in Seqs, s \in O PROVE s \in R
      <4>1. s < accepted /\ s \in Nat /\ s < n
        BY <2>3, <2>5, <3>5, <3>7, SMTT(60) DEF Seqs
      <4>2. ASSUME NEW p \in panicked PROVE s < p
        <5>1. p \in Seqs /\ p \in Nat /\ Lost(p) = 1
          BY <2>4, <2>5, SMTT(60) DEF Seqs
        <5>2. p \notin O
          BY <2>3, <2>5, <5>1, SMTT(60)
        <5>3. QED
          BY <3>2, <3>5, <4>1, <5>1, <5>2, SMTT(60)
      <4>3. QED
        BY <2>1, <2>4, <4>1, <4>2, SMTT(60) DEF Seqs
    <3>8. ASSUME NEW s \in Seqs, s \in R PROVE s \in O
      <4>1. s \in Nat /\ s < accepted /\ \A p \in panicked : s < p
        BY <2>1, <2>9, <3>8, SMTT(60)
      <4>2. ~(n <= s)
        <5> SUFFICES ASSUME n <= s PROVE FALSE
          OBVIOUS
        <5>1. n < accepted /\ n \in Seqs
          BY <2>1, <3>2, <4>1, SMTT(60) DEF Seqs
        <5>2. n \in panicked
          BY <3>6, <5>1
        <5>3. QED
          BY <3>2, <4>1, <5>2, SMTT(60)
      <4>3. QED
        BY <3>2, <3>5, <4>1, <4>2, SMTT(60)
    <3>9. QED
      BY <2>6, <2>7, <3>7, <3>8
  <2>10. QED
    BY <2>1, <2>8, <2>9
<1>2. QED
  BY <1>1, PipelineAlways, PTL

\* A forwarded result is that of an accepted item, is new, and is the next one
\* unless the caller asked for completion order.
LEMMA ForwardDelivers ==
  ASSUME OrderInv, PermitInv, PlaceInv, Forward
  PROVE  Sequential!Deliver \/ UNCHANGED Sequential!deliveryVars
<1> USE DEF callerVars, semVars, taskVars, ReorderUnchanged
<1> DEFINE h == HeadItem(buf)
<1>0. Typed /\ Balanced
  BY DEF PlaceInv
<1>1. /\ cfg' = cfg /\ accepted' = accepted /\ Ready(buf) /\ buf' = NextInOrder(buf)
      /\ rpc \in {"full", "drain", "final"}
  BY DEF Forward
<1>2. CASE ResultRxDropped
  BY <1>1, <1>2 DEF Forward, Sequential!deliveryVars
<1>3. CASE ~ResultRxDropped
  <2>1. out' = Append(out, h) /\ pc # "dropped"
    BY <1>3 DEF Forward, ResultRxDropped
  <2>2. mode = "parallel" /\ accepted \in Nat /\ next \in Nat /\ next <= accepted
        /\ cfg.bypass \in BOOLEAN /\ (buf.bypass <=> cfg.bypass)
    BY <1>1, ItemFacts
  <2>3. h \in Seqs /\ InRing(h) > 0
    BY <1>0, <1>1, RingGives
  <2>4. ~cfg.bypass => h = Len(out)
    <3> SUFFICES ASSUME ~cfg.bypass PROVE h = Len(out)
      OBVIOUS
    <3>1. RingOK(buf) /\ Len(out) = buf.next /\ ~buf.bypass
      BY <1>1, <2>2 DEF OrderInv, RingInOrder
    <3>2. QED
      BY <1>1, <3>1, NextKeepsOrder
  <2> HIDE DEF h
  <2>5. Places(h) >= 1 /\ Count(out, h) \in Nat
    BY <1>0, <2>3, PartsAreNat, SMTT(60) DEF Places
  <2>6. h < next /\ Places(h) = 1
    BY <1>0, <2>1, <2>2, <2>3, <2>5, SMTT(60) DEF Balanced
  <2>7. Count(out, h) = 0
    BY <1>0, <2>3, <2>6, PartsAreNat, SMTT(60) DEF Places
  <2>8. \A i \in 1..Len(out) : out[i] # h
    <3>1. out \in Seq(Seqs)
      BY <1>0 DEF Typed
    <3>2. QED
      BY <2>7, <3>1, CountFacts
  <2>9. h \in (0..accepted - 1) \ {out[i] : i \in 1..Len(out)}
    <3>1. h \in 0..accepted - 1
      BY <2>2, <2>3, <2>6, SMTT(60) DEF Seqs
    <3>2. QED
      BY <2>8, <3>1
  <2>10. Sequential!Deliver
    BY <1>1, <2>1, <2>4, <2>9 DEF Sequential!Deliver, Sequential!Given
  <2>11. QED
    BY <2>10
<1>4. QED
  BY <1>2, <1>3

\* The pipeline behaves like the sequential per-file loop it replaces: its threads,
\* queues, permits and ring are invisible to the caller except that results come
\* later (ParallelDeltaPipeline, ThresholdDeltaPipeline).
THEOREM PipelineImplementsDelivery == Spec => ImplementsDelivery
<1>1. Init => Sequential!DeliveryInit
  BY PipelineAssumption DEF Init, Sequential!DeliveryInit
<1>2. PipelineInv /\ [Next]_vars =>
        [Sequential!Submit \/ Sequential!Deliver \/ Sequential!DeliverAll]_(Sequential!deliveryVars)
  <2> SUFFICES ASSUME OrderInv, PermitInv, PlaceInv, [Next]_vars
               PROVE  \/ Sequential!Submit \/ Sequential!Deliver \/ Sequential!DeliverAll
                      \/ UNCHANGED Sequential!deliveryVars
    BY DEF PipelineInv
  <2> USE DEF callerVars, semVars, taskVars, reorderVars
  <2>1. CASE SubmitWork
    <3>1. accepted < Items
      <4>1. cfg.items \in Nat /\ cfg.items <= Items /\ Items \in Nat /\ accepted \in Nat
        BY PipelineAssumption, ItemFacts, SMTT(60) DEF OrderInv
      <4>2. QED
        BY <2>1, <4>1, SMTT(60) DEF SubmitWork
    <3>2. QED
      BY <2>1, <3>1 DEF SubmitWork, Sequential!Submit
  <2>2. CASE FlushSequential
    <3>1. out = << >>
      BY <2>2 DEF FlushSequential, PlaceInv, Phases
    <3>2. QED
      BY <2>2, <3>1 DEF FlushSequential, Sequential!DeliverAll
  <2>3. CASE Acquire \/ Send \/ TakeResult \/ Flush \/ FlushEnds \/ Abandon
    BY <2>3 DEF Acquire, Send, TakeResult, Flush, FlushEnds, Abandon, Sequential!deliveryVars
  <2>4. CASE Spawn \/ QueueEnds \/ ScopeEnds
    BY <2>4 DEF Spawn, QueueEnds, ScopeEnds, Sequential!deliveryVars
  <2>5. ASSUME NEW s \in Seqs, Task(s) PROVE UNCHANGED Sequential!deliveryVars
    BY <2>5 DEF Task, Start, SendResult, Panic, Release, Notify, Sequential!deliveryVars
  <2>6. CASE Forward
    BY <2>6, ForwardDelivers
  <2>7. CASE Receive \/ Retry \/ Advance
    BY <2>7 DEF Receive, Retry, Advance, ReorderUnchanged, Sequential!deliveryVars
  <2>8. CASE UNCHANGED vars
    BY <2>8 DEF vars, Sequential!deliveryVars
  <2>9. QED
    BY <2>1, <2>2, <2>3, <2>4, <2>5, <2>6, <2>7, <2>8 DEF Next, Caller, Reorder, Finished
<1>3. QED
  BY <1>1, <1>2, PipelineAlways, PTL DEF Spec, ImplementsDelivery, Sequential!DeliverySpec
=============================================================================
