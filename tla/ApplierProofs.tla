---------------------------- MODULE ApplierProofs ----------------------------
(***************************************************************************)
(* The parallel chunk applier: no worker writes to a writer that finish_file *)
(* has handed back, and that writer holds every chunk that was acknowledged, *)
(* in order, for any number of threads, files, slots and calls, failing and  *)
(* panicking writers included.                                               *)
(***************************************************************************)
EXTENDS Applier, CommonProofs, FunctionTheorems

\* The leaves are tried with Zenon unless they name another prover.
USE Zenon

SlotFields == {"ring", "out", "inflight", "poisoned", "fate", "acked", "hurt"}
ThreadFields == {"pc", "todo", "at", "slot", "keys", "ok"}

Working == {"verify", "lookup", "count", "ingest", "release", "uncount"}
Barrier == {"flush", "keys", "pick", "wait", "asleep"}

\* A thread that is inside a call has the call at the front of what it still has to
\* do, and a place in its chunks.
ThreadOK(r) ==
    /\ DOMAIN r = ThreadFields
    /\ r.todo \in Seq(ApplyCalls)
    /\ r.pc # "done" => r.todo # << >>
    /\ r.at \in Nat
    /\ r.pc \in Working /\ Head(r.todo).chunks # << >> => r.at \in 1..Len(Head(r.todo).chunks)
    /\ r.pc \in Barrier => Head(r.todo).op \in {"flush", "finish", "drain"}

Shapes ==
    /\ files \in [FileNdx -> Slots \cup {0}]
    /\ DOMAIN slot = Slots /\ \A i \in Slots : DOMAIN slot[i] = SlotFields
    /\ DOMAIN thread = Threads /\ \A t \in Threads : ThreadOK(thread[t])

\* A slot the map names is live, and named once.
MapIsLive == \A f \in FileNdx : files[f] # 0 => slot[files[f]].fate = "live"
NamedOnce == \A f, g \in FileNdx : files[f] = files[g] /\ files[f] # 0 => f = g

\* A slot taken out of the map is named by no file and by one finishing thread.
TakenOut ==
    \A t \in Threads : thread[t].pc = "unwrap" =>
       /\ thread[t].slot \in Slots /\ slot[thread[t].slot].fate = "live"
       /\ \A f \in FileNdx : files[f] # thread[t].slot
OneFinisher ==
    \A t, u \in Threads :
       thread[t].pc = "unwrap" /\ thread[u].pc = "unwrap"
          /\ thread[t].slot = thread[u].slot => t = u

\* Nobody holds the payload of a slot whose writer went back.
BackIsFree == \A i \in Slots, t \in Threads : slot[i].fate = "returned" => ~HoldsData(t, i)

\* The exclusive hold of finish_file.
Ownership == MapIsLive /\ NamedOnce /\ TakenOut /\ OneFinisher /\ BackIsFree

OwnerInv == Shapes /\ Ownership

-----------------------------------------------------------------------------
Clones == {"count", "ingest", "release"}    \* where a thread holds a slot's payload
Elsewhere == {"unwrap"} \cup Clones

\* A call that begins owns nothing.
LEMMA BeginOK ==
  ASSUME NEW todo \in Seq(ApplyCalls)
  PROVE  ThreadOK(Begin(todo)) /\ Begin(todo).slot = 0 /\ Begin(todo).pc \notin Elsewhere
<1> DEFINE r == Begin(todo)
<1>1. /\ DOMAIN r = ThreadFields /\ r.todo = todo /\ r.at = 1 /\ r.slot = 0
      /\ r.pc = Entry(todo)
  BY DEF Begin, ThreadFields
<1>2. CASE todo = << >>
  <2>1. r.pc = "done"
    BY <1>1, <1>2 DEF Entry
  <2>2. QED
    BY <1>1, <2>1, SMTT(60) DEF ThreadOK, Elsewhere, Clones, Working, Barrier
<1>3. CASE todo # << >>
  <2>1. Head(todo) \in ApplyCalls
    BY <1>3, SMTT(60)
  <2>2. /\ Head(todo).op \in {"register", "apply", "bytes", "batch", "flush", "finish", "drain"}
        /\ Head(todo).chunks \in Seq(ApplyChunks)
    BY <2>1 DEF ApplyCalls, Requests
  <2>3. Entry(todo) \in {"register", "lookup", "verify", "flush", "keys"}
    BY <1>3, <2>2 DEF Entry
  <2>4. Head(todo).chunks # << >> => 1 \in 1..Len(Head(todo).chunks)
    BY <2>2, SMTT(60)
  <2>5. Entry(todo) \in {"flush", "keys"} => Head(todo).op \in {"flush", "finish", "drain"}
    BY <1>3, <2>2 DEF Entry
  <2>6. QED
    BY <1>1, <1>3, <2>3, <2>4, <2>5, SMTT(60) DEF ThreadOK, Elsewhere, Clones, Working, Barrier
<1>4. QED
  BY <1>2, <1>3

\* So does one whose call returns.
LEMMA ReturnedOK ==
  ASSUME Shapes, NEW t \in Threads, thread[t].pc # "done"
  PROVE  /\ ThreadOK(Returned(t)) /\ Returned(t).slot = 0 /\ Returned(t).pc \notin Elsewhere
         /\ Call(t) \in ApplyCalls
<1>1. thread[t].todo \in Seq(ApplyCalls) /\ thread[t].todo # << >>
  BY DEF Shapes, ThreadOK
<1>2. Tail(thread[t].todo) \in Seq(ApplyCalls) /\ Head(thread[t].todo) \in ApplyCalls
  BY <1>1, SMTT(60)
<1>3. QED
  BY <1>2, BeginOK DEF Returned, Call

\* The file a lookup is about is one of the files.
LEMMA TargetOK ==
  ASSUME Shapes, NEW t \in Threads, thread[t].pc = "lookup"
  PROVE  Target(t) \in FileNdx
<1>1. Call(t) \in ApplyCalls
  BY ReturnedOK
<1>2. Call(t).file \in FileNdx /\ Call(t).chunks \in Seq(ApplyChunks)
  BY <1>1 DEF ApplyCalls, Requests
<1>3. Call(t).chunks # << >> => thread[t].at \in 1..Len(Call(t).chunks)
  BY DEF Shapes, ThreadOK, Call, Working
<1>4. Call(t).chunks # << >> => Call(t).chunks[thread[t].at] \in ApplyChunks
  BY <1>2, <1>3, SMTT(60)
<1>5. QED
  BY <1>2, <1>4 DEF Target, Chunk, ApplyChunks

\* The map and the fates stay; a thread that holds something afterwards held it before,
\* or holds a slot whose writer has not gone back.
LEMMA OwnerFrame ==
  ASSUME OwnerInv, files' = files,
         DOMAIN slot' = Slots,
         \A i \in Slots : DOMAIN slot'[i] = SlotFields /\ slot'[i].fate = slot[i].fate,
         DOMAIN thread' = Threads,
         \A u \in Threads :
            /\ ThreadOK(thread'[u])
            /\ thread'[u].pc = "unwrap" => thread'[u] = thread[u]
            /\ thread'[u].pc \in Clones /\ thread'[u].slot \in Slots =>
                  slot[thread'[u].slot].fate # "returned"
  PROVE  OwnerInv'
<1>1. Shapes'
  BY DEF OwnerInv, Shapes
<1>2. \A f \in FileNdx : files'[f] # 0 => files'[f] \in Slots /\ slot'[files'[f]].fate = "live"
  BY DEF OwnerInv, Shapes, Ownership, MapIsLive
<1>3. \A t \in Threads : thread'[t].pc = "unwrap" =>
          /\ thread'[t].slot \in Slots /\ slot'[thread'[t].slot].fate = "live"
          /\ \A f \in FileNdx : files'[f] # thread'[t].slot
  BY SMTT(60) DEF OwnerInv, Ownership, TakenOut
<1>4. \A t, u \in Threads :
          thread'[t].pc = "unwrap" /\ thread'[u].pc = "unwrap"
             /\ thread'[t].slot = thread'[u].slot => t = u
  BY ZenonT(60) DEF OwnerInv, Ownership, OneFinisher
<1>5. \A i \in Slots, t \in Threads : slot'[i].fate = "returned" => ~HoldsData(t, i)'
  BY DEF HoldsData, Clones
<1>6. \A f, g \in FileNdx : files'[f] = files'[g] /\ files'[f] # 0 => f = g
  BY DEF OwnerInv, Ownership, NamedOnce
<1>7. QED
  BY <1>1, <1>2, <1>3, <1>4, <1>5, <1>6
     DEF OwnerInv, Ownership, MapIsLive, NamedOnce, TakenOut, OneFinisher, BackIsFree

\* What a thread holds has not gone back.
LEMMA HeldIsOut ==
  ASSUME OwnerInv, NEW u \in Threads, thread[u].pc \in Clones, thread[u].slot \in Slots
  PROVE  slot[thread[u].slot].fate # "returned"
  BY DEF OwnerInv, Ownership, BackIsFree, HoldsData, Clones

\* The same for a step of one thread.
LEMMA OwnerMove ==
  ASSUME OwnerInv, NEW t \in Threads, files' = files,
         DOMAIN slot' = Slots,
         \A i \in Slots : DOMAIN slot'[i] = SlotFields /\ slot'[i].fate = slot[i].fate,
         DOMAIN thread' = Threads, \A u \in Threads \ {t} : thread'[u] = thread[u],
         ThreadOK(thread'[t]), thread'[t].pc # "unwrap",
         thread'[t].pc \in Clones /\ thread'[t].slot \in Slots =>
            slot[thread'[t].slot].fate # "returned"
  PROVE  OwnerInv'
<1>1. \A u \in Threads \ {t} : ThreadOK(thread'[u])
  BY DEF OwnerInv, Shapes
<1>2. ASSUME NEW u \in Threads
      PROVE  /\ ThreadOK(thread'[u])
             /\ thread'[u].pc = "unwrap" => thread'[u] = thread[u]
             /\ thread'[u].pc \in Clones /\ thread'[u].slot \in Slots =>
                   slot[thread'[u].slot].fate # "returned"
  <2>1. CASE u = t
    BY <2>1
  <2>2. CASE u # t
    <3>1. thread'[u] = thread[u]
      BY <2>2
    <3>2. thread[u].pc \in Clones /\ thread[u].slot \in Slots =>
             slot[thread[u].slot].fate # "returned"
      BY HeldIsOut
    <3>3. QED
      BY <1>1, <2>2, <3>1, <3>2
  <2>3. QED
    BY <2>1, <2>2
<1>3. QED
  BY <1>2, OwnerFrame

-----------------------------------------------------------------------------
(* The steps that leave the map and the fates alone.                         *)

\* The call of t returns.
LEMMA ReturnKeepsOwner ==
  ASSUME OwnerInv, NEW t \in Threads, thread[t].pc # "done", files' = files, slot' = slot,
         thread' = [thread EXCEPT ![t] = Returned(t)]
  PROVE  OwnerInv'
<1>1. /\ ThreadOK(Returned(t)) /\ Returned(t).pc \notin Elsewhere
  BY ReturnedOK DEF OwnerInv
<1>2. /\ DOMAIN thread = Threads /\ DOMAIN slot = Slots
      /\ \A i \in Slots : DOMAIN slot[i] = SlotFields
  BY DEF OwnerInv, Shapes
<1>3. thread'[t] = Returned(t)
  BY <1>2
<1>4. QED
  BY <1>1, <1>2, <1>3, OwnerMove DEF Elsewhere

\* t goes on in its call, where it holds nothing or what it held before.
LEMMA GoOnKeepsOwner ==
  ASSUME OwnerInv, NEW t \in Threads, NEW r, files' = files,
         DOMAIN slot' = Slots,
         \A i \in Slots : DOMAIN slot'[i] = SlotFields /\ slot'[i].fate = slot[i].fate,
         thread' = [thread EXCEPT ![t] = r],
         DOMAIN r = ThreadFields, r.todo = thread[t].todo, r.at = thread[t].at,
         thread[t].pc # "done", r.pc \notin {"done", "unwrap"},
         r.pc \in Working => thread[t].pc \in Working,
         r.pc \in Barrier => thread[t].pc \in Barrier,
         r.pc \in Clones /\ r.slot \in Slots => slot[r.slot].fate # "returned"
  PROVE  OwnerInv'
<1>1. DOMAIN thread = Threads /\ ThreadOK(thread[t])
  BY DEF OwnerInv, Shapes
<1>2. thread'[t] = r /\ DOMAIN thread' = Threads
  BY <1>1
<1>3. ThreadOK(r)
  BY <1>1 DEF ThreadOK
<1>4. QED
  BY <1>2, <1>3, OwnerMove

\* ingest leaves the slots alone or replaces the one it was called on.
LEMMA IngestSlots ==
  ASSUME NEW t \in Threads, Ingest(t)
  PROVE  \/ slot' = slot
         \/ \E q, b, ready :
               slot' = [slot EXCEPT ![thread[t].slot] = Ingested(slot[thread[t].slot], q, b, ready)]
<1> DEFINE i == thread[t].slot
           q == Chunk(t).seq
           refused == \/ slot[i].poisoned \/ Call(t).op = "bytes" \/ ~Chunk(t).good
                      \/ ~Accepts(slot[i].ring, q)
<1>1. CASE refused
  BY <1>1 DEF Ingest
<1>2. CASE ~refused
  <2>1. PICK b, ready : slot' = [slot EXCEPT ![i] = Ingested(@, q, b, ready)]
    BY <1>2 DEF Ingest
  <2>2. slot' = [slot EXCEPT ![i] = Ingested(slot[i], q, b, ready)]
    BY <2>1
  <2>3. QED
    BY <2>2
<1>3. QED
  BY <1>1, <1>2

\* Steps on the way to a slot, in it and out of it.
LEMMA WorkerKeepsOwner ==
  ASSUME OwnerInv, NEW t \in Threads,
         VerifyBatch(t) \/ SlotFor(t) \/ CountIn(t) \/ Ingest(t) \/ ReleaseData(t)
  PROVE  OwnerInv'
<1>1. /\ DOMAIN thread = Threads /\ DOMAIN slot = Slots
      /\ \A i \in Slots : DOMAIN slot[i] = SlotFields
      /\ DOMAIN thread[t] = ThreadFields
      /\ files \in [FileNdx -> Slots \cup {0}]
  BY DEF OwnerInv, Shapes, ThreadOK
<1>2. CASE VerifyBatch(t)
  <2>1. thread[t].pc = "verify" /\ files' = files /\ slot' = slot
    BY <1>2 DEF VerifyBatch, At
  <2>2. CASE thread' = [thread EXCEPT ![t] = Returned(t)]
    BY <2>1, <2>2, ReturnKeepsOwner
  <2>3. CASE thread' = [thread EXCEPT ![t].pc = "lookup"]
    <3> DEFINE r == [thread[t] EXCEPT !.pc = "lookup"]
    <3>1. /\ DOMAIN r = ThreadFields /\ r.todo = thread[t].todo /\ r.at = thread[t].at
          /\ r.pc = "lookup" /\ thread' = [thread EXCEPT ![t] = r]
      BY <1>1, <2>3 DEF ThreadFields
    <3> HIDE DEF r
    <3>2. QED
      BY <1>1, <2>1, <3>1, GoOnKeepsOwner DEF Working, Clones, Barrier
  <2>4. QED
    BY <1>2, <2>2, <2>3 DEF VerifyBatch, Goto
<1>3. CASE SlotFor(t)
  <2> DEFINE i == files[Target(t)]
             r == [thread[t] EXCEPT !.slot = i, !.pc = "count"]
  <2>1. thread[t].pc = "lookup" /\ files' = files /\ slot' = slot
    BY <1>3 DEF SlotFor, At
  <2>2. CASE i = 0
    BY <1>3, <2>1, <2>2, ReturnKeepsOwner DEF SlotFor
  <2>3. CASE i # 0
    <3>1. i \in Slots /\ slot[i].fate = "live"
      BY <1>1, <2>1, <2>3, TargetOK DEF OwnerInv, Ownership, MapIsLive
    <3>2. thread' = [thread EXCEPT ![t] = r]
      BY <1>1, <1>3, <2>3 DEF SlotFor
    <3>3. /\ DOMAIN r = ThreadFields /\ r.todo = thread[t].todo /\ r.at = thread[t].at
          /\ r.pc = "count" /\ r.slot = i
      BY <1>1 DEF ThreadFields
    <3> HIDE DEF r, i
    <3>4. QED
      BY <1>1, <2>1, <3>1, <3>2, <3>3, GoOnKeepsOwner DEF Working, Clones, Barrier
  <2>4. QED
    BY <2>2, <2>3
<1>4. CASE CountIn(t)
  <2> DEFINE r == [thread[t] EXCEPT !.pc = "ingest"]
  <2>1. /\ thread[t].pc = "count" /\ files' = files
        /\ slot' = [slot EXCEPT ![thread[t].slot].inflight = @ + 1]
        /\ thread' = [thread EXCEPT ![t] = r]
    BY <1>1, <1>4 DEF CountIn, At, Goto
  <2>2. /\ DOMAIN slot' = Slots
        /\ \A i \in Slots : DOMAIN slot'[i] = SlotFields /\ slot'[i].fate = slot[i].fate
    BY <1>1, <2>1 DEF SlotFields
  <2>3. /\ DOMAIN r = ThreadFields /\ r.todo = thread[t].todo /\ r.at = thread[t].at
        /\ r.pc = "ingest" /\ r.slot = thread[t].slot
    BY <1>1 DEF ThreadFields
  <2>4. thread[t].slot \in Slots => slot[thread[t].slot].fate # "returned"
    BY <2>1, HeldIsOut DEF Clones
  <2> HIDE DEF r
  <2>5. /\ thread[t].pc # "done" /\ r.pc \notin {"done", "unwrap"}
        /\ r.pc \in Working /\ thread[t].pc \in Working /\ r.pc \notin Barrier
        /\ r.pc \in Clones /\ r.slot \in Slots => slot[r.slot].fate # "returned"
    BY <2>1, <2>3, <2>4 DEF Working, Clones, Barrier
  <2>6. QED
    BY <2>1, <2>2, <2>3, <2>5, GoOnKeepsOwner
<1>5. CASE Ingest(t)
  <2>1. thread[t].pc = "ingest" /\ files' = files
    BY <1>5 DEF Ingest, At
  <2>2. PICK ok : thread' = [thread EXCEPT ![t].pc = "release", ![t].ok = ok]
    BY <1>5 DEF Ingest
  <2> DEFINE r == [thread[t] EXCEPT !.pc = "release", !.ok = ok]
  <2>3. thread' = [thread EXCEPT ![t] = r]
    BY <1>1, <2>2
  <2>4. /\ DOMAIN r = ThreadFields /\ r.todo = thread[t].todo /\ r.at = thread[t].at
        /\ r.pc = "release" /\ r.slot = thread[t].slot
    BY <1>1 DEF ThreadFields
  <2>5. /\ DOMAIN slot' = Slots
        /\ \A i \in Slots : DOMAIN slot'[i] = SlotFields /\ slot'[i].fate = slot[i].fate
    <3>1. CASE slot' = slot
      BY <1>1, <3>1
    <3>2. CASE \E q, b, ready :
                 slot' = [slot EXCEPT ![thread[t].slot] = Ingested(slot[thread[t].slot], q, b, ready)]
      <4>1. PICK q, b, ready :
               slot' = [slot EXCEPT ![thread[t].slot] = Ingested(slot[thread[t].slot], q, b, ready)]
        BY <3>2
      <4>2. ASSUME NEW i \in Slots
            PROVE  /\ DOMAIN Ingested(slot[i], q, b, ready) = SlotFields
                   /\ Ingested(slot[i], q, b, ready).fate = slot[i].fate
        BY <1>1 DEF Ingested, SlotFields
      <4>3. QED
        BY <1>1, <4>1, <4>2
    <3>3. QED
      BY <1>5, <3>1, <3>2, IngestSlots
  <2>6. thread[t].slot \in Slots => slot[thread[t].slot].fate # "returned"
    BY <2>1, HeldIsOut DEF Clones
  <2> HIDE DEF r
  <2>7. /\ thread[t].pc # "done" /\ r.pc \notin {"done", "unwrap"}
        /\ r.pc \in Working /\ thread[t].pc \in Working /\ r.pc \notin Barrier
        /\ r.pc \in Clones /\ r.slot \in Slots => slot[r.slot].fate # "returned"
    BY <2>1, <2>4, <2>6 DEF Working, Clones, Barrier
  <2>8. QED
    BY <2>1, <2>3, <2>4, <2>5, <2>7, GoOnKeepsOwner
<1>6. CASE ReleaseData(t)
  <2> DEFINE r == [thread[t] EXCEPT !.pc = "uncount"]
  <2>1. /\ thread[t].pc = "release" /\ files' = files /\ slot' = slot
        /\ thread' = [thread EXCEPT ![t] = r]
    BY <1>1, <1>6 DEF ReleaseData, At, Goto
  <2>2. /\ DOMAIN r = ThreadFields /\ r.todo = thread[t].todo /\ r.at = thread[t].at
        /\ r.pc = "uncount"
    BY <1>1 DEF ThreadFields
  <2> HIDE DEF r
  <2>3. QED
    BY <1>1, <2>1, <2>2, GoOnKeepsOwner DEF Working, Clones, Barrier
<1>7. QED
  BY <1>2, <1>3, <1>4, <1>5, <1>6

\* The decrement, which also wakes the flushers of the slot.
LEMMA CountOutKeepsOwner ==
  ASSUME OwnerInv, NEW t \in Threads, CountOut(t)
  PROVE  OwnerInv'
<1>1. /\ DOMAIN slot = Slots /\ \A i \in Slots : DOMAIN slot[i] = SlotFields
      /\ \A u \in Threads : ThreadOK(thread[u])
  BY DEF OwnerInv, Shapes
<1>2. /\ thread[t].pc = "uncount" /\ files' = files
      /\ slot' = [slot EXCEPT ![thread[t].slot].inflight = IF @ = 0 THEN 0 ELSE @ - 1]
      /\ DOMAIN thread' = Threads /\ thread'[t] = AfterChunk(t)
  BY DEF CountOut, At
<1>3. /\ DOMAIN slot' = Slots
      /\ \A i \in Slots : DOMAIN slot'[i] = SlotFields /\ slot'[i].fate = slot[i].fate
  BY <1>1, <1>2 DEF SlotFields
<1>4. ThreadOK(AfterChunk(t)) /\ AfterChunk(t).pc \notin Elsewhere
  <2>1. CASE thread[t].ok /\ thread[t].at < Len(Call(t).chunks)
    <3> DEFINE r == [thread[t] EXCEPT !.pc = "lookup", !.at = @ + 1, !.slot = 0]
    <3>1. Call(t) \in ApplyCalls
      BY <1>2, ReturnedOK DEF OwnerInv
    <3>2. Call(t).chunks \in Seq(ApplyChunks) /\ thread[t].at \in Nat
      BY <1>1, <3>1 DEF ApplyCalls, Requests, ThreadOK
    <3>3. thread[t].at + 1 \in 1..Len(Call(t).chunks)
      BY <2>1, <3>2, SMTT(60)
    <3>4. /\ DOMAIN r = ThreadFields /\ r.todo = thread[t].todo /\ r.at = thread[t].at + 1
          /\ r.pc = "lookup"
      BY <1>1 DEF ThreadOK, ThreadFields
    <3>5. AfterChunk(t) = r
      BY <2>1 DEF AfterChunk
    <3> HIDE DEF r
    <3>6. thread[t].todo \in Seq(ApplyCalls) /\ thread[t].todo # << >>
      BY <1>1, <1>2 DEF ThreadOK
    <3>7. ThreadOK(r)
      BY <3>2, <3>3, <3>4, <3>6, SMTT(60) DEF ThreadOK, Call, Barrier
    <3>8. QED
      BY <3>4, <3>5, <3>7 DEF Elsewhere, Clones
  <2>2. CASE ~(thread[t].ok /\ thread[t].at < Len(Call(t).chunks))
    BY <1>2, <2>2, ReturnedOK DEF AfterChunk, OwnerInv
  <2>3. QED
    BY <2>1, <2>2
<1>5. ASSUME NEW u \in Threads
      PROVE  /\ ThreadOK(thread'[u])
             /\ thread'[u].pc = "unwrap" => thread'[u] = thread[u]
             /\ thread'[u].pc \in Clones /\ thread'[u].slot \in Slots =>
                   slot[thread'[u].slot].fate # "returned"
  <2>1. CASE u = t
    BY <1>2, <1>4, <2>1 DEF Elsewhere
  <2>2. CASE u # t /\ thread[u].slot = thread[t].slot /\ At(u, "asleep")
    <3> DEFINE r == [thread[u] EXCEPT !.pc = "wait"]
    <3>1. thread'[u] = r
      BY <2>2 DEF CountOut
    <3>2. /\ DOMAIN r = ThreadFields /\ r.todo = thread[u].todo /\ r.at = thread[u].at
          /\ r.pc = "wait"
      BY <1>1 DEF ThreadOK, ThreadFields
    <3> HIDE DEF r
    <3>3. QED
      BY <1>1, <2>2, <3>1, <3>2 DEF ThreadOK, At, Clones, Working, Barrier
  <2>3. CASE u # t /\ ~(thread[u].slot = thread[t].slot /\ At(u, "asleep"))
    <3>1. thread'[u] = thread[u]
      BY <2>3 DEF CountOut
    <3>2. QED
      BY <1>1, <3>1, HeldIsOut
  <2>4. QED
    BY <2>1, <2>2, <2>3
<1>6. QED
  BY <1>2, <1>3, <1>5, OwnerFrame

\* The barrier: whoever waits at it holds nothing.
LEMMA BarrierKeepsOwner ==
  ASSUME OwnerInv, NEW t \in Threads,
         Flush(t) \/ ListKeys(t) \/ FlushNext(t) \/ WaitUntilIdle(t) \/ SpuriousWake(t)
  PROVE  OwnerInv'
<1>1. /\ DOMAIN thread = Threads /\ DOMAIN slot = Slots
      /\ \A i \in Slots : DOMAIN slot[i] = SlotFields
      /\ DOMAIN thread[t] = ThreadFields
  <2>1. ThreadOK(thread[t])
    BY DEF OwnerInv, Shapes
  <2>2. QED
    BY <2>1 DEF OwnerInv, Shapes, ThreadOK
<1>2. thread[t].pc \in {"flush", "keys", "pick", "wait", "asleep"} /\ files' = files /\ slot' = slot
  BY DEF Flush, ListKeys, FlushNext, WaitUntilIdle, SpuriousWake, At
<1>3. ASSUME NEW r, thread' = [thread EXCEPT ![t] = r], DOMAIN r = ThreadFields,
             r.todo = thread[t].todo, r.at = thread[t].at,
             r.pc \in {"wait", "remove", "pick", "asleep"}
      PROVE  OwnerInv'
  <2>1. /\ thread[t].pc # "done" /\ r.pc \notin {"done", "unwrap"}
        /\ r.pc \notin Working /\ thread[t].pc \in Barrier /\ r.pc \notin Clones
    BY <1>2, <1>3 DEF Working, Clones, Barrier
  <2>2. \A i \in Slots : DOMAIN slot'[i] = SlotFields /\ slot'[i].fate = slot[i].fate
    BY <1>1, <1>2
  <2>3. QED
    BY <1>1, <1>2, <1>3, <2>1, <2>2, GoOnKeepsOwner
<1>4. ASSUME thread' = [thread EXCEPT ![t] = Returned(t)]
      PROVE  OwnerInv'
  BY <1>2, <1>4, ReturnKeepsOwner
<1>5. CASE Flush(t)
  <2> DEFINE i == files[Call(t).file]
  <2>1. CASE i # 0
    <3> DEFINE r == [thread[t] EXCEPT !.slot = i, !.pc = "wait"]
    <3>1. thread' = [thread EXCEPT ![t] = r]
      BY <1>1, <1>5, <2>1 DEF Flush
    <3>2. DOMAIN r = ThreadFields /\ r.todo = thread[t].todo /\ r.at = thread[t].at /\ r.pc = "wait"
      BY <1>1 DEF ThreadFields
    <3> HIDE DEF r
    <3>3. QED
      BY <1>3, <3>1, <3>2
  <2>2. CASE i = 0 /\ Call(t).op = "finish"
    <3> DEFINE r == [thread[t] EXCEPT !.pc = "remove"]
    <3>1. thread' = [thread EXCEPT ![t] = r]
      BY <1>1, <1>5, <2>2 DEF Flush
    <3>2. DOMAIN r = ThreadFields /\ r.todo = thread[t].todo /\ r.at = thread[t].at /\ r.pc = "remove"
      BY <1>1 DEF ThreadFields
    <3> HIDE DEF r
    <3>3. QED
      BY <1>3, <3>1, <3>2
  <2>3. CASE i = 0 /\ Call(t).op # "finish"
    <3>1. thread' = [thread EXCEPT ![t] = Returned(t)]
      BY <1>1, <1>5, <2>3 DEF Flush
    <3>2. QED
      BY <1>4, <3>1
  <2>4. QED
    BY <2>1, <2>2, <2>3
<1>6. CASE ListKeys(t)
  <2> DEFINE K == {f \in FileNdx : files[f] # 0}
             r == [thread[t] EXCEPT !.keys = K, !.pc = "pick"]
  <2>0. thread' = [thread EXCEPT ![t].keys = K, ![t].pc = "pick"]
    BY <1>6 DEF ListKeys
  <2> HIDE DEF K
  <2>1. thread' = [thread EXCEPT ![t] = r]
    BY <1>1, <2>0
  <2>2. DOMAIN r = ThreadFields /\ r.todo = thread[t].todo /\ r.at = thread[t].at /\ r.pc = "pick"
    BY <1>1 DEF ThreadFields
  <2> HIDE DEF r
  <2>3. QED
    BY <1>3, <2>1, <2>2
<1>7. CASE FlushNext(t)
  <2>1. CASE thread' = [thread EXCEPT ![t] = Returned(t)]
    BY <1>4, <2>1
  <2>2. ASSUME NEW f \in thread[t].keys,
               thread' = [thread EXCEPT ![t].keys = @ \ {f}, ![t].slot = files[f],
                                        ![t].pc = IF files[f] = 0 THEN "pick" ELSE "wait"]
        PROVE  OwnerInv'
    <3> DEFINE r == [thread[t] EXCEPT !.keys = @ \ {f}, !.slot = files[f],
                                      !.pc = IF files[f] = 0 THEN "pick" ELSE "wait"]
    <3>1. thread' = [thread EXCEPT ![t] = r]
      BY <1>1, <2>2
    <3>2. /\ DOMAIN r = ThreadFields /\ r.todo = thread[t].todo /\ r.at = thread[t].at
          /\ r.pc \in {"pick", "wait"}
      BY <1>1 DEF ThreadFields
    <3> HIDE DEF r
    <3>3. QED
      BY <1>3, <3>1, <3>2
  <2>3. QED
    BY <1>7, <2>1, <2>2 DEF FlushNext
<1>8. CASE WaitUntilIdle(t)
  <2>1. ASSUME NEW p \in {"asleep", "remove", "pick"},
               thread' = [thread EXCEPT ![t] = [thread[t] EXCEPT !.pc = p]]
        PROVE  OwnerInv'
    <3> DEFINE r == [thread[t] EXCEPT !.pc = p]
    <3>1. DOMAIN r = ThreadFields /\ r.todo = thread[t].todo /\ r.at = thread[t].at /\ r.pc = p
      BY <1>1 DEF ThreadFields
    <3>2. thread' = [thread EXCEPT ![t] = r]
      BY <2>1
    <3> HIDE DEF r
    <3>3. QED
      BY <1>3, <3>1, <3>2
  <2>2. CASE slot[thread[t].slot].inflight > 0
    <3>1. thread' = [thread EXCEPT ![t] = [thread[t] EXCEPT !.pc = "asleep"]]
      BY <1>1, <1>8, <2>2 DEF WaitUntilIdle
    <3>2. QED
      BY <2>1, <3>1
  <2>3. CASE ~(slot[thread[t].slot].inflight > 0)
    <3>1. CASE Call(t).op = "finish"
      <4>1. thread' = [thread EXCEPT ![t] = [thread[t] EXCEPT !.pc = "remove"]]
        BY <1>1, <1>8, <2>3, <3>1 DEF WaitUntilIdle
      <4>2. QED
        BY <2>1, <4>1
    <3>2. CASE Call(t).op = "drain"
      <4>1. thread' = [thread EXCEPT ![t] = [thread[t] EXCEPT !.pc = "pick"]]
        BY <1>1, <1>8, <2>3, <3>2 DEF WaitUntilIdle
      <4>2. QED
        BY <2>1, <4>1
    <3>3. CASE Call(t).op = "flush"
      <4>1. thread' = [thread EXCEPT ![t] = Returned(t)]
        BY <1>1, <1>8, <2>3, <3>3 DEF WaitUntilIdle
      <4>2. QED
        BY <1>4, <4>1
    <3>4. Call(t).op \in {"flush", "finish", "drain"}
      BY <1>2 DEF OwnerInv, Shapes, ThreadOK, Barrier, Call
    <3>5. QED
      BY <3>1, <3>2, <3>3, <3>4
  <2>4. QED
    BY <2>2, <2>3
<1>9. CASE SpuriousWake(t)
  <2> DEFINE r == [thread[t] EXCEPT !.pc = "wait"]
  <2>1. thread' = [thread EXCEPT ![t] = r]
    BY <1>1, <1>9 DEF SpuriousWake, Goto
  <2>2. DOMAIN r = ThreadFields /\ r.todo = thread[t].todo /\ r.at = thread[t].at /\ r.pc = "wait"
    BY <1>1 DEF ThreadFields
  <2> HIDE DEF r
  <2>3. QED
    BY <1>3, <2>1, <2>2
<1>10. QED
  BY <1>5, <1>6, <1>7, <1>8, <1>9

-----------------------------------------------------------------------------
(* The steps that hand a slot on: into the map, out of it, and back.         *)

\* A slot that enters the map was used by nobody.
LEMMA RegisterKeepsOwner ==
  ASSUME OwnerInv, NEW t \in Threads, RegisterFile(t)
  PROVE  OwnerInv'
<1> DEFINE f == Call(t).file
<1>1. /\ DOMAIN thread = Threads /\ DOMAIN slot = Slots
      /\ \A i \in Slots : DOMAIN slot[i] = SlotFields
      /\ files \in [FileNdx -> Slots \cup {0}]
      /\ \A u \in Threads : ThreadOK(thread[u])
  BY DEF OwnerInv, Shapes
<1>2. thread[t].pc = "register" /\ thread' = [thread EXCEPT ![t] = Returned(t)]
  BY DEF RegisterFile, At
<1>3. /\ ThreadOK(Returned(t)) /\ Returned(t).pc \notin Elsewhere /\ f \in FileNdx
  BY <1>2, ReturnedOK DEF OwnerInv, ApplyCalls, Requests
<1>4. CASE files[f] # 0
  <2>1. files' = files /\ slot' = slot
    BY <1>4 DEF RegisterFile
  <2>2. QED
    BY <1>2, <2>1, ReturnKeepsOwner
<1>5. CASE files[f] = 0
  <2>1. PICK i \in Slots : /\ slot[i].fate = "unused"
                           /\ files' = [files EXCEPT ![f] = i]
                           /\ slot' = [slot EXCEPT ![i].fate = "live"]
    BY <1>5 DEF RegisterFile
  <2>2. /\ DOMAIN slot' = Slots
        /\ \A k \in Slots : DOMAIN slot'[k] = SlotFields
        /\ \A k \in Slots : slot'[k].fate = IF k = i THEN "live" ELSE slot[k].fate
    BY <1>1, <2>1 DEF SlotFields
  <2>3. /\ DOMAIN thread' = Threads /\ thread'[t] = Returned(t)
        /\ \A u \in Threads \ {t} : thread'[u] = thread[u]
    BY <1>1, <1>2
  <2>4. /\ files' \in [FileNdx -> Slots \cup {0}] /\ files'[f] = i
        /\ \A g \in FileNdx \ {f} : files'[g] = files[g]
    BY <1>1, <1>3, <2>1
  <2>5. Shapes'
    BY <1>1, <1>3, <2>2, <2>3, <2>4 DEF Shapes
  <2>6. i # 0 /\ \A g \in FileNdx : files[g] # i
    BY <1>1, <2>1, SlotsAssumption DEF OwnerInv, Ownership, MapIsLive
  <2>7. \A g \in FileNdx : files'[g] # 0 => slot'[files'[g]].fate = "live"
    BY <1>1, <2>2, <2>4, SMTT(60) DEF OwnerInv, Ownership, MapIsLive
  <2>8. \A g, h \in FileNdx : files'[g] = files'[h] /\ files'[g] # 0 => g = h
    BY <2>4, <2>6 DEF OwnerInv, Ownership, NamedOnce
  <2>9. \A u \in Threads : thread'[u].pc = "unwrap" => u # t /\ thread'[u] = thread[u]
    BY <1>3, <2>3 DEF Elsewhere
  <2>10. \A u \in Threads : thread'[u].pc = "unwrap" =>
           /\ thread'[u].slot \in Slots /\ slot'[thread'[u].slot].fate = "live"
           /\ \A g \in FileNdx : files'[g] # thread'[u].slot
    BY <2>1, <2>2, <2>4, <2>9, SMTT(60) DEF OwnerInv, Ownership, TakenOut
  <2>11. \A u, v \in Threads :
           thread'[u].pc = "unwrap" /\ thread'[v].pc = "unwrap"
              /\ thread'[u].slot = thread'[v].slot => u = v
    BY <2>9 DEF OwnerInv, Ownership, OneFinisher
  <2>12. \A k \in Slots, u \in Threads : slot'[k].fate = "returned" => ~HoldsData(u, k)'
    <3> SUFFICES ASSUME NEW k \in Slots, NEW u \in Threads, slot'[k].fate = "returned"
                 PROVE  ~HoldsData(u, k)'
      OBVIOUS
    <3>1. ~HoldsData(u, k)
      BY <2>2 DEF OwnerInv, Ownership, BackIsFree
    <3>2. CASE u = t
      BY <1>3, <2>3, <3>2 DEF HoldsData, Elsewhere, Clones
    <3>3. CASE u # t
      BY <2>3, <3>1, <3>3 DEF HoldsData
    <3>4. QED
      BY <3>2, <3>3
  <2>13. QED
    BY <2>5, <2>7, <2>8, <2>10, <2>11, <2>12
     DEF OwnerInv, Ownership, MapIsLive, NamedOnce, TakenOut, OneFinisher, BackIsFree
<1>6. QED
  BY <1>4, <1>5

\* finish_file takes over the only name of the slot.
LEMMA RemoveKeepsOwner ==
  ASSUME OwnerInv, NEW t \in Threads, RemoveFile(t)
  PROVE  OwnerInv'
<1> DEFINE f == Call(t).file
           i == files[f]
<1>1. /\ DOMAIN thread = Threads /\ DOMAIN slot = Slots
      /\ \A k \in Slots : DOMAIN slot[k] = SlotFields
      /\ files \in [FileNdx -> Slots \cup {0}]
      /\ \A u \in Threads : ThreadOK(thread[u])
  BY DEF OwnerInv, Shapes
<1>2. thread[t].pc = "remove" /\ slot' = slot /\ files' = [files EXCEPT ![f] = 0]
  BY DEF RemoveFile, At
<1>3. /\ ThreadOK(Returned(t)) /\ Returned(t).pc \notin Elsewhere /\ f \in FileNdx
  BY <1>2, ReturnedOK DEF OwnerInv, ApplyCalls, Requests
<1>4. CASE i = 0
  <2>1. files' = files
    BY <1>1, <1>2, <1>3, <1>4
  <2>2. thread' = [thread EXCEPT ![t] = Returned(t)]
    BY <1>1, <1>4 DEF RemoveFile
  <2>3. QED
    BY <1>2, <2>1, <2>2, ReturnKeepsOwner
<1>5. CASE i # 0
  <2> DEFINE r == [thread[t] EXCEPT !.slot = i, !.pc = "unwrap"]
  <2>1. thread' = [thread EXCEPT ![t] = r]
    BY <1>1, <1>5 DEF RemoveFile
  <2>2. /\ DOMAIN r = ThreadFields /\ r.todo = thread[t].todo /\ r.at = thread[t].at
        /\ r.pc = "unwrap" /\ r.slot = i
    BY <1>1 DEF ThreadOK, ThreadFields
  <2>3. i \in Slots /\ slot[i].fate = "live" /\ \A g \in FileNdx \ {f} : files[g] # i
    BY <1>1, <1>3, <1>5 DEF OwnerInv, Ownership, MapIsLive, NamedOnce
  <2>4. /\ files' \in [FileNdx -> Slots \cup {0}] /\ files'[f] = 0
        /\ \A g \in FileNdx \ {f} : files'[g] = files[g]
    BY <1>1, <1>2, <1>3
  <2> HIDE DEF r
  <2>5. /\ DOMAIN thread' = Threads /\ thread'[t] = r
        /\ \A u \in Threads \ {t} : thread'[u] = thread[u]
    BY <1>1, <2>1
  <2>6. ThreadOK(r)
    BY <1>1, <1>2, <2>2 DEF ThreadOK, Working, Barrier
  <2>7. Shapes'
    BY <1>1, <1>2, <2>4, <2>5, <2>6 DEF Shapes
  <2>8. \A u \in Threads \ {t} : thread[u].pc = "unwrap" => thread[u].slot # i
    BY <1>3 DEF OwnerInv, Ownership, TakenOut
  <2>9. \A g \in FileNdx : files'[g] # 0 => slot'[files'[g]].fate = "live"
    BY <1>2, <2>4 DEF OwnerInv, Ownership, MapIsLive
  <2>10. \A g, h \in FileNdx : files'[g] = files'[h] /\ files'[g] # 0 => g = h
    <3>1. \A g \in FileNdx : files'[g] # 0 => g # f /\ files'[g] = files[g]
      BY <2>4
    <3>2. QED
      BY <3>1 DEF OwnerInv, Ownership, NamedOnce
  <2>11. \A u \in Threads : thread'[u].pc = "unwrap" =>
           /\ thread'[u].slot \in Slots /\ slot'[thread'[u].slot].fate = "live"
           /\ \A g \in FileNdx : files'[g] # thread'[u].slot
    <3>1. /\ i # 0 /\ \A g \in FileNdx : files'[g] # i
      BY <1>5, <2>3, <2>4
    <3>2. ASSUME NEW u \in Threads \ {t}, thread[u].pc = "unwrap"
          PROVE  /\ thread[u].slot \in Slots /\ slot[thread[u].slot].fate = "live"
                 /\ \A g \in FileNdx : files'[g] # thread[u].slot
      <4>1. /\ thread[u].slot \in Slots /\ slot[thread[u].slot].fate = "live"
            /\ \A g \in FileNdx : files[g] # thread[u].slot
        BY <3>2 DEF OwnerInv, Ownership, TakenOut
      <4>2. thread[u].slot # 0
        BY <4>1, SlotsAssumption
      <4>3. QED
        BY <2>4, <4>1, <4>2
    <3>3. /\ r.slot \in Slots /\ slot'[r.slot].fate = "live"
          /\ \A g \in FileNdx : files'[g] # r.slot
      BY <1>2, <2>2, <2>3, <3>1
    <3>4. ASSUME NEW u \in Threads, thread'[u].pc = "unwrap"
          PROVE  /\ thread'[u].slot \in Slots /\ slot'[thread'[u].slot].fate = "live"
                 /\ \A g \in FileNdx : files'[g] # thread'[u].slot
      <4>1. CASE u = t
        BY <2>5, <3>3, <4>1
      <4>2. CASE u # t
        <5>1. u \in Threads \ {t} /\ thread'[u] = thread[u] /\ thread[u].pc = "unwrap"
          BY <2>5, <3>4, <4>2
        <5>2. QED
          BY <1>2, <3>2, <5>1
      <4>3. QED
        BY <4>1, <4>2
    <3>5. QED
      BY <3>4
  <2>12. \A u, v \in Threads :
           thread'[u].pc = "unwrap" /\ thread'[v].pc = "unwrap"
              /\ thread'[u].slot = thread'[v].slot => u = v
    <3> SUFFICES ASSUME NEW u \in Threads, NEW v \in Threads, thread'[u].pc = "unwrap",
                        thread'[v].pc = "unwrap", thread'[u].slot = thread'[v].slot, u # v
                 PROVE  FALSE
      OBVIOUS
    <3>1. CASE u = t
      BY <2>2, <2>5, <2>8, <3>1
    <3>2. CASE v = t
      BY <2>2, <2>5, <2>8, <3>2
    <3>3. CASE u # t /\ v # t
      <4>1. thread'[u] = thread[u] /\ thread'[v] = thread[v]
        BY <2>5, <3>3
      <4>2. QED
        BY <4>1 DEF OwnerInv, Ownership, OneFinisher
    <3>4. QED
      BY <3>1, <3>2, <3>3
  <2>13. \A k \in Slots, u \in Threads : slot'[k].fate = "returned" => ~HoldsData(u, k)'
    <3> SUFFICES ASSUME NEW k \in Slots, NEW u \in Threads, slot'[k].fate = "returned"
                 PROVE  ~HoldsData(u, k)'
      OBVIOUS
    <3>1. ~HoldsData(u, k)
      BY <1>2 DEF OwnerInv, Ownership, BackIsFree
    <3>2. CASE u = t
      BY <2>2, <2>5, <3>2 DEF HoldsData
    <3>3. CASE u # t
      BY <2>5, <3>1, <3>3 DEF HoldsData
    <3>4. QED
      BY <3>2, <3>3
  <2>14. QED
    BY <2>7, <2>9, <2>10, <2>11, <2>12, <2>13
     DEF OwnerInv, Ownership, MapIsLive, NamedOnce, TakenOut, OneFinisher, BackIsFree
<1>6. QED
  BY <1>4, <1>5

\* try_unwrap gives the writer back only when no clone of the payload is left, and no
\* clone can be made any more.
LEMMA UnwrapKeepsOwner ==
  ASSUME OwnerInv, NEW t \in Threads, Unwrap(t)
  PROVE  OwnerInv'
<1> DEFINE i == thread[t].slot
           fate == CASE \E u \in Threads : HoldsData(u, i) -> "shared"
                     [] slot[i].poisoned /\ ~\E u \in Threads : HoldsData(u, i) -> "poisoned"
                     [] OTHER -> IF slot[i].ring.count = 0 THEN "returned" ELSE "undrained"
<1>1. /\ DOMAIN thread = Threads /\ DOMAIN slot = Slots
      /\ \A k \in Slots : DOMAIN slot[k] = SlotFields
      /\ files \in [FileNdx -> Slots \cup {0}]
      /\ \A u \in Threads : ThreadOK(thread[u])
  BY DEF OwnerInv, Shapes
<1>2. /\ thread[t].pc = "unwrap" /\ files' = files
      /\ slot' = [slot EXCEPT ![i].fate = fate]
      /\ thread' = [thread EXCEPT ![t] = Returned(t)]
  BY DEF Unwrap, At
<1>3. ThreadOK(Returned(t)) /\ Returned(t).pc \notin Elsewhere
  BY <1>2, ReturnedOK DEF OwnerInv
<1>4. /\ i \in Slots /\ \A f \in FileNdx : files[f] # i
      /\ \A u \in Threads \ {t} : thread[u].pc = "unwrap" => thread[u].slot # i
  BY <1>2 DEF OwnerInv, Ownership, TakenOut, OneFinisher
<1>5. fate = "returned" => \A u \in Threads : ~HoldsData(u, i)
  OBVIOUS
<1> HIDE DEF fate
<1>6. /\ DOMAIN slot' = Slots
      /\ \A k \in Slots : DOMAIN slot'[k] = SlotFields
      /\ \A k \in Slots : slot'[k].fate = IF k = i THEN fate ELSE slot[k].fate
  BY <1>1, <1>2 DEF SlotFields
<1>7. /\ DOMAIN thread' = Threads /\ thread'[t] = Returned(t)
      /\ \A u \in Threads \ {t} : thread'[u] = thread[u]
  BY <1>1, <1>2
<1>8. Shapes'
  BY <1>1, <1>2, <1>3, <1>6, <1>7 DEF Shapes
<1>9. \A f \in FileNdx : files'[f] # 0 => slot'[files'[f]].fate = "live"
  BY <1>1, <1>2, <1>4, <1>6, ZenonT(60) DEF OwnerInv, Ownership, MapIsLive
<1>10. \A f, g \in FileNdx : files'[f] = files'[g] /\ files'[f] # 0 => f = g
  BY <1>2 DEF OwnerInv, Ownership, NamedOnce
<1>11. \A u \in Threads : thread'[u].pc = "unwrap" => u # t /\ thread'[u] = thread[u]
  BY <1>3, <1>7 DEF Elsewhere
<1>12. \A u \in Threads : thread'[u].pc = "unwrap" =>
          /\ thread'[u].slot \in Slots /\ slot'[thread'[u].slot].fate = "live"
          /\ \A f \in FileNdx : files'[f] # thread'[u].slot
  <2> SUFFICES ASSUME NEW u \in Threads, thread'[u].pc = "unwrap"
               PROVE  /\ thread'[u].slot \in Slots /\ slot'[thread'[u].slot].fate = "live"
                      /\ \A f \in FileNdx : files'[f] # thread'[u].slot
    OBVIOUS
  <2>1. u # t /\ thread'[u] = thread[u] /\ thread[u].pc = "unwrap"
    BY <1>11
  <2>2. /\ thread[u].slot \in Slots /\ slot[thread[u].slot].fate = "live"
        /\ \A f \in FileNdx : files[f] # thread[u].slot
    BY <2>1 DEF OwnerInv, Ownership, TakenOut
  <2>3. thread[u].slot # i
    BY <1>4, <2>1
  <2>4. slot'[thread[u].slot].fate = slot[thread[u].slot].fate
    BY <1>6, <2>2, <2>3
  <2>5. QED
    BY <1>2, <2>1, <2>2, <2>4
<1>13. \A u, v \in Threads :
          thread'[u].pc = "unwrap" /\ thread'[v].pc = "unwrap"
             /\ thread'[u].slot = thread'[v].slot => u = v
  BY <1>11 DEF OwnerInv, Ownership, OneFinisher
<1>14. \A k \in Slots, u \in Threads : slot'[k].fate = "returned" => ~HoldsData(u, k)'
  <2> SUFFICES ASSUME NEW k \in Slots, NEW u \in Threads, slot'[k].fate = "returned"
               PROVE  ~HoldsData(u, k)'
    OBVIOUS
  <2>1. ~HoldsData(u, k)
    BY <1>5, <1>6 DEF OwnerInv, Ownership, BackIsFree
  <2>2. CASE u = t
    BY <1>3, <1>7, <2>2 DEF HoldsData, Elsewhere, Clones
  <2>3. CASE u # t
    BY <1>7, <2>1, <2>3 DEF HoldsData
  <2>4. QED
    BY <2>2, <2>3
<1>15. QED
  BY <1>8, <1>9, <1>10, <1>12, <1>13, <1>14
     DEF OwnerInv, Ownership, MapIsLive, NamedOnce, TakenOut, OneFinisher, BackIsFree

-----------------------------------------------------------------------------
LEMMA OwnerStart == ApplierInit => OwnerInv
<1> SUFFICES ASSUME ApplierInit PROVE OwnerInv
  OBVIOUS
<1>1. /\ files = [f \in FileNdx |-> 0] /\ slot = [i \in Slots |-> NewSlot]
      /\ thread = [t \in Threads |-> Begin(work.script[t])]
      /\ work.script \in [Threads -> Seq(ApplyCalls)]
  BY WorkAssumption DEF ApplierInit
<1>2. DOMAIN NewSlot = SlotFields /\ NewSlot.fate = "unused"
  BY DEF NewSlot, SlotFields
<1>3. \A t \in Threads : ThreadOK(thread[t]) /\ thread[t].pc \notin Elsewhere
  BY <1>1, BeginOK
<1>4. \A i \in Slots : slot[i] = NewSlot
  BY <1>1
<1>5. Shapes
  BY <1>1, <1>2, <1>3, <1>4 DEF Shapes
<1>6. Ownership
  BY <1>1, <1>2, <1>3, <1>4
     DEF Ownership, MapIsLive, NamedOnce, TakenOut, OneFinisher, BackIsFree, Elsewhere, Clones,
         HoldsData
<1>7. QED
  BY <1>5, <1>6 DEF OwnerInv

\* Every step keeps the ownership.
LEMMA OwnerStep == OwnerInv /\ [ApplierNext]_applierVars => OwnerInv'
<1> SUFFICES ASSUME OwnerInv, [ApplierNext]_applierVars PROVE OwnerInv'
  OBVIOUS
<1>1. ASSUME NEW t \in Threads, Step(t) \/ SpuriousWake(t)
      PROVE  OwnerInv'
  BY <1>1, RegisterKeepsOwner, WorkerKeepsOwner, CountOutKeepsOwner, BarrierKeepsOwner,
     RemoveKeepsOwner, UnwrapKeepsOwner DEF Step
<1>2. CASE UNCHANGED applierVars
  BY <1>2 DEF applierVars, OwnerInv, Shapes, Ownership, MapIsLive, NamedOnce, TakenOut,
              OneFinisher, BackIsFree, HoldsData
<1>3. QED
  BY <1>1, <1>2 DEF ApplierNext

\* Only a worker that holds a slot's payload writes to its file.
LEMMA OnlyHoldersWrite ==
  ASSUME OwnerInv, [ApplierNext]_applierVars, NEW i \in Slots, slot[i].fate = "returned"
  PROVE  slot'[i].out = slot[i].out
<1>1. DOMAIN slot = Slots /\ \A k \in Slots : DOMAIN slot[k] = SlotFields
  BY DEF OwnerInv, Shapes
<1>2. ASSUME NEW t \in Threads, Ingest(t)
      PROVE  slot'[i].out = slot[i].out
  <2>1. thread[t].slot # i
    BY <1>2 DEF Ingest, At, OwnerInv, Ownership, BackIsFree, HoldsData
  <2>2. CASE slot' = slot
    BY <2>2
  <2>3. CASE \E q, b, ready :
               slot' = [slot EXCEPT ![thread[t].slot] = Ingested(slot[thread[t].slot], q, b, ready)]
    BY <1>1, <2>1, <2>3
  <2>4. QED
    BY <1>2, <2>2, <2>3, IngestSlots
<1>3. ASSUME NEW t \in Threads, RegisterFile(t)
      PROVE  slot'[i].out = slot[i].out
  <2>1. CASE slot' = slot
    BY <2>1
  <2>2. CASE \E k \in Slots : slot' = [slot EXCEPT ![k].fate = "live"]
    BY <1>1, <2>2, SMTT(60) DEF SlotFields
  <2>3. QED
    BY <1>3, <2>1, <2>2 DEF RegisterFile
<1>4. ASSUME NEW t \in Threads, CountIn(t)
      PROVE  slot'[i].out = slot[i].out
  BY <1>1, <1>4 DEF CountIn, SlotFields
<1>5. ASSUME NEW t \in Threads, CountOut(t)
      PROVE  slot'[i].out = slot[i].out
  <2>1. slot' = [slot EXCEPT ![thread[t].slot].inflight = IF @ = 0 THEN 0 ELSE @ - 1]
    BY <1>5 DEF CountOut
  <2>2. QED
    BY <1>1, <2>1 DEF SlotFields
<1>6. ASSUME NEW t \in Threads, Unwrap(t)
      PROVE  slot'[i].out = slot[i].out
  <2>1. PICK x : slot' = [slot EXCEPT ![thread[t].slot].fate = x]
    BY <1>6 DEF Unwrap
  <2>2. QED
    BY <1>1, <2>1 DEF SlotFields
<1>7. ASSUME NEW t \in Threads,
             VerifyBatch(t) \/ SlotFor(t) \/ ReleaseData(t) \/ Flush(t) \/ ListKeys(t)
                \/ FlushNext(t) \/ WaitUntilIdle(t) \/ SpuriousWake(t) \/ RemoveFile(t)
      PROVE  slot' = slot
  BY <1>7 DEF VerifyBatch, SlotFor, ReleaseData, Flush, ListKeys, FlushNext, WaitUntilIdle,
              SpuriousWake, RemoveFile
<1>8. CASE UNCHANGED applierVars
  BY <1>8 DEF applierVars
<1>9. QED
  BY <1>2, <1>3, <1>4, <1>5, <1>6, <1>7, <1>8 DEF ApplierNext, Step

\* After finish_file (parallel_apply) has handed a writer back, no worker writes to it:
\* for any threads, files and scripts of calls, and writers that fail or panic.
THEOREM WriterIsExclusive == ApplierSpec => ReturnedWriterIsExclusive
<1>1. OwnerInv /\ [ApplierNext]_applierVars =>
         [\A i \in Slots : slot[i].fate = "returned" => slot'[i].out = slot[i].out]_applierVars
  BY OnlyHoldersWrite
<1>2. QED
  BY <1>1, OwnerStart, OwnerStep, PTL DEF ApplierSpec, ReturnedWriterIsExclusive

-----------------------------------------------------------------------------
(* The reorder ring of a file                                                *)

\* The slots of the ring that hold a chunk.
Filled(b) == {j \in 0..b.capacity - 1 : b.slots[j] # NoItem}

\* The ring is in order and counts what it holds.
RingInv(b) == RingOK(b) /\ ~b.bypass /\ b.count = Cardinality(Filled(b))

\* What the ring has handed out and what it holds.
Kept(b) == (0..b.next - 1) \cup Held(b)

\* The head advances by k places: what was the (k+i)-th place is the i-th, and the
\* k places passed are the last ones.
LEMMA PlacesAfter ==
  ASSUME NEW c \in Nat \ {0}, NEW h \in 0..c - 1, NEW k \in 0..c, NEW i \in 0..c - 1
  PROVE  /\ (h + k) % c \in 0..c - 1
         /\ k + i < c => (((h + k) % c) + i) % c = (h + (k + i)) % c
         /\ k + i >= c => (((h + k) % c) + i) % c = (h + ((k + i) - c)) % c
<1> DEFINE g == (h + k) % c
<1>1. i \in 0..c
  BY SMTT(60)
<1>2. /\ h + k < c => g = h + k
      /\ h + k >= c => g = (h + k) - c
      /\ g \in 0..c - 1
  BY Turn
<1> HIDE DEF g
<1>4. /\ g + i < c => (g + i) % c = g + i
      /\ g + i >= c => (g + i) % c = (g + i) - c
  BY <1>1, <1>2, Turn
<1>5. ASSUME k + i < c
      PROVE  (g + i) % c = (h + (k + i)) % c
  <2>1. k + i \in 0..c
    BY <1>5, SMTT(60)
  <2>2. /\ h + (k + i) < c => (h + (k + i)) % c = h + (k + i)
        /\ h + (k + i) >= c => (h + (k + i)) % c = (h + (k + i)) - c
    BY <2>1, Turn
  <2>3. QED
    BY <1>2, <1>4, <1>5, <2>2, SMTT(60)
<1>6. ASSUME k + i >= c
      PROVE  (g + i) % c = (h + ((k + i) - c)) % c
  <2> DEFINE m == (k + i) - c
  <2>1. m \in 0..c
    BY <1>6, SMTT(60)
  <2>2. /\ h + m < c => (h + m) % c = h + m
        /\ h + m >= c => (h + m) % c = (h + m) - c
    <3> HIDE DEF m
    <3>1. QED
      BY <2>1, Turn
  <2>3. QED
    BY <1>2, <1>4, <1>6, <2>2, SMTT(60)
<1>7. QED
  BY <1>2, <1>5, <1>6 DEF g
\* A ring that is in order, slot by slot and place by place.
LEMMA OrderFacts ==
  ASSUME NEW b, RingOK(b)
  PROVE  /\ b.capacity \in Nat \ {0} /\ b.head \in 0..b.capacity - 1 /\ b.next \in Nat
         /\ b.slots \in [0..b.capacity - 1 -> Int]
         /\ \A i \in 0..b.capacity - 1 : /\ SlotAt(b, i) \in 0..b.capacity - 1
                                         /\ b.slots[SlotAt(b, i)] \in {NoItem, b.next + i}
         /\ \A i, j \in 0..b.capacity - 1 : SlotAt(b, i) = SlotAt(b, j) => i = j
         /\ \A j \in 0..b.capacity - 1 : \E i \in 0..b.capacity - 1 : j = SlotAt(b, i)
         /\ IsFiniteSet(Filled(b))
<1>1. /\ b.capacity \in Nat \ {0} /\ b.head \in 0..b.capacity - 1 /\ b.next \in Nat
      /\ b.slots \in [0..b.capacity - 1 -> Int]
      /\ \A i \in 0..b.capacity - 1 : b.slots[SlotAt(b, i)] \in {NoItem, b.next + i}
  BY DEF RingOK
<1>2. ASSUME NEW i \in 0..b.capacity - 1
      PROVE  SlotAt(b, i) \in 0..b.capacity - 1
  <2>1. i \in 0..b.capacity
    BY <1>1, SMTT(60)
  <2>2. QED
    BY <1>1, <2>1, Turn DEF SlotAt
<1>3. ASSUME NEW i \in 0..b.capacity - 1, NEW j \in 0..b.capacity - 1,
             SlotAt(b, i) = SlotAt(b, j)
      PROVE  i = j
  BY <1>1, <1>3, SlotsDistinct DEF SlotAt
<1>4. ASSUME NEW j \in 0..b.capacity - 1
      PROVE  \E i \in 0..b.capacity - 1 : j = SlotAt(b, i)
  BY <1>1, SlotsCovered, ZenonT(60) DEF SlotAt
<1>5. IsFiniteSet(Filled(b))
  <2>1. IsFiniteSet(0..b.capacity - 1)
    <3>1. b.capacity \in Nat
      BY <1>1
    <3>2. 0 \in Int /\ b.capacity - 1 \in Int
      BY <3>1, SMTT(60)
    <3>3. QED
      BY <3>2, FS_Interval
  <2>2. Filled(b) \in SUBSET (0..b.capacity - 1)
    BY DEF Filled
  <2>3. QED
    BY <2>1, <2>2, FS_Subset
<1>6. QED
  BY <1>1, <1>2, <1>3, <1>4, <1>5

\* insert: the chunk joins what the ring keeps, once, and is counted once.
LEMMA InsertKeeps ==
  ASSUME NEW b, RingInv(b), NEW q \in Nat, Accepts(b, q)
  PROVE  /\ RingInv(Insert(b, q)) /\ Insert(b, q).next = b.next
         /\ Kept(Insert(b, q)) = Kept(b) \cup {q}
<1> DEFINE c == b.capacity
           o == q - b.next
           k == SlotAt(b, o)
           p == Insert(b, q)
<1>a. RingOK(b) /\ ~b.bypass /\ b.count = Cardinality(Filled(b))
  BY DEF RingInv
<1>1. /\ c \in Nat \ {0} /\ b.head \in 0..c - 1 /\ b.next \in Nat
      /\ b.slots \in [0..c - 1 -> Int]
      /\ \A i \in 0..c - 1 : SlotAt(b, i) \in 0..c - 1 /\ b.slots[SlotAt(b, i)] \in {NoItem, b.next + i}
      /\ \A i, j \in 0..c - 1 : SlotAt(b, i) = SlotAt(b, j) => i = j
      /\ \A j \in 0..c - 1 : \E i \in 0..c - 1 : j = SlotAt(b, i)
      /\ IsFiniteSet(Filled(b))
  BY <1>a, OrderFacts
<1>2. ~(q < b.next \/ q - b.next >= b.capacity)
  BY <1>a DEF Accepts, SlotIndex
<1>3. o \in 0..c - 1 /\ q = b.next + o /\ q # NoItem
  <2>1. c \in Nat \ {0} /\ b.next \in Nat
    BY <1>1
  <2>2. QED
    BY <1>2, <2>1, SMTT(60) DEF NoItem
<1>4. k \in 0..c - 1 /\ b.slots[k] \in {NoItem, q}
  BY <1>1, <1>3
<1>5. p = Place(b, k, q)
  BY <1>a, <1>2 DEF Insert, SlotIndex
<1> HIDE DEF k, o
<1>6. /\ DOMAIN p = Fields /\ p.head = b.head /\ p.next = b.next
      /\ p.capacity = c /\ p.bypass = b.bypass
      /\ p.slots = [b.slots EXCEPT ![k] = q]
      /\ p.count = IF b.slots[k] = NoItem THEN b.count + 1 ELSE b.count
  BY <1>a, <1>5 DEF RingOK, Place, Fields
<1> HIDE DEF p
<1>7. p.slots \in [0..c - 1 -> Int]
  BY <1>1, <1>4, <1>6, SMTT(60)
<1>8. p.slots[k] = q /\ \A j \in 0..c - 1 : j # k => p.slots[j] = b.slots[j]
  BY <1>1, <1>4, <1>6
<1>9. RingOK(p)
  <2>1. ASSUME NEW i \in 0..c - 1
        PROVE  p.slots[SlotAt(p, i)] \in {NoItem, p.next + i}
    <3>1. SlotAt(p, i) = SlotAt(b, i)
      BY <1>6 DEF SlotAt
    <3>2. SlotAt(b, i) \in 0..c - 1 /\ b.slots[SlotAt(b, i)] \in {NoItem, b.next + i}
      BY <1>1
    <3>3. CASE SlotAt(b, i) = k
      <4>1. i = o
        BY <1>1, <1>3, <3>3 DEF k
      <4>2. QED
        BY <1>3, <1>6, <1>8, <3>1, <3>3, <4>1
    <3>4. CASE SlotAt(b, i) # k
      BY <1>6, <1>8, <3>1, <3>2, <3>4
    <3>5. QED
      BY <3>3, <3>4
  <2>2. QED
    BY <1>1, <1>6, <1>7, <2>1 DEF RingOK
<1>10. Filled(p) = Filled(b) \cup {k}
  BY <1>3, <1>4, <1>6, <1>8 DEF Filled
<1>11. p.count = Cardinality(Filled(p))
  <2>1. k \in Filled(b) <=> b.slots[k] # NoItem
    BY <1>4 DEF Filled
  <2>2. Cardinality(Filled(p)) = IF k \in Filled(b) THEN Cardinality(Filled(b))
                                 ELSE Cardinality(Filled(b)) + 1
    BY <1>1, <1>10, FS_AddElement
  <2>3. QED
    BY <1>a, <1>6, <2>1, <2>2
<1>12. Held(p) = Held(b) \cup {q}
  <2>1. ASSUME NEW x \in Held(p)
        PROVE  x \in Held(b) \cup {q}
    BY <1>a, <1>6, <1>8 DEF Held
  <2>2. ASSUME NEW x \in Held(b)
        PROVE  x \in Held(p)
    <3>1. PICK j \in 0..c - 1 : x = b.slots[j] /\ x # NoItem
      BY <1>a DEF Held
    <3>2. x = p.slots[j]
      BY <1>4, <1>8, <3>1
    <3>3. QED
      BY <1>a, <1>6, <3>1, <3>2 DEF Held
  <2>3. q \in Held(p)
    BY <1>a, <1>3, <1>4, <1>6, <1>8 DEF Held
  <2>4. QED
    BY <2>1, <2>2, <2>3
<1>13. Kept(p) = Kept(b) \cup {q}
  BY <1>6, <1>12 DEF Kept
<1>14. QED
  BY <1>a, <1>6, <1>9, <1>11, <1>13 DEF RingInv, p

\* drain_ready stops at the first empty slot: there is a number of results that does.
LEMMA RunIsReady ==
  ASSUME NEW b, RingOK(b)
  PROVE  /\ ReadyRun(b) \in 0..b.capacity
         /\ \A i \in 0..ReadyRun(b) - 1 : b.slots[SlotAt(b, i)] # NoItem
<1> DEFINE c == b.capacity
           T == {k \in 0..c : k < c => b.slots[SlotAt(b, k)] = NoItem}
<1>1. c \in Nat
  BY OrderFacts
<1>2. T \subseteq Nat /\ c \in T
  BY <1>1, SMTT(60)
<1> HIDE DEF T
<1>3. PICK k \in T : \A y \in T : k <= y
  BY <1>2, Least
<1>4. k \in 0..c /\ (k < c => b.slots[SlotAt(b, k)] = NoItem)
  BY <1>3 DEF T
<1>5. ASSUME NEW i \in 0..k - 1
      PROVE  b.slots[SlotAt(b, i)] # NoItem
  <2>1. i \in 0..c /\ ~(k <= i)
    BY <1>1, <1>4, SMTT(60)
  <2>2. i \notin T
    BY <1>3, <2>1
  <2>3. QED
    BY <2>1, <2>2 DEF T
<1>6. \E m \in 0..c : /\ \A i \in 0..m - 1 : b.slots[SlotAt(b, i)] # NoItem
                      /\ m < c => b.slots[SlotAt(b, m)] = NoItem
  BY <1>4, <1>5
<1>7. QED
  BY <1>6 DEF ReadyRun
\* k places of the window are k slots.
LEMMA FreedAreMany ==
  ASSUME NEW b, RingOK(b), NEW k \in 0..b.capacity
  PROVE  LET freed == {SlotAt(b, i) : i \in 0..k - 1}
         IN  IsFiniteSet(freed) /\ Cardinality(freed) = k
<1> DEFINE freed == {SlotAt(b, i) : i \in 0..k - 1}
           f == [i \in 0..k - 1 |-> SlotAt(b, i)]
<1>1. b.capacity \in Nat \ {0} /\ \A i, j \in 0..b.capacity - 1 : SlotAt(b, i) = SlotAt(b, j) => i = j
  BY OrderFacts
<1>2. 0..k - 1 \subseteq 0..b.capacity - 1
  <2>1. b.capacity \in Nat
    BY <1>1
  <2>2. QED
    BY <2>1, SMTT(60)
<1>3. f \in [0..k - 1 -> freed] /\ \A t \in freed : \E i \in 0..k - 1 : f[i] = t
  OBVIOUS
<1>4. \A i, j \in 0..k - 1 : f[i] = f[j] => i = j
  BY <1>1, <1>2
<1> HIDE DEF f, freed
<1>5. f \in Bijection(0..k - 1, freed)
  BY <1>3, <1>4, Fun_IsBij
<1>6. ExistsBijection(0..k - 1, freed)
  BY <1>5 DEF ExistsBijection
<1>7. IsFiniteSet(0..k - 1) /\ Cardinality(0..k - 1) = k
  <2>1. k \in Nat /\ 0 \in Int /\ k - 1 \in Int
    BY <1>1, SMTT(60)
  <2>2. IsFiniteSet(0..k - 1) /\ Cardinality(0..k - 1) = IF 0 > k - 1 THEN 0 ELSE (k - 1) - 0 + 1
    BY <2>1, FS_Interval
  <2>3. QED
    BY <2>1, <2>2, SMTT(60)
<1>8. IsFiniteSet(freed) /\ Cardinality(freed) = k
  BY <1>6, <1>7, FS_Bijection
<1>9. QED
  BY <1>8 DEF freed

\* What drain_ready takes out is the next k chunks.
LEMMA ReadyAreNext ==
  ASSUME NEW b, RingOK(b), NEW k \in 0..b.capacity,
         \A i \in 0..k - 1 : b.slots[SlotAt(b, i)] # NoItem
  PROVE  /\ ReadyItems(b, k) = [i \in 1..k |-> b.next + (i - 1)]
         /\ \A i \in 0..k - 1 : b.slots[SlotAt(b, i)] = b.next + i
<1>1. /\ b.capacity \in Nat \ {0} /\ b.next \in Nat
      /\ \A i \in 0..b.capacity - 1 : b.slots[SlotAt(b, i)] \in {NoItem, b.next + i}
  BY OrderFacts
<1>2. 0..k - 1 \subseteq 0..b.capacity - 1 /\ \A i \in 1..k : i - 1 \in 0..k - 1
  <2>1. b.capacity \in Nat
    BY <1>1
  <2>2. QED
    BY <2>1, SMTT(60)
<1>3. \A i \in 0..k - 1 : b.slots[SlotAt(b, i)] = b.next + i
  BY <1>1, <1>2
<1>4. \A i \in 1..k : b.slots[SlotAt(b, i - 1)] = b.next + (i - 1)
  BY <1>2, <1>3
<1>5. QED
  BY <1>3, <1>4 DEF ReadyItems

\* drain_ready hands out what it takes: the ring stays in order and keeps the rest.
LEMMA DrainKeeps ==
  ASSUME NEW b, RingInv(b), NEW k \in 0..b.capacity,
         \A i \in 0..k - 1 : b.slots[SlotAt(b, i)] # NoItem
  PROVE  /\ RingInv(Drained(b, k)) /\ Drained(b, k).next = b.next + k
         /\ Kept(Drained(b, k)) = Kept(b)
<1> DEFINE c == b.capacity
           freed == {SlotAt(b, i) : i \in 0..k - 1}
           p == Drained(b, k)
<1>a. RingOK(b) /\ ~b.bypass /\ b.count = Cardinality(Filled(b))
  BY DEF RingInv
<1>1. /\ c \in Nat \ {0} /\ b.head \in 0..c - 1 /\ b.next \in Nat
      /\ b.slots \in [0..c - 1 -> Int]
      /\ \A i \in 0..c - 1 : SlotAt(b, i) \in 0..c - 1 /\ b.slots[SlotAt(b, i)] \in {NoItem, b.next + i}
      /\ \A i, j \in 0..c - 1 : SlotAt(b, i) = SlotAt(b, j) => i = j
      /\ IsFiniteSet(Filled(b))
  BY <1>a, OrderFacts
<1>c. c \in Nat \ {0} /\ b.head \in 0..c - 1 /\ b.next \in Nat
  BY <1>1
<1>2. 0..k - 1 \subseteq 0..c - 1 /\ k \in Nat /\ b.next + k \in Nat /\ NoItem \in Int
  BY <1>c, SMTT(60) DEF NoItem
<1>3. \A i \in 0..k - 1 : b.slots[SlotAt(b, i)] = b.next + i
  BY <1>a, ReadyAreNext
<1>4. freed \subseteq Filled(b)
  <2>1. ASSUME NEW i \in 0..k - 1
        PROVE  SlotAt(b, i) \in Filled(b)
    <3>1. SlotAt(b, i) \in 0..c - 1
      BY <1>1, <1>2
    <3>2. QED
      BY <3>1 DEF Filled
  <2>2. QED
    BY <2>1
<1>5. Cardinality(freed) = k
  BY <1>a, FreedAreMany, ZenonT(60)
<1>6. /\ DOMAIN p = Fields /\ p.head = (b.head + k) % c /\ p.next = b.next + k
      /\ p.capacity = c /\ p.bypass = b.bypass /\ p.count = b.count - k
      /\ p.slots = [j \in DOMAIN b.slots |-> IF j \in freed THEN NoItem ELSE b.slots[j]]
  BY <1>a DEF RingOK, Drained, Fields
<1> HIDE DEF p, freed
<1>7. /\ p.slots \in [0..c - 1 -> Int]
      /\ \A j \in 0..c - 1 : p.slots[j] = IF j \in freed THEN NoItem ELSE b.slots[j]
  <2>1. b.slots \in [0..c - 1 -> Int] /\ DOMAIN b.slots = 0..c - 1
    BY <1>1
  <2>2. p.slots = [j \in 0..c - 1 |-> IF j \in freed THEN NoItem ELSE b.slots[j]]
    BY <1>6, <2>1
  <2>3. \A j \in 0..c - 1 : (IF j \in freed THEN NoItem ELSE b.slots[j]) \in Int
    BY <1>2, <2>1
  <2>4. QED
    BY <2>2, <2>3
<1>8. p.head \in 0..c - 1
  <2>1. (b.head + k) % c \in 0..c - 1
    BY <1>c, Turn
  <2>2. QED
    BY <1>6, <2>1
<1>9. ASSUME NEW i \in 0..c - 1
      PROVE  p.slots[SlotAt(p, i)] \in {NoItem, p.next + i}
  <2>1. /\ k + i < c => SlotAt(p, i) = SlotAt(b, k + i)
        /\ k + i >= c => SlotAt(p, i) = SlotAt(b, (k + i) - c)
    <3>1. /\ k + i < c => (((b.head + k) % c) + i) % c = (b.head + (k + i)) % c
          /\ k + i >= c => (((b.head + k) % c) + i) % c = (b.head + ((k + i) - c)) % c
      BY <1>c, PlacesAfter, ZenonT(60)
    <3>2. QED
      BY <1>6, <3>1 DEF SlotAt
  <2>2. CASE k + i < c
    <3>1. k + i \in 0..c - 1 /\ b.next + (k + i) = (b.next + k) + i
             /\ \A m \in 0..k - 1 : m # k + i
      BY <1>c, <1>2, <2>2, SMTT(60)
    <3>2. SlotAt(b, k + i) \in 0..c - 1 /\ b.slots[SlotAt(b, k + i)] \in {NoItem, b.next + (k + i)}
      BY <1>1, <3>1
    <3>3. SlotAt(b, k + i) \notin freed
      BY <1>1, <1>2, <3>1, ZenonT(60) DEF freed
    <3>4. QED
      BY <1>6, <1>7, <2>1, <2>2, <3>1, <3>2, <3>3
  <2>3. CASE k + i >= c
    <3>1. (k + i) - c \in 0..k - 1
      BY <1>c, <1>2, <2>3, SMTT(60)
    <3>2. SlotAt(p, i) \in freed /\ SlotAt(p, i) \in 0..c - 1
      BY <1>1, <1>2, <2>1, <2>3, <3>1, ZenonT(60) DEF freed
    <3>3. QED
      BY <1>7, <3>2
  <2>4. QED
    BY <1>c, <1>2, <2>2, <2>3, SMTT(60)
<1>10. RingOK(p)
  BY <1>1, <1>2, <1>6, <1>7, <1>8, <1>9 DEF RingOK
<1>11. p.count = Cardinality(Filled(p))
  <2>1. Filled(p) = Filled(b) \ freed
    BY <1>6, <1>7 DEF Filled
  <2>2. Filled(b) \cap freed = freed
    BY <1>4
  <2>3. Cardinality(Filled(b) \ freed) = Cardinality(Filled(b)) - Cardinality(Filled(b) \cap freed)
    BY <1>1, FS_Difference
  <2>4. QED
    BY <1>a, <1>5, <1>6, <2>1, <2>2, <2>3
<1>12. Kept(p) = Kept(b)
  <2>1. ASSUME NEW x \in Held(p)
        PROVE  x \in Held(b)
    BY <1>a, <1>6, <1>7, ZenonT(60) DEF Held
  <2>2. ASSUME NEW x \in Held(b)
        PROVE  x \in Held(p) \cup (0..(b.next + k) - 1)
    <3>1. PICK j \in 0..c - 1 : x = b.slots[j] /\ x # NoItem
      BY <1>a DEF Held
    <3>2. CASE j \in freed
      <4>1. PICK i \in 0..k - 1 : j = SlotAt(b, i)
        BY <3>2 DEF freed
      <4>2. x = b.next + i
        BY <1>3, <3>1, <4>1
      <4>3. QED
        BY <1>c, <1>2, <4>2, SMTT(60)
    <3>3. CASE j \notin freed
      BY <1>a, <1>6, <1>7, <3>1, <3>3 DEF Held
    <3>4. QED
      BY <3>2, <3>3
  <2>3. ASSUME NEW x \in 0..(b.next + k) - 1
        PROVE  x \in (0..b.next - 1) \cup Held(b)
    <3>1. x \in 0..b.next - 1 \/ (x - b.next \in 0..k - 1 /\ x = b.next + (x - b.next) /\ x # NoItem)
      BY <1>c, <1>2, SMTT(60) DEF NoItem
    <3>2. CASE x \in 0..b.next - 1
      BY <3>2
    <3>3. CASE x - b.next \in 0..k - 1 /\ x = b.next + (x - b.next) /\ x # NoItem
      <4>1. SlotAt(b, x - b.next) \in 0..c - 1 /\ b.slots[SlotAt(b, x - b.next)] = x
        BY <1>1, <1>2, <1>3, <3>3
      <4>2. QED
        BY <1>a, <3>3, <4>1 DEF Held
    <3>4. QED
      BY <3>1, <3>2, <3>3
  <2>4. 0..b.next - 1 \subseteq 0..(b.next + k) - 1
    BY <1>c, <1>2, SMTT(60)
  <2>5. QED
    BY <1>6, <2>1, <2>2, <2>3, <2>4 DEF Kept
<1>13. QED
  BY <1>a, <1>6, <1>10, <1>11, <1>12 DEF RingInv, p
\* The chunks of a file in the order of their numbers.
InOrder(out, n) ==
    /\ out \in Seq(Nat)
    /\ \A k \in 1..Len(out) : out[k] < n /\ (k > 1 => out[k - 1] < out[k])

\* A slot whose writes all succeeded: the file is every chunk the ring has handed out,
\* and what was acknowledged is what the ring keeps.
Sound(s) ==
    /\ Len(s.out) = s.ring.next /\ \A k \in 1..Len(s.out) : s.out[k] = k - 1
    /\ s.acked = Kept(s.ring)

SlotInv(s) ==
    /\ RingInv(s.ring)
    /\ InOrder(s.out, s.ring.next)
    /\ s.hurt \/ Sound(s)
    /\ s.fate = "returned" => s.ring.count = 0

\* A prefix of the ready chunks is written.
LEMMA WrittenIsPrefix ==
  ASSUME NEW ready \in Seq(Nat)
  PROVE  /\ Written(ready) \in Seq(Nat) /\ Len(Written(ready)) <= Len(ready)
         /\ \A m \in 1..Len(Written(ready)) : Written(ready)[m] = ready[m]
<1> DEFINE bad == {k \in 1..Len(ready) : work.fault.kind # "none" /\ ready[k] = work.fault.seq}
<1>1. CASE bad = {}
  <2>1. Written(ready) = ready
    BY <1>1 DEF Written
  <2>2. QED
    BY <2>1, SMTT(60)
<1>2. CASE bad # {}
  <2> DEFINE k == CHOOSE k \in bad : TRUE
  <2>1. Written(ready) = SubSeq(ready, 1, k - 1)
    BY <1>2 DEF Written
  <2>2. k \in bad
    BY <1>2
  <2>3. k \in 1..Len(ready)
    BY <2>2
  <2> HIDE DEF k
  <2>4. QED
    BY <2>1, <2>3, SMTT(60)
<1>3. QED
  BY <1>1, <1>2

\* Writing the next chunks keeps the file in order.
LEMMA AppendInOrder ==
  ASSUME NEW n \in Nat, NEW k \in Nat, NEW out, InOrder(out, n), NEW w \in Seq(Nat), Len(w) <= k,
         \A m \in 1..Len(w) : w[m] = n + (m - 1)
  PROVE  InOrder(out \o w, n + k)
<1> DEFINE o == out \o w
<1>1. out \in Seq(Nat)
  BY DEF InOrder
<1>2. o \in Seq(Nat) /\ Len(o) = Len(out) + Len(w)
  BY <1>1, SMTT(60)
<1>3. /\ \A m \in 1..Len(out) : o[m] = out[m]
      /\ \A m \in Len(out) + 1..Len(o) : o[m] = w[m - Len(out)] /\ m - Len(out) \in 1..Len(w)
  BY <1>1, SMTT(60)
<1> HIDE DEF o
<1>4. ASSUME NEW m \in 1..Len(o)
      PROVE  o[m] < n + k /\ (m > 1 => o[m - 1] < o[m])
  <2>1. CASE m \in 1..Len(out)
    <3>1. out[m] < n /\ (m > 1 => out[m - 1] < out[m]) /\ o[m] = out[m] /\ out[m] \in Nat
      BY <1>1, <1>3, <2>1, SMTT(60) DEF InOrder
    <3>2. m > 1 => m - 1 \in 1..Len(out)
      BY <1>1, <2>1, SMTT(60)
    <3>3. m > 1 => o[m - 1] = out[m - 1]
      BY <1>3, <3>2
    <3>4. o[m] < n + k
      BY <3>1, SMTT(60)
    <3>5. QED
      BY <3>1, <3>3, <3>4
  <2>2. CASE m \notin 1..Len(out)
    <3>1. m \in Len(out) + 1..Len(o) /\ Len(out) \in Nat
      BY <1>1, <1>2, <2>2, SMTT(60)
    <3>2. o[m] = n + ((m - Len(out)) - 1) /\ m - Len(out) \in 1..Len(w)
      BY <1>3, <3>1
    <3>3. o[m] < n + k /\ o[m] >= n
      BY <3>1, <3>2, SMTT(60)
    <3>4. ASSUME m - 1 \in 1..Len(out), m > 1
          PROVE  o[m - 1] < o[m]
      <4>1. o[m - 1] = out[m - 1] /\ out[m - 1] < n /\ out[m - 1] \in Nat
        BY <1>1, <1>3, <3>4, SMTT(60) DEF InOrder
      <4>2. QED
        BY <3>1, <3>2, <3>3, <4>1, SMTT(60)
    <3>5. ASSUME m - 1 \notin 1..Len(out), m > 1
          PROVE  o[m - 1] < o[m]
      <4>1. m - 1 \in Len(out) + 1..Len(o)
        BY <1>2, <3>1, <3>5, SMTT(60)
      <4>2. o[m - 1] = n + (((m - 1) - Len(out)) - 1)
        BY <1>3, <4>1
      <4>3. QED
        BY <3>1, <3>2, <4>2, SMTT(60)
    <3>6. QED
      BY <3>3, <3>4, <3>5
  <2>3. QED
    BY <2>1, <2>2
<1>5. QED
  BY <1>2, <1>4 DEF InOrder, o

\* Chunks 0 to n-1 and then the next k are chunks 0 to n+k-1.
LEMMA AppendNext ==
  ASSUME NEW n \in Nat, NEW k \in Nat, NEW out \in Seq(Nat), NEW w \in Seq(Nat),
         Len(out) = n, \A m \in 1..Len(out) : out[m] = m - 1,
         Len(w) = k, \A m \in 1..k : w[m] = n + (m - 1)
  PROVE  Len(out \o w) = n + k /\ \A m \in 1..Len(out \o w) : (out \o w)[m] = m - 1
<1> DEFINE o == out \o w
<1>1. Len(o) = n + k
  BY SMTT(60)
<1>2. /\ \A m \in 1..n : o[m] = out[m]
      /\ \A m \in n + 1..n + k : o[m] = w[m - n] /\ m - n \in 1..k
  BY SMTT(60)
<1> HIDE DEF o
<1>3. ASSUME NEW m \in 1..n + k
      PROVE  o[m] = m - 1
  <2>1. CASE m \in 1..n
    BY <1>2, <2>1
  <2>2. CASE m \in n + 1..n + k
    <3>1. o[m] = n + ((m - n) - 1)
      BY <1>2, <2>2
    <3>2. QED
      BY <2>2, <3>1, SMTT(60)
  <2>3. m \in 1..n \/ m \in n + 1..n + k
    BY SMTT(60)
  <2>4. QED
    BY <2>1, <2>2, <2>3
<1>4. QED
  BY <1>1, <1>3 DEF o

\* FileSlot::ingest of an accepted chunk.
LEMMA IngestKeepsSlot ==
  ASSUME NEW s, DOMAIN s = SlotFields, SlotInv(s), s.fate # "returned",
         NEW q \in Nat, Accepts(s.ring, q)
  PROVE  LET b == Insert(s.ring, q)
         IN  SlotInv(Ingested(s, q, b, ReadyItems(b, ReadyRun(b))))
<1> DEFINE b == Insert(s.ring, q)
           k == ReadyRun(b)
           ready == ReadyItems(b, k)
           w == Written(ready)
           n == s.ring.next
           z == Ingested(s, q, b, ready)
<1>1. RingInv(b) /\ b.next = n /\ Kept(b) = Kept(s.ring) \cup {q}
  BY InsertKeeps DEF SlotInv
<1> HIDE DEF b
<1>2. RingOK(b)
  BY <1>1 DEF RingInv
<1>3. k \in 0..b.capacity /\ \A i \in 0..k - 1 : b.slots[SlotAt(b, i)] # NoItem
  BY <1>2, RunIsReady
<1>4. k \in Nat /\ n \in Nat
  <2>1. b.capacity \in Nat /\ b.next \in Nat
    BY <1>2, OrderFacts
  <2>2. QED
    BY <1>1, <1>3, <2>1, SMTT(60)
<1> HIDE DEF k
<1>5. RingInv(Drained(b, k)) /\ Drained(b, k).next = n + k /\ Kept(Drained(b, k)) = Kept(b)
  BY <1>1, <1>3, DrainKeeps
<1>6. ready = [i \in 1..k |-> n + (i - 1)]
  <2>1. ReadyItems(b, k) = [i \in 1..k |-> b.next + (i - 1)]
    BY <1>2, <1>3, ReadyAreNext
  <2>2. QED
    BY <1>1, <2>1
<1> HIDE DEF ready
<1>7. ready \in Seq(Nat) /\ Len(ready) = k /\ \A m \in 1..k : ready[m] = n + (m - 1)
  BY <1>4, <1>6, SMTT(60)
<1>8. w \in Seq(Nat) /\ Len(w) <= k /\ \A m \in 1..Len(w) : w[m] = ready[m]
  BY <1>7, WrittenIsPrefix
<1>9. \A m \in 1..Len(w) : w[m] = n + (m - 1)
  BY <1>4, <1>7, <1>8, SMTT(60)
<1>10. /\ z.ring = Drained(b, k) /\ z.out = s.out \o w /\ z.fate = s.fate
       /\ z.hurt = (s.hurt \/ w # ready)
       /\ z.acked = IF w # ready THEN s.acked ELSE s.acked \cup {q}
  BY <1>7 DEF Ingested, SlotFields
<1> HIDE DEF z, w
<1>11. InOrder(z.out, n + k)
  <2>1. InOrder(s.out, n)
    BY DEF SlotInv
  <2> HIDE DEF n
  <2>2. InOrder(s.out \o w, n + k)
    BY <1>4, <1>8, <1>9, <2>1, AppendInOrder
  <2>3. QED
    BY <1>10, <2>2
<1>12. ASSUME ~z.hurt
       PROVE  Sound(z)
  <2>1. Sound(s) /\ w = ready
    BY <1>10, <1>12 DEF SlotInv
  <2>2. z.acked = Kept(z.ring)
    BY <1>1, <1>5, <1>10, <2>1 DEF Sound
  <2>3. s.out \in Seq(Nat) /\ Len(s.out) = n /\ \A m \in 1..Len(s.out) : s.out[m] = m - 1
    BY <2>1 DEF Sound, SlotInv, InOrder
  <2>4. z.out = s.out \o ready
    BY <1>10, <2>1
  <2>5. Len(z.out) = n + k /\ \A m \in 1..Len(z.out) : z.out[m] = m - 1
    <3> HIDE DEF n
    <3>1. /\ Len(s.out \o ready) = n + k
          /\ \A m \in 1..Len(s.out \o ready) : (s.out \o ready)[m] = m - 1
      <4>1. s.out \in Seq(Nat) /\ ready \in Seq(Nat)
        BY <1>7, <2>3
      <4>2. Len(s.out) = n /\ Len(ready) = k
        BY <1>7, <2>3
      <4>3. QED
        BY <1>4, <1>7, <2>3, <4>1, <4>2, AppendNext, ZenonT(60)
    <3>2. QED
      BY <2>4, <3>1
  <2>7. QED
    BY <1>5, <1>10, <2>2, <2>5 DEF Sound
<1>13. SlotInv(z)
  BY <1>5, <1>10, <1>11, <1>12 DEF SlotInv
<1>14. QED
  BY <1>13 DEF z, w, ready, k, b

-----------------------------------------------------------------------------
(* The chunk a worker carries                                                *)

\* A worker on its way to a slot, in it or out of it has a chunk, unless it only reads.
InCall == {"lookup", "count", "ingest", "release", "uncount"}
HasChunk(r) == r.pc \in InCall /\ Head(r.todo).op # "bytes" => Head(r.todo).chunks # << >>
ChunksAtHand == \A t \in Threads : HasChunk(thread[t])

LEMMA BeginHasChunk ==
  ASSUME NEW todo \in Seq(ApplyCalls)
  PROVE  HasChunk(Begin(todo))
<1> DEFINE r == Begin(todo)
<1>1. r.todo = todo /\ r.pc = Entry(todo)
  BY DEF Begin
<1>2. CASE todo = << >>
  <2>1. r.pc = "done"
    BY <1>1, <1>2 DEF Entry
  <2>2. QED
    BY <2>1 DEF HasChunk, InCall
<1>3. CASE todo # << >>
  <2>1. Head(todo) \in ApplyCalls
    BY <1>3, SMTT(60)
  <2>2. /\ Head(todo).op \in {"register", "apply", "bytes", "batch", "flush", "finish", "drain"}
        /\ Head(todo).op = "apply" => Len(Head(todo).chunks) = 1
    BY <2>1 DEF ApplyCalls, Requests
  <2>3. Entry(todo) \in InCall => Head(todo).op \in {"apply", "bytes"}
    BY <1>3, <2>2 DEF Entry, InCall
  <2>4. Len(<< >>) # 1
    BY SMTT(60)
  <2>5. QED
    BY <1>1, <2>2, <2>3, <2>4 DEF HasChunk
<1>4. QED
  BY <1>2, <1>3

LEMMA ChunksStart == ApplierInit => ChunksAtHand
<1> SUFFICES ASSUME ApplierInit, NEW t \in Threads PROVE HasChunk(thread[t])
  BY DEF ChunksAtHand
<1>1. work.script \in [Threads -> Seq(ApplyCalls)]
  BY WorkAssumption DEF ApplierInit
<1>2. thread[t] = Begin(work.script[t]) /\ work.script[t] \in Seq(ApplyCalls)
  BY <1>1 DEF ApplierInit
<1>3. QED
  BY <1>2, BeginHasChunk

\* Every step leaves the workers their chunks.
LEMMA ChunksStep ==
  ASSUME OwnerInv, ChunksAtHand, [ApplierNext]_applierVars
  PROVE  ChunksAtHand'
<1>0. DOMAIN thread = Threads /\ \A t \in Threads : DOMAIN thread[t] = ThreadFields
  BY DEF OwnerInv, Shapes, ThreadOK
<1>1. ASSUME NEW t \in Threads, thread[t].pc # "done"
      PROVE  HasChunk(Returned(t))
  <2>1. thread[t].todo \in Seq(ApplyCalls) /\ thread[t].todo # << >>
    BY <1>1 DEF OwnerInv, Shapes, ThreadOK
  <2>2. Tail(thread[t].todo) \in Seq(ApplyCalls)
    BY <2>1, SMTT(60)
  <2>3. QED
    BY <2>2, BeginHasChunk DEF Returned
<1>2. ASSUME NEW t \in Threads, NEW r, HasChunk(r), thread' = [thread EXCEPT ![t] = r]
      PROVE  ChunksAtHand'
  BY <1>0, <1>2 DEF ChunksAtHand
<1>3. ASSUME NEW t \in Threads, thread[t].pc # "done",
             thread' = [thread EXCEPT ![t] = Returned(t)]
      PROVE  ChunksAtHand'
  BY <1>1, <1>2, <1>3
<1>4. ASSUME NEW t \in Threads, NEW r, r.todo = thread[t].todo,
             r.pc \in InCall => thread[t].pc \in InCall,
             thread' = [thread EXCEPT ![t] = r]
      PROVE  ChunksAtHand'
  <2>1. HasChunk(r)
    BY <1>4 DEF ChunksAtHand, HasChunk
  <2>2. QED
    BY <1>2, <1>4, <2>1
<1>5. ASSUME NEW t \in Threads, RegisterFile(t)
      PROVE  ChunksAtHand'
  BY <1>3, <1>5 DEF RegisterFile, At
<1>6. ASSUME NEW t \in Threads, VerifyBatch(t)
      PROVE  ChunksAtHand'
  <2>1. CASE thread' = [thread EXCEPT ![t] = Returned(t)]
    BY <1>3, <1>6, <2>1 DEF VerifyBatch, At
  <2>2. CASE Call(t).chunks # << >> /\ thread' = [thread EXCEPT ![t].pc = "lookup"]
    <3> DEFINE r == [thread[t] EXCEPT !.pc = "lookup"]
    <3>1. thread' = [thread EXCEPT ![t] = r] /\ r.todo = thread[t].todo
      BY <1>0, <2>2 DEF ThreadFields
    <3>2. HasChunk(r)
      BY <2>2, <3>1 DEF HasChunk, Call
    <3>3. QED
      BY <1>2, <3>1, <3>2
  <2>3. QED
    BY <1>6, <2>1, <2>2 DEF VerifyBatch, Goto
<1>7. ASSUME NEW t \in Threads, SlotFor(t)
      PROVE  ChunksAtHand'
  <2> DEFINE i == files[Target(t)]
             r == [thread[t] EXCEPT !.slot = i, !.pc = "count"]
  <2>1. CASE i = 0
    BY <1>3, <1>7, <2>1 DEF SlotFor, At
  <2>2. CASE i # 0
    <3>1. thread' = [thread EXCEPT ![t] = r] /\ thread[t].pc = "lookup"
      BY <1>0, <1>7, <2>2 DEF SlotFor, At
    <3>2. r.todo = thread[t].todo
      BY <1>0 DEF ThreadFields
    <3>3. QED
      BY <1>4, <3>1, <3>2 DEF InCall
  <2>3. QED
    BY <2>1, <2>2
<1>8. ASSUME NEW t \in Threads, CountIn(t) \/ ReleaseData(t) \/ SpuriousWake(t)
      PROVE  ChunksAtHand'
  <2>1. PICK pc \in {"ingest", "uncount", "wait"} :
           thread' = [thread EXCEPT ![t].pc = pc] /\ (pc = "wait" \/ thread[t].pc \in InCall)
    BY <1>8 DEF CountIn, ReleaseData, SpuriousWake, Goto, At, InCall
  <2> DEFINE r == [thread[t] EXCEPT !.pc = pc]
  <2>2. thread' = [thread EXCEPT ![t] = r] /\ r.todo = thread[t].todo /\ r.pc = pc
    BY <1>0, <2>1 DEF ThreadFields
  <2> HIDE DEF r
  <2>3. QED
    BY <1>4, <2>1, <2>2 DEF InCall
<1>9. ASSUME NEW t \in Threads, Ingest(t)
      PROVE  ChunksAtHand'
  <2>1. PICK x : thread' = [thread EXCEPT ![t].pc = "release", ![t].ok = x]
    BY <1>9 DEF Ingest
  <2> DEFINE r == [thread[t] EXCEPT !.pc = "release", !.ok = x]
  <2>2. thread' = [thread EXCEPT ![t] = r] /\ r.todo = thread[t].todo
    BY <1>0, <2>1 DEF ThreadFields
  <2> HIDE DEF r
  <2>3. QED
    BY <1>4, <1>9, <2>2 DEF Ingest, At, InCall
<1>10. ASSUME NEW t \in Threads, CountOut(t)
       PROVE  ChunksAtHand'
  <2>1. thread[t].pc = "uncount"
    BY <1>10 DEF CountOut, At
  <2>2. HasChunk(AfterChunk(t))
    <3> DEFINE r == [thread[t] EXCEPT !.pc = "lookup", !.at = @ + 1, !.slot = 0]
    <3>1. CASE AfterChunk(t) = Returned(t)
      BY <1>1, <2>1, <3>1
    <3>2. CASE AfterChunk(t) = r
      <4>1. r.todo = thread[t].todo
        BY <1>0 DEF ThreadFields
      <4>2. QED
        BY <2>1, <3>2, <4>1 DEF ChunksAtHand, HasChunk, InCall
    <3>3. QED
      BY <3>1, <3>2 DEF AfterChunk
  <2>3. ASSUME NEW u \in Threads
        PROVE  HasChunk(thread'[u])
    <3> DEFINE w == [thread[u] EXCEPT !.pc = "wait"]
    <3>1. thread'[u] \in {AfterChunk(t), w, thread[u]} /\ (u = t => thread'[u] = AfterChunk(t))
      BY <1>10 DEF CountOut
    <3>2. HasChunk(w)
      <4>1. w.pc = "wait"
        BY <1>0 DEF ThreadFields
      <4>2. QED
        BY <4>1 DEF HasChunk, InCall
    <3> HIDE DEF w
    <3>3. QED
      BY <2>2, <3>1, <3>2 DEF ChunksAtHand
  <2>4. QED
    BY <2>3 DEF ChunksAtHand
<1>11. ASSUME NEW t \in Threads, NEW r, r.pc \notin InCall, thread' = [thread EXCEPT ![t] = r]
       PROVE  ChunksAtHand'
  BY <1>2, <1>11 DEF HasChunk
<1>12. ASSUME NEW t \in Threads, Flush(t)
       PROVE  ChunksAtHand'
  <2> DEFINE i == files[Call(t).file]
             a == [thread[t] EXCEPT !.slot = i, !.pc = "wait"]
             b == [thread[t] EXCEPT !.pc = "remove"]
  <2>1. \/ thread' = [thread EXCEPT ![t] = a]
        \/ thread' = [thread EXCEPT ![t] = b]
        \/ thread' = [thread EXCEPT ![t] = Returned(t)]
    BY <1>0, <1>12 DEF Flush
  <2>2. a.pc = "wait" /\ b.pc = "remove"
    BY <1>0 DEF ThreadFields
  <2> HIDE DEF a, b
  <2>3. QED
    BY <1>3, <1>11, <1>12, <2>1, <2>2 DEF InCall, Flush, At
<1>13. ASSUME NEW t \in Threads, ListKeys(t) \/ FlushNext(t)
       PROVE  ChunksAtHand'
  <2>1. \/ thread' = [thread EXCEPT ![t] = Returned(t)] /\ thread[t].pc = "pick"
        \/ \E x, y : \E pc \in {"pick", "wait"} :
              thread' = [thread EXCEPT ![t].keys = x, ![t].slot = y, ![t].pc = pc]
        \/ \E x : thread' = [thread EXCEPT ![t].keys = x, ![t].pc = "pick"]
    BY <1>13 DEF ListKeys, FlushNext, At
  <2>2. CASE \E x, y : \E pc \in {"pick", "wait"} :
                thread' = [thread EXCEPT ![t].keys = x, ![t].slot = y, ![t].pc = pc]
    <3>1. PICK x, y : \E pc \in {"pick", "wait"} :
                thread' = [thread EXCEPT ![t].keys = x, ![t].slot = y, ![t].pc = pc]
      BY <2>2
    <3>2. PICK pc \in {"pick", "wait"} :
                thread' = [thread EXCEPT ![t].keys = x, ![t].slot = y, ![t].pc = pc]
      BY <3>1
    <3> DEFINE r == [thread[t] EXCEPT !.keys = x, !.slot = y, !.pc = pc]
    <3>3. thread' = [thread EXCEPT ![t] = r] /\ r.pc = pc
      BY <1>0, <3>2 DEF ThreadFields
    <3> HIDE DEF r
    <3>4. QED
      BY <1>11, <3>3 DEF InCall
  <2>3. CASE \E x : thread' = [thread EXCEPT ![t].keys = x, ![t].pc = "pick"]
    <3>1. PICK x : thread' = [thread EXCEPT ![t].keys = x, ![t].pc = "pick"]
      BY <2>3
    <3> DEFINE r == [thread[t] EXCEPT !.keys = x, !.pc = "pick"]
    <3>2. thread' = [thread EXCEPT ![t] = r] /\ r.pc = "pick"
      BY <1>0, <3>1 DEF ThreadFields
    <3> HIDE DEF r
    <3>3. QED
      BY <1>11, <3>2 DEF InCall
  <2>4. QED
    BY <1>3, <2>1, <2>2, <2>3
<1>14. ASSUME NEW t \in Threads, WaitUntilIdle(t)
       PROVE  ChunksAtHand'
  <2>1. ASSUME NEW p \in {"remove", "pick", "asleep"},
               thread' = [thread EXCEPT ![t] = [thread[t] EXCEPT !.pc = p]]
        PROVE  ChunksAtHand'
    <3> DEFINE r == [thread[t] EXCEPT !.pc = p]
    <3>1. thread' = [thread EXCEPT ![t] = r] /\ r.pc = p
      BY <1>0, <2>1 DEF ThreadFields
    <3> HIDE DEF r
    <3>2. QED
      BY <1>11, <3>1 DEF InCall
  <2>2. CASE slot[thread[t].slot].inflight > 0
    <3>1. thread' = [thread EXCEPT ![t] = [thread[t] EXCEPT !.pc = "asleep"]]
      BY <1>0, <1>14, <2>2 DEF WaitUntilIdle
    <3>2. QED
      BY <2>1, <3>1
  <2>3. CASE ~(slot[thread[t].slot].inflight > 0)
    <3>1. CASE Call(t).op = "finish"
      <4>1. thread' = [thread EXCEPT ![t] = [thread[t] EXCEPT !.pc = "remove"]]
        BY <1>0, <1>14, <2>3, <3>1 DEF WaitUntilIdle
      <4>2. QED
        BY <2>1, <4>1
    <3>2. CASE Call(t).op = "drain"
      <4>1. thread' = [thread EXCEPT ![t] = [thread[t] EXCEPT !.pc = "pick"]]
        BY <1>0, <1>14, <2>3, <3>2 DEF WaitUntilIdle
      <4>2. QED
        BY <2>1, <4>1
    <3>3. CASE Call(t).op = "flush"
      <4>1. thread' = [thread EXCEPT ![t] = Returned(t)]
        BY <1>0, <1>14, <2>3, <3>3 DEF WaitUntilIdle
      <4>2. QED
        BY <1>3, <1>14, <4>1 DEF WaitUntilIdle, At
    <3>4. Call(t).op \in {"flush", "finish", "drain"}
      BY <1>14 DEF OwnerInv, Shapes, ThreadOK, Barrier, Call, WaitUntilIdle, At
    <3>5. QED
      BY <3>1, <3>2, <3>3, <3>4
  <2>4. QED
    BY <2>2, <2>3
<1>15. ASSUME NEW t \in Threads, RemoveFile(t)
       PROVE  ChunksAtHand'
  <2> DEFINE i == files[Call(t).file]
             r == [thread[t] EXCEPT !.slot = i, !.pc = "unwrap"]
  <2>1. \/ thread' = [thread EXCEPT ![t] = Returned(t)]
        \/ thread' = [thread EXCEPT ![t] = r]
    BY <1>0, <1>15 DEF RemoveFile
  <2>2. r.pc = "unwrap"
    BY <1>0 DEF ThreadFields
  <2> HIDE DEF r
  <2>3. QED
    BY <1>3, <1>11, <1>15, <2>1, <2>2 DEF InCall, RemoveFile, At
<1>16. ASSUME NEW t \in Threads, Unwrap(t)
       PROVE  ChunksAtHand'
  BY <1>3, <1>16 DEF Unwrap, At
<1>17. CASE UNCHANGED applierVars
  BY <1>17 DEF applierVars, ChunksAtHand, HasChunk
<1>18. QED
  BY <1>5, <1>6, <1>7, <1>8, <1>9, <1>10, <1>12, <1>13, <1>14, <1>15, <1>16, <1>17
     DEF ApplierNext, Step

-----------------------------------------------------------------------------
(* What was acknowledged is in the file                                       *)

AckInv == OwnerInv /\ ChunksAtHand /\ \A i \in Slots : SlotInv(slot[i])

\* The counts and the fate of a slot change nothing in its ring and file.
LEMMA SameSlot ==
  ASSUME NEW s, SlotInv(s), NEW r, r.ring = s.ring, r.out = s.out, r.hurt = s.hurt,
         r.acked = s.acked, r.fate = "returned" => s.ring.count = 0
  PROVE  SlotInv(r)
  BY DEF SlotInv, Sound

\* A slot starts with an empty ring and an empty file.
LEMMA NewSlotInv == SlotInv(NewSlot)
<1> DEFINE b == New(RingCap)
<1>1. RingCap \in Nat \ {0}
  BY RingAssumption
<1>2. /\ DOMAIN b = Fields /\ b.capacity = RingCap /\ b.head = 0 /\ b.next = 0 /\ b.count = 0
      /\ b.bypass = FALSE /\ b.slots = [i \in 0..RingCap - 1 |-> NoItem]
  BY DEF New, Fields
<1> HIDE DEF b
<1>3. 0 \in 0..RingCap - 1 /\ 0 \in Nat /\ NoItem \in Int /\ 0..0 - 1 = {}
  BY <1>1, SMTT(60) DEF NoItem
<1>4. ASSUME NEW i \in 0..b.capacity - 1
      PROVE  b.slots[SlotAt(b, i)] = NoItem
  <2>1. i \in 0..RingCap
    BY <1>1, <1>2, SMTT(60)
  <2>2. (0 + i) % RingCap \in 0..RingCap - 1
    BY <1>1, <1>3, <2>1, Turn
  <2>3. QED
    BY <1>2, <2>2 DEF SlotAt
<1>5. RingOK(b)
  BY <1>1, <1>2, <1>3, <1>4 DEF RingOK
<1>6. Filled(b) = {} /\ Held(b) = {}
  BY <1>2 DEF Filled, Held
<1>7. RingInv(b) /\ Kept(b) = {}
  BY <1>2, <1>3, <1>5, <1>6, FS_EmptySet DEF RingInv, Kept
<1>8. << >> \in Seq(Nat) /\ Len(<< >>) = 0 /\ 1..0 = {}
  BY SMTT(60)
<1>9. /\ NewSlot.ring = b /\ NewSlot.out = << >> /\ NewSlot.hurt = FALSE
      /\ NewSlot.acked = {} /\ NewSlot.fate = "unused"
  BY DEF NewSlot, b
<1>10. QED
  BY <1>2, <1>7, <1>8, <1>9 DEF SlotInv, Sound, InOrder

LEMMA AckStart == ApplierInit => AckInv
<1> SUFFICES ASSUME ApplierInit PROVE \A i \in Slots : SlotInv(slot[i])
  BY OwnerStart, ChunksStart DEF AckInv
<1>1. \A i \in Slots : slot[i] = NewSlot
  BY DEF ApplierInit
<1>2. QED
  BY <1>1, NewSlotInv

\* ingest has a chunk with a sequence number.
LEMMA IngestHasNumber ==
  ASSUME OwnerInv, ChunksAtHand, NEW t \in Threads, At(t, "ingest"), Call(t).op # "bytes"
  PROVE  Chunk(t).seq \in Nat
<1>1. Call(t) \in ApplyCalls
  BY ReturnedOK DEF At, OwnerInv
<1>2. Call(t).chunks \in Seq(ApplyChunks)
  BY <1>1 DEF ApplyCalls, Requests
<1>3. Call(t).chunks # << >>
  BY DEF ChunksAtHand, HasChunk, InCall, At, Call
<1>4. thread[t].at \in 1..Len(Call(t).chunks)
  BY <1>3 DEF OwnerInv, Shapes, ThreadOK, Call, Working, At
<1>5. Call(t).chunks[thread[t].at] \in ApplyChunks
  BY <1>2, <1>4, SMTT(60)
<1>6. QED
  BY <1>5 DEF Chunk, ApplyChunks

\* Every step keeps the file and the ring of every slot together.
LEMMA SlotsStep ==
  ASSUME AckInv, [ApplierNext]_applierVars, NEW i \in Slots
  PROVE  SlotInv(slot'[i])
<1>1. /\ DOMAIN slot = Slots /\ \A k \in Slots : DOMAIN slot[k] = SlotFields
      /\ SlotInv(slot[i]) /\ OwnerInv /\ ChunksAtHand
  BY DEF AckInv, OwnerInv, Shapes
<1>2. ASSUME NEW t \in Threads, Ingest(t)
      PROVE  SlotInv(slot'[i])
  <2> DEFINE k == thread[t].slot
             q == Chunk(t).seq
             b == Insert(slot[k].ring, q)
             ready == ReadyItems(b, ReadyRun(b))
             refused == \/ slot[k].poisoned \/ Call(t).op = "bytes" \/ ~Chunk(t).good
                        \/ ~Accepts(slot[k].ring, q)
  <2>1. CASE refused
    BY <1>1, <1>2, <2>1 DEF Ingest
  <2>2. CASE ~refused
    <3>1. slot' = [slot EXCEPT ![k] = Ingested(slot[k], q, b, ready)]
      BY <1>2, <2>2 DEF Ingest
    <3>2. CASE k # i
      BY <1>1, <3>1, <3>2
    <3>3. CASE k = i
      <4>1. slot'[i] = Ingested(slot[i], q, b, ready)
        BY <1>1, <3>1, <3>3
      <4>2. q \in Nat
        BY <1>1, <1>2, <2>2, IngestHasNumber DEF Ingest
      <4>3. slot[i].fate # "returned"
        BY <1>1, <1>2, <3>3 DEF OwnerInv, Ownership, BackIsFree, HoldsData, Ingest, At
      <4>4. Accepts(slot[i].ring, q)
        BY <2>2, <3>3
      <4> HIDE DEF q
      <4>5. QED
        BY <1>1, <3>3, <4>1, <4>2, <4>3, <4>4, IngestKeepsSlot, ZenonT(60)
    <3>4. QED
      BY <3>2, <3>3
  <2>3. QED
    BY <2>1, <2>2
<1>3. ASSUME NEW t \in Threads, RegisterFile(t)
      PROVE  SlotInv(slot'[i])
  <2>1. CASE slot' = slot
    BY <1>1, <2>1
  <2>2. CASE \E k \in Slots : slot' = [slot EXCEPT ![k].fate = "live"]
    <3>0. PICK k \in Slots : slot' = [slot EXCEPT ![k].fate = "live"]
      BY <2>2
    <3>1. /\ slot'[i].ring = slot[i].ring /\ slot'[i].out = slot[i].out
          /\ slot'[i].hurt = slot[i].hurt /\ slot'[i].acked = slot[i].acked
          /\ slot'[i].fate = IF i = k THEN "live" ELSE slot[i].fate
      BY <1>1, <3>0 DEF SlotFields
    <3>2. slot'[i].fate = "returned" => slot[i].ring.count = 0
      BY <1>1, <3>1 DEF SlotInv
    <3>3. QED
      BY <1>1, <3>1, <3>2, SameSlot
  <2>3. QED
    BY <1>3, <2>1, <2>2 DEF RegisterFile
<1>4. ASSUME NEW t \in Threads, CountIn(t) \/ CountOut(t)
      PROVE  SlotInv(slot'[i])
  <2>1. PICK n : slot' = [slot EXCEPT ![thread[t].slot].inflight = n]
    BY <1>4 DEF CountIn, CountOut
  <2>2. /\ slot'[i].ring = slot[i].ring /\ slot'[i].out = slot[i].out
        /\ slot'[i].hurt = slot[i].hurt /\ slot'[i].acked = slot[i].acked
        /\ slot'[i].fate = slot[i].fate
    BY <1>1, <2>1 DEF SlotFields
  <2>3. slot'[i].fate = "returned" => slot[i].ring.count = 0
    BY <1>1, <2>2 DEF SlotInv
  <2>4. QED
    BY <1>1, <2>2, <2>3, SameSlot
<1>5. ASSUME NEW t \in Threads, Unwrap(t)
      PROVE  SlotInv(slot'[i])
  <2> DEFINE k == thread[t].slot
             x == CASE \E u \in Threads : HoldsData(u, k) -> "shared"
                    [] slot[k].poisoned /\ ~\E u \in Threads : HoldsData(u, k) -> "poisoned"
                    [] OTHER -> IF slot[k].ring.count = 0 THEN "returned" ELSE "undrained"
  <2>0. slot' = [slot EXCEPT ![k].fate = x]
    BY <1>5 DEF Unwrap
  <2>1. x = "returned" => slot[k].ring.count = 0
    OBVIOUS
  <2> HIDE DEF x
  <2>2. /\ slot'[i].ring = slot[i].ring /\ slot'[i].out = slot[i].out
        /\ slot'[i].hurt = slot[i].hurt /\ slot'[i].acked = slot[i].acked
        /\ slot'[i].fate = IF i = k THEN x ELSE slot[i].fate
    BY <1>1, <2>0 DEF SlotFields
  <2>3. slot'[i].fate = "returned" => slot[i].ring.count = 0
    BY <1>1, <2>1, <2>2 DEF SlotInv
  <2>4. QED
    BY <1>1, <2>2, <2>3, SameSlot
<1>6. ASSUME NEW t \in Threads,
             VerifyBatch(t) \/ SlotFor(t) \/ ReleaseData(t) \/ Flush(t) \/ ListKeys(t)
                \/ FlushNext(t) \/ WaitUntilIdle(t) \/ SpuriousWake(t) \/ RemoveFile(t)
      PROVE  slot' = slot
  BY <1>6 DEF VerifyBatch, SlotFor, ReleaseData, Flush, ListKeys, FlushNext, WaitUntilIdle,
              SpuriousWake, RemoveFile
<1>7. CASE UNCHANGED applierVars
  BY <1>1, <1>7 DEF applierVars
<1>8. QED
  BY <1>1, <1>2, <1>3, <1>4, <1>5, <1>6, <1>7 DEF ApplierNext, Step

\* The written chunks are in order, and what is acknowledged is what ring and file keep:
\* an empty ring leaves the file.
LEMMA AckImplies == AckInv => NothingAckedIsMissing
<1> SUFFICES ASSUME AckInv, NEW i \in Slots
             PROVE  /\ \A k \in 1..Len(slot[i].out) :
                          /\ k > 1 => slot[i].out[k - 1] < slot[i].out[k]
                          /\ ~slot[i].hurt => slot[i].out[k] = k - 1
                    /\ slot[i].fate = "returned" /\ ~slot[i].hurt =>
                          slot[i].acked = {slot[i].out[k] : k \in 1..Len(slot[i].out)}
  BY DEF NothingAckedIsMissing
<1> DEFINE s == slot[i]
<1>1. SlotInv(s)
  BY DEF AckInv
<1> HIDE DEF s
<1>2. \A k \in 1..Len(s.out) : /\ k > 1 => s.out[k - 1] < s.out[k]
                               /\ ~s.hurt => s.out[k] = k - 1
  BY <1>1 DEF SlotInv, InOrder, Sound
<1>3. ASSUME s.fate = "returned", ~s.hurt
      PROVE  s.acked = {s.out[k] : k \in 1..Len(s.out)}
  <2>1. /\ RingInv(s.ring) /\ s.ring.count = 0 /\ s.acked = Kept(s.ring)
        /\ Len(s.out) = s.ring.next /\ \A k \in 1..Len(s.out) : s.out[k] = k - 1
    BY <1>1, <1>3 DEF SlotInv, Sound
  <2>2. RingOK(s.ring) /\ ~s.ring.bypass /\ Cardinality(Filled(s.ring)) = 0
    BY <2>1 DEF RingInv
  <2>3. IsFiniteSet(Filled(s.ring)) /\ s.ring.next \in Nat
    BY <2>2, OrderFacts
  <2>4. Filled(s.ring) = {}
    BY <2>2, <2>3, FS_EmptySet
  <2>5. Held(s.ring) = {}
    BY <2>2, <2>4 DEF Held, Filled
  <2>6. s.acked = 0..s.ring.next - 1
    BY <2>1, <2>5 DEF Kept
  <2>7. ASSUME NEW x \in 0..s.ring.next - 1
        PROVE  \E k \in 1..Len(s.out) : x = s.out[k]
    <3>1. x + 1 \in 1..Len(s.out) /\ (x + 1) - 1 = x
      BY <2>1, <2>3, SMTT(60)
    <3>2. s.out[x + 1] = x
      BY <2>1, <3>1
    <3>3. QED
      BY <3>1, <3>2
  <2>8. ASSUME NEW k \in 1..Len(s.out)
        PROVE  s.out[k] \in 0..s.ring.next - 1
    <3>1. s.out[k] = k - 1
      BY <2>1
    <3>2. QED
      BY <2>1, <2>3, <3>1, SMTT(60)
  <2>9. QED
    BY <2>6, <2>7, <2>8, ZenonT(60)
<1>4. QED
  BY <1>2, <1>3 DEF s

\* Whatever order the workers of parallel_apply finish in, the bytes of a file are its
\* chunks in sequence order, without a gap unless a write failed, and a writer that
\* finish_file hands back holds every chunk whose apply call succeeded: for any
\* threads, files, batches, ring capacity and failing or panicking writers.
THEOREM AckedIsWritten == ApplierSpec => []NothingAckedIsMissing
<1>1. AckInv /\ [ApplierNext]_applierVars => AckInv'
  <2> SUFFICES ASSUME AckInv, [ApplierNext]_applierVars PROVE AckInv'
    OBVIOUS
  <2>1. OwnerInv' /\ ChunksAtHand'
    BY OwnerStep, ChunksStep DEF AckInv
  <2>2. \A i \in Slots : SlotInv(slot'[i])
    BY SlotsStep
  <2>3. (\A i \in Slots : SlotInv(slot[i]))'
    BY <2>2, Zenon
  <2>4. QED
    BY <2>1, <2>3 DEF AckInv
<1>2. QED
  BY <1>1, AckStart, AckImplies, PTL DEF ApplierSpec
==============================================================================
