------------------------------- MODULE Applier -------------------------------
(***************************************************************************)
(* The parallel chunk applier (`ParallelDeltaApplier'): threads apply       *)
(* chunks to files, each file behind a slot with a mutex, a reorder ring    *)
(* and a count of the calls in flight; finish_file waits for that count to  *)
(* reach zero and takes the writer back.                                    *)
(*                                                                         *)
(* A slot is the pair of `Arc's of a SlotEntry.  A thread holds the payload *)
(* `Arc' from the clone in slot_for until its SlotHandle drops it, and is   *)
(* counted in flight from the increment in SlotHandle::new until the        *)
(* DecrementGuard drops: the two intervals start and end at different       *)
(* steps.  What happens under the slot's mutex never blocks and is seen by  *)
(* nobody else, so it is one step.  The data of a chunk is its sequence     *)
(* number.                                                                  *)
(***************************************************************************)
EXTENDS ReorderBuffer, FiniteSets

CONSTANTS Threads,
          FileNdx,
          Slots,        \* 1..n: one for each register_file that may succeed
          RingCap,      \* per_file_reorder_capacity
          Workloads     \* records [script, fault]; a script is what each thread calls

ApplyChunks == [file : FileNdx, seq : Nat, good : BOOLEAN]
Requests == [op : {"register", "apply", "bytes", "batch", "flush", "finish", "drain"},
             file : FileNdx, chunks : Seq(ApplyChunks)]
ApplyCalls == {c \in Requests : c.op = "apply" => Len(c.chunks) = 1}

\* fault names the write that fails, [seq, kind], kind being "io", "panic" or "none".
ASSUME RingAssumption == RingCap \in Nat \ {0}
ASSUME SlotsAssumption == Slots \subseteq Nat \ {0}
ASSUME WorkAssumption == \A w \in Workloads : w.script \in [Threads -> Seq(ApplyCalls)]

VARIABLES work,     \* the workload of this behaviour
          files,    \* the map from file index to slot, 0 when absent
          slot,     \* per slot: [ring, out, inflight, poisoned, fate, acked, hurt]
          thread    \* per thread: [pc, todo, at, slot, keys, ok]

applierVars == <<work, files, slot, thread>>

NewSlot == [ring |-> New(RingCap), out |-> << >>, inflight |-> 0, poisoned |-> FALSE,
            fate |-> "unused", acked |-> {}, hurt |-> FALSE]

\* Where a call starts.
Entry(todo) ==
    IF todo = << >> THEN "done"
    ELSE CASE Head(todo).op = "register" -> "register"
           [] Head(todo).op \in {"apply", "bytes"} -> "lookup"
           [] Head(todo).op = "batch" -> "verify"
           [] Head(todo).op \in {"flush", "finish"} -> "flush"
           [] Head(todo).op = "drain" -> "keys"

Begin(todo) == [pc |-> Entry(todo), todo |-> todo, at |-> 1, slot |-> 0, keys |-> {}, ok |-> TRUE]

ApplierInit ==
    /\ work \in Workloads
    /\ files = [f \in FileNdx |-> 0]
    /\ slot = [i \in Slots |-> NewSlot]
    /\ thread = [t \in Threads |-> Begin(work.script[t])]

-----------------------------------------------------------------------------
At(t, pc) == thread[t].pc = pc
Call(t) == Head(thread[t].todo)
Chunk(t) == Call(t).chunks[thread[t].at]
Target(t) == IF Call(t).chunks = << >> THEN Call(t).file ELSE Chunk(t).file

\* The current call of t returns.
Returned(t) == Begin(Tail(thread[t].todo))
Goto(t, pc) == thread' = [thread EXCEPT ![t].pc = pc]

\* t holds a clone of the payload of slot i.
HoldsData(t, i) == thread[t].slot = i /\ thread[t].pc \in {"count", "ingest", "release"}

RegisterFile(t) ==
    LET f == Call(t).file
        fresh == {i \in Slots : slot[i].fate = "unused"}
    IN  /\ At(t, "register")
        /\ thread' = [thread EXCEPT ![t] = Returned(t)]
        /\ IF files[f] # 0 THEN UNCHANGED <<files, slot>>
           ELSE \E i \in fresh :
                   /\ \A k \in fresh : i <= k
                   /\ files' = [files EXCEPT ![f] = i]
                   /\ slot' = [slot EXCEPT ![i].fate = "live"]
        /\ UNCHANGED work

\* apply_batch_parallel verifies every chunk before it writes any; an empty batch
\* is done.
VerifyBatch(t) ==
    /\ At(t, "verify")
    /\ IF Call(t).chunks # << >> /\ \A k \in 1..Len(Call(t).chunks) : Call(t).chunks[k].good
       THEN Goto(t, "lookup")
       ELSE thread' = [thread EXCEPT ![t] = Returned(t)]
    /\ UNCHANGED <<work, files, slot>>

SlotFor(t) ==
    LET i == files[Target(t)]
    IN  /\ At(t, "lookup")
        /\ thread' = IF i = 0 THEN [thread EXCEPT ![t] = Returned(t)]
                     ELSE [thread EXCEPT ![t].slot = i, ![t].pc = "count"]
        /\ UNCHANGED <<work, files, slot>>

\* SlotHandle::new: the clone in hand is counted in flight.
CountIn(t) ==
    LET i == thread[t].slot
    IN  /\ At(t, "count")
        /\ slot' = [slot EXCEPT ![i].inflight = @ + 1]
        /\ Goto(t, "ingest")
        /\ UNCHANGED <<work, files>>

-----------------------------------------------------------------------------
\* How many results drain_ready yields, the results, and the ring it leaves:
\* next_in_order that many times.
ReadyRun(b) ==
    CHOOSE k \in 0..b.capacity :
        /\ \A i \in 0..k - 1 : b.slots[SlotAt(b, i)] # NoItem
        /\ k < b.capacity => b.slots[SlotAt(b, k)] = NoItem

ReadyItems(b, k) == [i \in 1..k |-> b.slots[SlotAt(b, i - 1)]]

\* The head does not wrap around.
MutDrained(b, k) ==
    LET freed == {SlotAt(b, i) : i \in 0..k - 1}
    IN  [b EXCEPT !.slots = [i \in DOMAIN @ |-> IF i \in freed THEN NoItem ELSE @[i]],
                  !.head = @ + k,
                  !.next = @ + k,
                  !.count = @ - k,
                  !.high = IF b.count = k \/ @ < k THEN 0 ELSE @ - k]

Drained(b, k) ==
    LET freed == {SlotAt(b, i) : i \in 0..k - 1}
    IN  [b EXCEPT !.slots = [i \in DOMAIN @ |-> IF i \in freed THEN NoItem ELSE @[i]],
                  !.head = (@ + k) % b.capacity,
                  !.next = @ + k,
                  !.count = @ - k,
                  !.high = IF b.count = k \/ @ < k THEN 0 ELSE @ - k]

\* The chunks written before the one the fault names, if it is among them.
Written(ready) ==
    LET bad == {k \in 1..Len(ready) : work.fault.kind # "none" /\ ready[k] = work.fault.seq}
    IN  IF bad = {} THEN ready ELSE SubSeq(ready, 1, (CHOOSE k \in bad : TRUE) - 1)

\* The ready chunks are written back to front.
MutIngested(s, q, b, ready) ==
    [s EXCEPT !.ring = Drained(b, Len(ready)), !.acked = @ \cup {q},
              !.out = @ \o [k \in 1..Len(ready) |-> ready[Len(ready) + 1 - k]]]

\* FileSlot::ingest of an accepted chunk q, which makes the ring b: what is ready is
\* drained, then written chunk by chunk.  A failed write leaves the chunks after it
\* out of ring and file.
Ingested(s, q, b, ready) ==
    LET failed == Written(ready) # ready
    IN  [s EXCEPT !.ring = Drained(b, Len(ready)),
                  !.out = @ \o Written(ready),
                  !.poisoned = @ \/ (failed /\ work.fault.kind = "panic"),
                  !.hurt = @ \/ failed,
                  !.acked = IF failed THEN @ ELSE @ \cup {q}]

\* The mutex is taken; bytes_written only reads.  The outcome is kept: the handle
\* drops before the call returns.
Ingest(t) ==
    LET i == thread[t].slot
        s == slot[i]
        q == Chunk(t).seq
    IN  /\ At(t, "ingest")
        /\ IF s.poisoned \/ Call(t).op = "bytes" \/ ~Chunk(t).good \/ ~Accepts(s.ring, q)
           THEN /\ thread' = [thread EXCEPT ![t].pc = "release", ![t].ok = FALSE]
                /\ UNCHANGED slot
           ELSE \E b \in {Insert(s.ring, q)} : \E ready \in {ReadyItems(b, ReadyRun(b))} :
                /\ thread' = [thread EXCEPT ![t].pc = "release",
                                            ![t].ok = (Written(ready) = ready)]
                /\ slot' = [slot EXCEPT ![i] = Ingested(@, q, b, ready)]
        /\ UNCHANGED <<work, files>>

\* SlotHandle drops its fields in order: the payload first ...
ReleaseData(t) ==
    /\ At(t, "release")
    /\ Goto(t, "uncount")
    /\ UNCHANGED <<work, files, slot>>

\* The next chunk of the batch, or the end of the call.
AfterChunk(t) ==
    IF thread[t].ok /\ thread[t].at < Len(Call(t).chunks)
    THEN [thread[t] EXCEPT !.pc = "lookup", !.at = @ + 1, !.slot = 0]
    ELSE Returned(t)

\* Nobody is woken.
MutCountOut(t) ==
    LET i == thread[t].slot
    IN  /\ At(t, "uncount")
        /\ slot' = [slot EXCEPT ![i].inflight = IF @ = 0 THEN 0 ELSE @ - 1]
        /\ thread' = [thread EXCEPT ![t] = AfterChunk(t)]
        /\ UNCHANGED <<work, files>>

\* ... then the decrement, which wakes every flusher of the slot.
CountOut(t) ==
    LET i == thread[t].slot
    IN  /\ At(t, "uncount")
        /\ slot' = [slot EXCEPT ![i].inflight = IF @ = 0 THEN 0 ELSE @ - 1]
        /\ thread' = [u \in Threads |->
                        CASE u = t -> AfterChunk(t)
                          [] u # t /\ thread[u].slot = i /\ At(u, "asleep") ->
                                [thread[u] EXCEPT !.pc = "wait"]
                          [] OTHER -> thread[u]]
        /\ UNCHANGED <<work, files>>

-----------------------------------------------------------------------------
\* flush_workers clones the barrier of the slot it finds.
Flush(t) ==
    LET i == files[Call(t).file]
    IN  /\ At(t, "flush")
        /\ thread' = [thread EXCEPT ![t] =
                        IF i # 0 THEN [@ EXCEPT !.slot = i, !.pc = "wait"]
                        ELSE IF Call(t).op = "finish" THEN [@ EXCEPT !.pc = "remove"]
                        ELSE Returned(t)]
        /\ UNCHANGED <<work, files, slot>>

\* drain_inflight flushes the files registered when it is called, in any order.
ListKeys(t) ==
    /\ At(t, "keys")
    /\ thread' = [thread EXCEPT ![t].keys = {f \in FileNdx : files[f] # 0}, ![t].pc = "pick"]
    /\ UNCHANGED <<work, files, slot>>

FlushNext(t) ==
    /\ At(t, "pick")
    /\ \/ thread[t].keys = {} /\ thread' = [thread EXCEPT ![t] = Returned(t)]
       \/ \E f \in thread[t].keys :
            thread' = [thread EXCEPT ![t].keys = @ \ {f}, ![t].slot = files[f],
                                     ![t].pc = IF files[f] = 0 THEN "pick" ELSE "wait"]
    /\ UNCHANGED <<work, files, slot>>

\* wait_until_idle: the count is tested and the sleep begun under its mutex.
WaitUntilIdle(t) ==
    /\ At(t, "wait")
    /\ thread' = [thread EXCEPT ![t] =
                    IF slot[@.slot].inflight > 0 THEN [@ EXCEPT !.pc = "asleep"]
                    ELSE CASE Call(t).op = "finish" -> [@ EXCEPT !.pc = "remove"]
                           [] Call(t).op = "drain" -> [@ EXCEPT !.pc = "pick"]
                           [] Call(t).op = "flush" -> Returned(t)]
    /\ UNCHANGED <<work, files, slot>>

\* A condition variable may wake a thread for no reason.
SpuriousWake(t) ==
    /\ At(t, "asleep")
    /\ Goto(t, "wait")
    /\ UNCHANGED <<work, files, slot>>

\* finish_file takes the entry out of the map, whichever it is by now.
RemoveFile(t) ==
    LET i == files[Call(t).file]
    IN  /\ At(t, "remove")
        /\ files' = [files EXCEPT ![Call(t).file] = 0]
        /\ thread' = [thread EXCEPT ![t] = IF i = 0 THEN Returned(t)
                                           ELSE [@ EXCEPT !.slot = i, !.pc = "unwrap"]]
        /\ UNCHANGED <<work, slot>>

\* The writer is handed back although a worker still holds the slot.
MutUnwrapShared(t) ==
    LET i == thread[t].slot
    IN  /\ At(t, "unwrap")
        /\ slot' = [slot EXCEPT ![i].fate =
                        IF slot[i].ring.count = 0 THEN "returned" ELSE "undrained"]
        /\ thread' = [thread EXCEPT ![t] = Returned(t)]
        /\ UNCHANGED <<work, files>>

\* ... or although chunks are still buffered.
MutUnwrapUndrained(t) ==
    LET i == thread[t].slot
    IN  /\ At(t, "unwrap")
        /\ slot' = [slot EXCEPT ![i].fate =
                        IF \E u \in Threads : HoldsData(u, i) THEN "shared" ELSE "returned"]
        /\ thread' = [thread EXCEPT ![t] = Returned(t)]
        /\ UNCHANGED <<work, files>>

\* Arc::try_unwrap, into_slot and the check that nothing is buffered.
Unwrap(t) ==
    LET i == thread[t].slot
    IN  /\ At(t, "unwrap")
        /\ slot' = [slot EXCEPT ![i].fate =
                        CASE \E u \in Threads : HoldsData(u, i) -> "shared"
                          [] slot[i].poisoned /\ ~\E u \in Threads : HoldsData(u, i) -> "poisoned"
                          [] OTHER -> IF slot[i].ring.count = 0 THEN "returned" ELSE "undrained"]
        /\ thread' = [thread EXCEPT ![t] = Returned(t)]
        /\ UNCHANGED <<work, files>>

-----------------------------------------------------------------------------
Step(t) ==
    \/ RegisterFile(t)
    \/ VerifyBatch(t)
    \/ SlotFor(t)
    \/ CountIn(t)
    \/ Ingest(t)
    \/ ReleaseData(t)
    \/ CountOut(t)
    \/ Flush(t)
    \/ ListKeys(t)
    \/ FlushNext(t)
    \/ WaitUntilIdle(t)
    \/ RemoveFile(t)
    \/ Unwrap(t)

ApplierNext == \E t \in Threads : Step(t) \/ SpuriousWake(t)

\* Threads are scheduled; nothing promises a spurious wake-up.
ApplierFairness == \A t \in Threads : WF_applierVars(Step(t))

ApplierSpec == ApplierInit /\ [][ApplierNext]_applierVars

-----------------------------------------------------------------------------
Fates == {"unused", "live", "returned", "shared", "poisoned", "undrained"}
Positions == {"done", "register", "verify", "lookup", "count", "ingest", "release", "uncount",
              "flush", "keys", "pick", "wait", "asleep", "remove", "unwrap"}

\* Every piece of the applier's state is of its kind.
ApplierTypeOK ==
    /\ files \in [FileNdx -> Slots \cup {0}]
    /\ \A i \in Slots : RingOK(slot[i].ring) /\ slot[i].inflight \in Nat /\ slot[i].fate \in Fates
    /\ \A t \in Threads : thread[t].pc \in Positions /\ thread[t].slot \in Slots \cup {0}

\* The bytes of a file are its chunks in sequence order whatever order the workers
\* finish in, without a gap unless a write failed; and a writer that finish_file hands
\* back holds every chunk whose apply call succeeded, unless a write to it had failed
\* (which that write's caller was told).
NothingAckedIsMissing ==
    \A i \in Slots :
        /\ \A k \in 1..Len(slot[i].out) :
               /\ k > 1 => slot[i].out[k - 1] < slot[i].out[k]
               /\ ~slot[i].hurt => slot[i].out[k] = k - 1
        /\ slot[i].fate = "returned" /\ ~slot[i].hurt => 
               slot[i].acked = {slot[i].out[k] : k \in 1..Len(slot[i].out)}

\* After finish_file has handed a writer back, no worker writes to it.
ReturnedWriterIsExclusive ==
    [][\A i \in Slots : slot[i].fate = "returned" => slot'[i].out = slot[i].out]_applierVars

\* Every thread has finished its work: no flusher sleeps through the last decrement.
WorkFinished == \A t \in Threads : At(t, "done")
==============================================================================
