----------------------------- MODULE SpillBuffer -----------------------------
(***************************************************************************)
(* The reorder ring with an overflow file (`SpillableReorderBuffer') and    *)
(* the reorder loop that drives it (run_spillable_loop): results that       *)
(* arrive out of order are held in memory, the furthest ones are written    *)
(* to a temporary file when the byte budget is exceeded and read back when  *)
(* their turn comes.                                                        *)
(*                                                                          *)
(* A result is its sequence number.  The file is a sequence of cells: a     *)
(* record of one item is a tag cell and a data cell, a record of a batch is *)
(* a length cell and one data cell for each item, so a record read with the *)
(* wrong framing or at the wrong offset is seen.  A write may fail after    *)
(* any part of the record, the directory of the file may vanish, a read may *)
(* fail, and the process's resident size is read afresh at each test.       *)
(* Statistics, warnings and compression of the payload are left out.        *)
(***************************************************************************)
EXTENDS ReorderBuffer, FiniteSets, FiniteSetsExt, Functions

CONSTANTS Results,      \* how many results the stream may carry
          HotZone,      \* HOT_ZONE
          SpillCfgs     \* records, see SpillAssumption

Sequence == 0..Results - 1

ASSUME SpillAssumption ==
    /\ Results \in Nat /\ HotZone \in Nat
    /\ \A c \in SpillCfgs :
           /\ c.capacity \in Nat \ {0} /\ c.threshold \in Nat
           /\ c.size \in [Sequence -> Nat]   \* estimated_size of each result
           /\ c.perItem \in BOOLEAN          \* SpillGranularity::PerItem
           /\ c.reclaim \in BOOLEAN          \* SpillReclaim::RespillAfterRead
           /\ c.pressure \in BOOLEAN         \* memory_pressure_bytes is set
           /\ c.memoryOnly \in BOOLEAN       \* in_memory_only
           /\ c.dir \in BOOLEAN              \* spill_dir is set
           /\ c.faulty \in BOOLEAN           \* the disk may fail, the receiver may go
           /\ c.retries \in BOOLEAN          \* the caller goes on after a failed insert

VARIABLES scfg,
          spill,    \* the buffer: ring, memory_used, index, members and the file
          loop,     \* the thread that calls it
          outs      \* the results it has sent on, in order

spillVars == <<scfg, spill, loop, outs>>

NoBuffer(capacity) ==
    [ring |-> New(capacity), mem |-> 0,
     index |-> << >>,       \* spill_index: sequence -> offset of the record
     members |-> << >>,     \* batch_members: offset -> slots of the record
     file |-> << >>, pos |-> 0, open |-> FALSE]

\* pc of the thread; cur is the result in hand, items what drain_ready has
\* collected, popped what next_in_order has removed while it spills again, hot,
\* forced and wrote the locals of spill_excess, back where it returns to.
NoLoop == [pc |-> "recv", cur |-> NoItem, got |-> {}, items |-> << >>, popped |-> << >>,
           hot |-> 0, forced |-> FALSE, wrote |-> FALSE, back |-> "recv", error |-> "none"]

SpillInit ==
    /\ scfg \in SpillCfgs
    /\ spill = NoBuffer(scfg.capacity)
    /\ loop = NoLoop
    /\ outs = << >>

-----------------------------------------------------------------------------
(* The overflow file                                                        *)

Hole == <<"hole", 0>>
ItemRecord(s) == <<<<"item", 1>>, <<"data", s>>>>
BatchRecord(seqs) == <<<<"batch", Len(seqs)>>>> \o [i \in 1..Len(seqs) |-> <<"data", seqs[i]>>]

\* The file after cells are written from position p on.
Overwrite(file, p, cells) ==
    [i \in 1..Larger(Len(file), p + Len(cells)) |->
        IF i \in p + 1..p + Len(cells) THEN cells[i - p]
        ELSE IF i <= Len(file) THEN file[i] ELSE Hole]

\* write_record opens the file at the first call; what it may return.
WriteRecord(b, rec) ==
    LET write(n) == [b EXCEPT !.open = TRUE,
                              !.file = Overwrite(@, b.pos, SubSeq(rec, 1, n))]
    IN  {[buf |-> write(Len(rec)), res |-> "ok"]}
        \cup (IF ~scfg.faulty THEN {}
              ELSE {[buf |-> write(n), res |-> "io"] : n \in 0..Len(rec) - 1}
                   \cup {[buf |-> b, res |-> "notfound"]})

\* recreate_spill_dir drops the file; making the directory may fail.
DropFile(b) == [b EXCEPT !.open = FALSE, !.file = << >>]
Recreate(b) == [DropFile(b) EXCEPT !.pos = 0, !.index = << >>, !.members = << >>]

\* The write of a record, with the one recovery from a vanished directory.  It
\* is refused when records would be lost.
StoreRecord(b, rec) ==
    UNION {IF w.res # "notfound" \/ ~scfg.dir THEN {w}
           ELSE IF b.index # << >> THEN {[w EXCEPT !.res = "lost"]}
           ELSE {[buf |-> DropFile(b), res |-> "io"]} \cup WriteRecord(Recreate(b), rec) :
               w \in WriteRecord(b, rec)}

\* reload_item and reload_batch: what the cells at offset o decode to, nothing
\* when the framing is not the one expected.
ReloadItem(b, o) ==
    IF o + 2 <= Len(b.file) /\ b.file[o + 1][1] = "item" THEN <<b.file[o + 2][2]>> ELSE << >>

ReloadBatch(b, o, n) ==
    IF o + 1 + n <= Len(b.file) /\ b.file[o + 1][1] = "batch"
    THEN [i \in 1..n |-> b.file[o + 1 + i][2]]
    ELSE << >>

-----------------------------------------------------------------------------
(* Moving results between the ring and the file                             *)

\* take each of S out of the ring, which does not move its cursor.
TakeAll(r, S) ==
    [r EXCEPT !.slots = [i \in DOMAIN @ |-> IF @[i] \in S THEN NoItem ELSE @[i]],
              !.count = @ - Cardinality(S)]

\* force_insert each of S, which the ring has held before: it never shrinks and
\* its cursor has not passed them, so they are within the window.
ForceAll(r, S) ==
    [r EXCEPT !.slots = [i \in DOMAIN @ |->
                            LET back == {s \in S : SlotIndex(r, s) = i}
                            IN  IF back = {} THEN @[i] ELSE Max(back)],
              !.count = @ + Cardinality(S),
              !.high = Max({@} \cup {(s - r.next) + 1 : s \in S})]

SizeOf(S) == MapThenSumSet(LAMBDA s : scfg.size[s], S)
Without(f, S) == Restrict(f, DOMAIN f \ S)
With(f, S, v) == [x \in DOMAIN f \cup S |-> IF x \in S THEN v ELSE f[x]]

\* evict_from_spill_state: a spilled sequence that is inserted again.
Evict(b, s) ==
    IF s \notin DOMAIN b.index THEN b
    ELSE LET o == b.index[s]
             left == [i \in DOMAIN b.members[o] |->
                         IF b.members[o][i] = s THEN NoItem ELSE b.members[o][i]]
         IN  [b EXCEPT !.index = Without(@, {s}),
                       !.members = IF o \notin DOMAIN @ THEN @
                                   ELSE IF Range(left) = {NoItem} THEN Without(@, {o})
                                   ELSE [@ EXCEPT ![o] = left]]

HotLimit(b) == b.ring.next + Larger(1, Smaller(HotZone, b.ring.count \div 2))

\* The candidates of spill_excess that hold a result, furthest first.
Candidates(b, hot) ==
    LET all == {s \in Held(b.ring) : s >= hot}
    IN  CHOOSE q \in [1..Cardinality(all) -> all] : \A i, j \in DOMAIN q : i < j => q[i] > q[j]

\* spill_item, with the restore of spill_candidates_per_item when it fails.
MutSpillItem(b, s) ==       \* the item is not put back
    {IF w.res = "ok"
     THEN [w EXCEPT !.buf.index = With(@, {s}, w.buf.pos), !.buf.pos = @ + 2,
                    !.buf.mem = @ - scfg.size[s]]
     ELSE w : w \in StoreRecord([b EXCEPT !.ring = TakeAll(@, {s})], ItemRecord(s))}

SpillItem(b, s) ==
    {IF w.res = "ok"
     THEN [w EXCEPT !.buf.index = With(@, {s}, w.buf.pos), !.buf.pos = @ + 2,
                    !.buf.mem = @ - scfg.size[s]]
     ELSE [w EXCEPT !.buf.ring = ForceAll(@, {s})] :
         w \in StoreRecord([b EXCEPT !.ring = TakeAll(@, {s})], ItemRecord(s))}

\* A batch of one is not entered among the batches, so its record is read with
\* the framing of a single item.
MutSpillBatch(b, seqs) ==
    {IF w.res = "ok"
     THEN [w EXCEPT !.buf.index = With(@, Range(seqs), w.buf.pos),
                    !.buf.members = IF Len(seqs) = 1 THEN @ ELSE With(@, {w.buf.pos}, seqs),
                    !.buf.pos = @ + 1 + Len(seqs),
                    !.buf.mem = @ - SizeOf(Range(seqs))]
     ELSE [w EXCEPT !.buf.ring = ForceAll(@, Range(seqs))] :
         w \in StoreRecord([b EXCEPT !.ring = TakeAll(@, Range(seqs))], BatchRecord(seqs))}

\* spill_candidates_whole_batch takes every candidate and restores all of them
\* when the record cannot be written.
SpillBatch(b, seqs) ==
    {IF w.res = "ok"
     THEN [w EXCEPT !.buf.index = With(@, Range(seqs), w.buf.pos),
                    !.buf.members = With(@, {w.buf.pos}, seqs),
                    !.buf.pos = @ + 1 + Len(seqs),
                    !.buf.mem = @ - SizeOf(Range(seqs))]
     ELSE [w EXCEPT !.buf.ring = ForceAll(@, Range(seqs))] :
         w \in StoreRecord([b EXCEPT !.ring = TakeAll(@, Range(seqs))], BatchRecord(seqs))}

-----------------------------------------------------------------------------
(* The loop of the delta-reorder thread                                     *)

LoopAt(pc) == loop.pc = pc
RssReadings == IF scfg.pressure THEN BOOLEAN ELSE {FALSE}

\* for result in stream_rx: the next result, in any order, or the end.
ReceiveResult ==
    /\ LoopAt("recv")
    /\ \/ \E s \in Sequence \ loop.got :
              loop' = [loop EXCEPT !.pc = "insert", !.cur = s, !.got = @ \cup {s}]
       \/ loop' = [loop EXCEPT !.pc = "final", !.cur = NoItem]
    /\ UNCHANGED <<scfg, spill, outs>>

\* The end of insert and force_insert: charge the bytes, forget a spilled copy,
\* and spill when the budget or the resident size says so.
Charge(ring) ==
    /\ spill' = Evict([spill EXCEPT !.ring = ring, !.mem = @ + scfg.size[loop.cur]], loop.cur)
    /\ \E rss \in RssReadings :
          loop' = [loop EXCEPT !.back = "drain",
                               !.pc = IF rss \/ spill'.mem > scfg.threshold
                                      THEN "excess" ELSE "drain"]

MutInsertResult ==      \* after a drain that freed nothing insert is tried again
    /\ LoopAt("insert") \/ LoopAt("force")
    /\ IF Accepts(spill.ring, loop.cur)
       THEN Charge(Insert(spill.ring, loop.cur))
       ELSE loop' = [loop EXCEPT !.pc = "room"] /\ UNCHANGED spill
    /\ UNCHANGED <<scfg, outs>>

\* insert, refused past the window; force_insert, which grows the ring.
InsertResult ==
    /\ LoopAt("insert") \/ LoopAt("force")
    /\ IF LoopAt("force") THEN Charge(ForceInsert(spill.ring, loop.cur))
       ELSE IF Accepts(spill.ring, loop.cur) THEN Charge(Insert(spill.ring, loop.cur))
       ELSE loop' = [loop EXCEPT !.pc = "room"] /\ UNCHANGED spill
    /\ UNCHANGED <<scfg, outs>>

\* spill_excess returns Ok: what next_in_order had removed joins the items.
Resume == [loop EXCEPT !.pc = loop.back, !.items = @ \o loop.popped, !.popped = << >>,
                       !.hot = 0, !.forced = FALSE, !.wrote = FALSE]

\* An error ends the loop with a failed result; what drain_ready had collected
\* goes with it.  A caller that retries goes on after an insert that failed.
Fails(kind) ==
    IF loop.back = "drain" /\ loop.popped = << >> /\ kind = "write" /\ scfg.retries
    THEN Resume
    ELSE [loop EXCEPT !.pc = "exit", !.error = kind]

\* Give the thread the buffer and the return value of a write.
Return(w, then) ==
    /\ spill' = w.buf
    /\ loop' = IF w.res = "ok" THEN then ELSE Fails("write")

\* spill_excess up to the choice of the granularity, and the batch.
SpillExcess ==
    /\ LoopAt("excess")
    /\ \E hot \in {HotLimit(spill)} : \E seqs \in {Candidates(spill, hot)} :
           IF scfg.memoryOnly THEN loop' = Fails("write") /\ UNCHANGED spill
           ELSE IF spill.ring.count = 0 \/ (~scfg.perItem /\ seqs = << >>)
           THEN loop' = Resume /\ UNCHANGED spill
           ELSE IF scfg.perItem
           THEN /\ \E rss \in RssReadings :
                     loop' = [loop EXCEPT !.pc = "each", !.hot = hot, !.forced = rss,
                                          !.wrote = FALSE]
                /\ UNCHANGED spill
           ELSE \E w \in SpillBatch(spill, seqs) : Return(w, Resume)
    /\ UNCHANGED <<scfg, outs>>

\* One turn of spill_candidates_per_item.
SpillOne ==
    /\ LoopAt("each")
    /\ \E seqs \in {Candidates(spill, loop.hot)} :
           IF seqs = << >> \/ (spill.mem <= scfg.threshold /\ (~loop.forced \/ loop.wrote))
           THEN loop' = Resume /\ UNCHANGED spill
           ELSE \E w \in SpillItem(spill, Head(seqs)) :
                   Return(w, [loop EXCEPT !.wrote = TRUE])
    /\ UNCHANGED <<scfg, outs>>

Draining == loop.pc \in {"room", "drain", "final"}

\* next_in_order finds the result in the ring.
DeliverHeld ==
    /\ Draining /\ Ready(spill.ring)
    /\ LET s == HeadItem(spill.ring)
       IN  /\ spill' = [spill EXCEPT !.ring = NextInOrder(@), !.mem = @ - scfg.size[s]]
           /\ loop' = [loop EXCEPT !.items = Append(@, s)]
    /\ UNCHANGED <<scfg, outs>>

\* The ring after a reload, its head delivered, and the respill if there is one.
Deliver(b, s) ==
    /\ spill' = b
    /\ loop' = IF scfg.reclaim /\ b.mem > scfg.threshold
               THEN [loop EXCEPT !.pc = "excess", !.back = loop.pc, !.popped = <<s>>]
               ELSE [loop EXCEPT !.items = Append(@, s)]

\* The members of the record at offset o that are still wanted.
Wanted(b, o) == Range(b.members[o]) \ {NoItem}

Readable(b, o) == IF o \in DOMAIN b.members
                  THEN ReloadBatch(b, o, Len(b.members[o])) # << >>
                  ELSE ReloadItem(b, o) # << >>

\* The bytes of the siblings are not charged when they come back to memory.
MutReloaded(b, s, o) ==
    LET all == IF o \in DOMAIN b.members THEN Wanted(b, o) ELSE {s}
    IN  [b EXCEPT !.ring = NextInOrder(ForceAll(@, all)),
                  !.index = Without(@, all), !.members = Without(@, {o})]

\* Every member of the record that is still wanted goes back into the ring and
\* is charged; the first of them, s, is delivered.
Reloaded(b, s, o) ==
    LET all == IF o \in DOMAIN b.members THEN Wanted(b, o) ELSE {s}
    IN  [b EXCEPT !.ring = NextInOrder(ForceAll(@, all)), !.mem = @ + SizeOf(all \ {s}),
                  !.index = Without(@, all), !.members = Without(@, {o})]

\* next_in_order finds the result in the file.  The record is taken out of
\* batch_members before it is read, and stays out when the read fails.
DeliverSpilled ==
    /\ Draining /\ ~Ready(spill.ring)
    /\ \E s \in {spill.ring.next} \cap DOMAIN spill.index : \E o \in {spill.index[s]} :
          \/ /\ spill.open /\ Readable(spill, o)
             /\ \E b \in {Reloaded(spill, s, o)} : Deliver(b, s)
          \/ /\ ~spill.open \/ ~Readable(spill, o) \/ scfg.faulty
             /\ spill' = [spill EXCEPT !.members = Without(@, {o})]
             /\ loop' = Fails("read")
    /\ UNCHANGED <<scfg, outs>>

MutDrainReady ==         \* only the ring is looked at
    /\ Draining /\ ~Ready(spill.ring)
    /\ LET some == loop.items # << >>
           pc == CASE LoopAt("room") -> IF some THEN "insert" ELSE "force"
                   [] LoopAt("drain") -> "recv"
                   [] LoopAt("final") -> IF some THEN "final" ELSE "exit"
       IN  \/ /\ outs' = outs \o loop.items
              /\ loop' = [loop EXCEPT !.pc = pc, !.items = << >>]
           \/ /\ some /\ scfg.faulty
              /\ loop' = [loop EXCEPT !.pc = "exit", !.error = "gone"]
              /\ UNCHANGED outs
    /\ UNCHANGED <<scfg, spill>>

\* next_in_order returns None, so drain_ready returns; its items are sent on.
\* The receiver may be gone.
DrainReady ==
    /\ Draining /\ ~Ready(spill.ring) /\ spill.ring.next \notin DOMAIN spill.index
    /\ LET some == loop.items # << >>
           pc == CASE LoopAt("room") -> IF some THEN "insert" ELSE "force"
                   [] LoopAt("drain") -> "recv"
                   [] LoopAt("final") -> IF some THEN "final" ELSE "exit"
       IN  \/ /\ outs' = outs \o loop.items
              /\ loop' = [loop EXCEPT !.pc = pc, !.items = << >>]
           \/ /\ some /\ scfg.faulty
              /\ loop' = [loop EXCEPT !.pc = "exit", !.error = "gone"]
              /\ UNCHANGED outs
    /\ UNCHANGED <<scfg, spill>>

LoopStep == \/ InsertResult \/ SpillExcess \/ SpillOne
            \/ DeliverHeld \/ DeliverSpilled \/ DrainReady

SpillNext == ReceiveResult \/ LoopStep

\* The thread is never held up by another: every receive returns, with a result
\* or with the end of the stream.
SpillFairness == WF_spillVars(SpillNext)
SpillSpec == SpillInit /\ [][SpillNext]_spillVars /\ SpillFairness

-----------------------------------------------------------------------------
\* What is known of the state of the buffer and of the loop: the ring is well
\* formed, every batch entry is the record of some spilled result, and nothing
\* live lies at or past the write position.
SpillTypeOK ==
    /\ RingOK(spill.ring)
    /\ spill.mem \in Nat /\ spill.pos \in Nat /\ spill.open \in BOOLEAN
    /\ DOMAIN spill.index \subseteq Sequence
    /\ \A s \in DOMAIN spill.index : spill.index[s] < spill.pos
    /\ loop.error # "read" => DOMAIN spill.members \subseteq {spill.index[s] : s \in DOMAIN spill.index}
    /\ loop.pc \in {"recv", "insert", "force", "room", "excess", "each", "drain", "final", "exit"}
    /\ loop.got \subseteq Sequence

\* Each spilled result can be read back: the record that spill_index names is
\* in the file, its framing is the one next_in_order will choose, and the slot
\* of the result decodes to it, also after failed writes and a recreated
\* directory.
SpilledIsReadable ==
    loop.error # "read" =>
    \A s \in DOMAIN spill.index :
        LET o == spill.index[s]
        IN  IF o \in DOMAIN spill.members
            THEN \E i \in DOMAIN spill.members[o] :
                    /\ spill.members[o][i] = s
                    /\ ReloadBatch(spill, o, Len(spill.members[o]))[i] = s
            ELSE ReloadItem(spill, o) = <<s>>

\* The results received and neither inserted yet nor refused.
InHand == IF loop.pc \in {"insert", "room", "force"} THEN {loop.cur} ELSE {}

\* While the loop runs, and after an insert that failed, every received result
\* is in exactly one place: sent on, collected for sending, in the ring or in
\* the file.  A failed write loses nothing and leaves no second copy.  And
\* memory_used is what the results in the ring weigh, whatever was spilled,
\* restored after a failed write or reloaded with its siblings.
NothingLost ==
    /\ spill.mem = SizeOf(Held(spill.ring))
    /\ (loop.pc # "exit" \/ (loop.error = "write" /\ loop.popped = << >>)) =>
        LET places == <<Range(outs), Range(loop.items), Range(loop.popped), InHand,
                        Held(spill.ring), DOMAIN spill.index>>
        IN  /\ UNION Range(places) = loop.got
            /\ \A i, j \in 1..6 : i < j => places[i] \cap places[j] = {}

\* What run_spillable_loop sends on is a gapless run from the first result, and
\* when it ends without an error it has sent everything up to the first result
\* that never came, through however many spills and reloads.
DeliversInOrder ==
    /\ outs = [i \in 1..Len(outs) |-> i - 1]
    /\ (loop.pc = "exit" /\ loop.error = "none") => Len(outs) \notin loop.got

\* The loop returns: each result is inserted in the end, by force if need be,
\* and the final drain comes to an end.
LoopReturned == loop.pc = "exit"
=============================================================================
