# A TLA+ verification of oc-rsync

oc-rsync is a Rust implementation of rsync: client, server and daemon speaking
protocols 28 to 32. This directory keeps TLA+ models of the parts of it in which
threads, queues, wire messages and file-system steps interleave, the TLC
configurations that check those models on small instances, and TLAPS proofs that
hold for every value of the constants. Paths below are relative to `src/crates/`.

* [The system](#the-system)
* [Modules and the code they model](#modules-and-the-code-they-model)
* [Runs](#runs): what is checked, on which instances
* [Fairness](#fairness)
* [Proofs](#proofs)
* [Where the code and its documentation disagree](#where-the-code-and-its-documentation-disagree)
* [What is not modelled](#what-is-not-modelled), [Plan](#plan)

## The system

A transfer has two sides. The **receiver** walks the file list and asks, by index,
for what it needs; the **sender** answers each request with a delta or a whole
file. Requests are pipelined: up to a window of them is out at a time, and a
response is paired with its request by position. Indices are delta-encoded from
protocol 30 on, so each side keeps codec state. Both directions are multiplexed:
data and out-of-band messages share a buffered stream. Phases (a first pass, a
redo pass for files whose checksum failed), statistics and a goodbye follow.

Inside the receiver, a **network thread** turns the delta stream into messages for
a **disk thread**, which writes temp files, verifies, makes backups and renames.
The two are joined by lock-free single-producer single-consumer channels.
Next to this stands the **parallel delta pipeline**: above a threshold, per-file
delta work goes through a bounded queue to a rayon pool, and a reorder thread puts
the results back in submission order, spilling them to a file when they exceed a
memory budget. A **chunk applier** lets several threads write chunks of one file,
again through a reorder ring.

The receiver's **incremental file list** holds entries back until their directory is
known. The **delete module** removes what the sender does not have, directory by
directory, by one of two drains. Local copies take their buffers from a shared
**pool** under a memory cap. The **daemon** accepts connections, limits them, reloads
its configuration and drains its workers when it is told to stop.

Around these stand negotiation, file-list encoding, filters, checksums and matching,
bandwidth limiting, platform I/O and the command line. `components` in
`PROJECT.json` lists every part with its status and the reason.

| part | where | status |
|---|---|---|
| SPSC channel | `transfer/src/pipeline/spsc.rs` | modelled, proved |
| disk-commit pipeline | `transfer/src/disk_commit`, `pipeline/receiver.rs`, `receiver/transfer` | partly, all safety properties proved |
| NDX codec | `protocol/src/codec/ndx` | modelled, proved |
| transfer session, multiplexing | `transfer/src/{receiver,generator,reader,writer}` | partly |
| parallel delta pipeline | `transfer/src/delta_pipeline`, `engine/src/concurrent_delta` | partly, all safety properties and the refinement proved |
| reorder ring | `engine/src/concurrent_delta/reorder` | partly, order proved |
| spilling reorder buffer | `engine/src/concurrent_delta/spill`, `consumer/loops.rs` | modelled |
| parallel chunk applier | `engine/src/concurrent_delta/parallel_apply` | modelled, exclusive hand-back proved |
| copy buffer pool | `engine/src/local_copy/buffer_pool` | partly, wake-ups and count proved |
| incremental file list | `protocol/src/flist/incremental`, `transfer/src/receiver/file_list` | modelled |
| delete module | `engine/src/delete` | partly |
| daemon accept loop and limits | `daemon/src/daemon/sections/server_runtime`, `module_state` | partly |
| everything else | see `components` | not modelled |

## Modules and the code they model

| module | content |
|---|---|
| `Channel` | abstract bounded FIFO with two ends that may go away |
| `Spsc` | the lock-free channel, one action per atomic access; implements `Channel` |
| `DiskCommit` | network thread, disk thread, file system, redo pass, delay-updates sweep |
| `NdxCodec` | the index encodings as operators, byte by byte |
| `NdxStream` | a writer and a reader of indices over one byte stream |
| `WireSession` | receiver and sender loops over buffered, bounded transports |
| `ReorderBuffer` | the ring as operators from a buffer to a buffer |
| `Delivery` | abstract: each accepted item's result once, in order |
| `DeltaPipeline` | caller, drain thread, rayon tasks, reorder thread; implements `Delivery` |
| `SpillBuffer` | the ring with an overflow file, and the reorder loop that drives it |
| `Applier` | threads applying chunks to files behind slots, and `finish_file` |
| `MemoryCap` | the cap on checked-out bytes: counter, mutex, condition variable |
| `BufferPool` | per-thread cache, central queue, byte budget, on top of `MemoryCap` |
| `IncrementalList` | entries held until their parent directory is known |
| `DeleteDrain` | plans, traversal, and both drains on copies of one destination |
| `Daemon` | acceptors, relay, main thread, workers and their guards, module limits |
| `ChannelProofs` | theorems about `Spsc` and `NdxStream` |
| `CommonProofs` | lemmas about `ReorderBuffer`, least elements and sums over finite sets |
| `ApplierProofs` | theorems about `Applier` |
| `MemoryProofs` | theorems about `MemoryCap` and `BufferPool` |
| `SpillProofs` | theorems about `SpillBuffer` |
| `DeltaProofs` | theorems about `DeltaPipeline` |
| `DiskProofs` | theorems about `DiskCommit` |
| `DaemonProofs` | theorems about `Daemon` |
| `MCDiskCommit`, `MCDeltaPipeline` | instances for TLC |
| `MCComponents` | the other components in one instance; a behaviour runs one of them |

Operators named `Mut...` stand before a definition and are that definition with one
plausible mistake in it. No specification uses them; `mutants` in `PROJECT.json`
pairs each with a property that notices the mistake.

**Spsc.** `queue` is the `ArrayQueue`, `producer_alive` and `consumer_alive` the two
flags. `send` is `SendCall`, `CheckConsumer`, `Push`; `recv` is `RecvCall`, `Pop`,
`CheckProducer`, `LastPop`; each is one atomic access, so every interleaving the
code has is there. `offered`, `accepted`, `received` and `reported` are history.
Accesses are taken to be sequentially consistent.

**DiskCommit.** The queues are atomic FIFOs, as `Spsc` justifies. Each file-system
step a crash could separate from the next is a step of its own, so an invariant
also says what a kill at that moment leaves behind. A file's content is one of
none, old, new, bad, short; its paths are destination, temp, partial, backup and
staged. `cfg` holds the options and the faults the environment may cause. Every
early return of `process_file` and `process_whole_file` is there with what it leaves
in the queue. `--inplace` and `--delay-updates` are never combined, because
`transfer/src/config/builder.rs:564` rejects the pair. `Stop` is the `--stop-at` exit at the
head of the network loop: it may happen at any turn of either pass, what it leaves behind
goes into `cut` (history), and a deadline once reached stays reached, since the wall clock is
taken not to be set back between the two passes. The unlink of a temp file is taken to
succeed. File attributes, sparse writing and io_uring submission are left out.

**NdxCodec, NdxStream.** `EncodeNdx` and `DecodeNdx` follow `write_ndx` and `read_ndx`,
with the previous positive and negative index as state.

**WireSession.** One label per place at which a side can block. `buf` is the multiplex
buffer, `keep` the part of it not yet due, `pipe` the transport. Indices are the
bytes of `NdxCodec`, so a codec out of step shows up as another file; all other
payloads are items of a kind. The disk thread appears as `undrained`: results that may
be drained later than they were sent. Incremental recursion on the sender,
`--only-write-batch`, xattr request lists and keep-alives are left out.

**ReorderBuffer, DeltaPipeline.** A work item is its sequence number. The scope's
closure keeps a pool thread until the queue closes, as rayon runs it; which waiting
task a free thread takes is left open. Releasing a permit and waking the parked
sender are two steps, as in `AdaptiveSemaphore::release`. The controller's rule is
abstracted to any ceiling within its clamp, which covers every rule; the clamp to
`MAX_CAPACITY` is left out. The ring's adaptive policy, which nothing outside tests selects, is left out.

**SpillBuffer.** A result is its sequence number; the overflow file is a sequence of
cells with the framing of the code (a tag or a length before the data), so that a read
at the wrong offset or with the wrong framing is noticed. A write may stop after any
part of a record, the directory may vanish, a read may fail, and resident memory is
read afresh at each test. Both granularities and `run_spillable_loop` are there;
compression of the payload is not.

**Applier.** A thread holds a slot's `Arc` from the clone in `slot_for` to the drop of
its `SlotHandle`, and is counted in flight from `SlotHandle::new` to the drop of the
`DecrementGuard`; the two intervals start and end at different steps. What happens
under the slot's mutex is one step. Writers may fail or panic, chunks may fail
verification.

**MemoryCap, BufferPool.** One action per atomic access. A counter is given back
without the mutex and the notification is sent with it, so these are two steps, and so
are a waiter's last look and its sleep; wake-ups may be spurious. `retained` is loaded
and stored in two steps by a release, as in `byte_budget.rs`.

**IncrementalList.** A name is the sequence of its components. `finish` and
`finalize` are the two ways a list ends. `arrived` is the history of the entries read,
which the code does not keep; `FinalizeLosesNothing` compares with it what is held, ready
and handed out.

**DeleteDrain.** The input (destination tree, announced directories, plans, entries
that cannot be removed or vanish, policy) is one of `Worlds`. The sequential emitter
and the parallel consumer run on copies of the same destination, so what they delete,
record and return can be compared.

**Daemon.** `main` is the accept loop's thread with its state, `relay` the bounded
channel between acceptor threads and it, `conn` each connection with its worker.
The list of worker handles is reaped one handle at a time, as other threads go on.
A worker holds up to three guards (connection count, module count, lock-file slot) and
drops them in the order the code does. A session is what its guards see of it: it ends
before it names a module, or claims a module's connection and ends later, normally, by
a closed connection, by an error or by a panic. A reload starts a new generation of
module counts, as `reload.rs` does.

**MCComponents.** The components in it share no state in the code either; `unit` picks
the one that runs and the others stay in an initial state. This is a way to check them
side by side, not a composition. Where components do interact they are composed:
`WireSession` uses `NdxCodec`, `DeltaPipeline`, `SpillBuffer` and `Applier` use
`ReorderBuffer`, `BufferPool` uses `MemoryCap`.

## Runs

| run | instance | shows |
|---|---|---|
| `components` | see the next table | each component's invariants, `ComponentTypesOK`, and `NobodyWaitsForEver` |
| `disk_commit` | 2 files, 2 chunks, option sets with late, permission and mid-file faults | `NoTornDestination`, `OldVersionKept`, `NoTempLeftBehind`, `ResultsMatchCommits`, `ConfirmedMeansSafe`, `CleanExitAccountsForAll`; with `--stop-at` reached at any turn or never |
| `disk_live` | 3 files, queues of 1 and 2 slots | `ShutsDown`: both threads always finish, through redo and sweep |
| `delta` | up to 5 items, ring of 2 or 4, 1-3 pool threads, panics | `RingInOrder`, `InOnePlace`, `FlushComplete`, `PermitsBalance`, `CallsReturn` (submit and flush return, threads end), implements `Delivery` |
| `disk_hang`, `disk_delay`, `wire_redo`, `wire_no_send`, `delta_one_thread`, `pool_headroom`, `list_order`, `delete_drains` | smallest instance | the disagreements below |

The units of `components`:

| unit | instance | properties |
|---|---|---|
| spsc | 2 slots, 4 items | `NothingLostOrReordered`, implements `Channel` |
| ndx | 17 indices at every boundary, 3 writes, protocols 29 and 30 | `ReadsWhatWasWritten` |
| applier | 3 threads, 2 files, ring of 3, failing and panicking writers | `NothingAckedIsMissing`: what a call acknowledged is in the file; `ReturnedWriterIsExclusive`: nobody writes after `finish_file` |
| pool | 2 threads, 3 acquisitions each, limit of two buffers, other sizes | `CapIsExact`, `NoLostWakeUp`, `CountCoversQueue` |
| list | entries before their directories, nested, never announced | `HeldWhileParentUnknown`, `FinalizeLosesNothing` |
| spill | 5 results, hot zone of 2, both granularities, I/O faults | `SpilledIsReadable`, `NothingLost`, `DeliversInOrder` |
| delete | trees of up to 3 levels, stuck and vanished entries, policies | `InTraversalOrder`, `KeepsListed`, `ExitZeroMeansGone`, `SettledDrainsAgree` |
| wire | protocols 28-31, 4 of 5 files, window 2, tiny buffers; crash, deadline, missing files | `OwnData`, `RemovalIsSafe`, `NoProtocolError`, `Complete` |
| daemon | 1-2 addresses, up to 3 connections, limits of 1 and 2, reload | `LimitsKept`, `CleanExitDrains` |

`NobodyWaitsForEver` says, for the unit that runs: sends and receives return; the
applier's threads get through their work; every acquisition returns; the reorder loop
and both drains return; a calm session ends on both sides; the daemon answers its
callers and ends when told. The index stream and the file list have no waiting.

Why the bounds are enough to be interesting. The channel's queue both fills and
drains with two slots and more items than slots. Two files are the least for which a
result can be matched with the wrong commit, and a queue of four lets the network
thread run a whole file ahead; `disk_live` uses the smallest queues because blocking
is what it is about. The indices stand on both sides of each form's limit. A window
of two with four requests makes the window slide; buffers of three and pipes of two
or three items are smaller than a window's traffic, so both sides meet full
transports. Four or five items on a ring of two wrap around, overflow the window and
force growth. Three threads let one finish a file while a second applies and a third
is between taking the slot and being counted. Two buffers of the limit and two threads
that hold one and try for another make the cap wait and wake. Two connections for a
limit of one, and a third after a reload, make the daemon refuse, reuse a slot and
meet a changed limit. Larger instances add states and no new case that we know of; the
theorems below remove the bounds where they apply.

`disk_commit` does not take the full product of options and faults: a cross-device
temp dir is combined with backups, sweeps with backups and a partial dir, in-place
writing with backups, and mid-file faults with retention. Options that meet in no code
path are not multiplied. `components` does not check deadlock because its components
really stop; `NobodyWaitsForEver` says that nobody stops too early. `DiskCommit` and
`DeltaPipeline` have a final stuttering step, so there deadlock is checked.

Only sessions of protocols 28 and 29 contain files that fail their checksum: from 30
on the redo pass does not work (`wire_redo`). The drain thread is on the side that has
it in the code (`drain`); without it two full pipes can block both sides, as
`draining_reader.rs:7-9` says.

## Fairness

Fairness is stated only for steps a scheduler must eventually run, and it is weak with
one exception. In `MCComponents` each component's fairness is owed while it runs.

* `Spsc`: each call that has begun keeps taking its steps, and the consumer keeps
  asking or goes away, as the disk loop does. Sending more, or dropping the sender,
  is nobody's duty.
* `Applier`: each thread runs on.
* `BufferPool`: each thread runs on, and gets the cap's mutex if that is free again and
  again. This is the strong fairness: others take the mutex in between. `std`'s mutex
  does not promise that much; with weak fairness alone a thread could be passed over
  for ever, which is a matter of the lock and not of this code.
* `SpillBuffer`, `DeleteDrain`: the loop runs on.
* `Daemon`: main thread, acceptors and workers run on. That a worker runs on includes
  that its session ends; clients and signals are never obliged.
* `DiskCommit`: both threads run on. No fault is ever obliged to happen.
* `WireSession`: both processes and the transport run on; deadline and crash are
  never obliged.
* `DeltaPipeline`: background threads run, a started task ends (with a result or a
  panic), some waiting task is started when a thread is free, and the caller
  completes a call it made. Whether it submits, polls, flushes or drops the pipeline
  is left open.

## Proofs

Checked by TLAPS for all constants that satisfy the named `ASSUME`s.

**`ChannelProofs`**

* The channel: `TypeCorrect`, `NoLoss`, `DisconnectSafe`, `SpscImplementsChannel`.
  Assumes a positive capacity.
  `DisconnectedMeansDrained` is not inductive: `ChannelInv` adds that the flag is down
  exactly when the producer is gone and that the consumer's last probe happens only
  then, so nothing is pushed after it. For the refinement `OfferInv` adds that an item
  is offered once and that a consumer that pops is still there; pushes, pops and drops
  are then the steps of `Channel` and every other atomic access is a stutter.
* The indices: `RoundTrip` for one index, any codec state, any bytes that follow; from
  it `NothingMisread` and `StaysInStep` for streams of any length. Indices
  are assumed to lie within 32 bits, short of the two extreme values.
  `StreamInv` records where each index starts and the codec state there, so that the
  reader's place and state are always those of some index boundary.

**`CommonProofs`** holds what several proofs rest on. Lemmas (`ForceKeepsOrder`, `NextKeepsOrder`) show
that insert, growth, forced insert and hand-over keep `RingOK`: the slot i places after
the head holds nothing or result next + i. The arithmetic of a ring (`SlotsDistinct`,
`SlotAfterHead`) is proved once. Induction over data is done by hand: a non-empty
set of naturals has a least element (`Least`, from the library's well-founded orders),
so a least counterexample is refuted. That gives the laws of a sum over a finite set
(`Total`): the function that the fold chooses exists, does not depend on the order in
which elements are taken, and an element that is added or changed changes the sum by
its own share.

**`ApplierProofs`**

* `WriterIsExclusive` for any threads, files and scripts of calls whose
  chunks name those files (`WorkAssumption`), and slots numbered from 1
  (`SlotsAssumption`). The property is about a step; it follows from `OwnerInv`: a slot
  in the map is live and under one name, a slot taken out is held by one finishing
  thread and under no name, and nobody holds the payload of a slot whose writer went
  back. `try_unwrap` sees no clone, and as the slot left the map nobody can make one.
* `AckedIsWritten`, from the same assumptions and a positive ring capacity
  (`RingAssumption`; `applier.rs:222` asserts it). `SlotInv` ties the ring of a slot to its
  file: the ring is in order and its count is the number of slots it fills, the file is in order
  and behind the ring, and as long as no write has failed the file is exactly the chunks the
  ring has handed out and the acknowledged chunks are those together with what the ring
  still holds. `finish_file` looks at the count only, so that an empty count is an empty
  ring is what the theorem turns on. `OwnerInv` is needed too: nobody inserts after the
  look at the count. That `drain_ready` stops somewhere needs `Least`.

**`MemoryProofs`**

* `NoWakeUpIsLost` for any threads, sizes and positive limit.
  `NoLostWakeUp` says that a thread asleep, or about to sleep, has no room to miss
  unless a thread is on its way to notify. It is not inductive: `CapInv` adds that the mutex is
  held exactly from the second look at the counter to the sleep, so no notification
  falls between the two.
* `QueueNeverOverflows` for every pool configuration with finitely many
  threads: the count covers the central queue and the threads between taking a slot and
  filling it, or between emptying one and uncounting it.
* `CapAlwaysExact`, from the same assumptions: the counter is the sum over the threads of
  what each has checked out, and within the limit. `StageInv` adds how a thread's place
  in the pool fits its place in the cap: it waits for exactly the length it
  will be handed, a buffer from the queue has the pool's size, and between operations it
  carries nothing. Each step then changes the share of one thread and the counter by
  the same amount (`OneMoves`).

**`SpillProofs`**: every safety property of `SpillBuffer` (`SpillTyped`,
`SpilledAlwaysReadable`, `NothingEverLost`, `SpillDelivers`), for any number of results,
capacity, budget, hot zone and sizes, both granularities and reclaim modes, and any pattern
of failing writes and reads (`SpillAssumption`). The inductive invariant `SpillInv` has
two parts.

* The buffer. No result is both in the ring and in the index, the window of the ring
  reaches the spilled ones, and `memory_used` is the weight of the ring (`Base`). Each entry
  of the index and of the batch table has its record, with its framing, below the write
  position (`Described`), which is why a later write, also one that stops half way, cannot
  touch it. A failed read takes a batch out of the table first; it ends the loop, and
  `Described` is claimed up to then.
* The loop. What is sent, what is collected and what was just removed are consecutive runs
  up to the next result expected (`InLine`); all others received are in hand or in the buffer
  (`Accounted`).

That a finite set of candidates can be sorted, so that `Candidates` lists each once, is a
lemma of its own (`AllSortable`).

**`DeltaProofs`**: every safety property of `DeltaPipeline`, for any
number of items, threads and configurations. The inductive invariant has three layers.

* `OrderInv`, for `RingAlwaysInOrder` and `DeliversInOrder`. `InOrder` is not inductive: it needs `RingOK`,
  that as many results are out as the ring has handed on, and that nothing is out
  before the reorder thread starts. No fact about tasks is needed, which is why
  order survives panics and any scheduling.
* `PermitInv`, for `PermitsAlwaysBalance`. That a task about to be spawned holds no permit
  yet needs `Queued` (the work queue holds the last items numbered, in order, and none of
  them has a task), and that there is room needs a bound on the permits out, which is the
  largest ceiling: the controller may lower the current one below what is in flight.
* `PlaceInv`, for `NothingLostOrDoubled`, `FlushReturnsAll` and `PipelineTypeCorrect`.
  `InOnePlace` counts the places of the items that were submitted; the invariant also says
  that the others are nowhere (`Balanced`), that what goes through the queues is items
  (`Typed`), and which thread has ended with nothing left behind it (`Phases`). A step moves
  one item, and the count of an item in a sequence is the cardinality of its positions,
  so no recursion is involved.
* `PipelineImplementsDelivery`: polling and flushing are the steps of `Delivery`, which
  needs the order of what is out and, for a flush, that nothing is left inside; every
  other step of the five threads is a stutter.

**`DiskProofs`**: every safety property of
`DiskCommit`, for any number of files and chunks, any positive capacity, every
combination of options and any set of failing operations (`DiskAssumption`). The
invariant is built in layers, each of which uses the ones before.

* `DiskInv` (`DestinationNeverTorn`, `TempFilesAreRemoved`). A temp file exists only
  between `open_output_file` and the end of its own file, it is complete once the thread
  is past the receive loop, and only verified data reaches the rename: that is what
  makes `NoTornDestination` inductive.
* `PipeInv` (`ResultsStayMatched`). Results and commits are matched by position only. Why
  that works takes four facts. Files go through all lists and queues in list order
  (`ListOrder`, `QueueOrder`), so each is in one place of each pass. The place of the network
  thread fits its outcome (`Phase`). The result in hand is about the file in hand, unless
  its message was nobody's (`Answer`). And as long as no error that ends the loop is under
  way, the files the network thread has noted and not heard of are exactly the ones in the disk
  thread's queue and hands (`Owed`). An error return that leaves messages behind breaks
  `Owed`, and the results after it do shift; but then the first result of the disorder is
  itself an error that ends the loop, which is the exception `ResultsMatchCommits` states.
* `BoundInv` (`DiskTypeCorrect`). The queues keep their capacities. Pending commits are in
  list order, so the i-th has a number of at least i and there are at most as many as
  files. An error is booked on a file and not on nothing because a result that does not
  end the loop has a pending commit (`Matched`).
* `Books` (`ConfirmedStaysSafe`, `OldVersionNeverLost`, `CleanExitCoversAll`). A result in
  flight can be relied on: if it reports the right digest its file is at the destination or
  staged (`ToldInv`). A file that is done with is ahead of neither thread, so nothing
  touches it again (`SettledInv`); that is where the order of the files is needed. A file
  not begun has its destination untouched, and the one in hand has its old version in
  place or in the backup (`FreshInv`). Each staged file is in the sweep's list once,
  with its destination as it was (`DelayedInv`). No file is in none of the books
  (`CoverInv`), where `cut` is the book of the files a reached deadline left behind.

`OldVersionKept` has three conditions, and each is needed: `--partial` renames unverified
data over the destination, the redo pass overwrites the in-place backup, and the
sweep goes on when its backup failed.

**`DaemonProofs`**: `LimitsAreKept`, `CleanExit` and `DaemonTyped`, for any finite set of
addresses, any number of connections, any relay capacity, limits, generations of the
modules and signals, with or without faults (`DaemonAssumption`). `DaemonInv` is a
conjunction of six facts besides the types.

* `ConnInv`: a connection has a generation exactly from the moment it has a worker.
* `RelayInv`: an accepted connection is with one acceptor or once in the relay, so no
  connection gets two workers and none is counted twice.
* `CountInv`, `LockInv`: each counter is the number of workers that hold the guard, and a
  range of the lock file is locked exactly while one worker past the lock holds it. The bound
  on all generations together is then the pigeonhole principle: sessions in the module
  hold different ranges, all below the largest limit (`LargestLimit`).
* `WorkersInv`, `EndInv`: a session that has not ended has its handle in the list, so a drain
  that has emptied the list has waited for all of them. That the loop was told to end takes
  a count of its own: while no flag is up, `alive_acceptors` counts the acceptors that listen
  and those whose error is still in the relay, so a closed relay is met only after a flag.

`TypeCorrect`, `DisconnectSafe`, `StaysInStep`, `DaemonTyped`, `SpillTyped` and `DeltaProofs`' `DeliversInOrder`
state facts that no run lists by name: the refinements of `Channel` and `Delivery`,
`ReadsWhatWasWritten`, `ComponentTypesOK` and `RingInOrder` check the same behaviour in
the runs.

Zenon is the default prover of most proof modules (`USE Zenon`); leaves that need
arithmetic name the SMT solver.

Model-checked only:

* all liveness, `ShutsDown`, `CallsReturn` and `NobodyWaitsForEver` (fairness and ENABLED
  are outside the prover);
* `DeleteDrain` and `IncrementalList`: what the cursor yields, what
  `release_pending_children` releases and what `finalize` adds are recursive functions and
  folds over sequences. Sums over sets are proved (above) by least counterexamples; these would
  each need such an argument of their own;
* `WireSession`, which is within the prover's reach and has no proof yet.

## Where the code and its documentation disagree

Each of these eight has a run whose property TLC finds violated.

1. `disk_hang`: a write error in the middle of a file. The disk thread answers each
   remaining message of the file with an error; if there are more of them than
   result slots, it blocks, then the network thread blocks on the file queue.
   `receiver/transfer/pipeline.rs:549`: "Graceful shutdown regardless of success or
   failure."
2. `disk_delay`: with `--delay-updates` the sender is told to remove a source before
   the sweep moves the file into place; the sweep may fail.
   `pipeline.rs:50-53` promises removal "only after the file has safely landed".
3. `wire_redo`: the redo pass creates new index codecs while the sender keeps its own.
   `codec.rs:602-608` says there is one state per connection.
4. `wire_no_send`: `MSG_NO_SEND` is collected and never consulted; the receiver waits
   for the response. `protocol_io.rs:386-388`: "so the receiver drops the pending entry".
5. `delta_one_thread`: with a pool of one thread and the adaptive queue the closure
   that spawns tasks occupies the only thread, so no permit comes back.
   `work_queue/tests.rs:1202-1209`: "always makes forward progress".
6. `pool_headroom`: of two overlapping releases of the byte budget one is lost, and the
   budget stays charged for a buffer the pool does not hold. `byte_budget.rs:114-116`:
   "only ever gives the pool slightly more headroom, never less".
7. `list_order`: the entries that waited for a directory are handed out before the
   directory. `flist/incremental/mod.rs:195-196`: "The entry's parent directory is
   guaranteed to have been yielded previously".
8. `delete_drains`: at a directory without a plan the sequential drain stops and
   reports success, the parallel one goes on. `delete/context/core.rs:531-534` says
   events, statistics and exit code "are identical". `SettledDrainsAgree` shows where
   they do agree.

Noticed while modelling, without a run:

* A permission error of the in-place backup aborts the transfer
  (`file_ops.rs:168`, against `receiver.rs:203`).
* With `--partial` a file that fails verification is renamed over the destination
  (`commit.rs:232`, against `file_ops.rs:98-103`).
* The redo pass overwrites the in-place backup (`file_ops.rs:168`).
* `--stop-at` (`receiver/transfer/pipeline.rs:224`) leaves the loop of a pull with whatever is
  outstanding. If responses are, the phase exchange meets them and the session ends in a
  protocol error. If none are, the run ends well and the files not asked for are skipped
  without a report; reached before the redo pass asks for anything, that includes files that
  failed verification. `CleanExitAccountsForAll` counts exactly these as left behind.
* Hard-link followers together with redo (`pipeline.rs:531`, `itemize.rs:530-533`).
* The ring does grow past the admission ceiling: permits come back before results
  leave the ring (`parallel.rs:191-192` says it never does).
* With a fixed queue the number of spawned tasks is not bounded by the queue
  (`work_queue/mod.rs:3-4`).
* After a panicking dispatch all later ordered results are dropped and `flush` returns
  normally (`loops.rs:60-67`); `FlushComplete` states exactly that.
* Spilling: `loops.rs:73-76` says the forced insert "is gone"; `loops.rs:121` calls it.
  An `insert` may return an error although the item is in the buffer; a write that
  fails after the item left the ring drops it, and the loop reports it as failed. The
  hot zone shrinks with the number of items (`spill/buffer/spill.rs:91`), so items
  within `HOT_ZONE` of the head do get spilled (`spill/buffer/mod.rs:36`).
* Applier: `finish_file` may answer that the file is still referenced, because a worker
  clones the slot (`applier.rs:444`) before it is counted (`handle.rs:67`).
* File list: `collect_sorted` leaves out entries that still wait for their directory
  (`receiver/file_list/incremental.rs:185-201`).
* Pool: one request larger than `OC_RSYNC_BUFFER_POOL_MEMORY_CAP` waits for ever; the
  model's requests fit.
* Deletion: with more than `MAX_BUFFERED_COHORTS` directories the parallel drain fails
  where the sequential one goes on; a directory that is not empty counts as deleted in the
  parallel one.
* Daemon: a reload starts the modules' counts at zero (`module_state/runtime.rs:90`), so without a lock file
  a module's limit holds for each generation by itself; `LimitsKept` says so. An error of one
  worker other than a closed connection ends the accept loop or the drain at once
  (`workers.rs:46`), so `drain_workers` does not then wait "for all remaining worker
  threads" (`workers.rs:22`); `CleanExitDrains` is about the exits without an error.

## What is not modelled

The repository has about half a million lines, and the definitions here stand for
about one in a hundred of them. What is modelled is where threads, messages, faults and file-system
steps interleave; most of the rest is sequential code on strings, bytes and
platform calls, tests, benchmarks, and back ends for other platforms.

Of the modelled parts these operations are left out:

* session: incremental recursion on the sender, `--only-write-batch`, xattr request
  lists, keep-alives and I/O timeouts; on the sender an early `NDX_DEL_STATS`, which this
  receiver sends in the goodbye only (TLC would stop at one);
* disk commit: file attributes, sparse writing, io_uring submission, a failing unlink of a
  temp file (best effort in `temp_guard.rs:571`, the error is dropped and the file stays);
* pool: adaptive resizing (no caller enables it) and the thread-slab cache (off);
* deletion: `--max-delete`, the path-based fallback, the fast path for local copies,
  the panic latch, errors other than a refused entry that end a recursive removal half way
  (`unlink.rs:469`, `493`, `530`, `541`);
* daemon: the kqueue and async engines, the counters that replace lock ranges on
  Windows, the `F_SETLK` of other Unix systems, which does not exclude the threads of one
  process (`connection_limiter.rs:160-173`; the bound across generations is Linux's), other processes on the same lock file, the session's dialogue.

Not modelled at all, and why: filters and name matching (pure functions of strings,
which a model would spell out character by character); compression, metadata and
platform calls, io_uring and IOCP (the contract is a library's or the kernel's);
transports, logging, command line and branding (I/O and rendering). Memory orderings
weaker than sequential consistency are outside TLC.

## Plan

What would add most next, in this order:

1. Signal cleanup: registration of temp files against a signal at any step.
2. Negotiation: both sides choose the same version, checksum and compression.
3. File-list encoding as a second stream codec beside `NdxCodec`; varints, frame
   headers and the rolling checksum as operators against reference definitions.
4. Incremental recursion, keep-alives and timeouts in `WireSession`.
5. Proofs: `RemovalIsSafe` and `OwnData` of `WireSession`.
