---------------------------- MODULE DeltaPipeline ----------------------------
(***************************************************************************)
(* The parallel delta pipeline of the receiver: the caller's thread submits *)
(* work through a bounded queue (fixed, or gated by an adaptive semaphore), *)
(* the delta-drain thread runs a rayon scope that turns each item into a    *)
(* task, the tasks send their results through a bounded stream, and the     *)
(* delta-reorder thread puts them back in order and forwards them.          *)
(*                                                                          *)
(* A work item is its sequence number.  The scope's closure runs on a pool  *)
(* thread and keeps it until the queue is closed, so tasks share the        *)
(* remaining threads; the order in which rayon picks tasks is left open.    *)
(* The controller's rule for moving the semaphore's ceiling is abstracted   *)
(* to any value of its clamp.  The drain thread holds the queue's receiver  *)
(* until the sender is gone, so send never fails here.                      *)
(***************************************************************************)
EXTENDS ReorderBuffer, FiniteSets

CONSTANTS
    Items,       \* most work items a caller submits
    Configs,     \* the pipelines and callers, records (see PipelineAssumption)
    TickWindow   \* submits between two ticks (CONTROLLER_TICK_WINDOW)

Seqs == 0..Items - 1

ASSUME PipelineAssumption ==
    /\ Items \in Nat \ {0}
    /\ TickWindow \in Nat \ {0}
    /\ \A c \in Configs : /\ c.items \in 1..Items     \* what this caller submits
                          /\ c.dynamic \in BOOLEAN    \* adaptive_queue_enabled
                          /\ c.bypass \in BOOLEAN     \* completion order
                          /\ c.panics \in BOOLEAN     \* dispatch may panic
                          /\ c.capacity \in Nat \ {0, 1}
                          /\ c.threads \in Nat \ {0}  \* size of the rayon pool
                          /\ c.threshold \in Nat      \* DEFAULT_PARALLEL_THRESHOLD

VARIABLES
    cfg,
    pc,        \* the caller's thread
    mode,      \* ThresholdMode: "buffering" | "parallel"
    accepted,  \* items handed to submit_work of the threshold pipeline
    next,      \* next_sequence of the parallel pipeline
    since,     \* submits_since_tick
    cap,       \* the semaphore's ceiling
    inFlight,  \* the semaphore's permits in use
    workq,     \* the work queue's channel
    drain,     \* the delta-drain thread
    stage,     \* where each item's rayon task is
    panicked,  \* items whose dispatch panicked
    stream,    \* the channel from the tasks to the reorder thread
    rpc,       \* the delta-reorder thread
    cur,       \* the result that found the ring full
    forwarded, \* drain_and_record sent something since the last insert
    buf,       \* the reorder buffer
    out,       \* results sent on the result channel, in order
    taken      \* how many of them the caller has received

callerVars == <<mode, accepted, next, since>>
semVars == <<cap, inFlight>>
taskVars == <<drain, stage, panicked>>
reorderVars == <<rpc, cur, forwarded, buf, out>>
vars == <<cfg, pc, callerVars, semVars, workq, taskVars, stream, reorderVars, taken>>

Threads == cfg.threads
MinDepth == Smaller(2, cfg.capacity)                       \* ADAPTIVE_MIN_DEPTH
Ceiling == IF cfg.dynamic THEN 2 * cfg.capacity ELSE cfg.capacity
MutChannelCapacity == cfg.capacity    \* opened at the initial depth
ChannelCapacity == Ceiling
StreamCapacity == IF cfg.bypass THEN 2 * Threads ELSE Larger(Ceiling, 2 * Threads)

MutWorkTxDropped == pc \in {"done", "dropped"}   \* flush keeps its sender
WorkTxDropped == pc \in {"flush", "done", "dropped"}
ResultRxDropped == pc = "dropped"
StreamRxDropped == rpc \in {"join", "exit"}
At(s) == {i \in Seqs : stage[i] \in s}

Init ==
    /\ cfg \in Configs
    /\ pc = "idle" /\ mode = "buffering"
    /\ accepted = 0 /\ next = 0 /\ since = 0
    /\ cap = cfg.capacity /\ inFlight = 0
    /\ workq = << >>
    /\ drain = "off" /\ stage = [i \in Seqs |-> "none"] /\ panicked = {}
    /\ stream = << >>
    /\ rpc = "off" /\ cur = NoItem /\ forwarded = FALSE
    /\ buf = IF cfg.bypass THEN Passthrough ELSE New(Ceiling)
    /\ out = << >> /\ taken = 0

-----------------------------------------------------------------------------
(* The caller's thread                                                      *)

\* submit_work: below the threshold items are kept; the one that reaches it
\* starts the parallel pipeline and submits everything kept so far.
SubmitWork ==
    /\ pc = "idle" /\ accepted < cfg.items
    /\ accepted' = accepted + 1
    /\ IF mode = "parallel"
       THEN pc' = "acquire" /\ UNCHANGED <<mode, drain, rpc>>
       ELSE IF accepted + 1 >= cfg.threshold
       THEN pc' = "acquire" /\ mode' = "parallel" /\ drain' = "recv" /\ rpc' = "recv"
       ELSE UNCHANGED <<pc, mode, drain, rpc>>
    /\ UNCHANGED <<cfg, next, since, semVars, workq, stage, panicked, stream,
                   cur, forwarded, buf, out, taken>>

\* CapacitySource::acquire: nothing for a fixed queue, a permit for a dynamic
\* one, or a wait on the condition variable.
Acquire ==
    /\ pc = "acquire"
    /\ IF cfg.dynamic /\ inFlight >= cap
       THEN pc' = "parked" /\ UNCHANGED inFlight
       ELSE pc' = "send" /\ inFlight' = IF cfg.dynamic THEN inFlight + 1 ELSE inFlight
    /\ UNCHANGED <<cfg, callerVars, cap, workq, taskVars, stream, reorderVars, taken>>

\* The tick counter is not reset.
MutSend ==
    /\ pc = "send" /\ Len(workq) < ChannelCapacity
    /\ workq' = Append(workq, next)
    /\ next' = next + 1
    /\ IF ~cfg.dynamic THEN UNCHANGED <<since, cap>>
       ELSE /\ since' = since + 1
            /\ IF since + 1 < TickWindow THEN UNCHANGED cap ELSE cap' \in MinDepth..Ceiling
    /\ pc' = IF next + 1 < accepted THEN "acquire" ELSE "idle"
    /\ UNCHANGED <<cfg, mode, accepted, inFlight, taskVars, stream, reorderVars, taken>>

\* The channel takes the item, then maybe_tick may move the ceiling within its
\* clamp, then the next kept item follows.
Send ==
    /\ pc = "send" /\ Len(workq) < ChannelCapacity
    /\ workq' = Append(workq, next)
    /\ next' = next + 1
    /\ IF ~cfg.dynamic THEN UNCHANGED <<since, cap>>
       ELSE IF since + 1 < TickWindow THEN since' = since + 1 /\ UNCHANGED cap
       ELSE since' = 0 /\ cap' \in MinDepth..Ceiling
    /\ pc' = IF next + 1 < accepted THEN "acquire" ELSE "idle"
    /\ UNCHANGED <<cfg, mode, accepted, inFlight, taskVars, stream, reorderVars, taken>>

\* poll_result (try_recv on the result channel), and the same receive in the
\* blocking iterator that flush drains.
TakeResult ==
    /\ pc \in {"idle", "flush"} /\ taken < Len(out)
    /\ taken' = taken + 1
    /\ UNCHANGED <<cfg, pc, callerVars, semVars, workq, taskVars, stream, reorderVars>>

\* flush in parallel mode drops the sender and collects until the channel ends,
\* which is when the reorder thread has returned.
Flush ==
    /\ pc = "idle" /\ mode = "parallel"
    /\ pc' = "flush"
    /\ UNCHANGED <<cfg, callerVars, semVars, workq, taskVars, stream, reorderVars, taken>>

FlushEnds ==
    /\ pc = "flush" /\ taken = Len(out) /\ rpc = "exit"
    /\ pc' = "done"
    /\ UNCHANGED <<cfg, callerVars, semVars, workq, taskVars, stream, reorderVars, taken>>

\* flush below the threshold: the sequential pipeline dispatches every kept item
\* in order and returns the results.
FlushSequential ==
    /\ pc = "idle" /\ mode = "buffering"
    /\ pc' = "done"
    /\ out' = [i \in 1..accepted |-> i - 1] /\ taken' = accepted
    /\ UNCHANGED <<cfg, callerVars, semVars, workq, taskVars, stream,
                   rpc, cur, forwarded, buf>>

\* An error elsewhere drops the pipeline: sender, then result receiver.
Abandon ==
    /\ pc = "idle"
    /\ pc' = "dropped"
    /\ UNCHANGED <<cfg, callerVars, semVars, workq, taskVars, stream, reorderVars, taken>>

-----------------------------------------------------------------------------
(* The delta-drain thread and the tasks of its scope                        *)

\* drain_parallel_into: one task per received item.
Spawn ==
    /\ drain = "recv" /\ workq # << >>
    /\ stage' = [stage EXCEPT ![Head(workq)] = "task"]
    /\ workq' = Tail(workq)
    /\ UNCHANGED <<cfg, pc, callerVars, semVars, drain, panicked, stream, reorderVars, taken>>

\* The closure ends as soon as the sender is gone, whatever is still queued.
MutQueueEnds ==
    /\ drain = "recv" /\ WorkTxDropped
    /\ drain' = "scope"
    /\ UNCHANGED <<cfg, pc, callerVars, semVars, workq, stage, panicked, stream,
                   reorderVars, taken>>

\* The queue is closed and empty: the closure ends and frees its pool thread.
QueueEnds ==
    /\ drain = "recv" /\ workq = << >> /\ WorkTxDropped
    /\ drain' = "scope"
    /\ UNCHANGED <<cfg, pc, callerVars, semVars, workq, stage, panicked, stream,
                   reorderVars, taken>>

\* The scope ends with its last task; the last stream sender is dropped.  A panic
\* of a task is rethrown here and ends the thread the same way.
ScopeEnds ==
    /\ drain = "scope" /\ At({"task", "run", "release", "notify"}) = {}
    /\ drain' = "joined"
    /\ UNCHANGED <<cfg, pc, callerVars, semVars, workq, stage, panicked, stream,
                   reorderVars, taken>>

\* Pool threads free for tasks: the closure occupies one of them.
FreeThreads == (IF drain = "recv" THEN Threads - 1 ELSE Threads)
                  - Cardinality(At({"run", "release", "notify"}))

Start(s) ==
    /\ stage[s] = "task" /\ FreeThreads > 0
    /\ stage' = [stage EXCEPT ![s] = "run"]
    /\ UNCHANGED <<cfg, pc, callerVars, semVars, workq, drain, panicked, stream,
                   reorderVars, taken>>

\* What follows the task's body: a dynamic queue's permit goes back.
AfterTask == IF cfg.dynamic THEN "release" ELSE "fin"

\* The result goes to the stream, waiting for room, or nowhere once the reorder
\* thread has dropped its receiver.
SendResult(s) ==
    /\ stage[s] = "run"
    /\ IF StreamRxDropped THEN UNCHANGED stream
       ELSE Len(stream) < StreamCapacity /\ stream' = Append(stream, s)
    /\ stage' = [stage EXCEPT ![s] = AfterTask]
    /\ UNCHANGED <<cfg, pc, callerVars, semVars, workq, drain, panicked, reorderVars, taken>>

\* The permit is returned at the end of the task and not in a guard.
MutPanic(s) ==
    /\ cfg.panics /\ stage[s] = "run"
    /\ panicked' = panicked \cup {s}
    /\ stage' = [stage EXCEPT ![s] = "fin"]
    /\ UNCHANGED <<cfg, pc, callerVars, semVars, workq, drain, stream, reorderVars, taken>>

\* dispatch panics: the guard still returns the permit as the task unwinds.
Panic(s) ==
    /\ cfg.panics /\ stage[s] = "run"
    /\ panicked' = panicked \cup {s}
    /\ stage' = [stage EXCEPT ![s] = AfterTask]
    /\ UNCHANGED <<cfg, pc, callerVars, semVars, workq, drain, stream, reorderVars, taken>>

\* PermitGuard's drop: the count under the lock, the wake-up after it.
Release(s) ==
    /\ stage[s] = "release"
    /\ inFlight' = IF inFlight = 0 THEN 0 ELSE inFlight - 1
    /\ stage' = [stage EXCEPT ![s] = "notify"]
    /\ UNCHANGED <<cfg, pc, callerVars, cap, workq, drain, panicked, stream,
                   reorderVars, taken>>

\* The wake-up is forgotten.
MutNotify(s) ==
    /\ stage[s] = "notify"
    /\ stage' = [stage EXCEPT ![s] = "fin"]
    /\ UNCHANGED <<cfg, pc, callerVars, semVars, workq, drain, panicked, stream,
                   reorderVars, taken>>

Notify(s) ==
    /\ stage[s] = "notify"
    /\ pc' = IF pc = "parked" THEN "acquire" ELSE pc
    /\ stage' = [stage EXCEPT ![s] = "fin"]
    /\ UNCHANGED <<cfg, callerVars, semVars, workq, drain, panicked, stream,
                   reorderVars, taken>>

-----------------------------------------------------------------------------
(* The delta-reorder thread (run_bare_loop)                                 *)

ReorderUnchanged == UNCHANGED <<cfg, pc, callerVars, semVars, workq, taskVars, taken>>

\* The next result is inserted, or has to wait for a drain of the full ring.
Receive ==
    /\ rpc = "recv" /\ stream # << >>
    /\ stream' = Tail(stream)
    /\ IF Accepts(buf, Head(stream))
       THEN buf' = Insert(buf, Head(stream)) /\ rpc' = "drain" /\ UNCHANGED cur
       ELSE cur' = Head(stream) /\ rpc' = "full" /\ UNCHANGED buf
    /\ UNCHANGED <<forwarded, out>>
    /\ ReorderUnchanged

\* One turn of drain_and_record: the result that is due is sent, or the loop ends
\* because nobody receives.
Forward ==
    /\ rpc \in {"full", "drain", "final"} /\ Ready(buf)
    /\ buf' = NextInOrder(buf)
    /\ IF ResultRxDropped
       THEN rpc' = "join" /\ stream' = << >> /\ UNCHANGED <<out, forwarded>>
       ELSE /\ out' = Append(out, HeadItem(buf))
            /\ forwarded' = (rpc = "full")
            /\ UNCHANGED <<rpc, stream>>
    /\ UNCHANGED cur
    /\ ReorderUnchanged

\* The result that does not fit is given up.
MutRetry ==
    /\ rpc = "full" /\ ~Ready(buf)
    /\ buf' = IF Accepts(buf, cur) THEN Insert(buf, cur) ELSE buf
    /\ rpc' = "drain" /\ cur' = NoItem /\ forwarded' = FALSE
    /\ UNCHANGED <<stream, out>>
    /\ ReorderUnchanged

\* The waiting result is tried again after a drain that made room, and forced in
\* after one that found nothing due.
Retry ==
    /\ rpc = "full" /\ ~Ready(buf)
    /\ IF forwarded /\ ~Accepts(buf, cur)
       THEN UNCHANGED <<buf, rpc, cur>>
       ELSE /\ buf' = IF forwarded THEN Insert(buf, cur) ELSE ForceInsert(buf, cur)
            /\ rpc' = "drain" /\ cur' = NoItem
    /\ forwarded' = FALSE
    /\ UNCHANGED <<stream, out>>
    /\ ReorderUnchanged

\* Nothing more is due: back to the stream, on to the final drain when it has
\* ended, and from there to joining the drain thread.
Advance ==
    /\ \/ rpc = "drain" /\ ~Ready(buf) /\ rpc' = "recv"
       \/ rpc = "recv" /\ stream = << >> /\ drain = "joined" /\ rpc' = "final"
       \/ rpc = "final" /\ ~Ready(buf) /\ rpc' = "join"
       \/ rpc = "join" /\ drain = "joined" /\ rpc' = "exit"
    /\ UNCHANGED <<stream, cur, forwarded, buf, out>>
    /\ ReorderUnchanged

-----------------------------------------------------------------------------
Caller == SubmitWork \/ Acquire \/ Send \/ TakeResult \/ Flush \/ FlushEnds
             \/ FlushSequential \/ Abandon
Task(s) == Start(s) \/ SendResult(s) \/ Panic(s) \/ Release(s) \/ Notify(s)
Reorder == Receive \/ Forward \/ Retry \/ Advance
Finished == pc \in {"done", "dropped"} /\ rpc \in {"off", "exit"} /\ UNCHANGED vars

Next == Caller \/ Spawn \/ QueueEnds \/ ScopeEnds \/ (\E s \in Seqs : Task(s))
           \/ Reorder \/ Finished

Spec == Init /\ [][Next]_vars

\* The background threads keep running, dispatch of an item ends, and the caller
\* completes the calls it has made; whether it polls, flushes or drops the
\* pipeline is up to it.
FairSpec ==
    /\ Spec
    /\ WF_vars(Acquire) /\ WF_vars(Send) /\ WF_vars(pc = "flush" /\ TakeResult)
    /\ WF_vars(FlushEnds)
    /\ WF_vars(Spawn) /\ WF_vars(QueueEnds) /\ WF_vars(ScopeEnds)
    /\ WF_vars(\E s \in Seqs : Start(s))
    /\ \A s \in Seqs : WF_vars(SendResult(s) \/ Panic(s)) /\ WF_vars(Release(s) \/ Notify(s))
    /\ WF_vars(Reorder)

-----------------------------------------------------------------------------
(* Properties                                                               *)

TypeOK ==
    /\ cfg \in Configs
    /\ pc \in {"idle", "acquire", "parked", "send", "flush", "done", "dropped"}
    /\ mode \in {"buffering", "parallel"}
    /\ accepted \in 0..Items /\ next \in 0..accepted /\ since \in 0..TickWindow - 1
    /\ cap \in Nat /\ inFlight \in Nat
    /\ workq \in Seq(Seqs) /\ stream \in Seq(Seqs) /\ out \in Seq(Seqs)
    /\ drain \in {"off", "recv", "scope", "joined"}
    /\ stage \in [Seqs -> {"none", "task", "run", "release", "notify", "fin"}]
    /\ panicked \subseteq Seqs
    /\ rpc \in {"off", "recv", "full", "drain", "final", "join", "exit"}
    /\ cur \in Seqs \cup {NoItem}
    /\ taken \in 0..Len(out)

\* `poll_result receives results already in submission order' (parallel.rs):
\* whatever order the tasks finish in, however the ring fills and grows, the k-th
\* result forwarded is that of the k-th item submitted.
InOrder == ~cfg.bypass => \A i \in 1..Len(out) : out[i] = i - 1

\* Why: nothing is out before the reorder thread starts; while it runs, as many
\* results are out as the ring has handed on; and each slot of the ring holds
\* nothing or the one result that is due when the head gets there, across
\* wrap-around and growth.
RingInOrder ==
    /\ buf.bypass <=> cfg.bypass
    /\ mode = "buffering" <=> rpc = "off"
    /\ rpc = "off" => pc \in {"idle", "done", "dropped"}
    /\ ~cfg.bypass =>
          /\ RingOK(buf)
          /\ InOrder
          /\ rpc = "off" => buf.next = 0 /\ (pc = "idle" => out = << >>)
          /\ rpc \in {"recv", "full", "drain", "final"} => Len(out) = buf.next

\* A result is never dropped or duplicated on its way: while the caller still
\* listens, every submitted item is in exactly one of the queue, a task, the
\* stream, the reorder thread's hand, the ring and the results, unless its
\* dispatch panicked.
InOnePlace ==
    (pc # "dropped" /\ mode = "parallel") =>
        \A s \in 0..next - 1 :
            LET In(q) == Cardinality({i \in 1..Len(q) : q[i] = s})
            IN  In(workq) + In(stream) + In(out)
                  + (IF stage[s] \in {"task", "run"} THEN 1 ELSE 0)
                  + (IF cur = s THEN 1 ELSE 0)
                  + (IF s \in Held(buf) THEN 1 ELSE 0)
                  + (IF s \in panicked THEN 1 ELSE 0) = 1

\* `flush' returns only when everything is in: all results, or without one whose
\* task panicked, and in submission order then nothing that follows it.
FlushComplete ==
    (pc = "done" /\ mode = "parallel") =>
        {out[i] : i \in 1..taken} =
            {s \in 0..accepted - 1 : \A p \in panicked :
                                        s # p /\ (~cfg.bypass => s < p)}

\* The semaphore counts the admitted items whose task has not returned, however a
\* task ends and wherever the ceiling moved: `a failed item can never leak
\* admission capacity' (bounded.rs).  A sender that holds a permit therefore finds
\* room in the channel: `the semaphore, not the channel, is always the binding
\* constraint'.
PermitsBalance ==
    cfg.dynamic =>
        /\ inFlight = Len(workq) + Cardinality(At({"task", "run", "release"}))
                        + (IF pc = "send" THEN 1 ELSE 0)
        /\ pc = "send" => Len(workq) < ChannelCapacity

\* submit_work always returns: no wake-up of a parked sender is lost and the
\* permits come back.
SubmitReturns == pc \in {"acquire", "parked", "send"} ~> pc = "idle"

\* flush always returns, and a dropped pipeline's threads always end.
ThreadsEnd == (mode = "parallel" /\ pc \in {"flush", "dropped"}) ~>
                 (rpc = "exit" /\ pc \in {"done", "dropped"})

\* Neither the caller nor a thread of the pipeline waits for ever.
CallsReturn == SubmitReturns /\ ThreadsEnd

\* The pipeline implements the sequential loop it replaces.
Sequential == INSTANCE Delivery WITH results <- out, ordered <- ~cfg.bypass
ImplementsDelivery == Sequential!DeliverySpec
=============================================================================
