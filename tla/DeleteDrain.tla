---------------------------- MODULE DeleteDrain ----------------------------
(* The delete pipeline (crates/engine/src/delete): a DeleteContext collects a
   deletion plan per directory and the directories each one announces; emit_one
   then walks the directories depth first and deletes what the plans name.
   Two drains do that walk, the sequential DeleteEmitter and, under the feature
   parallel-delete-consumer, an emitter that hands each directory's plan as a
   cohort to a consumer thread.  The module runs both on copies of the same
   destination, one after the other, so that what they do can be compared.

   A path is the sequence of its components, numbers in f_name_cmp order; the
   root of the walk is the empty path.  The destination maps paths to kinds:
   a file stands for everything unlink removes.  On unix with the sandbox open
   (the path-based fallback of a failed open is left out), under a policy. *)
EXTENDS Naturals, FiniteSets, Sequences, FiniteSetsExt, SequencesExt, Functions

CONSTANTS
    Worlds,      \* the inputs: destination, segments, plans without a segment,
                 \* entries that cannot be removed or vanish, and the policy
    BatchCap,    \* DRAIN_BATCH_CAP
    MaxCohorts   \* MAX_BUFFERED_COHORTS

VARIABLES
    world,       \* the input chosen
    calls,       \* the calls on the context still to come
    plans,       \* DeletePlanMap: directory -> sorted entries to delete
    channel,        \* the observations in the channel
    emitter,     \* the sequential drain
    consumer     \* the parallel drain

drainVars == <<world, calls, plans, channel, emitter, consumer>>

CursorRoot == <<>>
NoDir == <<0>>
Parent(p) == SubSeq(p, 1, Len(p) - 1)
Below(p, q) == Len(p) >= Len(q) /\ SubSeq(p, 1, Len(q)) = q
Ahead(p, q) == p[Len(p)] < q[Len(q)]

(* DeletePlan::sort_by_name: files before directories, by name, then the whole
   order reversed. *)
Earlier(tree, p, q) ==
    \/ tree[p] = "dir" /\ tree[q] = "file"
    \/ tree[p] = tree[q] /\ Ahead(q, p)

(* compute_extras: the entries of the directory whose names the segment does
   not list. *)
Plan(tree, d, listed) ==
    SetToSortSeq({p \in DOMAIN tree : p # CursorRoot /\ Parent(p) = d /\ p \notin listed},
                 LAMBDA p, q : Earlier(tree, p, q))

Listed(call) == {call.kids[i].path : i \in 1 .. Len(call.kids)}

NoCursor == [child_dirs |-> <<>>, stack |-> <<>>, root_emitted |-> FALSE]

NoDrain ==
    [pc |-> "idle", cursor |-> NoCursor, plans |-> <<>>, tree |-> <<>>,
     visited |-> <<>>, deleted |-> {}, stats |-> 0, io |-> {}]

NoEmitter == NoDrain @@ [frames |-> <<>>, pending |-> NoDir]

NoConsumer ==
    NoDrain @@ [cohorts |-> <<>>, producers_done |-> FALSE, batch |-> <<>>,
                results |-> <<>>]

DrainInit ==
    /\ world \in Worlds
    /\ calls = world.calls
    /\ plans = <<>> /\ channel = <<>>
    /\ emitter = NoEmitter /\ consumer = NoConsumer

(* observe_segment_for_delete publishes the plan and announces the children, or
   fails on a directory it cannot list; observe_directory only announces;
   publish_plan_for only publishes. *)
ContextCall(c) ==
    LET listable == c.dir \in DOMAIN world.tree /\ world.tree[c.dir] = "dir" IN
    /\ c \in calls
    /\ calls' = calls \ {c}
    /\ plans' = IF c.op \in {"segment", "plan"} /\ listable
                THEN c.dir :> Plan(world.tree, c.dir, Listed(c)) @@ plans
                ELSE plans
    /\ channel' = IF c.op = "directory" \/ (c.op = "segment" /\ listable)
               THEN Append(channel, c) ELSE channel
    /\ UNCHANGED <<world, emitter, consumer>>

(* DirTraversalCursor::observe_segment. *)
Kids(cursor, d) == IF d \in DOMAIN cursor.child_dirs THEN cursor.child_dirs[d] ELSE <<>>

NewDirs(cursor, c) ==
    SelectSeq(c.kids, LAMBDA k : k.kind = "dir" /\ ~Contains(Kids(cursor, c.dir), k.path))

AllDirs(cursor, c) ==
    Kids(cursor, c.dir) \o [i \in DOMAIN NewDirs(cursor, c) |-> NewDirs(cursor, c)[i].path]

MutObserved(cursor, c) ==
    [cursor EXCEPT !.child_dirs = c.dir :> AllDirs(cursor, c) @@ @]
Observed(cursor, c) ==
    [cursor EXCEPT !.child_dirs = c.dir :> SortSeq(AllDirs(cursor, c), Ahead) @@ @]

(* DirTraversalCursor::next_ready: the root first, then the next child of the
   deepest frame that has one left. *)
Unfinished(cursor) ==
    {i \in DOMAIN cursor.stack : cursor.stack[i].ix < Len(Kids(cursor, cursor.stack[i].dir))}

Exhausted(cursor) == cursor.root_emitted /\ Unfinished(cursor) = {}

NextReady(cursor) ==
    IF ~cursor.root_emitted THEN CursorRoot
    ELSE LET f == cursor.stack[Max(Unfinished(cursor))] IN Kids(cursor, f.dir)[f.ix + 1]

Walked(cursor) ==
    LET enter == [dir |-> NextReady(cursor), ix |-> 0] IN
    IF ~cursor.root_emitted THEN [cursor EXCEPT !.root_emitted = TRUE, !.stack = <<enter>>]
    ELSE LET i == Max(Unfinished(cursor)) IN
         [cursor EXCEPT !.stack =
             Append([SubSeq(@, 1, i) EXCEPT ![i].ix = @ + 1], enter)]

(* into_drain_parts: the plans and the cursor fed with every observation.  By
   now the vanished entries have left the destination. *)
Parts ==
    [plans |-> plans,
     cursor |-> FoldLeft(Observed, NoCursor, channel),
     tree |-> Restrict(world.tree,
                       {p \in DOMAIN world.tree : \A v \in world.vanished : ~Below(p, v)})]

IntoEmitter ==
    /\ calls = {} /\ emitter.pc = "idle"
    /\ emitter' = [Parts @@ emitter EXCEPT !.pc = "next"]
    /\ UNCHANGED <<world, calls, plans, channel, consumer>>

(* The system calls on the destination.  A directory that is not empty but may
   not be removed reports the permission first. *)
Within(tree, p) == {q \in DOMAIN tree : Below(q, p)}
Drop(tree, gone) == Restrict(tree, DOMAIN tree \ gone)

Unlink(tree, p) ==
    IF p \notin DOMAIN tree THEN "vanished"
    ELSE IF p \in world.stuck THEN "denied"
    ELSE IF Within(tree, p) # {p} THEN "notempty"
    ELSE "ok"

(* recursive_unlinkat: removes what it can below p, stepping over the entries
   it may not remove.  An error other than that (a directory that cannot be read,
   a failing disk) ends the descent in the code and is left out. *)
Removable(tree, p) == {q \in Within(tree, p) : Within(tree, q) \cap world.stuck = {}}
HadErrors(tree, p) == Within(tree, p) \cap world.stuck # {}

(* record_nonfatal and accumulate_nonfatal. *)
MutIoError(outcome) == IF outcome = "vanished" THEN {"vanished"} ELSE {}
IoError(outcome) ==
    IF world.policy.ignore_errors THEN {}
    ELSE IF outcome = "vanished" THEN {"vanished"} ELSE {"general"}

ExitCode(drain) ==
    CASE drain.io = {} -> 0 [] drain.io = {"vanished"} -> 24 [] OTHER -> 23

(* DeleteEmitter::emit_all: takes the next directory, or returns when there is
   none, or parks on one whose plan is missing and returns as well. *)
TakePlan(e, d) ==
    [e EXCEPT !.plans = Drop(@, {d}),
              !.frames = Append(@, [dir |-> d, rest |-> e.plans[d]])]

EmitAll ==
    LET d == NextReady(emitter.cursor) IN
    /\ emitter.pc = "next"
    /\ emitter' =
         IF Exhausted(emitter.cursor) THEN [emitter EXCEPT !.pc = "done"]
         ELSE IF d \notin DOMAIN emitter.plans
         THEN [emitter EXCEPT !.pc = "done", !.pending = d, !.cursor = Walked(@)]
         ELSE [TakePlan(emitter, d) EXCEPT !.pc = "drain", !.cursor = Walked(@),
                                           !.visited = Append(@, d)]
    /\ UNCHANGED <<world, calls, plans, channel, consumer>>

(* run_entry after dispatch: a removal is counted, a directory left non-empty is
   noted, any other error is recorded and ends the drain unless the policy goes
   on. *)
PopEntry(e) == [e EXCEPT !.frames[Len(e.frames)].rest = Tail(@)]

RunEntry(e, p, outcome, tree) ==
    CASE outcome = "ok" ->
           [PopEntry(e) EXCEPT !.stats = @ + 1, !.deleted = @ \cup {p}, !.tree = tree]
      [] outcome = "notempty" -> [PopEntry(e) EXCEPT !.tree = tree]
      [] OTHER ->
           [PopEntry(e) EXCEPT !.tree = tree, !.io = @ \cup IoError(outcome),
               !.pc = IF world.policy.continue_on_error THEN @ ELSE "failed"]

TopFrame == emitter.frames[Len(emitter.frames)]

(* dispatch: a file, or an empty directory, goes with one call. *)
Dispatch ==
    /\ emitter.pc = "drain" /\ TopFrame.rest # <<>>
    /\ LET p == Head(TopFrame.rest)
           outcome == Unlink(emitter.tree, p) IN
       /\ outcome # "notempty"
       /\ emitter' = RunEntry(emitter, p, outcome,
                              IF outcome = "ok" THEN Drop(emitter.tree, {p}) ELSE emitter.tree)
    /\ UNCHANGED <<world, calls, plans, channel, consumer>>

(* dispatch_dir on a directory that is not empty: drain its own plan first, or
   remove the whole of it. *)
MutDispatchDir ==
    /\ emitter.pc = "drain" /\ TopFrame.rest # <<>>
    /\ LET p == Head(TopFrame.rest)
           left == Drop(emitter.tree, Removable(emitter.tree, p)) IN
       /\ Unlink(emitter.tree, p) = "notempty"
       /\ emitter' =
            RunEntry([emitter EXCEPT !.io = @ \cup
                         IF HadErrors(emitter.tree, p) THEN IoError("denied") ELSE {}],
                     p, IF p \in DOMAIN left THEN "notempty" ELSE "ok", left)
    /\ UNCHANGED <<world, calls, plans, channel, consumer>>
DispatchDir ==
    /\ emitter.pc = "drain" /\ TopFrame.rest # <<>>
    /\ LET p == Head(TopFrame.rest)
           left == Drop(emitter.tree, Removable(emitter.tree, p)) IN
       /\ Unlink(emitter.tree, p) = "notempty"
       /\ emitter' =
            IF p \in DOMAIN emitter.plans THEN TakePlan(emitter, p)
            ELSE RunEntry([emitter EXCEPT !.io = @ \cup
                              IF HadErrors(emitter.tree, p) THEN IoError("denied") ELSE {}],
                          p, IF p \in DOMAIN left THEN "notempty" ELSE "ok", left)
    /\ UNCHANGED <<world, calls, plans, channel, consumer>>

(* drain_plan returns: to emit_all, or to the dispatch_dir that now tries its
   rmdir again. *)
PlanDrained ==
    /\ emitter.pc = "drain" /\ TopFrame.rest = <<>>
    /\ LET outer == [emitter EXCEPT !.frames = SubSeq(@, 1, Len(@) - 1)]
           p == TopFrame.dir
           outcome == Unlink(emitter.tree, p) IN
       emitter' =
         IF outer.frames = <<>> THEN [outer EXCEPT !.pc = "next"]
         ELSE RunEntry(outer, p, outcome,
                       IF outcome = "ok" THEN Drop(emitter.tree, {p}) ELSE emitter.tree)
    /\ UNCHANGED <<world, calls, plans, channel, consumer>>

(* emit_parallel_from_parts: every directory that has a plan becomes a cohort,
   one without is passed over; a full buffer fails the drain. *)
HasReturned(drain) == drain.pc \in {"done", "failed"}

IntoConsumer ==
    /\ HasReturned(emitter) /\ consumer.pc = "idle"
    /\ consumer' = [Parts @@ consumer EXCEPT !.pc = "enqueue"]
    /\ UNCHANGED <<world, calls, plans, channel, emitter>>

MutEnqueueCohort ==
    LET d == NextReady(consumer.cursor) IN
    /\ consumer.pc = "enqueue" /\ ~Exhausted(consumer.cursor)
    /\ consumer' =
         IF d \notin DOMAIN consumer.plans
         THEN [consumer EXCEPT !.cursor = Walked(@)]
         ELSE IF Len(consumer.cohorts) > MaxCohorts
         THEN [consumer EXCEPT !.pc = "failed"]
         ELSE [consumer EXCEPT !.cursor = Walked(@), !.plans = Drop(@, {d}),
                  !.cohorts = Append(@, [dir |-> d, ops |-> consumer.plans[d]])]
    /\ UNCHANGED <<world, calls, plans, channel, emitter>>
EnqueueCohort ==
    LET d == NextReady(consumer.cursor) IN
    /\ consumer.pc = "enqueue" /\ ~Exhausted(consumer.cursor)
    /\ consumer' =
         IF d \notin DOMAIN consumer.plans
         THEN [consumer EXCEPT !.cursor = Walked(@)]
         ELSE IF Len(consumer.cohorts) >= MaxCohorts
         THEN [consumer EXCEPT !.pc = "failed"]
         ELSE [consumer EXCEPT !.cursor = Walked(@), !.plans = Drop(@, {d}),
                  !.cohorts = Append(@, [dir |-> d, ops |-> consumer.plans[d]])]
    /\ UNCHANGED <<world, calls, plans, channel, emitter>>

MutMarkProducersDone ==
    /\ consumer.pc = "enqueue" /\ Exhausted(consumer.cursor)
    /\ consumer' = [consumer EXCEPT !.pc = "wait"]
    /\ UNCHANGED <<world, calls, plans, channel, emitter>>
MarkProducersDone ==
    /\ consumer.pc = "enqueue" /\ Exhausted(consumer.cursor)
    /\ consumer' = [consumer EXCEPT !.pc = "wait", !.producers_done = TRUE]
    /\ UNCHANGED <<world, calls, plans, channel, emitter>>

(* wait_for_batch: up to BatchCap cohorts off the head, or the end once the
   producers are done; else the thread sleeps. *)
MutWaitForBatch ==
    /\ consumer.pc = "wait"
    /\ consumer.cohorts # <<>> \/ consumer.producers_done
    /\ LET n == Min({BatchCap, Len(consumer.cohorts)}) IN
       consumer' = IF consumer.producers_done
                   THEN [consumer EXCEPT !.pc = "done"]
                   ELSE [consumer EXCEPT !.pc = "cohort",
                            !.batch = SubSeq(consumer.cohorts, 1, n),
                            !.cohorts = SubSeq(@, n + 1, Len(@))]
    /\ UNCHANGED <<world, calls, plans, channel, emitter>>
WaitForBatch ==
    /\ consumer.pc = "wait"
    /\ consumer.cohorts # <<>> \/ consumer.producers_done
    /\ LET n == Min({BatchCap, Len(consumer.cohorts)}) IN
       consumer' = IF consumer.cohorts = <<>>
                   THEN [consumer EXCEPT !.pc = "done"]
                   ELSE [consumer EXCEPT !.pc = "cohort",
                            !.batch = SubSeq(consumer.cohorts, 1, n),
                            !.cohorts = SubSeq(@, n + 1, Len(@))]
    /\ UNCHANGED <<world, calls, plans, channel, emitter>>

(* dispatch_one on a worker of the pool, any operation of the cohort next; a
   directory that is not empty goes as a whole and counts as removed. *)
Ops == consumer.batch[1].ops

DispatchOne(i) ==
    /\ consumer.pc = "cohort" /\ consumer.batch # <<>>
    /\ i \in DOMAIN Ops \ DOMAIN consumer.results
    /\ LET p == Ops[i]
           outcome == Unlink(consumer.tree, p)
           gone == CASE outcome = "ok" -> {p}
                     [] outcome = "notempty" -> Removable(consumer.tree, p)
                     [] OTHER -> {} IN
       consumer' = [consumer EXCEPT !.tree = Drop(@, gone),
                       !.results = i :> (IF outcome # "notempty" THEN outcome
                                         ELSE IF HadErrors(consumer.tree, p) THEN "errors"
                                         ELSE "ok") @@ @]
    /\ UNCHANGED <<world, calls, plans, channel, emitter>>

(* dispatch_cohort: the results in the order of the operations, up to the first
   error when the policy stops there. *)
Errors == {i \in DOMAIN Ops : consumer.results[i] \in {"vanished", "denied"}}
Stops == ~world.policy.continue_on_error /\ Errors # {}
Tallied == IF Stops THEN 1 .. Min(Errors) ELSE DOMAIN Ops

EndCohort ==
    /\ consumer.pc = "cohort" /\ consumer.batch # <<>>
    /\ DOMAIN consumer.results = DOMAIN Ops
    /\ LET done == {i \in Tallied : consumer.results[i] \in {"ok", "errors"}} IN
       consumer' = [consumer EXCEPT
           !.visited = Append(@, consumer.batch[1].dir),
           !.stats = @ + Cardinality(done),
           !.deleted = @ \cup {Ops[i] : i \in done},
           !.io = @ \cup UNION {IoError(consumer.results[i]) :
                                   i \in {j \in Tallied : consumer.results[j] # "ok"}},
           !.results = <<>>, !.batch = Tail(@),
           !.pc = IF Stops THEN "failed" ELSE @]
    /\ UNCHANGED <<world, calls, plans, channel, emitter>>

EndBatch ==
    /\ consumer.pc = "cohort" /\ consumer.batch = <<>>
    /\ consumer' = [consumer EXCEPT !.pc = "wait"]
    /\ UNCHANGED <<world, calls, plans, channel, emitter>>

DrainNext ==
    \/ \E c \in calls : ContextCall(c)
    \/ IntoEmitter \/ EmitAll \/ Dispatch \/ DispatchDir \/ PlanDrained
    \/ IntoConsumer \/ EnqueueCohort \/ MarkProducersDone \/ WaitForBatch
    \/ \E i \in UNION {DOMAIN c.ops : c \in Range(consumer.batch)} : DispatchOne(i)
    \/ EndCohort \/ EndBatch

(* The callers of the context, the drain and the pool's workers keep running. *)
DrainFairness == WF_drainVars(DrainNext)
DrainSpec == DrainInit /\ [][DrainNext]_drainVars /\ DrainFairness
-----------------------------------------------------------------------------
(* The state's types: every path is one of the destination's or the root, a drain
   removes and never adds, and the buffer keeps its bound. *)
DrainTypeOK ==
    /\ world \in Worlds /\ calls \subseteq world.calls
    /\ DOMAIN plans \subseteq DOMAIN world.tree
    /\ Range(channel) \subseteq world.calls
    /\ emitter.pc \in {"idle", "next", "drain", "done", "failed"}
    /\ consumer.pc \in {"idle", "enqueue", "wait", "cohort", "done", "failed"}
    /\ \A d \in {emitter, consumer} :
          /\ DOMAIN d.tree \subseteq DOMAIN world.tree
          /\ DOMAIN d.plans \subseteq DOMAIN plans
          /\ d.deleted \subseteq DOMAIN world.tree
          /\ d.io \subseteq {"general", "vanished"}
          /\ d.stats = Cardinality(d.deleted)
    /\ Len(consumer.cohorts) <= MaxCohorts /\ Len(consumer.batch) <= BatchCap

(* Whatever the order of the observations, a drain visits the directories depth
   first: a directory before what lies below it, siblings by name.  Both drains
   take their directories from DirTraversalCursor::next_ready. *)
Before(p, q) ==
    \/ Below(q, p)
    \/ \E i \in 1 .. Min({Len(p), Len(q)}) :
          SubSeq(p, 1, i - 1) = SubSeq(q, 1, i - 1) /\ p[i] < q[i]
InTraversalOrder ==
    \A s \in {emitter.visited, consumer.visited} :
        \A i, j \in DOMAIN s : i < j => Before(s[i], s[j]) /\ s[i] # s[j]

(* The sequential drain never removes an entry that a call listed for its
   directory: neither a plan nor the removal of a whole directory reaches it
   (compute_extras skips the listed names, dispatch_dir drains the plan of a
   directory before it removes it). *)
KeepsListed ==
    emitter.pc # "idle" =>
        \A p \in DOMAIN Parts.tree :
            (\E c \in world.calls : p \in Listed(c)) => p \in DOMAIN emitter.tree

(* A drain that returns exit code 0 has deleted every planned entry of every
   directory it visited, but for a directory whose own plan keeps something:
   no failure of run_entry or dispatch_cohort goes unrecorded. *)
Holds(p) == \E c \in world.calls : \E q \in Listed(c) : q # p /\ Below(q, p)
ExitZeroMeansGone ==
    \A d \in {emitter, consumer} :
        d.pc = "done" /\ ExitCode(d) = 0 /\ ~world.policy.ignore_errors =>
            \A dir \in Range(d.visited) : \A p \in Range(plans[dir]) :
                p \in DOMAIN d.tree => Holds(p)

(* What emit_sequential_from_parts and emit_parallel_from_parts report: the
   entries deleted, the count, the error bits and the exit code. *)
Report(d) == <<d.pc, d.deleted, d.stats, d.io, ExitCode(d)>>
DrainsAgree ==
    HasReturned(emitter) /\ HasReturned(consumer) => Report(emitter) = Report(consumer)

(* The two drains do report the same, and leave the same destination, when every
   directory of the walk has a plan, the cohorts fit the buffer, no deleted
   directory has a plan of its own or holds an entry that cannot be removed, and
   the policy goes on after errors. *)
Settled ==
    /\ emitter.pending = NoDir /\ emitter.pc = "done"
    /\ Cardinality(Range(emitter.visited)) <= MaxCohorts
    /\ \A c \in world.calls : c.op # "plan"
    /\ \A p \in world.stuck : \E d \in Range(emitter.visited) : Contains(plans[d], p)
    /\ world.policy.continue_on_error
SettledDrainsAgree ==
    Settled /\ HasReturned(consumer) =>
        Report(emitter) = Report(consumer) /\ emitter.tree = consumer.tree

(* Both drains have returned: the emitter from its loop, the consumer thread once the
   producers are marked done and the buffer is empty (wait_for_batch). *)
DrainsReturned == HasReturned(emitter) /\ HasReturned(consumer)
=============================================================================
