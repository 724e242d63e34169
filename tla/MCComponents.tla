---------------------------- MODULE MCComponents ----------------------------
(* The components that do not touch each other, in one instance: a behaviour  *)
(* runs the component it picked and leaves the others in an initial state.    *)
EXTENDS Spsc, NdxStream, Applier, BufferPool, IncrementalList, SpillBuffer,
        DeleteDrain, WireSession, Daemon

CONSTANT Units    \* the components to run
VARIABLE unit     \* the one this behaviour runs

-----------------------------------------------------------------------------
(* NdxStream: indices on both sides of every boundary of the encoding:        *)
(* differences of 0, 1, 253, 254, 255, 32767 and 32768, every byte of the     *)
(* four-byte form, and the four sentinels of constants.rs.                    *)
MCIndices == {0, 1, 253, 254, 255, 32767, 33021, 65536, 16777216, 2130706432,
              2147483646, -1, -2, -3, -101, -32870, -16777217}
MCProtos == {29, 30}

-----------------------------------------------------------------------------
(* Applier: workers that race with the thread that registers and finishes the *)
(* file, batches over two files, write errors and panics, and bad chunks.     *)
GoodChunk(f, s) == [file |-> f, seq |-> s, good |-> TRUE]
BadChunk(f, s) == [file |-> f, seq |-> s, good |-> FALSE]
Do(what, f) == [op |-> what, file |-> f, chunks |-> <<>>]
Apply(f, s) == [op |-> "apply", file |-> f, chunks |-> <<GoodChunk(f, s)>>]
Batch(chunks) == [op |-> "batch", file |-> 0, chunks |-> chunks]
Work(a, b, c) == [script |-> <<a, b, c>>, fault |-> [seq |-> 0, kind |-> "none"]]

Racing == Work(<<Do("register", 0), Apply(0, 1), Do("finish", 0)>>,
               <<Apply(0, 0), Do("bytes", 0)>>,
               <<Apply(0, 2)>>)
TwoFiles == Work(<<Do("register", 0), Do("register", 1),
                   Batch(<<GoodChunk(0, 0), GoodChunk(1, 0), GoodChunk(0, 1)>>), Do("finish", 0)>>,
                 <<Apply(0, 2), Apply(1, 1)>>,
                 <<Do("drain", 0), Do("finish", 1)>>)
DoneAgain == Work(<<Do("register", 0), Apply(0, 0), Do("finish", 0),
                    Do("register", 0), Apply(0, 0), Do("finish", 0)>>,
                  <<Apply(0, 1), Do("finish", 0)>>,
                  <<Apply(0, 1)>>)
Flushing == Work(<<Do("register", 0), Apply(0, 2), Do("finish", 0)>>,
                 <<Apply(0, 0), Do("flush", 0)>>,
                 <<Apply(0, 1)>>)
Rejecting == Work(<<Do("register", 0), Batch(<<GoodChunk(0, 0), BadChunk(0, 1)>>), Do("finish", 0)>>,
                  <<Apply(0, 3), Do("register", 0)>>,
                  <<[Apply(0, 0) EXCEPT !.chunks = <<BadChunk(0, 0)>>], Apply(0, 0)>>)
MCWorkloads ==
    {Racing, TwoFiles, DoneAgain, Rejecting}
    \cup {[Flushing EXCEPT !.fault = [seq |-> q, kind |-> k]] :
            q \in {0, 1}, k \in {"io", "panic"}}

-----------------------------------------------------------------------------
(* BufferPool: a queue of no, one or two buffers, and a byte budget that      *)
(* admits five units or two.                                                  *)
MCPoolCfgs == {[soft |-> 0, budget |-> 5], [soft |-> 1, budget |-> 5], [soft |-> 2, budget |-> 2]}

-----------------------------------------------------------------------------
(* IncrementalList: a/, a/b/, a/f, a/b/g and c/h in every order, with the     *)
(* directories a and a/b sent or not.                                         *)
Folder(p) == [path |-> p, dir |-> TRUE]
Plainfile(p) == [path |-> p, dir |-> FALSE]
Folders == {Folder(<<"a">>), Folder(<<"a", "b">>)}
Files == {Plainfile(<<"a", "f">>), Plainfile(<<"a", "b", "g">>), Plainfile(<<"c", "h">>)}
MCArrivals == UNION {SetToSeqs(Files \cup some) : some \in SUBSET Folders}

-----------------------------------------------------------------------------
(* SpillBuffer: rings of two and three slots, results of one and two units,   *)
(* both granularities and reclaim modes, failing writes and reads, memory     *)
(* pressure, and the buffer that never spills.                                *)
Small ==
    [capacity |-> 2, threshold |-> 1, size |-> [s \in Sequence |-> IF s = 2 THEN 2 ELSE 1],
     perItem |-> FALSE, reclaim |-> FALSE, pressure |-> FALSE, memoryOnly |-> FALSE,
     dir |-> TRUE, faulty |-> FALSE, retries |-> FALSE]
Wider == [Small EXCEPT !.capacity = 3, !.threshold = 3]
MCSpillCfgs ==
    {[Small EXCEPT !.perItem = p, !.reclaim = r, !.faulty = TRUE, !.retries = TRUE] :
        p, r \in BOOLEAN}
    \cup {[Wider EXCEPT !.perItem = p, !.faulty = TRUE, !.dir = FALSE] : p \in BOOLEAN}
    \cup {[Wider EXCEPT !.perItem = p, !.pressure = TRUE, !.reclaim = TRUE] : p \in BOOLEAN}
    \cup {[Small EXCEPT !.memoryOnly = TRUE, !.retries = r] : r \in BOOLEAN}

-----------------------------------------------------------------------------
(* DeleteDrain: the directories 1 and 2 are listed, the file 3 and the        *)
(* directory 4 with two files are not.  Entries that cannot be removed or     *)
(* vanish, both policies, a plan for the deleted directory itself, a listed   *)
(* directory the destination lacks, and more directories than cohorts fit.    *)
Kid(p, k) == [path |-> p, kind |-> k]
Segment(d, kids) == [op |-> "segment", dir |-> d, kids |-> kids]
Tree == [p \in {<<>>, <<1>>, <<2>>, <<4>>} |-> "dir"] @@
        [p \in {<<3>>, <<4, 1>>, <<4, 2>>, <<1, 1>>, <<1, 2>>, <<2, 1>>} |-> "file"]
Listing ==
    [tree |-> Tree,
     calls |-> {Segment(<<>>, <<Kid(<<2>>, "dir"), Kid(<<1>>, "dir")>>),
                Segment(<<1>>, <<Kid(<<1, 1>>, "file")>>), Segment(<<2>>, <<>>),
                [op |-> "directory", dir |-> <<>>, kids |-> <<Kid(<<2>>, "dir")>>]},
     stuck |-> {}, vanished |-> {},
     policy |-> [ignore_errors |-> FALSE, continue_on_error |-> TRUE]]
Nested == [op |-> "plan", dir |-> <<4>>, kids |-> <<Kid(<<4, 1>>, "file")>>]
Missing == [Listing EXCEPT !.tree = Drop(Tree, {<<1>>, <<1, 1>>, <<1, 2>>})]
Deeper ==
    [Listing EXCEPT !.tree = <<2, 5>> :> "dir" @@ <<2, 5, 1>> :> "file" @@ @,
                    !.calls = (@ \ {Segment(<<2>>, <<>>)}) \cup
                              {Segment(<<2>>, <<Kid(<<2, 5>>, "dir")>>), Segment(<<2, 5>>, <<>>)}]
MCWorlds ==
    {[Listing EXCEPT !.stuck = s, !.vanished = v, !.policy.ignore_errors = i] :
        s \in {{}, {<<3>>}, {<<4, 1>>}, {<<4>>, <<2, 1>>}},
        v \in {{}, {<<2, 1>>}, {<<4>>}}, i \in BOOLEAN}
    \cup {[Listing EXCEPT !.policy.continue_on_error = FALSE, !.stuck = s] :
            s \in {{<<3>>}, {<<4, 2>>}, {<<2, 1>>}}}
    \cup {[Listing EXCEPT !.calls = @ \cup {Nested}, !.stuck = s] : s \in {{}, {<<4, 2>>}}}
    \cup {Missing, Deeper}

\* A listed directory that is new at the destination.
NewDirectory == {Missing}

-----------------------------------------------------------------------------
(* WireSession: sessions without faults over every protocol generation (28:   *)
(* one phase, 29: flags and two phases, 30: delta-encoded indices, 31:        *)
(* extended goodbye), and sessions with faults.                               *)
Plain ==
    [proto |-> 31, pull |-> TRUE, dry |-> FALSE, delete |-> FALSE, remove |-> FALSE,
     stop |-> FALSE, crash |-> "none", drain |-> "S", room |-> 2, want |-> <<0, 1, 3, 4>>,
     links |-> <<>>, dirs |-> {}, gone |-> {}, bad |-> {}, rotten |-> {}]

\* No faults: both directions, dry runs, deletions, removals, followers, and
\* (before protocol 30, without followers) files that must be redone.
CalmSessions ==
    {[Plain EXCEPT !.proto = v, !.pull = pull, !.dry = dry, !.delete = opt, !.remove = opt,
                   !.links = l, !.bad = b, !.rotten = r,
                   !.drain = IF pull THEN "S" ELSE "R"] :
        v \in {28, 29, 30, 31}, pull \in BOOLEAN, dry \in BOOLEAN, opt \in BOOLEAN,
        l \in {<<>>, <<2>>}, b \in {{}, {1, 4}}, r \in {{}, {0}}}
GoodSessions ==
    {c \in CalmSessions : c.bad \cup c.rotten /= {} => c.proto < 30 /\ c.links = <<>>}

\* Faults: a side that dies at any moment, a deadline reached at any moment, files
\* the sender cannot open, directories asked for.
FaultSessions ==
    {[Plain EXCEPT !.proto = v, !.pull = pull, !.remove = TRUE, !.delete = TRUE, !.stop = stop,
                   !.gone = g, !.dirs = d, !.crash = x, !.dry = dry, !.room = 3,
                   !.drain = IF pull THEN "S" ELSE "R"] :
        v \in {29, 31}, pull \in BOOLEAN, stop \in BOOLEAN, g \in {{}, {0}}, d \in {{}, {4}},
        x \in {"R", "S", "none"}, dry \in BOOLEAN}
AllSessions == GoodSessions \cup FaultSessions

\* One file of two fails its checksum and is asked for again.
RedoSessions == {[Plain EXCEPT !.want = <<0>>, !.bad = {0}]}

\* A file in the middle of the list has vanished.
NoSendSessions == {[Plain EXCEPT !.gone = {1}]}

-----------------------------------------------------------------------------
(* Daemon: one and two addresses, both caps, a session limit, a module with   *)
(* and without a lock file that is reloaded with another limit, sockets that  *)
(* cannot be made blocking, and every end of a session.                       *)
Server ==
    [limit |-> 0, sessions |-> 0, caps |-> <<1>>, lockfile |-> FALSE, bound |-> {1},
     via |-> <<1, 1>>, broken |-> {}, faulty |-> FALSE, ends |-> {"ok"}, signals |-> {"shutdown"}]
MCDaemonCfgs ==
    {[Server EXCEPT !.limit = 1, !.ends = {"closed", "error"}, !.broken = {1}],
     [Server EXCEPT !.caps = <<2, 1>>, !.lockfile = TRUE,
                    !.ends = {"panic"}, !.signals = {"reload", "graceful"}],
     [Server EXCEPT !.lockfile = TRUE, !.faulty = TRUE, !.ends = {"closed"}],
     [Server EXCEPT !.caps = <<1, 0>>, !.sessions = 2, !.via = <<1, 1, 1>>, !.signals = {"reload"}],
     [Server EXCEPT !.bound = {1, 2}, !.via = <<1, 2, 1>>, !.caps = <<0>>, !.limit = 2],
     [Server EXCEPT !.bound = {1, 2}, !.via = <<1, 2>>, !.caps = <<0>>, !.broken = {1, 2}]}

-----------------------------------------------------------------------------
(* The composition.  The input of a component that does not run is fixed.     *)
Fixed(u, x, S) == unit # u => x = CHOOSE y \in S : TRUE

CInit ==
    /\ unit \in Units
    /\ Init
    /\ Fixed("ndx", proto, Protos) /\ NdxInit
    /\ Fixed("applier", work, Workloads) /\ ApplierInit
    /\ Fixed("pool", poolcfg, PoolCfgs) /\ PoolInit
    /\ Fixed("list", incoming, Arrivals) /\ ListInit
    /\ Fixed("spill", scfg, SpillCfgs) /\ SpillInit
    /\ Fixed("delete", world, Worlds) /\ DrainInit
    /\ Fixed("wire", session, Sessions) /\ WireInit
    /\ Fixed("daemon", dcfg, DaemonCfgs) /\ DaemonInit

Alone(u) ==
    /\ unit = u /\ unit' = unit
    /\ IF u = "spsc" THEN TRUE ELSE UNCHANGED vars
    /\ IF u = "ndx" THEN TRUE ELSE UNCHANGED ndxVars
    /\ IF u = "applier" THEN TRUE ELSE UNCHANGED applierVars
    /\ IF u = "pool" THEN TRUE ELSE UNCHANGED poolVars
    /\ IF u = "list" THEN TRUE ELSE UNCHANGED listVars
    /\ IF u = "spill" THEN TRUE ELSE UNCHANGED spillVars
    /\ IF u = "delete" THEN TRUE ELSE UNCHANGED drainVars
    /\ IF u = "wire" THEN TRUE ELSE UNCHANGED wireVars
    /\ IF u = "daemon" THEN TRUE ELSE UNCHANGED daemonVars

CNext ==
    \/ Alone("spsc") /\ Next
    \/ Alone("ndx") /\ NdxNext
    \/ Alone("applier") /\ ApplierNext
    \/ Alone("pool") /\ PoolNext
    \/ Alone("list") /\ ListNext
    \/ Alone("spill") /\ SpillNext
    \/ Alone("delete") /\ DrainNext
    \/ Alone("wire") /\ WireNext
    \/ Alone("daemon") /\ DaemonNext

allVars == <<unit, vars, ndxVars, applierVars, poolVars, listVars, spillVars, drainVars, wireVars,
             daemonVars>>

\* Each component's own fairness, owed while it runs.
CFairness ==
    /\ WF_vars(unit = "spsc" /\ CheckConsumer) /\ WF_vars(unit = "spsc" /\ Push)
    /\ WF_vars(unit = "spsc" /\ Pop) /\ WF_vars(unit = "spsc" /\ CheckProducer)
    /\ WF_vars(unit = "spsc" /\ LastPop)
    /\ WF_vars(unit = "spsc" /\ (RecvCall \/ DropReceiver))
    /\ \A t \in Threads : WF_applierVars(unit = "applier" /\ Step(t))
    /\ \A t \in Copiers : /\ WF_poolVars(unit = "pool" /\ Proceeds(t))
                          /\ SF_poolVars(unit = "pool" /\ Locks(t))
    /\ WF_spillVars(unit = "spill" /\ SpillNext)
    /\ WF_drainVars(unit = "delete" /\ DrainNext)
    /\ WF_wireVars(unit = "wire" /\ Receiver) /\ WF_wireVars(unit = "wire" /\ Sender)
    /\ \A p \in Side : WF_wireVars(unit = "wire" /\ Transport(p))
    /\ WF_daemonVars(unit = "daemon" /\ Running /\ MainThread)
    /\ \A l \in Listeners : WF_daemonVars(unit = "daemon" /\ Running /\ (AcceptOne(l) \/ RelayAcceptItem(l)))
    /\ \A c \in 1..3 : WF_daemonVars(unit = "daemon" /\ Running /\ c \in Clients /\ Worker(c))

CSpec == CInit /\ [][CNext]_allVars
CFairSpec == CSpec /\ CFairness

\* Every piece of the running component's state is of its kind; the others are in
\* states in which they start.
ComponentTypesOK ==
    CASE unit = "spsc" -> TypeOK
      [] unit = "ndx" -> NdxTypeOK
      [] unit = "applier" -> ApplierTypeOK
      [] unit = "pool" -> PoolTypeOK
      [] unit = "list" -> ListTypeOK
      [] unit = "spill" -> SpillTypeOK
      [] unit = "delete" -> DrainTypeOK
      [] unit = "wire" -> WireTypeOK
      [] unit = "daemon" -> DaemonTypeOK

\* Nobody waits for ever: sends, receives and acquires return, the applier's threads
\* get through their work, the reorder loop and both delete drains return, a calm
\* session ends on both sides, and the daemon answers its callers and ends when told.
AtRest ==
    CASE unit = "spsc" -> CallsReturned
      [] unit = "applier" -> WorkFinished
      [] unit = "pool" -> AcquiresReturned
      [] unit = "spill" -> LoopReturned
      [] unit = "delete" -> DrainsReturned
      [] unit = "wire" -> CalmSessionOver
      [] unit = "daemon" -> DaemonAtRest
      [] OTHER -> TRUE
NobodyWaitsForEver == []<>AtRest
=============================================================================
