------------------------------- MODULE Daemon -------------------------------
(* The daemon's accept loop (daemon/sections/server_runtime): the acceptor    *)
(* threads of a dual-stack daemon and the bounded relay they feed, the main   *)
(* thread that reaps workers, looks at the signal flags, admits connections   *)
(* and drains, one worker thread per connection with its three guards, and    *)
(* the module limits behind a reload of the configuration.                    *)
(*                                                                            *)
(* A session is what its guards see of it: it ends before it names a module,  *)
(* or it claims the module's connection and ends later.                       *)
EXTENDS Integers, FiniteSets, Sequences

CONSTANTS Listeners,    \* addresses
          RelayCap,     \* ACCEPT_RELAY_CAPACITY
          DaemonCfgs    \* the daemons to run:
                        \*   limit     --max-connections, 0 for none
                        \*   sessions  --max-sessions, 0 for none
                        \*   caps      the module's `max connections', one per (re)load
                        \*   lockfile  whether the module has a lock file
                        \*   bound     the addresses it listens on
                        \*   via       the addresses connections are made to, in that order
                        \*   broken    addresses whose sockets cannot be made blocking
                        \*   faulty    whether locking may fail
                        \*   ends      how a session may end
                        \*   signals   what the daemon may be told

ASSUME DaemonAssumption ==
    /\ RelayCap \in Nat /\ IsFiniteSet(Listeners)
    /\ \A d \in DaemonCfgs :
          /\ d.limit \in Nat /\ d.sessions \in Nat
          /\ d.caps \in Seq(Nat) /\ d.caps # <<>>
          /\ d.lockfile \in BOOLEAN /\ d.faulty \in BOOLEAN
          /\ d.bound \subseteq Listeners /\ d.bound # {}
          /\ d.via \in Seq(Listeners)
          /\ d.signals \subseteq {"shutdown", "graceful", "reload"}

VARIABLES dcfg,      \* the daemon that runs
          flags,     \* SignalFlags
          signalled, \* the signals sent so far
          main,      \* the main thread and its AcceptLoopState
          acceptor,  \* the acceptor threads of MultiListenerEngine
          alive,     \* alive_acceptors
          relay,     \* the accept-relay channel
          conn,      \* each connection, and its worker once it has one
          active,    \* ConnectionCounter
          held,      \* active_connections of each generation's ModuleRuntime
          locks      \* who holds which range of the lock file

daemonVars == <<dcfg, flags, signalled, main, acceptor, alive, relay, conn, active, held, locks>>

Void == 0
Clients == DOMAIN dcfg.via
Single == Cardinality(dcfg.bound) = 1
Stop == flags.shutdown \/ flags.graceful
Running == main.pc # "exit"
Cap(c) == dcfg.caps[conn[c].gen]

\* The ranges of the lock file that some generation's limit admits.
Ranges == UNION {0..dcfg.caps[g] - 1 : g \in DOMAIN dcfg.caps}

DaemonInit ==
    /\ dcfg \in DaemonCfgs
    /\ flags = [shutdown |-> FALSE, graceful |-> FALSE, reload |-> FALSE]
    /\ signalled = {}
    /\ main = [pc |-> "reap", at |-> 1, workers |-> <<>>, served |-> 0, gen |-> 1, how |-> "running"]
    /\ acceptor = [l \in Listeners |-> [pc |-> IF Single \/ l \notin dcfg.bound THEN "dead" ELSE "run",
                                       item |-> Void]]
    /\ alive = Cardinality(dcfg.bound)
    /\ relay = <<>>
    /\ conn = [c \in Clients |-> [pc |-> "backlog", gen |-> 0, slot |-> 0, end |-> "none"]]
    /\ active = 0
    /\ held = [g \in DOMAIN dcfg.caps |-> 0]
    /\ locks = [s \in Ranges |-> Void]

\* The first connection in the listen queue of an address.
Oldest(c) ==
    /\ conn[c].pc = "backlog"
    /\ \A d \in 1..c - 1 : conn[d].pc = "backlog" => dcfg.via[d] # dcfg.via[c]

Become(c, pc) == conn' = [conn EXCEPT ![c].pc = pc]
MainAt(pc) == main' = [main EXCEPT !.pc = pc]

-----------------------------------------------------------------------------
(* Signals, and the acceptor threads.                                         *)

\* A handler sets its flag.
Signal(s) ==
    /\ s \in dcfg.signals \ signalled
    /\ signalled' = signalled \cup {s} /\ flags' = [flags EXCEPT ![s] = TRUE]
    /\ UNCHANGED <<dcfg, main, acceptor, alive, relay, conn, active, held, locks>>

\* The acceptor loop: a flag ends it; an accepted stream goes to the relay; one that
\* cannot be made blocking ends it, with an error for the main thread.  accept errors
\* only make it try again.
AcceptOne(l) ==
    /\ acceptor[l].pc = "run"
    /\ \/ Stop /\ acceptor' = [acceptor EXCEPT ![l].pc = "dead"] /\ UNCHANGED conn
       \/ ~Stop /\ \E c \in Clients :
            /\ Oldest(c) /\ dcfg.via[c] = l
            /\ \/ Become(c, "accepted") /\ acceptor' = [acceptor EXCEPT ![l] = [pc |-> "relay", item |-> c]]
               \/ /\ l \in dcfg.broken
                  /\ Become(c, "dropped")
                  /\ acceptor' = [acceptor EXCEPT ![l] = [pc |-> "relay", item |-> Void]]
    /\ UNCHANGED <<dcfg, flags, signalled, main, alive, relay, active, held, locks>>

\* Mutant: a full relay is waited on with a blocking send, which sees no flag.
MutRelayAcceptItem(l) ==
    /\ acceptor[l].pc = "relay"
    /\ Len(relay) < RelayCap
    /\ relay' = Append(relay, acceptor[l].item)
    /\ acceptor' = [acceptor EXCEPT ![l].pc = IF acceptor[l].item = Void THEN "dead" ELSE "run"]
    /\ UNCHANGED <<dcfg, flags, signalled, main, alive, conn, active, held, locks>>

\* relay_accept_item: into the channel, or given up when it is full and a flag is set.
RelayAcceptItem(l) ==
    LET item == acceptor[l].item IN
    /\ acceptor[l].pc = "relay"
    /\ IF Len(relay) < RelayCap
         THEN /\ relay' = Append(relay, item)
              /\ acceptor' = [acceptor EXCEPT ![l].pc = IF item = Void THEN "dead" ELSE "run"]
              /\ UNCHANGED conn
         ELSE /\ Stop
              /\ acceptor' = [acceptor EXCEPT ![l].pc = "dead"]
              /\ IF item = Void THEN UNCHANGED conn ELSE Become(item, "dropped")
              /\ UNCHANGED relay
    /\ UNCHANGED <<dcfg, flags, signalled, main, alive, active, held, locks>>

-----------------------------------------------------------------------------
(* The main thread.                                                           *)

\* join_worker: only an error that is not a closed connection is the daemon's too.
Fatal(c) == conn[c].end = "error"

\* reload_daemon_config: the next generation of modules with counts of their own, or,
\* when the file cannot be read, the old one.
Generations(g) == {g} \cup {h \in DOMAIN dcfg.caps : h = g + 1}

\* reap_finished_workers, one handle at a time: a finished one is taken out of the list
\* and joined, and the first fatal worker ends the loop.
ReapFinishedWorkers ==
    LET w == main.workers  i == main.at IN
    /\ main.pc = "reap"
    /\ main' = IF i > Len(w) THEN [main EXCEPT !.pc = "check", !.at = 1]
               ELSE IF conn[w[i]].pc # "finished" THEN [main EXCEPT !.at = i + 1]
               ELSE IF Fatal(w[i]) THEN [main EXCEPT !.pc = "exit", !.how = "error"]
               ELSE [main EXCEPT !.workers = SubSeq(w, 1, i - 1) \o SubSeq(w, i + 1, Len(w))]
    /\ UNCHANGED <<dcfg, flags, signalled, acceptor, alive, relay, conn, active, held, locks>>

\* check_signals_and_maintain, once the workers are reaped: the flags.
CheckSignals ==
    /\ main.pc = "check"
    /\ IF Stop THEN MainAt("close") /\ UNCHANGED flags
       ELSE /\ flags' = [flags EXCEPT !.reload = FALSE]
            /\ \E g \in (IF flags.reload THEN Generations(main.gen) ELSE {main.gen}) :
                  main' = [main EXCEPT !.pc = "poll", !.gen = g]
    /\ UNCHANGED <<dcfg, signalled, acceptor, alive, relay, conn, active, held, locks>>

\* Count, spawn, remember.
SpawnWorker(c) ==
    /\ conn' = [conn EXCEPT ![c].pc = "greet", ![c].gen = main.gen]
    /\ active' = active + 1
    /\ main' = [main EXCEPT !.workers = Append(@, c), !.served = @ + 1,
                            !.pc = IF main.served + 1 = dcfg.sessions THEN "close" ELSE "reap"]

\* Mutant: one connection past the cap is still admitted.
MutHandleAcceptedConnection(c) ==
    IF dcfg.limit > 0 /\ active > dcfg.limit
    THEN Become(c, "refused") /\ MainAt("reap") /\ UNCHANGED active
    ELSE SpawnWorker(c)

\* handle_accepted_connection: refuse_if_at_capacity, or a worker.
HandleAcceptedConnection(c) ==
    IF dcfg.limit > 0 /\ active >= dcfg.limit
    THEN Become(c, "refused") /\ MainAt("reap") /\ UNCHANGED active
    ELSE SpawnWorker(c)

\* poll of SingleListenerEngine: accepts itself; a socket that cannot be made blocking
\* is dropped.
PollListener ==
    /\ main.pc = "poll" /\ Single
    /\ \/ /\ \A c \in Clients : conn[c].pc # "backlog"
          /\ MainAt("reap") /\ UNCHANGED <<conn, active>>
       \/ \E c \in Clients :
            /\ Oldest(c)
            /\ \/ HandleAcceptedConnection(c)
               \/ dcfg.via[c] \in dcfg.broken /\ Become(c, "dropped") /\ MainAt("reap") /\ UNCHANGED active
    /\ UNCHANGED <<dcfg, flags, signalled, acceptor, alive, relay, held, locks>>

\* poll of MultiListenerEngine: the next item of the relay, nothing before the timeout,
\* or a channel closed by the last acceptor.
PollRelay ==
    /\ main.pc = "poll" /\ ~Single
    /\ \/ /\ relay = <<>>
          /\ MainAt(IF \A l \in Listeners : acceptor[l].pc = "dead" THEN "close" ELSE "reap")
          /\ UNCHANGED <<flags, alive, relay, conn, active>>
       \/ /\ relay # <<>> /\ Head(relay) # Void
          /\ relay' = Tail(relay)
          /\ HandleAcceptedConnection(Head(relay))
          /\ UNCHANGED <<flags, alive>>
       \/ /\ relay # <<>> /\ Head(relay) = Void
          /\ relay' = Tail(relay) /\ alive' = alive - 1
          /\ flags' = [flags EXCEPT !.shutdown = @ \/ alive = 1]
          /\ MainAt(IF alive = 1 THEN "fail" ELSE "reap")
          /\ UNCHANGED <<conn, active>>
    /\ UNCHANGED <<dcfg, signalled, acceptor, held, locks>>

\* engine.shutdown: the flag for the acceptors, then join_acceptors; a failed poll has
\* set the flag and joins as well.
ShutdownEngine ==
    /\ \/ /\ main.pc = "close" /\ ~Single
          /\ flags' = [flags EXCEPT !.shutdown = TRUE] /\ MainAt("join")
       \/ /\ main.pc = "close" /\ Single /\ MainAt("drain") /\ UNCHANGED flags
       \/ /\ main.pc \in {"join", "fail"} /\ \A l \in Listeners : acceptor[l].pc = "dead"
          /\ main' = IF main.pc = "join" THEN [main EXCEPT !.pc = "drain"]
                     ELSE [main EXCEPT !.pc = "exit", !.how = "error"]
          /\ UNCHANGED flags
    /\ UNCHANGED <<dcfg, signalled, acceptor, alive, relay, conn, active, held, locks>>

\* Mutant: the list ends at a worker that is still running.
MutDrainWorkers ==
    LET n == Len(main.workers) IN
    /\ main.pc = "drain"
    /\ main' = IF n = 0 \/ conn[main.workers[n]].pc # "finished"
                 THEN [main EXCEPT !.pc = "exit", !.how = "ok"]
                 ELSE [main EXCEPT !.workers = SubSeq(@, 1, n - 1)]
    /\ UNCHANGED <<dcfg, flags, signalled, acceptor, alive, relay, conn, active, held, locks>>

\* drain_workers, from the last handle to the first; the first fatal worker ends it.
DrainWorkers ==
    LET n == Len(main.workers) IN
    /\ main.pc = "drain"
    /\ n > 0 => conn[main.workers[n]].pc = "finished"
    /\ main' = IF n = 0 THEN [main EXCEPT !.pc = "exit", !.how = "ok"]
               ELSE IF Fatal(main.workers[n]) THEN [main EXCEPT !.pc = "exit", !.how = "error"]
               ELSE [main EXCEPT !.workers = SubSeq(@, 1, n - 1)]
    /\ UNCHANGED <<dcfg, flags, signalled, acceptor, alive, relay, conn, active, held, locks>>

MainThread == \/ ReapFinishedWorkers \/ CheckSignals \/ PollListener \/ PollRelay
              \/ ShutdownEngine \/ DrainWorkers

-----------------------------------------------------------------------------
(* A worker.                                                                  *)

\* The session ends, somehow, and the guards it holds are dropped from pc on.
\* serve_session turns a panic into a normal end.
EndSession(c, pc) == \E e \in dcfg.ends : conn' = [conn EXCEPT ![c].pc = pc, ![c].end = e]

\* The session up to the module: it ends before, or asks for one.  A module without
\* a limit is served without a guard.
Greet(c) ==
    /\ conn[c].pc = "greet"
    /\ \/ EndSession(c, "uncount")
       \/ Become(c, IF Cap(c) = 0 THEN "serve" ELSE IF dcfg.lockfile THEN "lock" ELSE "local")
    /\ UNCHANGED <<dcfg, flags, signalled, main, acceptor, alive, relay, active, held, locks>>

\* ConnectionLimiter::acquire: the first range of the file, below the limit, that is free.
\* The lock belongs to the open file (F_OFD_SETLK), so it excludes the other threads of the
\* daemon: Linux.  Elsewhere on Unix F_SETLK lets a process lock its own range again.
ClaimSlot(c) ==
    LET s == conn[c].slot IN
    /\ conn[c].pc = "lock"
    /\ \/ (s = Cap(c) \/ dcfg.faulty) /\ EndSession(c, "uncount") /\ UNCHANGED locks
       \/ /\ s < Cap(c) /\ locks[s] # Void
          /\ conn' = [conn EXCEPT ![c].slot = s + 1] /\ UNCHANGED locks
       \/ /\ s < Cap(c) /\ locks[s] = Void
          /\ locks' = [locks EXCEPT ![s] = c] /\ Become(c, "local")
    /\ UNCHANGED <<dcfg, flags, signalled, main, acceptor, alive, relay, active, held>>

AfterGuard == IF dcfg.lockfile THEN "unlock" ELSE "uncount"

\* acquire_local_slot: the count of the worker's own generation of the module.
AcquireLocalSlot(c) ==
    /\ conn[c].pc = "local"
    /\ IF held[conn[c].gen] >= Cap(c)
         THEN EndSession(c, AfterGuard) /\ UNCHANGED held
         ELSE held' = [held EXCEPT ![conn[c].gen] = @ + 1] /\ Become(c, "serve")
    /\ UNCHANGED <<dcfg, flags, signalled, main, acceptor, alive, relay, active, locks>>

\* The rest of the session.
Serve(c) ==
    /\ conn[c].pc = "serve"
    /\ EndSession(c, IF Cap(c) = 0 THEN "uncount" ELSE "leave")
    /\ UNCHANGED <<dcfg, flags, signalled, main, acceptor, alive, relay, active, held, locks>>

\* Drop of ModuleConnectionGuard: the count, then the lock.
DropModuleGuard(c) ==
    /\ conn[c].pc = "leave"
    /\ held' = [held EXCEPT ![conn[c].gen] = @ - 1]
    /\ Become(c, AfterGuard)
    /\ UNCHANGED <<dcfg, flags, signalled, main, acceptor, alive, relay, active, locks>>

Unlock(c) ==
    /\ conn[c].pc = "unlock"
    /\ locks' = [locks EXCEPT ![conn[c].slot] = Void]
    /\ Become(c, "uncount")
    /\ UNCHANGED <<dcfg, flags, signalled, main, acceptor, alive, relay, active, held>>

\* Drop of ConnectionGuard, and the end of the thread.
DropConnectionGuard(c) ==
    /\ conn[c].pc = "uncount"
    /\ active' = active - 1
    /\ Become(c, "finished")
    /\ UNCHANGED <<dcfg, flags, signalled, main, acceptor, alive, relay, held, locks>>

Worker(c) == \/ Greet(c) \/ ClaimSlot(c) \/ AcquireLocalSlot(c) \/ Serve(c)
             \/ DropModuleGuard(c) \/ Unlock(c) \/ DropConnectionGuard(c)

-----------------------------------------------------------------------------
DaemonNext ==
    /\ Running
    /\ \/ \E s \in {"shutdown", "graceful", "reload"} : Signal(s)
       \/ \E l \in Listeners : AcceptOne(l) \/ RelayAcceptItem(l)
       \/ MainThread
       \/ \E c \in Clients : Worker(c)

DaemonSpec == DaemonInit /\ [][DaemonNext]_daemonVars

-----------------------------------------------------------------------------
Spawned == {c \in Clients : conn[c].gen # 0}
InModule == {c \in Spawned : Cap(c) > 0 /\ conn[c].pc \in {"serve", "leave"}}

DaemonTypeOK ==
    /\ main.workers \in Seq(Spawned) /\ main.how \in {"running", "ok", "error"}
    /\ main.gen \in DOMAIN dcfg.caps
    /\ alive \in 0..Cardinality(Listeners) /\ Len(relay) <= RelayCap
    /\ \A c \in Clients : conn[c].slot \in 0..(IF c \in Spawned THEN Cap(c) ELSE 0)

\* No more sessions run than --max-connections allows and no more are inside a module
\* than its limit, whatever order sessions start, fail, panic and end in: each of the
\* three guards is counted exactly while it is held.  A module's count is that of one
\* generation; with a lock file sessions admitted before and after a reload hold
\* different ranges, so together they stay within the larger limit (on Linux, where a
\* range excludes the threads of one process, setlk_arg).
LimitsKept ==
    /\ active = Cardinality({c \in Spawned : conn[c].pc # "finished"})
    /\ dcfg.limit > 0 => active <= dcfg.limit
    /\ \A g \in DOMAIN dcfg.caps :
          /\ held[g] = Cardinality({c \in InModule : conn[c].gen = g})
          /\ dcfg.caps[g] > 0 => held[g] <= dcfg.caps[g]
    /\ dcfg.lockfile =>
          /\ \A c \in InModule : locks[conn[c].slot] = c
          /\ \E g \in DOMAIN dcfg.caps : Cardinality(InModule) <= dcfg.caps[g] \/ dcfg.caps[g] = 0
          /\ \A s \in DOMAIN locks :
                locks[s] # Void => conn[locks[s]].pc \in {"local", "serve", "leave", "unlock"}

\* The daemon ends without an error only when every session it started has ended, its
\* acceptors are gone, and it was told to end: by a signal or by --max-sessions.
CleanExitDrains ==
    main.how = "ok" =>
        /\ \A c \in Spawned : conn[c].pc = "finished"
        /\ \A l \in Listeners : acceptor[l].pc = "dead"
        /\ \/ signalled \cap {"shutdown", "graceful"} # {}
           \/ dcfg.sessions > 0 /\ main.served = dcfg.sessions

\* A daemon that was told to end has ended; one that was not has answered everyone
\* who called at an address it still listens on.
DaemonAtRest ==
    \/ ~Running
    \/ /\ ~Stop
       /\ \A c \in Clients :
             conn[c].pc \in {"finished", "refused", "dropped"} \/ dcfg.via[c] \in dcfg.broken
=============================================================================
