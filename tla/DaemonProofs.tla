---------------------------- MODULE DaemonProofs ----------------------------
(***************************************************************************)
(* The daemon's accept loop, for every number of addresses and connections, *)
(* every relay capacity and every configuration: its counters are exact and *)
(* its limits kept, and an end without an error is one it was told to make, *)
(* after every session it started.                                          *)
(***************************************************************************)
EXTENDS Daemon, FiniteSetTheorems, TLAPS

\* The leaves are tried with Zenon unless they name another prover.
USE Zenon

-----------------------------------------------------------------------------
(* The inductive invariant.                                                   *)

MainPlaces == {"reap", "check", "poll", "close", "join", "drain", "fail", "exit"}
Outside == {"backlog", "accepted", "dropped", "refused"}    \* no worker yet, or never
WorkerPlaces == {"greet", "lock", "local", "serve", "leave", "unlock", "uncount", "finished"}
Flags == [shutdown : BOOLEAN, graceful : BOOLEAN, reload : BOOLEAN]
MainState == [pc : MainPlaces, at : Nat \ {0}, workers : Seq(Clients), served : Nat,
              gen : DOMAIN dcfg.caps, how : {"running", "ok", "error"}]
AcceptorState == [pc : {"run", "relay", "dead"}, item : Clients \cup {Void}]
ConnState == [pc : Outside \cup WorkerPlaces, gen : Nat, slot : Nat, end : dcfg.ends \cup {"none"}]

\* The types of the variables.
DaemonTypes ==
    /\ dcfg \in DaemonCfgs
    /\ flags \in Flags
    /\ signalled \subseteq {"shutdown", "graceful", "reload"}
    /\ main \in MainState
    /\ acceptor \in [Listeners -> AcceptorState]
    /\ alive \in Int
    /\ relay \in Seq(Clients \cup {Void})
    /\ conn \in [Clients -> ConnState]
    /\ active \in Int
    /\ held \in [DOMAIN dcfg.caps -> Int]
    /\ locks \in [Ranges -> Clients \cup {Void}]

\* A connection has a generation of the module from the moment it has a worker, and
\* looks for a range of the lock file no further than that generation's limit.
ConnOK(r) ==
    /\ r.gen \in DOMAIN dcfg.caps \cup {0}
    /\ r.gen = 0 <=> r.pc \in Outside
    /\ r.gen = 0 => r.slot = 0
    /\ r.gen # 0 => r.slot <= dcfg.caps[r.gen]
    /\ r.pc \in {"lock", "local", "leave", "unlock"} => dcfg.caps[r.gen] > 0
    /\ r.pc \in {"lock", "unlock"} => dcfg.lockfile
ConnInv == \A c \in Clients : ConnOK(conn[c])

\* A connection accepted but not admitted is in one place only: with the acceptor that
\* carries it or once in the relay.
Relayed(c) == \E i \in 1..Len(relay) : relay[i] = c
Carried(l) == acceptor[l].pc = "relay" /\ acceptor[l].item # Void
RelayInv ==
    /\ Len(relay) <= RelayCap
    /\ \A i \in 1..Len(relay) : relay[i] # Void => conn[relay[i]].pc = "accepted"
    /\ \A i, j \in 1..Len(relay) : relay[i] = relay[j] /\ relay[i] # Void => i = j
    /\ \A l \in Listeners : Carried(l) =>
          conn[acceptor[l].item].pc = "accepted" /\ ~Relayed(acceptor[l].item)
    /\ \A l, m \in Listeners :
          Carried(l) /\ Carried(m) /\ acceptor[l].item = acceptor[m].item => l = m

\* Each counter is the number of the guards that are held, at most its limit.
InSession == {c \in Clients : conn[c].pc \in WorkerPlaces \ {"finished"}}
Counted(g) == {c \in Clients : conn[c].gen = g /\ Cap(c) > 0 /\ conn[c].pc \in {"serve", "leave"}}
CountInv ==
    /\ active = Cardinality(InSession)
    /\ dcfg.limit > 0 => active <= dcfg.limit
    /\ \A g \in DOMAIN dcfg.caps :
          /\ held[g] = Cardinality(Counted(g))
          /\ dcfg.caps[g] > 0 => held[g] <= dcfg.caps[g]

\* A range of the lock file is locked exactly while a worker past the lock holds it.
Holder(r) == r.gen # 0 /\ dcfg.caps[r.gen] > 0 /\ r.pc \in {"local", "serve", "leave", "unlock"}
LockInv ==
    dcfg.lockfile =>
       /\ \A c \in Clients : Holder(conn[c]) =>
             /\ conn[c].slot \in Ranges /\ conn[c].slot < Cap(c)
             /\ locks[conn[c].slot] = c
       /\ \A s \in Ranges : locks[s] # Void =>
             Holder(conn[locks[s]]) /\ conn[locks[s]].slot = s

\* Every session that has not ended has its handle in the list of workers.
WorkersInv ==
    /\ \A i \in 1..Len(main.workers) : conn[main.workers[i]].gen # 0
    /\ \A c \in InSession : \E i \in 1..Len(main.workers) : main.workers[i] = c

\* What the end of the loop rests on: acceptors stay dead once they are, the loop is left
\* for the drain only when the daemon was told to end, and while it was not, alive_acceptors
\* counts the acceptors that listen and those whose error is still in the relay, so that
\* a closed relay is met only after a flag.
Looping == {"reap", "check", "poll"}
Asked == signalled \cap {"shutdown", "graceful"} # {}
Told == Asked \/ (dcfg.sessions > 0 /\ main.served = dcfg.sessions)
AllDead == \A l \in Listeners : acceptor[l].pc = "dead"
Listening == {l \in Listeners : acceptor[l].pc # "dead"}
Voids(s) == {i \in 1..Len(s) : s[i] = Void}

EndInv ==
    /\ main.pc = "exit" <=> main.how # "running"
    /\ main.how = "ok" => main.workers = <<>>
    /\ main.pc = "drain" \/ main.how = "ok" \/ Single => AllDead
    /\ main.pc \in {"close", "join", "drain"} \/ main.how = "ok" => Told
    /\ main.pc \in Looping => alive >= 1 /\ (Stop => Asked)
    /\ ~Stop /\ ~Single => alive = Cardinality(Listening) + Cardinality(Voids(relay))
    /\ alive \in 0..Cardinality(Listeners)

-----------------------------------------------------------------------------
\* What the assumption on the configurations says of the one that runs.
LEMMA CfgFacts ==
  ASSUME DaemonTypes
  PROVE  /\ dcfg.limit \in Nat /\ dcfg.sessions \in Nat
         /\ dcfg.caps \in Seq(Nat) /\ dcfg.caps # << >>
         /\ DOMAIN dcfg.caps = 1..Len(dcfg.caps) /\ Len(dcfg.caps) \in Nat \ {0}
         /\ \A g \in DOMAIN dcfg.caps : g \in Nat \ {0} /\ dcfg.caps[g] \in Nat
         /\ dcfg.lockfile \in BOOLEAN
         /\ dcfg.bound \subseteq Listeners /\ dcfg.bound # {}
         /\ Clients \subseteq Nat \ {0} /\ IsFiniteSet(Clients)
<1>1. dcfg \in DaemonCfgs
  BY DEF DaemonTypes
<1>2. /\ dcfg.via \in Seq(Listeners) /\ dcfg.caps \in Seq(Nat) /\ dcfg.caps # << >>
  BY <1>1, DaemonAssumption
<1>3. Clients = 1..Len(dcfg.via) /\ Len(dcfg.via) \in Nat
  BY <1>2, SMTT(60) DEF Clients
<1>4. IsFiniteSet(Clients) /\ Clients \subseteq Nat \ {0}
  <2>1. \A n \in Nat : IsFiniteSet(1..n)
    BY FS_Interval, SMTT(60)
  <2>2. IsFiniteSet(Clients)
    BY <1>3, <2>1
  <2>3. Clients \subseteq Nat \ {0}
    BY <1>3, SMTT(60)
  <2>4. QED
    BY <2>2, <2>3
<1>5. DOMAIN dcfg.caps = 1..Len(dcfg.caps) /\ Len(dcfg.caps) \in Nat \ {0}
  BY <1>2, SMTT(60)
<1>6. \A g \in DOMAIN dcfg.caps : g \in Nat \ {0} /\ dcfg.caps[g] \in Nat
  BY <1>2, <1>5, SMTT(60)
<1>7. QED
  BY <1>1, <1>2, <1>4, <1>5, <1>6, DaemonAssumption

\* A connection is at another place of its worker's program; the rest of it and the
\* other connections are as they were.
Moved(c, pc, s) ==
    /\ conn' \in [Clients -> ConnState]
    /\ conn'[c].pc = pc /\ conn'[c].gen = conn[c].gen /\ conn'[c].slot = s
    /\ \A d \in Clients \ {c} : conn'[d] = conn[d]

ConnPlaces == Outside \cup WorkerPlaces

LEMMA BecomeMoves ==
  ASSUME DaemonTypes, NEW c \in Clients, NEW pc \in ConnPlaces, Become(c, pc)
  PROVE  Moved(c, pc, conn[c].slot)
BY DEF DaemonTypes, Become, Moved, ConnState, ConnPlaces

LEMMA EndMoves ==
  ASSUME DaemonTypes, NEW c \in Clients, NEW pc \in ConnPlaces, EndSession(c, pc)
  PROVE  Moved(c, pc, conn[c].slot)
<1>1. PICK e \in dcfg.ends : conn' = [conn EXCEPT ![c].pc = pc, ![c].end = e]
  BY DEF EndSession
<1>2. conn \in [Clients -> ConnState]
  BY DEF DaemonTypes
<1>3. /\ conn'[c].pc = pc /\ conn'[c].gen = conn[c].gen /\ conn'[c].slot = conn[c].slot
      /\ conn'[c] \in ConnState
  BY <1>1, <1>2 DEF ConnState, ConnPlaces
<1>4. \A d \in Clients \ {c} : conn'[d] = conn[d]
  BY <1>1, <1>2
<1>5. conn' \in [Clients -> ConnState]
  BY <1>1, <1>2, <1>3, <1>4
<1>6. QED
  BY <1>3, <1>4, <1>5 DEF Moved

LEMMA SlotMoves ==
  ASSUME DaemonTypes, NEW c \in Clients, NEW s \in Nat, conn' = [conn EXCEPT ![c].slot = s]
  PROVE  Moved(c, conn[c].pc, s)
BY DEF DaemonTypes, Moved, ConnState

\* A connection gets its worker.
Admitted(c) ==
    /\ conn[c].pc \in {"backlog", "accepted"}
    /\ ~(dcfg.limit > 0 /\ active >= dcfg.limit)
    /\ conn' \in [Clients -> ConnState]
    /\ conn'[c].pc = "greet" /\ conn'[c].gen = main.gen /\ conn'[c].slot = conn[c].slot
    /\ \A d \in Clients \ {c} : conn'[d] = conn[d]
    /\ active' = active + 1
    /\ UNCHANGED <<held, locks>>

\* A connection without one stays without.
Turned(c) ==
    /\ conn[c].pc \in {"backlog", "accepted"}
    /\ \E pc \in Outside : Moved(c, pc, conn[c].slot)
    /\ UNCHANGED <<active, held, locks>>

Quiet == UNCHANGED <<conn, active, held, locks>>

LEMMA HandleMoves ==
  ASSUME DaemonTypes, NEW c \in Clients, conn[c].pc \in {"backlog", "accepted"},
         HandleAcceptedConnection(c), UNCHANGED <<held, locks>>
  PROVE  Turned(c) \/ Admitted(c)
<1>1. CASE dcfg.limit > 0 /\ active >= dcfg.limit
  <2>1. Become(c, "refused") /\ UNCHANGED active
    BY <1>1 DEF HandleAcceptedConnection
  <2>2. Moved(c, "refused", conn[c].slot)
    BY <2>1, BecomeMoves DEF ConnPlaces, Outside
  <2>3. QED
    BY <2>1, <2>2 DEF Turned, Outside
<1>2. CASE ~(dcfg.limit > 0 /\ active >= dcfg.limit)
  <2>1. conn' = [conn EXCEPT ![c].pc = "greet", ![c].gen = main.gen] /\ active' = active + 1
    BY <1>2 DEF HandleAcceptedConnection, SpawnWorker
  <2>2. conn \in [Clients -> ConnState] /\ main.gen \in Nat
    BY CfgFacts DEF DaemonTypes, MainState
  <2>3. /\ conn'[c].pc = "greet" /\ conn'[c].gen = main.gen /\ conn'[c].slot = conn[c].slot
        /\ conn'[c] \in ConnState
    BY <2>1, <2>2 DEF ConnState, WorkerPlaces
  <2>4. \A d \in Clients \ {c} : conn'[d] = conn[d]
    BY <2>1, <2>2
  <2>5. conn' \in [Clients -> ConnState]
    BY <2>1, <2>2, <2>3, <2>4
  <2>6. QED
    BY <1>2, <2>1, <2>3, <2>4, <2>5 DEF Admitted
<1>3. QED
  BY <1>1, <1>2

-----------------------------------------------------------------------------
(* The connections and their workers.                                         *)

LEMMA ConnMove ==
  ASSUME ConnInv, UNCHANGED dcfg, NEW c \in Clients, ConnOK(conn'[c]),
         \A d \in Clients \ {c} : conn'[d] = conn[d]
  PROVE  ConnInv'
<1>1. Clients' = Clients /\ \A r : ConnOK(r)' <=> ConnOK(r)
  BY DEF Clients, ConnOK
<1>2. \A d \in Clients : ConnOK(conn'[d])
  BY DEF ConnInv
<1>3. QED
  BY <1>1, <1>2 DEF ConnInv, ConnOK

\* What each step of a worker does to its connection.
LEMMA GreetMoves ==
  ASSUME DaemonTypes, NEW c \in Clients, Greet(c)
  PROVE  /\ conn[c].pc = "greet" /\ UNCHANGED <<dcfg, active, held, locks>>
         /\ \/ Moved(c, "uncount", conn[c].slot)
            \/ Cap(c) = 0 /\ Moved(c, "serve", conn[c].slot)
            \/ Cap(c) # 0 /\ dcfg.lockfile /\ Moved(c, "lock", conn[c].slot)
            \/ Cap(c) # 0 /\ ~dcfg.lockfile /\ Moved(c, "local", conn[c].slot)
<1>1. "uncount" \in ConnPlaces /\ "serve" \in ConnPlaces /\ "lock" \in ConnPlaces /\ "local" \in ConnPlaces
  BY DEF ConnPlaces, WorkerPlaces
<1>2. CASE EndSession(c, "uncount")
  BY <1>1, <1>2, EndMoves DEF Greet
<1>3. CASE Become(c, IF Cap(c) = 0 THEN "serve" ELSE IF dcfg.lockfile THEN "lock" ELSE "local")
  <2>1. CASE Cap(c) = 0
    BY <1>1, <1>3, <2>1, BecomeMoves DEF Greet
  <2>2. CASE Cap(c) # 0 /\ dcfg.lockfile
    BY <1>1, <1>3, <2>2, BecomeMoves DEF Greet
  <2>3. CASE Cap(c) # 0 /\ ~dcfg.lockfile
    BY <1>1, <1>3, <2>3, BecomeMoves DEF Greet
  <2>4. QED
    BY <1>3, <2>1, <2>2, <2>3
<1>4. QED
  BY <1>2, <1>3 DEF Greet

LEMMA ClaimMoves ==
  ASSUME DaemonTypes, NEW c \in Clients, ClaimSlot(c)
  PROVE  /\ conn[c].pc = "lock" /\ UNCHANGED <<dcfg, active, held>>
         /\ \/ Moved(c, "uncount", conn[c].slot) /\ UNCHANGED locks
            \/ /\ conn[c].slot < Cap(c) /\ Moved(c, "lock", conn[c].slot + 1)
               /\ UNCHANGED locks
            \/ /\ conn[c].slot < Cap(c) /\ locks[conn[c].slot] = Void
               /\ Moved(c, "local", conn[c].slot)
               /\ locks' = [locks EXCEPT ![conn[c].slot] = c]
<1>1. "uncount" \in ConnPlaces /\ "local" \in ConnPlaces
  BY DEF ConnPlaces, WorkerPlaces
<1>2. conn[c].pc = "lock" /\ UNCHANGED <<dcfg, active, held>>
  BY DEF ClaimSlot
<1>3. CASE EndSession(c, "uncount") /\ UNCHANGED locks
  BY <1>1, <1>2, <1>3, EndMoves
<1>4. CASE conn[c].slot < Cap(c) /\ conn' = [conn EXCEPT ![c].slot = conn[c].slot + 1] /\ UNCHANGED locks
  <2>1. conn[c].slot + 1 \in Nat
    BY SMTT(60) DEF DaemonTypes, ConnState
  <2>2. Moved(c, "lock", conn[c].slot + 1)
    BY <1>2, <1>4, <2>1, SlotMoves
  <2>3. QED
    BY <1>2, <1>4, <2>2
<1>5. CASE /\ conn[c].slot < Cap(c) /\ locks[conn[c].slot] = Void
           /\ locks' = [locks EXCEPT ![conn[c].slot] = c] /\ Become(c, "local")
  BY <1>1, <1>2, <1>5, BecomeMoves
<1>6. QED
  BY <1>3, <1>4, <1>5 DEF ClaimSlot

LEMMA LocalMoves ==
  ASSUME DaemonTypes, NEW c \in Clients, AcquireLocalSlot(c)
  PROVE  /\ conn[c].pc = "local" /\ UNCHANGED <<dcfg, active, locks>>
         /\ \/ /\ dcfg.lockfile /\ UNCHANGED held
               /\ Moved(c, "unlock", conn[c].slot)
            \/ /\ ~dcfg.lockfile /\ UNCHANGED held
               /\ Moved(c, "uncount", conn[c].slot)
            \/ /\ ~(held[conn[c].gen] >= Cap(c))
               /\ held' = [held EXCEPT ![conn[c].gen] = @ + 1]
               /\ Moved(c, "serve", conn[c].slot)
<1>1. "uncount" \in ConnPlaces /\ "unlock" \in ConnPlaces /\ "serve" \in ConnPlaces
  BY DEF ConnPlaces, WorkerPlaces
<1>2. conn[c].pc = "local" /\ UNCHANGED <<dcfg, active, locks>>
  BY DEF AcquireLocalSlot
<1>3. CASE EndSession(c, AfterGuard) /\ UNCHANGED held
  <2>1. CASE dcfg.lockfile
    BY <1>1, <1>2, <1>3, <2>1, EndMoves DEF AfterGuard
  <2>2. CASE ~dcfg.lockfile
    BY <1>1, <1>2, <1>3, <2>2, EndMoves DEF AfterGuard
  <2>3. QED
    BY <2>1, <2>2
<1>4. CASE /\ ~(held[conn[c].gen] >= Cap(c)) /\ Become(c, "serve")
           /\ held' = [held EXCEPT ![conn[c].gen] = @ + 1]
  BY <1>1, <1>2, <1>4, BecomeMoves
<1>5. QED
  BY <1>3, <1>4 DEF AcquireLocalSlot

LEMMA ServeMoves ==
  ASSUME DaemonTypes, NEW c \in Clients, Serve(c)
  PROVE  /\ conn[c].pc = "serve" /\ UNCHANGED <<dcfg, active, held, locks>>
         /\ \/ Cap(c) = 0 /\ Moved(c, "uncount", conn[c].slot)
            \/ Cap(c) # 0 /\ Moved(c, "leave", conn[c].slot)
<1>1. "uncount" \in ConnPlaces /\ "leave" \in ConnPlaces
  BY DEF ConnPlaces, WorkerPlaces
<1>2. CASE Cap(c) = 0
  BY <1>1, <1>2, EndMoves DEF Serve
<1>3. CASE Cap(c) # 0
  BY <1>1, <1>3, EndMoves DEF Serve
<1>4. QED
  BY <1>2, <1>3

LEMMA DropMoves ==
  ASSUME DaemonTypes, NEW c \in Clients
  PROVE  /\ DropModuleGuard(c) =>
               /\ conn[c].pc = "leave" /\ UNCHANGED <<dcfg, active, locks>>
               /\ held' = [held EXCEPT ![conn[c].gen] = @ - 1]
               /\ \/ dcfg.lockfile /\ Moved(c, "unlock", conn[c].slot)
                  \/ ~dcfg.lockfile /\ Moved(c, "uncount", conn[c].slot)
         /\ Unlock(c) =>
               /\ conn[c].pc = "unlock" /\ UNCHANGED <<dcfg, active, held>>
               /\ locks' = [locks EXCEPT ![conn[c].slot] = Void]
               /\ Moved(c, "uncount", conn[c].slot)
         /\ DropConnectionGuard(c) =>
               /\ conn[c].pc = "uncount" /\ UNCHANGED <<dcfg, held, locks>>
               /\ active' = active - 1
               /\ Moved(c, "finished", conn[c].slot)
<1>1. "uncount" \in ConnPlaces /\ "unlock" \in ConnPlaces /\ "finished" \in ConnPlaces
  BY DEF ConnPlaces, WorkerPlaces
<1>2. ASSUME DropModuleGuard(c)
      PROVE  \/ dcfg.lockfile /\ Moved(c, "unlock", conn[c].slot)
             \/ ~dcfg.lockfile /\ Moved(c, "uncount", conn[c].slot)
  <2>1. CASE dcfg.lockfile
    BY <1>1, <1>2, <2>1, BecomeMoves DEF DropModuleGuard, AfterGuard
  <2>2. CASE ~dcfg.lockfile
    BY <1>1, <1>2, <2>2, BecomeMoves DEF DropModuleGuard, AfterGuard
  <2>3. QED
    BY <2>1, <2>2
<1>3. ASSUME Unlock(c) PROVE Moved(c, "uncount", conn[c].slot)
  BY <1>1, <1>3, BecomeMoves DEF Unlock
<1>4. ASSUME DropConnectionGuard(c) PROVE Moved(c, "finished", conn[c].slot)
  BY <1>1, <1>4, BecomeMoves DEF DropConnectionGuard
<1>5. QED
  BY <1>2, <1>3, <1>4 DEF DropModuleGuard, Unlock, DropConnectionGuard

\* Whatever the daemon does leaves the connections alone, turns one away, gives one its
\* worker, or is a step of one worker.
LEMMA StepMoves ==
  ASSUME DaemonTypes, RelayInv, DaemonNext
  PROVE  /\ UNCHANGED dcfg
         /\ Quiet \/ \E c \in Clients : Turned(c) \/ Admitted(c) \/ Worker(c)
<1>0. {"accepted", "dropped"} \subseteq ConnPlaces \cap Outside
  BY DEF ConnPlaces, Outside
<1>1. ASSUME NEW s, Signal(s) PROVE UNCHANGED dcfg /\ Quiet
  BY <1>1 DEF Signal, Quiet
<1>2. ASSUME NEW l \in Listeners, AcceptOne(l)
      PROVE  UNCHANGED dcfg /\ (Quiet \/ \E c \in Clients : Turned(c))
  <2>1. UNCHANGED <<dcfg, active, held, locks>>
    BY <1>2 DEF AcceptOne
  <2>2. CASE UNCHANGED conn
    BY <2>1, <2>2 DEF Quiet
  <2>3. ASSUME NEW c \in Clients, Oldest(c), NEW pc \in {"accepted", "dropped"}, Become(c, pc)
        PROVE  Turned(c)
    <3>1. Moved(c, pc, conn[c].slot)
      BY <1>0, <2>3, BecomeMoves
    <3>2. QED
      BY <1>0, <2>1, <2>3, <3>1 DEF Turned, Oldest
  <2>4. QED
    BY <1>2, <2>1, <2>2, <2>3 DEF AcceptOne
<1>3. ASSUME NEW l \in Listeners, RelayAcceptItem(l)
      PROVE  UNCHANGED dcfg /\ (Quiet \/ \E c \in Clients : Turned(c))
  <2>1. UNCHANGED <<dcfg, active, held, locks>>
    BY <1>3 DEF RelayAcceptItem
  <2>2. CASE UNCHANGED conn
    BY <2>1, <2>2 DEF Quiet
  <2>3. CASE acceptor[l].item # Void /\ Become(acceptor[l].item, "dropped")
    <3>1. acceptor[l].item \in Clients
      BY <2>3 DEF DaemonTypes, AcceptorState
    <3>2. conn[acceptor[l].item].pc = "accepted"
      BY <1>3, <2>3 DEF RelayInv, Carried, RelayAcceptItem
    <3>3. Moved(acceptor[l].item, "dropped", conn[acceptor[l].item].slot)
      BY <1>0, <2>3, <3>1, BecomeMoves
    <3>4. Turned(acceptor[l].item)
      BY <1>0, <2>1, <3>2, <3>3 DEF Turned
    <3>5. QED
      BY <2>1, <3>1, <3>4
  <2>4. QED
    BY <1>3, <2>2, <2>3 DEF RelayAcceptItem
<1>4. ASSUME ReapFinishedWorkers \/ CheckSignals \/ ShutdownEngine \/ DrainWorkers
      PROVE  UNCHANGED dcfg /\ Quiet
  BY <1>4 DEF ReapFinishedWorkers, CheckSignals, ShutdownEngine, DrainWorkers, Quiet
<1>5. ASSUME PollListener
      PROVE  UNCHANGED dcfg /\ (Quiet \/ \E c \in Clients : Turned(c) \/ Admitted(c))
  <2>1. UNCHANGED <<dcfg, held, locks>>
    BY <1>5 DEF PollListener
  <2>2. CASE UNCHANGED <<conn, active>>
    BY <2>1, <2>2 DEF Quiet
  <2>3. ASSUME NEW c \in Clients, Oldest(c), HandleAcceptedConnection(c)
        PROVE  Turned(c) \/ Admitted(c)
    BY <2>1, <2>3, HandleMoves DEF Oldest
  <2>4. ASSUME NEW c \in Clients, Oldest(c), Become(c, "dropped"), UNCHANGED active
        PROVE  Turned(c)
    <3>1. Moved(c, "dropped", conn[c].slot)
      BY <1>0, <2>4, BecomeMoves
    <3>2. QED
      BY <1>0, <2>1, <2>4, <3>1 DEF Turned, Oldest
  <2>5. QED
    BY <1>5, <2>1, <2>2, <2>3, <2>4 DEF PollListener
<1>6. ASSUME PollRelay
      PROVE  UNCHANGED dcfg /\ (Quiet \/ \E c \in Clients : Turned(c) \/ Admitted(c))
  <2>1. UNCHANGED <<dcfg, held, locks>>
    BY <1>6 DEF PollRelay
  <2>2. CASE UNCHANGED <<conn, active>>
    BY <2>1, <2>2 DEF Quiet
  <2>3. ASSUME relay # << >>, Head(relay) # Void, HandleAcceptedConnection(Head(relay))
        PROVE  Head(relay) \in Clients /\ (Turned(Head(relay)) \/ Admitted(Head(relay)))
    <3>1. relay \in Seq(Clients \cup {Void})
      BY DEF DaemonTypes
    <3>2. 1 \in 1..Len(relay) /\ Head(relay) = relay[1] /\ Head(relay) \in Clients
      BY <2>3, <3>1, SMTT(60)
    <3>3. conn[Head(relay)].pc = "accepted"
      BY <2>3, <3>2 DEF RelayInv
    <3>4. QED
      BY <2>1, <2>3, <3>2, <3>3, HandleMoves
  <2>4. QED
    BY <1>6, <2>1, <2>2, <2>3 DEF PollRelay
<1>7. ASSUME NEW c \in Clients, Worker(c) PROVE UNCHANGED dcfg
  BY <1>7 DEF Worker, Greet, ClaimSlot, AcquireLocalSlot, Serve, DropModuleGuard, Unlock, DropConnectionGuard
<1>8. QED
  BY <1>1, <1>2, <1>3, <1>4, <1>5, <1>6, <1>7 DEF DaemonNext, MainThread

\* A worker keeps its connection in order.
LEMMA ConnStep ==
  ASSUME DaemonTypes, ConnInv, UNCHANGED dcfg,
         Quiet \/ \E c \in Clients : Turned(c) \/ Admitted(c) \/ Worker(c)
  PROVE  ConnInv'
<1>1. CASE Quiet
  BY <1>1 DEF Quiet, ConnInv, ConnOK, Clients
<1>2. ASSUME NEW c \in Clients, Turned(c) PROVE ConnInv'
  <2>1. ConnOK(conn'[c])
    BY <1>2 DEF Turned, Moved, ConnInv, ConnOK, Outside
  <2>2. QED
    BY <1>2, <2>1, ConnMove DEF Turned, Moved
<1>3. ASSUME NEW c \in Clients, Admitted(c) PROVE ConnInv'
  <2>1. main.gen \in DOMAIN dcfg.caps /\ main.gen # 0 /\ dcfg.caps[main.gen] \in Nat
    BY CfgFacts DEF DaemonTypes, MainState
  <2>2. ConnOK(conn'[c])
    BY <1>3, <2>1, SMTT(60) DEF Admitted, ConnInv, ConnOK, Outside
  <2>3. QED
    BY <1>3, <2>2, ConnMove DEF Admitted
<1>4. ASSUME NEW c \in Clients, Worker(c) PROVE ConnInv'
  <2>0. ConnOK(conn[c])
    BY DEF ConnInv
  <2>1. SUFFICES /\ ConnOK(conn'[c])
                 /\ \A d \in Clients \ {c} : conn'[d] = conn[d]
    BY ConnMove
  <2>2. conn[c].slot \in Nat /\ \A g \in DOMAIN dcfg.caps : dcfg.caps[g] \in Nat
    BY CfgFacts DEF DaemonTypes, ConnState
  <2>3. CASE Greet(c)
    BY <2>0, <2>2, <2>3, GreetMoves, SMTT(60) DEF Moved, ConnOK, Outside, Cap
  <2>4. CASE ClaimSlot(c)
    BY <2>0, <2>2, <2>4, ClaimMoves, SMTT(60) DEF Moved, ConnOK, Outside, Cap
  <2>5. CASE AcquireLocalSlot(c)
    BY <2>0, <2>2, <2>5, LocalMoves DEF Moved, ConnOK, Outside, Cap
  <2>6. CASE Serve(c)
    BY <2>0, <2>2, <2>6, ServeMoves, SMTT(60) DEF Moved, ConnOK, Outside, Cap
  <2>7. CASE DropModuleGuard(c)
    BY <2>0, <2>2, <2>7, DropMoves DEF Moved, ConnOK, Outside, Cap
  <2>8. CASE Unlock(c)
    BY <2>0, <2>2, <2>8, DropMoves DEF Moved, ConnOK, Outside, Cap
  <2>9. CASE DropConnectionGuard(c)
    BY <2>0, <2>2, <2>9, DropMoves DEF Moved, ConnOK, Outside, Cap
  <2>10. QED
    BY <1>4, <2>3, <2>4, <2>5, <2>6, <2>7, <2>8, <2>9 DEF Worker
<1>5. QED
  BY <1>1, <1>2, <1>3, <1>4

-----------------------------------------------------------------------------
(* The counters are the numbers of the guards that are held.                  *)

Bit(b) == IF b THEN 1 ELSE 0

LEMMA OneMember ==
  ASSUME NEW S, NEW T, NEW c, IsFiniteSet(S), \A d : d # c => (d \in S <=> d \in T)
  PROVE  /\ IsFiniteSet(T) /\ Cardinality(S) \in Nat
         /\ Cardinality(T) = Cardinality(S) + Bit(c \in T) - Bit(c \in S)
<1>0. Cardinality(S) \in Nat
  BY FS_CardinalityType
<1>1. CASE c \in T /\ c \notin S
  <2>1. T = S \cup {c}
    BY <1>1
  <2>2. QED
    BY <1>0, <1>1, <2>1, FS_AddElement, SMTT(60) DEF Bit
<1>2. CASE c \notin T /\ c \in S
  <2>1. T = S \ {c}
    BY <1>2
  <2>2. QED
    BY <1>0, <1>2, <2>1, FS_RemoveElement, SMTT(60) DEF Bit
<1>3. CASE (c \in T) = (c \in S)
  <2>1. T = S
    BY <1>3, SMTT(60)
  <2>2. QED
    BY <1>0, <1>3, <2>1, SMTT(60) DEF Bit
<1>4. QED
  BY <1>1, <1>2, <1>3, SMTT(60)

\* One connection changes, and the numbers change by that one.
LEMMA CountMove ==
  ASSUME DaemonTypes, UNCHANGED dcfg, NEW c \in Clients,
         \A d \in Clients \ {c} : conn'[d] = conn[d]
  PROVE  /\ Cardinality(InSession) \in Nat
         /\ Cardinality(InSession') =
               Cardinality(InSession) + Bit(c \in InSession') - Bit(c \in InSession)
         /\ \A g \in DOMAIN dcfg.caps :
               /\ Cardinality(Counted(g)) \in Nat
               /\ Cardinality(Counted(g)') =
                     Cardinality(Counted(g)) + Bit(c \in Counted(g)') - Bit(c \in Counted(g))
<1>1. Clients' = Clients /\ IsFiniteSet(Clients)
  BY CfgFacts DEF Clients
<1>2. IsFiniteSet(InSession) /\ \A g : IsFiniteSet(Counted(g))
  <2>1. InSession \in SUBSET Clients /\ \A g : Counted(g) \in SUBSET Clients
    BY DEF InSession, Counted
  <2>2. QED
    BY <1>1, <2>1, FS_Subset
<1>3. \A d : d # c => (d \in InSession <=> d \in InSession')
  BY <1>1 DEF InSession
<1>4. \A g, d : d # c => (d \in Counted(g) <=> d \in Counted(g)')
  BY <1>1 DEF Counted, Cap
<1>5. /\ Cardinality(InSession) \in Nat
      /\ Cardinality(InSession') =
            Cardinality(InSession) + Bit(c \in InSession') - Bit(c \in InSession)
  BY <1>2, <1>3, OneMember
<1>6. ASSUME NEW g \in DOMAIN dcfg.caps
      PROVE  /\ Cardinality(Counted(g)) \in Nat
             /\ Cardinality(Counted(g)') =
                   Cardinality(Counted(g)) + Bit(c \in Counted(g)') - Bit(c \in Counted(g))
  <2> DEFINE S == Counted(g)
             T == Counted(g)'
  <2>1. IsFiniteSet(S) /\ \A d : d # c => (d \in S <=> d \in T)
    BY <1>2, <1>4
  <2> HIDE DEF S, T
  <2>2. Cardinality(S) \in Nat /\ Cardinality(T) = Cardinality(S) + Bit(c \in T) - Bit(c \in S)
    BY <2>1, OneMember
  <2>3. QED
    BY <2>2 DEF S, T
<1>7. QED
  BY <1>5, <1>6

LEMMA CountStep ==
  ASSUME DaemonTypes, ConnInv, ConnInv', CountInv, UNCHANGED dcfg,
         Quiet \/ \E c \in Clients : Turned(c) \/ Admitted(c) \/ Worker(c)
  PROVE  CountInv'
<1>1. CASE Quiet
  BY <1>1 DEF Quiet, CountInv, InSession, Counted, Clients, Cap
<1>2. ASSUME NEW c \in Clients, Turned(c) \/ Admitted(c) \/ Worker(c) PROVE CountInv'
  <2> DEFINE was == conn[c]
             now == conn'[c]
             Mine(g, r) == r.gen = g /\ dcfg.caps[r.gen] > 0 /\ r.pc \in {"serve", "leave"}
             Busy(r) == r.pc \in WorkerPlaces \ {"finished"}
  <2>1. \A d \in Clients \ {c} : conn'[d] = conn[d]
    BY <1>2, GreetMoves, ClaimMoves, LocalMoves, ServeMoves, DropMoves, ZenonT(60)
       DEF Turned, Admitted, Moved, Worker
  <2>2. /\ c \in InSession <=> Busy(was)
        /\ c \in InSession' <=> Busy(now)
        /\ \A g : c \in Counted(g) <=> Mine(g, was)
        /\ \A g : c \in Counted(g)' <=> Mine(g, now)
    BY DEF InSession, Counted, Cap, Clients
  <2>3. /\ active \in Int /\ active = Cardinality(InSession)
        /\ held \in [DOMAIN dcfg.caps -> Int]
        /\ \A g \in DOMAIN dcfg.caps : held[g] = Cardinality(Counted(g))
        /\ \A g \in DOMAIN dcfg.caps : dcfg.caps[g] > 0 => held[g] <= dcfg.caps[g]
        /\ dcfg.limit > 0 => active <= dcfg.limit
    BY DEF DaemonTypes, CountInv
  <2>4. /\ Cardinality(InSession') = active + Bit(Busy(now)) - Bit(Busy(was))
        /\ \A g \in DOMAIN dcfg.caps :
              Cardinality(Counted(g)') = held[g] + Bit(Mine(g, now)) - Bit(Mine(g, was))
    BY <2>1, <2>2, <2>3, CountMove, SMTT(60)
  <2>5. /\ \A g \in DOMAIN dcfg.caps : dcfg.caps[g] \in Nat
        /\ dcfg.limit \in Nat
        /\ was.gen \in DOMAIN dcfg.caps \cup {0}
        /\ was.pc \in {"lock", "local", "leave", "unlock"} => dcfg.caps[was.gen] > 0
        /\ was.gen = 0 <=> was.pc \in Outside
        /\ now.gen = 0 <=> now.pc \in Outside
    BY CfgFacts DEF ConnInv, ConnOK, Clients
  <2>6. SUFFICES /\ active' = active + Bit(Busy(now)) - Bit(Busy(was))
                 /\ dcfg.limit > 0 => active' <= dcfg.limit
                 /\ \A g \in DOMAIN dcfg.caps :
                      /\ held'[g] = held[g] + Bit(Mine(g, now)) - Bit(Mine(g, was))
                      /\ dcfg.caps[g] > 0 => held'[g] <= dcfg.caps[g]
    BY <2>4 DEF CountInv
  <2> HIDE DEF was, now
  <2>7. CASE Turned(c)
    <3>1. was.pc \in Outside /\ now.pc \in Outside /\ UNCHANGED <<active, held>>
      BY <2>7 DEF Turned, Moved, Outside, was, now
    <3>2. QED
      BY <2>3, <3>1, SMTT(60) DEF Outside, WorkerPlaces, Bit
  <2>8. CASE Admitted(c)
    <3>1. /\ was.pc \in Outside /\ now.pc = "greet" /\ active' = active + 1 /\ UNCHANGED held
          /\ ~(dcfg.limit > 0 /\ active >= dcfg.limit)
      BY <2>8 DEF Admitted, Outside, was, now
    <3>2. QED
      BY <2>3, <2>5, <3>1, SMTT(60) DEF Outside, WorkerPlaces, Bit
  <2>9. CASE Greet(c)
    <3>1. /\ was.pc = "greet" /\ UNCHANGED <<active, held>> /\ now.gen = was.gen
          /\ \/ now.pc \in {"uncount", "lock", "local"}
             \/ now.pc = "serve" /\ dcfg.caps[was.gen] = 0
      BY <2>9, GreetMoves DEF Moved, Cap, was, now
    <3>2. QED
      BY <2>3, <3>1, SMTT(60) DEF WorkerPlaces, Bit
  <2>10. CASE ClaimSlot(c)
    <3>1. /\ was.pc = "lock" /\ UNCHANGED <<active, held>> /\ now.pc \in {"uncount", "lock", "local"}
      BY <2>10, ClaimMoves DEF Moved, was, now
    <3>2. QED
      BY <2>3, <3>1, SMTT(60) DEF WorkerPlaces, Bit
  <2>11. CASE AcquireLocalSlot(c)
    <3>1. /\ was.pc = "local" /\ UNCHANGED active /\ now.gen = was.gen
          /\ \/ now.pc \in {"unlock", "uncount"} /\ UNCHANGED held
             \/ /\ now.pc = "serve" /\ held' = [held EXCEPT ![was.gen] = @ + 1]
                /\ ~(held[was.gen] >= dcfg.caps[was.gen])
      BY <2>11, LocalMoves DEF Moved, Cap, was, now
    <3>2. was.gen \in DOMAIN dcfg.caps
      BY <2>5, <3>1 DEF Outside
    <3>3. QED
      BY <2>3, <2>5, <3>1, <3>2, SMTT(60) DEF WorkerPlaces, Bit
  <2>12. CASE Serve(c)
    <3>1. /\ was.pc = "serve" /\ UNCHANGED <<active, held>> /\ now.gen = was.gen
          /\ \/ dcfg.caps[was.gen] = 0 /\ now.pc = "uncount"
             \/ dcfg.caps[was.gen] # 0 /\ now.pc = "leave"
      BY <2>12, ServeMoves DEF Moved, Cap, was, now
    <3>2. QED
      BY <2>3, <2>5, <3>1, SMTT(60) DEF WorkerPlaces, Bit
  <2>13. CASE DropModuleGuard(c)
    <3>1. /\ was.pc = "leave" /\ UNCHANGED active /\ now.gen = was.gen
          /\ now.pc \in {"unlock", "uncount"} /\ held' = [held EXCEPT ![was.gen] = @ - 1]
      BY <2>13, DropMoves DEF Moved, was, now
    <3>2. was.gen \in DOMAIN dcfg.caps
      BY <2>5, <3>1 DEF Outside
    <3>3. QED
      BY <2>3, <2>5, <3>1, <3>2, SMTT(60) DEF WorkerPlaces, Bit
  <2>14. CASE Unlock(c)
    <3>1. was.pc = "unlock" /\ UNCHANGED <<active, held>> /\ now.pc = "uncount"
      BY <2>14, DropMoves DEF Moved, was, now
    <3>2. QED
      BY <2>3, <3>1, SMTT(60) DEF WorkerPlaces, Bit
  <2>15. CASE DropConnectionGuard(c)
    <3>1. /\ was.pc = "uncount" /\ now.pc = "finished" /\ active' = active - 1 /\ UNCHANGED held
      BY <2>15, DropMoves DEF Moved, was, now
    <3>2. QED
      BY <2>3, <2>5, <3>1, SMTT(60) DEF WorkerPlaces, Bit
  <2>16. QED
    BY <1>2, <2>7, <2>8, <2>9, <2>10, <2>11, <2>12, <2>13, <2>14, <2>15 DEF Worker
<1>3. QED
  BY <1>1, <1>2

-----------------------------------------------------------------------------
(* A worker with a guard of a module with a lock file holds its own range.    *)

LEMMA LockKept ==
  ASSUME DaemonTypes, LockInv, UNCHANGED <<dcfg, locks>>, NEW c \in Clients,
         \A d \in Clients \ {c} : conn'[d] = conn[d],
         dcfg.lockfile => /\ Holder(conn'[c]) <=> Holder(conn[c])
                          /\ Holder(conn[c]) => /\ conn'[c].slot = conn[c].slot
                                                /\ conn'[c].gen = conn[c].gen
  PROVE  LockInv'
<1> SUFFICES ASSUME dcfg.lockfile PROVE LockInv'
  BY DEF LockInv
<1>1. /\ Clients' = Clients /\ Ranges' = Ranges /\ locks \in [Ranges -> Clients \cup {Void}]
      /\ \A r : Holder(r)' <=> Holder(r)
  BY ZenonT(60) DEF Clients, Ranges, DaemonTypes, Holder
<1>2. ASSUME NEW d \in Clients, Holder(conn'[d])
      PROVE  /\ conn'[d].slot \in Ranges /\ conn'[d].slot < dcfg.caps[conn'[d].gen]
             /\ locks[conn'[d].slot] = d
  BY <1>2, SMTT(60) DEF LockInv, Cap
<1>3. ASSUME NEW s \in Ranges, locks[s] # Void
      PROVE  Holder(conn'[locks[s]]) /\ conn'[locks[s]].slot = s
  <2>1. locks[s] \in Clients
    BY <1>1, <1>3
  <2>2. QED
    BY <1>3, <2>1 DEF LockInv
<1>4. QED
  BY <1>1, <1>2, <1>3 DEF LockInv, Cap, Holder

LEMMA LockTaken ==
  ASSUME DaemonTypes, ConnInv, LockInv, UNCHANGED dcfg, NEW c \in Clients,
         conn[c].pc = "lock", conn[c].slot < Cap(c), locks[conn[c].slot] = Void,
         Moved(c, "local", conn[c].slot),
         locks' = [locks EXCEPT ![conn[c].slot] = c]
  PROVE  LockInv'
<1> SUFFICES ASSUME dcfg.lockfile PROVE LockInv'
  BY DEF LockInv
<1>1. /\ Clients' = Clients /\ Ranges' = Ranges /\ locks \in [Ranges -> Clients \cup {Void}]
      /\ \A r : Holder(r)' <=> Holder(r)
      /\ Void \notin Clients
  BY CfgFacts, SMTT(60) DEF Clients, Ranges, DaemonTypes, Holder, Void
<1>2. /\ conn[c].gen \in DOMAIN dcfg.caps /\ conn[c].gen # 0 /\ Cap(c) \in Nat /\ Cap(c) > 0
      /\ conn[c].slot \in Nat
  BY CfgFacts DEF ConnInv, ConnOK, Outside, Cap, DaemonTypes, ConnState
<1>3. conn[c].slot \in Ranges
  <2>1. conn[c].slot \in 0..dcfg.caps[conn[c].gen] - 1
    BY <1>2, SMTT(60) DEF Cap
  <2>2. QED
    BY <1>2, <2>1 DEF Ranges
<1>4. /\ conn'[c].slot = conn[c].slot /\ conn'[c].gen = conn[c].gen /\ conn'[c].pc = "local"
      /\ \A d \in Clients \ {c} : conn'[d] = conn[d]
      /\ Holder(conn'[c]) /\ ~Holder(conn[c])
  BY <1>2 DEF Moved, Holder, Cap
<1>5. /\ locks'[conn[c].slot] = c
      /\ \A s \in Ranges : s # conn[c].slot => locks'[s] = locks[s]
  BY <1>1, <1>3
<1>6. ASSUME NEW d \in Clients, Holder(conn'[d])
      PROVE  /\ conn'[d].slot \in Ranges /\ conn'[d].slot < dcfg.caps[conn'[d].gen]
             /\ locks'[conn'[d].slot] = d
  <2>1. CASE d = c
    BY <1>3, <1>4, <1>5, <2>1 DEF Cap
  <2>2. CASE d # c
    BY <1>1, <1>4, <1>5, <1>6, <2>2, SMTT(60) DEF LockInv, Cap
  <2>3. QED
    BY <2>1, <2>2
<1>7. ASSUME NEW s \in Ranges, locks'[s] # Void
      PROVE  Holder(conn'[locks'[s]]) /\ conn'[locks'[s]].slot = s
  <2>1. CASE s = conn[c].slot
    BY <1>4, <1>5, <2>1
  <2>2. CASE s # conn[c].slot
    <3>1. /\ locks'[s] = locks[s] /\ locks[s] \in Clients
          /\ Holder(conn[locks[s]]) /\ conn[locks[s]].slot = s
      BY <1>1, <1>5, <1>7, <2>2, SMTT(60) DEF LockInv
    <3>2. QED
      BY <1>4, <3>1
  <2>3. QED
    BY <2>1, <2>2
<1>8. QED
  BY <1>1, <1>6, <1>7 DEF LockInv, Cap, Holder

LEMMA LockReleased ==
  ASSUME DaemonTypes, ConnInv, LockInv, UNCHANGED dcfg, NEW c \in Clients,
         conn[c].pc = "unlock", Moved(c, "uncount", conn[c].slot),
         locks' = [locks EXCEPT ![conn[c].slot] = Void]
  PROVE  LockInv'
<1> SUFFICES ASSUME dcfg.lockfile PROVE LockInv'
  BY DEF LockInv
<1>1. /\ Clients' = Clients /\ Ranges' = Ranges /\ locks \in [Ranges -> Clients \cup {Void}]
      /\ \A r : Holder(r)' <=> Holder(r)
      /\ Void \notin Clients
  BY CfgFacts, SMTT(60) DEF Clients, Ranges, DaemonTypes, Holder, Void
<1>2. Holder(conn[c]) /\ conn[c].slot \in Ranges /\ locks[conn[c].slot] = c
  BY DEF ConnInv, ConnOK, Outside, Holder, LockInv
<1>3. /\ ~Holder(conn'[c]) /\ \A d \in Clients \ {c} : conn'[d] = conn[d]
  BY DEF Moved, Holder
<1>4. /\ locks'[conn[c].slot] = Void
      /\ \A s \in Ranges : s # conn[c].slot => locks'[s] = locks[s]
  BY <1>1, <1>2
<1>5. ASSUME NEW d \in Clients, Holder(conn'[d])
      PROVE  /\ conn'[d].slot \in Ranges /\ conn'[d].slot < dcfg.caps[conn'[d].gen]
             /\ locks'[conn'[d].slot] = d
  <2>1. d # c /\ conn'[d] = conn[d]
    BY <1>3, <1>5
  <2>2. /\ conn[d].slot \in Ranges /\ conn[d].slot < dcfg.caps[conn[d].gen]
        /\ locks[conn[d].slot] = d
    BY <1>5, <2>1 DEF LockInv, Cap
  <2>3. conn[d].slot # conn[c].slot
    BY <1>2, <2>1, <2>2
  <2>4. QED
    BY <1>4, <2>1, <2>2, <2>3
<1>6. ASSUME NEW s \in Ranges, locks'[s] # Void
      PROVE  Holder(conn'[locks'[s]]) /\ conn'[locks'[s]].slot = s
  <2>1. s # conn[c].slot /\ locks'[s] = locks[s] /\ locks[s] \in Clients
    BY <1>1, <1>4, <1>6
  <2>2. Holder(conn[locks[s]]) /\ conn[locks[s]].slot = s
    BY <1>6, <2>1 DEF LockInv
  <2>3. locks[s] # c
    BY <2>1, <2>2
  <2>4. QED
    BY <1>3, <2>1, <2>2, <2>3
<1>7. QED
  BY <1>1, <1>5, <1>6 DEF LockInv, Cap, Holder

LEMMA LockStep ==
  ASSUME DaemonTypes, ConnInv, LockInv, UNCHANGED dcfg,
         Quiet \/ \E c \in Clients : Turned(c) \/ Admitted(c) \/ Worker(c)
  PROVE  LockInv'
<1>1. CASE Quiet
  BY <1>1, SMTT(60) DEF Quiet, LockInv, Holder, Clients, Ranges, Cap
<1>2. ASSUME NEW c \in Clients, Turned(c) \/ Admitted(c) PROVE LockInv'
  <2>1. /\ UNCHANGED locks /\ \A d \in Clients \ {c} : conn'[d] = conn[d]
        /\ ~Holder(conn[c]) /\ ~Holder(conn'[c])
    BY <1>2 DEF Turned, Admitted, Moved, Holder, Outside
  <2>2. QED
    BY <2>1, LockKept
<1>3. ASSUME NEW c \in Clients, Greet(c) \/ AcquireLocalSlot(c) \/ Serve(c) \/ DropModuleGuard(c)
                                \/ DropConnectionGuard(c)
      PROVE  LockInv'
  <2>0. /\ conn[c].gen \in DOMAIN dcfg.caps /\ conn[c].gen # 0 /\ dcfg.caps[conn[c].gen] \in Nat
        /\ ConnOK(conn[c])
    BY <1>3, CfgFacts, GreetMoves, LocalMoves, ServeMoves, DropMoves DEF ConnInv, ConnOK, Outside
  <2>1. /\ UNCHANGED locks /\ \A d \in Clients \ {c} : conn'[d] = conn[d]
        /\ conn'[c].slot = conn[c].slot /\ conn'[c].gen = conn[c].gen
    BY <1>3, GreetMoves, LocalMoves, ServeMoves, DropMoves, ZenonT(60) DEF Moved
  <2>2. dcfg.lockfile => (Holder(conn'[c]) <=> Holder(conn[c]))
    <3>1. CASE Greet(c)
      BY <2>0, <3>1, GreetMoves, SMTT(60) DEF Moved, Holder, Cap
    <3>2. CASE AcquireLocalSlot(c)
      BY <2>0, <3>2, LocalMoves DEF Moved, Holder, Cap
    <3>3. CASE Serve(c)
      BY <2>0, <3>3, ServeMoves, SMTT(60) DEF Moved, Holder, Cap
    <3>4. CASE DropModuleGuard(c)
      BY <2>0, <3>4, DropMoves DEF Moved, Holder, Cap
    <3>5. CASE DropConnectionGuard(c)
      BY <2>0, <3>5, DropMoves DEF Moved, Holder, Cap
    <3>6. QED
      BY <1>3, <3>1, <3>2, <3>3, <3>4, <3>5
  <2>3. QED
    BY <2>1, <2>2, LockKept
<1>4. ASSUME NEW c \in Clients, ClaimSlot(c) PROVE LockInv'
  <2>1. CASE /\ conn[c].slot < Cap(c) /\ locks[conn[c].slot] = Void
             /\ Moved(c, "local", conn[c].slot)
             /\ locks' = [locks EXCEPT ![conn[c].slot] = c]
    BY <1>4, <2>1, ClaimMoves, LockTaken
  <2>2. CASE UNCHANGED locks /\ \E s : Moved(c, "uncount", s) \/ Moved(c, "lock", s)
    <3>1. /\ ~Holder(conn[c]) /\ ~Holder(conn'[c])
          /\ \A d \in Clients \ {c} : conn'[d] = conn[d]
      BY <1>4, <2>2, ClaimMoves DEF Moved, Holder
    <3>2. QED
      BY <2>2, <3>1, LockKept
  <2>3. QED
    BY <1>4, <2>1, <2>2, ClaimMoves
<1>5. ASSUME NEW c \in Clients, Unlock(c) PROVE LockInv'
  BY <1>5, DropMoves, LockReleased
<1>6. QED
  BY <1>1, <1>2, <1>3, <1>4, <1>5 DEF Worker

-----------------------------------------------------------------------------
(* The main thread.                                                           *)

\* The main thread goes to pc with the sessions it has.
MainTo(pc) ==
    /\ main' \in MainState /\ main'.pc = pc
    /\ main'.workers = main.workers /\ main'.served = main.served

LEMMA MainMoves ==
  ASSUME DaemonTypes, NEW pc \in MainPlaces, MainAt(pc)
  PROVE  MainTo(pc) /\ main'.how = main.how
BY DEF DaemonTypes, MainAt, MainTo, MainState

LEMMA ExitMoves ==
  ASSUME DaemonTypes, NEW how \in {"ok", "error"},
         main' = [main EXCEPT !.pc = "exit", !.how = how]
  PROVE  MainTo("exit") /\ main'.how = how
BY DEF DaemonTypes, MainTo, MainState, MainPlaces

\* The list of workers changes.
LEMMA ListMoves ==
  ASSUME DaemonTypes, NEW w \in Seq(Clients), main' = [main EXCEPT !.workers = w]
  PROVE  /\ main' \in MainState /\ main'.pc = main.pc /\ main'.how = main.how
         /\ main'.workers = w /\ main'.served = main.served
BY DEF DaemonTypes, MainState

\* The list without its i-th handle.
Without(w, i) == SubSeq(w, 1, i - 1) \o SubSeq(w, i + 1, Len(w))

LEMMA ReapMoves ==
  ASSUME DaemonTypes, ReapFinishedWorkers
  PROVE  /\ main.pc = "reap"
         /\ UNCHANGED <<dcfg, flags, signalled, acceptor, alive, relay, conn, active, held, locks>>
         /\ \/ MainTo("check") /\ main'.how = main.how
            \/ MainTo("reap") /\ main'.how = main.how
            \/ MainTo("exit") /\ main'.how = "error"
            \/ \E i \in 1..Len(main.workers) :
                  /\ conn[main.workers[i]].pc = "finished"
                  /\ main' \in MainState /\ main'.pc = "reap" /\ main'.how = main.how
                  /\ main'.served = main.served
                  /\ main'.workers = Without(main.workers, i)
<1> DEFINE w == main.workers
           i == main.at
<1>0. main \in MainState /\ w \in Seq(Clients) /\ i \in Nat \ {0} /\ Len(w) \in Nat
  BY SMTT(60) DEF DaemonTypes, MainState
<1>1. main.pc = "reap" /\ UNCHANGED <<dcfg, flags, signalled, acceptor, alive, relay, conn, active, held, locks>>
  BY DEF ReapFinishedWorkers
<1>2. CASE i > Len(w)
  <2>1. main' = [main EXCEPT !.pc = "check", !.at = 1]
    BY <1>2 DEF ReapFinishedWorkers
  <2>2. MainTo("check") /\ main'.how = main.how
    <3>1. "check" \in MainPlaces /\ 1 \in Nat \ {0}
      BY SMTT(60) DEF MainPlaces
    <3>2. QED
      BY <1>0, <2>1, <3>1 DEF MainTo, MainState
  <2>3. QED
    BY <1>1, <2>2
<1>3. CASE ~(i > Len(w)) /\ conn[w[i]].pc # "finished"
  <2>1. main' = [main EXCEPT !.at = i + 1] /\ i + 1 \in Nat \ {0}
    BY <1>0, <1>3, SMTT(60) DEF ReapFinishedWorkers
  <2>2. MainTo("reap") /\ main'.how = main.how
    BY <1>0, <1>1, <2>1 DEF MainTo, MainState
  <2>3. QED
    BY <1>1, <2>2
<1>4. CASE ~(i > Len(w)) /\ conn[w[i]].pc = "finished" /\ Fatal(w[i])
  <2>1. main' = [main EXCEPT !.pc = "exit", !.how = "error"]
    BY <1>4 DEF ReapFinishedWorkers
  <2>2. QED
    BY <1>1, <2>1, ExitMoves
<1>5. CASE ~(i > Len(w)) /\ conn[w[i]].pc = "finished" /\ ~Fatal(w[i])
  <2> DEFINE rest == Without(w, i)
  <2>1. main' = [main EXCEPT !.workers = rest] /\ i \in 1..Len(w)
    BY <1>0, <1>5, SMTT(60) DEF ReapFinishedWorkers, Without
  <2>2. rest \in Seq(Clients)
    BY <1>0, <2>1, SMTT(60) DEF Without
  <2> HIDE DEF rest
  <2>3. /\ main' \in MainState /\ main'.pc = main.pc /\ main'.how = main.how
        /\ main'.workers = rest /\ main'.served = main.served
    BY <2>1, <2>2, ListMoves
  <2>4. QED
    BY <1>1, <1>5, <2>1, <2>3 DEF rest
<1>6. QED
  BY <1>2, <1>3, <1>4, <1>5

LEMMA DrainMoves ==
  ASSUME DaemonTypes, DrainWorkers
  PROVE  /\ main.pc = "drain"
         /\ UNCHANGED <<dcfg, flags, signalled, acceptor, alive, relay, conn, active, held, locks>>
         /\ \/ MainTo("exit") /\ main'.how = "error"
            \/ MainTo("exit") /\ main'.how = "ok" /\ main.workers = << >>
            \/ /\ main.workers # << >> /\ conn[main.workers[Len(main.workers)]].pc = "finished"
               /\ main' \in MainState /\ main'.pc = "drain" /\ main'.how = main.how
               /\ main'.served = main.served
               /\ main'.workers = SubSeq(main.workers, 1, Len(main.workers) - 1)
<1> DEFINE w == main.workers
           n == Len(w)
<1>0. main \in MainState /\ w \in Seq(Clients) /\ n \in Nat
  BY SMTT(60) DEF DaemonTypes, MainState
<1>1. main.pc = "drain" /\ UNCHANGED <<dcfg, flags, signalled, acceptor, alive, relay, conn, active, held, locks>>
  BY DEF DrainWorkers
<1>2. CASE n = 0
  <2>1. main' = [main EXCEPT !.pc = "exit", !.how = "ok"] /\ w = << >>
    BY <1>0, <1>2, SMTT(60) DEF DrainWorkers
  <2>2. QED
    BY <1>1, <2>1, ExitMoves
<1>3. CASE n # 0 /\ Fatal(w[n])
  <2>1. main' = [main EXCEPT !.pc = "exit", !.how = "error"]
    BY <1>3 DEF DrainWorkers
  <2>2. QED
    BY <1>1, <2>1, ExitMoves
<1>4. CASE n # 0 /\ ~Fatal(w[n])
  <2>1. main' = [main EXCEPT !.workers = SubSeq(w, 1, n - 1)]
    BY <1>4 DEF DrainWorkers
  <2>2. conn[w[n]].pc = "finished" /\ w # << >>
    BY <1>0, <1>4, SMTT(60) DEF DrainWorkers
  <2>3. SubSeq(w, 1, n - 1) \in Seq(Clients)
    BY <1>0, <1>4, SMTT(60)
  <2>4. QED
    BY <1>1, <2>1, <2>2, <2>3, ListMoves
<1>5. QED
  BY <1>2, <1>3, <1>4

LEMMA CheckMoves ==
  ASSUME DaemonTypes, CheckSignals
  PROVE  /\ main.pc = "check" /\ flags' \in Flags
         /\ UNCHANGED <<dcfg, signalled, acceptor, alive, relay, conn, active, held, locks>>
         /\ \/ Stop /\ UNCHANGED flags /\ MainTo("close") /\ main'.how = main.how
            \/ /\ ~Stop /\ flags'.shutdown = flags.shutdown /\ flags'.graceful = flags.graceful
               /\ MainTo("poll") /\ main'.how = main.how
<1>0. main \in MainState /\ flags \in Flags
  BY DEF DaemonTypes
<1>1. main.pc = "check" /\ UNCHANGED <<dcfg, signalled, acceptor, alive, relay, conn, active, held, locks>>
  BY DEF CheckSignals
<1>2. CASE Stop
  <2>1. MainAt("close") /\ UNCHANGED flags
    BY <1>2 DEF CheckSignals
  <2>2. MainTo("close") /\ main'.how = main.how
    BY <2>1, MainMoves DEF MainPlaces
  <2>3. QED
    BY <1>0, <1>1, <1>2, <2>1, <2>2
<1>3. CASE ~Stop
  <2>1. flags' = [flags EXCEPT !.reload = FALSE]
    BY <1>3 DEF CheckSignals
  <2>2. PICK g \in {main.gen} \cup Generations(main.gen) : main' = [main EXCEPT !.pc = "poll", !.gen = g]
    BY <1>3 DEF CheckSignals
  <2>3. g \in DOMAIN dcfg.caps
    BY <1>0 DEF Generations, MainState
  <2>4. MainTo("poll") /\ main'.how = main.how
    BY <1>0, <2>2, <2>3 DEF MainTo, MainState, MainPlaces
  <2>5. flags' \in Flags /\ flags'.shutdown = flags.shutdown /\ flags'.graceful = flags.graceful
    BY <1>0, <2>1 DEF Flags
  <2>6. QED
    BY <1>1, <1>3, <2>4, <2>5
<1>4. QED
  BY <1>2, <1>3

\* An accepted connection: refused, or one more worker in the list.
LEMMA HandleMain ==
  ASSUME DaemonTypes, NEW c \in Clients, HandleAcceptedConnection(c)
  PROVE  \/ MainTo("reap") /\ main'.how = main.how /\ Become(c, "refused") /\ UNCHANGED active
         \/ /\ main' \in MainState /\ main'.how = main.how
            /\ main'.workers = Append(main.workers, c) /\ main'.served = main.served + 1
            /\ \/ main'.pc = "reap"
               \/ main'.pc = "close" /\ dcfg.sessions > 0 /\ main'.served = dcfg.sessions
            /\ conn' = [conn EXCEPT ![c].pc = "greet", ![c].gen = main.gen]
<1>0. main \in MainState /\ main.workers \in Seq(Clients) /\ main.served \in Nat
  BY DEF DaemonTypes, MainState
<1>1. CASE dcfg.limit > 0 /\ active >= dcfg.limit
  <2>1. Become(c, "refused") /\ MainAt("reap") /\ UNCHANGED active
    BY <1>1 DEF HandleAcceptedConnection
  <2>2. QED
    BY <2>1, MainMoves DEF MainPlaces
<1>2. CASE ~(dcfg.limit > 0 /\ active >= dcfg.limit)
  <2> DEFINE pc == IF main.served + 1 = dcfg.sessions THEN "close" ELSE "reap"
  <2>1. /\ conn' = [conn EXCEPT ![c].pc = "greet", ![c].gen = main.gen]
        /\ main' = [main EXCEPT !.workers = Append(main.workers, c), !.served = main.served + 1, !.pc = pc]
    BY <1>2 DEF HandleAcceptedConnection, SpawnWorker
  <2>2. pc \in MainPlaces /\ main.served + 1 \in Nat /\ Append(main.workers, c) \in Seq(Clients)
    BY <1>0, SMTT(60) DEF MainPlaces
  <2>3. pc = "reap" \/ (pc = "close" /\ dcfg.sessions > 0 /\ main.served + 1 = dcfg.sessions)
    BY <1>0, SMTT(60)
  <2> HIDE DEF pc
  <2>4. /\ main' \in MainState /\ main'.how = main.how /\ main'.pc = pc
        /\ main'.workers = Append(main.workers, c) /\ main'.served = main.served + 1
    BY <1>0, <2>1, <2>2 DEF MainState
  <2>5. QED
    BY <2>1, <2>3, <2>4
<1>3. QED
  BY <1>1, <1>2

-----------------------------------------------------------------------------
(* The acceptors and the relay.                                               *)

\* Acceptor l is at pc with an item; the others are where they were.
AcceptorTo(l, pc, item) ==
    /\ acceptor' \in [Listeners -> AcceptorState]
    /\ acceptor'[l].pc = pc /\ acceptor'[l].item = item
    /\ \A m \in Listeners \ {l} : acceptor'[m] = acceptor[m]

LEMMA AcceptorMoves ==
  ASSUME DaemonTypes, NEW l \in Listeners, NEW pc \in {"run", "relay", "dead"}
  PROVE  /\ acceptor' = [acceptor EXCEPT ![l].pc = pc] => AcceptorTo(l, pc, acceptor[l].item)
         /\ \A c \in Clients \cup {Void} :
               acceptor' = [acceptor EXCEPT ![l] = [pc |-> pc, item |-> c]] => AcceptorTo(l, pc, c)
<1>0. acceptor \in [Listeners -> AcceptorState]
  BY DEF DaemonTypes
<1>1. ASSUME acceptor' = [acceptor EXCEPT ![l].pc = pc] PROVE AcceptorTo(l, pc, acceptor[l].item)
  BY <1>0, <1>1 DEF AcceptorTo, AcceptorState
<1>2. ASSUME NEW c \in Clients \cup {Void}, acceptor' = [acceptor EXCEPT ![l] = [pc |-> pc, item |-> c]]
      PROVE  AcceptorTo(l, pc, c)
  BY <1>0, <1>2 DEF AcceptorTo, AcceptorState
<1>3. QED
  BY <1>1, <1>2

LEMMA AcceptMoves ==
  ASSUME DaemonTypes, NEW l \in Listeners, AcceptOne(l)
  PROVE  /\ acceptor[l].pc = "run"
         /\ UNCHANGED <<dcfg, flags, signalled, main, alive, relay, active, held, locks>>
         /\ \/ Stop /\ UNCHANGED conn /\ AcceptorTo(l, "dead", acceptor[l].item)
            \/ \E c \in Clients : /\ conn[c].pc = "backlog"
                                  /\ \/ /\ Moved(c, "accepted", conn[c].slot)
                                        /\ AcceptorTo(l, "relay", c)
                                     \/ /\ Moved(c, "dropped", conn[c].slot)
                                        /\ AcceptorTo(l, "relay", Void)
<1>1. /\ acceptor[l].pc = "run"
      /\ UNCHANGED <<dcfg, flags, signalled, main, alive, relay, active, held, locks>>
  BY DEF AcceptOne
<1>2. CASE Stop /\ acceptor' = [acceptor EXCEPT ![l].pc = "dead"] /\ UNCHANGED conn
  BY <1>1, <1>2, AcceptorMoves
<1>3. ASSUME NEW c \in Clients, Oldest(c), Become(c, "accepted"),
             acceptor' = [acceptor EXCEPT ![l] = [pc |-> "relay", item |-> c]]
      PROVE  /\ conn[c].pc = "backlog" /\ Moved(c, "accepted", conn[c].slot)
             /\ AcceptorTo(l, "relay", c)
  BY <1>3, BecomeMoves, AcceptorMoves DEF Oldest, ConnPlaces, Outside
<1>4. ASSUME NEW c \in Clients, Oldest(c), Become(c, "dropped"),
             acceptor' = [acceptor EXCEPT ![l] = [pc |-> "relay", item |-> Void]]
      PROVE  /\ conn[c].pc = "backlog" /\ Moved(c, "dropped", conn[c].slot)
             /\ AcceptorTo(l, "relay", Void)
  BY <1>4, BecomeMoves, AcceptorMoves DEF Oldest, ConnPlaces, Outside
<1>5. QED
  BY <1>1, <1>2, <1>3, <1>4 DEF AcceptOne

LEMMA RelayMoves ==
  ASSUME DaemonTypes, NEW l \in Listeners, RelayAcceptItem(l)
  PROVE  /\ acceptor[l].pc = "relay"
         /\ UNCHANGED <<dcfg, flags, signalled, main, alive, active, held, locks>>
         /\ \/ /\ Len(relay) < RelayCap /\ relay' = Append(relay, acceptor[l].item) /\ UNCHANGED conn
               /\ AcceptorTo(l, IF acceptor[l].item = Void THEN "dead" ELSE "run", acceptor[l].item)
            \/ /\ Stop /\ UNCHANGED relay /\ AcceptorTo(l, "dead", acceptor[l].item)
               /\ \/ acceptor[l].item = Void /\ UNCHANGED conn
                  \/ /\ acceptor[l].item \in Clients
                     /\ Moved(acceptor[l].item, "dropped", conn[acceptor[l].item].slot)
<1> DEFINE item == acceptor[l].item
           next == IF item = Void THEN "dead" ELSE "run"
<1>0. item \in Clients \cup {Void} /\ next \in {"run", "relay", "dead"}
  BY DEF DaemonTypes, AcceptorState
<1>1. /\ acceptor[l].pc = "relay"
      /\ UNCHANGED <<dcfg, flags, signalled, main, alive, active, held, locks>>
  BY DEF RelayAcceptItem
<1>2. CASE Len(relay) < RelayCap
  <2>1. /\ relay' = Append(relay, item) /\ UNCHANGED conn
        /\ acceptor' = [acceptor EXCEPT ![l].pc = next]
    BY <1>2 DEF RelayAcceptItem
  <2> HIDE DEF next
  <2>2. AcceptorTo(l, next, item)
    BY <1>0, <2>1, AcceptorMoves
  <2>3. QED
    BY <1>1, <1>2, <2>1, <2>2 DEF next
<1>3. CASE ~(Len(relay) < RelayCap)
  <2>1. Stop /\ UNCHANGED relay /\ acceptor' = [acceptor EXCEPT ![l].pc = "dead"]
    BY <1>3 DEF RelayAcceptItem
  <2>2. AcceptorTo(l, "dead", item)
    BY <2>1, AcceptorMoves
  <2>3. CASE item = Void
    BY <1>1, <1>3, <2>1, <2>2, <2>3 DEF RelayAcceptItem
  <2>4. CASE item # Void
    <3>1. item \in Clients /\ Become(item, "dropped")
      BY <1>0, <1>3, <2>4 DEF RelayAcceptItem
    <3>2. Moved(item, "dropped", conn[item].slot)
      BY <3>1, BecomeMoves DEF ConnPlaces, Outside
    <3>3. QED
      BY <1>1, <2>1, <2>2, <3>1, <3>2
  <2>5. QED
    BY <2>3, <2>4
<1>4. QED
  BY <1>2, <1>3

\* The relay, the acceptors and the connections on their way through them are as before.
LEMMA RelayKept ==
  ASSUME DaemonTypes, RelayInv, UNCHANGED <<relay, acceptor>>,
         \A c \in Clients : conn[c].pc = "accepted" => conn'[c].pc = "accepted"
  PROVE  RelayInv'
<1>1. \A i \in 1..Len(relay) : relay[i] # Void => relay[i] \in Clients
  BY SMTT(60) DEF DaemonTypes
<1>2. \A l \in Listeners : Carried(l) => acceptor[l].item \in Clients
  BY DEF DaemonTypes, Carried, AcceptorState
<1>3. QED
  BY <1>1, <1>2 DEF RelayInv, Carried, Relayed

\* One acceptor changes.
LEMMA AcceptKeepsRelay ==
  ASSUME DaemonTypes, RelayInv, NEW l \in Listeners, AcceptOne(l)
  PROVE  RelayInv'
<1>0. relay \in Seq(Clients \cup {Void}) /\ Len(relay) \in Nat
  BY SMTT(60) DEF DaemonTypes
<1>1. CASE Stop /\ UNCHANGED conn /\ AcceptorTo(l, "dead", acceptor[l].item)
  <2>1. UNCHANGED relay /\ ~Carried(l)' /\ \A m \in Listeners \ {l} : acceptor'[m] = acceptor[m]
    BY <1>1, AcceptMoves DEF AcceptorTo, Carried
  <2>2. QED
    BY <1>1, <2>1, SMTT(60) DEF RelayInv, Carried, Relayed
<1>2. ASSUME NEW c \in Clients, conn[c].pc = "backlog",
             NEW pc \in {"accepted", "dropped"}, Moved(c, pc, conn[c].slot),
             NEW item \in {c, Void}, AcceptorTo(l, "relay", item), pc = "dropped" => item = Void
      PROVE  RelayInv'
  <2>1. UNCHANGED relay
    BY AcceptMoves
  <2>2. /\ acceptor'[l].item = item /\ acceptor'[l].pc = "relay"
        /\ \A m \in Listeners \ {l} : acceptor'[m] = acceptor[m]
        /\ conn'[c].pc = pc /\ \A d \in Clients \ {c} : conn'[d] = conn[d]
    BY <1>2 DEF AcceptorTo, Moved
  <2>3. \A i \in 1..Len(relay) : relay[i] # Void => relay[i] \in Clients \ {c}
    BY <1>0, <1>2, SMTT(60) DEF RelayInv
  <2>4. \A m \in Listeners : Carried(m) => acceptor[m].item \in Clients \ {c}
    BY <1>2 DEF RelayInv, Carried, DaemonTypes, AcceptorState
  <2>5. /\ (Len(relay) <= RelayCap)'
        /\ \A i \in 1..Len(relay) : relay[i] # Void => conn'[relay[i]].pc = "accepted"
        /\ \A i, j \in 1..Len(relay) : relay[i] = relay[j] /\ relay[i] # Void => i = j
    BY <2>1, <2>2, <2>3 DEF RelayInv
  <2>6. ASSUME NEW m \in Listeners, Carried(m)'
        PROVE  conn'[acceptor'[m].item].pc = "accepted" /\ ~Relayed(acceptor'[m].item)
    <3>1. CASE m = l
      BY <1>2, <2>2, <2>3, <2>6, <3>1 DEF Carried, Relayed
    <3>2. CASE m # l
      BY <2>2, <2>4, <2>6, <3>2, SMTT(60) DEF RelayInv, Carried
    <3>3. QED
      BY <3>1, <3>2
  <2>7. ASSUME NEW m \in Listeners, NEW k \in Listeners, Carried(m)', Carried(k)',
               acceptor'[m].item = acceptor'[k].item
        PROVE  m = k
    BY <1>2, <2>2, <2>4, <2>7, SMTT(60) DEF RelayInv, Carried
  <2>8. QED
    BY <2>1, <2>5, <2>6, <2>7 DEF RelayInv, Relayed
<1>3. QED
  BY <1>1, <1>2, AcceptMoves

LEMMA SendKeepsRelay ==
  ASSUME DaemonTypes, RelayInv, NEW l \in Listeners, RelayAcceptItem(l)
  PROVE  RelayInv'
<1> DEFINE item == acceptor[l].item
<1>0. /\ relay \in Seq(Clients \cup {Void}) /\ Len(relay) \in Nat
      /\ item \in Clients \cup {Void} /\ acceptor[l].pc = "relay"
      /\ RelayCap \in Nat
  BY RelayMoves, DaemonAssumption, SMTT(60) DEF DaemonTypes, AcceptorState
<1>1. item # Void => conn[item].pc = "accepted" /\ ~Relayed(item)
  BY <1>0 DEF RelayInv, Carried
<1>2. \A m \in Listeners \ {l} : Carried(m) /\ item # Void => acceptor[m].item # item
  BY <1>0 DEF RelayInv, Carried
<1>3. CASE /\ Len(relay) < RelayCap /\ relay' = Append(relay, item) /\ UNCHANGED conn
           /\ AcceptorTo(l, IF item = Void THEN "dead" ELSE "run", item)
  <2>1. ~Carried(l)' /\ \A m \in Listeners \ {l} : acceptor'[m] = acceptor[m]
    BY <1>3 DEF AcceptorTo, Carried
  <2>2. /\ Len(relay') = Len(relay) + 1 /\ relay'[Len(relay) + 1] = item
        /\ \A i \in 1..Len(relay) : relay'[i] = relay[i]
    BY <1>0, <1>3, SMTT(60)
  <2>3. (Len(relay) <= RelayCap)'
    BY <1>0, <1>3, <2>2, SMTT(60)
  <2>4. \A i \in 1..Len(relay') : i \in 1..Len(relay) \/ i = Len(relay) + 1
    BY <1>0, <2>2, SMTT(60)
  <2>5. \A i \in 1..Len(relay') : relay'[i] # Void => conn'[relay'[i]].pc = "accepted"
    BY <1>1, <1>3, <2>2, <2>4 DEF RelayInv
  <2>6. \A i, j \in 1..Len(relay') : relay'[i] = relay'[j] /\ relay'[i] # Void => i = j
    BY <1>1, <2>2, <2>4, SMTT(60) DEF RelayInv, Relayed
  <2>7. ASSUME NEW m \in Listeners, Carried(m)'
        PROVE  (conn[acceptor[m].item].pc = "accepted" /\ ~Relayed(acceptor[m].item))'
    <3>1. m # l /\ Carried(m) /\ acceptor'[m] = acceptor[m]
      BY <2>1, <2>7 DEF Carried
    <3>2. acceptor[m].item # item
      BY <1>2, <3>1 DEF Carried
    <3>3. conn[acceptor[m].item].pc = "accepted" /\ ~Relayed(acceptor[m].item)
      BY <3>1 DEF RelayInv
    <3>4. QED
      BY <1>3, <2>2, <2>4, <3>1, <3>2, <3>3 DEF Relayed
  <2>8. ASSUME NEW m \in Listeners, NEW k \in Listeners, Carried(m)', Carried(k)',
               acceptor'[m].item = acceptor'[k].item
        PROVE  m = k
    BY <2>1, <2>8, SMTT(60) DEF RelayInv, Carried
  <2>9. QED
    BY <2>3, <2>5, <2>6, <2>7, <2>8 DEF RelayInv
<1>4. CASE /\ UNCHANGED relay /\ AcceptorTo(l, "dead", item)
           /\ \/ item = Void /\ UNCHANGED conn
              \/ item \in Clients /\ Moved(item, "dropped", conn[item].slot)
  <2>1. /\ ~Carried(l)' /\ \A m \in Listeners \ {l} : acceptor'[m] = acceptor[m]
        /\ UNCHANGED relay
    BY <1>4 DEF AcceptorTo, Carried
  <2>2. \A d \in Clients : d # item \/ item = Void => conn'[d] = conn[d]
    BY <1>4, CfgFacts DEF Moved, Void
  <2>3. \A i \in 1..Len(relay) : relay[i] # Void =>
           relay[i] \in Clients /\ (relay[i] # item \/ item = Void)
    BY <1>0, <1>1, SMTT(60) DEF Relayed
  <2>4. \A m \in Listeners \ {l} : Carried(m) =>
           acceptor[m].item \in Clients /\ (acceptor[m].item # item \/ item = Void)
    BY <1>2 DEF Carried, DaemonTypes, AcceptorState
  <2>5. QED
    BY <2>1, <2>2, <2>3, <2>4, SMTT(60) DEF RelayInv, Carried, Relayed
<1>5. QED
  BY <1>3, <1>4, RelayMoves

LEMMA TailFacts ==
  ASSUME NEW S, NEW s \in Seq(S), s # << >>
  PROVE  /\ Tail(s) \in Seq(S) /\ Len(s) \in Nat \ {0} /\ Len(Tail(s)) = Len(s) - 1
         /\ Head(s) = s[1] /\ Head(s) \in S
         /\ \A i \in 1..Len(Tail(s)) : Tail(s)[i] = s[i + 1] /\ i + 1 \in 2..Len(s)
BY SMTT(60)

\* The head of the relay leaves it, and may change.
LEMMA PopKeepsRelay ==
  ASSUME DaemonTypes, RelayInv, relay # << >>, relay' = Tail(relay), UNCHANGED acceptor,
         \A d \in Clients : d # Head(relay) => conn'[d] = conn[d]
  PROVE  RelayInv'
<1> DEFINE h == Head(relay)
<1>0. relay \in Seq(Clients \cup {Void}) /\ RelayCap \in Nat
  BY DaemonAssumption DEF DaemonTypes
<1>1. /\ Len(relay) \in Nat \ {0} /\ Len(relay') = Len(relay) - 1 /\ h = relay[1]
      /\ \A i \in 1..Len(relay') : relay'[i] = relay[i + 1] /\ i + 1 \in 2..Len(relay)
  BY <1>0, TailFacts
<1>2. (Len(relay) <= RelayCap)'
  BY <1>0, <1>1, SMTT(60) DEF RelayInv
<1>3. ASSUME NEW i \in 1..Len(relay'), relay'[i] # Void
      PROVE  conn'[relay'[i]].pc = "accepted"
  <2>1. /\ relay'[i] = relay[i + 1] /\ i + 1 \in 1..Len(relay) /\ 1 \in 1..Len(relay) /\ i + 1 # 1
    BY <1>1, SMTT(60)
  <2>2. relay[i + 1] # h /\ relay[i + 1] \in Clients /\ conn[relay[i + 1]].pc = "accepted"
    BY <1>0, <1>1, <1>3, <2>1, SMTT(60) DEF RelayInv
  <2>3. QED
    BY <2>1, <2>2
<1>4. ASSUME NEW i \in 1..Len(relay'), NEW j \in 1..Len(relay'), relay'[i] = relay'[j], relay'[i] # Void
      PROVE  i = j
  <2>1. relay[i + 1] = relay[j + 1] /\ relay[i + 1] # Void /\ i + 1 \in 1..Len(relay) /\ j + 1 \in 1..Len(relay)
    BY <1>1, <1>4, SMTT(60)
  <2>2. i + 1 = j + 1
    BY <2>1 DEF RelayInv
  <2>3. QED
    BY <2>2, SMTT(60)
<1>5. ASSUME NEW m \in Listeners, Carried(m)'
      PROVE  (conn[acceptor[m].item].pc = "accepted" /\ ~Relayed(acceptor[m].item))'
  <2>1. /\ acceptor'[m] = acceptor[m] /\ Carried(m) /\ acceptor[m].item \in Clients
        /\ conn[acceptor[m].item].pc = "accepted" /\ ~Relayed(acceptor[m].item)
    BY <1>5 DEF Carried, RelayInv, DaemonTypes, AcceptorState
  <2>2. acceptor[m].item # h
    BY <1>1, <2>1, SMTT(60) DEF Relayed
  <2>3. ~Relayed(acceptor[m].item)'
    BY <1>1, <2>1, SMTT(60) DEF Relayed
  <2>4. QED
    BY <2>1, <2>2, <2>3
<1>6. ASSUME NEW m \in Listeners, NEW k \in Listeners, Carried(m)', Carried(k)',
             acceptor'[m].item = acceptor'[k].item
      PROVE  m = k
  BY <1>6 DEF RelayInv, Carried
<1>7. QED
  BY <1>2, <1>3, <1>4, <1>5, <1>6 DEF RelayInv

LEMMA RelayStep ==
  ASSUME DaemonTypes, RelayInv, DaemonNext
  PROVE  RelayInv'
<1>1. ASSUME NEW s, Signal(s) PROVE RelayInv'
  BY <1>1, RelayKept DEF Signal
<1>2. ASSUME ReapFinishedWorkers \/ CheckSignals \/ ShutdownEngine \/ DrainWorkers PROVE RelayInv'
  <2>1. UNCHANGED <<relay, acceptor, conn>>
    BY <1>2 DEF ReapFinishedWorkers, CheckSignals, ShutdownEngine, DrainWorkers
  <2>2. QED
    BY <2>1, RelayKept
<1>3. ASSUME PollListener PROVE RelayInv'
  <2>0. conn \in [Clients -> ConnState]
    BY DEF DaemonTypes
  <2>1. UNCHANGED <<relay, acceptor>>
    BY <1>3 DEF PollListener
  <2>2. CASE UNCHANGED conn
    BY <2>1, <2>2, RelayKept
  <2>3. ASSUME NEW c \in Clients, Oldest(c), HandleAcceptedConnection(c) \/ Become(c, "dropped")
        PROVE  RelayInv'
    <3>1. conn[c].pc = "backlog"
      BY <2>3 DEF Oldest
    <3>2. \A d \in Clients \ {c} : conn'[d] = conn[d]
      BY <2>0, <2>3 DEF HandleAcceptedConnection, SpawnWorker, Become
    <3>3. QED
      BY <2>1, <3>1, <3>2, RelayKept
  <2>4. QED
    BY <1>3, <2>2, <2>3 DEF PollListener
<1>4. ASSUME PollRelay PROVE RelayInv'
  <2>0. conn \in [Clients -> ConnState]
    BY DEF DaemonTypes
  <2>1. UNCHANGED acceptor
    BY <1>4 DEF PollRelay
  <2>2. CASE UNCHANGED <<relay, conn>>
    BY <2>1, <2>2, RelayKept
  <2>3. CASE relay # << >> /\ relay' = Tail(relay) /\ HandleAcceptedConnection(Head(relay))
    <3>1. \A d \in Clients : d # Head(relay) => conn'[d] = conn[d]
      BY <2>0, <2>3 DEF HandleAcceptedConnection, SpawnWorker, Become
    <3>2. QED
      BY <2>1, <2>3, <3>1, PopKeepsRelay
  <2>4. CASE relay # << >> /\ relay' = Tail(relay) /\ UNCHANGED conn
    BY <2>1, <2>4, PopKeepsRelay
  <2>5. QED
    BY <1>4, <2>2, <2>3, <2>4 DEF PollRelay
<1>5. ASSUME NEW c \in Clients, Worker(c) PROVE RelayInv'
  <2>1. UNCHANGED <<relay, acceptor>>
    BY <1>5 DEF Worker, Greet, ClaimSlot, AcquireLocalSlot, Serve, DropModuleGuard, Unlock,
                DropConnectionGuard
  <2>2. conn[c].pc # "accepted" /\ \A d \in Clients \ {c} : conn'[d] = conn[d]
    BY <1>5, GreetMoves, ClaimMoves, LocalMoves, ServeMoves, DropMoves, ZenonT(60) DEF Worker, Moved
  <2>3. QED
    BY <2>1, <2>2, RelayKept
<1>6. QED
  BY <1>1, <1>2, <1>3, <1>4, <1>5, AcceptKeepsRelay, SendKeepsRelay DEF DaemonNext, MainThread

-----------------------------------------------------------------------------
(* Every session is one of the handles the main thread joins.                 *)

LEMMA ConcatFacts ==
  ASSUME NEW S, NEW a \in Seq(S), NEW b \in Seq(S)
  PROVE  /\ a \o b \in Seq(S) /\ Len(a \o b) = Len(a) + Len(b)
         /\ \A k \in 1..Len(a \o b) : (a \o b)[k] = IF k <= Len(a) THEN a[k] ELSE b[k - Len(a)]
BY SMTT(60)

LEMMA Reaped ==
  ASSUME NEW S, NEW w \in Seq(S), NEW i \in 1..Len(w)
  PROVE  /\ Without(w, i) \in Seq(S)
         /\ \A k \in 1..Len(Without(w, i)) : \E j \in 1..Len(w) : Without(w, i)[k] = w[j]
         /\ \A j \in 1..Len(w) : j # i =>
               \E k \in 1..Len(Without(w, i)) : Without(w, i)[k] = w[j]
<1> DEFINE a == SubSeq(w, 1, i - 1)
           b == SubSeq(w, i + 1, Len(w))
           r == Without(w, i)
<1>0. r = a \o b
  BY DEF Without
<1>1. /\ a \in Seq(S) /\ Len(a) = i - 1 /\ \A k \in 1..i - 1 : a[k] = w[k]
  BY SMTT(60)
<1>2. /\ b \in Seq(S) /\ Len(b) = Len(w) - i /\ \A k \in 1..Len(w) - i : b[k] = w[i + k]
  BY SMTT(60)
<1> HIDE DEF a, b, r
<1>3. /\ r \in Seq(S) /\ Len(r) = Len(w) - 1
      /\ \A k \in 1..Len(r) : r[k] = IF k <= Len(a) THEN a[k] ELSE b[k - Len(a)]
  <2>1. Len(a) + Len(b) = Len(w) - 1
    BY <1>1, <1>2, SMTT(60)
  <2>2. QED
    BY <1>0, <1>1, <1>2, <2>1, ConcatFacts, ZenonT(60)
<1>4. ASSUME NEW k \in 1..Len(r) PROVE \E j \in 1..Len(w) : r[k] = w[j]
  <2>1. CASE k <= i - 1
    BY <1>1, <1>3, <2>1, SMTT(60)
  <2>2. CASE ~(k <= i - 1)
    <3>1. k - (i - 1) \in 1..Len(w) - i /\ i + (k - (i - 1)) = k + 1 /\ k + 1 \in 1..Len(w)
      BY <1>3, <2>2, SMTT(60)
    <3>2. r[k] = w[k + 1]
      BY <1>1, <1>2, <1>3, <2>2, <3>1, SMTT(60)
    <3>3. QED
      BY <3>1, <3>2
  <2>3. QED
    BY <2>1, <2>2
<1>5. ASSUME NEW j \in 1..Len(w), j # i PROVE \E k \in 1..Len(r) : r[k] = w[j]
  <2>1. CASE j < i
    <3>1. j \in 1..Len(r) /\ j <= Len(a) /\ j \in 1..i - 1
      BY <1>1, <1>3, <2>1, SMTT(60)
    <3>2. QED
      BY <1>1, <1>3, <3>1
  <2>2. CASE j > i
    <3>1. j - 1 \in 1..Len(r) /\ ~(j - 1 <= Len(a)) /\ j - i \in 1..Len(w) - i /\ i + (j - i) = j
      BY <1>1, <1>3, <2>2, SMTT(60)
    <3>2. (j - 1) - Len(a) = j - i
      BY <1>1, SMTT(60)
    <3>3. r[j - 1] = w[j]
      BY <1>2, <1>3, <3>1, <3>2, ZenonT(60)
    <3>4. QED
      BY <3>1, <3>3
  <2>3. QED
    BY <1>5, <2>1, <2>2, SMTT(60)
<1>6. QED
  BY <1>3, <1>4, <1>5 DEF r

\* The list keeps the handles of the sessions that run.
LEMMA WorkersKept ==
  ASSUME DaemonTypes, WorkersInv, UNCHANGED dcfg, main'.workers = main.workers,
         \A c \in Clients : /\ conn[c].gen # 0 => conn'[c].gen # 0
                            /\ c \in InSession' => c \in InSession
  PROVE  WorkersInv'
<1>1. \A i \in 1..Len(main.workers) : main.workers[i] \in Clients
  BY SMTT(60) DEF DaemonTypes, MainState
<1>2. \A c \in InSession' : c \in Clients
  BY DEF InSession, Clients
<1>3. QED
  BY <1>1, <1>2 DEF WorkersInv

\* One handle of a finished worker is taken out.
LEMMA WorkersJoined ==
  ASSUME DaemonTypes, WorkersInv, UNCHANGED <<dcfg, conn>>,
         NEW i \in 1..Len(main.workers), conn[main.workers[i]].pc = "finished",
         \A k \in 1..Len(main'.workers) : \E j \in 1..Len(main.workers) : main'.workers[k] = main.workers[j],
         \A j \in 1..Len(main.workers) : j # i =>
            \E k \in 1..Len(main'.workers) : main'.workers[k] = main.workers[j]
  PROVE  WorkersInv'
<1>1. \A k \in 1..Len(main'.workers) : conn[main'.workers[k]].gen # 0
  BY SMTT(60) DEF WorkersInv
<1>2. ASSUME NEW c \in InSession PROVE \E k \in 1..Len(main'.workers) : main'.workers[k] = c
  <2>1. conn[c].pc # "finished"
    BY DEF InSession
  <2>2. PICK j \in 1..Len(main.workers) : main.workers[j] = c
    BY DEF WorkersInv
  <2>3. j # i
    BY <2>1, <2>2
  <2>4. QED
    BY <2>2, <2>3
<1>3. InSession' = InSession
  BY DEF InSession, Clients
<1>4. QED
  BY <1>1, <1>2, <1>3 DEF WorkersInv

\* A worker gets a handle.
LEMMA WorkerListed ==
  ASSUME DaemonTypes, WorkersInv, UNCHANGED dcfg, NEW c \in Clients,
         main'.workers = Append(main.workers, c),
         conn' = [conn EXCEPT ![c].pc = "greet", ![c].gen = main.gen]
  PROVE  WorkersInv'
<1> DEFINE w == main.workers
<1>0. /\ w \in Seq(Clients) /\ Len(w) \in Nat /\ main.gen # 0
      /\ conn \in [Clients -> ConnState] /\ Clients' = Clients
  BY CfgFacts, SMTT(60) DEF DaemonTypes, MainState, Clients
<1>1. /\ Len(main'.workers) = Len(w) + 1 /\ main'.workers[Len(w) + 1] = c
      /\ \A i \in 1..Len(w) : main'.workers[i] = w[i] /\ i \in 1..Len(main'.workers) /\ w[i] \in Clients
      /\ Len(w) + 1 \in 1..Len(main'.workers)
      /\ \A i \in 1..Len(main'.workers) : i \in 1..Len(w) \/ i = Len(w) + 1
  BY <1>0, SMTT(60)
<1>2. conn'[c].gen # 0 /\ \A d \in Clients \ {c} : conn'[d] = conn[d]
  BY <1>0 DEF ConnState
<1>3. \A i \in 1..Len(main'.workers) : conn'[main'.workers[i]].gen # 0
  <2>1. \A i \in 1..Len(w) : conn[w[i]].gen # 0
    BY DEF WorkersInv
  <2>2. \A i \in 1..Len(w) : conn'[w[i]].gen # 0
    BY <1>1, <1>2, <2>1
  <2>3. QED
    BY <1>1, <1>2, <2>2
<1>4. ASSUME NEW d \in InSession' PROVE \E i \in 1..Len(main'.workers) : main'.workers[i] = d
  <2>1. d \in Clients
    BY <1>0 DEF InSession
  <2>2. CASE d = c
    BY <1>1, <2>2
  <2>3. CASE d # c
    <3>1. d \in InSession
      BY <1>0, <1>2, <2>1, <2>3 DEF InSession
    <3>2. PICK j \in 1..Len(w) : w[j] = d
      BY <3>1 DEF WorkersInv
    <3>3. QED
      BY <1>1, <3>2
  <2>4. QED
    BY <2>2, <2>3
<1>5. QED
  BY <1>3, <1>4 DEF WorkersInv

\* A connection that is turned away or moves on has no session it did not have.
LEMMA NoNewSession ==
  ASSUME UNCHANGED dcfg, NEW c \in Clients, NEW pc, NEW s, Moved(c, pc, s),
         conn[c].pc \in WorkerPlaces \ {"finished"} \/ pc \in Outside
  PROVE  \A d \in Clients : /\ conn[d].gen # 0 => conn'[d].gen # 0
                            /\ d \in InSession' => d \in InSession
<1>1. Clients' = Clients /\ \A d \in Clients \ {c} : conn'[d] = conn[d]
  BY DEF Clients, Moved
<1>2. conn'[c].gen = conn[c].gen /\ conn'[c].pc = pc
  BY DEF Moved
<1>3. c \in InSession' => c \in InSession
  BY <1>1, <1>2 DEF InSession, Outside, WorkerPlaces
<1>4. QED
  BY <1>1, <1>2, <1>3 DEF InSession

-----------------------------------------------------------------------------
\* The connection c is turned away, or has a worker and a handle.
Away(c, pc) ==
    /\ MainTo("reap") /\ main'.how = main.how
    /\ Moved(c, pc, conn[c].slot) /\ pc \in Outside /\ UNCHANGED active
Listed(c) ==
    /\ main' \in MainState /\ main'.how = main.how
    /\ main'.workers = Append(main.workers, c) /\ main'.served = main.served + 1
    /\ \/ main'.pc = "reap"
       \/ main'.pc = "close" /\ dcfg.sessions > 0 /\ main'.served = dcfg.sessions
    /\ conn' = [conn EXCEPT ![c].pc = "greet", ![c].gen = main.gen]

LEMMA HandleEffect ==
  ASSUME DaemonTypes, NEW c \in Clients, HandleAcceptedConnection(c)
  PROVE  Away(c, "refused") \/ Listed(c)
<1>1. CASE MainTo("reap") /\ main'.how = main.how /\ Become(c, "refused") /\ UNCHANGED active
  <2>1. Moved(c, "refused", conn[c].slot) /\ "refused" \in Outside
    BY <1>1, BecomeMoves DEF ConnPlaces, Outside
  <2>2. QED
    BY <1>1, <2>1 DEF Away
<1>2. QED
  BY <1>1, HandleMain DEF Listed

LEMMA PollListenerMoves ==
  ASSUME DaemonTypes, PollListener
  PROVE  /\ main.pc = "poll" /\ Single
         /\ UNCHANGED <<dcfg, flags, signalled, acceptor, alive, relay, held, locks>>
         /\ \/ MainTo("reap") /\ main'.how = main.how /\ UNCHANGED conn
            \/ \E c \in Clients, pc \in Outside : Away(c, pc)
            \/ \E c \in Clients : Listed(c)
<1>0. /\ main.pc = "poll" /\ Single
      /\ UNCHANGED <<dcfg, flags, signalled, acceptor, alive, relay, held, locks>>
  BY DEF PollListener
<1>1. CASE MainAt("reap") /\ UNCHANGED <<conn, active>>
  BY <1>0, <1>1, MainMoves DEF MainPlaces
<1>2. ASSUME NEW c \in Clients, HandleAcceptedConnection(c)
      PROVE  (\E pc \in Outside : Away(c, pc)) \/ Listed(c)
  BY <1>2, HandleEffect DEF Outside
<1>3. ASSUME NEW c \in Clients, Become(c, "dropped"), MainAt("reap"), UNCHANGED active
      PROVE  Away(c, "dropped") /\ "dropped" \in Outside
  <2>1. Moved(c, "dropped", conn[c].slot) /\ "dropped" \in Outside
    BY <1>3, BecomeMoves DEF ConnPlaces, Outside
  <2>2. MainTo("reap") /\ main'.how = main.how
    BY <1>3, MainMoves DEF MainPlaces
  <2>3. QED
    BY <1>3, <2>1, <2>2 DEF Away
<1>4. QED
  BY <1>0, <1>1, <1>2, <1>3 DEF PollListener

LEMMA PollRelayMoves ==
  ASSUME DaemonTypes, PollRelay
  PROVE  /\ main.pc = "poll" /\ ~Single /\ flags' \in Flags
         /\ UNCHANGED <<dcfg, signalled, acceptor, held, locks>>
         /\ \/ /\ relay = << >> /\ AllDead /\ MainTo("close") /\ main'.how = main.how
               /\ UNCHANGED <<flags, alive, relay, conn>>
            \/ /\ MainTo("reap") /\ main'.how = main.how
               /\ UNCHANGED <<flags, alive, relay, conn>>
            \/ /\ relay # << >> /\ Head(relay) # Void /\ Head(relay) \in Clients
               /\ relay' = Tail(relay) /\ UNCHANGED <<flags, alive>>
               /\ Away(Head(relay), "refused") \/ Listed(Head(relay))
            \/ /\ relay # << >> /\ Head(relay) = Void /\ relay' = Tail(relay)
               /\ alive' = alive - 1 /\ UNCHANGED conn /\ flags'.graceful = flags.graceful
               /\ main'.how = main.how
               /\ \/ alive = 1 /\ MainTo("fail") /\ flags'.shutdown
                  \/ alive # 1 /\ MainTo("reap") /\ flags'.shutdown = flags.shutdown
<1>0. /\ main.pc = "poll" /\ ~Single /\ UNCHANGED <<dcfg, signalled, acceptor, held, locks>>
      /\ flags \in Flags /\ relay \in Seq(Clients \cup {Void})
  BY DEF PollRelay, DaemonTypes
<1>1. CASE /\ relay = << >> /\ UNCHANGED <<flags, alive, relay, conn, active>>
           /\ MainAt(IF AllDead THEN "close" ELSE "reap")
  <2>1. CASE AllDead
    BY <1>0, <1>1, <2>1, MainMoves DEF MainPlaces
  <2>2. CASE ~AllDead
    BY <1>0, <1>1, <2>2, MainMoves DEF MainPlaces
  <2>3. QED
    BY <2>1, <2>2
<1>2. CASE /\ relay # << >> /\ Head(relay) # Void /\ relay' = Tail(relay)
           /\ HandleAcceptedConnection(Head(relay)) /\ UNCHANGED <<flags, alive>>
  <2>1. Head(relay) \in Clients
    BY <1>0, <1>2, SMTT(60)
  <2>2. Away(Head(relay), "refused") \/ Listed(Head(relay))
    BY <1>2, <2>1, HandleEffect
  <2>3. QED
    BY <1>0, <1>2, <2>1, <2>2
<1>3. CASE /\ relay # << >> /\ Head(relay) = Void /\ relay' = Tail(relay) /\ alive' = alive - 1
           /\ flags' = [flags EXCEPT !.shutdown = @ \/ alive = 1]
           /\ MainAt(IF alive = 1 THEN "fail" ELSE "reap") /\ UNCHANGED <<conn, active>>
  <2>1. CASE alive = 1
    <3>1. MainTo("fail") /\ main'.how = main.how
      BY <1>3, <2>1, MainMoves DEF MainPlaces
    <3>2. flags' \in Flags /\ flags'.graceful = flags.graceful /\ flags'.shutdown
      BY <1>0, <1>3, <2>1 DEF Flags
    <3>3. QED
      BY <1>0, <1>3, <2>1, <3>1, <3>2
  <2>2. CASE alive # 1
    <3>1. MainTo("reap") /\ main'.how = main.how
      BY <1>3, <2>2, MainMoves DEF MainPlaces
    <3>2. flags' \in Flags /\ flags'.graceful = flags.graceful /\ flags'.shutdown = flags.shutdown
      BY <1>0, <1>3, <2>2 DEF Flags
    <3>3. QED
      BY <1>0, <1>3, <2>2, <3>1, <3>2
  <2>3. QED
    BY <2>1, <2>2
<1>4. QED
  BY <1>0, <1>1, <1>2, <1>3 DEF PollRelay, AllDead

LEMMA ShutdownMoves ==
  ASSUME DaemonTypes, ShutdownEngine
  PROVE  /\ UNCHANGED <<dcfg, signalled, acceptor, alive, relay, conn, active, held, locks>>
         /\ flags' \in Flags /\ flags'.graceful = flags.graceful
         /\ flags.shutdown => flags'.shutdown
         /\ \/ main.pc = "close" /\ MainTo("join") /\ main'.how = main.how
            \/ main.pc = "close" /\ Single /\ MainTo("drain") /\ main'.how = main.how
            \/ main.pc = "join" /\ AllDead /\ MainTo("drain") /\ main'.how = main.how
            \/ main.pc = "fail" /\ MainTo("exit") /\ main'.how = "error"
<1>0. /\ UNCHANGED <<dcfg, signalled, acceptor, alive, relay, conn, active, held, locks>>
      /\ flags \in Flags
  BY DEF ShutdownEngine, DaemonTypes
<1>1. CASE /\ main.pc = "close" /\ flags' = [flags EXCEPT !.shutdown = TRUE] /\ MainAt("join")
  <2>1. flags' \in Flags /\ flags'.graceful = flags.graceful /\ flags'.shutdown
    BY <1>0, <1>1 DEF Flags
  <2>2. QED
    BY <1>0, <1>1, <2>1, MainMoves DEF MainPlaces
<1>2. CASE main.pc = "close" /\ Single /\ MainAt("drain") /\ UNCHANGED flags
  BY <1>0, <1>2, MainMoves DEF MainPlaces
<1>3. CASE /\ main.pc = "join" /\ AllDead /\ main' = [main EXCEPT !.pc = "drain"] /\ UNCHANGED flags
  BY <1>0, <1>3, MainMoves DEF MainPlaces, MainAt
<1>4. CASE /\ main.pc = "fail" /\ main' = [main EXCEPT !.pc = "exit", !.how = "error"] /\ UNCHANGED flags
  BY <1>0, <1>4, ExitMoves
<1>5. QED
  BY <1>1, <1>2, <1>3, <1>4 DEF ShutdownEngine, AllDead

LEMMA WorkerFrame ==
  ASSUME NEW c \in Clients, Worker(c)
  PROVE  UNCHANGED <<dcfg, flags, signalled, main, acceptor, alive, relay>>
BY DEF Worker, Greet, ClaimSlot, AcquireLocalSlot, Serve, DropModuleGuard, Unlock, DropConnectionGuard

\* A step of a worker moves its connection on; it has not ended before.
LEMMA WorkerMoves ==
  ASSUME DaemonTypes, NEW c \in Clients, Worker(c)
  PROVE  /\ conn[c].pc \in WorkerPlaces \ {"finished"}
         /\ \E pc, s : Moved(c, pc, s)
BY GreetMoves, ClaimMoves, LocalMoves, ServeMoves, DropMoves DEF Worker, WorkerPlaces

LEMMA WorkersStep ==
  ASSUME DaemonTypes, WorkersInv, DaemonNext
  PROVE  WorkersInv'
<1>1. ASSUME UNCHANGED <<dcfg, conn>>, main'.workers = main.workers PROVE WorkersInv'
  <2>1. InSession' = InSession
    BY <1>1 DEF InSession, Clients
  <2>2. QED
    BY <1>1, <2>1 DEF WorkersInv
<1>2. ASSUME UNCHANGED dcfg, main'.workers = main.workers, NEW c \in Clients, NEW pc, NEW s,
             Moved(c, pc, s), conn[c].pc \in WorkerPlaces \ {"finished"} \/ pc \in Outside
      PROVE  WorkersInv'
  BY <1>2, NoNewSession, WorkersKept
<1>3. ASSUME NEW s, Signal(s) PROVE WorkersInv'
  BY <1>1, <1>3 DEF Signal
<1>4. ASSUME NEW l \in Listeners, AcceptOne(l) PROVE WorkersInv'
  <2>1. UNCHANGED <<dcfg, main>>
    BY <1>4, AcceptMoves
  <2>2. CASE UNCHANGED conn
    BY <1>1, <2>1, <2>2
  <2>3. ASSUME NEW c \in Clients, NEW pc \in {"accepted", "dropped"}, Moved(c, pc, conn[c].slot)
        PROVE  WorkersInv'
    BY <1>2, <2>1, <2>3 DEF Outside
  <2>4. QED
    BY <1>4, <2>2, <2>3, AcceptMoves
<1>5. ASSUME NEW l \in Listeners, RelayAcceptItem(l) PROVE WorkersInv'
  <2>1. UNCHANGED <<dcfg, main>>
    BY <1>5, RelayMoves
  <2>2. CASE UNCHANGED conn
    BY <1>1, <2>1, <2>2
  <2>3. ASSUME NEW c \in Clients, Moved(c, "dropped", conn[c].slot)
        PROVE  WorkersInv'
    BY <1>2, <2>1, <2>3 DEF Outside
  <2>4. QED
    BY <1>5, <2>2, <2>3, RelayMoves
<1>6. ASSUME ReapFinishedWorkers PROVE WorkersInv'
  <2>1. UNCHANGED <<dcfg, conn>>
    BY <1>6, ReapMoves
  <2>2. CASE main'.workers = main.workers
    BY <1>1, <2>1, <2>2
  <2>3. ASSUME NEW i \in 1..Len(main.workers), conn[main.workers[i]].pc = "finished",
               main'.workers = Without(main.workers, i)
        PROVE  WorkersInv'
    <3>1. main.workers \in Seq(Clients)
      BY DEF DaemonTypes, MainState
    <3>2. /\ \A k \in 1..Len(main'.workers) :
                \E j \in 1..Len(main.workers) : main'.workers[k] = main.workers[j]
          /\ \A j \in 1..Len(main.workers) : j # i =>
                \E k \in 1..Len(main'.workers) : main'.workers[k] = main.workers[j]
      <4> DEFINE w == main.workers
                 r == Without(main.workers, i)
      <4>1. /\ \A k \in 1..Len(r) : \E j \in 1..Len(w) : r[k] = w[j]
            /\ \A j \in 1..Len(w) : j # i => \E k \in 1..Len(r) : r[k] = w[j]
        BY <3>1, Reaped, ZenonT(60)
      <4>2. main'.workers = r
        BY <2>3
      <4> HIDE DEF w, r
      <4>3. QED
        BY <4>1, <4>2 DEF w
    <3>3. QED
      BY <2>1, <2>3, <3>2, WorkersJoined
  <2>4. QED
    BY <1>6, <2>2, <2>3, ReapMoves DEF MainTo
<1>7. ASSUME CheckSignals \/ ShutdownEngine PROVE WorkersInv'
  BY <1>1, <1>7, CheckMoves, ShutdownMoves DEF MainTo
<1>8. ASSUME NEW c \in Clients, NEW pc \in Outside, Away(c, pc), UNCHANGED dcfg PROVE WorkersInv'
  BY <1>2, <1>8 DEF Away, MainTo
<1>9. ASSUME NEW c \in Clients, Listed(c), UNCHANGED dcfg PROVE WorkersInv'
  BY <1>9, WorkerListed DEF Listed
<1>10. ASSUME PollListener PROVE WorkersInv'
  <2>1. CASE MainTo("reap") /\ UNCHANGED conn
    BY <1>1, <1>10, <2>1, PollListenerMoves DEF MainTo
  <2>2. QED
    BY <1>8, <1>9, <1>10, <2>1, PollListenerMoves
<1>11. ASSUME PollRelay PROVE WorkersInv'
  <2>1. UNCHANGED dcfg /\ "refused" \in Outside
    BY <1>11, PollRelayMoves DEF Outside
  <2>2. CASE UNCHANGED conn /\ main'.workers = main.workers
    BY <1>1, <2>1, <2>2
  <2>3. CASE Head(relay) \in Clients /\ (Away(Head(relay), "refused") \/ Listed(Head(relay)))
    BY <1>8, <1>9, <2>1, <2>3
  <2>4. QED
    BY <1>11, <2>2, <2>3, PollRelayMoves DEF MainTo
<1>12. ASSUME DrainWorkers PROVE WorkersInv'
  <2>1. UNCHANGED <<dcfg, conn>>
    BY <1>12, DrainMoves
  <2>2. CASE main'.workers = main.workers
    BY <1>1, <2>1, <2>2
  <2>3. CASE /\ main.workers # << >> /\ conn[main.workers[Len(main.workers)]].pc = "finished"
             /\ main'.workers = SubSeq(main.workers, 1, Len(main.workers) - 1)
    <3>1. main.workers \in Seq(Clients) /\ Len(main.workers) \in 1..Len(main.workers)
      BY <2>3, SMTT(60) DEF DaemonTypes, MainState
    <3>2. /\ Len(main'.workers) = Len(main.workers) - 1
          /\ \A k \in 1..Len(main.workers) - 1 : main'.workers[k] = main.workers[k]
      BY <2>3, <3>1, SMTT(60)
    <3>3. /\ \A k \in 1..Len(main'.workers) :
                \E j \in 1..Len(main.workers) : main'.workers[k] = main.workers[j]
          /\ \A j \in 1..Len(main.workers) : j # Len(main.workers) =>
                \E k \in 1..Len(main'.workers) : main'.workers[k] = main.workers[j]
      BY <3>1, <3>2, SMTT(60)
    <3>4. QED
      BY <2>1, <2>3, <3>1, <3>3, WorkersJoined
  <2>4. QED
    BY <1>12, <2>2, <2>3, DrainMoves DEF MainTo
<1>13. ASSUME NEW c \in Clients, Worker(c) PROVE WorkersInv'
  BY <1>2, <1>13, WorkerFrame, WorkerMoves
<1>14. QED
  BY <1>3, <1>4, <1>5, <1>6, <1>7, <1>10, <1>11, <1>12, <1>13, ZenonT(60) DEF DaemonNext, MainThread

-----------------------------------------------------------------------------
LEMMA TypesStep ==
  ASSUME DaemonTypes, RelayInv, DaemonNext
  PROVE  DaemonTypes'
<1>0. /\ UNCHANGED dcfg
      /\ Quiet \/ \E c \in Clients : Turned(c) \/ Admitted(c) \/ Worker(c)
  BY StepMoves
<1>1. /\ Clients' = Clients /\ Ranges' = Ranges /\ ConnState' = ConnState
      /\ MainState' = MainState /\ AcceptorState' = AcceptorState
  BY <1>0 DEF Clients, Ranges, ConnState, MainState, AcceptorState
<1>2. /\ dcfg \in DaemonCfgs /\ flags \in Flags /\ signalled \subseteq {"shutdown", "graceful", "reload"}
      /\ main \in MainState /\ acceptor \in [Listeners -> AcceptorState]
      /\ alive \in Int /\ relay \in Seq(Clients \cup {Void}) /\ conn \in [Clients -> ConnState]
      /\ active \in Int /\ held \in [DOMAIN dcfg.caps -> Int]
      /\ locks \in [Ranges -> Clients \cup {Void}]
  BY DEF DaemonTypes
<1>3. /\ conn' \in [Clients -> ConnState] /\ active' \in Int
      /\ held' \in [DOMAIN dcfg.caps -> Int] /\ locks' \in [Ranges -> Clients \cup {Void}]
  <2>1. CASE Quiet
    BY <1>2, <2>1 DEF Quiet
  <2>2. ASSUME NEW c \in Clients, Turned(c) \/ Admitted(c)
        PROVE  /\ conn' \in [Clients -> ConnState] /\ active' \in Int /\ UNCHANGED <<held, locks>>
    BY <1>2, <2>2, SMTT(60) DEF Turned, Admitted, Moved
  <2>3. ASSUME NEW c \in Clients, Worker(c)
        PROVE  /\ conn' \in [Clients -> ConnState] /\ active' \in Int
               /\ held' \in [DOMAIN dcfg.caps -> Int] /\ locks' \in [Ranges -> Clients \cup {Void}]
    <3>1. conn' \in [Clients -> ConnState]
      BY <2>3, WorkerMoves DEF Moved
    <3>2. active' = active \/ active' = active - 1
      BY <2>3, GreetMoves, ClaimMoves, LocalMoves, ServeMoves, DropMoves, ZenonT(60) DEF Worker
    <3>3. \/ held' = held \/ held' = [held EXCEPT ![conn[c].gen] = @ + 1]
          \/ held' = [held EXCEPT ![conn[c].gen] = @ - 1]
      BY <2>3, GreetMoves, ClaimMoves, LocalMoves, ServeMoves, DropMoves DEF Worker
    <3>4. \E x \in Clients \cup {Void} : locks' = locks \/ locks' = [locks EXCEPT ![conn[c].slot] = x]
      BY <2>3, GreetMoves, ClaimMoves, LocalMoves, ServeMoves, DropMoves DEF Worker
    <3>5. held' \in [DOMAIN dcfg.caps -> Int]
      BY <1>2, <3>3, SMTT(60)
    <3>6. locks' \in [Ranges -> Clients \cup {Void}]
      BY <1>2, <3>4
    <3>7. QED
      BY <1>2, <3>1, <3>2, <3>5, <3>6, SMTT(60)
  <2>4. QED
    BY <1>0, <1>2, <2>1, <2>2, <2>3
<1>4. SUFFICES /\ flags' \in Flags /\ signalled' \subseteq {"shutdown", "graceful", "reload"}
               /\ main' \in MainState /\ acceptor' \in [Listeners -> AcceptorState]
               /\ alive' \in Int /\ relay' \in Seq(Clients \cup {Void})
  BY <1>0, <1>1, <1>2, <1>3 DEF DaemonTypes
<1>5. ASSUME NEW s \in {"shutdown", "graceful", "reload"}, Signal(s)
      PROVE  /\ flags' \in Flags /\ signalled' \subseteq {"shutdown", "graceful", "reload"}
             /\ UNCHANGED <<main, acceptor, alive, relay>>
  <2>1. flags' = [flags EXCEPT ![s] = TRUE]
    BY <1>5 DEF Signal
  <2>2. flags' \in Flags
    <3>1. CASE s = "shutdown"
      BY <1>2, <2>1, <3>1 DEF Flags
    <3>2. CASE s = "graceful"
      BY <1>2, <2>1, <3>2 DEF Flags
    <3>3. CASE s = "reload"
      BY <1>2, <2>1, <3>3 DEF Flags
    <3>4. QED
      BY <3>1, <3>2, <3>3
  <2>3. QED
    BY <1>2, <1>5, <2>2 DEF Signal
<1>6. ASSUME NEW l \in Listeners, AcceptOne(l)
      PROVE  acceptor' \in [Listeners -> AcceptorState] /\ UNCHANGED <<flags, signalled, main, alive, relay>>
  BY <1>6, AcceptMoves DEF AcceptorTo
<1>7. ASSUME NEW l \in Listeners, RelayAcceptItem(l)
      PROVE  /\ acceptor' \in [Listeners -> AcceptorState] /\ relay' \in Seq(Clients \cup {Void})
             /\ UNCHANGED <<flags, signalled, main, alive>>
  <2>1. acceptor[l].item \in Clients \cup {Void}
    BY <1>2 DEF AcceptorState
  <2>2. Append(relay, acceptor[l].item) \in Seq(Clients \cup {Void})
    BY <1>2, <2>1, SMTT(60)
  <2>3. relay' = relay \/ relay' = Append(relay, acceptor[l].item)
    BY <1>7, RelayMoves
  <2>4. QED
    BY <1>2, <1>7, <2>2, <2>3, RelayMoves DEF AcceptorTo
<1>8. ASSUME ReapFinishedWorkers \/ DrainWorkers
      PROVE  main' \in MainState /\ UNCHANGED <<flags, signalled, acceptor, alive, relay>>
  BY <1>8, ReapMoves, DrainMoves DEF MainTo
<1>9. ASSUME CheckSignals \/ ShutdownEngine
      PROVE  main' \in MainState /\ flags' \in Flags /\ UNCHANGED <<signalled, acceptor, alive, relay>>
  BY <1>9, CheckMoves, ShutdownMoves DEF MainTo
<1>10. ASSUME PollListener
       PROVE  main' \in MainState /\ UNCHANGED <<flags, signalled, acceptor, alive, relay>>
  BY <1>10, PollListenerMoves DEF MainTo, Away, Listed
<1>11. ASSUME PollRelay
       PROVE  /\ main' \in MainState /\ flags' \in Flags /\ UNCHANGED <<signalled, acceptor>>
              /\ alive' \in Int /\ relay' \in Seq(Clients \cup {Void})
  <2>1. relay' = relay \/ (relay # << >> /\ relay' = Tail(relay))
    BY <1>11, PollRelayMoves
  <2>2. relay' \in Seq(Clients \cup {Void})
    <3>1. relay \in Seq(Clients \cup {Void})
      BY <1>2
    <3>2. relay # << >> => Tail(relay) \in Seq(Clients \cup {Void})
      BY <3>1, SMTT(60)
    <3>3. QED
      BY <2>1, <3>1, <3>2
  <2>3. alive' = alive \/ alive' = alive - 1
    BY <1>11, PollRelayMoves
  <2>4. QED
    BY <1>2, <1>11, <2>2, <2>3, PollRelayMoves, SMTT(60) DEF MainTo, Away, Listed
<1>12. QED
  BY <1>2, <1>5, <1>6, <1>7, <1>8, <1>9, <1>10, <1>11, WorkerFrame DEF DaemonNext, MainThread

-----------------------------------------------------------------------------
(* An end without an error.                                                   *)

LEMMA VoidsAppend ==
  ASSUME NEW S, NEW s \in Seq(S), NEW x
  PROVE  /\ IsFiniteSet(Voids(s)) /\ Cardinality(Voids(s)) \in Nat
         /\ Cardinality(Voids(Append(s, x))) = Cardinality(Voids(s)) + Bit(x = Void)
<1>1. Len(s) \in Nat /\ IsFiniteSet(1..Len(s))
  BY FS_Interval, SMTT(60)
<1>2. IsFiniteSet(Voids(s))
  BY <1>1, FS_Subset DEF Voids
<1>3. /\ Len(Append(s, x)) = Len(s) + 1 /\ Append(s, x)[Len(s) + 1] = x
      /\ \A i \in 1..Len(s) : Append(s, x)[i] = s[i]
  BY SMTT(60)
<1>4. \A d : d # Len(s) + 1 => (d \in Voids(s) <=> d \in Voids(Append(s, x)))
  BY <1>1, <1>3, SMTT(60) DEF Voids
<1>5. Len(s) + 1 \notin Voids(s) /\ (Len(s) + 1 \in Voids(Append(s, x)) <=> x = Void)
  BY <1>1, <1>3, SMTT(60) DEF Voids
<1>6. QED
  BY <1>2, <1>4, <1>5, OneMember, SMTT(60) DEF Bit

LEMMA VoidsTail ==
  ASSUME NEW S, NEW s \in Seq(S), s # << >>
  PROVE  Cardinality(Voids(Tail(s))) = Cardinality(Voids(s)) - Bit(Head(s) = Void)
<1> DEFINE A == Voids(Tail(s))
           B == Voids(s) \ {1}
           f == [i \in A |-> i + 1]
<1>1. /\ Len(s) \in Nat \ {0} /\ Len(Tail(s)) = Len(s) - 1 /\ Head(s) = s[1]
      /\ \A i \in 1..Len(Tail(s)) : Tail(s)[i] = s[i + 1] /\ i + 1 \in 2..Len(s)
  BY TailFacts
<1>2. IsFiniteSet(Voids(s)) /\ Cardinality(Voids(s)) \in Nat
  BY VoidsAppend
<1>3. 1 \in Voids(s) <=> Head(s) = Void
  BY <1>1, SMTT(60) DEF Voids
<1>4. IsFiniteSet(B) /\ Cardinality(B) = Cardinality(Voids(s)) - Bit(Head(s) = Void)
  BY <1>2, <1>3, FS_RemoveElement, SMTT(60) DEF Bit
<1>5. IsFiniteSet(A)
  <2>1. IsFiniteSet(1..Len(Tail(s))) /\ A \subseteq 1..Len(Tail(s))
    BY <1>1, FS_Interval, SMTT(60) DEF Voids
  <2>2. QED
    BY <2>1, FS_Subset
<1>6. f \in Bijection(A, B)
  <2>1. f \in [A -> B]
    BY <1>1, SMTT(60) DEF Voids
  <2>2. \A i, j \in A : f[i] = f[j] => i = j
    BY <1>1, SMTT(60) DEF Voids
  <2>3. \A k \in B : \E i \in A : f[i] = k
    <3>1. SUFFICES ASSUME NEW k \in B PROVE k - 1 \in A /\ (k - 1) + 1 = k
      OBVIOUS
    <3>2. k \in 2..Len(s) /\ s[k] = Void
      BY <1>1, <3>1, SMTT(60) DEF Voids
    <3>3. k - 1 \in 1..Len(Tail(s)) /\ (k - 1) + 1 = k
      BY <1>1, <3>2, SMTT(60)
    <3>4. Tail(s)[k - 1] = Void
      BY <1>1, <3>2, <3>3
    <3>5. QED
      BY <3>3, <3>4 DEF Voids
  <2>4. QED
    BY <2>1, <2>2, <2>3 DEF Bijection, Injection, Surjection, IsInjective
<1>7. Cardinality(B) = Cardinality(A)
  BY <1>5, <1>6, FS_Bijection DEF ExistsBijection
<1>8. QED
  BY <1>4, <1>7

\* The steps that change neither the acceptors nor what counts them.
LEMMA EndMain ==
  ASSUME DaemonTypes, EndInv, Running,
         UNCHANGED <<dcfg, signalled, acceptor, alive, relay>>,
         flags'.shutdown = flags.shutdown, flags'.graceful = flags.graceful,
         \/ main' = main
         \/ MainTo("exit") /\ main'.how = "error"
         \/ MainTo("exit") /\ main'.how = "ok" /\ main.workers = << >> /\ main.pc = "drain"
         \/ main'.pc \in Looping /\ main.pc \in Looping /\ main'.how = main.how
         \/ main'.pc = "close" /\ main'.how = main.how /\ Told'
         \/ main'.pc = "drain" /\ main'.how = main.how /\ Told' /\ AllDead
  PROVE  EndInv'
<1>1. main.how = "running" /\ main.pc # "exit"
  BY DEF EndInv, Running
<1>2. /\ Stop' = Stop /\ Single' = Single /\ AllDead' = AllDead /\ Asked' = Asked
      /\ Listening' = Listening /\ Voids(relay)' = Voids(relay)
  BY DEF Stop, Single, AllDead, Asked, Listening, Voids
<1>3. main'.served = main.served => Told' = Told
  BY <1>2 DEF Told
<1>4. /\ (~Stop /\ ~Single => alive = Cardinality(Listening) + Cardinality(Voids(relay)))'
      /\ (alive \in 0..Cardinality(Listeners))'
  BY <1>2 DEF EndInv
<1>5. CASE main' = main
  BY <1>2, <1>3, <1>4, <1>5 DEF EndInv
<1>6. CASE MainTo("exit") /\ main'.how = "error"
  BY <1>2, <1>4, <1>6 DEF EndInv, MainTo, Looping
<1>7. CASE MainTo("exit") /\ main'.how = "ok" /\ main.workers = << >> /\ main.pc = "drain"
  BY <1>2, <1>3, <1>4, <1>7 DEF EndInv, MainTo, Looping
<1>8. CASE main'.pc \in Looping /\ main.pc \in Looping /\ main'.how = main.how
  BY <1>1, <1>2, <1>4, <1>8 DEF EndInv, Looping
<1>9. CASE main'.pc = "close" /\ main'.how = main.how /\ Told'
  BY <1>1, <1>2, <1>4, <1>9 DEF EndInv, Looping
<1>10. CASE main'.pc = "drain" /\ main'.how = main.how /\ Told' /\ AllDead
  BY <1>1, <1>2, <1>4, <1>10 DEF EndInv, Looping
<1>11. QED
  BY <1>5, <1>6, <1>7, <1>8, <1>9, <1>10, ZenonT(60)

LEMMA EndSignal ==
  ASSUME DaemonTypes, EndInv, NEW s \in {"shutdown", "graceful", "reload"}, Signal(s)
  PROVE  EndInv'
<1>1. /\ UNCHANGED <<dcfg, main, acceptor, alive, relay>>
      /\ signalled' = signalled \cup {s} /\ flags' = [flags EXCEPT ![s] = TRUE]
      /\ flags \in Flags
  BY DEF Signal, DaemonTypes
<1>2. /\ Single' = Single /\ AllDead' = AllDead /\ Listening' = Listening
      /\ Voids(relay)' = Voids(relay) /\ (Told => Told') /\ (Asked => Asked')
  BY <1>1 DEF Single, AllDead, Asked, Told, Listening, Voids
<1>3. Stop => Stop'
  BY <1>1 DEF Stop, Flags
<1>4. (Stop => Asked) => (Stop' => Asked')
  <2>1. CASE s \in {"shutdown", "graceful"}
    BY <1>1, <2>1 DEF Asked
  <2>2. CASE s = "reload"
    BY <1>1, <1>2, <2>2 DEF Stop, Flags
  <2>3. QED
    BY <2>1, <2>2
<1>5. QED
  BY <1>1, <1>2, <1>3, <1>4 DEF EndInv

LEMMA EndAcceptor ==
  ASSUME DaemonTypes, EndInv, Running, NEW l \in Listeners, acceptor[l].pc # "dead",
         UNCHANGED <<dcfg, flags, signalled, main, alive>>,
         Stop \/ Cardinality(Listening') + Cardinality(Voids(relay')) =
                 Cardinality(Listening) + Cardinality(Voids(relay))
  PROVE  EndInv'
<1>1. ~AllDead
  BY DEF AllDead
<1>2. main.pc # "drain" /\ main.how = "running" /\ ~Single
  BY <1>1 DEF EndInv, Running
<1>3. Stop' = Stop /\ Single' = Single /\ Asked' = Asked /\ Told' = Told /\ Voids(relay)' = Voids(relay')
  BY DEF Stop, Single, Asked, Told, Voids
<1>4. (~Stop /\ ~Single => alive = Cardinality(Listening) + Cardinality(Voids(relay)))'
  BY <1>3 DEF EndInv
<1>5. QED
  BY <1>2, <1>3, <1>4 DEF EndInv

LEMMA EndAccept ==
  ASSUME DaemonTypes, EndInv, Running, NEW l \in Listeners, AcceptOne(l)
  PROVE  EndInv'
<1>1. acceptor[l].pc # "dead" /\ UNCHANGED <<dcfg, flags, signalled, main, alive, relay>>
  BY AcceptMoves
<1>2. CASE Stop
  BY <1>1, <1>2, EndAcceptor
<1>3. CASE \E c : AcceptorTo(l, "relay", c)
  <2>1. Listening' = Listening
    BY <1>1, <1>3 DEF AcceptorTo, Listening
  <2>2. QED
    BY <1>1, <2>1, EndAcceptor
<1>4. QED
  BY <1>2, <1>3, AcceptMoves

LEMMA EndSend ==
  ASSUME DaemonTypes, EndInv, Running, NEW l \in Listeners, RelayAcceptItem(l)
  PROVE  EndInv'
<1> DEFINE item == acceptor[l].item
<1>1. acceptor[l].pc # "dead" /\ UNCHANGED <<dcfg, flags, signalled, main, alive>>
  BY RelayMoves
<1>2. CASE Stop
  BY <1>1, <1>2, EndAcceptor
<1>3. CASE /\ relay' = Append(relay, item)
           /\ AcceptorTo(l, IF item = Void THEN "dead" ELSE "run", item)
  <2>0. IsFiniteSet(Listening) /\ relay \in Seq(Clients \cup {Void})
    BY DaemonAssumption, FS_Subset DEF Listening, DaemonTypes
  <2>1. /\ \A m : m # l => (m \in Listening <=> m \in Listening')
        /\ l \in Listening /\ (l \in Listening' <=> item # Void)
    BY <1>1, <1>3 DEF AcceptorTo, Listening
  <2>2. /\ Cardinality(Listening) \in Nat
        /\ Cardinality(Listening') = Cardinality(Listening) + Bit(item # Void) - 1
    BY <2>0, <2>1, OneMember DEF Bit
  <2>3. /\ Cardinality(Voids(relay)) \in Nat
        /\ Cardinality(Voids(relay')) = Cardinality(Voids(relay)) + Bit(item = Void)
    BY <1>3, <2>0, VoidsAppend
  <2>4. Cardinality(Listening') + Cardinality(Voids(relay')) =
           Cardinality(Listening) + Cardinality(Voids(relay))
    BY <2>2, <2>3, SMTT(60) DEF Bit
  <2>5. QED
    BY <1>1, <2>4, EndAcceptor
<1>4. QED
  BY <1>2, <1>3, RelayMoves

\* The relay is closed, or hands out its first item.
LEMMA EndPollRelay ==
  ASSUME DaemonTypes, EndInv, Running, PollRelay
  PROVE  EndInv'
<1>0. main.how = "running" /\ main.pc = "poll" /\ ~Single /\ alive >= 1 /\ (Stop => Asked)
      /\ UNCHANGED <<dcfg, signalled, acceptor>>
  BY PollRelayMoves DEF EndInv, Running, Looping
<1>1. Single' = Single /\ AllDead' = AllDead /\ Asked' = Asked /\ Listening' = Listening
      /\ Voids(relay)' = Voids(relay')
  BY <1>0 DEF Single, AllDead, Asked, Listening, Voids
<1>2. /\ relay \in Seq(Clients \cup {Void}) /\ IsFiniteSet(Listening)
      /\ alive \in Int /\ alive \in 0..Cardinality(Listeners) /\ flags \in Flags
  BY DaemonAssumption, FS_Subset DEF DaemonTypes, EndInv, Listening
<1>3. Cardinality(Listening) \in Nat /\ Cardinality(Voids(relay)) \in Nat /\ Cardinality(Listeners) \in Nat
  BY <1>2, VoidsAppend, FS_CardinalityType, DaemonAssumption
<1>4. CASE /\ relay = << >> /\ AllDead /\ MainTo("close") /\ main'.how = main.how
           /\ UNCHANGED <<flags, alive, relay, conn>>
  <2>1. Listening = {} /\ Voids(relay) = {}
    BY <1>4, SMTT(60) DEF AllDead, Listening, Voids
  <2>2. Cardinality(Listening) = 0 /\ Cardinality(Voids(relay)) = 0
    BY <2>1, FS_EmptySet
  <2>3. Stop
    BY <1>0, <2>2, SMTT(60) DEF EndInv
  <2>4. Told'
    BY <1>0, <1>1, <2>3 DEF Told
  <2>5. QED
    BY <1>0, <1>4, <2>4, EndMain DEF MainTo
<1>5. CASE MainTo("reap") /\ main'.how = main.how /\ UNCHANGED <<flags, alive, relay, conn>>
  BY <1>0, <1>5, EndMain DEF MainTo, Looping
<1>6. CASE relay # << >> /\ relay' = Tail(relay)
  <2>0. Cardinality(Voids(relay')) = Cardinality(Voids(relay)) - Bit(Head(relay) = Void)
    BY <1>2, <1>6, VoidsTail
  <2>1. CASE Head(relay) # Void /\ UNCHANGED <<flags, alive>>
             /\ (Away(Head(relay), "refused") \/ Listed(Head(relay)))
    <3>1. Stop' = Stop
      BY <2>1 DEF Stop
    <3>2. (~Stop /\ ~Single => alive = Cardinality(Listening) + Cardinality(Voids(relay)))'
      BY <1>0, <1>1, <1>3, <2>0, <2>1, <3>1, SMTT(60) DEF EndInv, Bit
    <3>3. main'.how = "running" /\ (main'.pc = "reap" \/ (main'.pc = "close" /\ Told'))
      BY <1>0, <2>1 DEF Away, Listed, MainTo, Told
    <3>4. QED
      BY <1>0, <1>1, <1>2, <2>1, <3>1, <3>2, <3>3, ZenonT(60) DEF EndInv, Looping
  <2>2. CASE Head(relay) = Void /\ alive' = alive - 1 /\ flags'.graceful = flags.graceful
             /\ main'.how = main.how /\ alive = 1 /\ MainTo("fail") /\ flags'.shutdown
    <3>1. Stop' /\ alive' \in 0..Cardinality(Listeners)
      BY <1>3, <2>2, SMTT(60) DEF Stop
    <3>2. QED
      BY <1>0, <1>1, <2>2, <3>1 DEF EndInv, Looping, MainTo
  <2>3. CASE Head(relay) = Void /\ alive' = alive - 1 /\ flags'.graceful = flags.graceful
             /\ main'.how = main.how /\ alive # 1 /\ MainTo("reap") /\ flags'.shutdown = flags.shutdown
    <3>1. Stop' = Stop /\ alive' \in 0..Cardinality(Listeners) /\ alive' >= 1
      BY <1>0, <1>2, <1>3, <2>3, SMTT(60) DEF Stop
    <3>2. (~Stop /\ ~Single => alive = Cardinality(Listening) + Cardinality(Voids(relay)))'
      BY <1>0, <1>1, <1>2, <1>3, <2>0, <2>3, <3>1, SMTT(60) DEF EndInv, Bit
    <3>3. QED
      BY <1>0, <1>1, <2>3, <3>1, <3>2 DEF EndInv, Looping, MainTo
  <2>4. QED
    BY <1>6, <2>1, <2>2, <2>3, PollRelayMoves, SMTT(60)
<1>7. QED
  BY <1>4, <1>5, <1>6, PollRelayMoves

LEMMA EndShutdown ==
  ASSUME DaemonTypes, EndInv, Running, ShutdownEngine
  PROVE  EndInv'
<1>0. main.how = "running" /\ UNCHANGED <<dcfg, signalled, acceptor, alive, relay>>
  BY ShutdownMoves DEF EndInv, Running
<1>1. Single' = Single /\ AllDead' = AllDead /\ Asked' = Asked /\ Listening' = Listening
      /\ Voids(relay)' = Voids(relay) /\ (MainTo(main'.pc) => Told' = Told)
  BY <1>0 DEF Single, AllDead, Asked, Listening, Voids, Told, MainTo
<1>2. Stop => Stop'
  BY ShutdownMoves DEF Stop
<1>3. /\ (~Stop /\ ~Single => alive = Cardinality(Listening) + Cardinality(Voids(relay)))'
      /\ (alive \in 0..Cardinality(Listeners))'
  BY <1>0, <1>1, <1>2 DEF EndInv
<1>4. CASE main.pc = "close" /\ MainTo("join") /\ main'.how = main.how
  BY <1>0, <1>1, <1>3, <1>4 DEF EndInv, Looping, MainTo
<1>5. CASE main.pc = "close" /\ Single /\ MainTo("drain") /\ main'.how = main.how
  BY <1>0, <1>1, <1>3, <1>5 DEF EndInv, Looping, MainTo
<1>6. CASE main.pc = "join" /\ AllDead /\ MainTo("drain") /\ main'.how = main.how
  BY <1>0, <1>1, <1>3, <1>6 DEF EndInv, Looping, MainTo
<1>7. CASE main.pc = "fail" /\ MainTo("exit") /\ main'.how = "error"
  BY <1>0, <1>1, <1>3, <1>7 DEF EndInv, Looping, MainTo
<1>8. QED
  BY <1>4, <1>5, <1>6, <1>7, ShutdownMoves, ZenonT(60)

LEMMA EndMainThread ==
  ASSUME DaemonTypes, EndInv, Running, MainThread
  PROVE  EndInv'
<1>1. CASE ReapFinishedWorkers
  BY <1>1, ReapMoves, EndMain DEF MainTo, Looping
<1>2. CASE CheckSignals
  <2>1. Stop => Asked
    BY <1>2, CheckMoves DEF EndInv, Looping
  <2>2. CASE Stop /\ UNCHANGED flags /\ MainTo("close") /\ main'.how = main.how
    <3>1. Told'
      BY <1>2, <2>1, <2>2, CheckMoves DEF Told, Asked
    <3>2. QED
      BY <1>2, <2>2, <3>1, CheckMoves, EndMain DEF MainTo
  <2>3. CASE /\ ~Stop /\ flags'.shutdown = flags.shutdown /\ flags'.graceful = flags.graceful
             /\ MainTo("poll") /\ main'.how = main.how
    BY <1>2, <2>3, CheckMoves, EndMain DEF MainTo, Looping
  <2>4. QED
    BY <1>2, <2>2, <2>3, CheckMoves
<1>3. CASE PollListener
  <2>1. main.pc = "poll" /\ UNCHANGED <<dcfg, flags, signalled, acceptor, alive, relay>>
    BY <1>3, PollListenerMoves
  <2>2. CASE main'.pc = "reap" /\ main'.how = main.how
    BY <2>1, <2>2, EndMain DEF Looping
  <2>3. CASE main'.pc = "close" /\ main'.how = main.how /\ Told'
    BY <2>1, <2>3, EndMain
  <2>4. QED
    BY <1>3, <2>1, <2>2, <2>3, PollListenerMoves, ZenonT(60) DEF MainTo, Away, Listed, Told
<1>4. CASE PollRelay
  BY <1>4, EndPollRelay
<1>5. CASE ShutdownEngine
  BY <1>5, EndShutdown
<1>6. CASE DrainWorkers
  <2>1. main.pc = "drain" /\ UNCHANGED <<dcfg, flags, signalled, acceptor, alive, relay>>
    BY <1>6, DrainMoves
  <2>2. Told /\ AllDead
    BY <2>1 DEF EndInv
  <2>3. main'.served = main.served => Told'
    BY <2>1, <2>2 DEF Told, Asked
  <2>4. CASE main'.pc = "drain" /\ main'.how = main.how /\ main'.served = main.served
    BY <2>1, <2>2, <2>3, <2>4, EndMain, ZenonT(60)
  <2>5. CASE MainTo("exit") /\ main'.how = "error"
    BY <2>1, <2>5, EndMain
  <2>6. CASE MainTo("exit") /\ main'.how = "ok" /\ main.workers = << >>
    BY <2>1, <2>6, EndMain
  <2>7. QED
    BY <1>6, <2>4, <2>5, <2>6, DrainMoves
<1>7. QED
  BY <1>1, <1>2, <1>3, <1>4, <1>5, <1>6 DEF MainThread

LEMMA EndStep ==
  ASSUME DaemonTypes, EndInv, DaemonNext
  PROVE  EndInv'
<1>0. Running
  BY DEF DaemonNext
<1>1. ASSUME NEW c \in Clients, Worker(c)
      PROVE  EndInv'
  BY <1>0, <1>1, WorkerFrame, EndMain
<1>2. QED
  BY <1>0, <1>1, EndSignal, EndAccept, EndSend, EndMainThread, ZenonT(60) DEF DaemonNext

-----------------------------------------------------------------------------
(* All of it together.                                                        *)

DaemonInv ==
    DaemonTypes /\ ConnInv /\ RelayInv /\ CountInv /\ LockInv /\ WorkersInv /\ EndInv

LEMMA InitTypes ==
  ASSUME DaemonInit
  PROVE  DaemonTypes
<1>1. /\ dcfg.caps \in Seq(Nat) /\ dcfg.caps # << >> /\ dcfg.bound \subseteq Listeners
      /\ IsFiniteSet(Listeners) /\ dcfg \in DaemonCfgs
  BY DaemonAssumption DEF DaemonInit
<1>2. 1 \in DOMAIN dcfg.caps
  BY <1>1, SMTT(60)
<1>3. alive \in Int /\ active \in Int /\ held \in [DOMAIN dcfg.caps -> Int]
  <2>1. Cardinality(dcfg.bound) \in Nat
    BY <1>1, FS_Subset, FS_CardinalityType
  <2>2. alive \in Int /\ active \in Int
    BY <2>1, SMTT(60) DEF DaemonInit
  <2>3. held \in [DOMAIN dcfg.caps -> Int]
    BY SMTT(60) DEF DaemonInit
  <2>4. QED
    BY <2>2, <2>3
<1>4. main \in MainState
  BY <1>2, SMTT(60) DEF DaemonInit, MainState, MainPlaces
<1>5. acceptor \in [Listeners -> AcceptorState] /\ relay \in Seq(Clients \cup {Void})
  BY SMTT(60) DEF DaemonInit, AcceptorState
<1>6. conn \in [Clients -> ConnState]
  BY DEF DaemonInit, ConnState, Outside
<1>7. locks \in [Ranges -> Clients \cup {Void}] /\ flags \in Flags /\ signalled = {}
  BY DEF DaemonInit, Flags
<1>8. QED
  BY <1>1, <1>3, <1>4, <1>5, <1>6, <1>7, ZenonT(60) DEF DaemonTypes

LEMMA InitDaemon ==
  ASSUME DaemonInit
  PROVE  DaemonInv
<1>0. DaemonTypes
  BY InitTypes
<1>1. \A c \in Clients : conn[c] = [pc |-> "backlog", gen |-> 0, slot |-> 0, end |-> "none"]
  BY DEF DaemonInit
<1>2. ConnInv
  BY <1>1, SMTT(60) DEF ConnInv, ConnOK, Outside
<1>3. \A c \in Clients : conn[c].pc = "backlog" /\ conn[c].gen = 0
  BY <1>1, SMTT(60)
<1>4. RelayInv
  <2>1. relay = << >> /\ RelayCap \in Nat /\ \A l \in Listeners : acceptor[l].pc # "relay"
    BY DaemonAssumption DEF DaemonInit
  <2>2. Len(relay) = 0 /\ 1..Len(relay) = {} /\ Len(relay) <= RelayCap
    BY <2>1, SMTT(60)
  <2>3. QED
    BY <2>1, <2>2 DEF RelayInv, Carried
<1>5. CountInv
  <2>1. InSession = {} /\ \A g \in DOMAIN dcfg.caps : Counted(g) = {}
    BY <1>3 DEF InSession, Counted, WorkerPlaces
  <2>2. Cardinality(InSession) = 0 /\ \A g \in DOMAIN dcfg.caps : Cardinality(Counted(g)) = 0
    BY <2>1, FS_EmptySet
  <2>3. active = 0 /\ \A g \in DOMAIN dcfg.caps : held[g] = 0 /\ dcfg.caps[g] \in Nat
    BY <1>0, CfgFacts DEF DaemonInit
  <2>4. dcfg.limit \in Nat
    BY <1>0, CfgFacts
  <2>5. QED
    BY <2>2, <2>3, <2>4, SMTT(60) DEF CountInv
<1>6. LockInv
  BY <1>3 DEF DaemonInit, LockInv, Holder
<1>7. WorkersInv
  <2>1. InSession = {} /\ main.workers = << >>
    BY <1>3 DEF DaemonInit, InSession, WorkerPlaces
  <2>2. 1..Len(main.workers) = {}
    BY <2>1, SMTT(60)
  <2>3. QED
    BY <2>1, <2>2 DEF WorkersInv
<1>8. EndInv
  <2>1. /\ dcfg.bound \subseteq Listeners /\ dcfg.bound # {} /\ IsFiniteSet(Listeners)
    BY <1>0, CfgFacts, DaemonAssumption
  <2>2. /\ Cardinality(dcfg.bound) \in Nat /\ Cardinality(Listeners) \in Nat
        /\ Cardinality(dcfg.bound) <= Cardinality(Listeners) /\ Cardinality(dcfg.bound) # 0
    BY <2>1, FS_Subset, FS_CardinalityType, FS_EmptySet
  <2>3. alive = Cardinality(dcfg.bound) /\ alive >= 1 /\ alive \in 0..Cardinality(Listeners)
    BY <2>2, SMTT(60) DEF DaemonInit
  <2>4. Single => AllDead
    BY DEF DaemonInit, AllDead
  <2>5. ~Single => alive = Cardinality(Listening) + Cardinality(Voids(relay))
    <3>1. Voids(relay) = {}
      BY SMTT(60) DEF DaemonInit, Voids
    <3>2. ~Single => Listening = dcfg.bound
      BY <2>1 DEF DaemonInit, Listening
    <3>3. Cardinality(Voids(relay)) = 0
      BY <3>1, FS_EmptySet
    <3>4. QED
      BY <2>2, <2>3, <3>2, <3>3, SMTT(60)
  <2>6. main.pc = "reap" /\ main.how = "running" /\ ~Stop
    BY DEF DaemonInit, Stop
  <2>7. QED
    BY <2>3, <2>4, <2>5, <2>6 DEF EndInv, Looping
<1>9. QED
  BY <1>0, <1>2, <1>4, <1>5, <1>6, <1>7, <1>8, ZenonT(60) DEF DaemonInv

LEMMA DaemonSame ==
  ASSUME DaemonInv, UNCHANGED daemonVars
  PROVE  DaemonInv'
<1>1. DaemonTypes'
  BY SMTT(60) DEF DaemonInv, daemonVars, DaemonTypes, MainState, AcceptorState, ConnState, Clients, Ranges
<1>2. RelayInv'
  BY DEF DaemonInv, daemonVars, RelayInv, Carried, Relayed
<1>3. ConnInv' /\ CountInv' /\ LockInv'
  <2>1. Quiet /\ UNCHANGED dcfg
    BY DEF daemonVars, Quiet
  <2>2. ConnInv' /\ LockInv'
    BY <2>1, ConnStep, LockStep DEF DaemonInv
  <2>3. QED
    BY <2>1, <2>2, CountStep DEF DaemonInv
<1>4. WorkersInv'
  BY DEF DaemonInv, daemonVars, WorkersInv, InSession, Clients
<1>5. EndInv'
  BY DEF DaemonInv, daemonVars, EndInv, Told, Asked, AllDead, Listening, Voids, Single, Stop
<1>6. QED
  BY <1>1, <1>2, <1>3, <1>4, <1>5 DEF DaemonInv

LEMMA DaemonStep ==
  ASSUME DaemonInv, DaemonNext
  PROVE  DaemonInv'
<1>1. /\ DaemonTypes /\ ConnInv /\ RelayInv /\ CountInv /\ LockInv /\ WorkersInv /\ EndInv
  BY DEF DaemonInv
<1>2. /\ UNCHANGED dcfg
      /\ Quiet \/ \E c \in Clients : Turned(c) \/ Admitted(c) \/ Worker(c)
  BY <1>1, StepMoves
<1>3. DaemonTypes' /\ RelayInv' /\ WorkersInv' /\ EndInv'
  BY <1>1, TypesStep, RelayStep, WorkersStep, EndStep
<1>4. ConnInv' /\ LockInv'
  BY <1>1, <1>2, ConnStep, LockStep
<1>5. CountInv'
  BY <1>1, <1>2, <1>4, CountStep
<1>6. QED
  BY <1>3, <1>4, <1>5 DEF DaemonInv

\* The inductive invariant holds throughout every run of the accept loop.
THEOREM DaemonInvariant == DaemonSpec => []DaemonInv
<1>1. DaemonInit => DaemonInv
  BY InitDaemon
<1>2. DaemonInv /\ [DaemonNext]_daemonVars => DaemonInv'
  BY DaemonSame, DaemonStep
<1>3. QED
  BY <1>1, <1>2, PTL DEF DaemonSpec

\* A sequence whose members are all in T.
LEMMA MembersIn ==
  ASSUME NEW S, NEW T, NEW s \in Seq(S), \A i \in 1..Len(s) : s[i] \in T
  PROVE  s \in Seq(T)
BY SMTT(60)

\* DaemonTypeOK, for every configuration: the list of workers holds only sessions that
\* were started, the relay of the acceptors keeps its capacity, and no session looks
\* for its range of the lock file past its module's limit.
THEOREM DaemonTyped == DaemonSpec => []DaemonTypeOK
<1>1. DaemonInv => DaemonTypeOK
  <2> SUFFICES ASSUME DaemonInv PROVE DaemonTypeOK
    OBVIOUS
  <2>1. /\ DaemonTypes /\ ConnInv /\ RelayInv /\ WorkersInv /\ EndInv
    BY DEF DaemonInv
  <2>2. main \in MainState /\ conn \in [Clients -> ConnState]
    BY <2>1 DEF DaemonTypes
  <2>3. main.workers \in Seq(Clients)
    BY <2>2 DEF MainState
  <2>4. \A i \in 1..Len(main.workers) : main.workers[i] \in Spawned
    BY <2>1, <2>3, SMTT(60) DEF WorkersInv, Spawned
  <2>5. main.workers \in Seq(Spawned)
    BY <2>3, <2>4, MembersIn
  <2>6. ASSUME NEW c \in Clients
        PROVE  conn[c].slot \in 0..(IF c \in Spawned THEN Cap(c) ELSE 0)
    <3>1. conn[c].slot \in Nat /\ ConnOK(conn[c])
      BY <2>1, <2>2, <2>6 DEF ConnInv, ConnState
    <3>2. conn[c].gen # 0 => conn[c].gen \in DOMAIN dcfg.caps
      BY <3>1 DEF ConnOK
    <3>3. conn[c].gen # 0 => Cap(c) \in Nat /\ conn[c].slot <= Cap(c)
      BY <2>1, <3>1, <3>2, CfgFacts, ZenonT(60) DEF ConnOK, Cap
    <3>4. CASE conn[c].gen = 0
      BY <3>1, <3>4, SMTT(60) DEF ConnOK, Spawned
    <3>5. CASE conn[c].gen # 0
      BY <2>6, <3>1, <3>3, <3>5, SMTT(60) DEF Spawned
    <3>6. QED
      BY <3>4, <3>5
  <2>7. QED
    BY <2>1, <2>2, <2>5, <2>6, ZenonT(60) DEF DaemonTypeOK, MainState, EndInv, RelayInv
<1>2. QED
  BY <1>1, DaemonInvariant, PTL

\* The sessions inside the module, one range of the lock file each, are no more than
\* the largest limit that a generation of the module has.
LEMMA LargestLimit ==
  ASSUME DaemonInv, dcfg.lockfile
  PROVE  \E g \in DOMAIN dcfg.caps : Cardinality(InModule) <= dcfg.caps[g] \/ dcfg.caps[g] = 0
<1> DEFINE n == Cardinality(InModule)
<1>1. /\ DaemonTypes /\ ConnInv /\ LockInv
  BY DEF DaemonInv
<1>2. IsFiniteSet(InModule) /\ n \in Nat
  <2>1. InModule \subseteq Clients /\ IsFiniteSet(Clients)
    BY <1>1, CfgFacts DEF InModule, Spawned
  <2>2. QED
    BY <2>1, FS_Subset, FS_CardinalityType
<1>3. SUFFICES ASSUME \A g \in DOMAIN dcfg.caps : dcfg.caps[g] < n
               PROVE  FALSE
  <2>1. \A g \in DOMAIN dcfg.caps : dcfg.caps[g] \in Nat
    BY <1>1, CfgFacts
  <2>2. QED
    BY <1>2, <2>1, SMTT(60)
<1>4. ASSUME NEW c \in InModule
      PROVE  conn[c].slot \in 0..n - 2 /\ locks[conn[c].slot] = c
  <2>1. c \in Clients /\ conn[c].gen # 0 /\ Cap(c) > 0 /\ Holder(conn[c])
    BY <1>4 DEF InModule, Spawned, Holder, Cap
  <2>2. conn[c].slot < Cap(c) /\ locks[conn[c].slot] = c
    BY <1>1, <2>1 DEF LockInv
  <2>3. conn[c].gen \in DOMAIN dcfg.caps /\ conn[c].slot \in Nat
    BY <1>1, <2>1 DEF ConnInv, ConnOK, DaemonTypes, ConnState
  <2>4. Cap(c) \in Nat /\ Cap(c) < n
    BY <1>1, <1>3, <2>3, CfgFacts DEF Cap
  <2>5. QED
    BY <1>2, <2>2, <2>3, <2>4, SMTT(60)
<1>5. InModule # {}
  <2>1. n > 0
    <3>1. 1 \in DOMAIN dcfg.caps /\ dcfg.caps[1] \in Nat
      BY <1>1, CfgFacts, SMTT(60)
    <3>2. QED
      BY <1>2, <1>3, <3>1, SMTT(60)
  <2>2. QED
    BY <2>1, FS_EmptySet, SMTT(60)
<1>6. IsFiniteSet(0..n - 2) /\ Cardinality(0..n - 2) < n
  <2>1. n - 2 \in Int /\ n >= 2
    BY <1>2, <1>4, <1>5, SMTT(60)
  <2>2. QED
    BY <1>2, <2>1, FS_Interval, SMTT(60)
<1> DEFINE f == [c \in InModule |-> conn[c].slot]
           T == 0..n - 2
<1>7. f \in [InModule -> T] /\ \A c \in InModule : f[c] = conn[c].slot
  BY <1>4
<1>8. \E x, y \in InModule : x # y /\ f[x] = f[y]
  <2>1. IsFiniteSet(T) /\ Cardinality(T) < Cardinality(InModule)
    BY <1>6
  <2> HIDE DEF f, T
  <2>2. QED
    BY <1>2, <1>7, <2>1, FS_PigeonHole, SMTT(60)
<1>9. QED
  BY <1>4, <1>7, <1>8, SMTT(60)

\* LimitsKept, for every number of connections, every pair of limits and every order in
\* which sessions start, fail, panic, end and overlap a reload: the counter of the daemon
\* and those of the module's generations are exact, and none exceeds its limit; with a
\* lock file the generations together stay within the larger limit (its ranges exclude
\* the threads of one process, which is so on Linux).
THEOREM LimitsAreKept == DaemonSpec => []LimitsKept
<1>1. DaemonInv => LimitsKept
  <2> SUFFICES ASSUME DaemonInv PROVE LimitsKept
    OBVIOUS
  <2>1. DaemonTypes /\ ConnInv /\ CountInv /\ LockInv
    BY DEF DaemonInv
  <2>2. \A c \in Clients : /\ conn[c].gen # 0 <=> conn[c].pc \notin Outside
                           /\ conn[c].pc \in Outside \cup WorkerPlaces
    BY <2>1 DEF ConnInv, ConnOK, DaemonTypes, ConnState
  <2>3. {c \in Spawned : conn[c].pc # "finished"} = InSession
    BY <2>2 DEF Spawned, InSession, Outside, WorkerPlaces
  <2>4. ASSUME NEW g \in DOMAIN dcfg.caps
        PROVE  {c \in InModule : conn[c].gen = g} = Counted(g)
    <3>1. g # 0
      BY <2>1, CfgFacts
    <3>2. QED
      BY <3>1 DEF InModule, Spawned, Counted
  <2>5. dcfg.lockfile => \A c \in InModule : locks[conn[c].slot] = c
    BY <2>1 DEF LockInv, InModule, Spawned, Holder, Cap
  <2>6. dcfg.lockfile =>
          \A s \in DOMAIN locks :
             locks[s] # Void => conn[locks[s]].pc \in {"local", "serve", "leave", "unlock"}
    BY <2>1, ZenonT(60) DEF LockInv, Holder, DaemonTypes
  <2>7. QED
    BY <2>1, <2>3, <2>4, <2>5, <2>6, LargestLimit, ZenonT(60) DEF LimitsKept, CountInv
<1>2. QED
  BY <1>1, DaemonInvariant, PTL

\* CleanExitDrains, for every configuration: a daemon that ends without an error has
\* joined every worker it spawned, its acceptor threads are gone, and it was told to
\* end; a relay closed by acceptors that all failed is not taken for an order to end.
THEOREM CleanExit == DaemonSpec => []CleanExitDrains
<1>1. DaemonInv => CleanExitDrains
  <2> SUFFICES ASSUME DaemonInv, main.how = "ok" PROVE CleanExitDrains
    BY DEF CleanExitDrains
  <2>1. DaemonTypes /\ ConnInv /\ WorkersInv /\ EndInv
    BY DEF DaemonInv
  <2>2. main.workers = << >> /\ AllDead /\ Told
    BY <2>1 DEF EndInv
  <2>3. 1..Len(main.workers) = {}
    BY <2>2, SMTT(60)
  <2>4. InSession = {}
    BY <2>1, <2>3 DEF WorkersInv
  <2>5. \A c \in Spawned : conn[c].pc = "finished"
    BY <2>1, <2>4 DEF Spawned, InSession, ConnInv, ConnOK, DaemonTypes, ConnState
  <2>6. QED
    BY <2>2, <2>5 DEF CleanExitDrains, AllDead, Told, Asked
<1>2. QED
  BY <1>1, DaemonInvariant, PTL
====
