---------------------------- MODULE WireSession -----------------------------
(***************************************************************************)
(* A transfer session between the receiver (R) and the sender (S), from    *)
(* the first file request to the goodbye:                                  *)
(*   R  run_pipelined, run_pipeline_loop_decoupled, run_dry_run_loop,      *)
(*      finalize_transfer            (crates/transfer/src/receiver)        *)
(*   S  run_transfer_loop, handle_goodbye_with_finalizer                   *)
(*                                   (crates/transfer/src/generator)       *)
(* Each side writes through a multiplex buffer that is only sent when it   *)
(* overflows or is flushed, into a pipe of bounded capacity, and blocks    *)
(* until the bytes are taken.  Indices travel in the encoding of NdxCodec. *)
(* Everything else on the wire is an item: the flags and block sums of a   *)
(* request, the flags of an item that needs no transfer, the data of a     *)
(* file, statistics, and out-of-band messages that the reader's            *)
(* demultiplexer takes off wherever it meets them.                         *)
(***************************************************************************)
EXTENDS NdxCodec, FiniteSets, SequencesExt

CONSTANTS
    Sessions,    \* the sessions to consider, see ConfigType
    NFiles,     \* length of the file list
    Window,     \* requests outstanding at a time (PipelineConfig)
    BufCap     \* items the multiplex buffer holds

ASSUME NFilesAssumption == NFiles \in Nat \ {0}
ASSUME BoundsAssumption ==
    Window \in Nat \ {0} /\ BufCap \in Nat \ {0}

File == 0 .. NFiles - 1
Side == {"R", "S"}
Other(p) == IF p = "R" THEN "S" ELSE "R"

ConfigType ==
    [proto : 28 .. 32,        \* negotiated protocol
     pull : BOOLEAN,          \* the receiver is the client
     dry : BOOLEAN,           \* --dry-run
     delete : BOOLEAN,        \* --delete with --stats
     remove : BOOLEAN,        \* --remove-source-files
     stop : BOOLEAN,          \* the client's --stop-at may be reached at any time
     crash : Side \cup {"none"},  \* the side that may die at any time
     drain : Side \cup {"none"},  \* the side whose input a drain thread empties
     room : Nat \ {0},        \* items the transport holds
     want : Seq(File),        \* what the receiver asks for, in list order
     links : Seq(File),       \* hard-link followers, in list order
     dirs : SUBSET File,      \* directories
     gone : SUBSET File,      \* files the sender cannot open
     bad : SUBSET File,       \* files whose first transfer fails its checksum
     rotten : SUBSET File]    \* files no transfer of which succeeds

ASSUME ConfigsAssumption ==
    \A c \in Sessions :
        /\ {c.want[i] : i \in DOMAIN c.want} \subseteq File
        /\ {c.links[i] : i \in DOMAIN c.links} \subseteq File

VARIABLES
    session,   \* the session's configuration
    pc,        \* where each side is
    why,       \* why a side failed
    buf,       \* per writer: items in its multiplex buffer
    keep,      \* per writer: how many of them need not be sent yet
    pipe,      \* per writer: items in the transport
    wr,        \* per side: its NDX writer's state
    rd,        \* per side: its NDX reader's state
    todo,      \* R: file_iter, files not yet requested in this pass
    win,       \* R: PipelineState, requests whose response is awaited
    flushed,   \* R: flushed_pending
    pass,      \* R: 1 for the forward pass, 2 for the redo pass
    undrained, \* R: commits sent to the disk thread, results not yet drained
    redo,      \* R: indices to ask for again
    echoes,    \* R: hardlink_follower_echoes
    rphase,    \* R: phase of exchange_phase_done
    placed,    \* R: the source index whose content was committed, -1 for none
    sphase,    \* S: phase of the transfer loop
    cur,       \* S: the index being served
    sentFiles, \* S: SentFileTracker
    ioerr,     \* S: io_error changed since the file list
    confirmed, \* S: indices named by MSG_SUCCESS
    removed    \* S: sources deleted

wires == <<buf, keep, pipe>>
rvars == <<todo, win, flushed, pass, undrained, redo, echoes, rphase, placed>>
svars == <<sphase, cur, sentFiles, ioerr, confirmed, removed>>
wireVars == <<session, pc, why, wires, wr, rd, rvars, svars>>

-----------------------------------------------------------------------------
(* Items of the wire.                                                      *)
Ndx(p, n) == [k |-> "ndx", b |-> EncodeNdx(session.proto, wr[p], n)]
DoneMark == [k |-> "ndx", b |-> EncodeNdx(session.proto, NewCodec, NDX_DONE)]
Xfer == [k |-> "xfer"]
Item == [k |-> "item"]
Data(f, good) == [k |-> "data", f |-> f, good |-> good]
Stats == [k |-> "stats"]
Oob(m, f) == [k |-> "oob", m |-> m, f |-> f]

\* MultiplexWriter: a write that overflows the buffer first sends what was in it,
\* a flush sends everything; either blocks until the transport took it.
Write(p, items, flush) ==
    /\ buf' = [buf EXCEPT ![p] = @ \o items]
    /\ keep' = [keep EXCEPT ![p] =
         IF flush THEN 0
         ELSE IF Len(buf[p]) + Len(items) > BufCap THEN Len(items) ELSE BufCap]

Blocked(p) == Len(buf[p]) > keep[p]
NoWrite == UNCHANGED <<buf, keep>>

Input(p) == pipe[Other(p)]
Arrived(p, k) == Input(p) /= <<>> /\ Head(Input(p)).k = k
TakeItem(p) == pipe' = [pipe EXCEPT ![Other(p)] = Tail(@)]
NextNdx(p) == DecodeNdx(session.proto, rd[p], 1, Head(Input(p)).b).ndx
TakeNdx(p) == TakeItem(p) /\ rd' = [rd EXCEPT ![p] = Advance(@, NextNdx(p))]

\* p is running at label l: it has failed at nothing and is not blocked in a write.
AtLabel(p, l) == pc[p] = l /\ ~Blocked(p)
GotoLabel(p, l) == pc' = [pc EXCEPT ![p] = l] /\ UNCHANGED why
Fail(p, reason) == pc' = [pc EXCEPT ![p] = "failed"] /\ why' = [why EXCEPT ![p] = reason]

Stopped(p) == pc[p] \in {"end", "failed"}

\* What each side waits to read, by label.
Awaits ==
    [header |-> "ndx", body |-> "data", dryhead |-> "ndx", drybody |-> "xfer",
     phaseread |-> "ndx", echo |-> "item", stats |-> "stats", byeread |-> "ndx",
     byestats |-> "stats",
     read |-> "ndx", attrs |-> "xfer", bye1 |-> "ndx", bye1stats |-> "stats",
     bye2 |-> "ndx"]

MaxPhase == IF session.proto >= 29 THEN 2 ELSE 1

-----------------------------------------------------------------------------
WireInit ==
    /\ session \in Sessions
    /\ pc = [R |-> IF session.want = <<>> THEN "phase" ELSE IF session.dry THEN "dry" ELSE "top",
             S |-> "top"]
    /\ why = [p \in Side |-> ""]
    /\ buf = [p \in Side |-> <<>>] /\ keep = [p \in Side |-> BufCap]
    /\ pipe = [p \in Side |-> <<>>]
    /\ wr = [p \in Side |-> NewCodec] /\ rd = [p \in Side |-> NewCodec]
    /\ todo = session.want /\ win = <<>> /\ flushed = 0 /\ pass = 1
    /\ undrained = <<>> /\ redo = <<>> /\ echoes = 0 /\ rphase = 0
    /\ placed = [f \in File |-> -1]
    /\ sphase = 0 /\ cur = 0 /\ sentFiles = {} /\ ioerr = FALSE
    /\ confirmed = {} /\ removed = {}

-----------------------------------------------------------------------------
(* The transport.                                                          *)

\* The transport takes an item.  A drain thread (DrainingReader) reads its side's
\* input into a queue without bound, so that this direction never fills up.
PushItem(p) ==
    /\ Blocked(p)
    /\ session.drain = Other(p) \/ Len(pipe[p]) < session.room
    /\ ~Stopped(Other(p))
    /\ pipe' = [pipe EXCEPT ![p] = Append(@, Head(buf[p]))]
    /\ buf' = [buf EXCEPT ![p] = Tail(@)]
    /\ UNCHANGED <<session, pc, why, keep, wr, rd, rvars, svars>>

\* The process of p dies, or its connection does.
Crash(p) ==
    /\ session.crash = p /\ ~Stopped(p)
    /\ Fail(p, "crash")
    /\ buf' = [buf EXCEPT ![p] = <<>>]
    /\ UNCHANGED <<session, keep, pipe, wr, rd, rvars, svars>>

\* The demultiplexer takes an out-of-band message off p's input while p reads:
\* handle_success_msg collects the index, MSG_NO_SEND is collected into
\* no_send_indices, which nothing reads, and the others concern exit codes only.
Demux(p) ==
    /\ pc[p] \in DOMAIN Awaits /\ ~Blocked(p)
    /\ Arrived(p, "oob")
    /\ TakeItem(p)
    /\ LET msg == Head(Input(p)) IN
       confirmed' = IF msg.m = "success" THEN confirmed \cup {msg.f} ELSE confirmed
    /\ NoWrite
    /\ UNCHANGED <<session, pc, why, wr, rd, rvars, sphase, cur, sentFiles, ioerr, removed>>

\* The sender reads the receiver's goodbye, its statistics included.
Goodbye == {"bye1", "bye1stats", "bye2"}

\* confirm_source_removal: what MSG_SUCCESS named and the sender had marked pending.
Confirmed == confirmed \cap sentFiles

\* Mutant: a connection lost in a later phase ends the session like a goodbye, and
\* every file sent counts as arrived.
MutEof(p) ==
    /\ pc[p] \in DOMAIN Awaits /\ ~Blocked(p)
    /\ Input(p) = <<>> /\ Stopped(Other(p)) /\ ~Blocked(Other(p))
    /\ \/ /\ pc[p] \in {"read", "bye1", "bye2"} /\ sphase > 0
          /\ GotoLabel(p, "end") /\ removed' = sentFiles
       \/ /\ pc[p] \notin {"bye1", "bye2"} /\ ~(pc[p] = "read" /\ sphase > 0)
          /\ Fail(p, "lost") /\ UNCHANGED removed
    /\ UNCHANGED <<session, wires, wr, rd, rvars, sphase, cur, sentFiles, ioerr, confirmed>>

\* p reads at the end of a closed connection.  The sender takes that for the end of
\* the session once it is past the first phase, or in a dry run, and in the goodbye,
\* where it then deletes the confirmed sources as after a full exchange.
Eof(p) ==
    /\ pc[p] \in DOMAIN Awaits /\ ~Blocked(p)
    /\ Input(p) = <<>> /\ Stopped(Other(p)) /\ ~Blocked(Other(p))
    /\ \/ /\ pc[p] = "read" /\ (sphase > 0 \/ session.dry)
          /\ GotoLabel(p, "finish") /\ UNCHANGED removed
       \/ /\ pc[p] \in Goodbye
          /\ GotoLabel(p, "end") /\ removed' = Confirmed
       \/ /\ pc[p] \notin Goodbye /\ ~(pc[p] = "read" /\ (sphase > 0 \/ session.dry))
          /\ Fail(p, "lost") /\ UNCHANGED removed
    /\ UNCHANGED <<session, wires, wr, rd, rvars, sphase, cur, sentFiles, ioerr, confirmed>>

\* In a dry run a closed connection is let pass by the sender's last NDX_DONE, if no
\* statistics follow it, and ends the phases at the NDX_DONE that answers one.
WritesLastDone(p) == pc[p] = "bye1" /\ session.dry /\ ~session.pull
AnswersPhase(p) == p = "S" /\ pc[p] = "top" /\ session.dry /\ Last(buf[p]) = DoneMark

\* p writes to a closed connection.  In the goodbye that is the end of the session.
BrokenPipe(p) ==
    /\ Blocked(p) /\ Stopped(Other(p)) /\ ~Stopped(p)
    /\ buf' = [buf EXCEPT ![p] = <<>>]
    /\ \/ WritesLastDone(p) /\ UNCHANGED <<pc, why, removed>>
       \/ AnswersPhase(p) /\ GotoLabel(p, "finish") /\ UNCHANGED removed
       \/ pc[p] = "bye2" /\ GotoLabel(p, "end") /\ removed' = Confirmed
       \/ /\ ~WritesLastDone(p) /\ ~AnswersPhase(p) /\ pc[p] /= "bye2"
          /\ Fail(p, "lost") /\ UNCHANGED removed
    /\ UNCHANGED <<session, keep, pipe, wr, rd, rvars, sphase, cur, sentFiles, ioerr, confirmed>>

-----------------------------------------------------------------------------
(* The receiver: requests and responses (run_pipeline_loop_decoupled).     *)

\* The head of the loop.  The deadline is only looked at here, and leaves the loop
\* with whatever is outstanding.
RTop ==
    /\ AtLabel("R", "top")
    /\ \/ GotoLabel("R", "fill")
       \/ session.stop /\ session.pull /\ GotoLabel("R", "drain")
    /\ UNCHANGED <<session, wires, wr, rd, rvars, svars>>

\* send_file_request: the index, the flags and the sums, into the buffer.
RRequest ==
    /\ AtLabel("R", "fill")
    /\ todo /= <<>> /\ Len(win) < Window
    /\ Write("R", <<Ndx("R", Head(todo)), Xfer>>, FALSE)
    /\ wr' = [wr EXCEPT !["R"] = Advance(@, Head(todo))]
    /\ todo' = Tail(todo) /\ win' = Append(win, Head(todo))
    /\ UNCHANGED <<session, pc, why, pipe, rd, flushed, pass, undrained, redo, echoes, rphase, placed, svars>>

\* Mutant: the response just about to be read is not counted off.
MutRWait ==
    /\ AtLabel("R", "fill")
    /\ todo = <<>> \/ Len(win) = Window
    /\ IF win = <<>>
         THEN GotoLabel("R", "drain") /\ NoWrite /\ UNCHANGED flushed
         ELSE /\ GotoLabel("R", "header")
              /\ IF flushed = 0
                   THEN Write("R", <<>>, TRUE) /\ flushed' = Len(win)
                   ELSE NoWrite /\ flushed' = flushed - 1
    /\ UNCHANGED <<session, pipe, wr, rd, todo, win, pass, undrained, redo, echoes, rphase, placed, svars>>

\* The window is full or the list exhausted: flush unless a flush covers the next
\* response already, and wait for it.
RWait ==
    /\ AtLabel("R", "fill")
    /\ todo = <<>> \/ Len(win) = Window
    /\ IF win = <<>>
         THEN GotoLabel("R", "drain") /\ NoWrite /\ UNCHANGED flushed
         ELSE /\ GotoLabel("R", "header")
              /\ IF flushed = 0
                   THEN Write("R", <<>>, TRUE) /\ flushed' = Len(win) - 1
                   ELSE NoWrite /\ flushed' = flushed - 1
    /\ UNCHANGED <<session, pipe, wr, rd, todo, win, pass, undrained, redo, echoes, rphase, placed, svars>>

\* Mutant: the echoed index is not compared.
MutRHeader ==
    /\ AtLabel("R", "header") /\ Arrived("R", "ndx")
    /\ TakeNdx("R")
    /\ GotoLabel("R", "body")
    /\ NoWrite
    /\ UNCHANGED <<session, wr, rvars, svars>>

\* read_response_header: the echoed index must be that of the oldest request.
RHeader ==
    /\ AtLabel("R", "header") /\ Arrived("R", "ndx")
    /\ TakeNdx("R")
    /\ IF NextNdx("R") = Head(win) THEN GotoLabel("R", "body") ELSE Fail("R", "ndx")
    /\ NoWrite
    /\ UNCHANGED <<session, wr, rvars, svars>>

\* What draining the results of the first n commits does: good ones are announced
\* (emit_confirmed_source_removals), bad ones are to be asked for again.
Confirmations(rs) ==
    IF session.remove
      THEN LET good == SelectSeq(rs, LAMBDA r : r.good) IN
           [i \in 1 .. Len(good) |-> Oob("success", good[i].f)]
      ELSE <<>>
Rejected(rs) ==
    LET bad == SelectSeq(rs, LAMBDA r : ~r.good) IN [i \in 1 .. Len(bad) |-> bad[i].f]
Content(rs, g) ==
    [f \in File |-> LET c == {i \in DOMAIN rs : rs[i].f = f /\ rs[i].good} IN
                    IF c = {} THEN g[f] ELSE rs[CHOOSE i \in c : \A j \in c : j <= i].src]

\* process_file_response_streaming hands the data to the disk thread
\* (note_commit_sent), and the results that are ready are drained: some or all of
\* those outstanding, in order.
RBody ==
    /\ AtLabel("R", "body") /\ Arrived("R", "data")
    /\ TakeItem("R")
    /\ LET d == Head(Input("R"))
           all == Append(undrained, [f |-> Head(win), src |-> d.f, good |-> d.good])
       IN \E n \in 0 .. Len(all) :
            LET drained == SubSeq(all, 1, n) IN
            /\ undrained' = SubSeq(all, n + 1, Len(all))
            /\ redo' = redo \o Rejected(drained)
            /\ placed' = Content(drained, placed)
            /\ IF Confirmations(drained) = <<>> THEN NoWrite
               ELSE Write("R", Confirmations(drained), TRUE)
    /\ win' = Tail(win)
    /\ GotoLabel("R", "top")
    /\ UNCHANGED <<session, wr, rd, todo, flushed, pass, echoes, rphase, svars>>

\* emit_server_hardlink_follower_itemize: a server-mode receiver itemizes every
\* follower with the index writer of the pass that just ended.
Follower(acc, f) ==
    [st |-> Advance(acc.st, f),
     items |-> acc.items \o <<[k |-> "ndx", b |-> EncodeNdx(session.proto, acc.st, f)], Item>>]
Followers ==
    IF session.pull \/ session.proto < 29 \/ pass = 2 THEN <<>>
    ELSE FoldLeft(Follower, [st |-> wr["R"], items |-> <<>>], session.links).items

\* run_pipelined: what failed in the forward pass is asked for again, once.
NextPass(again) ==
    IF pass = 1 /\ again /= <<>>
      THEN GotoLabel("R", "top") /\ pass' = 2 /\ todo' = again
      ELSE GotoLabel("R", "phase") /\ UNCHANGED <<pass, todo>>

\* Mutant: the successes drained at the end of a pass are not announced.
MutRDrain ==
    /\ AtLabel("R", "drain")
    /\ LET again == redo \o Rejected(undrained)
       IN /\ IF Followers = <<>> THEN NoWrite ELSE Write("R", Followers, TRUE)
          /\ echoes' = echoes + Len(Followers) \div 2
          /\ NextPass(again)
    /\ placed' = Content(undrained, placed)
    /\ undrained' = <<>> /\ redo' = <<>> /\ win' = <<>> /\ flushed' = 0
    /\ wr' = [wr EXCEPT !["R"] = NewCodec] /\ rd' = [rd EXCEPT !["R"] = NewCodec]
    /\ UNCHANGED <<session, pipe, rphase, svars>>

\* The end of a pass: wait for the disk thread, announce, itemize the followers,
\* and go on to the redo pass, with codecs of its own, or to the phase exchange
\* (finalize_transfer), also with codecs of its own.
RDrain ==
    /\ AtLabel("R", "drain")
    /\ LET again == redo \o Rejected(undrained)
           out == Confirmations(undrained) \o Followers
       IN /\ IF out = <<>> THEN NoWrite ELSE Write("R", out, TRUE)
          /\ echoes' = echoes + Len(Followers) \div 2
          /\ NextPass(again)
    /\ placed' = Content(undrained, placed)
    /\ undrained' = <<>> /\ redo' = <<>> /\ win' = <<>> /\ flushed' = 0
    /\ wr' = [wr EXCEPT !["R"] = NewCodec] /\ rd' = [rd EXCEPT !["R"] = NewCodec]
    /\ UNCHANGED <<session, pipe, rphase, svars>>

\* run_dry_run_loop: one request at a time, flushed, and its echo, whose index is
\* not looked at.
RDry ==
    /\ AtLabel("R", "dry")
    /\ IF todo = <<>>
         THEN /\ GotoLabel("R", "phase") /\ NoWrite
              /\ wr' = [wr EXCEPT !["R"] = NewCodec] /\ rd' = [rd EXCEPT !["R"] = NewCodec]
              /\ UNCHANGED todo
         ELSE /\ GotoLabel("R", "dryhead")
              /\ Write("R", <<Ndx("R", Head(todo)), Xfer>>, TRUE)
              /\ wr' = [wr EXCEPT !["R"] = Advance(@, Head(todo))]
              /\ todo' = Tail(todo) /\ UNCHANGED rd
    /\ UNCHANGED <<session, pipe, win, flushed, pass, undrained, redo, echoes, rphase, placed, svars>>

RDryHead ==
    /\ AtLabel("R", "dryhead") /\ Arrived("R", "ndx")
    /\ TakeNdx("R") /\ GotoLabel("R", "drybody") /\ NoWrite
    /\ UNCHANGED <<session, wr, rvars, svars>>

RDryBody ==
    /\ AtLabel("R", "drybody") /\ Arrived("R", "xfer")
    /\ TakeItem("R") /\ GotoLabel("R", "dry") /\ NoWrite
    /\ UNCHANGED <<session, wr, rd, rvars, svars>>

-----------------------------------------------------------------------------
(* The receiver: phases and goodbye (finalize_transfer).                   *)

RPhase ==
    /\ AtLabel("R", "phase")
    /\ Write("R", <<DoneMark>>, TRUE)
    /\ rphase' = rphase + 1
    /\ GotoLabel("R", "phaseread")
    /\ UNCHANGED <<session, pipe, wr, rd, todo, win, flushed, pass, undrained, redo, echoes, placed, svars>>

\* Mutant: the echoes are not drained.
MutRPhaseRead ==
    /\ AtLabel("R", "phaseread") /\ Arrived("R", "ndx")
    /\ TakeNdx("R")
    /\ IF NextNdx("R") /= NDX_DONE THEN Fail("R", "ndx")
       ELSE GotoLabel("R", IF rphase <= MaxPhase THEN "phase" ELSE IF session.pull THEN "stats" ELSE "bye")
    /\ NoWrite
    /\ UNCHANGED <<session, wr, rvars, svars>>

\* read_expected_ndx_done: first the echoes of the followers, whatever their index,
\* then NDX_DONE; the one after the last phase is the sender's final one.
RPhaseRead ==
    /\ AtLabel("R", "phaseread") /\ Arrived("R", "ndx")
    /\ TakeNdx("R")
    /\ CASE echoes > 0 -> GotoLabel("R", "echo")
         [] echoes = 0 /\ NextNdx("R") /= NDX_DONE -> Fail("R", "ndx")
         [] OTHER -> GotoLabel("R", IF rphase <= MaxPhase THEN "phase"
                               ELSE IF session.pull THEN "stats" ELSE "bye")
    /\ NoWrite
    /\ UNCHANGED <<session, wr, rvars, svars>>

REcho ==
    /\ AtLabel("R", "echo") /\ Arrived("R", "item")
    /\ TakeItem("R") /\ echoes' = echoes - 1
    /\ GotoLabel("R", "phaseread") /\ NoWrite
    /\ UNCHANGED <<session, wr, rd, todo, win, flushed, pass, undrained, redo, rphase, placed, svars>>

\* receive_stats, in a pull.
RStats ==
    /\ AtLabel("R", "stats") /\ Arrived("R", "stats")
    /\ TakeItem("R") /\ GotoLabel("R", "bye") /\ NoWrite
    /\ UNCHANGED <<session, wr, rd, rvars, svars>>

\* handle_goodbye.
RBye ==
    /\ AtLabel("R", "bye")
    /\ IF session.proto >= 31 /\ session.delete
         THEN /\ Write("R", <<Ndx("R", NDX_DEL_STATS), Stats, DoneMark>>, TRUE)
              /\ wr' = [wr EXCEPT !["R"] = Advance(@, NDX_DEL_STATS)]
         ELSE Write("R", <<DoneMark>>, TRUE) /\ UNCHANGED wr
    /\ GotoLabel("R", IF session.proto >= 31 THEN "byeread" ELSE "end")
    /\ UNCHANGED <<session, pipe, rd, rvars, svars>>

RByeRead ==
    /\ AtLabel("R", "byeread") /\ Arrived("R", "ndx")
    /\ TakeNdx("R")
    /\ CASE NextNdx("R") = NDX_DONE -> GotoLabel("R", "end") /\ Write("R", <<DoneMark>>, TRUE)
         [] NextNdx("R") = NDX_DEL_STATS -> GotoLabel("R", "byestats") /\ NoWrite
         [] OTHER -> Fail("R", "ndx") /\ NoWrite
    /\ UNCHANGED <<session, wr, rvars, svars>>

RByeStats ==
    /\ AtLabel("R", "byestats") /\ Arrived("R", "stats")
    /\ TakeItem("R") /\ GotoLabel("R", "byeread") /\ NoWrite
    /\ UNCHANGED <<session, wr, rd, rvars, svars>>

-----------------------------------------------------------------------------
(* The sender (run_transfer_loop).                                         *)

\* Mutant: it does not.
MutSTop ==
    /\ AtLabel("S", "top")
    /\ NoWrite /\ GotoLabel("S", "read")
    /\ UNCHANGED <<session, pipe, wr, rd, rvars, svars>>

\* The head of the loop flushes what was written before waiting for a request.
STop ==
    /\ AtLabel("S", "top")
    /\ Write("S", <<>>, TRUE) /\ GotoLabel("S", "read")
    /\ UNCHANGED <<session, pipe, wr, rd, rvars, svars>>

\* NDX_DONE ends a phase; another negative index is passed over.  NDX_DEL_STATS, with the
\* statistics behind it, is no case here: this receiver sends it in the goodbye only.
SRead ==
    /\ AtLabel("S", "read") /\ Arrived("S", "ndx")
    /\ TakeNdx("S")
    /\ LET n == NextNdx("S") IN
       CASE n = NDX_DONE /\ sphase < MaxPhase ->
              /\ Write("S", <<DoneMark>>, TRUE) /\ GotoLabel("S", "top")
              /\ sphase' = sphase + 1 /\ UNCHANGED cur
         [] n = NDX_DONE /\ sphase = MaxPhase ->
              /\ NoWrite /\ GotoLabel("S", "finish")
              /\ sphase' = sphase + 1 /\ UNCHANGED cur
         [] n < 0 /\ n \notin {NDX_DONE, NDX_DEL_STATS} ->
              NoWrite /\ GotoLabel("S", "top") /\ UNCHANGED <<cur, sphase>>
         [] n >= 0 -> NoWrite /\ GotoLabel("S", "attrs") /\ cur' = n /\ UNCHANGED sphase
    /\ UNCHANGED <<session, wr, rvars, sentFiles, ioerr, confirmed, removed>>

\* The echo of an index with its flags, and what follows it.
Reply(items, flush) ==
    /\ Write("S", <<Ndx("S", cur)>> \o items, flush)
    /\ wr' = [wr EXCEPT !["S"] = Advance(@, cur)]

\* An item that needs no transfer is echoed.
SItem ==
    /\ AtLabel("S", "attrs") /\ Arrived("S", "item")
    /\ TakeItem("S") /\ Reply(<<Item>>, FALSE) /\ GotoLabel("S", "top")
    /\ UNCHANGED <<session, rd, rvars, svars>>

\* A request: refused in phase 2 or for an index out of the list, echoed in a dry
\* run, silently dropped for anything but a regular file, answered by MSG_NO_SEND
\* (from protocol 30 on) if the file cannot be opened, and served otherwise.
SXfer ==
    /\ AtLabel("S", "attrs") /\ Arrived("S", "xfer")
    /\ TakeItem("S")
    /\ CASE sphase = 2 ->
              Fail("S", "phase") /\ NoWrite /\ UNCHANGED <<wr, sentFiles, ioerr>>
         [] sphase < 2 /\ cur \notin File ->
              Fail("S", "index") /\ NoWrite /\ UNCHANGED <<wr, sentFiles, ioerr>>
         [] sphase < 2 /\ cur \in File /\ session.dry ->
              GotoLabel("S", "top") /\ Reply(<<Xfer>>, TRUE) /\ UNCHANGED <<sentFiles, ioerr>>
         [] sphase < 2 /\ cur \in session.dirs /\ ~session.dry ->
              GotoLabel("S", "top") /\ NoWrite /\ UNCHANGED <<wr, sentFiles, ioerr>>
         [] sphase < 2 /\ cur \in session.gone /\ ~session.dry ->
              /\ GotoLabel("S", "top") /\ ioerr' = TRUE /\ UNCHANGED <<wr, sentFiles>>
              /\ IF session.proto >= 30 THEN Write("S", <<Oob("nosend", cur)>>, TRUE) ELSE NoWrite
         [] OTHER ->
              /\ GotoLabel("S", "sent")
              /\ Reply(<<Data(cur, cur \notin session.rotten /\ (cur \in sentFiles \/ cur \notin session.bad))>>,
                       FALSE)
              /\ sentFiles' = sentFiles \cup {cur} /\ UNCHANGED ioerr
    /\ UNCHANGED <<session, rd, rvars, sphase, cur, confirmed, removed>>

\* After a file the sender's own deadline ends the transfer.
SSent ==
    /\ AtLabel("S", "sent")
    /\ \/ GotoLabel("S", "top")
       \/ session.stop /\ ~session.pull /\ Fail("S", "deadline")
    /\ UNCHANGED <<session, wires, wr, rd, rvars, svars>>

\* The end of the loop: MSG_IO_ERROR if something went wrong, the final NDX_DONE,
\* and, if the sender is the server, send_stats.
SFinish ==
    /\ AtLabel("S", "finish")
    /\ Write("S", (IF ioerr /\ session.proto >= 30 THEN <<Oob("ioerr", 0)>> ELSE <<>>)
                  \o <<DoneMark>> \o (IF session.pull THEN <<Stats>> ELSE <<>>), TRUE)
    /\ GotoLabel("S", "bye1")
    /\ UNCHANGED <<session, pipe, wr, rd, rvars, svars>>

\* Mutant: every source that was sent is deleted.
MutSBye1 ==
    /\ AtLabel("S", "bye1") /\ Arrived("S", "ndx")
    /\ TakeNdx("S")
    /\ NextNdx("S") = NDX_DONE /\ session.proto < 31
    /\ GotoLabel("S", "end") /\ removed' = sentFiles
    /\ NoWrite
    /\ UNCHANGED <<session, wr, rvars, sphase, cur, sentFiles, ioerr, confirmed>>

\* handle_goodbye_with_finalizer, and after it confirm_source_removal.
SBye1 ==
    /\ AtLabel("S", "bye1") /\ Arrived("S", "ndx")
    /\ TakeNdx("S")
    /\ CASE NextNdx("S") = NDX_DEL_STATS ->
              GotoLabel("S", "bye1stats") /\ NoWrite /\ UNCHANGED <<wr, removed>>
         [] NextNdx("S") = NDX_DONE /\ session.proto < 31 ->
              GotoLabel("S", "end") /\ NoWrite /\ removed' = Confirmed /\ UNCHANGED wr
         [] NextNdx("S") = NDX_DONE /\ session.proto >= 31 ->
              /\ GotoLabel("S", "bye2") /\ UNCHANGED removed
              /\ IF session.delete
                   THEN /\ Write("S", <<Ndx("S", NDX_DEL_STATS), Stats, DoneMark>>, TRUE)
                        /\ wr' = [wr EXCEPT !["S"] = Advance(@, NDX_DEL_STATS)]
                   ELSE Write("S", <<DoneMark>>, TRUE) /\ UNCHANGED wr
    /\ UNCHANGED <<session, rvars, sphase, cur, sentFiles, ioerr, confirmed>>

SBye1Stats ==
    /\ AtLabel("S", "bye1stats") /\ Arrived("S", "stats")
    /\ TakeItem("S") /\ GotoLabel("S", "bye1") /\ NoWrite
    /\ UNCHANGED <<session, wr, rd, rvars, svars>>

\* The last NDX_DONE of an extended goodbye.
SBye2 ==
    /\ AtLabel("S", "bye2") /\ Arrived("S", "ndx")
    /\ TakeNdx("S")
    /\ IF NextNdx("S") = NDX_DONE
         THEN GotoLabel("S", "end") /\ removed' = Confirmed
         ELSE Fail("S", "ndx") /\ UNCHANGED removed
    /\ NoWrite
    /\ UNCHANGED <<session, wr, rvars, sphase, cur, sentFiles, ioerr, confirmed>>

-----------------------------------------------------------------------------
Receiver ==
    \/ RTop \/ RRequest \/ RWait \/ RHeader \/ RBody \/ RDrain
    \/ RDry \/ RDryHead \/ RDryBody
    \/ RPhase \/ RPhaseRead \/ REcho \/ RStats \/ RBye \/ RByeRead \/ RByeStats

Sender ==
    \/ STop \/ SRead \/ SItem \/ SXfer \/ SSent \/ SFinish
    \/ SBye1 \/ SBye1Stats \/ SBye2

Transport(p) == PushItem(p) \/ Demux(p) \/ Eof(p) \/ BrokenPipe(p)

AllStopped == \A p \in Side : Stopped(p) /\ (Blocked(p) => Stopped(Other(p)))

WireNext ==
    \/ Receiver \/ Sender
    \/ \E p \in Side : Transport(p) \/ Crash(p)

WireSpec == WireInit /\ [][WireNext]_wireVars

\* Both processes and the kernel between them keep running; a deadline need never
\* be reached and nothing need crash.
WireFairness ==
    /\ WF_wireVars(Receiver) /\ WF_wireVars(Sender)
    /\ \A p \in Side : WF_wireVars(Transport(p))

WireFairSpec == WireSpec /\ WireFairness

-----------------------------------------------------------------------------
Labels == {"top", "fill", "drain", "dry", "phase", "bye", "sent", "finish", "end", "failed"}
            \cup DOMAIN Awaits

WireTypeOK ==
    /\ session \in Sessions
    /\ pc \in [Side -> Labels]
    /\ \A p \in Side : keep[p] \in 0 .. BufCap + 2
    /\ \A p \in Side : session.drain /= Other(p) => Len(pipe[p]) <= session.room
    /\ Len(win) <= Window /\ flushed \in 0 .. Window
    /\ pass \in 1 .. 2 /\ rphase \in 0 .. 3 /\ sphase \in 0 .. 3
    /\ placed \in [File -> File \cup {-1}]
    /\ sentFiles \subseteq File /\ confirmed \subseteq File /\ removed \subseteq File

\* A destination only ever gets the content of its own source, whatever the indices
\* look like on the wire and whoever lost count of what (read_response_header is
\* the only guard).
OwnData == \A f \in File : placed[f] \in {-1, f}

\* A source is deleted only when its content is in place at the destination
\* (--remove-source-files), however the session ends.
RemovalIsSafe == \A f \in removed : placed[f] = f

\* p finds something else where it expects an item of its label: what it would read
\* as flags, block sums or data are the bytes of another item.
Misreads(p) ==
    /\ pc[p] \in DOMAIN Awaits /\ ~Blocked(p)
    /\ Input(p) /= <<>>
    /\ Head(Input(p)).k \notin {"oob", Awaits[pc[p]]}
    /\ ~(pc[p] = "attrs" /\ Arrived(p, "item"))

\* A session in which neither side dies or runs out of time, and every file asked for
\* is a regular file the sender can open.
Calm == ~session.stop /\ session.crash = "none" /\ session.gone = {} /\ session.dirs = {}

\* Neither side ever reads something the protocol does not allow there: the phase
\* exchange, the echoes, the statistics and the goodbye of the two loops match.
NoProtocolError ==
    Calm => \A p \in Side : why[p] \notin {"ndx", "phase", "index"} /\ ~Misreads(p)

\* A calm session that ends well has transferred everything it asked for and could
\* get, redone what failed once, and deleted every source it was to delete.
Complete ==
    Calm /\ (\A p \in Side : pc[p] = "end") /\ ~session.dry =>
        \A i \in {j \in DOMAIN session.want : session.want[j] \notin session.rotten} :
            /\ placed[session.want[i]] = session.want[i]
            /\ session.remove => session.want[i] \in removed

\* A calm session has ended: neither side waits for the other.
CalmSessionOver == Calm => AllStopped

\* The session ends, whatever the sender cannot send.
Finishes == <>AllStopped
=============================================================================
