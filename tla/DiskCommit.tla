------------------------------ MODULE DiskCommit ------------------------------
(***************************************************************************)
(* The receiver's decoupled pipeline: the network thread turns the delta   *)
(* stream of each file into messages, the disk thread writes, verifies and *)
(* commits, and results come back on a second queue                        *)
(* (crates/transfer/src/disk_commit, pipeline/receiver.rs,                 *)
(* transfer_ops/streaming.rs, transfer_ops/token_loop.rs and               *)
(* receiver/transfer/pipeline.rs).                                         *)
(*                                                                         *)
(* The queues are the atomic channels of module Channel.  Every file       *)
(* system operation whose effect a crash could leave behind is a step of   *)
(* its own, so an invariant also says what a crash at that point leaves.   *)
(* File contents are abstracted to what verification tells apart; the      *)
(* whole-file digest of file f is f itself, that of corrupt data is 0.     *)
(***************************************************************************)
EXTENDS Integers, Sequences

CONSTANTS NumFiles,   \* files to transfer are 1 .. NumFiles, in list order
          MaxChunks,  \* bound: delta tokens per file
          FileCap,    \* effective_channel_capacity(): slots of the file queue
          Configs     \* the option combinations to start from, each with what the
                      \* environment may do: pairs of operation and error kind

\* What may fail, in the order it happens to a file.
Operations ==
    {"net", "basis", "corrupt", "backup", "open", "setup", "write", "flush", "retain",
     "commit_backup", "rename", "copy", "meta", "sweep_backup", "sweep"}

ASSUME DiskAssumption ==
    /\ NumFiles \in Nat \ {0}
    /\ MaxChunks \in Nat
    /\ FileCap \in Nat \ {0}
    /\ \A c \in Configs :
         /\ c \in [partial : {"none", "partial", "dir"}, backup : BOOLEAN, delay : BOOLEAN,
                  inplace : BOOLEAN, crossdev : BOOLEAN, stop : BOOLEAN,
                  faults : SUBSET (Operations \X {"perm", "other"})]
         /\ ~(c.inplace /\ c.delay)   \* the configuration builder rejects the pair

Files == 1 .. NumFiles

\* spawn_disk_thread gives the result queue twice the slots.
ResultCap == 2 * FileCap

Contents == {"none", "old", "new", "bad", "short"}
ErrorKinds == {"perm", "other", "stray", "intr"}

VARIABLES
    cfg,        \* DiskCommitConfig, fixed at the start
    fileQ,      \* FileMessage items in flight
    resultQ,    \* io::Result<CommitResult> items in flight
    \* the network thread
    npc,        \* its place in the loop
    pass,       \* 1, or 2 for the redo pass
    todo,       \* files_to_transfer not yet streamed
    cur,        \* the file being streamed
    left,       \* its delta tokens still to come
    good,       \* its data matches the sender's digest
    pending,    \* pending_commits
    expected,   \* expected_checksums
    redo,       \* redo_indices
    success,    \* success_indices
    delayed,    \* delayed_updates of both passes
    metaErrs,   \* files in metadata_errors
    failed,     \* files whose second verification failed (ErrorXfer warning)
    confirmed,  \* files the sender was told to remove (MSG_SUCCESS)
    ioError,    \* the sweep's IOERR_GENERAL bit
    cut,        \* files a loop left behind when --stop-at was reached (kept by the model only)
    outcome,    \* what the pipeline loop returns: "none", "ok" or "err"
    \* the disk thread
    dpc,        \* its place
    dfile,      \* begin.file_entry_index
    dwhole,     \* the message was WholeFile
    dbytes,     \* bytes_written > 0
    dgood,      \* the digest will match
    dres,       \* the result about to be sent
    \* the file system
    fs          \* per file: the contents at its dest, temp, partial, backup and
                \* staged paths, and what the destination had before (had)

netVars == <<pass, todo, cur, left, good, pending, expected, redo, success,
             delayed, metaErrs, failed, confirmed, ioError, cut, outcome>>
diskVars == <<dpc, dfile, dwhole, dbytes, dgood, dres>>
vars == <<cfg, fileQ, resultQ, npc, netVars, diskVars, fs>>

NoResult == [ok |-> TRUE, kind |-> "other", src |-> 0, digest |-> 0,
             delayed |-> FALSE, meta |-> FALSE]

\* Err(e) of the given kind; src is the file whose message caused it.
ErrResult(kind, f) == [NoResult EXCEPT !.ok = FALSE, !.kind = kind, !.src = f]

NeedsRename == ~cfg.inplace

\* The errors an operation may meet, and whether it may meet any.
KindsOf(op) == {kind \in ErrorKinds : <<op, kind>> \in cfg.faults}
May(op) == KindsOf(op) /= {}

Init ==
    /\ cfg \in Configs
    /\ fileQ = << >> /\ resultQ = << >>
    /\ npc = "next" /\ pass = 1
    /\ todo = [f \in Files |-> f]
    /\ cur = 0 /\ left = 0 /\ good = TRUE
    /\ pending = 0 /\ expected = << >> /\ redo = << >> /\ success = {}
    /\ delayed = << >> /\ metaErrs = {} /\ failed = {} /\ confirmed = {}
    /\ ioError = FALSE /\ cut = {} /\ outcome = "none"
    /\ dpc = "idle" /\ dfile = 0 /\ dwhole = FALSE /\ dbytes = FALSE
    /\ dgood = TRUE /\ dres = NoResult
    /\ fs \in [Files -> {[dest |-> d, temp |-> "none", partial |-> "none", backup |-> "none",
                          staged |-> "none", had |-> d] : d \in {"none", "old"}}]

-----------------------------------------------------------------------------
(* The network thread: run_pipeline_loop_decoupled. *)

\* file_tx.send: waits for a slot.  The disk thread leaves its loop only on
\* Shutdown, so the send that finds it gone cannot happen before that.
Send(m) ==
    /\ Len(fileQ) < FileCap
    /\ fileQ' = Append(fileQ, m)

Msg(type) == [type |-> type, file |-> cur, good |-> good]

\* An error leaves the loop: the closure returns Err and shutdown() follows.
Fail ==
    /\ npc' = "shut_drain"
    /\ outcome' = "err"

\* The response header and the first tokens of the next file are read.  One
\* literal without a basis goes out as WholeFile, anything else as Begin and
\* its tokens.  A read error here aborts before any message was sent.  A deadline
\* that was reached in the first pass stays reached in the redo pass.
StartFile ==
    /\ npc = "next"
    /\ todo /= << >>
    /\ cut = {}
    /\ cur' = Head(todo)
    /\ todo' = Tail(todo)
    /\ good' \in {TRUE, ~May("corrupt")}
    /\ left' \in 0 .. MaxChunks
    /\ \/ npc' = "begin" /\ UNCHANGED outcome
       \/ left' = 1 /\ npc' = "whole" /\ UNCHANGED outcome
       \/ May("net") /\ Fail
    /\ UNCHANGED <<cfg, fileQ, resultQ, pass, pending, expected, redo, success, delayed,
                   metaErrs, failed, confirmed, ioError, cut, diskVars, fs>>

\* Mutant: the checksum joins the wrong end of the queue.
MutNoteCommit ==
    /\ pending' = pending + 1
    /\ expected' = <<cur>> \o expected
    /\ npc' = "drain"
    /\ UNCHANGED <<pass, todo, cur, left, good, redo, success, delayed, metaErrs,
                   failed, confirmed, ioError, cut, outcome>>

\* note_commit_sent, called as soon as the last message of the file is sent.
NoteCommit ==
    /\ pending' = pending + 1
    /\ expected' = Append(expected, cur)
    /\ npc' = "drain"
    /\ UNCHANGED <<pass, todo, cur, left, good, redo, success, delayed, metaErrs,
                   failed, confirmed, ioError, cut, outcome>>

SendWhole ==
    /\ npc = "whole"
    /\ Send(Msg("whole"))
    /\ NoteCommit
    /\ UNCHANGED <<cfg, resultQ, diskVars, fs>>

SendBegin ==
    /\ npc = "begin"
    /\ Send(Msg("begin"))
    /\ npc' = "stream"
    /\ UNCHANGED <<cfg, resultQ, netVars, diskVars, fs>>

\* A literal or a matched block (Chunk and SkipMatched travel alike).
SendChunk ==
    /\ npc = "stream"
    /\ left > 0
    /\ Send(Msg("chunk"))
    /\ left' = left - 1
    /\ UNCHANGED <<cfg, resultQ, npc, pass, todo, cur, good, pending, expected, redo,
                   success, delayed, metaErrs, failed, confirmed, ioError, cut, outcome,
                   diskVars, fs>>

SendCommit ==
    /\ npc = "stream"
    /\ left = 0
    /\ Send(Msg("commit"))
    /\ NoteCommit
    /\ UNCHANGED <<cfg, resultQ, diskVars, fs>>

\* The stream breaks (Abort is sent), or the basis file cannot be read (the
\* error returns with the file left open on the disk side).
StreamError ==
    /\ npc = "stream"
    /\ \/ May("net") /\ Send(Msg("abort"))
       \/ May("basis") /\ UNCHANGED fileQ
    /\ Fail
    /\ UNCHANGED <<cfg, resultQ, pass, todo, cur, left, good, pending, expected, redo,
                   success, delayed, metaErrs, failed, confirmed, ioError, cut, diskVars, fs>>

\* The file the oldest pending checksum belongs to (0 when there is none).
Oldest == IF expected = << >> THEN 0 ELSE Head(expected)

\* Mutant: the digest is never compared.
MutMismatch(r) == FALSE

\* verify_checksum: the digest of a result against the oldest pending one.
Mismatch(r) == r.ok /\ expected /= << >> /\ r.digest /= Oldest

\* Mutant: a failed file keeps its pending checksum.
MutPopExpected(r) == IF expected = << >> \/ ~r.ok THEN expected ELSE Tail(expected)

\* Every result, Ok or Err, consumes the oldest pending checksum.
PopExpected(r) == IF expected = << >> THEN expected ELSE Tail(expected)

\* Mutant: the redo pass drops a second failure silently.
MutGiveUp(r) == failed

\* redo is disabled in the redo pass: a second failure is reported as an error.
GiveUp(r) == IF Mismatch(r) /\ pass = 2 THEN failed \cup {Oldest} ELSE failed

\* One result of drain_ready_results or drain_all_results: collect_delayed_update
\* and verify_checksum on Ok, a recoverable entry for a permission error, and
\* Err for any other.  onErr is where the caller goes on Err.
HandleResult(r, onErr) ==
    LET fatal == ~r.ok /\ r.kind /= "perm"
        aligned == r.ok /\ expected /= << >>
    IN
    /\ resultQ' = Tail(resultQ)
    /\ pending' = IF pending > 0 THEN pending - 1 ELSE 0
    /\ expected' = PopExpected(r)
    /\ delayed' = IF aligned /\ r.delayed THEN Append(delayed, Oldest) ELSE delayed
    /\ redo' = IF Mismatch(r) /\ pass = 1 THEN Append(redo, Oldest) ELSE redo
    /\ failed' = GiveUp(r)
    /\ success' = IF aligned /\ ~Mismatch(r) THEN success \cup {Oldest} ELSE success
    /\ metaErrs' = IF (~r.ok /\ ~fatal) \/ r.meta THEN metaErrs \cup {Oldest} ELSE metaErrs
    /\ npc' = IF fatal THEN onErr ELSE npc
    /\ outcome' = IF fatal /\ onErr = "shut_drain" THEN "err" ELSE outcome

\* emit_confirmed_source_removals, which empties the accumulator.
EmitSuccess ==
    /\ confirmed' = confirmed \cup success
    /\ success' = {}

\* drain_ready_results after each file: never waits.
DrainReady ==
    /\ npc = "drain"
    /\ \/ /\ resultQ /= << >>
          /\ HandleResult(Head(resultQ), "shut_drain")
          /\ UNCHANGED confirmed
       \/ /\ resultQ = << >>
          /\ EmitSuccess
          /\ npc' = "next"
          /\ UNCHANGED <<resultQ, pending, expected, delayed, redo, failed, metaErrs, outcome>>
    /\ UNCHANGED <<cfg, fileQ, pass, todo, cur, left, good, ioError, cut, diskVars, fs>>

\* Mutant: a loop that is out of time does not wait for the commits it noted.
MutStop ==
    /\ npc = "next"
    /\ cfg.stop /\ todo /= << >>
    /\ cut' = cut \cup {todo[i] : i \in 1 .. Len(todo)}
    /\ todo' = << >>
    /\ npc' = "shut_drain" /\ outcome' = "ok"
    /\ UNCHANGED <<cfg, fileQ, resultQ, pass, cur, left, good, pending, expected, redo, success,
                   delayed, metaErrs, failed, confirmed, ioError, diskVars, fs>>

\* The head of the loop once --stop-at is reached: the files still to come, those
\* already requested included, are dropped without a word, in either pass.
Stop ==
    /\ npc = "next"
    /\ cfg.stop /\ todo /= << >>
    /\ cut' = cut \cup {todo[i] : i \in 1 .. Len(todo)}
    /\ todo' = << >>
    /\ npc' = "drain_all"
    /\ UNCHANGED <<cfg, fileQ, resultQ, pass, cur, left, good, pending, expected, redo, success,
                   delayed, metaErrs, failed, confirmed, ioError, outcome, diskVars, fs>>

\* Every file was streamed and no request is outstanding.
LoopEnd ==
    /\ npc = "next"
    /\ todo = << >>
    /\ npc' = "drain_all"
    /\ UNCHANGED <<cfg, fileQ, resultQ, netVars, diskVars, fs>>

\* drain_all_results at the end of the loop: waits while commits are pending.
DrainAll ==
    /\ npc = "drain_all"
    /\ \/ /\ pending > 0 /\ resultQ /= << >>
          /\ HandleResult(Head(resultQ), "shut_drain")
          /\ UNCHANGED confirmed
       \/ /\ pending = 0
          /\ EmitSuccess
          /\ npc' = "shut_drain"
          /\ outcome' = "ok"
          /\ UNCHANGED <<resultQ, pending, expected, delayed, redo, failed, metaErrs>>
    /\ UNCHANGED <<cfg, fileQ, pass, todo, cur, left, good, ioError, cut, diskVars, fs>>

\* shutdown(): drain what is still pending, ignoring its errors.
ShutdownDrain ==
    /\ npc = "shut_drain"
    /\ \/ /\ pending > 0 /\ resultQ /= << >>
          /\ HandleResult(Head(resultQ), "shut_send")
       \/ /\ pending = 0
          /\ npc' = "shut_send"
          /\ UNCHANGED <<resultQ, pending, expected, delayed, redo, failed, success,
                         metaErrs, outcome>>
    /\ UNCHANGED <<cfg, fileQ, pass, todo, cur, left, good, confirmed, ioError,
                   cut, diskVars, fs>>

\* Mutant: join without telling the disk thread to stop.
MutSendShutdown ==
    /\ npc = "shut_send"
    /\ npc' = "join"
    /\ UNCHANGED <<cfg, fileQ, resultQ, netVars, diskVars, fs>>

SendShutdown ==
    /\ npc = "shut_send"
    /\ Send(Msg("shutdown"))
    /\ npc' = "join"
    /\ UNCHANGED <<cfg, resultQ, netVars, diskVars, fs>>

\* The thread is joined.  A failed loop ends the transfer; files that failed
\* verification get a redo pass with a new disk thread; then the sweep.
Join ==
    /\ npc = "join"
    /\ dpc = "exited"
    /\ fileQ' = << >> /\ resultQ' = << >>
    /\ pending' = 0 /\ expected' = << >> /\ success' = {} /\ redo' = << >>
    /\ \/ /\ outcome = "err"
          /\ npc' = "done"
          /\ UNCHANGED <<pass, todo, outcome, dpc>>
       \/ /\ outcome = "ok" /\ pass = 1 /\ redo /= << >>
          /\ npc' = "next" /\ pass' = 2 /\ todo' = redo /\ outcome' = "none"
          /\ dpc' = "idle"
       \/ /\ outcome = "ok" /\ ~(pass = 1 /\ redo /= << >>)
          /\ npc' = "sweep_backup"
          /\ UNCHANGED <<pass, todo, outcome, dpc>>
    /\ UNCHANGED <<cfg, cur, left, good, delayed, metaErrs, failed, confirmed, ioError,
                   cut, dfile, dwhole, dbytes, dgood, dres, fs>>

-----------------------------------------------------------------------------
(* The delay-updates sweep, after the last pass: handle_delayed_updates. *)

SetFs(f, field, c) == [fs EXCEPT ![f][field] = c]

\* Move the content of one path of f to another, as rename does.
MoveFs(f, from, to) == [fs EXCEPT ![f][to] = fs[f][from], ![f][from] = "none"]

\* The old destination is renamed to the backup; a failure is only recorded.
SweepBackup ==
    /\ npc = "sweep_backup"
    /\ delayed /= << >>
    /\ LET f == Head(delayed) IN
       \/ /\ cfg.backup /\ fs[f].dest /= "none"
          /\ \/ fs' = MoveFs(f, "dest", "backup") /\ UNCHANGED ioError
             \/ May("sweep_backup") /\ ioError' = TRUE /\ UNCHANGED fs
       \/ /\ ~(cfg.backup /\ fs[f].dest /= "none")
          /\ UNCHANGED <<fs, ioError>>
    /\ npc' = "sweep_rename"
    /\ UNCHANGED <<cfg, fileQ, resultQ, pass, todo, cur, left, good, pending, expected,
                   redo, success, delayed, metaErrs, failed, confirmed, cut, outcome, diskVars>>

\* The staged file is renamed into place; a failure is recorded and skipped.
SweepRename ==
    /\ npc = "sweep_rename"
    /\ \/ fs' = MoveFs(Head(delayed), "staged", "dest") /\ UNCHANGED ioError
       \/ May("sweep") /\ ioError' = TRUE /\ UNCHANGED fs
    /\ delayed' = Tail(delayed)
    /\ npc' = "sweep_backup"
    /\ UNCHANGED <<cfg, fileQ, resultQ, pass, todo, cur, left, good, pending, expected,
                   redo, success, metaErrs, failed, confirmed, cut, outcome, diskVars>>

SweepEnd ==
    /\ npc = "sweep_backup"
    /\ delayed = << >>
    /\ npc' = "done"
    /\ UNCHANGED <<cfg, fileQ, resultQ, netVars, diskVars, fs>>

-----------------------------------------------------------------------------
(* The disk thread: disk_thread_main and process_file. *)

\* A result is ready: the next step sends it.
Finish(r) ==
    /\ dres' = r
    /\ dpc' = "send"

\* Mutant: an unlink is forgotten, the temp file stays behind.
MutDropTemp == fs

\* The TempFileGuard goes out of scope: an unkept temp file is unlinked.  The code
\* ignores an error of that unlink; here it succeeds.
DropTemp == SetFs(dfile, "temp", "none")

\* retain_partial_file followed by the guard's drop: nothing is kept, or the
\* temp file goes over the destination (--partial), or into the partial dir.
\* A failed rename is ignored and the guard unlinks.
Retain ==
    \/ /\ cfg.partial = "none" \/ May("retain")
       /\ fs' = DropTemp
    \/ /\ cfg.partial = "partial"
       /\ fs' = MoveFs(dfile, "temp", "dest")
    \/ /\ cfg.partial = "dir"
       /\ fs' = MoveFs(dfile, "temp", "partial")

\* An interrupted file: kept when something was written, dropped otherwise;
\* an in-place file stays as it is.
RetainOrDrop ==
    IF NeedsRename /\ dbytes THEN Retain ELSE fs' = DropTemp

\* The top of disk_thread_main: Shutdown ends the thread, Begin and WholeFile
\* start a file, anything else has no file to belong to.
DiskRecv ==
    /\ dpc = "idle"
    /\ fileQ /= << >>
    /\ fileQ' = Tail(fileQ)
    /\ LET m == Head(fileQ) IN
       \/ /\ m.type = "shutdown"
          /\ dpc' = "exited"
          /\ UNCHANGED <<dfile, dwhole, dbytes, dgood, dres>>
       \/ /\ m.type \in {"begin", "whole"}
          /\ dpc' = "backup"
          /\ dfile' = m.file /\ dwhole' = (m.type = "whole") /\ dgood' = m.good
          /\ dbytes' = FALSE
          /\ UNCHANGED dres
       \/ /\ m.type \in {"chunk", "commit", "abort"}
          /\ Finish(ErrResult("stray", m.file))
          /\ UNCHANGED <<dfile, dwhole, dbytes, dgood>>
    /\ UNCHANGED <<cfg, resultQ, npc, netVars, fs>>

\* make_inplace_backup: a copy before the first write.  Its error returns at
\* once, whatever is still queued for the file.
InplaceBackup ==
    /\ dpc = "backup"
    /\ IF cfg.inplace /\ ~cfg.delay /\ cfg.backup /\ fs[dfile].dest /= "none"
         THEN \/ /\ fs' = SetFs(dfile, "backup", fs[dfile].dest)
                 /\ dpc' = "open"
                 /\ UNCHANGED dres
              \/ \E kind \in KindsOf("backup") :
                    /\ Finish(ErrResult(kind, dfile))
                    /\ UNCHANGED fs
         ELSE dpc' = "open" /\ UNCHANGED <<dres, fs>>
    /\ UNCHANGED <<cfg, fileQ, resultQ, npc, netVars, dfile, dwhole, dbytes, dgood>>

\* A chunked file's messages are drained first; a WholeFile has none queued.
AfterOpenError == IF dwhole THEN "send" ELSE "discard"

\* open_output_file: a temp file, or the destination itself in place.
OpenOutput ==
    /\ dpc = "open"
    /\ \/ /\ fs' = IF NeedsRename THEN SetFs(dfile, "temp", "short")
                   ELSE IF fs[dfile].dest = "none" THEN SetFs(dfile, "dest", "short")
                   ELSE fs
          /\ dpc' = "setup"
          /\ UNCHANGED dres
       \/ \E kind \in KindsOf("open") :
             /\ dres' = ErrResult(kind, dfile)
             /\ dpc' = AfterOpenError
             /\ UNCHANGED fs
    /\ UNCHANGED <<cfg, fileQ, resultQ, npc, netVars, dfile, dwhole, dbytes, dgood>>

\* make_writer and sum_append_prefix: their errors return at once.
SetupWriter ==
    /\ dpc = "setup"
    /\ \/ /\ dpc' = IF dwhole THEN "write" ELSE "file"
          /\ UNCHANGED <<fs, dres>>
       \/ \E kind \in KindsOf("setup") :
             /\ Finish(ErrResult(kind, dfile))
             /\ fs' = DropTemp
    /\ UNCHANGED <<cfg, fileQ, resultQ, npc, netVars, dfile, dwhole, dbytes, dgood>>

\* discard_file_on_open_failure: drop the file's messages up to its end.
Discard ==
    /\ dpc = "discard"
    /\ fileQ /= << >>
    /\ fileQ' = Tail(fileQ)
    /\ LET m == Head(fileQ) IN
       \/ m.type = "chunk" /\ UNCHANGED <<dpc, dres>>
       \/ m.type = "commit" /\ dpc' = "send" /\ UNCHANGED dres
       \/ m.type = "abort" /\ Finish(ErrResult("other", dfile))
       \/ m.type = "shutdown" /\ Finish(ErrResult("intr", dfile))
    /\ UNCHANGED <<cfg, resultQ, npc, netVars, dfile, dwhole, dbytes, dgood, fs>>

\* The length of the file is fixed: the bytes are all there, good or not.
Complete == IF dgood THEN "new" ELSE "bad"

\* Where the bytes go.
Target == IF NeedsRename THEN "temp" ELSE "dest"

\* The receive loop of process_file: a chunk is written, a Commit flushes, and
\* the other messages end the file.  A failed write or flush returns at once.
FileRecv ==
    /\ dpc = "file"
    /\ fileQ /= << >>
    /\ fileQ' = Tail(fileQ)
    /\ LET m == Head(fileQ) IN
       \/ /\ m.type = "chunk"
          /\ dbytes' = TRUE
          /\ fs' = SetFs(dfile, Target, "short")
          /\ UNCHANGED <<dpc, dres>>
       \/ /\ m.type \in {"chunk", "commit"}
          /\ \E kind \in KindsOf(IF m.type = "chunk" THEN "write" ELSE "flush") :
                Finish(ErrResult(kind, dfile))
          /\ fs' = DropTemp
          /\ UNCHANGED dbytes
       \/ /\ m.type = "commit"
          /\ dpc' = "verify"
          /\ fs' = IF NeedsRename THEN SetFs(dfile, "temp", Complete) ELSE fs
          /\ UNCHANGED <<dbytes, dres>>
       \/ /\ m.type \in {"abort", "shutdown"}
          /\ RetainOrDrop
          /\ Finish(ErrResult(IF m.type = "abort" THEN "other" ELSE "intr", dfile))
          /\ UNCHANGED dbytes
    /\ UNCHANGED <<cfg, resultQ, npc, netVars, dfile, dwhole, dgood>>

\* process_whole_file writes and flushes its one buffer.
WriteWhole ==
    /\ dpc = "write"
    /\ dbytes' = TRUE
    /\ \/ /\ fs' = SetFs(dfile, Target, IF NeedsRename THEN Complete ELSE "short")
          /\ dpc' = "verify"
          /\ UNCHANGED dres
       \/ /\ \E kind \in KindsOf("write") : Finish(ErrResult(kind, dfile))
          /\ fs' = DropTemp
    /\ UNCHANGED <<cfg, fileQ, resultQ, npc, netVars, dfile, dwhole, dgood>>

OkResult(isDelayed, meta) ==
    [ok |-> TRUE, kind |-> "other", src |-> dfile, digest |-> IF dgood THEN dfile ELSE 0,
     delayed |-> isDelayed, meta |-> meta]

\* Mutant: the digest is not compared before the rename.
MutWithheld == FALSE

\* verify_whole_file_checksum failed, and there is a temp file to withhold.
Withheld == ~dgood /\ NeedsRename

\* A temp file that fails is withheld and its digest reported; an in-place file
\* is committed whatever the digest.
Verify ==
    /\ dpc = "verify"
    /\ IF Withheld
         THEN Retain /\ Finish(OkResult(FALSE, FALSE))
         ELSE dpc' = "commit" /\ UNCHANGED <<fs, dres>>
    /\ UNCHANGED <<cfg, fileQ, resultQ, npc, netVars, dfile, dwhole, dbytes, dgood>>

\* Mutant: the backup is left to the sweep in every mode.
MutNeedsBackup == cfg.delay /\ NeedsRename /\ cfg.backup /\ fs[dfile].dest /= "none"

\* make_backup at commit: not when the sweep does it, not in place, and only
\* when there is something to back up.
NeedsBackup == ~cfg.delay /\ NeedsRename /\ cfg.backup /\ fs[dfile].dest /= "none"

\* The first half of commit_file: the old destination becomes the backup.
CommitBackup ==
    /\ dpc = "commit"
    /\ IF NeedsBackup
         THEN \/ /\ fs' = MoveFs(dfile, "dest", "backup")
                 /\ dpc' = "rename"
                 /\ UNCHANGED dres
              \/ \E kind \in KindsOf("commit_backup") :
                    Finish(ErrResult(kind, dfile)) /\ fs' = DropTemp
         ELSE dpc' = "rename" /\ UNCHANGED <<fs, dres>>
    /\ UNCHANGED <<cfg, fileQ, resultQ, npc, netVars, dfile, dwhole, dbytes, dgood>>

\* The second half: stage the temp file (--delay-updates), rename it over the
\* destination, or fix the length of the in-place file.  Across devices the
\* rename is a copy, which the destination shows half done.  A commit removes
\* the partial-dir copy the transfer resumed from.
CommitRename ==
    /\ dpc = "rename"
    /\ LET landed == [fs EXCEPT ![dfile].dest = Complete, ![dfile].temp = "none",
                                ![dfile].partial = IF cfg.partial = "dir" THEN "none" ELSE @]
       IN
       \/ /\ NeedsRename /\ cfg.delay
          /\ fs' = MoveFs(dfile, "temp", "staged")
          /\ \E meta \in {FALSE, May("meta")} : Finish(OkResult(TRUE, meta))
       \/ /\ NeedsRename /\ ~cfg.delay /\ cfg.crossdev
          /\ fs' = SetFs(dfile, "dest", "short")
          /\ dpc' = "copy"
          /\ UNCHANGED dres
       \/ /\ ~(NeedsRename /\ (cfg.delay \/ cfg.crossdev))
          /\ fs' = landed
          /\ \E meta \in {FALSE, May("meta")} : Finish(OkResult(FALSE, meta))
       \/ \E kind \in KindsOf("rename") :
             Finish(ErrResult(kind, dfile)) /\ fs' = DropTemp
    /\ UNCHANGED <<cfg, fileQ, resultQ, npc, netVars, dfile, dwhole, dbytes, dgood>>

\* The cross-device copy completes; or it fails and leaves what it wrote, or the
\* removal of the temp file after it fails.
CommitCopy ==
    /\ dpc = "copy"
    /\ \/ /\ fs' = [fs EXCEPT ![dfile].dest = Complete, ![dfile].temp = "none",
                               ![dfile].partial = IF cfg.partial = "dir" THEN "none" ELSE @]
          /\ Finish(OkResult(FALSE, FALSE))
       \/ \E kind \in KindsOf("copy"), c \in {"short", Complete} :
             /\ fs' = [fs EXCEPT ![dfile].dest = c, ![dfile].temp = "none"]
             /\ Finish(ErrResult(kind, dfile))
    /\ UNCHANGED <<cfg, fileQ, resultQ, npc, netVars, dfile, dwhole, dbytes, dgood>>

\* result_tx.send: waits for a slot; Interrupted ends the thread.
SendResult ==
    /\ dpc = "send"
    /\ Len(resultQ) < ResultCap
    /\ resultQ' = Append(resultQ, dres)
    /\ dpc' = IF ~dres.ok /\ dres.kind = "intr" THEN "exited" ELSE "idle"
    /\ UNCHANGED <<cfg, fileQ, npc, netVars, dfile, dwhole, dbytes, dgood, dres, fs>>

-----------------------------------------------------------------------------

Network ==
    \/ StartFile \/ SendWhole \/ SendBegin \/ SendChunk \/ SendCommit \/ StreamError
    \/ DrainReady \/ Stop \/ LoopEnd \/ DrainAll \/ ShutdownDrain \/ SendShutdown \/ Join
    \/ SweepBackup \/ SweepRename \/ SweepEnd

Disk ==
    \/ DiskRecv \/ InplaceBackup \/ OpenOutput \/ SetupWriter \/ Discard \/ FileRecv
    \/ WriteWhole \/ Verify \/ CommitBackup \/ CommitRename \/ CommitCopy \/ SendResult

Done == npc = "done" /\ UNCHANGED vars

Next == Network \/ Disk \/ Done

\* Both threads are runnable whenever they are not blocked: the spin loops of
\* the channel back off to a park with a timeout.
Fairness == WF_vars(Network) /\ WF_vars(Disk)

Spec == Init /\ [][Next]_vars
FairSpec == Spec /\ Fairness

-----------------------------------------------------------------------------
(* Properties. *)

FileMsgs == [type : {"begin", "chunk", "commit", "whole", "abort", "shutdown"},
             file : 0 .. NumFiles, good : BOOLEAN]
Results == [ok : BOOLEAN, kind : ErrorKinds, src : 0 .. NumFiles, digest : 0 .. NumFiles,
            delayed : BOOLEAN, meta : BOOLEAN]

\* Both queues keep their bounds, the bookkeeping of the two threads its types.
TypeOK ==
    /\ cfg \in Configs
    /\ fileQ \in Seq(FileMsgs) /\ Len(fileQ) <= FileCap
    /\ resultQ \in Seq(Results) /\ Len(resultQ) <= ResultCap
    /\ npc \in {"next", "begin", "whole", "stream", "drain", "drain_all", "shut_drain",
               "shut_send", "join", "sweep_backup", "sweep_rename", "done"}
    /\ pass \in 1 .. 2
    /\ todo \in Seq(Files) /\ cur \in 0 .. NumFiles /\ left \in 0 .. MaxChunks
    /\ good \in BOOLEAN
    /\ pending \in 0 .. NumFiles /\ pending = Len(expected)
    /\ expected \in Seq(Files) /\ redo \in Seq(Files) /\ delayed \in Seq(Files)
    /\ {success, failed, confirmed} \subseteq SUBSET Files
    /\ metaErrs \subseteq Files /\ cut \subseteq Files
    /\ ioError \in BOOLEAN /\ outcome \in {"none", "ok", "err"}
    /\ dpc \in {"idle", "backup", "open", "setup", "file", "write", "discard", "verify",
               "commit", "rename", "copy", "send", "exited"}
    /\ dfile \in 0 .. NumFiles /\ dwhole \in BOOLEAN /\ dbytes \in BOOLEAN /\ dgood \in BOOLEAN
    /\ dres \in Results
    /\ fs \in [Files -> [{"dest", "temp", "partial", "backup", "staged", "had"} -> Contents]]

\* Whenever the process might be killed, the destination of a file written
\* through a temp file is its old version, the verified new one, or missing:
\* never half a file and never one that failed its checksum (withhold_failed_commit,
\* commit_file).  --partial, in-place writing and a temp dir on another device
\* give this up by design.
NoTornDestination ==
    (~cfg.inplace /\ ~cfg.crossdev /\ cfg.partial /= "partial") =>
        \A f \in Files : fs[f].dest \in {"none", "old", "new"}

\* With --backup the version a file had before the run is at the destination or
\* in the backup at every moment, also when the rename after the backup fails,
\* when verification fails, and when the transfer is aborted.  (In place, the
\* redo pass gives this up: make_inplace_backup runs again, over the backup.  So
\* does a sweep whose backup fails: it reports the error and renames all the same.)
OldVersionKept ==
    (/\ cfg.backup /\ cfg.partial /= "partial"
     /\ cfg.inplace => pass = 1
     /\ cfg.delay => ~May("sweep_backup")) =>
        \A f \in Files : fs[f].had = "old" => "old" \in {fs[f].dest, fs[f].backup}

\* Every way out of process_file and process_whole_file, the early returns of
\* `?` included, renames or unlinks the temp file: as long as the unlink itself
\* succeeds, the disk thread is between files with none on disk.
NoTempLeftBehind ==
    dpc \in {"idle", "send", "exited"} => \A f \in Files : fs[f].temp = "none"

\* Err ends the loop, except for a permission error.
Fatal(r) == ~r.ok /\ r.kind /= "perm"

\* expected_checksums and the result queue are matched by position only: up to the
\* first error that ends the loop, the i-th result in flight is about the i-th noted
\* commit, so no digest is ever compared with another file's.  Only the error for a
\* message that belongs to no file stands for no commit, and it ends the loop.
ResultsMatchCommits ==
    outcome /= "err" => \A i \in 1 .. Len(resultQ) :
        /\ i <= Len(expected)
        /\ \A j \in 1 .. i - 1 : ~Fatal(resultQ[j])
        => resultQ[i].kind = "stray" \/ resultQ[i].src = expected[i]

\* The sender is told to remove a source (MSG_SUCCESS) only when the verified
\* file is at its destination, or staged for the sweep under --delay-updates.
ConfirmedMeansSafe ==
    \A f \in confirmed :
        fs[f].dest = "new" \/ (cfg.delay /\ fs[f].staged = "new")

\* When the loop, the redo pass and the sweep end without an error, a warning or
\* an I/O error bit, each file is in place and confirmed, or it is one that --stop-at
\* left behind, which is not confirmed: the redo bookkeeping skips no file, and a
\* deadline costs none of the files streamed before it.  (A file that failed its
\* verification and whose redo turn comes after the deadline is left behind, too.)
CleanExitAccountsForAll ==
    (npc = "done" /\ outcome = "ok" /\ failed = {} /\ metaErrs = {} /\ ~ioError) =>
        /\ confirmed = Files \ cut
        /\ \A f \in confirmed : fs[f].dest = "new"

\* Whatever fails, the loop shuts down: the disk thread is joined and the
\* receiver moves on ("Graceful shutdown regardless of success or failure").
ShutsDown == <>(npc = "done")

\* A source is removed only after its file has landed at the destination
\* (emit_confirmed_source_removals): at the end of the receiver's work.
RemovedSourceHasLanded ==
    npc = "done" => \A f \in confirmed : fs[f].dest = "new"
=============================================================================
