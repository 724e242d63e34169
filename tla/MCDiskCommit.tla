---------------------------- MODULE MCDiskCommit ----------------------------
(* Instances of the disk-commit pipeline: the valid option combinations        *)
(* (--inplace excludes --delay-updates and --partial-dir), each with a set of   *)
(* failures the environment may cause.                                          *)
EXTENDS DiskCommit

Options ==
    {c \in [partial : {"none", "partial", "dir"}, backup : BOOLEAN, delay : BOOLEAN,
            inplace : BOOLEAN, crossdev : BOOLEAN] :
        /\ c.inplace => ~c.delay /\ c.partial /= "dir"
        /\ c.crossdev => ~c.inplace}

\* --stop-at may be reached at any time, or never.
With(options, faults) ==
    {[partial |-> c.partial, backup |-> c.backup, delay |-> c.delay, inplace |-> c.inplace,
      crossdev |-> c.crossdev, stop |-> TRUE, faults |-> faults] : c \in options}

Other(ops) == ops \X {"other"}
Perm(ops) == ops \X {"perm"}

\* Errors that end a file after its last message was read.
LateFaults ==
    Perm({"open", "rename"})
        \cup Other({"open", "corrupt", "flush", "commit_backup", "rename", "copy", "retain",
                   "meta", "sweep"})

\* Errors in the middle of a file.
StreamFaults == Other({"net", "basis", "corrupt", "write", "backup", "setup"})

\* Permission errors that leave no message of the file behind.
PermFaults == Perm({"open", "rename", "commit_backup"})

SafetyConfigs ==
    With({c \in Options : /\ c.crossdev => c.backup /\ ~c.delay /\ c.partial = "none"
                          /\ c.delay \/ c.inplace => c.backup
                          /\ c.partial /= "none" => c.backup
                          /\ c.delay => c.partial = "dir"},
         LateFaults)
        \cup With({c \in Options : ~c.crossdev /\ c.backup}, PermFaults)
        \cup With({c \in Options : ~c.crossdev /\ ~c.delay /\ c.backup /\ c.partial /= "none"},
                  StreamFaults)

\* Errors that end a file cleanly, in the middle or at its end.
LiveConfigs ==
    With({c \in Options : c.partial = "dir" /\ c.backup = c.delay /\ ~c.crossdev},
         Perm({"open"})
           \cup Other({"net", "basis", "corrupt", "rename", "sweep", "sweep_backup"}))

Plain == [partial |-> "none", backup |-> FALSE, delay |-> FALSE, inplace |-> FALSE,
          crossdev |-> FALSE]

\* A write error.
HangConfigs == With({Plain}, Other({"write"}))

\* --delay-updates, with a sweep that fails.
DelayConfigs == With({[Plain EXCEPT !.delay = TRUE]}, Other({"sweep"}))
==============================================================================
