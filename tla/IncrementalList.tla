--------------------------- MODULE IncrementalList ---------------------------
(***************************************************************************)
(* The incremental file list (`IncrementalFileList', with the receiver's      *)
(* `IncrementalFileListReceiver' around it): entries are held back until the  *)
(* directory they are in is known, and what is still held at the end gets     *)
(* placeholder directories.                                                   *)
(*                                                                         *)
(* A name is the sequence of its components, the transfer root is <<>> (the   *)
(* code's "" and "."); names with a leading slash are left out.  `pending' is *)
(* a total function, an absent key being the empty sequence.                  *)
(***************************************************************************)
EXTENDS Naturals, FiniteSets, Sequences, SequencesExt

CONSTANT Arrivals    \* the sequences of entries [path, dir] a sender may send

VARIABLES incoming,        \* entries not read yet
          arrived,         \* the entries read so far (kept by the model only)
          ready, pending, created_dirs, entries_pending,
          yielded,         \* entries handed to the caller, in order
          marked,          \* directories the caller has marked as existing
          finish           \* how the list was ended, with what it returned

listVars == <<incoming, arrived, ready, pending, created_dirs, entries_pending, yielded, marked,
             finish>>

Root == <<>>
Entries == UNION {ToSet(a) : a \in Arrivals}
Ancestry(path) == [i \in 1..Len(path) |-> SubSeq(path, 1, i)]
Paths == {Root} \cup UNION {ToSet(Ancestry(e.path)) : e \in Entries}
ParentPath(e) == Front(e.path)

Open == [how |-> "open", resolved |-> <<>>, placeholders |-> 0]

ListInit ==
    /\ incoming \in Arrivals
    /\ arrived = {}
    /\ ready = <<>>
    /\ pending = [p \in Paths |-> <<>>]
    /\ created_dirs = {Root}
    /\ entries_pending = 0
    /\ yielded = <<>>
    /\ marked = {}
    /\ finish = Open

\* What release_pending_children appends to `ready': the children in order, each
\* directory after everything below it.
Released(pend) ==
    LET below[d \in DOMAIN pend] ==
            FlattenSeq([i \in DOMAIN pend[d] |->
                IF pend[d][i].dir THEN Append(below[pend[d][i].path], pend[d][i])
                ELSE <<pend[d][i]>>])
    IN  below

\* Mutant: only the children are released, not what is below them.
MutRelease(l, d) ==
    [l EXCEPT !.ready = @ \o l.pending[d],
              !.pending = [p \in DOMAIN @ |-> IF p = d THEN <<>> ELSE @[p]],
              !.created = @ \cup {d} \cup {e.path : e \in {c \in ToSet(l.pending[d]) : c.dir}},
              !.count = @ - Len(l.pending[d])]

\* Mutant: what is below a released directory is counted again with its parent.
MutReleaseCount(l, d) ==
    LET out  == Released(l.pending)[d]
        dirs == {d} \cup {e.path : e \in {c \in ToSet(out) : c.dir}}
    IN  [l EXCEPT !.ready = @ \o out,
                  !.pending = [p \in DOMAIN @ |-> IF p \in dirs THEN <<>> ELSE @[p]],
                  !.created = @ \cup dirs,
                  !.count = @ - Len(out) - Len(l.pending[d])]

\* Mutant: of what waits for a directory only the directories are released.
MutReleaseDirs(l, d) ==
    LET out  == Released(l.pending)[d]
        dirs == {d} \cup {e.path : e \in {c \in ToSet(out) : c.dir}}
    IN  [l EXCEPT !.ready = @ \o SelectSeq(out, LAMBDA e : e.dir),
                  !.pending = [p \in DOMAIN @ |-> IF p \in dirs THEN <<>> ELSE @[p]],
                  !.created = @ \cup dirs,
                  !.count = @ - Len(out)]

\* A directory is known: release_pending_children.
Release(l, d) ==
    LET out  == Released(l.pending)[d]
        dirs == {d} \cup {e.path : e \in {c \in ToSet(out) : c.dir}}
    IN  [l EXCEPT !.ready = @ \o out,
                  !.pending = [p \in DOMAIN @ |-> IF p \in dirs THEN <<>> ELSE @[p]],
                  !.created = @ \cup dirs,
                  !.count = @ - Len(out)]

List == [ready |-> ready, pending |-> pending, created |-> created_dirs,
         count |-> entries_pending]

Becomes(l) ==
    /\ ready' = l.ready
    /\ pending' = l.pending
    /\ created_dirs' = l.created
    /\ entries_pending' = l.count

\* push
Pushed(l, e) ==
    IF ParentPath(e) \in l.created
    THEN LET k == IF e.dir THEN Release(l, e.path) ELSE l
         IN  [k EXCEPT !.ready = Append(@, e)]
    ELSE [l EXCEPT !.pending[ParentPath(e)] = Append(@, e), !.count = @ + 1]

Reading == finish.how = "open"

\* try_read_one, and one turn of the loop of next_ready.
ReadOne ==
    /\ Reading
    /\ incoming # <<>>
    /\ incoming' = Tail(incoming)
    /\ arrived' = arrived \cup {Head(incoming)}
    /\ Becomes(Pushed(List, Head(incoming)))
    /\ UNCHANGED <<yielded, marked, finish>>

\* pop, also the end of next_ready.
PopReady ==
    /\ Reading
    /\ ready # <<>>
    /\ yielded' = Append(yielded, Head(ready))
    /\ ready' = Tail(ready)
    /\ UNCHANGED <<incoming, arrived, pending, created_dirs, entries_pending, marked,
                   finish>>

DrainReadyEntries ==
    /\ Reading
    /\ Len(ready) > 1
    /\ yielded' = yielded \o ready
    /\ ready' = <<>>
    /\ UNCHANGED <<incoming, arrived, pending, created_dirs, entries_pending, marked,
                   finish>>

\* The caller finds a directory at the destination.
MarkDirectoryCreated(d) ==
    /\ Reading
    /\ marked' = marked \cup {d}
    /\ Becomes(Release(List, d))
    /\ UNCHANGED <<incoming, arrived, yielded, finish>>

\* finish: the orphans, in no particular order; what was ready is dropped.
Finish ==
    /\ Reading
    /\ finish' = [Open EXCEPT !.how = "finished"]
    /\ ready' = <<>>
    /\ UNCHANGED <<incoming, arrived, pending, created_dirs, entries_pending, yielded,
                   marked>>

\* collect_sorted: the entries not read yet go straight to the result.
CollectSorted ==
    /\ Reading
    /\ finish' = [Open EXCEPT !.how = "collected", !.resolved = ready \o incoming]
    /\ ready' = <<>>
    /\ incoming' = <<>>
    /\ arrived' = arrived \cup ToSet(incoming)
    /\ UNCHANGED <<pending, created_dirs, entries_pending, yielded, marked>>

\* Mutant: only the missing parent itself gets a placeholder, not its ancestors.
MutSynthesize(acc, path) ==
    IF path \in acc.list.created THEN acc
    ELSE [list |-> Release(acc.list, path), made |-> acc.made + 1]

\* One missing parent in finalize: its missing ancestors from the top, then itself.
Synthesize(acc, path) ==
    IF path \in acc.list.created THEN acc
    ELSE FoldLeft(LAMBDA a, q : IF q \in a.list.created THEN a
                                ELSE [list |-> Release(a.list, q), made |-> a.made + 1],
                  acc, Ancestry(path))

\* Mutant: finalize forgets what was ready and not yet popped.
MutFinalize ==
    /\ Reading
    /\ \E order \in SetToSeqs({p \in Paths : pending[p] # <<>>}) :
           /\ \A i, j \in DOMAIN order : i < j => Len(order[i]) <= Len(order[j])
           /\ \E acc \in {FoldLeft(Synthesize,
                                   [list |-> [List EXCEPT !.ready = <<>>], made |-> 0], order)} :
                  /\ Becomes([acc.list EXCEPT !.ready = <<>>])
                  /\ finish' = [how |-> "finalized", resolved |-> acc.list.ready,
                                placeholders |-> acc.made]
    /\ UNCHANGED <<incoming, arrived, yielded, marked>>

\* finalize, with the missing parents by depth, in any order at the same depth.
Finalize ==
    /\ Reading
    /\ \E order \in SetToSeqs({p \in Paths : pending[p] # <<>>}) :
           /\ \A i, j \in DOMAIN order : i < j => Len(order[i]) <= Len(order[j])
           /\ \E acc \in {FoldLeft(Synthesize,
                                   [list |-> [List EXCEPT !.ready = <<>>], made |-> 0], order)} :
                  /\ Becomes([acc.list EXCEPT !.ready = <<>>])
                  /\ finish' = [how |-> "finalized", resolved |-> ready \o acc.list.ready,
                                placeholders |-> acc.made]
    /\ UNCHANGED <<incoming, arrived, yielded, marked>>

ListNext ==
    \/ ReadOne \/ PopReady \/ DrainReadyEntries \/ Finish \/ CollectSorted \/ Finalize
    \/ \E e \in Entries : e.dir /\ marked = {} /\ MarkDirectoryCreated(e.path)

ListSpec == ListInit /\ [][ListNext]_listVars

-----------------------------------------------------------------------------
Waiting == UNION {ToSet(pending[p]) : p \in Paths}
Handed == ToSet(yielded) \cup ToSet(ready) \cup ToSet(finish.resolved)

ListTypeOK ==
    /\ created_dirs \subseteq Paths
    /\ Handed \cup Waiting \subseteq Entries
    /\ entries_pending \in Nat

\* An entry is held back exactly while its directory is unknown.  Whatever the order of
\* arrival, learning of one directory also frees what waits for the directories it frees;
\* an entry that is ready or was handed out is in a directory that the sender named or
\* the caller marked (or a placeholder of finalize); the count of held entries is right.
HeldWhileParentUnknown ==
    /\ \A p \in Paths : pending[p] # <<>> => p \notin created_dirs
    /\ \A e \in Handed : finish.how # "collected" => ParentPath(e) \in created_dirs
    /\ entries_pending = Cardinality(Waiting)
    /\ finish.how = "open" =>
           created_dirs = {Root} \cup marked \cup {e.path : e \in {h \in Handed : h.dir}}

\* Every entry that was read is held, ready or handed out, until finish drops what is
\* ready.  finalize hands out all that were not handed out before, each exactly once, and
\* holds none; every directory above one is then known up to the root (or to a marked
\* one), and the placeholders it counts are the known directories that nobody named.
FinalizeLosesNothing ==
    /\ finish.how # "finished" => Handed \cup Waiting = arrived
    /\ finish.how = "finalized" =>
        LET named == {Root} \cup marked \cup {e.path : e \in {h \in Handed : h.dir}}
            above == UNION {ToSet(Ancestry(ParentPath(e))) : e \in ToSet(finish.resolved)}
        IN  /\ ToSet(yielded \o finish.resolved) = arrived
            /\ IsInjective(yielded \o finish.resolved)
            /\ \A d \in above \ created_dirs : \E m \in marked : IsPrefix(d, m)
            /\ finish.placeholders = Cardinality(created_dirs \ named)
            /\ created_dirs \ named \subseteq above

\* What pop and next_ready say of the entry they return: its parent directory was
\* returned before (or is the root, or was marked).
ParentYieldedFirst ==
    \A i \in DOMAIN yielded :
        \/ ParentPath(yielded[i]) \in {Root} \cup marked
        \/ \E j \in 1..i - 1 : yielded[j].path = ParentPath(yielded[i])
==============================================================================
