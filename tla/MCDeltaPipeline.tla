-------------------------- MODULE MCDeltaPipeline --------------------------
(* The delta pipeline with at most five items.  A fixed queue of two fills  *)
(* its ring and its stream; a dynamic one moves its ceiling between two and *)
(* four.  A pool that may panic covers the pool that does not.              *)
EXTENDS DeltaPipeline

Pipe(items, dynamic, bypass, panics, threads, threshold) ==
    [items |-> items, dynamic |-> dynamic, bypass |-> bypass, panics |-> panics,
     capacity |-> 2, threads |-> threads, threshold |-> threshold]

GoodConfigs ==
    {Pipe(5, FALSE, FALSE, FALSE, 2, 1),   \* the stream can fill
     Pipe(4, FALSE, FALSE, TRUE, 3, 3),
     Pipe(4, FALSE, FALSE, FALSE, 1, 2),   \* tasks wait for the end of the queue
     Pipe(3, FALSE, TRUE, TRUE, 2, 2),
     Pipe(4, TRUE, FALSE, TRUE, 2, 2),
     Pipe(3, TRUE, FALSE, FALSE, 3, 1),
     Pipe(3, TRUE, TRUE, FALSE, 2, 1)}

\* The adaptive default on a machine with one processor.
OneThread == {Pipe(4, TRUE, FALSE, FALSE, 1, 1)}
=============================================================================
