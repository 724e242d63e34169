---------------------------- MODULE ReorderBuffer ----------------------------
(***************************************************************************)
(* The ring that turns results finished in any order back into sequence    *)
(* order (`ReorderBuffer' of the concurrent delta engine).  A buffer is a   *)
(* record; every method is an operator from the buffer before the call to   *)
(* the buffer after it.  A stored result is represented by its sequence     *)
(* number.  The statistics (depth, stall time, histograms) are left out,    *)
(* and so is the adaptive capacity policy, which the pipeline never selects. *)
(***************************************************************************)
EXTENDS Integers, Sequences

NoItem == -1    \* an empty slot
NoSlot == -1    \* slot_index refuses the sequence number

Larger(a, b) == IF a < b THEN b ELSE a
Smaller(a, b) == IF a < b THEN a ELSE b

New(capacity) ==
    [bypass |-> FALSE, slots |-> [i \in 0..capacity - 1 |-> NoItem], head |-> 0,
     next |-> 0, count |-> 0, capacity |-> capacity, high |-> 0, queue |-> << >>]

Passthrough == [New(0) EXCEPT !.bypass = TRUE]

\* The slot i places after the head.
SlotAt(b, i) == (b.head + i) % b.capacity

\* An off-by-one at the end of the window: the slot one past it is the head's.
MutSlotIndex(b, s) ==
    IF s < b.next \/ s - b.next > b.capacity THEN NoSlot
    ELSE SlotAt(b, s - b.next)

SlotIndex(b, s) ==
    IF s < b.next \/ s - b.next >= b.capacity THEN NoSlot
    ELSE SlotAt(b, s - b.next)

\* The slots are copied without turning the head to the front.
MutResizeTo(b, n) ==
    [b EXCEPT !.slots = [i \in 0..n - 1 |->
                            IF i < b.capacity THEN b.slots[i] ELSE NoItem],
              !.head = 0, !.capacity = n]

\* The first Smaller(capacity, n) slots, taken from the head on, go to the front
\* of a new array.
ResizeTo(b, n) ==
    [b EXCEPT !.slots = [i \in 0..n - 1 |->
                            IF i < b.capacity THEN b.slots[SlotAt(b, i)] ELSE NoItem],
              !.head = 0, !.capacity = n]

Grow(b, least) == ResizeTo(b, Larger(least, 2 * b.capacity))

\* Store s in slot i, which may already hold it.
Place(b, i, s) ==
    [b EXCEPT !.slots[i] = s,
              !.count = IF b.slots[i] = NoItem THEN @ + 1 ELSE @,
              !.high = Larger(@, (s - b.next) + 1)]

Enqueue(b, s) == [b EXCEPT !.queue = Append(@, s), !.count = @ + 1]

\* insert succeeds (otherwise it returns CapacityExceeded and changes nothing).
Accepts(b, s) == b.bypass \/ SlotIndex(b, s) # NoSlot

Insert(b, s) == IF b.bypass THEN Enqueue(b, s) ELSE Place(b, SlotIndex(b, s), s)

\* A result past the window makes the ring grow; a stale one is dropped.
ForceInsert(b, s) ==
    IF b.bypass THEN Enqueue(b, s)
    ELSE IF SlotIndex(b, s) # NoSlot THEN Place(b, SlotIndex(b, s), s)
    ELSE IF s >= b.next
         THEN LET g == Grow(b, (s - b.next) + 1)
              IN  Place(g, SlotAt(g, s - g.next), s)
         ELSE b

\* next_in_order yields something, what it yields, and the buffer it leaves.
Ready(b) == IF b.bypass THEN b.queue # << >> ELSE b.slots[b.head] # NoItem

HeadItem(b) == IF b.bypass THEN Head(b.queue) ELSE b.slots[b.head]

\* The head does not wrap around.
MutAdvance(b) ==
    IF b.bypass
    THEN [b EXCEPT !.queue = Tail(@), !.count = @ - 1, !.next = @ + 1]
    ELSE [b EXCEPT !.slots[b.head] = NoItem,
                   !.head = @ + 1,
                   !.next = @ + 1,
                   !.count = @ - 1,
                   !.high = IF b.count = 1 \/ @ = 0 THEN 0 ELSE @ - 1]

NextInOrder(b) ==
    IF b.bypass
    THEN [b EXCEPT !.queue = Tail(@), !.count = @ - 1, !.next = @ + 1]
    ELSE [b EXCEPT !.slots[b.head] = NoItem,
                   !.head = (@ + 1) % b.capacity,
                   !.next = @ + 1,
                   !.count = @ - 1,
                   !.high = IF b.count = 1 \/ @ = 0 THEN 0 ELSE @ - 1]

-----------------------------------------------------------------------------
\* The sequence numbers a buffer holds.
Held(b) == IF b.bypass THEN {b.queue[i] : i \in 1..Len(b.queue)}
           ELSE {b.slots[i] : i \in 0..b.capacity - 1} \ {NoItem}

Fields == {"bypass", "slots", "head", "next", "count", "capacity", "high", "queue"}

\* The slot i places after the head holds nothing or the i-th expected result.
RingOK(b) ==
    /\ DOMAIN b = Fields
    /\ b.capacity \in Nat \ {0}
    /\ b.head \in 0..b.capacity - 1
    /\ b.next \in Nat
    /\ b.slots \in [0..b.capacity - 1 -> Int]
    /\ \A i \in 0..b.capacity - 1 : b.slots[SlotAt(b, i)] \in {NoItem, b.next + i}
=============================================================================
