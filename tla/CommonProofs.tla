---------------------------- MODULE CommonProofs ----------------------------
(***************************************************************************)
(* What several proofs rest on: the operations of the reorder buffer, for    *)
(* every capacity (the slot i places after the head holds nothing or the     *)
(* i-th result still due, RingOK, and what leaves is the result that is      *)
(* due), the least element of a set of naturals, which stands for induction, *)
(* and with it the laws of a sum over a finite set.                          *)
(***************************************************************************)
EXTENDS ReorderBuffer, FiniteSetsExt, FiniteSetTheorems, TLAPS

\* The leaves are tried with Zenon unless they name another prover.
USE Zenon

(* The arithmetic of one turn around the ring *)

\* A place of the window is in the array as it is, or one turn further.
LEMMA Turn ==
  ASSUME NEW c \in Nat \ {0}, NEW h \in 0..c - 1, NEW i \in 0..c
  PROVE  /\ h + i < c => (h + i) % c = h + i
         /\ h + i >= c => (h + i) % c = (h + i) - c
         /\ (h + i) % c \in 0..c - 1
  BY SMTT(60)

\* Two places of the window share a slot only if they are the same place: what
\* insert writes is never what another result occupies.
LEMMA SlotsDistinct ==
  ASSUME NEW c \in Nat \ {0}, NEW h \in 0..c - 1,
         NEW i \in 0..c - 1, NEW j \in 0..c - 1,
         (h + i) % c = (h + j) % c
  PROVE  i = j
<1>1. i \in 0..c /\ j \in 0..c
  BY SMTT(60)
<1>2. /\ h + i < c => (h + i) % c = h + i
      /\ h + i >= c => (h + i) % c = (h + i) - c
  BY <1>1, Turn
<1>3. /\ h + j < c => (h + j) % c = h + j
      /\ h + j >= c => (h + j) % c = (h + j) - c
  BY <1>1, Turn
<1>4. QED
  BY <1>2, <1>3, SMTT(60)

\* Advancing the head by one turns the i-th place into what was the (i+1)-st; the
\* slot that was the head's becomes the last place.
LEMMA SlotAfterHead ==
  ASSUME NEW c \in Nat \ {0}, NEW h \in 0..c - 1, NEW i \in 0..c - 1
  PROVE  /\ (h + 1) % c \in 0..c - 1
         /\ i < c - 1 => (((h + 1) % c) + i) % c = (h + (i + 1)) % c
         /\ i = c - 1 => (((h + 1) % c) + i) % c = h
<1> DEFINE g == (h + 1) % c
<1>1. 1 \in 0..c /\ i \in 0..c /\ i + 1 \in 0..c
  BY SMTT(60)
<1>2. /\ h + 1 < c => g = h + 1
      /\ h + 1 >= c => g = (h + 1) - c
      /\ g \in 0..c - 1
  BY <1>1, Turn
<1>3. /\ h + (i + 1) < c => (h + (i + 1)) % c = h + (i + 1)
      /\ h + (i + 1) >= c => (h + (i + 1)) % c = (h + (i + 1)) - c
  BY <1>1, Turn
<1> HIDE DEF g
<1>4. /\ g + i < c => (g + i) % c = g + i
      /\ g + i >= c => (g + i) % c = (g + i) - c
  BY <1>1, <1>2, Turn
<1>5. i < c - 1 => (g + i) % c = (h + (i + 1)) % c
  BY <1>2, <1>3, <1>4, SMTT(60)
<1>6. i = c - 1 => (g + i) % c = h
  BY <1>2, <1>4, SMTT(60)
<1>7. QED
  BY <1>2, <1>5, <1>6 DEF g

\* The next place of the window and the next sequence number go together.
LEMMA Shift ==
  ASSUME NEW n \in Nat, NEW i \in Nat
  PROVE  n + (i + 1) = (n + 1) + i
  BY SMTT(60)

-----------------------------------------------------------------------------
(* Every operation of the buffer keeps the ring in order *)

\* The slots of a ring that is in order, place by place.
LEMMA RingFacts ==
  ASSUME NEW b, RingOK(b)
  PROVE  /\ b.capacity \in Nat \ {0} /\ b.head \in 0..b.capacity - 1 /\ b.next \in Nat
         /\ b.slots \in [0..b.capacity - 1 -> Int]
         /\ \A i \in 0..b.capacity - 1 : /\ SlotAt(b, i) \in 0..b.capacity - 1
                                         /\ b.slots[SlotAt(b, i)] \in {NoItem, b.next + i}
<1>1. /\ b.capacity \in Nat \ {0} /\ b.head \in 0..b.capacity - 1 /\ b.next \in Nat
      /\ b.slots \in [0..b.capacity - 1 -> Int]
      /\ \A i \in 0..b.capacity - 1 : b.slots[SlotAt(b, i)] \in {NoItem, b.next + i}
  BY DEF RingOK
<1>2. ASSUME NEW i \in 0..b.capacity - 1
      PROVE  SlotAt(b, i) \in 0..b.capacity - 1
  <2>1. i \in 0..b.capacity
    BY <1>1, SMTT(60)
  <2>2. QED
    BY <1>1, <2>1, Turn DEF SlotAt
<1>3. QED
  BY <1>1, <1>2

\* The empty ring is in order.
LEMMA NewInOrder ==
  ASSUME NEW n \in Nat \ {0}
  PROVE  RingOK(New(n)) /\ New(n).next = 0 /\ New(n).bypass = FALSE
<1>1. /\ DOMAIN New(n) = Fields /\ New(n).capacity = n /\ New(n).head = 0
      /\ New(n).next = 0 /\ New(n).bypass = FALSE
      /\ New(n).slots = [i \in 0..n - 1 |-> NoItem]
  BY DEF New, Fields
<1>2. New(n).slots \in [0..n - 1 -> Int]
  BY <1>1, SMTT(60) DEF NoItem
<1>3. ASSUME NEW i \in 0..n - 1
      PROVE  New(n).slots[SlotAt(New(n), i)] = NoItem
  <2>1. 0 \in 0..n - 1 /\ i \in 0..n
    BY SMTT(60)
  <2>2. (0 + i) % n \in 0..n - 1
    BY <2>1, Turn
  <2>3. SlotAt(New(n), i) = (0 + i) % n
    BY <1>1 DEF SlotAt
  <2>4. QED
    BY <1>1, <2>2, <2>3
<1>4. QED
  BY <1>1, <1>2, <1>3, SMTT(60) DEF RingOK

\* Storing a result in the slot of its sequence number.
LEMMA PlaceKeepsOrder ==
  ASSUME NEW b, RingOK(b), NEW s \in Nat,
         b.next <= s, s - b.next < b.capacity
  PROVE  LET p == Place(b, SlotAt(b, s - b.next), s)
         IN  RingOK(p) /\ p.next = b.next /\ p.bypass = b.bypass
<1> DEFINE o == s - b.next
           k == SlotAt(b, o)
           p == Place(b, k, s)
<1>1. /\ b.capacity \in Nat \ {0} /\ b.head \in 0..b.capacity - 1 /\ b.next \in Nat
      /\ b.slots \in [0..b.capacity - 1 -> Int]
  BY RingFacts
<1>2. o \in 0..b.capacity - 1 /\ s = b.next + o
  BY <1>1, SMTT(60)
<1>3. k \in 0..b.capacity - 1
  BY <1>2, RingFacts
<1> HIDE DEF k, o
<1>4. /\ DOMAIN p = Fields /\ p.head = b.head /\ p.next = b.next
      /\ p.capacity = b.capacity /\ p.bypass = b.bypass
      /\ p.slots = [b.slots EXCEPT ![k] = s]
  BY DEF RingOK, Place, Fields
<1> HIDE DEF p
<1>5. p.slots \in [0..b.capacity - 1 -> Int]
  BY <1>1, <1>3, <1>4, SMTT(60)
<1>6. ASSUME NEW i \in 0..b.capacity - 1
      PROVE  p.slots[SlotAt(p, i)] \in {NoItem, p.next + i}
  <2>1. SlotAt(p, i) = SlotAt(b, i)
    BY <1>4 DEF SlotAt
  <2>2. SlotAt(b, i) \in 0..b.capacity - 1 /\ b.slots[SlotAt(b, i)] \in {NoItem, b.next + i}
    BY RingFacts
  <2>3. CASE SlotAt(b, i) = k
    <3>1. (b.head + i) % b.capacity = (b.head + o) % b.capacity
      BY <2>3 DEF SlotAt, k
    <3>2. i = o
      BY <1>1, <1>2, <3>1, SlotsDistinct
    <3>3. p.slots[k] = s
      BY <1>1, <1>3, <1>4
    <3>4. QED
      BY <1>2, <1>4, <2>1, <2>3, <3>2, <3>3
  <2>4. CASE SlotAt(b, i) # k
    <3>1. p.slots[SlotAt(b, i)] = b.slots[SlotAt(b, i)]
      BY <1>1, <1>4, <2>2, <2>4
    <3>2. QED
      BY <1>4, <2>1, <2>2, <3>1
  <2>5. QED
    BY <2>3, <2>4
<1>7. RingOK(p)
  BY <1>1, <1>4, <1>5, <1>6 DEF RingOK
<1>8. QED
  BY <1>4, <1>7 DEF p, k, o

\* insert, when the sequence number has a slot.
LEMMA InsertKeepsOrder ==
  ASSUME NEW b, RingOK(b), ~b.bypass, NEW s \in Int, Accepts(b, s)
  PROVE  RingOK(Insert(b, s)) /\ Insert(b, s).next = b.next
           /\ Insert(b, s).bypass = b.bypass
<1>1. b.next \in Nat /\ b.capacity \in Nat
  BY RingFacts
<1>2. b.next <= s /\ s - b.next < b.capacity /\ s \in Nat
  BY <1>1, SMTT(60) DEF Accepts, SlotIndex
<1>3. Insert(b, s) = Place(b, SlotAt(b, s - b.next), s)
  BY <1>1, <1>2, SMTT(60) DEF Insert, SlotIndex
<1>4. QED
  BY <1>2, <1>3, PlaceKeepsOrder

\* Growing copies the window to the front of the new array, nothing left behind.
LEMMA GrowKeepsOrder ==
  ASSUME NEW b, RingOK(b), NEW n \in Nat
  PROVE  /\ RingOK(Grow(b, n))
         /\ Grow(b, n).next = b.next
         /\ Grow(b, n).bypass = b.bypass
         /\ n <= Grow(b, n).capacity
<1> DEFINE m == Larger(n, 2 * b.capacity)
           g == ResizeTo(b, m)
<1>1. /\ b.capacity \in Nat \ {0} /\ b.head \in 0..b.capacity - 1 /\ b.next \in Nat
      /\ b.slots \in [0..b.capacity - 1 -> Int]
  BY RingFacts
<1>2. m \in Nat \ {0} /\ n <= m /\ b.capacity <= m
  BY <1>1, SMTT(60) DEF Larger
<1> HIDE DEF m
<1>3. /\ DOMAIN g = Fields /\ g.head = 0 /\ g.next = b.next /\ g.capacity = m
      /\ g.bypass = b.bypass
      /\ g.slots = [i \in 0..m - 1 |-> IF i < b.capacity THEN b.slots[SlotAt(b, i)]
                                                         ELSE NoItem]
  BY DEF RingOK, ResizeTo, Fields
<1> HIDE DEF g
<1>4. ASSUME NEW i \in 0..m - 1
      PROVE  g.slots[i] \in {NoItem, b.next + i}
  <2>1. CASE i < b.capacity
    <3>1. i \in 0..b.capacity - 1
      BY <1>1, <1>2, <2>1, SMTT(60)
    <3>2. b.slots[SlotAt(b, i)] \in {NoItem, b.next + i}
      BY <3>1, RingFacts
    <3>3. g.slots[i] = b.slots[SlotAt(b, i)]
      BY <1>3, <2>1
    <3>4. QED
      BY <3>2, <3>3
  <2>2. CASE ~(i < b.capacity)
    BY <1>3, <2>2
  <2>3. QED
    BY <2>1, <2>2
<1>5. g.slots \in [0..m - 1 -> Int]
  <2>1. \A i \in 0..m - 1 : g.slots[i] \in Int
    BY <1>1, <1>2, <1>4, SMTT(60) DEF NoItem
  <2>2. QED
    BY <1>3, <2>1
<1>6. ASSUME NEW i \in 0..m - 1
      PROVE  g.slots[SlotAt(g, i)] \in {NoItem, g.next + i}
  <2>1. 0 \in 0..m - 1 /\ i \in 0..m /\ 0 + i < m /\ 0 + i = i
    BY <1>2, SMTT(60)
  <2>2. (0 + i) % m = 0 + i
    BY <1>2, <2>1, Turn
  <2>3. SlotAt(g, i) = i
    BY <1>3, <2>1, <2>2 DEF SlotAt
  <2>4. QED
    BY <1>3, <1>4, <2>3
<1>7. g.capacity \in Nat \ {0} /\ g.head \in 0..g.capacity - 1 /\ g.next \in Nat
  BY <1>1, <1>2, <1>3, SMTT(60)
<1>8. RingOK(g)
  BY <1>3, <1>5, <1>6, <1>7 DEF RingOK
<1>9. QED
  BY <1>2, <1>3, <1>8 DEF Grow, g, m

\* force_insert: in its slot, after growing, or not at all when it is stale.
LEMMA ForceKeepsOrder ==
  ASSUME NEW b, RingOK(b), ~b.bypass, NEW s \in Int
  PROVE  RingOK(ForceInsert(b, s)) /\ ForceInsert(b, s).next = b.next
           /\ ForceInsert(b, s).bypass = b.bypass
<1>1. b.next \in Nat /\ b.capacity \in Nat
  BY RingFacts
<1>2. CASE SlotIndex(b, s) # NoSlot
  <2>1. ForceInsert(b, s) = Insert(b, s) /\ Accepts(b, s)
    BY <1>2 DEF ForceInsert, Insert, Accepts
  <2>2. QED
    BY <2>1, InsertKeepsOrder
<1>3. CASE SlotIndex(b, s) = NoSlot /\ s >= b.next
  <2> DEFINE n == (s - b.next) + 1
             g == Grow(b, n)
  <2>1. n \in Nat /\ s \in Nat
    BY <1>1, <1>3, SMTT(60)
  <2>2. RingOK(g) /\ g.next = b.next /\ g.bypass = b.bypass /\ n <= g.capacity
    BY <2>1, GrowKeepsOrder
  <2>3. ForceInsert(b, s) = Place(g, SlotAt(g, s - g.next), s)
    BY <1>3 DEF ForceInsert
  <2> HIDE DEF g
  <2>4. g.capacity \in Nat /\ g.next <= s /\ s - g.next < g.capacity
    BY <1>1, <1>3, <2>1, <2>2, RingFacts, SMTT(60)
  <2>5. QED
    BY <2>1, <2>2, <2>3, <2>4, PlaceKeepsOrder, ZenonT(60)
<1>4. CASE SlotIndex(b, s) = NoSlot /\ ~(s >= b.next)
  BY <1>4 DEF ForceInsert
<1>5. QED
  BY <1>2, <1>3, <1>4

\* next_in_order yields the result that is due and moves the window by one.
LEMMA NextKeepsOrder ==
  ASSUME NEW b, RingOK(b), ~b.bypass, Ready(b)
  PROVE  /\ HeadItem(b) = b.next
         /\ RingOK(NextInOrder(b))
         /\ NextInOrder(b).next = b.next + 1
         /\ NextInOrder(b).bypass = b.bypass
<1> DEFINE c == b.capacity
           h == b.head
           p == NextInOrder(b)
<1>1. c \in Nat \ {0} /\ h \in 0..c - 1 /\ b.next \in Nat /\ b.slots \in [0..c - 1 -> Int]
  BY RingFacts
<1>2. HeadItem(b) = b.next
  <2>1. 0 \in 0..c - 1 /\ 0 \in 0..c /\ h + 0 < c /\ h + 0 = h
    BY <1>1, SMTT(60)
  <2>2. (h + 0) % c = h + 0
    BY <1>1, <2>1, Turn
  <2>3. SlotAt(b, 0) = h
    BY <2>1, <2>2 DEF SlotAt
  <2>4. b.slots[SlotAt(b, 0)] \in {NoItem, b.next + 0}
    BY <2>1, RingFacts
  <2>5. QED
    BY <1>1, <2>3, <2>4, SMTT(60) DEF Ready, HeadItem
<1>3. /\ DOMAIN p = Fields /\ p.capacity = c /\ p.bypass = b.bypass
      /\ p.slots = [b.slots EXCEPT ![h] = NoItem]
  BY DEF RingOK, NextInOrder, Fields
<1>4. p.next = b.next + 1
  BY DEF RingOK, NextInOrder, Fields
<1>5. p.head = (h + 1) % c
  BY DEF RingOK, NextInOrder, Fields
<1> HIDE DEF p
<1>6. p.head \in 0..c - 1
  <2>1. 1 \in 0..c
    BY <1>1, SMTT(60)
  <2>2. (h + 1) % c \in 0..c - 1
    BY <1>1, <2>1, Turn
  <2>3. QED
    BY <1>5, <2>2
<1>7. p.slots \in [0..c - 1 -> Int]
  BY <1>1, <1>3, SMTT(60) DEF NoItem
<1>8. ASSUME NEW i \in 0..c - 1
      PROVE  p.slots[SlotAt(p, i)] \in {NoItem, p.next + i}
  <2>1. SlotAt(p, i) = (((h + 1) % c) + i) % c
    BY <1>3, <1>5 DEF SlotAt
  <2>2. CASE i = c - 1
    <3>1. (((h + 1) % c) + i) % c = h
      BY <1>1, <2>2, SlotAfterHead
    <3>2. p.slots[h] = NoItem
      BY <1>1, <1>3
    <3>3. QED
      BY <2>1, <3>1, <3>2
  <2>3. CASE i < c - 1
    <3>1. (((h + 1) % c) + i) % c = (h + (i + 1)) % c
      BY <1>1, <2>3, SlotAfterHead
    <3>2. SlotAt(p, i) = SlotAt(b, i + 1)
      BY <2>1, <3>1 DEF SlotAt
    <3>3. i + 1 \in 0..c - 1
      BY <1>1, <2>3, SMTT(60)
    <3>4. /\ SlotAt(b, i + 1) \in 0..c - 1
          /\ b.slots[SlotAt(b, i + 1)] \in {NoItem, b.next + (i + 1)}
      BY <3>3, RingFacts
    <3>5. p.slots[SlotAt(b, i + 1)] \in {NoItem, b.slots[SlotAt(b, i + 1)]}
      BY <1>1, <1>3, <3>4
    <3>6. i \in Nat /\ b.next \in Nat
      BY <1>1, SMTT(60)
    <3>7. b.next + (i + 1) = (b.next + 1) + i
      BY <3>6, Shift
    <3>8. QED
      BY <1>4, <3>2, <3>4, <3>5, <3>7
  <2>4. QED
    BY <1>1, <2>2, <2>3, SMTT(60)
<1>9. RingOK(p)
  <2>1. p.next \in Nat
    BY <1>1, <1>4, SMTT(60)
  <2>2. QED
    BY <1>1, <1>3, <1>6, <1>7, <1>8, <2>1 DEF RingOK
<1>10. QED
  BY <1>2, <1>3, <1>4, <1>9 DEF p
-----------------------------------------------------------------------------
(* What the buffer holds, operation by operation *)

\* Every slot of the array is some place of the window.
LEMMA SlotsCovered ==
  ASSUME NEW c \in Nat \ {0}, NEW h \in 0..c - 1, NEW j \in 0..c - 1
  PROVE  \E i \in 0..c - 1 : (h + i) % c = j
<1> DEFINE i == IF h <= j THEN j - h ELSE (j - h) + c
<1>1. i \in 0..c - 1 /\ i \in 0..c
  BY SMTT(60)
<1>2. /\ h + i < c => (h + i) % c = h + i
      /\ h + i >= c => (h + i) % c = (h + i) - c
  BY <1>1, Turn
<1>3. (h + i < c /\ h + i = j) \/ (h + i >= c /\ (h + i) - c = j)
  BY SMTT(60)
<1>4. QED
  BY <1>1, <1>2, <1>3

\* A ring in order holds s exactly when s has a slot and the slot is filled.
LEMMA HeldMeansSlot ==
  ASSUME NEW b, RingOK(b), ~b.bypass, NEW s \in Held(b)
  PROVE  /\ s \in Nat /\ b.next <= s /\ s - b.next < b.capacity
         /\ b.slots[SlotAt(b, s - b.next)] = s
<1>1. /\ b.capacity \in Nat \ {0} /\ b.head \in 0..b.capacity - 1 /\ b.next \in Nat
      /\ b.slots \in [0..b.capacity - 1 -> Int]
  BY RingFacts
<1>2. PICK j \in 0..b.capacity - 1 : b.slots[j] = s /\ s # NoItem
  BY DEF Held
<1>3. PICK i \in 0..b.capacity - 1 : SlotAt(b, i) = j
  BY <1>1, SlotsCovered DEF SlotAt
<1>4. s = b.next + i
  <2>1. b.slots[SlotAt(b, i)] \in {NoItem, b.next + i}
    BY RingFacts
  <2>2. QED
    BY <1>2, <1>3, <2>1
<1>5. s \in Nat /\ b.next <= s /\ s - b.next < b.capacity /\ s - b.next = i
  BY <1>1, <1>4, SMTT(60)
<1>6. QED
  BY <1>2, <1>3, <1>5

\* Storing a result adds it and removes nothing.
LEMMA PlaceHolds ==
  ASSUME NEW b, RingOK(b), ~b.bypass, NEW s \in Nat,
         b.next <= s, s - b.next < b.capacity
  PROVE  Held(Place(b, SlotAt(b, s - b.next), s)) = Held(b) \cup {s}
<1> DEFINE o == s - b.next
           k == SlotAt(b, o)
           p == Place(b, k, s)
<1>1. /\ b.capacity \in Nat \ {0} /\ b.next \in Nat
      /\ b.slots \in [0..b.capacity - 1 -> Int]
  BY RingFacts
<1>2. o \in 0..b.capacity - 1 /\ s = b.next + o
  BY <1>1, SMTT(60)
<1>3. k \in 0..b.capacity - 1 /\ b.slots[k] \in {NoItem, s}
  BY <1>2, RingFacts
<1> HIDE DEF k, o
<1>4. /\ p.capacity = b.capacity /\ p.bypass = b.bypass
      /\ p.slots = [b.slots EXCEPT ![k] = s]
  BY DEF RingOK, Place, Fields
<1> HIDE DEF p
<1>5. s # NoItem
  BY SMTT(60) DEF NoItem
<1>6. /\ Held(p) = {p.slots[i] : i \in 0..b.capacity - 1} \ {NoItem}
      /\ Held(b) = {b.slots[i] : i \in 0..b.capacity - 1} \ {NoItem}
  BY <1>4 DEF Held
<1>7. p.slots[k] = s /\ \A i \in 0..b.capacity - 1 : i # k => p.slots[i] = b.slots[i]
  BY <1>1, <1>3, <1>4
<1>8. Held(p) = Held(b) \cup {s}
  BY <1>3, <1>5, <1>6, <1>7
<1>9. QED
  BY <1>8 DEF p, k, o

\* insert adds the result.
LEMMA InsertHolds ==
  ASSUME NEW b, RingOK(b), ~b.bypass, NEW s \in Int, Accepts(b, s)
  PROVE  Held(Insert(b, s)) = Held(b) \cup {s}
<1>1. b.next \in Nat /\ b.capacity \in Nat
  BY RingFacts
<1>2. b.next <= s /\ s - b.next < b.capacity /\ s \in Nat
  BY <1>1, SMTT(60) DEF Accepts, SlotIndex
<1>3. Insert(b, s) = Place(b, SlotAt(b, s - b.next), s)
  BY <1>1, <1>2, SMTT(60) DEF Insert, SlotIndex
<1>4. QED
  BY <1>2, <1>3, PlaceHolds

\* Growing keeps what the ring holds.
LEMMA GrowHolds ==
  ASSUME NEW b, RingOK(b), ~b.bypass, NEW n \in Nat
  PROVE  Held(Grow(b, n)) = Held(b)
<1> DEFINE m == Larger(n, 2 * b.capacity)
           g == ResizeTo(b, m)
           c == b.capacity
<1>1. c \in Nat \ {0} /\ b.head \in 0..c - 1 /\ b.slots \in [0..c - 1 -> Int]
  BY RingFacts
<1>2. m \in Nat \ {0} /\ c <= m
  BY <1>1, SMTT(60) DEF Larger
<1> HIDE DEF m
<1>3. /\ g.capacity = m /\ g.bypass = b.bypass
      /\ g.slots = [i \in 0..m - 1 |-> IF i < c THEN b.slots[SlotAt(b, i)] ELSE NoItem]
  BY DEF RingOK, ResizeTo, Fields
<1> HIDE DEF g
<1>4. /\ Held(g) = {g.slots[i] : i \in 0..m - 1} \ {NoItem}
      /\ Held(b) = {b.slots[i] : i \in 0..c - 1} \ {NoItem}
  BY <1>3 DEF Held
<1>5. ASSUME NEW x \in Held(b)
      PROVE  x \in Held(g)
  <2>1. PICK j \in 0..c - 1 : b.slots[j] = x /\ x # NoItem
    BY <1>4
  <2>2. PICK i \in 0..c - 1 : SlotAt(b, i) = j
    BY <1>1, SlotsCovered DEF SlotAt
  <2>3. i \in 0..m - 1 /\ g.slots[i] = x
    BY <1>1, <1>2, <1>3, <2>1, <2>2, SMTT(60)
  <2>4. QED
    BY <1>4, <2>1, <2>3
<1>6. ASSUME NEW x \in Held(g)
      PROVE  x \in Held(b)
  <2>1. PICK i \in 0..m - 1 : g.slots[i] = x /\ x # NoItem
    BY <1>4
  <2>2. i < c /\ x = b.slots[SlotAt(b, i)] /\ i \in 0..c - 1
    BY <1>1, <1>3, <2>1, SMTT(60)
  <2>3. SlotAt(b, i) \in 0..c - 1
    BY <2>2, RingFacts
  <2>4. QED
    BY <1>4, <2>1, <2>2, <2>3
<1>7. QED
  BY <1>5, <1>6 DEF Grow, g, m

\* force_insert adds the result unless it is stale.
LEMMA ForceHolds ==
  ASSUME NEW b, RingOK(b), ~b.bypass, NEW s \in Int, b.next <= s
  PROVE  Held(ForceInsert(b, s)) = Held(b) \cup {s}
<1>1. b.next \in Nat /\ b.capacity \in Nat
  BY RingFacts
<1>2. CASE SlotIndex(b, s) # NoSlot
  <2>1. ForceInsert(b, s) = Insert(b, s) /\ Accepts(b, s)
    BY <1>2 DEF ForceInsert, Insert, Accepts
  <2>2. QED
    BY <2>1, InsertHolds
<1>3. CASE SlotIndex(b, s) = NoSlot
  <2> DEFINE n == (s - b.next) + 1
             g == Grow(b, n)
  <2>1. n \in Nat /\ s \in Nat
    BY <1>1, <1>3, SMTT(60)
  <2>2. RingOK(g) /\ g.next = b.next /\ g.bypass = b.bypass /\ n <= g.capacity
    BY <2>1, GrowKeepsOrder
  <2>3. ForceInsert(b, s) = Place(g, SlotAt(g, s - g.next), s)
    BY <1>1, <1>3 DEF ForceInsert
  <2>4. Held(g) = Held(b)
    BY <2>1, GrowHolds
  <2> HIDE DEF g
  <2>5. g.capacity \in Nat /\ g.next <= s /\ s - g.next < g.capacity
    BY <1>1, <1>3, <2>1, <2>2, RingFacts, SMTT(60)
  <2>6. QED
    BY <2>1, <2>2, <2>3, <2>4, <2>5, PlaceHolds
<1>4. QED
  BY <1>2, <1>3

\* next_in_order removes the result that is due and nothing else; a ring that has
\* nothing ready does not hold it.
LEMMA NextHolds ==
  ASSUME NEW b, RingOK(b), ~b.bypass
  PROVE  /\ Ready(b) <=> b.next \in Held(b)
         /\ Ready(b) => Held(NextInOrder(b)) = Held(b) \ {b.next}
<1> DEFINE c == b.capacity
           h == b.head
           p == NextInOrder(b)
<1>1. c \in Nat \ {0} /\ h \in 0..c - 1 /\ b.next \in Nat /\ b.slots \in [0..c - 1 -> Int]
  BY RingFacts
<1>2. SlotAt(b, 0) = h /\ b.slots[h] \in {NoItem, b.next}
  <2>1. 0 \in 0..c - 1 /\ 0 \in 0..c /\ h + 0 < c /\ h + 0 = h /\ b.next + 0 = b.next
    BY <1>1, SMTT(60)
  <2>2. (h + 0) % c = h + 0
    BY <1>1, <2>1, Turn
  <2>3. SlotAt(b, 0) = h
    BY <2>1, <2>2 DEF SlotAt
  <2>4. b.slots[SlotAt(b, 0)] \in {NoItem, b.next + 0}
    BY <2>1, RingFacts
  <2>5. QED
    BY <2>1, <2>3, <2>4
<1>3. Held(b) = {b.slots[i] : i \in 0..c - 1} \ {NoItem} /\ b.next # NoItem
  BY <1>1, SMTT(60) DEF Held, NoItem
<1>4. Ready(b) => b.next \in Held(b)
  BY <1>1, <1>2, <1>3 DEF Ready
<1>5. ASSUME NEW j \in 0..c - 1, b.slots[j] = b.next
      PROVE  j = h
  <2>1. b.next \in Held(b)
    BY <1>3, <1>5
  <2>2. PICK i \in 0..c - 1 : SlotAt(b, i) = j
    BY <1>1, SlotsCovered DEF SlotAt
  <2>3. b.slots[SlotAt(b, i)] \in {NoItem, b.next + i}
    BY RingFacts
  <2>4. i = 0
    BY <1>1, <1>3, <1>5, <2>2, <2>3, SMTT(60)
  <2>5. QED
    BY <1>2, <2>2, <2>4
<1>6. b.next \in Held(b) => Ready(b)
  BY <1>3, <1>5 DEF Ready
<1>7. ASSUME Ready(b)
      PROVE  Held(p) = Held(b) \ {b.next}
  <2>1. p.capacity = c /\ p.bypass = b.bypass /\ p.slots = [b.slots EXCEPT ![h] = NoItem]
    BY DEF RingOK, NextInOrder, Fields
  <2> HIDE DEF p
  <2>2. Held(p) = {p.slots[i] : i \in 0..c - 1} \ {NoItem}
    BY <2>1 DEF Held
  <2>3. b.slots[h] = b.next
    BY <1>2, <1>7 DEF Ready
  <2>4. p.slots[h] = NoItem /\ \A i \in 0..c - 1 : i # h => p.slots[i] = b.slots[i]
    BY <1>1, <2>1
  <2>5. \A x : x \in Held(p) => x \in Held(b) \ {b.next}
    BY <1>3, <1>5, <2>2, <2>4, ZenonT(60)
  <2>6. \A x : x \in Held(b) \ {b.next} => x \in Held(p)
    BY <1>3, <2>2, <2>3, <2>4, ZenonT(60)
  <2>7. QED
    BY <2>5, <2>6
<1>8. QED
  BY <1>4, <1>6, <1>7

-----------------------------------------------------------------------------
(* Induction, and sums over finite sets *)

\* A non-empty set of naturals has a least element.
LEMMA Least ==
  ASSUME NEW T, T \subseteq Nat, T # {}
  PROVE  \E x \in T : \A y \in T : x <= y
<1> DEFINE R == {ss \in Nat \X Nat : ss[1] < ss[2]}
<1>1. IsWellFoundedOn(R, Nat)
  BY NatLessThanWellFounded DEF OpToRel
<1>2. PICK x \in T : \A y \in T : <<y, x>> \notin R
  <2> HIDE DEF R
  <2>1. QED
    BY <1>1, WFMin
<1>3. ASSUME NEW y \in T
      PROVE  x <= y
  <2>1. <<y, x>> \notin R /\ x \in Nat /\ y \in Nat
    BY <1>2
  <2>2. QED
    BY <2>1, SMTT(60)
<1>4. QED
  BY <1>2, <1>3

\* F is the function that MapThenSumSet computes the sum of f over the finite set
\* S with.
SumsUp(F, f, S) ==
    /\ IsFiniteSet(S)
    /\ \A x \in S : f[x] \in Nat
    /\ F = [s \in SUBSET S |->
              IF s = {} THEN 0
              ELSE f[CHOOSE x \in s : TRUE] + F[s \ {CHOOSE x \in s : TRUE}]]

\* Whichever element is taken away, the sum is its value and the sum of the rest.
Splits(F, f, S) ==
    /\ F[{}] = 0
    /\ \A s \in SUBSET S : F[s] \in Nat /\ \A x \in s : F[s] = f[x] + F[s \ {x}]

\* The subsets of S with at most n elements.
UpTo(S, n) == {s \in SUBSET S : Cardinality(s) <= n}

\* Taking one element away.
LEMMA OneLess ==
  ASSUME NEW S, IsFiniteSet(S), NEW s \in SUBSET S, NEW x \in s
  PROVE  /\ IsFiniteSet(s) /\ s \ {x} \in SUBSET S
         /\ Cardinality(s) \in Nat /\ Cardinality(s \ {x}) \in Nat
         /\ Cardinality(s \ {x}) = Cardinality(s) - 1
<1>1. IsFiniteSet(s)
  BY FS_Subset
<1>2. IsFiniteSet(s \ {x}) /\ Cardinality(s \ {x}) = Cardinality(s) - 1
  BY <1>1, FS_RemoveElement
<1>3. QED
  BY <1>1, <1>2, FS_CardinalityType

\* The function exists, by induction on the size of the subsets.
LEMMA SumExists ==
  ASSUME NEW S, IsFiniteSet(S), NEW f, \A x \in S : f[x] \in Nat
  PROVE  \E F : SumsUp(F, f, S)
<1> DEFINE c(s) == CHOOSE x \in s : TRUE
           Upto(n, G) == G = [s \in UpTo(S, n) |-> IF s = {} THEN 0 ELSE f[c(s)] + G[s \ {c(s)}]]
           T == {n \in Nat : ~\E G : Upto(n, G)}
<1>1. \A s \in SUBSET S : s # {} => c(s) \in s
  OBVIOUS
<1>2. \A s \in SUBSET S : IsFiniteSet(s) /\ Cardinality(s) \in Nat
  BY FS_Subset, FS_CardinalityType
<1>z. {} \in SUBSET S /\ Cardinality({}) = 0
  BY FS_EmptySet
<1>3. ASSUME NEW s \in SUBSET S, s # {}
      PROVE  /\ s \ {c(s)} \in SUBSET S
             /\ Cardinality(s \ {c(s)}) = Cardinality(s) - 1
  <2>1. c(s) \in s
    BY <1>1, <1>3
  <2> HIDE DEF c
  <2>2. QED
    BY <2>1, OneLess
<1> HIDE DEF c
<1>4. T = {}
  <2> SUFFICES ASSUME T # {} PROVE FALSE
    OBVIOUS
  <2>1. T \subseteq Nat
    OBVIOUS
  <2>2. PICK n \in T : \A m \in T : n <= m
    BY <2>1, Least
  <2>3. n \in Nat /\ ~\E G : Upto(n, G)
    OBVIOUS
  <2>4. CASE n = 0
    <3>1. \A s \in UpTo(S, 0) : s = {}
      <4>1. SUFFICES ASSUME NEW s \in UpTo(S, 0) PROVE s = {}
        OBVIOUS
      <4>2. s \in SUBSET S /\ Cardinality(s) <= 0
        BY DEF UpTo
      <4>3. Cardinality(s) = 0
        BY <1>2, <4>2, SMTT(60)
      <4>4. QED
        BY <1>2, <4>2, <4>3, FS_EmptySet
    <3>2. Upto(0, [s \in UpTo(S, 0) |-> 0])
      BY <3>1
    <3>3. QED
      BY <2>3, <2>4, <3>2
  <2>5. CASE n # 0
    <3>1. n - 1 \in Nat /\ ~(n <= n - 1)
      BY <2>3, <2>5, SMTT(60)
    <3>2. n - 1 \notin T
      BY <2>2, <3>1
    <3>3. PICK G : Upto(n - 1, G)
      BY <3>1, <3>2
    <3> DEFINE H == [s \in UpTo(S, n) |-> IF s = {} THEN 0 ELSE f[c(s)] + G[s \ {c(s)}]]
    <3>4. ASSUME NEW s \in UpTo(S, n), s # {}
          PROVE  H[s \ {c(s)}] = G[s \ {c(s)}]
      <4> DEFINE r == s \ {c(s)}
      <4>1. s \in SUBSET S /\ Cardinality(s) <= n
        BY DEF UpTo
      <4>2. r \in SUBSET S /\ Cardinality(r) = Cardinality(s) - 1 /\ Cardinality(s) \in Nat
        BY <1>2, <1>3, <3>4, <4>1
      <4>3. Cardinality(r) <= n - 1 /\ Cardinality(r) <= n
        BY <2>3, <4>1, <4>2, SMTT(60)
      <4>4. r \in UpTo(S, n - 1) /\ r \in UpTo(S, n)
        BY <4>2, <4>3 DEF UpTo
      <4> HIDE DEF r
      <4>5. G[r] = IF r = {} THEN 0 ELSE f[c(r)] + G[r \ {c(r)}]
        BY <3>3, <4>4
      <4>6. H[r] = IF r = {} THEN 0 ELSE f[c(r)] + G[r \ {c(r)}]
        BY <4>4
      <4>7. QED
        BY <4>5, <4>6 DEF r
    <3>5. \A s \in UpTo(S, n) : (IF s = {} THEN 0 ELSE f[c(s)] + G[s \ {c(s)}])
                                = (IF s = {} THEN 0 ELSE f[c(s)] + H[s \ {c(s)}])
      BY <3>4
    <3>6. Upto(n, H)
      BY <3>5
    <3>7. QED
      BY <2>3, <3>6
  <2>6. QED
    BY <2>4, <2>5
<1>5. Cardinality(S) \in Nat
  BY FS_CardinalityType
<1>6. PICK G : Upto(Cardinality(S), G)
  BY <1>4, <1>5
<1>7. UpTo(S, Cardinality(S)) = SUBSET S
  BY FS_Subset DEF UpTo
<1>8. G = [s \in SUBSET S |-> IF s = {} THEN 0 ELSE f[c(s)] + G[s \ {c(s)}]]
  BY <1>6, <1>7
<1>9. QED
  BY <1>8 DEF SumsUp, c

\* The sum does not depend on the order in which CHOOSE takes the elements.
LEMMA SumSplits ==
  ASSUME NEW S, NEW f, NEW F, SumsUp(F, f, S)
  PROVE  Splits(F, f, S)
<1> DEFINE Good(s) == F[s] \in Nat /\ \A x \in s : F[s] = f[x] + F[s \ {x}]
           T == {n \in Nat : \E s \in SUBSET S : Cardinality(s) = n /\ ~Good(s)}
<1>a. IsFiniteSet(S) /\ \A x \in S : f[x] \in Nat
  BY DEF SumsUp
<1>1. \A s \in SUBSET S : IsFiniteSet(s) /\ Cardinality(s) \in Nat
  BY <1>a, FS_Subset, FS_CardinalityType
<1>2. F[{}] = 0
  BY DEF SumsUp
<1>3. T = {}
  <2> SUFFICES ASSUME T # {} PROVE FALSE
    OBVIOUS
  <2>1. T \subseteq Nat
    OBVIOUS
  <2>2. PICK n \in T : \A m \in T : n <= m
    BY <2>1, Least
  <2>3. PICK s \in SUBSET S : Cardinality(s) = n /\ ~Good(s)
    OBVIOUS
  <2>4. n \in Nat
    OBVIOUS
  <2>5. ASSUME NEW r \in SUBSET S, Cardinality(r) = n - 1
        PROVE  Good(r)
    <3>1. Cardinality(r) \in Nat
      BY <1>1
    <3>2. n - 1 \in Nat /\ ~(n <= n - 1)
      BY <2>4, <2>5, <3>1, SMTT(60)
    <3>3. n - 1 \notin T
      BY <2>2, <3>2
    <3>4. QED
      BY <2>5, <3>2, <3>3
  <2>6. s # {}
    <3>1. ASSUME s = {} PROVE FALSE
      <4>1. F[s] = 0
        BY <1>2, <3>1
      <4>2. F[s] \in Nat
        BY <4>1, SMTT(60)
      <4>3. QED
        BY <2>3, <3>1, <4>2
    <3>2. QED
      BY <3>1
  <2> DEFINE c == CHOOSE x \in s : TRUE
  <2>7. c \in s
    BY <2>6
  <2>8. F[s] = f[c] + F[s \ {c}]
    BY <2>6 DEF SumsUp
  <2> HIDE DEF c
  <2>9. Good(s \ {c})
    <3>1. s \ {c} \in SUBSET S /\ Cardinality(s \ {c}) = n - 1
      BY <1>a, <2>3, <2>7, OneLess
    <3>2. QED
      BY <2>5, <3>1
  <2>10. F[s] \in Nat
    <3>1. f[c] \in Nat /\ F[s \ {c}] \in Nat
      BY <1>a, <2>7, <2>9
    <3>2. QED
      BY <2>8, <3>1, SMTT(60)
  <2>11. ASSUME NEW x \in s
         PROVE  F[s] = f[x] + F[s \ {x}]
    <3>1. CASE x = c
      BY <2>8, <3>1
    <3>2. CASE x # c
      <4>1. x \in s \ {c} /\ c \in s \ {x}
        BY <2>7, <3>2
      <4>2. F[s \ {c}] = f[x] + F[(s \ {c}) \ {x}]
        BY <2>9, <4>1
      <4>3. Good(s \ {x})
        <5>1. s \ {x} \in SUBSET S /\ Cardinality(s \ {x}) = n - 1
          BY <1>a, <2>3, OneLess
        <5>2. QED
          BY <2>5, <5>1
      <4>4. F[s \ {x}] = f[c] + F[(s \ {x}) \ {c}]
        BY <4>1, <4>3
      <4>5. (s \ {x}) \ {c} = (s \ {c}) \ {x}
        OBVIOUS
      <4>6. (s \ {c}) \ {x} \in SUBSET S /\ Cardinality((s \ {c}) \ {x}) = Cardinality(s \ {c}) - 1
        BY <1>a, <2>7, <4>1, OneLess
      <4>7. f[c] \in Nat /\ f[x] \in Nat /\ F[s \ {x}] \in Nat /\ F[s \ {c}] \in Nat
        BY <1>a, <2>7, <2>9, <4>3
      <4> DEFINE r == F[(s \ {c}) \ {x}]
      <4>8. F[s] = f[c] + F[s \ {c}] /\ F[s \ {c}] = f[x] + r /\ F[s \ {x}] = f[c] + r
        BY <2>8, <4>2, <4>4, <4>5
      <4>9. r \in Int
        <5>1. IsFiniteSet(s \ {x}) /\ s \ {x} \in SUBSET S /\ (s \ {x}) \ {c} \in SUBSET S
          BY <1>1
        <5>2. CASE (s \ {x}) \ {c} = {}
          <6>1. 0 \in Int
            BY SMTT(60)
          <6>2. QED
            BY <1>2, <4>5, <5>2, <6>1
        <5>3. CASE (s \ {x}) \ {c} # {}
          <6> DEFINE q == (s \ {x}) \ {c}
          <6>1. Cardinality(q) = Cardinality(s \ {x}) - 1 /\ Cardinality(s \ {x}) = n - 1
            BY <1>a, <2>3, <4>1, OneLess
          <6>2. Cardinality(q) \in Nat /\ Cardinality(s \ {x}) \in Nat
            BY <1>1
          <6> HIDE DEF q
          <6>3. Cardinality(q) \in Nat /\ ~(n <= Cardinality(q))
            BY <2>4, <6>1, <6>2, SMTT(60)
          <6>4. Cardinality(q) \notin T
            BY <2>2, <6>3
          <6>5. F[q] \in Nat
            BY <6>3, <6>4 DEF q
          <6>6. F[q] \in Int
            BY <6>5, SMTT(60)
          <6>7. QED
            BY <4>5, <6>6 DEF q
        <5>4. QED
          BY <5>2, <5>3
      <4> HIDE DEF r
      <4>10. QED
        BY <4>7, <4>8, <4>9, SMTT(60)
    <3>3. QED
      BY <3>1, <3>2
  <2>12. QED
    BY <2>3, <2>10, <2>11
<1>4. ASSUME NEW s \in SUBSET S
      PROVE  Good(s)
  <2>1. Cardinality(s) \in Nat /\ Cardinality(s) \notin T
    BY <1>1, <1>3
  <2>2. QED
    BY <2>1
<1>5. QED
  BY <1>2, <1>4 DEF Splits

\* The sum over a set depends on the values in it only.
Agree(F, f, S, G, g, U) ==
    \A w \in SUBSET S : (w \in SUBSET U /\ \A x \in w : f[x] = g[x]) => F[w] = G[w]

LEMMA SumsAgree ==
  ASSUME NEW S, NEW f, NEW F, SumsUp(F, f, S), NEW U, NEW g, NEW G, SumsUp(G, g, U)
  PROVE  Agree(F, f, S, G, g, U)
<1> SUFFICES ASSUME NEW w \in SUBSET S, w \in SUBSET U, \A x \in w : f[x] = g[x]
             PROVE  F[w] = G[w]
  BY DEF Agree
<1> DEFINE T == {n \in Nat : \E s \in SUBSET w : Cardinality(s) = n /\ F[s] # G[s]}
<1>a. IsFiniteSet(S)
  BY DEF SumsUp
<1>1. /\ F[{}] = 0 /\ G[{}] = 0
      /\ \A s \in SUBSET S : \A x \in s : F[s] = f[x] + F[s \ {x}]
      /\ \A s \in SUBSET U : \A x \in s : G[s] = g[x] + G[s \ {x}]
  <2>1. Splits(F, f, S) /\ Splits(G, g, U)
    BY SumSplits
  <2>2. QED
    BY <2>1 DEF Splits
<1>2. T = {}
  <2> SUFFICES ASSUME T # {} PROVE FALSE
    OBVIOUS
  <2>1. T \subseteq Nat
    OBVIOUS
  <2>2. PICK n \in T : \A m \in T : n <= m
    BY <2>1, Least
  <2>3. PICK s \in SUBSET w : Cardinality(s) = n /\ F[s] # G[s]
    OBVIOUS
  <2>4. n \in Nat /\ s \in SUBSET S /\ s \in SUBSET U
    OBVIOUS
  <2>5. s # {}
    BY <1>1, <2>3
  <2>6. PICK x \in s : TRUE
    BY <2>5
  <2>7. Cardinality(s \ {x}) = n - 1 /\ Cardinality(s \ {x}) \in Nat
    BY <1>a, <2>3, <2>4, OneLess
  <2>8. n - 1 \in Nat /\ ~(n <= n - 1)
    BY <2>4, <2>7, SMTT(60)
  <2>9. n - 1 \notin T
    BY <2>2, <2>8
  <2>10. F[s \ {x}] = G[s \ {x}]
    BY <2>7, <2>8, <2>9
  <2>11. F[s] = f[x] + F[s \ {x}] /\ G[s] = g[x] + G[s \ {x}] /\ f[x] = g[x]
    BY <1>1, <2>4
  <2>12. QED
    BY <2>3, <2>10, <2>11
<1>3. w \in SUBSET w /\ Cardinality(w) \in Nat
  BY <1>a, FS_Subset, FS_CardinalityType
<1>4. QED
  BY <1>2, <1>3

-----------------------------------------------------------------------------
\* The sum of f over S.
Total(f, S) == MapThenSumSet(LAMBDA x : f[x], S)

Addends(f, S) == IsFiniteSet(S) /\ \A x \in S : f[x] \in Nat

LEMMA TotalIs ==
  ASSUME NEW S, NEW f, Addends(f, S)
  PROVE  \E F : SumsUp(F, f, S) /\ Total(f, S) = F[S]
<1>1. PICK G : SumsUp(G, f, S)
  BY SumExists DEF Addends
<1> DEFINE F == CHOOSE iter : iter = [s \in SUBSET S |-> IF s = {} THEN 0
                   ELSE f[CHOOSE x \in s : TRUE] + iter[s \ {CHOOSE x \in s : TRUE}]]
<1>2. Total(f, S) = F[S]
  BY DEF Total, MapThenSumSet, MapThenFoldSet
<1>3. G = [s \in SUBSET S |-> IF s = {} THEN 0
              ELSE f[CHOOSE x \in s : TRUE] + G[s \ {CHOOSE x \in s : TRUE}]]
  BY <1>1 DEF SumsUp
<1>4. F = [s \in SUBSET S |-> IF s = {} THEN 0
              ELSE f[CHOOSE x \in s : TRUE] + F[s \ {CHOOSE x \in s : TRUE}]]
  BY <1>3
<1> HIDE DEF F
<1>5. SumsUp(F, f, S)
  BY <1>4 DEF SumsUp, Addends
<1>6. QED
  BY <1>2, <1>5

\* Nothing adds up to nothing.
LEMMA TotalOfNone ==
  ASSUME NEW f
  PROVE  Total(f, {}) = 0
<1>1. Addends(f, {})
  BY FS_EmptySet DEF Addends
<1>2. PICK F : SumsUp(F, f, {}) /\ Total(f, {}) = F[{}]
  BY <1>1, TotalIs
<1>3. QED
  BY <1>2, SumSplits DEF Splits

\* Nothing but zeros.
LEMMA TotalOfZeros ==
  ASSUME NEW S, NEW f, Addends(f, S), \A x \in S : f[x] = 0
  PROVE  Total(f, S) = 0
<1> DEFINE F == [s \in SUBSET S |-> 0]
<1>1. PICK G : SumsUp(G, f, S) /\ Total(f, S) = G[S]
  BY TotalIs
<1>2. ASSUME NEW s \in SUBSET S
      PROVE  F[s] = IF s = {} THEN 0 ELSE f[CHOOSE x \in s : TRUE] + F[s \ {CHOOSE x \in s : TRUE}]
  <2> DEFINE c == CHOOSE x \in s : TRUE
  <2>1. CASE s # {}
    <3>1. c \in S
      BY <2>1
    <3>2. f[c] = 0 /\ F[s \ {c}] = 0 /\ F[s] = 0
      BY <3>1
    <3>3. 0 = 0 + 0
      BY SMTT(60)
    <3>4. QED
      BY <2>1, <3>2, <3>3
  <2>2. QED
    BY <2>1
<1>3. SumsUp(F, f, S)
  BY <1>2 DEF SumsUp, Addends
<1>4. F[S] = 0
  OBVIOUS
<1> HIDE DEF F
<1>5. Agree(F, f, S, G, f, S)
  BY <1>1, <1>3, SumsAgree
<1>6. QED
  BY <1>1, <1>4, <1>5 DEF Agree

\* The sum is a natural number and depends on the values in the set only.
LEMMA TotalSame ==
  ASSUME NEW S, NEW f, NEW g, Addends(f, S), \A x \in S : f[x] = g[x]
  PROVE  Total(f, S) \in Nat /\ Total(g, S) = Total(f, S)
<1>1. Addends(g, S)
  BY DEF Addends
<1>2. PICK F : SumsUp(F, f, S) /\ Total(f, S) = F[S]
  BY TotalIs
<1>3. PICK G : SumsUp(G, g, S) /\ Total(g, S) = G[S]
  BY <1>1, TotalIs
<1>4. F[S] = G[S]
  <2>1. Agree(F, f, S, G, g, S)
    BY <1>2, <1>3, SumsAgree
  <2>2. QED
    BY <2>1 DEF Agree
<1>5. F[S] \in Nat
  BY <1>2, SumSplits DEF Splits
<1>6. QED
  BY <1>2, <1>3, <1>4, <1>5

\* One more element.
LEMMA TotalAdd ==
  ASSUME NEW S, NEW f, Addends(f, S), NEW x, x \notin S, f[x] \in Nat
  PROVE  Addends(f, S \cup {x}) /\ Total(f, S \cup {x}) = Total(f, S) + f[x]
<1> DEFINE U == S \cup {x}
<1>1. Addends(f, U)
  BY FS_AddElement DEF Addends
<1>2. PICK F : SumsUp(F, f, S) /\ Total(f, S) = F[S]
  BY TotalIs
<1>3. PICK G : SumsUp(G, f, U) /\ Total(f, U) = G[U]
  BY <1>1, TotalIs
<1>4. G[U] = f[x] + G[U \ {x}]
  <2>1. x \in U
    OBVIOUS
  <2> HIDE DEF U
  <2>2. Splits(G, f, U)
    BY <1>3, SumSplits
  <2>3. QED
    BY <2>1, <2>2 DEF Splits
<1>5. U \ {x} = S
  OBVIOUS
<1>6. F[S] = G[S]
  <2> HIDE DEF U
  <2>1. Agree(F, f, S, G, f, U)
    BY <1>2, <1>3, SumsAgree
  <2>2. QED
    BY <2>1 DEF Agree, U
<1>7. F[S] \in Nat
  BY <1>2, SumSplits DEF Splits
<1>8. f[x] + F[S] = F[S] + f[x]
  BY <1>7, SMTT(60)
<1>9. QED
  BY <1>1, <1>2, <1>3, <1>4, <1>5, <1>6, <1>8

\* f and g have the same values on S, except perhaps at x.
SameBut(f, g, S, x) == \A y \in S : y # x => f[y] = g[y]

\* One value changes.
LEMMA TotalChange ==
  ASSUME NEW S, NEW f, NEW g, NEW x \in S, Addends(f, S), Addends(g, S), SameBut(f, g, S, x)
  PROVE  Total(g, S) + f[x] = Total(f, S) + g[x]
<1> DEFINE U == S \ {x}
<1>1. Addends(f, U) /\ Addends(g, U) /\ x \notin U /\ f[x] \in Nat /\ g[x] \in Nat
  BY FS_RemoveElement DEF Addends
<1>2. U \cup {x} = S /\ \A y \in U : f[y] = g[y]
  BY DEF SameBut
<1> HIDE DEF U
<1>3. Total(f, S) = Total(f, U) + f[x] /\ Total(g, S) = Total(g, U) + g[x]
  <2>1. Total(f, U \cup {x}) = Total(f, U) + f[x]
    BY <1>1, TotalAdd
  <2>2. Total(g, U \cup {x}) = Total(g, U) + g[x]
    BY <1>1, TotalAdd
  <2>3. QED
    BY <1>2, <2>1, <2>2
<1>4. Total(f, U) \in Nat /\ Total(g, U) = Total(f, U)
  BY <1>1, <1>2, TotalSame
<1>5. QED
  BY <1>1, <1>3, <1>4, SMTT(60)

\* Two sets that share nothing.
LEMMA TotalUnion ==
  ASSUME NEW S, NEW U, NEW f, Addends(f, S), Addends(f, U), S \cap U = {}
  PROVE  Total(f, S \cup U) = Total(f, S) + Total(f, U)
<1> DEFINE T == {n \in Nat : \E w \in SUBSET U : /\ Cardinality(w) = n
                                                /\ Total(f, S \cup w) # Total(f, S) + Total(f, w)}
<1>a. /\ IsFiniteSet(S) /\ IsFiniteSet(U)
      /\ \A x \in U : f[x] \in Nat
      /\ \A x \in S : f[x] \in Nat
  BY DEF Addends
<1>1. Total(f, S) \in Nat
  BY TotalSame
<1>2. ASSUME NEW w \in SUBSET U
      PROVE  /\ Addends(f, w) /\ Total(f, w) \in Nat /\ Cardinality(w) \in Nat
             /\ Addends(f, S \cup w)
  <2>1. IsFiniteSet(w) /\ IsFiniteSet(S \cup w) /\ Cardinality(w) \in Nat
    BY <1>a, FS_Subset, FS_Union, FS_CardinalityType
  <2>2. Addends(f, w) /\ Addends(f, S \cup w)
    BY <1>a, <2>1 DEF Addends
  <2>3. QED
    BY <2>1, <2>2, TotalSame
<1>3. T = {}
  <2> SUFFICES ASSUME T # {} PROVE FALSE
    OBVIOUS
  <2>1. T \subseteq Nat
    OBVIOUS
  <2>2. PICK n \in T : \A m \in T : n <= m
    BY <2>1, Least
  <2>3. PICK w \in SUBSET U : Cardinality(w) = n /\ Total(f, S \cup w) # Total(f, S) + Total(f, w)
    OBVIOUS
  <2>4. n \in Nat
    OBVIOUS
  <2>5. w # {}
    <3>1. ASSUME w = {} PROVE FALSE
      <4>1. S \cup w = S /\ Total(f, w) = 0
        BY <3>1, TotalOfNone
      <4>2. Total(f, S) + 0 = Total(f, S)
        BY <1>1, SMTT(60)
      <4>3. QED
        BY <2>3, <4>1, <4>2
    <3>2. QED
      BY <3>1
  <2>6. PICK x \in w : TRUE
    BY <2>5
  <2> DEFINE r == w \ {x}
  <2>7. r \in SUBSET U /\ Cardinality(r) = n - 1 /\ Cardinality(r) \in Nat
    BY <1>a, <2>3, OneLess
  <2>8. r \cup {x} = w /\ (S \cup r) \cup {x} = S \cup w /\ x \notin r /\ x \notin S \cup r
    OBVIOUS
  <2>x. f[x] \in Nat
    BY <1>a
  <2> HIDE DEF r
  <2>9. n - 1 \in Nat /\ ~(n <= n - 1)
    BY <2>4, <2>7, SMTT(60)
  <2>10. n - 1 \notin T
    BY <2>2, <2>9
  <2>11. Total(f, S \cup r) = Total(f, S) + Total(f, r)
    BY <2>7, <2>9, <2>10
  <2>12. Total(f, w) = Total(f, r) + f[x]
    BY <1>2, <2>7, <2>8, <2>x, TotalAdd
  <2>13. Total(f, S \cup w) = Total(f, S \cup r) + f[x]
    <3> DEFINE q == S \cup r
    <3>1. Addends(f, q) /\ x \notin q /\ q \cup {x} = S \cup w
      BY <1>2, <2>7, <2>8
    <3> HIDE DEF q
    <3>2. Total(f, q \cup {x}) = Total(f, q) + f[x]
      BY <2>x, <3>1, TotalAdd
    <3>3. QED
      BY <3>1, <3>2 DEF q
  <2>14. Total(f, r) \in Nat
    BY <1>2, <2>7
  <2>15. Total(f, S \cup w) = Total(f, S) + Total(f, w)
    BY <1>1, <2>x, <2>11, <2>12, <2>13, <2>14, SMTT(60)
  <2>16. QED
    BY <2>3, <2>15
<1>4. U \in SUBSET U /\ Cardinality(U) \in Nat
  BY <1>2
<1>5. QED
  BY <1>3, <1>4
=============================================================================
