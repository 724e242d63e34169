----------------------------- MODULE SpillProofs -----------------------------
(***************************************************************************)
(* The spilling reorder buffer and its loop, for any number of results, any *)
(* capacity, budget and sizes, both granularities and reclaim modes, and    *)
(* any failing writes and reads: what is spilled can be read back, nothing  *)
(* is lost or held twice, the memory is accounted for, and what the loop    *)
(* sends on is a gapless run.                                               *)
(***************************************************************************)
EXTENDS SpillBuffer, CommonProofs

\* The leaves are tried with Zenon unless they name another prover.
USE Zenon

-----------------------------------------------------------------------------
(* The ring, when many results leave or join it at once                       *)

Ring(r) == RingOK(r) /\ r.bypass = FALSE
Window(r) == {s \in Nat : r.next <= s /\ s - r.next < r.capacity}

\* Two rings with the same places.
Alike(r, t) ==
    t.head = r.head /\ t.next = r.next /\ t.capacity = r.capacity /\ t.bypass = r.bypass

\* A ring holds a result exactly in the place of its number.
LEMMA HeldPlaces ==
  ASSUME NEW r, Ring(r), NEW v
  PROVE  v \in Held(r) <=> \E i \in 0..r.capacity - 1 : v = r.next + i /\ r.slots[SlotAt(r, i)] = v
<1>1. RingOK(r) /\ ~r.bypass
  BY DEF Ring
<1>2. r.capacity \in Nat \ {0} /\ r.next \in Nat
  BY <1>1, RingFacts
<1>3. ASSUME v \in Held(r)
      PROVE  \E i \in 0..r.capacity - 1 : v = r.next + i /\ r.slots[SlotAt(r, i)] = v
  <2>1. v \in Nat /\ r.next <= v /\ v - r.next < r.capacity /\ r.slots[SlotAt(r, v - r.next)] = v
    BY <1>1, <1>3, HeldMeansSlot
  <2>2. v - r.next \in 0..r.capacity - 1 /\ v = r.next + (v - r.next)
    BY <1>2, <2>1, SMTT(60)
  <2>3. QED
    BY <2>1, <2>2
<1>4. ASSUME NEW i \in 0..r.capacity - 1, v = r.next + i, r.slots[SlotAt(r, i)] = v
      PROVE  v \in Held(r)
  <2>1. SlotAt(r, i) \in 0..r.capacity - 1
    BY <1>1, RingFacts
  <2>2. v # NoItem
    BY <1>2, <1>4, SMTT(60) DEF NoItem
  <2>3. QED
    BY <1>1, <1>4, <2>1, <2>2 DEF Held
<1>5. QED
  BY <1>3, <1>4

\* A ring like r, with other slots, is in order if each of its places is.
LEMMA AlikeInOrder ==
  ASSUME NEW r, Ring(r), NEW t, Alike(r, t), DOMAIN t = Fields,
         DOMAIN t.slots = 0..r.capacity - 1,
         t.slots = [j \in DOMAIN t.slots |-> t.slots[j]],
         \A i \in 0..r.capacity - 1 : t.slots[SlotAt(r, i)] \in {NoItem, r.next + i}
  PROVE  Ring(t)
<1>1. /\ r.capacity \in Nat \ {0} /\ r.head \in 0..r.capacity - 1 /\ r.next \in Nat
      /\ r.bypass = FALSE
  BY RingFacts DEF Ring
<1>2. \A i \in 0..r.capacity - 1 : SlotAt(t, i) = SlotAt(r, i)
  BY DEF SlotAt, Alike
<1>3. ASSUME NEW j \in 0..r.capacity - 1
      PROVE  t.slots[j] \in Int
  <2> DEFINE c == r.capacity
             h == r.head
  <2>a. c \in Nat \ {0} /\ h \in 0..c - 1 /\ j \in 0..c - 1
    BY <1>1
  <2> HIDE DEF c, h
  <2>b. \E i \in 0..c - 1 : (h + i) % c = j
    BY <2>a, SlotsCovered
  <2>1. PICK i \in 0..r.capacity - 1 : (r.head + i) % r.capacity = j
    BY <2>b DEF c, h
  <2>2. t.slots[j] \in {NoItem, r.next + i}
    BY <2>1 DEF SlotAt
  <2>3. NoItem \in Int /\ r.next + i \in Int
    BY <1>1, SMTT(60) DEF NoItem
  <2>4. QED
    BY <2>2, <2>3
<1>4. t.slots \in [0..r.capacity - 1 -> Int]
  BY <1>3
<1>5. QED
  BY <1>1, <1>2, <1>4 DEF Ring, RingOK, Alike

\* `take' for each result of S.
LEMMA TakeAllHolds ==
  ASSUME NEW r, Ring(r), NEW S
  PROVE  /\ Ring(TakeAll(r, S)) /\ Alike(r, TakeAll(r, S))
         /\ Held(TakeAll(r, S)) = Held(r) \ S
<1> DEFINE t == TakeAll(r, S)
<1>1. /\ DOMAIN r = Fields /\ r.slots \in [0..r.capacity - 1 -> Int] /\ r.next \in Nat
      /\ r.capacity \in Nat
  BY DEF Ring, RingOK
<1>2. /\ DOMAIN t = Fields /\ Alike(r, t)
      /\ t.slots = [j \in DOMAIN r.slots |-> IF r.slots[j] \in S THEN NoItem ELSE r.slots[j]]
  BY <1>1 DEF TakeAll, Fields, Alike
<1> HIDE DEF t
<1>3. \A i \in 0..r.capacity - 1 : /\ SlotAt(r, i) \in 0..r.capacity - 1 /\ SlotAt(t, i) = SlotAt(r, i)
                                   /\ r.slots[SlotAt(r, i)] \in {NoItem, r.next + i}
  BY <1>2, RingFacts DEF Ring, SlotAt, Alike
<1>4. \A i \in 0..r.capacity - 1 :
         t.slots[SlotAt(r, i)] = IF r.slots[SlotAt(r, i)] \in S THEN NoItem ELSE r.slots[SlotAt(r, i)]
  BY <1>1, <1>2, <1>3
<1>5. \A i \in 0..r.capacity - 1 : t.slots[SlotAt(r, i)] \in {NoItem, r.next + i}
  BY <1>3, <1>4
<1>6. Ring(t)
  <2>1. DOMAIN t.slots = 0..r.capacity - 1 /\ t.slots = [j \in DOMAIN t.slots |-> t.slots[j]]
    BY <1>1, <1>2
  <2>2. QED
    BY <1>2, <1>5, <2>1, AlikeInOrder
<1>7. ASSUME NEW v
      PROVE  v \in Held(t) <=> v \in Held(r) /\ v \notin S
  <2>1. v \in Held(t) <=> \E i \in 0..r.capacity - 1 : v = r.next + i /\ t.slots[SlotAt(r, i)] = v
    <3>1. v \in Held(t) <=> \E i \in 0..t.capacity - 1 : v = t.next + i /\ t.slots[SlotAt(t, i)] = v
      BY <1>6, HeldPlaces
    <3>2. t.capacity = r.capacity /\ t.next = r.next
      BY <1>2 DEF Alike
    <3>3. QED
      BY <1>3, <3>1, <3>2
  <2>2. v \in Held(r) <=> \E i \in 0..r.capacity - 1 : v = r.next + i /\ r.slots[SlotAt(r, i)] = v
    BY HeldPlaces
  <2>3. \A i \in 0..r.capacity - 1 : r.next + i # NoItem
    BY <1>1, SMTT(60) DEF NoItem
  <2>4. ASSUME NEW i \in 0..r.capacity - 1, v = r.next + i
        PROVE  t.slots[SlotAt(r, i)] = v <=> r.slots[SlotAt(r, i)] = v /\ v \notin S
    BY <1>4, <2>3, <2>4
  <2>5. QED
    BY <2>1, <2>2, <2>4
<1>8. QED
  BY <1>2, <1>6, <1>7 DEF t

\* `force_insert' for each result of S, all of them within the window.
LEMMA ForceAllHolds ==
  ASSUME NEW r, Ring(r), NEW S, S \subseteq Window(r)
  PROVE  /\ Ring(ForceAll(r, S)) /\ Alike(r, ForceAll(r, S))
         /\ Held(ForceAll(r, S)) = Held(r) \cup S
<1> DEFINE t == ForceAll(r, S)
           back(j) == {s \in S : SlotIndex(r, s) = j}
<1>1. /\ DOMAIN r = Fields /\ r.slots \in [0..r.capacity - 1 -> Int] /\ r.next \in Nat
      /\ r.capacity \in Nat \ {0} /\ r.head \in 0..r.capacity - 1
  BY DEF Ring, RingOK
<1>2. /\ DOMAIN t = Fields /\ Alike(r, t)
      /\ t.slots = [j \in DOMAIN r.slots |-> IF back(j) = {} THEN r.slots[j] ELSE Max(back(j))]
  BY <1>1 DEF ForceAll, Fields, Alike
<1> HIDE DEF t
<1>3. \A i \in 0..r.capacity - 1 : /\ SlotAt(r, i) \in 0..r.capacity - 1 /\ SlotAt(t, i) = SlotAt(r, i)
                                   /\ r.slots[SlotAt(r, i)] \in {NoItem, r.next + i}
  BY <1>2, RingFacts DEF Ring, SlotAt, Alike
<1>4. ASSUME NEW s \in S
      PROVE  /\ s - r.next \in 0..r.capacity - 1 /\ s = r.next + (s - r.next)
             /\ SlotIndex(r, s) = SlotAt(r, s - r.next)
  BY <1>1, SMTT(60) DEF Window, SlotIndex
<1>5. ASSUME NEW i \in 0..r.capacity - 1
      PROVE  back(SlotAt(r, i)) = IF r.next + i \in S THEN {r.next + i} ELSE {}
  <2>1. ASSUME NEW s \in S, SlotIndex(r, s) = SlotAt(r, i)
        PROVE  s = r.next + i
    <3>1. (r.head + (s - r.next)) % r.capacity = (r.head + i) % r.capacity
      BY <1>4, <2>1 DEF SlotAt
    <3> DEFINE k == s - r.next
    <3>2. k \in 0..r.capacity - 1 /\ s = r.next + k
      BY <1>4
    <3> HIDE DEF k
    <3>3. (r.head + k) % r.capacity = (r.head + i) % r.capacity
      BY <3>1 DEF k
    <3>4. k = i
      BY <1>1, <3>2, <3>3, SlotsDistinct
    <3>5. QED
      BY <3>2, <3>4
  <2>2. ASSUME r.next + i \in S
        PROVE  SlotIndex(r, r.next + i) = SlotAt(r, i)
    <3>1. (r.next + i) - r.next = i
      BY <1>1, SMTT(60)
    <3>2. QED
      BY <1>4, <2>2, <3>1
  <2>3. QED
    BY <2>1, <2>2
<1>6. \A i \in 0..r.capacity - 1 :
         t.slots[SlotAt(r, i)] = IF r.next + i \in S THEN r.next + i ELSE r.slots[SlotAt(r, i)]
  <2> SUFFICES ASSUME NEW i \in 0..r.capacity - 1
               PROVE  t.slots[SlotAt(r, i)] = IF r.next + i \in S THEN r.next + i ELSE r.slots[SlotAt(r, i)]
    OBVIOUS
  <2>1. t.slots[SlotAt(r, i)] = IF back(SlotAt(r, i)) = {} THEN r.slots[SlotAt(r, i)] ELSE Max(back(SlotAt(r, i)))
    BY <1>1, <1>2, <1>3
  <2>2. \A x \in Nat : x >= x
    BY SMTT(60)
  <2>3. \A x \in Nat : Max({x}) = x
    BY <2>2 DEF Max
  <2>4. r.next + i \in Nat
    BY <1>1, SMTT(60)
  <2> HIDE DEF back
  <2>5. QED
    BY <1>5, <2>1, <2>3, <2>4
<1>7. \A i \in 0..r.capacity - 1 : t.slots[SlotAt(r, i)] \in {NoItem, r.next + i}
  BY <1>3, <1>6
<1>8. Ring(t)
  <2>1. DOMAIN t.slots = 0..r.capacity - 1 /\ t.slots = [j \in DOMAIN t.slots |-> t.slots[j]]
    BY <1>1, <1>2
  <2>2. QED
    BY <1>2, <1>7, <2>1, AlikeInOrder
<1>9. ASSUME NEW v
      PROVE  v \in Held(t) <=> v \in Held(r) \/ v \in S
  <2>1. v \in Held(t) <=> \E i \in 0..r.capacity - 1 : v = r.next + i /\ t.slots[SlotAt(r, i)] = v
    <3>1. v \in Held(t) <=> \E i \in 0..t.capacity - 1 : v = t.next + i /\ t.slots[SlotAt(t, i)] = v
      BY <1>8, HeldPlaces
    <3>2. t.capacity = r.capacity /\ t.next = r.next
      BY <1>2 DEF Alike
    <3>3. QED
      BY <1>3, <3>1, <3>2
  <2>2. v \in Held(r) <=> \E i \in 0..r.capacity - 1 : v = r.next + i /\ r.slots[SlotAt(r, i)] = v
    BY HeldPlaces
  <2>3. v \in S => \E i \in 0..r.capacity - 1 : v = r.next + i
    BY <1>4
  <2>4. ASSUME NEW i \in 0..r.capacity - 1, v = r.next + i
        PROVE  t.slots[SlotAt(r, i)] = v <=> r.slots[SlotAt(r, i)] = v \/ v \in S
    BY <1>6, <2>4
  <2>5. QED
    BY <2>1, <2>2, <2>3, <2>4
<1>10. QED
  BY <1>2, <1>8, <1>9 DEF t

\* insert, force_insert and next_in_order, with the window they leave.
LEMMA InsertRing ==
  ASSUME NEW r, Ring(r), NEW s \in Nat, Accepts(r, s)
  PROVE  /\ Ring(Insert(r, s)) /\ Held(Insert(r, s)) = Held(r) \cup {s}
         /\ Insert(r, s).next = r.next /\ Window(r) \subseteq Window(Insert(r, s))
<1>1. RingOK(r) /\ ~r.bypass /\ s \in Int
  BY SMTT(60) DEF Ring
<1>2. /\ RingOK(Insert(r, s)) /\ Insert(r, s).next = r.next /\ Insert(r, s).bypass = r.bypass
      /\ Held(Insert(r, s)) = Held(r) \cup {s}
  BY <1>1, InsertKeepsOrder, InsertHolds
<1>3. Insert(r, s).capacity = r.capacity
  BY <1>1 DEF Insert, Place, RingOK, Fields
<1>4. QED
  BY <1>2, <1>3 DEF Ring, Window

LEMMA ForceRing ==
  ASSUME NEW r, Ring(r), NEW s \in Nat, r.next <= s
  PROVE  /\ Ring(ForceInsert(r, s)) /\ Held(ForceInsert(r, s)) = Held(r) \cup {s}
         /\ ForceInsert(r, s).next = r.next /\ Window(r) \subseteq Window(ForceInsert(r, s))
<1> DEFINE f == ForceInsert(r, s)
           n == (s - r.next) + 1
           g == Grow(r, n)
<1>1. RingOK(r) /\ ~r.bypass /\ s \in Int /\ r.next \in Nat /\ r.capacity \in Nat \ {0} /\ DOMAIN r = Fields
  BY SMTT(60) DEF Ring, RingOK
<1>2. /\ RingOK(f) /\ f.next = r.next /\ f.bypass = r.bypass /\ Held(f) = Held(r) \cup {s}
  BY <1>1, ForceKeepsOrder, ForceHolds
<1>3. r.capacity <= f.capacity
  <2>1. CASE SlotIndex(r, s) # NoSlot
    <3>1. f.capacity = r.capacity
      BY <1>1, <2>1 DEF ForceInsert, Place, Fields
    <3>2. QED
      BY <1>1, <3>1, SMTT(60)
  <2>2. CASE SlotIndex(r, s) = NoSlot
    <3>1. s >= r.next
      BY <1>1, SMTT(60)
    <3>2. f = Place(g, SlotAt(g, s - g.next), s)
      BY <1>1, <2>2, <3>1 DEF ForceInsert
    <3>3. g.capacity = Larger(n, 2 * r.capacity) /\ DOMAIN g = Fields
      BY <1>1 DEF Grow, ResizeTo, Fields
    <3> HIDE DEF g
    <3>4. f.capacity = g.capacity
      BY <3>2, <3>3 DEF Place, Fields
    <3>5. n \in Nat
      BY <1>1, SMTT(60)
    <3>6. r.capacity <= Larger(n, 2 * r.capacity)
      <4> HIDE DEF n
      <4>1. QED
        BY <1>1, <3>5, SMTT(60) DEF Larger
    <3>7. QED
      BY <3>3, <3>4, <3>6
  <2>3. QED
    BY <2>1, <2>2
<1>4. f.capacity \in Nat
  BY <1>2 DEF RingOK
<1> HIDE DEF f
<1>5. Window(r) \subseteq Window(f)
  BY <1>1, <1>2, <1>3, <1>4, SMTT(60) DEF Window
<1>6. QED
  BY <1>1, <1>2, <1>5 DEF Ring, f

LEMMA NextRing ==
  ASSUME NEW r, Ring(r)
  PROVE  /\ Ready(r) <=> r.next \in Held(r)
         /\ Ready(r) => /\ Ring(NextInOrder(r)) /\ HeadItem(r) = r.next
                        /\ Held(NextInOrder(r)) = Held(r) \ {r.next}
                        /\ NextInOrder(r).next = r.next + 1
                        /\ Window(r) \ {r.next} \subseteq Window(NextInOrder(r))
<1> DEFINE t == NextInOrder(r)
<1>1. RingOK(r) /\ ~r.bypass /\ r.next \in Nat /\ r.capacity \in Nat \ {0} /\ DOMAIN r = Fields
  BY DEF Ring, RingOK
<1>2. Ready(r) <=> r.next \in Held(r)
  BY <1>1, NextHolds
<1>3. ASSUME Ready(r)
      PROVE  /\ Ring(t) /\ HeadItem(r) = r.next /\ Held(t) = Held(r) \ {r.next}
             /\ t.next = r.next + 1 /\ Window(r) \ {r.next} \subseteq Window(t)
  <2>1. Held(t) = Held(r) \ {r.next}
    BY <1>1, <1>3, NextHolds
  <2>2. HeadItem(r) = r.next /\ RingOK(t) /\ t.next = r.next + 1 /\ t.bypass = r.bypass
    BY <1>1, <1>3, NextKeepsOrder
  <2>3. t.capacity = r.capacity
    BY <1>1 DEF NextInOrder, Fields
  <2> HIDE DEF t
  <2>4. Window(r) \ {r.next} \subseteq Window(t)
    BY <1>1, <2>2, <2>3, SMTT(60) DEF Window
  <2>5. QED
    BY <1>1, <2>1, <2>2, <2>4 DEF Ring
<1>4. QED
  BY <1>2, <1>3

LEMMA RingWindow ==
  ASSUME NEW r, Ring(r)
  PROVE  Held(r) \subseteq Window(r) /\ r.next \in Nat
BY HeldMeansSlot, RingFacts DEF Ring, Window

-----------------------------------------------------------------------------
(* The bytes of a set of results                                              *)

LEMMA SequenceFinite == \A S \in SUBSET Sequence : IsFiniteSet(S)
<1>1. 0 \in Int /\ Results - 1 \in Int
  BY SpillAssumption, SMTT(60)
<1>2. IsFiniteSet(0..Results - 1)
  BY <1>1, FS_Interval
<1>3. QED
  BY <1>2, FS_Subset DEF Sequence

LEMMA SizesAdd ==
  ASSUME scfg \in SpillCfgs, NEW S, S \subseteq Sequence, NEW T, T \subseteq Sequence, S \cap T = {}
  PROVE  SizeOf(S) \in Nat /\ SizeOf(S \cup T) = SizeOf(S) + SizeOf(T)
<1> DEFINE f == scfg.size
<1>1. \A x \in Sequence : f[x] \in Nat
  BY SpillAssumption
<1>2. IsFiniteSet(S) /\ IsFiniteSet(T)
  BY SequenceFinite
<1>3. Addends(f, S) /\ Addends(f, T)
  BY <1>1, <1>2 DEF Addends
<1>4. /\ SizeOf(S) = Total(f, S) /\ SizeOf(T) = Total(f, T)
      /\ SizeOf(S \cup T) = Total(f, S \cup T)
  BY DEF SizeOf, Total
<1> HIDE DEF f
<1>5. Total(f, S) \in Nat
  BY <1>3, TotalSame
<1>6. Total(f, S \cup T) = Total(f, S) + Total(f, T)
  BY <1>3, TotalUnion
<1>7. QED
  BY <1>4, <1>5, <1>6

LEMMA SizeOfOne ==
  ASSUME scfg \in SpillCfgs, NEW s \in Sequence
  PROVE  SizeOf({s}) = scfg.size[s] /\ scfg.size[s] \in Nat
<1> DEFINE f == scfg.size
           N == {}
<1>1. f[s] \in Nat
  BY SpillAssumption
<1>2. Addends(f, N) /\ s \notin N
  BY FS_EmptySet DEF Addends
<1>3. SizeOf({s}) = Total(f, {s})
  BY DEF SizeOf, Total
<1>4. Total(f, N) = 0
  BY TotalOfNone
<1>5. N \cup {s} = {s}
  OBVIOUS
<1> HIDE DEF f, N
<1>6. Total(f, N \cup {s}) = Total(f, N) + f[s]
  BY <1>1, <1>2, TotalAdd
<1>7. 0 + f[s] = f[s]
  BY <1>1, SMTT(60)
<1>8. QED
  BY <1>1, <1>3, <1>4, <1>5, <1>6, <1>7 DEF f

-----------------------------------------------------------------------------
(* The candidates of spill_excess                                             *)

\* The elements of s can be counted from the largest down.
Falling(q) == \A i, j \in DOMAIN q : i < j => q[i] > q[j]
Sortable(s) == \E q \in [1..Cardinality(s) -> s] : Falling(q)

LEMMA AllSortable ==
  ASSUME NEW S, S \subseteq Nat, IsFiniteSet(S)
  PROVE  Sortable(S)
<1> DEFINE T == {n \in Nat : \E s \in SUBSET S : Cardinality(s) = n /\ ~Sortable(s)}
<1>1. T = {}
  <2> SUFFICES ASSUME T # {} PROVE FALSE
    OBVIOUS
  <2>1. T \subseteq Nat
    OBVIOUS
  <2>2. PICK n \in T : \A m \in T : n <= m
    BY <2>1, Least
  <2>3. PICK s \in SUBSET S : Cardinality(s) = n /\ ~Sortable(s)
    OBVIOUS
  <2>4. n \in Nat
    OBVIOUS
  <2>5. s # {}
    <3>1. ASSUME s = {} PROVE FALSE
      <4> DEFINE q == [x \in {} |-> x]
      <4>1. Cardinality(s) = 0
        BY <3>1, FS_EmptySet
      <4>2. 1..0 = {}
        BY SMTT(60)
      <4>3. q \in [1..Cardinality(s) -> s] /\ Falling(q)
        BY <3>1, <4>1, <4>2 DEF Falling
      <4>4. QED
        BY <2>3, <4>3 DEF Sortable
    <3>2. QED
      BY <3>1
  <2>6. s \subseteq Nat
    OBVIOUS
  <2>7. PICK x \in s : \A y \in s : x <= y
    BY <2>5, <2>6, Least
  <2> DEFINE r == s \ {x}
  <2>8. r \in SUBSET S /\ Cardinality(r) \in Nat /\ Cardinality(r) = n - 1
    BY <2>3, OneLess
  <2>9. n - 1 \in Nat /\ ~(n <= n - 1)
    BY <2>4, <2>8, SMTT(60)
  <2>10. Sortable(r)
    BY <2>2, <2>8, <2>9
  <2> DEFINE k == n - 1
  <2>11. PICK p \in [1..k -> r] : Falling(p)
    BY <2>8, <2>10 DEF Sortable
  <2>12. k \in Nat /\ n = k + 1 /\ 1..n = (1..k) \cup {n} /\ n \notin 1..k
    BY <2>4, <2>9, SMTT(60)
  <2> HIDE DEF k
  <2> DEFINE q == [i \in 1..n |-> IF i = n THEN x ELSE p[i]]
  <2>13. q \in [1..n -> s]
    <3>1. \A i \in 1..n : i # n => i \in 1..k
      BY <2>12
    <3>2. QED
      BY <2>11, <3>1
  <2>14. Falling(q)
    <3> SUFFICES ASSUME NEW i \in 1..n, NEW j \in 1..n, i < j PROVE q[i] > q[j]
      BY DEF Falling
    <3>1. i # n /\ i \in 1..k
      BY <2>4, <2>12, SMTT(60)
    <3>2. q[i] = p[i] /\ p[i] \in s /\ p[i] # x
      BY <2>11, <3>1
    <3>3. CASE j = n
      <4>1. q[j] = x /\ x <= p[i] /\ x \in Nat /\ p[i] \in Nat
        BY <2>6, <2>7, <3>2, <3>3
      <4>2. p[i] > x
        BY <3>2, <4>1, SMTT(60)
      <4>3. QED
        BY <3>2, <4>1, <4>2
    <3>4. CASE j # n
      BY <2>11, <2>12, <3>1, <3>2, <3>4 DEF Falling
    <3>5. QED
      BY <3>3, <3>4
  <2> HIDE DEF q
  <2>15. QED
    BY <2>3, <2>13, <2>14 DEF Sortable
<1>2. Cardinality(S) \in Nat
  BY FS_CardinalityType
<1>3. QED
  BY <1>1, <1>2

\* They are results the ring holds.
LEMMA CandidatesAre ==
  ASSUME NEW b, NEW hot, Held(b.ring) \subseteq Sequence
  PROVE  Candidates(b, hot) \in Seq(Held(b.ring))
<1> DEFINE all == {s \in Held(b.ring) : s >= hot}
           q == Candidates(b, hot)
<1>1. all \subseteq Nat /\ IsFiniteSet(all)
  <2>1. all \subseteq Sequence
    OBVIOUS
  <2>2. Sequence \subseteq Nat
    BY SMTT(60) DEF Sequence
  <2>3. QED
    BY <2>1, <2>2, SequenceFinite
<1>2. Sortable(all)
  <2> HIDE DEF all
  <2>1. QED
    BY <1>1, AllSortable
<1>3. q \in [1..Cardinality(all) -> all]
  BY <1>2 DEF Candidates, Sortable, Falling
<1>4. Cardinality(all) \in Nat
  BY <1>1, FS_CardinalityType
<1> DEFINE H == Held(b.ring)
           n == Cardinality(all)
<1>5. q \in [1..n -> H] /\ n \in Nat
  BY <1>3, <1>4
<1> HIDE DEF H, n, q
<1>6. q \in Seq(H)
  BY <1>5, SMTT(60)
<1>7. QED
  BY <1>6 DEF H, q

-----------------------------------------------------------------------------
(* The overflow file                                                          *)

BufFields == {"ring", "mem", "index", "members", "file", "pos", "open"}
Tape(f) == Len(f) \in Nat /\ DOMAIN f = 1..Len(f)

\* g has the first p cells of f.
Extends(f, g, p) == \A i \in 1..p : i <= Len(f) => i <= Len(g) /\ g[i] = f[i]

\* The cells after the first p are rec.
Contains(f, p, rec) == p + Len(rec) <= Len(f) /\ \A i \in 1..Len(rec) : f[p + i] = rec[i]

\* A record of one item, and one of a batch, at offset o and before pos.
ItemAt(f, pos, o, s) ==
    o + 2 <= pos /\ o + 2 <= Len(f) /\ f[o + 1][1] = "item" /\ f[o + 2][2] = s
BatchAt(f, pos, o, q) ==
    /\ o + 1 + Len(q) <= pos /\ o + 1 + Len(q) <= Len(f) /\ f[o + 1][1] = "batch"
    /\ \A i \in 1..Len(q) : f[o + 1 + i][2] = q[i]

\* The index and the table of the batches agree, and describe the file.
Listed(index, members, f, pos, s) ==
    /\ index[s] \in Nat
    /\ IF index[s] \in DOMAIN members THEN s \in Range(members[index[s]])
       ELSE ItemAt(f, pos, index[s], s)
Batch(index, members, f, pos, o) ==
    /\ o \in Nat /\ members[o] \in Seq(Sequence) /\ members[o] # << >>
    /\ BatchAt(f, pos, o, members[o])
    /\ \A s \in Range(members[o]) : s \in DOMAIN index /\ index[s] = o
Records(index, members, f, pos) ==
    /\ \A s \in DOMAIN index : Listed(index, members, f, pos, s)
    /\ \A o \in DOMAIN members : Batch(index, members, f, pos, o)

LEMMA ItemStays ==
  ASSUME NEW f, NEW g, Tape(f), Tape(g), NEW p \in Nat, NEW n \in Nat, p <= n, Extends(f, g, p),
         NEW o \in Nat, NEW s, ItemAt(f, p, o, s)
  PROVE  ItemAt(g, n, o, s)
<1>1. o + 1 \in 1..p /\ o + 2 \in 1..p /\ o + 1 <= Len(f) /\ o + 2 <= Len(f) /\ o + 2 <= n
  BY SMTT(60) DEF ItemAt, Tape
<1>2. g[o + 1] = f[o + 1] /\ g[o + 2] = f[o + 2] /\ o + 2 <= Len(g)
  BY <1>1 DEF Extends
<1>3. QED
  BY <1>1, <1>2 DEF ItemAt

LEMMA BatchStays ==
  ASSUME NEW f, NEW g, Tape(f), Tape(g), NEW p \in Nat, NEW n \in Nat, p <= n, Extends(f, g, p),
         NEW o \in Nat, NEW q, Len(q) \in Nat, BatchAt(f, p, o, q)
  PROVE  BatchAt(g, n, o, q)
<1> DEFINE l == Len(q)
           m == Len(f)
<1>0. l \in Nat /\ m \in Nat /\ o + 1 + l <= p /\ o + 1 + l <= m
  BY DEF Tape, BatchAt
<1> HIDE DEF l, m
<1>1. /\ o + 1 \in 1..p /\ o + 1 <= m /\ o + 1 + l \in 1..p /\ o + 1 + l <= n
      /\ \A i \in 1..l : o + 1 + i \in 1..p /\ o + 1 + i <= m
  BY <1>0, SMTT(60)
<1>2. /\ g[o + 1] = f[o + 1] /\ o + 1 + l <= Len(g)
      /\ \A i \in 1..l : g[o + 1 + i] = f[o + 1 + i]
  BY <1>0, <1>1 DEF Extends, m
<1>3. QED
  BY <1>1, <1>2 DEF BatchAt, l

LEMMA RecordsStay ==
  ASSUME NEW f, NEW g, Tape(f), Tape(g), NEW p \in Nat, NEW n \in Nat, p <= n, Extends(f, g, p),
         NEW index, NEW members, Records(index, members, f, p)
  PROVE  Records(index, members, g, n)
<1>1. ASSUME NEW s \in DOMAIN index
      PROVE  Listed(index, members, g, n, s)
  <2>1. Listed(index, members, f, p, s)
    BY DEF Records
  <2>2. CASE index[s] \in DOMAIN members
    BY <2>1, <2>2 DEF Listed
  <2>3. CASE index[s] \notin DOMAIN members
    <3>1. index[s] \in Nat /\ ItemAt(f, p, index[s], s)
      BY <2>1, <2>3 DEF Listed
    <3>2. ItemAt(g, n, index[s], s)
      BY <3>1, ItemStays
    <3>3. QED
      BY <2>3, <3>1, <3>2 DEF Listed
  <2>4. QED
    BY <2>2, <2>3
<1>2. ASSUME NEW o \in DOMAIN members
      PROVE  Batch(index, members, g, n, o)
  <2>1. Batch(index, members, f, p, o)
    BY DEF Records
  <2>2. o \in Nat /\ Len(members[o]) \in Nat /\ BatchAt(f, p, o, members[o])
    <3>1. members[o] \in Seq(Sequence)
      BY <2>1 DEF Batch
    <3>2. Len(members[o]) \in Nat
      BY <3>1, SMTT(60)
    <3>3. QED
      BY <2>1, <3>2 DEF Batch
  <2>3. BatchAt(g, n, o, members[o])
    BY <2>2, BatchStays
  <2>4. QED
    BY <2>1, <2>3 DEF Batch
<1>3. QED
  BY <1>1, <1>2 DEF Records

\* What Overwrite leaves and what it puts there.
LEMMA Overwritten ==
  ASSUME NEW f, Tape(f), NEW p \in Nat, NEW cells, Tape(cells)
  PROVE  LET g == Overwrite(f, p, cells)
         IN  Tape(g) /\ Extends(f, g, p) /\ Contains(g, p, cells)
<1> DEFINE g == Overwrite(f, p, cells)
           m == Len(f)
           k == Len(cells)
           n == Larger(m, p + k)
<1>1. m \in Nat /\ k \in Nat
  BY DEF Tape
<1>2. n \in Nat /\ m <= n /\ p + k <= n
  <2> HIDE DEF m, k
  <2>1. QED
    BY <1>1, SMTT(60) DEF Larger
<1>3. g = [i \in 1..n |-> IF i \in p + 1..p + k THEN cells[i - p]
                          ELSE IF i <= m THEN f[i] ELSE Hole]
  BY DEF Overwrite
<1> HIDE DEF m, k, n, g
<1>4. DOMAIN g = 1..n /\ Len(g) = n
  <2>1. DOMAIN g = 1..n
    BY <1>3
  <2>2. QED
    BY <1>2, <1>3, SMTT(60)
<1>5. Tape(g)
  BY <1>2, <1>4 DEF Tape
<1>6. ASSUME NEW i \in 1..p, i <= m
      PROVE  i <= n /\ g[i] = f[i]
  <2>1. i \in 1..n /\ i <= n /\ i \notin p + 1..p + k
    BY <1>1, <1>2, <1>6, SMTT(60)
  <2>2. QED
    BY <1>3, <1>6, <2>1
<1>7. ASSUME NEW i \in 1..k
      PROVE  g[p + i] = cells[i]
  <2>1. p + i \in 1..n /\ p + i \in p + 1..p + k /\ (p + i) - p = i
    BY <1>1, <1>2, SMTT(60)
  <2>2. QED
    BY <1>3, <2>1
<1>8. QED
  BY <1>2, <1>4, <1>5, <1>6, <1>7 DEF Extends, Contains, g, m, k

\* The parts of the buffer that a write leaves alone, and the shape of it.
Shape(b) == /\ DOMAIN b = BufFields /\ b.pos \in Nat /\ b.open \in BOOLEAN /\ Tape(b.file)
Untouched(b, c) == c.ring = b.ring /\ c.mem = b.mem /\ c.index = b.index

\* What a write may return: the records are there as before, and so is the new
\* one when the result is ok.
Stored(b, w, rec) ==
    /\ DOMAIN w = {"buf", "res"} /\ Shape(w.buf) /\ Untouched(b, w.buf)
    /\ Records(w.buf.index, w.buf.members, w.buf.file, w.buf.pos)
    /\ w.res = "ok" => Contains(w.buf.file, w.buf.pos, rec)

LEMMA Prefix ==
  ASSUME NEW X, NEW rec \in Seq(X), NEW n \in 0..Len(rec)
  PROVE  /\ Tape(SubSeq(rec, 1, n)) /\ SubSeq(rec, 1, Len(rec)) = rec
         /\ Tape(rec) /\ Len(rec) \in 0..Len(rec)
         /\ Len(rec) - 1 \in Int /\ 0..Len(rec) - 1 \subseteq 0..Len(rec)
<1>1. Tape(rec) /\ Len(rec) \in 0..Len(rec) /\ Len(rec) - 1 \in Int /\ 0..Len(rec) - 1 \subseteq 0..Len(rec)
  BY SMTT(60) DEF Tape
<1>2. SubSeq(rec, 1, n) \in Seq(X)
  BY SMTT(60)
<1>3. Tape(SubSeq(rec, 1, n))
  <2> DEFINE q == SubSeq(rec, 1, n)
  <2> HIDE DEF q
  <2>1. q \in Seq(X)
    BY <1>2 DEF q
  <2>2. Tape(q)
    BY <2>1, SMTT(60) DEF Tape
  <2>3. QED
    BY <2>2 DEF q
<1>4. SubSeq(rec, 1, Len(rec)) = rec
  BY SMTT(60)
<1>5. QED
  BY <1>1, <1>3, <1>4

LEMMA WriteStores ==
  ASSUME NEW b, Shape(b), Records(b.index, b.members, b.file, b.pos),
         NEW X, NEW rec \in Seq(X), NEW w \in WriteRecord(b, rec)
  PROVE  Stored(b, w, rec)
<1> DEFINE write(n) == [b EXCEPT !.open = TRUE,
                                 !.file = Overwrite(@, b.pos, SubSeq(rec, 1, n))]
<1>1. ASSUME NEW n \in 0..Len(rec), NEW v, v = write(n)
      PROVE  /\ Shape(v) /\ Untouched(b, v) /\ Records(v.index, v.members, v.file, v.pos)
             /\ Contains(v.file, v.pos, SubSeq(rec, 1, n))
  <2> DEFINE g == Overwrite(b.file, b.pos, SubSeq(rec, 1, n))
             cells == SubSeq(rec, 1, n)
  <2>1. /\ DOMAIN v = BufFields /\ Untouched(b, v) /\ v.pos = b.pos /\ v.file = g
        /\ v.open = TRUE /\ v.index = b.index /\ v.members = b.members
    BY <1>1 DEF Shape, BufFields, Untouched
  <2>2. Tape(cells)
    BY Prefix
  <2>3. b.pos \in Nat /\ Tape(b.file) /\ b.pos <= b.pos
    <3>1. b.pos \in Nat /\ Tape(b.file)
      BY DEF Shape
    <3>2. QED
      BY <3>1, SMTT(60)
  <2>4. Tape(g) /\ Extends(b.file, g, b.pos) /\ Contains(g, b.pos, cells)
    BY <2>2, <2>3, Overwritten
  <2> HIDE DEF g, cells
  <2>5. Records(b.index, b.members, g, b.pos)
    BY <2>3, <2>4, RecordsStay
  <2>6. QED
    BY <2>1, <2>3, <2>4, <2>5 DEF Shape, cells
<1>2. CASE w = [buf |-> write(Len(rec)), res |-> "ok"]
  <2>1. Len(rec) \in 0..Len(rec) /\ SubSeq(rec, 1, Len(rec)) = rec
    <3>1. 0 \in 0..Len(rec)
      BY SMTT(60)
    <3>2. QED
      BY <3>1, Prefix
  <2>2. DOMAIN w = {"buf", "res"} /\ w.buf = write(Len(rec))
    BY <1>2
  <2> HIDE DEF write
  <2>3. /\ Shape(w.buf) /\ Untouched(b, w.buf)
        /\ Records(w.buf.index, w.buf.members, w.buf.file, w.buf.pos)
        /\ Contains(w.buf.file, w.buf.pos, SubSeq(rec, 1, Len(rec)))
    BY <1>1, <2>1, <2>2
  <2>4. QED
    BY <2>1, <2>2, <2>3 DEF Stored
<1>3. ASSUME NEW n \in 0..Len(rec) - 1, w = [buf |-> write(n), res |-> "io"]
      PROVE  Stored(b, w, rec)
  <2>1. n \in 0..Len(rec)
    BY SMTT(60)
  <2>2. DOMAIN w = {"buf", "res"} /\ w.buf = write(n) /\ w.res = "io"
    BY <1>3
  <2> HIDE DEF write
  <2>3. /\ Shape(w.buf) /\ Untouched(b, w.buf)
        /\ Records(w.buf.index, w.buf.members, w.buf.file, w.buf.pos)
    BY <1>1, <2>1, <2>2
  <2>4. "io" # "ok"
    OBVIOUS
  <2>5. QED
    BY <2>2, <2>3, <2>4 DEF Stored
<1>4. CASE w = [buf |-> b, res |-> "notfound"]
  <2>1. DOMAIN w = {"buf", "res"} /\ w.buf = b /\ w.res # "ok"
    BY <1>4
  <2>2. QED
    BY <2>1 DEF Stored, Untouched
<1>5. QED
  BY <1>2, <1>3, <1>4 DEF WriteRecord

LEMMA NoRecords ==
  ASSUME NEW index, NEW members, NEW f, NEW pos, Records(index, members, f, pos), DOMAIN index = {}
  PROVE  DOMAIN members = {}
<1> SUFFICES ASSUME NEW o \in DOMAIN members PROVE FALSE
  OBVIOUS
<1>1. /\ members[o] \in Seq(Sequence) /\ members[o] # << >>
      /\ \A s \in Range(members[o]) : s \in DOMAIN index
  BY DEF Records, Batch
<1>2. Head(members[o]) \in Range(members[o])
  <2>1. 1 \in DOMAIN members[o] /\ members[o][1] = Head(members[o])
    BY <1>1, SMTT(60)
  <2>2. QED
    BY <2>1 DEF Range
<1>3. QED
  BY <1>1, <1>2

LEMMA StoreStores ==
  ASSUME NEW b, Shape(b), Records(b.index, b.members, b.file, b.pos),
         NEW X, NEW rec \in Seq(X), NEW w \in StoreRecord(b, rec)
  PROVE  Stored(b, w, rec)
<1>1. PICK v \in WriteRecord(b, rec) :
         w \in IF v.res # "notfound" \/ ~scfg.dir THEN {v}
               ELSE IF b.index # << >> THEN {[v EXCEPT !.res = "lost"]}
               ELSE {[buf |-> DropFile(b), res |-> "io"]} \cup WriteRecord(Recreate(b), rec)
  BY DEF StoreRecord
<1>2. Stored(b, v, rec)
  BY WriteStores
<1>3. CASE w = v
  BY <1>2, <1>3
<1>4. CASE w = [v EXCEPT !.res = "lost"]
  <2>1. DOMAIN v = {"buf", "res"}
    BY <1>2 DEF Stored
  <2>2. DOMAIN w = {"buf", "res"} /\ w.buf = v.buf /\ w.res = "lost"
    BY <1>4, <2>1
  <2>3. "lost" # "ok"
    OBVIOUS
  <2>4. QED
    BY <1>2, <2>2, <2>3 DEF Stored
<1>5. DOMAIN << >> = {}
  BY SMTT(60)
<1>6. Tape(<< >>)
  BY SMTT(60) DEF Tape
<1>7. CASE b.index = << >> /\ w = [buf |-> DropFile(b), res |-> "io"]
  <2>1. /\ DOMAIN w = {"buf", "res"} /\ w.buf = DropFile(b) /\ w.res = "io"
    BY <1>7
  <2>2. /\ DOMAIN DropFile(b) = BufFields /\ DropFile(b).pos = b.pos /\ DropFile(b).open = FALSE
        /\ DropFile(b).file = << >> /\ Untouched(b, DropFile(b))
        /\ DropFile(b).members = b.members /\ DropFile(b).index = b.index
    BY DEF DropFile, Shape, BufFields, Untouched
  <2>3. DOMAIN b.index = {}
    BY <1>5, <1>7
  <2>4. DOMAIN b.members = {}
    BY <2>3, NoRecords
  <2>5. "io" # "ok"
    OBVIOUS
  <2>6. QED
    BY <1>6, <2>1, <2>2, <2>3, <2>4, <2>5 DEF Stored, Shape, Records
<1>8. CASE b.index = << >> /\ w \in WriteRecord(Recreate(b), rec)
  <2> DEFINE r == Recreate(b)
  <2>1. /\ DOMAIN r = BufFields /\ r.pos = 0 /\ r.open = FALSE /\ r.file = << >>
        /\ r.members = << >> /\ r.index = << >> /\ r.ring = b.ring /\ r.mem = b.mem
    BY DEF Recreate, DropFile, Shape, BufFields
  <2> HIDE DEF r
  <2>2. 0 \in Nat
    BY SMTT(60)
  <2>3. Shape(r)
    BY <1>6, <2>1, <2>2 DEF Shape
  <2>4. Records(r.index, r.members, r.file, r.pos)
    BY <1>5, <2>1 DEF Records
  <2>5. w \in WriteRecord(r, rec)
    BY <1>8 DEF r
  <2>6. Stored(r, w, rec)
    BY <2>3, <2>4, <2>5, WriteStores
  <2>7. QED
    BY <1>8, <2>1, <2>6 DEF Stored, Untouched
<1>9. QED
  BY <1>1, <1>3, <1>4, <1>7, <1>8

\* A record that is complete goes into the index.
LEMMA RecordsBelow ==
  ASSUME NEW index, NEW members, NEW f, NEW pos \in Nat, Records(index, members, f, pos)
  PROVE  /\ \A s \in DOMAIN index : index[s] \in Nat /\ index[s] < pos
         /\ \A o \in DOMAIN members : o \in Nat /\ o < pos
<1>1. ASSUME NEW o \in DOMAIN members
      PROVE  o \in Nat /\ o < pos
  <2>1. o \in Nat /\ members[o] \in Seq(Sequence) /\ o + 1 + Len(members[o]) <= pos
    BY DEF Records, Batch, BatchAt
  <2>2. Len(members[o]) \in Nat
    BY <2>1, SMTT(60)
  <2> DEFINE l == Len(members[o])
  <2>3. l \in Nat /\ o + 1 + l <= pos
    BY <2>1, <2>2
  <2> HIDE DEF l
  <2>4. o < pos
    BY <2>1, <2>3, SMTT(60)
  <2>5. QED
    BY <2>1, <2>4
<1>2. ASSUME NEW s \in DOMAIN index
      PROVE  index[s] \in Nat /\ index[s] < pos
  <2>1. index[s] \in Nat /\ (index[s] \in DOMAIN members \/ index[s] + 2 <= pos)
    BY DEF Records, Listed, ItemAt
  <2>2. CASE index[s] \in DOMAIN members
    BY <1>1, <2>2
  <2>3. CASE index[s] + 2 <= pos
    BY <2>1, <2>3, SMTT(60)
  <2>4. QED
    BY <2>1, <2>2, <2>3
<1>3. QED
  BY <1>1, <1>2

LEMMA ItemAdded ==
  ASSUME NEW index, NEW members, NEW f, Tape(f), NEW p \in Nat, Records(index, members, f, p),
         NEW s \in Sequence, s \notin DOMAIN index, Contains(f, p, ItemRecord(s))
  PROVE  Records(With(index, {s}, p), members, f, p + 2)
<1> DEFINE new == With(index, {s}, p)
           n == p + 2
<1>1. n \in Nat /\ p <= n
  BY SMTT(60)
<1>2. Extends(f, f, p)
  BY DEF Extends
<1>3. /\ DOMAIN new = DOMAIN index \cup {s} /\ new[s] = p
      /\ \A x \in DOMAIN index : new[x] = index[x]
  BY DEF With
<1>4. ItemAt(f, p + 2, p, s)
  <2>1. /\ Len(ItemRecord(s)) = 2 /\ ItemRecord(s)[1] = <<"item", 1>> /\ ItemRecord(s)[2] = <<"data", s>>
        /\ 1 \in 1..2 /\ 2 \in 1..2
    BY SMTT(60) DEF ItemRecord
  <2>2. p + 2 <= Len(f) /\ f[p + 1] = <<"item", 1>> /\ f[p + 2] = <<"data", s>>
    BY <2>1 DEF Contains
  <2>3. p + 2 <= p + 2
    BY SMTT(60)
  <2>4. f[p + 1][1] = "item" /\ f[p + 2][2] = s
    BY <2>2, SMTT(60)
  <2>5. QED
    BY <2>2, <2>3, <2>4 DEF ItemAt
<1>5. p \notin DOMAIN members
  <2>1. ~(p < p)
    BY SMTT(60)
  <2>2. QED
    BY <2>1, RecordsBelow
<1> HIDE DEF n
<1>6. Records(index, members, f, n)
  BY <1>1, <1>2, RecordsStay
<1> HIDE DEF new
<1>7. ASSUME NEW x \in DOMAIN new
      PROVE  Listed(new, members, f, n, x)
  <2>1. CASE x = s
    BY <1>3, <1>4, <1>5, <2>1 DEF Listed, n
  <2>2. CASE x \in DOMAIN index
    <3>1. Listed(index, members, f, n, x)
      BY <1>6, <2>2 DEF Records
    <3>2. QED
      BY <1>3, <2>2, <3>1 DEF Listed
  <2>3. QED
    BY <1>3, <2>1, <2>2
<1>8. ASSUME NEW o \in DOMAIN members
      PROVE  Batch(new, members, f, n, o)
  <2>1. Batch(index, members, f, n, o)
    BY <1>6 DEF Records
  <2>2. QED
    BY <1>3, <2>1 DEF Batch
<1>9. QED
  BY <1>7, <1>8 DEF Records, new, n

Cells == {"item", "batch", "data"} \X Nat

LEMMA BatchRecordIs ==
  ASSUME NEW q \in Seq(Sequence)
  PROVE  /\ BatchRecord(q) \in Seq(Cells)
         /\ Len(BatchRecord(q)) = 1 + Len(q) /\ BatchRecord(q)[1] = <<"batch", Len(q)>>
         /\ \A i \in 1..Len(q) : BatchRecord(q)[1 + i] = <<"data", q[i]>>
<1> DEFINE l == Len(q)
           data == [i \in 1..l |-> <<"data", q[i]>>]
           a == <<"batch", l>>
<1>1. l \in Nat /\ \A i \in 1..l : q[i] \in Sequence
  BY SMTT(60)
<1>2. Sequence \subseteq Nat
  BY SpillAssumption, SMTT(60) DEF Sequence
<1>3. /\ a \in Cells
      /\ \A i \in 1..l : data[i] \in Cells /\ data[i] = <<"data", q[i]>>
  BY <1>1, <1>2 DEF Cells
<1>4. data \in [1..l -> Cells]
  BY <1>3
<1>5. BatchRecord(q) = <<a>> \o data
  BY DEF BatchRecord
<1> HIDE DEF l, data, a
<1>6. data \in Seq(Cells) /\ Len(data) = l
  BY <1>1, <1>4, SMTT(60)
<1>7. /\ <<a>> \o data \in Seq(Cells) /\ Len(<<a>> \o data) = 1 + Len(data) /\ (<<a>> \o data)[1] = a
      /\ \A i \in 1..Len(data) : (<<a>> \o data)[1 + i] = data[i]
  <2>1. a \in Cells /\ data \in Seq(Cells)
    BY <1>3, <1>6
  <2> HIDE DEF Cells
  <2>2. QED
    BY <2>1, SMTT(60)
<1>8. QED
  BY <1>3, <1>5, <1>6, <1>7 DEF l, a

LEMMA BatchAdded ==
  ASSUME NEW index, NEW members, NEW f, Tape(f), NEW p \in Nat, Records(index, members, f, p),
         NEW q \in Seq(Sequence), q # << >>, Range(q) \cap DOMAIN index = {},
         Contains(f, p, BatchRecord(q))
  PROVE  Records(With(index, Range(q), p), With(members, {p}, q), f, p + 1 + Len(q))
<1> DEFINE new == With(index, Range(q), p)
           mem == With(members, {p}, q)
           l == Len(q)
           n == p + 1 + Len(q)
           rec == BatchRecord(q)
<1>0. l \in Nat /\ DOMAIN q = 1..l
  BY SMTT(60)
<1>1. n \in Nat /\ p <= n
  <2>1. n = p + 1 + l
    OBVIOUS
  <2> HIDE DEF l, n
  <2>2. QED
    BY <1>0, <2>1, SMTT(60)
<1>2. Extends(f, f, p)
  BY DEF Extends
<1>3. /\ DOMAIN new = DOMAIN index \cup Range(q) /\ \A x \in Range(q) : new[x] = p
      /\ \A x \in DOMAIN index : new[x] = index[x]
  BY DEF With
<1>4. /\ p \notin DOMAIN members
      /\ \A x \in DOMAIN index : index[x] # p
  <2>1. ~(p < p)
    BY SMTT(60)
  <2>2. QED
    BY <2>1, RecordsBelow
<1>5. /\ DOMAIN mem = DOMAIN members \cup {p} /\ mem[p] = q
      /\ \A o \in DOMAIN members : mem[o] = members[o]
  BY <1>4 DEF With
<1>6. BatchAt(f, n, p, q)
  <2>1. /\ Len(rec) = 1 + l /\ rec[1] = <<"batch", l>>
        /\ \A i \in 1..l : rec[1 + i] = <<"data", q[i]>>
    BY BatchRecordIs
  <2>2. Contains(f, p, rec)
    OBVIOUS
  <2> HIDE DEF rec, l
  <2>6. /\ p + (1 + l) = p + 1 + l /\ 1 \in 1..1 + l
        /\ \A i \in 1..l : 1 + i \in 1..1 + l /\ p + (1 + i) = p + 1 + i
    BY <1>0, SMTT(60)
  <2>7. /\ p + 1 + l <= Len(f) /\ f[p + 1] = <<"batch", l>>
        /\ \A i \in 1..l : f[p + 1 + i] = <<"data", q[i]>>
    BY <2>1, <2>2, <2>6 DEF Contains
  <2>8. f[p + 1][1] = "batch" /\ \A i \in 1..l : f[p + 1 + i][2] = q[i]
    <3>1. \A x : <<"data", x>>[2] = x /\ <<"batch", x>>[1] = "batch"
      BY SMTT(60)
    <3>2. QED
      BY <2>7, <3>1
  <2>9. n <= n
    BY <1>1, SMTT(60)
  <2>10. QED
    BY <2>7, <2>8, <2>9 DEF BatchAt, n, l
<1> HIDE DEF n, l, rec
<1>7. Records(index, members, f, n)
  BY <1>1, <1>2, RecordsStay
<1> HIDE DEF new, mem
<1>8. ASSUME NEW x \in DOMAIN new
      PROVE  Listed(new, mem, f, n, x)
  <2>1. CASE x \in Range(q)
    BY <1>3, <1>5, <2>1 DEF Listed
  <2>2. CASE x \in DOMAIN index
    <3>1. Listed(index, members, f, n, x)
      BY <1>7, <2>2 DEF Records
    <3>2. new[x] = index[x] /\ index[x] # p
      BY <1>3, <1>4, <2>2
    <3>3. QED
      BY <1>5, <3>1, <3>2 DEF Listed
  <2>3. QED
    BY <1>3, <2>1, <2>2
<1>9. ASSUME NEW o \in DOMAIN mem
      PROVE  Batch(new, mem, f, n, o)
  <2>1. CASE o = p
    BY <1>3, <1>5, <1>6, <2>1 DEF Batch
  <2>2. CASE o \in DOMAIN members
    <3>1. Batch(index, members, f, n, o)
      BY <1>7, <2>2 DEF Records
    <3>2. QED
      BY <1>3, <1>5, <2>2, <3>1 DEF Batch
  <2>3. QED
    BY <1>5, <2>1, <2>2
<1>10. QED
  BY <1>8, <1>9 DEF Records, new, mem, n

-----------------------------------------------------------------------------
(* Moving results to the file                                                 *)

\* The ring and the index: no result is in both, the window reaches the spilled
\* ones, and memory_used is what the ring holds.
Base(b) ==
    /\ Shape(b) /\ Ring(b.ring)
    /\ Held(b.ring) \subseteq Sequence /\ DOMAIN b.index \subseteq Sequence
    /\ DOMAIN b.index \subseteq Window(b.ring)
    /\ Held(b.ring) \cap DOMAIN b.index = {}
    /\ b.mem = SizeOf(Held(b.ring))
    /\ \A s \in DOMAIN b.index : b.index[s] < b.pos

Described(b) == Records(b.index, b.members, b.file, b.pos)

\* The same results, wherever they are.
SameResults(b, c) ==
    /\ c.ring.next = b.ring.next
    /\ Held(c.ring) \cup DOMAIN c.index = Held(b.ring) \cup DOMAIN b.index

\* The results of S are taken, and what a write makes of that.
Taken(b, S) == [b EXCEPT !.ring = TakeAll(@, S)]

LEMMA TakenShape ==
  ASSUME NEW b, Base(b), Described(b), NEW S
  PROVE  /\ Shape(Taken(b, S)) /\ Described(Taken(b, S))
         /\ Taken(b, S).ring = TakeAll(b.ring, S)
         /\ Taken(b, S).mem = b.mem /\ Taken(b, S).index = b.index
<1> DEFINE t == Taken(b, S)
<1>1. /\ DOMAIN t = BufFields /\ t.ring = TakeAll(b.ring, S) /\ t.mem = b.mem /\ t.index = b.index
      /\ t.members = b.members /\ t.file = b.file /\ t.pos = b.pos /\ t.open = b.open
  BY DEF Taken, Base, Shape, BufFields
<1> HIDE DEF t
<1>2. QED
  BY <1>1 DEF t, Base, Shape, Described

LEMMA Restored ==
  ASSUME scfg \in SpillCfgs, NEW b, Base(b), NEW S, S \subseteq Held(b.ring),
         NEW c, Shape(c), Described(c), c.index = b.index, c.mem = b.mem,
         c.ring = ForceAll(TakeAll(b.ring, S), S)
  PROVE  Base(c) /\ SameResults(b, c)
<1> DEFINE t == TakeAll(b.ring, S)
           r == ForceAll(t, S)
<1>1. Ring(b.ring)
  BY DEF Base
<1>2. Ring(t) /\ Alike(b.ring, t) /\ Held(t) = Held(b.ring) \ S
  BY <1>1, TakeAllHolds
<1>3. S \subseteq Window(t)
  <2>1. Held(b.ring) \subseteq Window(b.ring)
    BY <1>1, RingWindow
  <2>2. Window(t) = Window(b.ring)
    BY <1>2 DEF Alike, Window
  <2>3. QED
    BY <2>1, <2>2
<1> HIDE DEF t
<1>4. Ring(r) /\ Alike(t, r) /\ Held(r) = Held(t) \cup S
  BY <1>2, <1>3, ForceAllHolds
<1>5. c.ring = r
  BY DEF t
<1> HIDE DEF r
<1>6. Held(r) = Held(b.ring) /\ r.next = b.ring.next /\ Window(r) = Window(b.ring)
  BY <1>2, <1>4 DEF Alike, Window
<1>7. \A s \in DOMAIN c.index : c.index[s] < c.pos
  <2>1. c.pos \in Nat
    BY DEF Shape
  <2>2. QED
    BY <2>1, RecordsBelow DEF Described
<1>8. QED
  BY <1>4, <1>5, <1>6, <1>7 DEF Base, SameResults

LEMMA MovedOut ==
  ASSUME scfg \in SpillCfgs, NEW b, Base(b), NEW S, S \subseteq Held(b.ring),
         NEW c, Shape(c), Described(c), NEW p, c.index = With(b.index, S, p),
         c.ring = TakeAll(b.ring, S), c.mem = b.mem - SizeOf(S)
  PROVE  Base(c) /\ SameResults(b, c)
<1> DEFINE t == TakeAll(b.ring, S)
           rest == Held(b.ring) \ S
<1>1. Ring(b.ring) /\ Held(b.ring) \subseteq Sequence /\ Held(b.ring) \cap DOMAIN b.index = {}
  BY DEF Base
<1>2. Ring(t) /\ Alike(b.ring, t) /\ Held(t) = rest
  BY <1>1, TakeAllHolds
<1>3. Held(b.ring) \subseteq Window(b.ring)
  BY <1>1, RingWindow
<1>4. Window(t) = Window(b.ring) /\ t.next = b.ring.next
  BY <1>2 DEF Alike, Window
<1>5. c.ring = t
  OBVIOUS
<1> HIDE DEF t
<1>6. DOMAIN c.index = DOMAIN b.index \cup S
  BY DEF With
<1>7. c.mem = SizeOf(rest)
  <2>1. S \subseteq Sequence /\ rest \subseteq Sequence /\ rest \cap S = {} /\ S \cap rest = {}
        /\ rest \cup S = Held(b.ring)
    BY <1>1
  <2> HIDE DEF rest
  <2>2. SizeOf(rest) \in Nat /\ SizeOf(rest \cup S) = SizeOf(rest) + SizeOf(S)
    BY <2>1, SizesAdd
  <2>3. SizeOf(S) \in Nat
    BY <2>1, SizesAdd
  <2>4. c.mem = (SizeOf(rest) + SizeOf(S)) - SizeOf(S)
    BY <2>1, <2>2 DEF Base
  <2> DEFINE x == SizeOf(rest)
             y == SizeOf(S)
  <2>5. x \in Nat /\ y \in Nat
    BY <2>2, <2>3
  <2> HIDE DEF x, y
  <2>6. (x + y) - y = x
    BY <2>5, SMTT(60)
  <2>7. QED
    BY <2>4, <2>6 DEF x, y
<1>8. \A s \in DOMAIN c.index : c.index[s] < c.pos
  <2>1. c.pos \in Nat
    BY DEF Shape
  <2>2. QED
    BY <2>1, RecordsBelow DEF Described
<1>9. /\ DOMAIN c.index \subseteq Sequence /\ DOMAIN c.index \subseteq Window(b.ring)
      /\ rest \cap DOMAIN c.index = {} /\ rest \subseteq Sequence
      /\ rest \cup DOMAIN c.index = Held(b.ring) \cup DOMAIN b.index
  BY <1>1, <1>3, <1>6 DEF Base
<1>10. QED
  BY <1>2, <1>4, <1>5, <1>7, <1>8, <1>9 DEF Base, SameResults

\* What the caller of a spill gets back.
Spilled(b, w) == Base(w.buf) /\ Described(w.buf) /\ SameResults(b, w.buf)

LEMMA SpillItemKeeps ==
  ASSUME scfg \in SpillCfgs, NEW b, Base(b), Described(b), NEW s \in Held(b.ring),
         NEW w \in SpillItem(b, s)
  PROVE  Spilled(b, w)
<1> DEFINE t == Taken(b, {s})
           rec == ItemRecord(s)
<1>1. PICK v \in StoreRecord(t, rec) :
         w = IF v.res = "ok"
             THEN [v EXCEPT !.buf.index = With(@, {s}, v.buf.pos), !.buf.pos = @ + 2,
                            !.buf.mem = @ - scfg.size[s]]
             ELSE [v EXCEPT !.buf.ring = ForceAll(@, {s})]
  BY DEF SpillItem, Taken
<1>2. /\ Shape(t) /\ Described(t) /\ t.ring = TakeAll(b.ring, {s}) /\ t.mem = b.mem
      /\ t.index = b.index
  BY TakenShape
<1>3. s \in Sequence /\ s \notin DOMAIN b.index /\ {s} \subseteq Held(b.ring)
  BY DEF Base
<1>4. rec \in Seq({<<"item", 1>>, <<"data", s>>})
  BY SMTT(60) DEF ItemRecord
<1> HIDE DEF t, rec
<1>5. Records(t.index, t.members, t.file, t.pos)
  BY <1>2 DEF Described
<1>6. Stored(t, v, rec)
  BY <1>2, <1>4, <1>5, StoreStores
<1> DEFINE u == v.buf
<1>7. /\ DOMAIN v = {"buf", "res"} /\ Shape(u) /\ u.ring = TakeAll(b.ring, {s}) /\ u.mem = b.mem
      /\ u.index = b.index /\ Records(u.index, u.members, u.file, u.pos)
      /\ v.res = "ok" => Contains(u.file, u.pos, rec)
  BY <1>2, <1>6 DEF Stored, Untouched
<1>8. DOMAIN u = BufFields /\ u.pos \in Nat /\ Tape(u.file) /\ u.open \in BOOLEAN
  BY <1>7 DEF Shape
<1> DEFINE c == w.buf
<1>9. CASE v.res = "ok"
  <2>1. /\ DOMAIN c = BufFields /\ c.index = With(u.index, {s}, u.pos) /\ c.pos = u.pos + 2
        /\ c.mem = u.mem - scfg.size[s] /\ c.ring = u.ring /\ c.file = u.file
        /\ c.open = u.open /\ c.members = u.members
    BY <1>1, <1>7, <1>8, <1>9 DEF BufFields
  <2> HIDE DEF c, u
  <2>2. Records(With(u.index, {s}, u.pos), u.members, u.file, u.pos + 2)
    <3>1. Contains(u.file, u.pos, ItemRecord(s)) /\ s \notin DOMAIN u.index
      BY <1>3, <1>7, <1>9 DEF rec
    <3>2. QED
      BY <1>3, <1>7, <1>8, <3>1, ItemAdded
  <2>3. u.pos + 2 \in Nat
    BY <1>8, SMTT(60)
  <2>4. Shape(c) /\ Described(c)
    BY <1>8, <2>1, <2>2, <2>3 DEF Shape, Described
  <2>5. c.mem = b.mem - SizeOf({s}) /\ c.index = With(b.index, {s}, u.pos) /\ c.ring = TakeAll(b.ring, {s})
    BY <1>3, <1>7, <2>1, SizeOfOne
  <2>6. Base(c) /\ SameResults(b, c)
    BY <1>3, <2>4, <2>5, MovedOut
  <2>7. QED
    BY <2>4, <2>6 DEF Spilled, c
<1>10. CASE v.res # "ok"
  <2>1. /\ DOMAIN c = BufFields /\ c.index = u.index /\ c.pos = u.pos
        /\ c.mem = u.mem /\ c.ring = ForceAll(u.ring, {s}) /\ c.file = u.file
        /\ c.open = u.open /\ c.members = u.members
    BY <1>1, <1>7, <1>8, <1>10 DEF BufFields
  <2> HIDE DEF c, u
  <2>2. Shape(c) /\ Described(c)
    BY <1>7, <1>8, <2>1 DEF Shape, Described
  <2>3. c.ring = ForceAll(TakeAll(b.ring, {s}), {s}) /\ c.index = b.index /\ c.mem = b.mem
    BY <1>7, <2>1
  <2>4. Base(c) /\ SameResults(b, c)
    BY <1>3, <2>2, <2>3, Restored
  <2>5. QED
    BY <2>2, <2>4 DEF Spilled, c
<1>11. QED
  BY <1>9, <1>10

LEMMA SpillBatchKeeps ==
  ASSUME scfg \in SpillCfgs, NEW b, Base(b), Described(b), NEW q \in Seq(Held(b.ring)), q # << >>,
         NEW w \in SpillBatch(b, q)
  PROVE  Spilled(b, w)
<1> DEFINE S == Range(q)
           t == Taken(b, S)
           rec == BatchRecord(q)
<1>1. PICK v \in StoreRecord(t, rec) :
         w = IF v.res = "ok"
             THEN [v EXCEPT !.buf.index = With(@, S, v.buf.pos),
                            !.buf.members = With(@, {v.buf.pos}, q),
                            !.buf.pos = @ + 1 + Len(q),
                            !.buf.mem = @ - SizeOf(S)]
             ELSE [v EXCEPT !.buf.ring = ForceAll(@, S)]
  BY DEF SpillBatch, Taken
<1>2. /\ Shape(t) /\ Described(t) /\ t.ring = TakeAll(b.ring, S) /\ t.mem = b.mem
      /\ t.index = b.index
  BY TakenShape
<1>3. S \subseteq Held(b.ring) /\ S \cap DOMAIN b.index = {} /\ q \in Seq(Sequence) /\ Len(q) \in Nat
  <2>1. Len(q) \in Nat /\ \A i \in DOMAIN q : q[i] \in Held(b.ring)
    BY SMTT(60)
  <2>2. S \subseteq Held(b.ring)
    BY <2>1 DEF Range
  <2>3. Held(b.ring) \subseteq Sequence /\ Held(b.ring) \cap DOMAIN b.index = {}
    BY DEF Base
  <2>4. q \in Seq(Sequence)
    <3> DEFINE H == Held(b.ring)
    <3>1. H \subseteq Sequence /\ q \in Seq(H)
      BY <2>3
    <3> HIDE DEF H
    <3>2. QED
      BY <3>1, SMTT(60)
  <2>5. QED
    BY <2>1, <2>2, <2>3, <2>4
<1>4. rec \in Seq(Cells)
  BY <1>3, BatchRecordIs
<1> HIDE DEF t, rec, S
<1>5. Records(t.index, t.members, t.file, t.pos)
  BY <1>2 DEF Described
<1>6. Stored(t, v, rec)
  BY <1>2, <1>4, <1>5, StoreStores
<1> DEFINE u == v.buf
<1>7. /\ DOMAIN v = {"buf", "res"} /\ Shape(u) /\ u.ring = TakeAll(b.ring, S) /\ u.mem = b.mem
      /\ u.index = b.index /\ Records(u.index, u.members, u.file, u.pos)
      /\ v.res = "ok" => Contains(u.file, u.pos, rec)
  BY <1>2, <1>6 DEF Stored, Untouched
<1>8. DOMAIN u = BufFields /\ u.pos \in Nat /\ Tape(u.file) /\ u.open \in BOOLEAN
  BY <1>7 DEF Shape
<1> DEFINE c == w.buf
<1>9. CASE v.res = "ok"
  <2>1. /\ DOMAIN c = BufFields /\ c.index = With(u.index, S, u.pos) /\ c.pos = u.pos + 1 + Len(q)
        /\ c.mem = u.mem - SizeOf(S) /\ c.ring = u.ring /\ c.file = u.file
        /\ c.open = u.open /\ c.members = With(u.members, {u.pos}, q)
    BY <1>1, <1>7, <1>8, <1>9 DEF BufFields
  <2> HIDE DEF c, u
  <2>2. Records(With(u.index, Range(q), u.pos), With(u.members, {u.pos}, q), u.file, u.pos + 1 + Len(q))
    <3>1. Contains(u.file, u.pos, BatchRecord(q)) /\ Range(q) \cap DOMAIN u.index = {}
      BY <1>3, <1>7, <1>9 DEF rec, S
    <3>2. QED
      BY <1>3, <1>7, <1>8, <3>1, BatchAdded
  <2>3. u.pos + 1 + Len(q) \in Nat
    BY <1>3, <1>8, SMTT(60)
  <2>4. Shape(c) /\ Described(c)
    BY <1>8, <2>1, <2>2, <2>3 DEF Shape, Described, S
  <2>5. c.mem = b.mem - SizeOf(S) /\ c.index = With(b.index, S, u.pos) /\ c.ring = TakeAll(b.ring, S)
    BY <1>7, <2>1
  <2>6. Base(c) /\ SameResults(b, c)
    BY <1>3, <2>4, <2>5, MovedOut
  <2>7. QED
    BY <2>4, <2>6 DEF Spilled, c
<1>10. CASE v.res # "ok"
  <2>1. /\ DOMAIN c = BufFields /\ c.index = u.index /\ c.pos = u.pos
        /\ c.mem = u.mem /\ c.ring = ForceAll(u.ring, S) /\ c.file = u.file
        /\ c.open = u.open /\ c.members = u.members
    BY <1>1, <1>7, <1>8, <1>10 DEF BufFields
  <2> HIDE DEF c, u
  <2>2. Shape(c) /\ Described(c)
    BY <1>7, <1>8, <2>1 DEF Shape, Described
  <2>3. c.ring = ForceAll(TakeAll(b.ring, S), S) /\ c.index = b.index /\ c.mem = b.mem
    BY <1>7, <2>1
  <2>4. Base(c) /\ SameResults(b, c)
    BY <1>3, <2>2, <2>3, Restored
  <2>5. QED
    BY <2>2, <2>4 DEF Spilled, c
<1>11. QED
  BY <1>9, <1>10

-----------------------------------------------------------------------------
(* Reading a record back                                                      *)

LEMMA NotSequence == NoItem \notin Sequence /\ Sequence \subseteq Nat
BY SpillAssumption, SMTT(60) DEF NoItem, Sequence

\* The results of the record at o, which s is one of.
Members(b, s, o) == IF o \in DOMAIN b.members THEN Wanted(b, o) ELSE {s}

LEMMA MembersListed ==
  ASSUME NEW b, Base(b), Described(b), NEW s \in DOMAIN b.index, NEW o, o = b.index[s]
  PROVE  /\ s \in Members(b, s, o) /\ Members(b, s, o) \subseteq DOMAIN b.index
         /\ \A x \in Members(b, s, o) : b.index[x] = o
         /\ \A x \in DOMAIN b.index : o \in DOMAIN b.members /\ b.index[x] = o => x \in Members(b, s, o)
<1>1. CASE o \notin DOMAIN b.members
  BY <1>1 DEF Members
<1>2. CASE o \in DOMAIN b.members
  <2>1. Batch(b.index, b.members, b.file, b.pos, o)
    BY <1>2 DEF Described, Records
  <2>2. \A x \in DOMAIN b.index : b.index[x] = o => x \in Range(b.members[o])
    BY <1>2 DEF Described, Records, Listed
  <2>3. DOMAIN b.index \subseteq Sequence
    BY DEF Base
  <2>4. Members(b, s, o) = Range(b.members[o]) \ {NoItem}
    BY <1>2 DEF Members, Wanted
  <2>5. QED
    BY <2>1, <2>2, <2>3, <2>4, NotSequence DEF Batch
<1>3. QED
  BY <1>1, <1>2

\* The record leaves the index and the table of the batches.
LEMMA RecordsLeft ==
  ASSUME NEW b, Base(b), Described(b), NEW s \in DOMAIN b.index, NEW o, o = b.index[s],
         NEW all, all = Members(b, s, o)
  PROVE  Records(Without(b.index, all), Without(b.members, {o}), b.file, b.pos)
<1> DEFINE index == Without(b.index, all)
           members == Without(b.members, {o})
<1>1. /\ DOMAIN index = DOMAIN b.index \ all /\ DOMAIN members = DOMAIN b.members \ {o}
      /\ \A x \in DOMAIN index : index[x] = b.index[x]
      /\ \A x \in DOMAIN members : members[x] = b.members[x]
  BY DEF Without, Restrict
<1>2. /\ \A x \in all : b.index[x] = o
      /\ \A x \in DOMAIN b.index : o \in DOMAIN b.members /\ b.index[x] = o => x \in all
  BY MembersListed, ZenonT(60)
<1> HIDE DEF index, members
<1>3. ASSUME NEW x \in DOMAIN index
      PROVE  Listed(index, members, b.file, b.pos, x)
  <2>1. Listed(b.index, b.members, b.file, b.pos, x)
    BY <1>1 DEF Described, Records
  <2>2. index[x] = b.index[x] /\ (b.index[x] \in DOMAIN b.members => b.index[x] \in DOMAIN members)
    BY <1>1, <1>2
  <2>3. QED
    BY <1>1, <2>1, <2>2 DEF Listed
<1>4. ASSUME NEW p \in DOMAIN members
      PROVE  Batch(index, members, b.file, b.pos, p)
  <2>1. Batch(b.index, b.members, b.file, b.pos, p) /\ p # o /\ members[p] = b.members[p]
    BY <1>1 DEF Described, Records
  <2>2. \A x \in Range(b.members[p]) : x \in DOMAIN b.index /\ b.index[x] = p
    BY <2>1 DEF Batch
  <2>3. \A x \in Range(b.members[p]) : x \in DOMAIN index /\ index[x] = p
    BY <1>1, <1>2, <2>1, <2>2
  <2>4. QED
    BY <2>1, <2>3 DEF Batch
<1>5. QED
  BY <1>3, <1>4 DEF Records, index, members

\* The next result has left the buffer, and nothing else.
Advanced(b, c) ==
    /\ c.ring.next = b.ring.next + 1
    /\ Held(c.ring) \cup DOMAIN c.index = (Held(b.ring) \cup DOMAIN b.index) \ {b.ring.next}

LEMMA ReloadedAdvances ==
  ASSUME scfg \in SpillCfgs, NEW b, Base(b), Described(b), NEW s \in DOMAIN b.index, s = b.ring.next,
         NEW o, o = b.index[s], NEW c, c = Reloaded(b, s, o)
  PROVE  Base(c) /\ Described(c) /\ Advanced(b, c)
<1> DEFINE all == Members(b, s, o)
           f == ForceAll(b.ring, all)
           n == NextInOrder(f)
           back == all \ {s}
<1>1. /\ s \in all /\ all \subseteq DOMAIN b.index
  <2> HIDE DEF all
  <2>1. /\ s \in Members(b, s, o) /\ Members(b, s, o) \subseteq DOMAIN b.index
    BY MembersListed, SMTT(60)
  <2>2. QED
    BY <2>1 DEF all
<1>2. /\ DOMAIN c = BufFields /\ c.ring = n /\ c.mem = b.mem + SizeOf(back)
      /\ c.index = Without(b.index, all) /\ c.members = Without(b.members, {o})
      /\ c.file = b.file /\ c.pos = b.pos /\ c.open = b.open
  BY DEF Reloaded, Members, Base, Shape, BufFields
<1>3. Records(Without(b.index, all), Without(b.members, {o}), b.file, b.pos)
  BY RecordsLeft
<1>4. /\ Shape(b) /\ Ring(b.ring) /\ Held(b.ring) \subseteq Sequence /\ DOMAIN b.index \subseteq Sequence
      /\ DOMAIN b.index \subseteq Window(b.ring) /\ Held(b.ring) \cap DOMAIN b.index = {}
      /\ b.mem = SizeOf(Held(b.ring)) /\ \A x \in DOMAIN b.index : b.index[x] < b.pos
  BY DEF Base
<1> HIDE DEF all
<1>5. all \subseteq Window(b.ring)
  BY <1>1, <1>4
<1>6. Ring(f) /\ Alike(b.ring, f) /\ Held(f) = Held(b.ring) \cup all
  BY <1>4, <1>5, ForceAllHolds
<1>7. f.next = s /\ Window(f) = Window(b.ring)
  BY <1>6 DEF Alike, Window
<1> HIDE DEF f
<1>8. /\ Ring(n) /\ Held(n) = Held(f) \ {s} /\ n.next = s + 1
      /\ Window(f) \ {s} \subseteq Window(n)
  <2>1. Ready(f) <=> f.next \in Held(f)
    BY <1>6, NextRing
  <2>2. Ready(f)
    BY <1>1, <1>6, <1>7, <2>1
  <2>3. QED
    BY <1>6, <1>7, <2>2, NextRing
<1> HIDE DEF n
<1>9. DOMAIN c.index = DOMAIN b.index \ all /\ \A x \in DOMAIN c.index : c.index[x] = b.index[x]
  BY <1>2, ZenonT(60) DEF Without, Restrict
<1>10. Held(n) = Held(b.ring) \cup back /\ Held(b.ring) \cap back = {} /\ back \subseteq Sequence
  BY <1>1, <1>4, <1>6, <1>8
<1>11. c.mem = SizeOf(Held(n))
  <2> HIDE DEF back
  <2>1. SizeOf(Held(b.ring) \cup back) = SizeOf(Held(b.ring)) + SizeOf(back)
    BY <1>4, <1>10, SizesAdd
  <2>2. QED
    BY <1>2, <1>4, <1>10, <2>1
<1>12. Described(c)
  BY <1>2, <1>3 DEF Described
<1>13. Shape(c)
  BY <1>2, <1>4 DEF Shape
<1>14. /\ DOMAIN c.index \subseteq Window(n) /\ Held(n) \cap DOMAIN c.index = {}
       /\ DOMAIN c.index \subseteq Sequence /\ Held(n) \subseteq Sequence
       /\ \A x \in DOMAIN c.index : c.index[x] < c.pos
  BY <1>1, <1>2, <1>4, <1>6, <1>7, <1>8, <1>9, <1>10
<1>15. Base(c)
  BY <1>2, <1>8, <1>11, <1>13, <1>14 DEF Base
<1>16. Held(n) \cup DOMAIN c.index = (Held(b.ring) \cup DOMAIN b.index) \ {s}
  BY <1>1, <1>4, <1>9, <1>10, ZenonT(60)
<1>17. QED
  BY <1>2, <1>8, <1>12, <1>15, <1>16 DEF Advanced

\* next_in_order when the ring has the result.
LEMMA HeldAdvances ==
  ASSUME scfg \in SpillCfgs, NEW b, Base(b), Described(b), Ready(b.ring),
         NEW c, c = [b EXCEPT !.ring = NextInOrder(@), !.mem = @ - scfg.size[HeadItem(b.ring)]]
  PROVE  /\ Base(c) /\ Described(c) /\ Advanced(b, c)
         /\ HeadItem(b.ring) = b.ring.next /\ b.ring.next \in Held(b.ring)
<1> DEFINE n == NextInOrder(b.ring)
           s == b.ring.next
           rest == Held(b.ring) \ {s}
<1>1. /\ Shape(b) /\ Ring(b.ring) /\ Held(b.ring) \subseteq Sequence /\ DOMAIN b.index \subseteq Sequence
      /\ DOMAIN b.index \subseteq Window(b.ring) /\ Held(b.ring) \cap DOMAIN b.index = {}
      /\ b.mem = SizeOf(Held(b.ring)) /\ \A x \in DOMAIN b.index : b.index[x] < b.pos
  BY DEF Base
<1>2. s \in Held(b.ring)
  BY <1>1, NextRing
<1>3. /\ Ring(n) /\ HeadItem(b.ring) = s /\ Held(n) = rest /\ n.next = s + 1
      /\ Window(b.ring) \ {s} \subseteq Window(n)
  BY <1>1, NextRing
<1>4. /\ DOMAIN c = BufFields /\ c.ring = n /\ c.mem = b.mem - scfg.size[s]
      /\ c.index = b.index /\ c.members = b.members
      /\ c.file = b.file /\ c.pos = b.pos /\ c.open = b.open
  <2> HIDE DEF n
  <2>1. QED
    BY <1>1, <1>3 DEF Shape, BufFields, n
<1> HIDE DEF n
<1>5. c.mem = SizeOf(rest)
  <2>1. s \in Sequence /\ {s} \subseteq Sequence /\ rest \subseteq Sequence /\ rest \cap {s} = {}
        /\ rest \cup {s} = Held(b.ring)
    BY <1>1, <1>2
  <2>2. SizeOf({s}) = scfg.size[s] /\ scfg.size[s] \in Nat
    BY <2>1, SizeOfOne
  <2> HIDE DEF rest
  <2>3. SizeOf(rest) \in Nat /\ SizeOf(rest \cup {s}) = SizeOf(rest) + SizeOf({s})
    BY <2>1, SizesAdd
  <2> DEFINE x == SizeOf(rest)
             y == scfg.size[s]
  <2>4. x \in Nat /\ y \in Nat /\ c.mem = (x + y) - y
    BY <1>1, <1>4, <2>1, <2>2, <2>3
  <2> HIDE DEF x, y
  <2>5. c.mem = x
    BY <2>4, SMTT(60)
  <2>6. QED
    BY <2>5 DEF x
<1>6. Described(c)
  BY <1>4 DEF Described
<1>7. Shape(c)
  BY <1>1, <1>4 DEF Shape
<1>8. Base(c)
  BY <1>1, <1>2, <1>3, <1>4, <1>5, <1>7 DEF Base
<1>9. Held(n) \cup DOMAIN c.index = (Held(b.ring) \cup DOMAIN b.index) \ {s}
  BY <1>1, <1>2, <1>3, <1>4
<1>10. QED
  BY <1>2, <1>3, <1>4, <1>6, <1>8, <1>9 DEF Advanced

-----------------------------------------------------------------------------
(* What has been delivered                                                    *)

\* n numbers from a on.
Run(a, n) == [i \in 1..n |-> (a + i) - 1]

\* What is sent, what is collected and what next_in_order has just removed
\* follow each other up to x.
InLine(sent, items, popped, x) ==
    \E n, m, k \in Nat : /\ sent = Run(0, n) /\ items = Run(n, m) /\ popped = Run(n + m, k)
                         /\ x = n + m + k

LEMMA RunFacts ==
  ASSUME NEW a \in Nat, NEW n \in Nat
  PROVE  /\ Run(a, n) \in Seq(Nat) /\ Len(Run(a, n)) = n /\ DOMAIN Run(a, n) = 1..n
         /\ \A i \in 1..n : Run(a, n)[i] = (a + i) - 1
<1> DEFINE r == Run(a, n)
<1>1. r = [i \in 1..n |-> (a + i) - 1]
  BY DEF Run
<1>2. \A i \in 1..n : (a + i) - 1 \in Nat
  BY SMTT(60)
<1>3. r \in [1..n -> Nat] /\ DOMAIN r = 1..n /\ \A i \in 1..n : r[i] = (a + i) - 1
  BY <1>1, <1>2
<1> HIDE DEF r
<1>4. r \in Seq(Nat) /\ Len(r) = n
  BY <1>3, SMTT(60)
<1>5. QED
  BY <1>3, <1>4 DEF r

LEMMA RunIs ==
  ASSUME NEW a \in Nat, NEW n \in Nat, NEW q \in Seq(Nat), Len(q) = n,
         \A i \in 1..n : q[i] = (a + i) - 1
  PROVE  q = Run(a, n)
<1> DEFINE r == Run(a, n)
<1>1. r \in Seq(Nat) /\ Len(r) = n /\ \A i \in 1..n : r[i] = (a + i) - 1
  BY RunFacts
<1> HIDE DEF r
<1>2. q = r
  BY <1>1, SMTT(60)
<1>3. QED
  BY <1>2 DEF r

LEMMA RunJoin ==
  ASSUME NEW a \in Nat, NEW n \in Nat, NEW m \in Nat
  PROVE  Run(a, n) \o Run(a + n, m) = Run(a, n + m)
<1> DEFINE r == Run(a, n)
           s == Run(a + n, m)
           q == r \o s
<1>1. a + n \in Nat /\ n + m \in Nat
  BY SMTT(60)
<1>2. r \in Seq(Nat) /\ Len(r) = n /\ \A i \in 1..n : r[i] = (a + i) - 1
  BY RunFacts
<1>3. s \in Seq(Nat) /\ Len(s) = m /\ \A i \in 1..m : s[i] = ((a + n) + i) - 1
  BY <1>1, RunFacts
<1> HIDE DEF r, s
<1>4. q \in Seq(Nat) /\ Len(q) = n + m
  <2>1. r \in Seq(Nat) /\ s \in Seq(Nat) /\ Len(r) = n /\ Len(s) = m
    BY <1>2, <1>3
  <2>2. QED
    BY <2>1, SMTT(60)
<1>5. ASSUME NEW i \in 1..n + m
      PROVE  q[i] = (a + i) - 1
  <2>1. CASE i <= n
    BY <1>2, <1>3, <2>1, SMTT(60)
  <2>2. CASE ~(i <= n)
    <3>1. i - n \in 1..m /\ q[i] = s[i - n]
      BY <1>2, <1>3, <2>2, SMTT(60)
    <3>2. s[i - n] = ((a + n) + (i - n)) - 1
      BY <1>3, <3>1
    <3>3. ((a + n) + (i - n)) - 1 = (a + i) - 1
      BY SMTT(60)
    <3>4. QED
      BY <3>1, <3>2, <3>3
  <2>3. QED
    BY <2>1, <2>2
<1> HIDE DEF q
<1>6. q = Run(a, n + m)
  BY <1>1, <1>4, <1>5, RunIs
<1>7. QED
  BY <1>6 DEF q, r, s

LEMMA RunEnds ==
  ASSUME NEW a \in Nat
  PROVE  /\ Run(a, 0) = << >> /\ Run(a, 1) = <<a>>
         /\ \A n \in Nat : Run(a, n) = << >> => n = 0
         /\ \A n \in Nat : Append(Run(a, n), a + n) = Run(a, n + 1)
<1>1. << >> = Run(a, 0)
  <2>1. 0 \in Nat /\ << >> \in Seq(Nat) /\ Len(<< >>) = 0 /\ 1..0 = {}
    BY SMTT(60)
  <2> DEFINE q == << >>
  <2>2. q \in Seq(Nat) /\ Len(q) = 0 /\ \A i \in 1..0 : q[i] = (a + i) - 1
    BY <2>1
  <2> HIDE DEF q
  <2>3. q = Run(a, 0)
    BY <2>1, <2>2, RunIs
  <2>4. QED
    BY <2>3 DEF q
<1>2. <<a>> = Run(a, 1)
  <2> DEFINE q == <<a>>
  <2>1. 1 \in Nat /\ q \in Seq(Nat) /\ Len(q) = 1 /\ \A i \in 1..1 : q[i] = (a + i) - 1
    BY SMTT(60)
  <2> HIDE DEF q
  <2>2. q = Run(a, 1)
    BY <2>1, RunIs
  <2>3. QED
    BY <2>2 DEF q
<1>3. ASSUME NEW n \in Nat, Run(a, n) = << >>
      PROVE  n = 0
  <2>1. Len(Run(a, n)) = n
    BY RunFacts
  <2>2. Len(<< >>) = 0
    BY SMTT(60)
  <2>3. QED
    BY <1>3, <2>1, <2>2
<1>4. ASSUME NEW n \in Nat
      PROVE  Append(Run(a, n), a + n) = Run(a, n + 1)
  <2> DEFINE r == Run(a, n)
             q == Append(r, a + n)
  <2>1. r \in Seq(Nat) /\ Len(r) = n /\ \A i \in 1..n : r[i] = (a + i) - 1
    BY RunFacts
  <2> HIDE DEF r
  <2>2. n + 1 \in Nat /\ q \in Seq(Nat) /\ Len(q) = n + 1
    BY <2>1, SMTT(60)
  <2>3. \A i \in 1..n + 1 : q[i] = (a + i) - 1
    BY <2>1, SMTT(60)
  <2> HIDE DEF q
  <2>4. q = Run(a, n + 1)
    BY <2>2, <2>3, RunIs
  <2>5. QED
    BY <2>4 DEF q, r
<1>5. QED
  BY <1>1, <1>2, <1>3, <1>4

LEMMA LineMoves ==
  ASSUME NEW sent, NEW items, NEW x, InLine(sent, items, << >>, x)
  PROVE  /\ x \in Nat
         /\ InLine(sent, Append(items, x), << >>, x + 1) /\ InLine(sent, items, <<x>>, x + 1)
         /\ InLine(sent \o items, << >>, << >>, x)
<1>1. PICK n \in Nat, m \in Nat, k \in Nat :
         /\ sent = Run(0, n) /\ items = Run(n, m) /\ << >> = Run(n + m, k) /\ x = n + m + k
  BY DEF InLine
<1>2. n + m \in Nat /\ m + 1 \in Nat /\ 0 \in Nat /\ 1 \in Nat /\ 0 + n = n
  BY SMTT(60)
<1>3. k = 0
  BY <1>1, <1>2, RunEnds
<1>4. /\ x = n + m /\ x = (n + m) + 0 /\ x + 1 = (n + (m + 1)) + 0 /\ x + 1 = (n + m) + 1
      /\ n + (m + 1) \in Nat /\ x = ((n + m) + 0) + 0 /\ (n + m) + 0 \in Nat
  BY <1>1, <1>3, SMTT(60)
<1>5. Append(items, x) = Run(n, m + 1)
  BY <1>1, <1>4, RunEnds
<1>6. InLine(sent, Append(items, x), << >>, x + 1)
  <2>1. << >> = Run(n + (m + 1), 0)
    BY <1>4, RunEnds
  <2>2. QED
    BY <1>1, <1>2, <1>4, <1>5, <2>1 DEF InLine
<1>7. InLine(sent, items, <<x>>, x + 1)
  <2>1. <<x>> = Run(n + m, 1)
    BY <1>2, <1>4, RunEnds
  <2>2. QED
    BY <1>1, <1>2, <1>4, <2>1 DEF InLine
<1>8. InLine(sent \o items, << >>, << >>, x)
  <2>1. sent \o items = Run(0, n + m)
    <3>1. \A a \in Nat : Run(a, n) \o Run(a + n, m) = Run(a, n + m)
      BY RunJoin
    <3>2. Run(0, n) \o Run(0 + n, m) = Run(0, n + m)
      BY <1>2, <3>1
    <3>3. QED
      BY <1>1, <1>2, <3>2
  <2>2. << >> = Run(n + m, 0) /\ << >> = Run((n + m) + 0, 0)
    BY <1>2, <1>4, RunEnds
  <2>3. QED
    BY <1>2, <1>4, <2>1, <2>2 DEF InLine
<1>9. x \in Nat
  BY <1>2, <1>4
<1>10. QED
  BY <1>6, <1>7, <1>8, <1>9

LEMMA LineJoins ==
  ASSUME NEW sent, NEW items, NEW popped, NEW x, InLine(sent, items, popped, x)
  PROVE  InLine(sent, items \o popped, << >>, x)
<1>1. PICK n \in Nat, m \in Nat, k \in Nat :
         /\ sent = Run(0, n) /\ items = Run(n, m) /\ popped = Run(n + m, k) /\ x = n + m + k
  BY DEF InLine
<1>2. m + k \in Nat /\ n + (m + k) \in Nat /\ 0 \in Nat /\ x = (n + (m + k)) + 0
  BY <1>1, SMTT(60)
<1>3. items \o popped = Run(n, m + k)
  BY <1>1, RunJoin
<1>4. << >> = Run(n + (m + k), 0)
  BY <1>2, RunEnds
<1>5. QED
  BY <1>1, <1>2, <1>3, <1>4 DEF InLine

LEMMA RunSet ==
  ASSUME NEW a \in Nat, NEW n \in Nat
  PROVE  Range(Run(a, n)) = {v \in Nat : a <= v /\ v < a + n}
<1>1. DOMAIN Run(a, n) = 1..n /\ \A i \in 1..n : Run(a, n)[i] = (a + i) - 1
  BY RunFacts
<1>2. ASSUME NEW i \in 1..n
      PROVE  (a + i) - 1 \in Nat /\ a <= (a + i) - 1 /\ (a + i) - 1 < a + n
  BY SMTT(60)
<1>3. ASSUME NEW v \in Nat, a <= v, v < a + n
      PROVE  (v - a) + 1 \in 1..n /\ v = (a + ((v - a) + 1)) - 1
  BY <1>3, SMTT(60)
<1>4. ASSUME NEW v \in Range(Run(a, n))
      PROVE  v \in Nat /\ a <= v /\ v < a + n
  <2>1. PICK i \in 1..n : v = (a + i) - 1
    BY <1>1 DEF Range
  <2>2. QED
    BY <1>2, <2>1
<1>5. ASSUME NEW v \in Nat, a <= v, v < a + n
      PROVE  v \in Range(Run(a, n))
  <2>1. PICK i \in 1..n : v = (a + i) - 1
    BY <1>3, <1>5
  <2>2. Run(a, n)[i] = v /\ i \in DOMAIN Run(a, n)
    BY <1>1, <2>1
  <2>3. QED
    BY <2>2 DEF Range
<1>6. QED
  BY <1>4, <1>5

\* What the line says of the three sequences.
Partition(sent, items, popped, x) ==
    /\ x \in Nat /\ sent = [i \in 1..Len(sent) |-> i - 1]
    /\ Range(sent) \cup Range(items) \cup Range(popped) = 0..x - 1
    /\ Range(sent) \cap Range(items) = {} /\ Range(sent) \cap Range(popped) = {}
    /\ Range(items) \cap Range(popped) = {}
    /\ items = << >> /\ popped = << >> => Len(sent) = x

LEMMA LineIs ==
  ASSUME NEW sent, NEW items, NEW popped, NEW x, InLine(sent, items, popped, x)
  PROVE  Partition(sent, items, popped, x)
<1>1. PICK n \in Nat, m \in Nat, k \in Nat :
         /\ sent = Run(0, n) /\ items = Run(n, m) /\ popped = Run(n + m, k) /\ x = n + m + k
  BY DEF InLine
<1>2. n + m \in Nat /\ 0 \in Nat /\ x \in Nat
  BY <1>1, SMTT(60)
<1>3. /\ Range(sent) = {v \in Nat : 0 <= v /\ v < 0 + n}
      /\ Range(items) = {v \in Nat : n <= v /\ v < n + m}
      /\ Range(popped) = {v \in Nat : n + m <= v /\ v < (n + m) + k}
  BY <1>1, <1>2, RunSet
<1>4. /\ Range(sent) \cup Range(items) \cup Range(popped) = 0..x - 1
      /\ Range(sent) \cap Range(items) = {} /\ Range(sent) \cap Range(popped) = {}
      /\ Range(items) \cap Range(popped) = {}
  <2> DEFINE A == Range(sent)
             B == Range(items)
             C == Range(popped)
  <2>1. /\ A = {v \in Nat : 0 <= v /\ v < 0 + n} /\ B = {v \in Nat : n <= v /\ v < n + m}
        /\ C = {v \in Nat : n + m <= v /\ v < (n + m) + k}
    BY <1>3
  <2> HIDE DEF A, B, C
  <2>2. A \cup B \cup C = 0..x - 1 /\ A \cap B = {} /\ A \cap C = {} /\ B \cap C = {}
    BY <1>1, <2>1, SMTT(60)
  <2>3. QED
    BY <2>2 DEF A, B, C
<1>5. sent = [i \in 1..Len(sent) |-> i - 1]
  <2>1. Len(sent) = n
    BY <1>1, <1>2, RunFacts
  <2>2. \A i \in 1..n : (0 + i) - 1 = i - 1
    BY SMTT(60)
  <2>3. QED
    BY <1>1, <2>1, <2>2 DEF Run
<1>6. items = << >> /\ popped = << >> => Len(sent) = x
  <2>1. ASSUME items = << >>, popped = << >>
        PROVE  m = 0 /\ k = 0
    <3>1. Run(n, m) = << >> /\ Run(n + m, k) = << >>
      BY <1>1, <2>1
    <3>2. m = 0
      BY <3>1, RunEnds
    <3>3. k = 0
      BY <1>2, <3>1, RunEnds
    <3>4. QED
      BY <3>2, <3>3
  <2>2. Len(sent) = n
    BY <1>1, <1>2, RunFacts
  <2>3. (n + 0) + 0 = n
    BY SMTT(60)
  <2>4. QED
    BY <1>1, <2>1, <2>2, <2>3
<1>7. QED
  BY <1>2, <1>4, <1>5, <1>6 DEF Partition

-----------------------------------------------------------------------------
(* The inductive invariant                                                    *)

LoopFields == {"pc", "cur", "got", "items", "popped", "hot", "forced", "wrote", "back", "error"}

\* Nothing is deliverable.
Still(b) == b.ring.next \notin Held(b.ring) \cup DOMAIN b.index

\* The thread holds nothing it has collected while it receives and inserts, and
\* the buffer is drained then.
LoopOK(l, b) ==
    /\ DOMAIN l = LoopFields
    /\ l.pc \in {"recv", "insert", "force", "room", "excess", "each", "drain", "final", "exit"}
    /\ l.got \subseteq Sequence
    /\ l.pc \in {"insert", "room", "force"} => l.cur \in Sequence
    /\ l.pc \in {"excess", "each"} => l.back \in {"drain", "final"}
    /\ l.pc \notin {"excess", "each", "exit"} => l.popped = << >>
    /\ l.pc \in {"recv", "insert", "room", "force"} => l.items = << >> /\ Still(b)
    /\ l.error # "none" => l.pc = "exit"
    /\ l.pc = "exit" /\ l.error = "none" => l.items = << >> /\ l.popped = << >> /\ Still(b)

Hand(l) == IF l.pc \in {"insert", "room", "force"} THEN {l.cur} ELSE {}

\* Every result received is delivered, in hand or in the buffer.
Accounted(l, b) ==
    /\ l.got = (0..b.ring.next - 1) \cup Hand(l) \cup (Held(b.ring) \cup DOMAIN b.index)
    /\ Hand(l) \cap (0..b.ring.next - 1) = {}
    /\ Hand(l) \cap (Held(b.ring) \cup DOMAIN b.index) = {}

\* A failed read takes a batch out of the table, and ends the loop.
SpillHolds(l, b, o) ==
    /\ Base(b) /\ (l.error # "read" => Described(b))
    /\ LoopOK(l, b) /\ Accounted(l, b)
    /\ InLine(o, l.items, l.popped, b.ring.next)

SpillInv == scfg \in SpillCfgs /\ SpillHolds(loop, spill, outs)

\* The buffer may be reordered within itself.
LEMMA SameHolds ==
  ASSUME NEW l, NEW b, NEW o, SpillHolds(l, b, o), NEW c, Base(c), Described(c), SameResults(b, c)
  PROVE  SpillHolds(l, c, o)
<1>1. /\ c.ring.next = b.ring.next
      /\ Held(c.ring) \cup DOMAIN c.index = Held(b.ring) \cup DOMAIN b.index
  BY DEF SameResults
<1>2. Still(c) <=> Still(b)
  BY <1>1 DEF Still
<1>3. LoopOK(l, c)
  BY <1>2 DEF SpillHolds, LoopOK
<1>4. Accounted(l, c)
  BY <1>1 DEF SpillHolds, Accounted
<1>5. QED
  BY <1>1, <1>3, <1>4 DEF SpillHolds

\* While the loop runs there was no error.
LEMMA NoErrorYet ==
  ASSUME NEW l, NEW b, NEW o, SpillHolds(l, b, o), l.pc # "exit"
  PROVE  l.error = "none" /\ Described(b) /\ Base(b)
<1>1. l.error = "none"
  BY DEF SpillHolds, LoopOK
<1>2. "none" # "read"
  OBVIOUS
<1>3. QED
  BY <1>1, <1>2 DEF SpillHolds

LEMMA ResumeKeeps ==
  ASSUME NEW b, NEW o, SpillHolds(loop, b, o), loop.pc \in {"excess", "each"}
  PROVE  SpillHolds(Resume, b, o)
<1> DEFINE k == Resume
<1>1. DOMAIN loop = LoopFields /\ loop.back \in {"drain", "final"} /\ loop.got \subseteq Sequence
  BY DEF SpillHolds, LoopOK
<1>2. /\ DOMAIN k = LoopFields /\ k.pc = loop.back /\ k.items = loop.items \o loop.popped
      /\ k.popped = << >> /\ k.got = loop.got /\ k.error = loop.error
  BY <1>1 DEF Resume, LoopFields
<1> HIDE DEF k
<1>3. loop.error = "none" /\ Base(b) /\ Described(b)
  BY NoErrorYet
<1>4. LoopOK(k, b)
  BY <1>1, <1>2, <1>3 DEF LoopOK
<1>5. Hand(loop) = {} /\ Hand(k) = {}
  BY <1>1, <1>2 DEF Hand
<1>6. Accounted(k, b)
  BY <1>2, <1>5 DEF SpillHolds, Accounted
<1>7. InLine(o, k.items, k.popped, b.ring.next)
  BY <1>2, LineJoins DEF SpillHolds
<1>8. QED
  BY <1>3, <1>4, <1>6, <1>7 DEF SpillHolds, k

\* The loop ends with an error.
LEMMA ExitKeeps ==
  ASSUME NEW l, NEW b, NEW o, SpillHolds(l, b, o), l.pc \in {"excess", "each", "drain", "final"},
         NEW kind, kind # "none", NEW c, Base(c), kind # "read" => Described(c), SameResults(b, c),
         NEW k, k = [l EXCEPT !.pc = "exit", !.error = kind]
  PROVE  SpillHolds(k, c, o)
<1>1. DOMAIN l = LoopFields /\ l.got \subseteq Sequence
  BY DEF SpillHolds, LoopOK
<1>2. /\ DOMAIN k = LoopFields /\ k.pc = "exit" /\ k.items = l.items
      /\ k.popped = l.popped /\ k.got = l.got /\ k.error = kind
  BY <1>1 DEF LoopFields
<1>3. LoopOK(k, c)
  BY <1>1, <1>2 DEF LoopOK
<1>4. Hand(l) = {} /\ Hand(k) = {}
  BY <1>2 DEF Hand
<1>5. Accounted(k, c)
  BY <1>2, <1>4 DEF SpillHolds, Accounted, SameResults
<1>6. QED
  BY <1>2, <1>3, <1>5 DEF SpillHolds, SameResults

LEMMA SameAsItself == \A b : SameResults(b, b)
BY DEF SameResults

LEMMA FailsKeeps ==
  ASSUME NEW b, NEW o, SpillHolds(loop, b, o), loop.pc \in {"excess", "each"}
  PROVE  SpillHolds(Fails("write"), b, o)
<1>1. CASE Fails("write") = Resume
  BY <1>1, ResumeKeeps
<1>2. CASE Fails("write") = [loop EXCEPT !.pc = "exit", !.error = "write"]
  <2> DEFINE k == Fails("write")
  <2>1. Base(b) /\ Described(b)
    BY NoErrorYet
  <2>2. loop.pc \in {"excess", "each", "drain", "final"} /\ "write" # "none" /\ "write" # "read"
    OBVIOUS
  <2>3. k = [loop EXCEPT !.pc = "exit", !.error = "write"]
    BY <1>2
  <2> HIDE DEF k
  <2>4. SpillHolds(k, b, o)
    BY <2>1, <2>2, <2>3, SameAsItself, ExitKeeps
  <2>5. QED
    BY <2>4 DEF k
<1>3. QED
  BY <1>1, <1>2 DEF Fails

\* The next result is collected, or kept in hand while the rest is spilled again.
LEMMA AdvanceKeeps ==
  ASSUME NEW l, NEW b, NEW o, SpillHolds(l, b, o), l.pc \in {"drain", "final"},
         NEW c, Base(c), Described(c), Advanced(b, c),
         b.ring.next \in Held(b.ring) \cup DOMAIN b.index,
         NEW k, \/ k = [l EXCEPT !.items = Append(@, b.ring.next)]
                \/ k = [l EXCEPT !.pc = "excess", !.back = l.pc, !.popped = <<b.ring.next>>]
  PROVE  SpillHolds(k, c, o)
<1> DEFINE x == b.ring.next
<1>1. /\ DOMAIN l = LoopFields /\ l.got \subseteq Sequence /\ l.popped = << >>
      /\ l.got = (0..x - 1) \cup (Held(b.ring) \cup DOMAIN b.index)
  BY DEF SpillHolds, LoopOK, Accounted, Hand
<1>2. l.error = "none"
  BY NoErrorYet
<1>3. InLine(o, l.items, << >>, x)
  BY <1>1 DEF SpillHolds
<1>4. /\ x \in Nat
      /\ InLine(o, Append(l.items, x), << >>, x + 1) /\ InLine(o, l.items, <<x>>, x + 1)
  BY <1>3, LineMoves
<1>5. (0..(x + 1) - 1) = (0..x - 1) \cup {x}
  <2> HIDE DEF x
  <2>1. QED
    BY <1>4, SMTT(60)
<1>6. /\ c.ring.next = x + 1
      /\ Held(c.ring) \cup DOMAIN c.index = (Held(b.ring) \cup DOMAIN b.index) \ {x}
      /\ x \in Held(b.ring) \cup DOMAIN b.index
  BY DEF Advanced
<1>7. /\ DOMAIN k = LoopFields /\ k.got = l.got /\ k.error = l.error /\ k.pc \in {"drain", "final", "excess"}
      /\ k.pc = "excess" => k.back \in {"drain", "final"}
      /\ k.pc # "excess" => k.popped = << >>
      /\ (k.items = Append(l.items, x) /\ k.popped = << >>) \/ (k.items = l.items /\ k.popped = <<x>>)
  <2>1. CASE k = [l EXCEPT !.items = Append(@, x)]
    BY <1>1, <2>1 DEF LoopFields
  <2>2. CASE k = [l EXCEPT !.pc = "excess", !.back = l.pc, !.popped = <<x>>]
    BY <1>1, <2>2 DEF LoopFields
  <2>3. QED
    BY <2>1, <2>2
<1> HIDE DEF x
<1>8. LoopOK(k, c)
  BY <1>1, <1>2, <1>7 DEF LoopOK
<1>9. Hand(k) = {}
  BY <1>7 DEF Hand
<1>10. Accounted(k, c)
  <2> DEFINE P == 0..x - 1
             Q == 0..(x + 1) - 1
             R == Held(b.ring) \cup DOMAIN b.index
             S == Held(c.ring) \cup DOMAIN c.index
  <2>1. l.got = P \cup R /\ Q = P \cup {x} /\ S = R \ {x} /\ x \in R
    BY <1>1, <1>5, <1>6
  <2>2. Q = 0..c.ring.next - 1
    BY <1>6
  <2> HIDE DEF P, Q, R
  <2>3. k.got = Q \cup {} \cup S /\ {} \cap Q = {} /\ {} \cap S = {}
    <3> HIDE DEF S
    <3>1. QED
      BY <1>7, <2>1
  <2>4. QED
    BY <1>9, <2>2, <2>3 DEF Accounted
<1>11. InLine(o, k.items, k.popped, c.ring.next)
  BY <1>4, <1>6, <1>7
<1>12. QED
  BY <1>8, <1>10, <1>11 DEF SpillHolds

-----------------------------------------------------------------------------
(* The steps of the loop                                                      *)

LEMMA ReceiveKeeps ==
  ASSUME SpillInv, ReceiveResult
  PROVE  SpillHolds(loop', spill', outs')
<1> DEFINE k == loop'
<1>1. SpillHolds(loop, spill, outs) /\ loop.pc = "recv" /\ spill' = spill /\ outs' = outs
  BY DEF SpillInv, ReceiveResult, LoopAt
<1>2. /\ DOMAIN loop = LoopFields /\ loop.got \subseteq Sequence /\ loop.items = << >>
      /\ loop.popped = << >> /\ Still(spill)
  BY <1>1 DEF SpillHolds, LoopOK
<1>3. loop.error = "none" /\ Base(spill) /\ Described(spill)
  BY <1>1, NoErrorYet
<1>4. /\ loop.got = (0..spill.ring.next - 1) \cup (Held(spill.ring) \cup DOMAIN spill.index)
  BY <1>1 DEF SpillHolds, Accounted, Hand
<1>5. InLine(outs, loop.items, loop.popped, spill.ring.next)
  BY <1>1 DEF SpillHolds
<1>6. ASSUME NEW s \in Sequence, s \notin loop.got,
             k = [loop EXCEPT !.pc = "insert", !.cur = s, !.got = @ \cup {s}]
      PROVE  SpillHolds(k, spill, outs)
  <2>1. /\ DOMAIN k = LoopFields /\ k.pc = "insert" /\ k.cur = s /\ k.got = loop.got \cup {s}
        /\ k.items = loop.items /\ k.popped = loop.popped /\ k.error = loop.error
    BY <1>2, <1>6 DEF LoopFields
  <2> HIDE DEF k
  <2>2. LoopOK(k, spill)
    BY <1>2, <1>3, <2>1 DEF LoopOK
  <2>3. Hand(k) = {s}
    BY <2>1 DEF Hand
  <2>4. Accounted(k, spill)
    <3> DEFINE P == 0..spill.ring.next - 1
               R == Held(spill.ring) \cup DOMAIN spill.index
    <3>1. loop.got = P \cup R
      BY <1>4
    <3>2. k.got = P \cup Hand(k) \cup R /\ Hand(k) \cap P = {} /\ Hand(k) \cap R = {}
      <4> HIDE DEF P, R
      <4>1. QED
        BY <1>6, <2>1, <2>3, <3>1
    <3>3. QED
      BY <3>2 DEF Accounted
  <2>5. QED
    BY <1>3, <1>5, <2>1, <2>2, <2>4 DEF SpillHolds
<1>7. ASSUME k = [loop EXCEPT !.pc = "final", !.cur = NoItem]
      PROVE  SpillHolds(k, spill, outs)
  <2>1. /\ DOMAIN k = LoopFields /\ k.pc = "final" /\ k.got = loop.got
        /\ k.items = loop.items /\ k.popped = loop.popped /\ k.error = loop.error
    BY <1>2, <1>7 DEF LoopFields
  <2> HIDE DEF k
  <2>2. LoopOK(k, spill)
    BY <1>2, <1>3, <2>1 DEF LoopOK
  <2>3. Hand(k) = {}
    BY <2>1 DEF Hand
  <2>4. Accounted(k, spill)
    BY <1>4, <2>1, <2>3 DEF Accounted
  <2>5. QED
    BY <1>3, <1>5, <2>1, <2>2, <2>4 DEF SpillHolds
<1>8. QED
  BY <1>1, <1>6, <1>7 DEF ReceiveResult

\* The result goes into the ring.
LEMMA ChargeKeeps ==
  ASSUME SpillInv, loop.pc \in {"insert", "force"}, NEW ring,
         Ring(ring), Held(ring) = Held(spill.ring) \cup {loop.cur}, ring.next = spill.ring.next,
         Window(spill.ring) \subseteq Window(ring), Charge(ring), outs' = outs
  PROVE  SpillHolds(loop', spill', outs')
<1> DEFINE c == [spill EXCEPT !.ring = ring, !.mem = @ + scfg.size[loop.cur]]
           s == loop.cur
           k == loop'
<1>1. SpillHolds(loop, spill, outs) /\ scfg \in SpillCfgs
  BY DEF SpillInv
<1>2. /\ DOMAIN loop = LoopFields /\ loop.got \subseteq Sequence /\ loop.items = << >>
      /\ loop.popped = << >> /\ s \in Sequence
  BY <1>1 DEF SpillHolds, LoopOK
<1>3. loop.error = "none" /\ Base(spill) /\ Described(spill)
  BY <1>1, NoErrorYet
<1> DEFINE P == 0..spill.ring.next - 1
           H == Held(spill.ring)
           D == DOMAIN spill.index
<1>4. loop.got = P \cup {s} \cup (H \cup D) /\ {s} \cap (H \cup D) = {}
  BY <1>1 DEF SpillHolds, Accounted, Hand
<1>5. s \notin H /\ s \notin D
  <2> HIDE DEF P, H, D, s
  <2>1. QED
    BY <1>4
<1>6. /\ Shape(spill) /\ H \subseteq Sequence /\ D \subseteq Sequence
      /\ D \subseteq Window(spill.ring) /\ H \cap D = {}
      /\ spill.mem = SizeOf(H) /\ \A x \in D : spill.index[x] < spill.pos
  BY <1>3 DEF Base
<1>7. /\ DOMAIN c = BufFields /\ c.ring = ring /\ c.mem = spill.mem + scfg.size[s]
      /\ c.index = spill.index /\ c.members = spill.members
      /\ c.file = spill.file /\ c.pos = spill.pos /\ c.open = spill.open
  BY <1>6 DEF Shape, BufFields
<1>8. spill' = c
  <2>1. spill' = Evict(c, s)
    BY DEF Charge
  <2>2. s \notin DOMAIN c.index
    BY <1>5, <1>7
  <2> HIDE DEF c
  <2>3. QED
    BY <2>1, <2>2 DEF Evict
<1>9. c.mem = SizeOf(Held(ring))
  <2>1. SizeOf({s}) = scfg.size[s]
    BY <1>1, <1>2, SizeOfOne
  <2>2. {s} \subseteq Sequence /\ H \cap {s} = {} /\ H \subseteq Sequence
    BY <1>2, <1>5, <1>6
  <2> HIDE DEF H, c
  <2>3. SizeOf(H \cup {s}) = SizeOf(H) + SizeOf({s})
    BY <1>1, <2>2, SizesAdd
  <2>4. QED
    BY <1>6, <1>7, <2>1, <2>3 DEF H
<1> HIDE DEF c
<1>10. Described(c)
  BY <1>3, <1>7 DEF Described
<1>11. Shape(c)
  BY <1>6, <1>7 DEF Shape
<1>12. Base(c)
  <2>1. Held(ring) = H \cup {s}
    OBVIOUS
  <2>2. Held(ring) \subseteq Sequence /\ Held(ring) \cap D = {} /\ D \subseteq Window(ring)
    <3> HIDE DEF H, D, s
    <3>1. QED
      BY <1>2, <1>5, <1>6, <2>1
  <2>3. QED
    BY <1>6, <1>7, <1>9, <1>11, <2>2 DEF Base
<1>13. /\ DOMAIN k = LoopFields /\ k.pc \in {"excess", "drain"} /\ k.back = "drain" /\ k.got = loop.got
       /\ k.items = loop.items /\ k.popped = loop.popped /\ k.error = loop.error
  <2>1. PICK rss \in RssReadings :
           k = [loop EXCEPT !.back = "drain",
                            !.pc = IF rss \/ spill'.mem > scfg.threshold THEN "excess" ELSE "drain"]
    BY DEF Charge
  <2>2. QED
    BY <1>2, <2>1 DEF LoopFields
<1> HIDE DEF k
<1>14. LoopOK(k, c)
  BY <1>2, <1>3, <1>13 DEF LoopOK
<1>15. Hand(k) = {}
  BY <1>13 DEF Hand
<1>16. Accounted(k, c)
  <2>1. Held(ring) \cup D = {s} \cup (H \cup D)
    OBVIOUS
  <2>2. k.got = P \cup Hand(k) \cup (Held(ring) \cup D)
    <3> HIDE DEF P, H, D, s
    <3>1. QED
      BY <1>4, <1>13, <1>15, <2>1
  <2>3. QED
    BY <1>7, <1>15, <2>2 DEF Accounted
<1>17. InLine(outs, k.items, k.popped, c.ring.next)
  BY <1>1, <1>7, <1>13 DEF SpillHolds
<1>18. QED
  BY <1>8, <1>10, <1>12, <1>14, <1>16, <1>17 DEF SpillHolds, k

LEMMA InsertKeeps ==
  ASSUME SpillInv, InsertResult
  PROVE  SpillHolds(loop', spill', outs')
<1> DEFINE s == loop.cur
           r == spill.ring
<1>1. /\ SpillHolds(loop, spill, outs) /\ scfg \in SpillCfgs /\ loop.pc \in {"insert", "force"}
      /\ outs' = outs
  BY DEF SpillInv, InsertResult, LoopAt
<1>2. s \in Sequence /\ DOMAIN loop = LoopFields
  BY <1>1 DEF SpillHolds, LoopOK
<1>3. loop.error = "none" /\ Base(spill) /\ Described(spill) /\ Ring(r)
  BY <1>1, NoErrorYet DEF Base
<1>4. s \in Nat /\ r.next \in Nat
  BY <1>2, <1>3, NotSequence, RingWindow
<1>5. r.next <= s
  <2>1. {s} \cap (0..r.next - 1) = {}
    BY <1>1 DEF SpillHolds, Accounted, Hand
  <2>2. s \notin 0..r.next - 1
    BY <2>1
  <2> HIDE DEF s, r
  <2>3. QED
    BY <1>4, <2>2, SMTT(60)
<1>6. CASE loop.pc = "force" /\ Charge(ForceInsert(r, s))
  <2> DEFINE ring == ForceInsert(r, s)
  <2>1. /\ Ring(ring) /\ Held(ring) = Held(r) \cup {s} /\ ring.next = r.next
        /\ Window(r) \subseteq Window(ring)
    BY <1>3, <1>4, <1>5, ForceRing
  <2>2. Charge(ring)
    BY <1>6
  <2> HIDE DEF ring
  <2>3. QED
    BY <1>1, <2>1, <2>2, ChargeKeeps
<1>7. CASE Accepts(r, s) /\ Charge(Insert(r, s))
  <2> DEFINE ring == Insert(r, s)
  <2>1. /\ Ring(ring) /\ Held(ring) = Held(r) \cup {s} /\ ring.next = r.next
        /\ Window(r) \subseteq Window(ring)
    BY <1>3, <1>4, <1>7, InsertRing
  <2>2. Charge(ring)
    BY <1>7
  <2> HIDE DEF ring
  <2>3. QED
    BY <1>1, <2>1, <2>2, ChargeKeeps
<1>8. CASE loop.pc = "insert" /\ loop' = [loop EXCEPT !.pc = "room"] /\ spill' = spill
  <2> DEFINE k == loop'
  <2>1. /\ DOMAIN k = LoopFields /\ k.pc = "room" /\ k.got = loop.got /\ k.cur = loop.cur
        /\ k.items = loop.items /\ k.popped = loop.popped /\ k.error = loop.error
    BY <1>2, <1>8 DEF LoopFields
  <2> HIDE DEF k
  <2>2. LoopOK(k, spill)
    BY <1>1, <1>3, <1>8, <2>1 DEF LoopOK, SpillHolds
  <2>3. Hand(k) = Hand(loop)
    BY <1>8, <2>1 DEF Hand
  <2>4. Accounted(k, spill)
    BY <1>1, <2>1, <2>3 DEF Accounted, SpillHolds
  <2>5. SpillHolds(k, spill, outs)
    BY <1>1, <2>1, <2>2, <2>4 DEF SpillHolds
  <2>6. QED
    BY <1>1, <1>8, <2>5 DEF k
<1>9. QED
  BY <1>1, <1>6, <1>7, <1>8 DEF InsertResult, LoopAt

\* The end of a spill, whatever the write returned.
LEMMA ReturnKeeps ==
  ASSUME NEW o, SpillHolds(loop, spill, o), loop.pc \in {"excess", "each"}, NEW w, Spilled(spill, w),
         NEW then, SpillHolds(loop, w.buf, o) => SpillHolds(then, w.buf, o), Return(w, then)
  PROVE  SpillHolds(loop', spill', o)
<1>1. SpillHolds(loop, w.buf, o)
  BY SameHolds DEF Spilled
<1>2. SpillHolds(Fails("write"), w.buf, o)
  BY <1>1, FailsKeeps
<1>3. spill' = w.buf /\ (loop' = then \/ loop' = Fails("write"))
  BY DEF Return
<1>4. QED
  BY <1>1, <1>2, <1>3

LEMMA ExcessKeeps ==
  ASSUME SpillInv, SpillExcess
  PROVE  SpillHolds(loop', spill', outs')
<1>1. /\ SpillHolds(loop, spill, outs) /\ scfg \in SpillCfgs /\ loop.pc \in {"excess", "each"}
      /\ outs' = outs /\ loop.pc = "excess"
  BY DEF SpillInv, SpillExcess, LoopAt
<1>2. loop.error = "none" /\ Base(spill) /\ Described(spill)
  BY <1>1, NoErrorYet
<1>3. SpillHolds(Resume, spill, outs) /\ SpillHolds(Fails("write"), spill, outs)
  BY <1>1, ResumeKeeps, FailsKeeps
<1>4. PICK hot \in {HotLimit(spill)} : \E seqs \in {Candidates(spill, hot)} :
           IF scfg.memoryOnly THEN loop' = Fails("write") /\ UNCHANGED spill
           ELSE IF spill.ring.count = 0 \/ (~scfg.perItem /\ seqs = << >>)
           THEN loop' = Resume /\ UNCHANGED spill
           ELSE IF scfg.perItem
           THEN /\ \E rss \in RssReadings :
                     loop' = [loop EXCEPT !.pc = "each", !.hot = hot, !.forced = rss,
                                          !.wrote = FALSE]
                /\ UNCHANGED spill
           ELSE \E w \in SpillBatch(spill, seqs) : Return(w, Resume)
  BY DEF SpillExcess
<1> DEFINE seqs == Candidates(spill, hot)
<1>5. seqs \in Seq(Held(spill.ring))
  BY <1>2, CandidatesAre DEF Base
<1> HIDE DEF seqs
<1>6. CASE loop' \in {Fails("write"), Resume} /\ spill' = spill
  BY <1>1, <1>3, <1>6
<1>7. ASSUME NEW rss \in RssReadings, spill' = spill,
             loop' = [loop EXCEPT !.pc = "each", !.hot = hot, !.forced = rss, !.wrote = FALSE]
      PROVE  SpillHolds(loop', spill', outs')
  <2> DEFINE k == loop'
  <2>1. DOMAIN loop = LoopFields
    BY <1>1 DEF SpillHolds, LoopOK
  <2>2. /\ DOMAIN k = LoopFields /\ k.pc = "each" /\ k.got = loop.got /\ k.back = loop.back
        /\ k.items = loop.items /\ k.popped = loop.popped /\ k.error = loop.error
    BY <1>7, <2>1 DEF LoopFields
  <2> HIDE DEF k
  <2>3. LoopOK(k, spill)
    BY <1>1, <1>2, <2>2 DEF LoopOK, SpillHolds
  <2>4. Hand(k) = Hand(loop)
    BY <1>1, <2>2 DEF Hand
  <2>5. Accounted(k, spill)
    BY <1>1, <2>2, <2>4 DEF Accounted, SpillHolds
  <2>6. SpillHolds(k, spill, outs)
    BY <1>1, <1>2, <2>2, <2>3, <2>5 DEF SpillHolds
  <2>7. QED
    BY <1>1, <1>7, <2>6 DEF k
<1>8. ASSUME NEW w \in SpillBatch(spill, seqs), Return(w, Resume), seqs # << >>
      PROVE  SpillHolds(loop', spill', outs')
  <2>1. Spilled(spill, w)
    BY <1>1, <1>2, <1>5, <1>8, SpillBatchKeeps
  <2>2. SpillHolds(loop, w.buf, outs) => SpillHolds(Resume, w.buf, outs)
    BY <1>1, ResumeKeeps
  <2>3. SpillHolds(loop', spill', outs)
    BY <1>1, <1>8, <2>1, <2>2, ReturnKeeps
  <2>4. QED
    BY <1>1, <2>3
<1>9. QED
  BY <1>4, <1>6, <1>7, <1>8 DEF seqs

LEMMA OneKeeps ==
  ASSUME SpillInv, SpillOne
  PROVE  SpillHolds(loop', spill', outs')
<1>1. /\ SpillHolds(loop, spill, outs) /\ scfg \in SpillCfgs /\ loop.pc \in {"excess", "each"}
      /\ outs' = outs /\ loop.pc = "each"
  BY DEF SpillInv, SpillOne, LoopAt
<1>2. loop.error = "none" /\ Base(spill) /\ Described(spill)
  BY <1>1, NoErrorYet
<1>3. SpillHolds(Resume, spill, outs)
  BY <1>1, ResumeKeeps
<1> DEFINE seqs == Candidates(spill, loop.hot)
           then == [loop EXCEPT !.wrote = TRUE]
<1>4. \/ loop' = Resume /\ spill' = spill
      \/ seqs # << >> /\ \E w \in SpillItem(spill, Head(seqs)) : Return(w, then)
  BY DEF SpillOne
<1>5. seqs \in Seq(Held(spill.ring))
  BY <1>2, CandidatesAre DEF Base
<1> HIDE DEF seqs
<1>6. CASE loop' = Resume /\ spill' = spill
  BY <1>1, <1>3, <1>6
<1>7. ASSUME NEW w \in SpillItem(spill, Head(seqs)), Return(w, then), seqs # << >>
      PROVE  SpillHolds(loop', spill', outs')
  <2>1. Head(seqs) \in Held(spill.ring)
    BY <1>5, <1>7, SMTT(60)
  <2>2. Spilled(spill, w)
    BY <1>1, <1>2, <1>7, <2>1, SpillItemKeeps
  <2>3. DOMAIN loop = LoopFields
    BY <1>1 DEF SpillHolds, LoopOK
  <2>4. /\ DOMAIN then = LoopFields /\ then.pc = loop.pc /\ then.got = loop.got /\ then.back = loop.back
        /\ then.items = loop.items /\ then.popped = loop.popped /\ then.error = loop.error
    BY <2>3 DEF LoopFields
  <2> HIDE DEF then
  <2>5. ASSUME SpillHolds(loop, w.buf, outs)
        PROVE  SpillHolds(then, w.buf, outs)
    <3>1. LoopOK(then, w.buf)
      BY <1>1, <2>4, <2>5 DEF LoopOK, SpillHolds
    <3>2. Hand(then) = {} /\ Hand(loop) = {}
      BY <1>1, <2>4 DEF Hand
    <3>3. Accounted(then, w.buf)
      BY <2>4, <2>5, <3>2 DEF Accounted, SpillHolds
    <3>4. QED
      BY <2>4, <2>5, <3>1, <3>3 DEF SpillHolds
  <2>6. SpillHolds(loop', spill', outs)
    BY <1>1, <1>7, <2>2, <2>5, ReturnKeeps
  <2>7. QED
    BY <1>1, <2>6
<1>8. QED
  BY <1>4, <1>6, <1>7

\* Nothing is deliverable when insert is refused, so room delivers nothing.
LEMMA DrainsLater ==
  ASSUME SpillInv, Draining, spill.ring.next \in Held(spill.ring) \cup DOMAIN spill.index
  PROVE  /\ loop.pc \in {"drain", "final"} /\ SpillHolds(loop, spill, outs) /\ scfg \in SpillCfgs
         /\ Base(spill) /\ Described(spill)
<1>1. SpillHolds(loop, spill, outs) /\ scfg \in SpillCfgs
  BY DEF SpillInv
<1>2. loop.pc \in {"drain", "final"}
  BY <1>1 DEF Draining, SpillHolds, LoopOK, Still
<1>3. QED
  BY <1>1, <1>2, NoErrorYet

LEMMA DeliverHeldKeeps ==
  ASSUME SpillInv, DeliverHeld
  PROVE  SpillHolds(loop', spill', outs')
<1> DEFINE c == spill'
           k == loop'
           x == spill.ring.next
<1>1. /\ Draining /\ Ready(spill.ring) /\ outs' = outs
      /\ c = [spill EXCEPT !.ring = NextInOrder(@), !.mem = @ - scfg.size[HeadItem(spill.ring)]]
      /\ k = [loop EXCEPT !.items = Append(@, HeadItem(spill.ring))]
  BY DEF DeliverHeld
<1>2. x \in Held(spill.ring)
  BY <1>1, NextRing DEF SpillInv, SpillHolds, Base
<1>3. /\ loop.pc \in {"drain", "final"} /\ SpillHolds(loop, spill, outs) /\ scfg \in SpillCfgs
      /\ Base(spill) /\ Described(spill)
  BY <1>1, <1>2, DrainsLater
<1> HIDE DEF c, k
<1>4. Base(c) /\ Described(c) /\ Advanced(spill, c) /\ HeadItem(spill.ring) = x
  BY <1>1, <1>3, HeldAdvances
<1>5. k = [loop EXCEPT !.items = Append(@, x)]
  BY <1>1, <1>4
<1>6. SpillHolds(k, c, outs)
  BY <1>2, <1>3, <1>4, <1>5, AdvanceKeeps
<1>7. QED
  BY <1>1, <1>6 DEF c, k

LEMMA DeliverSpilledKeeps ==
  ASSUME SpillInv, DeliverSpilled
  PROVE  SpillHolds(loop', spill', outs')
<1> DEFINE c == spill'
           k == loop'
           x == spill.ring.next
           o == spill.index[x]
<1>1. /\ Draining /\ outs' = outs /\ x \in DOMAIN spill.index
      /\ \/ Deliver(Reloaded(spill, x, o), x)
         \/ c = [spill EXCEPT !.members = Without(@, {o})] /\ k = Fails("read")
  BY DEF DeliverSpilled
<1>2. x \in Held(spill.ring) \cup DOMAIN spill.index
  BY <1>1
<1>3. /\ loop.pc \in {"drain", "final"} /\ SpillHolds(loop, spill, outs) /\ scfg \in SpillCfgs
      /\ Base(spill) /\ Described(spill)
  BY <1>1, <1>2, DrainsLater
<1>4. CASE Deliver(Reloaded(spill, x, o), x)
  <2>1. /\ c = Reloaded(spill, x, o)
        /\ \/ k = [loop EXCEPT !.items = Append(@, x)]
           \/ k = [loop EXCEPT !.pc = "excess", !.back = loop.pc, !.popped = <<x>>]
    BY <1>4 DEF Deliver
  <2> HIDE DEF c, k
  <2>2. Base(c) /\ Described(c) /\ Advanced(spill, c)
    <3>1. \A s, p : s \in DOMAIN spill.index /\ s = x /\ p = spill.index[s] /\ c = Reloaded(spill, s, p)
                       => Base(c) /\ Described(c) /\ Advanced(spill, c)
      BY <1>3, ReloadedAdvances
    <3>2. QED
      BY <1>1, <2>1, <3>1
  <2>3. SpillHolds(k, c, outs)
    BY <1>2, <1>3, <2>1, <2>2, AdvanceKeeps
  <2>4. QED
    BY <1>1, <2>3 DEF c, k
<1>5. CASE c = [spill EXCEPT !.members = Without(@, {o})] /\ k = Fails("read")
  <2>1. "read" # "write" /\ "read" # "none" /\ "read" = "read"
    OBVIOUS
  <2>2. k = [loop EXCEPT !.pc = "exit", !.error = "read"]
    BY <1>5, <2>1 DEF Fails
  <2>3. Shape(spill)
    BY <1>3 DEF Base
  <2>4. /\ DOMAIN c = BufFields /\ c.ring = spill.ring /\ c.mem = spill.mem /\ c.index = spill.index
        /\ c.file = spill.file /\ c.pos = spill.pos /\ c.open = spill.open
    BY <1>5, <2>3 DEF Shape, BufFields
  <2> HIDE DEF c, k
  <2>5. Base(c) /\ SameResults(spill, c)
    BY <1>3, <2>3, <2>4 DEF Base, Shape, SameResults
  <2>6. loop.pc \in {"excess", "each", "drain", "final"}
    BY <1>3
  <2>7. SpillHolds(k, c, outs)
    BY <1>3, <2>1, <2>2, <2>5, <2>6, ExitKeeps
  <2>8. QED
    BY <1>1, <2>7 DEF c, k
<1>6. QED
  BY <1>1, <1>4, <1>5

LEMMA DrainKeeps ==
  ASSUME SpillInv, DrainReady
  PROVE  SpillHolds(loop', spill', outs')
<1> DEFINE k == loop'
           some == loop.items # << >>
           x == spill.ring.next
<1>1. /\ SpillHolds(loop, spill, outs) /\ loop.pc \in {"room", "drain", "final"} /\ spill' = spill
      /\ ~Ready(spill.ring) /\ x \notin DOMAIN spill.index
  BY DEF SpillInv, DrainReady, Draining
<1>2. loop.error = "none" /\ Base(spill) /\ Described(spill)
  BY <1>1, NoErrorYet
<1>3. Still(spill)
  <2>1. x \notin Held(spill.ring)
    BY <1>1, <1>2, NextRing DEF Base
  <2>2. QED
    BY <1>1, <2>1 DEF Still
<1>4. /\ DOMAIN loop = LoopFields /\ loop.got \subseteq Sequence /\ loop.popped = << >>
      /\ loop.pc = "room" => ~some /\ loop.cur \in Sequence
  BY <1>1 DEF SpillHolds, LoopOK
<1>5. InLine(outs, loop.items, << >>, x) /\ Accounted(loop, spill)
  BY <1>1, <1>4 DEF SpillHolds
<1>6. ASSUME NEW pc, k = [loop EXCEPT !.pc = pc, !.items = << >>], outs' = outs \o loop.items,
             \/ loop.pc = "room" /\ pc = "force"
             \/ loop.pc = "drain" /\ pc = "recv"
             \/ loop.pc = "final" /\ pc \in {"final", "exit"}
      PROVE  SpillHolds(k, spill, outs')
  <2>1. /\ DOMAIN k = LoopFields /\ k.pc = pc /\ k.got = loop.got /\ k.cur = loop.cur
        /\ k.items = << >> /\ k.popped = << >> /\ k.error = loop.error
    BY <1>4, <1>6 DEF LoopFields
  <2> HIDE DEF k
  <2>2. LoopOK(k, spill)
    BY <1>2, <1>3, <1>4, <1>6, <2>1 DEF LoopOK
  <2>3. Hand(k) = Hand(loop)
    BY <1>6, <2>1 DEF Hand
  <2>4. Accounted(k, spill)
    BY <1>5, <2>1, <2>3 DEF Accounted
  <2>5. InLine(outs \o loop.items, << >>, << >>, x)
    BY <1>5, LineMoves
  <2>6. QED
    BY <1>2, <1>6, <2>1, <2>2, <2>4, <2>5 DEF SpillHolds
<1>7. CASE some /\ k = [loop EXCEPT !.pc = "exit", !.error = "gone"] /\ outs' = outs
  <2>1. loop.pc \in {"excess", "each", "drain", "final"}
    BY <1>1, <1>4, <1>7
  <2>2. "gone" # "none" /\ k = [loop EXCEPT !.pc = "exit", !.error = "gone"]
    BY <1>7
  <2> HIDE DEF k
  <2>3. SpillHolds(k, spill, outs)
    BY <1>1, <1>2, <2>1, <2>2, SameAsItself, ExitKeeps
  <2>4. QED
    BY <1>1, <1>7, <2>3 DEF k
<1>8. QED
  <2>1. CASE loop.pc = "room"
    BY <1>1, <1>4, <1>6, <1>7, <2>1 DEF DrainReady, LoopAt
  <2>2. CASE loop.pc = "drain"
    BY <1>1, <1>6, <1>7, <2>2 DEF DrainReady, LoopAt
  <2>3. CASE loop.pc = "final"
    BY <1>1, <1>6, <1>7, <2>3 DEF DrainReady, LoopAt
  <2>4. QED
    BY <1>1, <2>1, <2>2, <2>3

LEMMA NewBufferHolds ==
  ASSUME SpillInit
  PROVE  SpillInv
<1> DEFINE n == scfg.capacity
           r == New(n)
<1>1. scfg \in SpillCfgs /\ spill = NoBuffer(n) /\ loop = NoLoop /\ outs = << >>
  BY DEF SpillInit
<1>2. n \in Nat \ {0}
  BY <1>1, SpillAssumption
<1>3. RingOK(r) /\ r.next = 0 /\ r.bypass = FALSE
  BY <1>2, NewInOrder
<1>4. Held(r) = {}
  <2>1. r.slots = [i \in 0..n - 1 |-> NoItem] /\ r.capacity = n
    BY DEF New
  <2> HIDE DEF r
  <2>2. QED
    BY <1>3, <2>1 DEF Held
<1>5. /\ DOMAIN spill = BufFields /\ spill.ring = r /\ spill.mem = 0 /\ spill.index = << >>
      /\ spill.members = << >> /\ spill.file = << >> /\ spill.pos = 0 /\ spill.open = FALSE
  BY <1>1 DEF NoBuffer, BufFields
<1>6. /\ DOMAIN loop = LoopFields /\ loop.pc = "recv" /\ loop.got = {} /\ loop.items = << >>
      /\ loop.popped = << >> /\ loop.error = "none"
  BY <1>1 DEF NoLoop, LoopFields
<1> HIDE DEF r, n
<1>7. DOMAIN << >> = {} /\ 0 \in Nat /\ (0 - 1) \in Int /\ 0..0 - 1 = {}
  BY SMTT(60)
<1>8. Tape(<< >>)
  BY SMTT(60) DEF Tape
<1>9. SizeOf({}) = 0
  <2>1. SizeOf({}) = Total(scfg.size, {})
    BY DEF SizeOf, Total
  <2>2. QED
    BY <2>1, TotalOfNone
<1>10. Shape(spill)
  BY <1>5, <1>7, <1>8 DEF Shape
<1>11. Ring(r)
  BY <1>3 DEF Ring
<1>12. Base(spill)
  BY <1>4, <1>5, <1>7, <1>9, <1>10, <1>11 DEF Base
<1>13. Described(spill)
  BY <1>5, <1>7 DEF Described, Records
<1>14. Still(spill)
  BY <1>4, <1>5, <1>7 DEF Still
<1>15. LoopOK(loop, spill)
  BY <1>6, <1>14 DEF LoopOK
<1>16. Hand(loop) = {}
  BY <1>6 DEF Hand
<1>17. Accounted(loop, spill)
  BY <1>3, <1>4, <1>5, <1>6, <1>7, <1>16 DEF Accounted
<1>18. InLine(outs, loop.items, loop.popped, spill.ring.next)
  <2>1. 0 + 0 = 0 /\ << >> = Run(0, 0)
    <3>1. 0 + 0 = 0
      BY SMTT(60)
    <3>2. QED
      BY <1>7, <3>1, RunEnds
  <2>2. QED
    BY <1>1, <1>3, <1>5, <1>6, <1>7, <2>1 DEF InLine
<1>19. QED
  BY <1>1, <1>12, <1>13, <1>15, <1>17, <1>18 DEF SpillInv, SpillHolds

\* The bytes of the ring, as a sum that names the sizes.
SumsSizes == SizeOf(Held(spill.ring)) = Total(scfg.size, Held(spill.ring))

LEMMA SizesSummed == SumsSizes
BY DEF SumsSizes, SizeOf, Total

LEMMA SpillStep ==
  ASSUME SpillInv, [SpillNext]_spillVars
  PROVE  SpillInv'
<1>1. SpillHolds(loop', spill', outs') /\ scfg' = scfg
  <2>1. CASE UNCHANGED spillVars
    BY <2>1 DEF spillVars, SpillInv
  <2>2. CASE ReceiveResult
    BY <2>2, ReceiveKeeps DEF ReceiveResult
  <2>3. CASE InsertResult
    BY <2>3, InsertKeeps DEF InsertResult
  <2>4. CASE SpillExcess
    BY <2>4, ExcessKeeps DEF SpillExcess
  <2>5. CASE SpillOne
    BY <2>5, OneKeeps DEF SpillOne
  <2>6. CASE DeliverHeld
    BY <2>6, DeliverHeldKeeps DEF DeliverHeld
  <2>7. CASE DeliverSpilled
    BY <2>7, DeliverSpilledKeeps DEF DeliverSpilled
  <2>8. CASE DrainReady
    BY <2>8, DrainKeeps DEF DrainReady
  <2>9. QED
    BY <2>1, <2>2, <2>3, <2>4, <2>5, <2>6, <2>7, <2>8 DEF SpillNext, LoopStep
<1>2. scfg' \in SpillCfgs
  BY <1>1 DEF SpillInv
<1>3. SizeOf(Held(spill.ring))' = SizeOf(Held(spill'.ring))
  <2>a. SumsSizes'
    BY SizesSummed, PTL
  <2>1. SizeOf(Held(spill.ring))' = Total(scfg'.size, Held(spill'.ring))
    BY <2>a DEF SumsSizes
  <2>2. SizeOf(Held(spill'.ring)) = Total(scfg.size, Held(spill'.ring))
    BY DEF SizeOf, Total
  <2>3. QED
    BY <1>1, <2>1, <2>2
<1>4. Base(spill') 
  BY <1>1 DEF SpillHolds
<1>5. Base(spill)'
  BY <1>3, <1>4 DEF Base
<1>6. /\ (loop'.error # "read" => Described(spill')) /\ LoopOK(loop', spill')
      /\ Accounted(loop', spill') /\ InLine(outs', loop'.items, loop'.popped, spill'.ring.next)
  BY <1>1 DEF SpillHolds
<1>7. QED
  BY <1>2, <1>5, <1>6 DEF SpillInv, SpillHolds

-----------------------------------------------------------------------------
(* The theorems of the spilling buffer                                        *)

LEMMA ShapeMeans == SpillInv => SpillTypeOK
<1> SUFFICES ASSUME SpillInv PROVE SpillTypeOK
  OBVIOUS
<1>1. SpillHolds(loop, spill, outs) /\ scfg \in SpillCfgs /\ Base(spill) /\ LoopOK(loop, spill)
  BY DEF SpillInv, SpillHolds
<1>2. /\ Shape(spill) /\ Ring(spill.ring) /\ Held(spill.ring) \subseteq Sequence
      /\ DOMAIN spill.index \subseteq Sequence /\ spill.mem = SizeOf(Held(spill.ring))
      /\ \A s \in DOMAIN spill.index : spill.index[s] < spill.pos
  BY <1>1 DEF Base
<1>3. spill.mem \in Nat
  <2> DEFINE H == Held(spill.ring)
             N == {}
  <2>1. H \subseteq Sequence /\ N \subseteq Sequence /\ H \cap N = {}
    BY <1>2
  <2> HIDE DEF H, N
  <2>2. SizeOf(H) \in Nat
    BY <1>1, <2>1, SizesAdd
  <2>3. QED
    BY <1>2, <2>2 DEF H
<1>4. ASSUME loop.error # "read", NEW o \in DOMAIN spill.members
      PROVE  \E s \in DOMAIN spill.index : spill.index[s] = o
  <2>1. Batch(spill.index, spill.members, spill.file, spill.pos, o)
    BY <1>1, <1>4 DEF SpillHolds, Described, Records
  <2>2. /\ spill.members[o] \in Seq(Sequence) /\ spill.members[o] # << >>
        /\ \A s \in Range(spill.members[o]) : s \in DOMAIN spill.index /\ spill.index[s] = o
    BY <2>1 DEF Batch
  <2> DEFINE q == spill.members[o]
  <2>3. 1 \in DOMAIN q
    <3>1. q \in Seq(Sequence) /\ q # << >>
      BY <2>2
    <3> HIDE DEF q
    <3>2. QED
      BY <3>1, SMTT(60)
  <2>4. q[1] \in Range(q)
    BY <2>3 DEF Range
  <2>5. QED
    BY <2>2, <2>4
<1>5. QED
  BY <1>1, <1>2, <1>3, <1>4 DEF SpillTypeOK, Shape, Ring, LoopOK

LEMMA ReadableMeans == SpillInv => SpilledIsReadable
<1> SUFFICES ASSUME SpillInv, loop.error # "read", NEW s \in DOMAIN spill.index,
                    NEW o, o = spill.index[s]
             PROVE  IF o \in DOMAIN spill.members
                    THEN \E i \in DOMAIN spill.members[o] :
                            /\ spill.members[o][i] = s
                            /\ ReloadBatch(spill, o, Len(spill.members[o]))[i] = s
                    ELSE ReloadItem(spill, o) = <<s>>
  BY DEF SpilledIsReadable
<1>1. Described(spill)
  BY DEF SpillInv, SpillHolds
<1>2. Listed(spill.index, spill.members, spill.file, spill.pos, s)
  BY <1>1 DEF Described, Records
<1>3. CASE o \in DOMAIN spill.members
  <2> DEFINE q == spill.members[o]
  <2>1. Batch(spill.index, spill.members, spill.file, spill.pos, o)
    BY <1>1, <1>3 DEF Described, Records
  <2>2. q \in Seq(Sequence) /\ BatchAt(spill.file, spill.pos, o, q)
    BY <2>1 DEF Batch
  <2>3. DOMAIN q = 1..Len(q)
    <3> HIDE DEF q
    <3>1. QED
      BY <2>2, SMTT(60)
  <2>4. PICK i \in DOMAIN q : q[i] = s
    BY <1>2, <1>3 DEF Listed, Range
  <2> HIDE DEF q
  <2>5. /\ o + 1 + Len(q) <= Len(spill.file) /\ spill.file[o + 1][1] = "batch"
        /\ \A j \in 1..Len(q) : spill.file[o + 1 + j][2] = q[j]
    BY <2>2 DEF BatchAt
  <2>6. ReloadBatch(spill, o, Len(q)) = [j \in 1..Len(q) |-> spill.file[o + 1 + j][2]]
    BY <2>5 DEF ReloadBatch
  <2>7. ReloadBatch(spill, o, Len(q))[i] = s
    BY <2>3, <2>4, <2>5, <2>6
  <2>8. QED
    BY <1>3, <2>4, <2>7 DEF q
<1>4. CASE o \notin DOMAIN spill.members
  <2>1. ItemAt(spill.file, spill.pos, o, s)
    BY <1>2, <1>4 DEF Listed
  <2>2. ReloadItem(spill, o) = <<s>>
    BY <2>1 DEF ItemAt, ReloadItem
  <2>3. QED
    BY <1>4, <2>2
<1>5. QED
  BY <1>3, <1>4

\* Six sets, of which no two meet.
Apart(A, B, C, D, E, F) ==
    /\ A \cap B = {} /\ A \cap C = {} /\ B \cap C = {} /\ D \cap (A \cup B \cup C) = {}
    /\ (E \cup F) \cap (A \cup B \cup C) = {} /\ D \cap (E \cup F) = {} /\ E \cap F = {}

EachOnce(places, all) ==
    /\ UNION Range(places) = all
    /\ \A i, j \in 1..6 : i < j => places[i] \cap places[j] = {}

LEMMA SixPlaces ==
  ASSUME NEW A, NEW B, NEW C, NEW D, NEW E, NEW F, Apart(A, B, C, D, E, F)
  PROVE  EachOnce(<<A, B, C, D, E, F>>, A \cup B \cup C \cup D \cup (E \cup F))
<1> DEFINE places == <<A, B, C, D, E, F>>
<1>1. /\ DOMAIN places = 1..6 /\ places[1] = A /\ places[2] = B /\ places[3] = C
      /\ places[4] = D /\ places[5] = E /\ places[6] = F
  BY SMTT(60)
<1>2. 1..6 = {1, 2, 3, 4, 5, 6}
  BY SMTT(60)
<1> HIDE DEF places
<1>3. \A v : v \in UNION Range(places) <=> \E i \in {1, 2, 3, 4, 5, 6} : v \in places[i]
  BY <1>1, <1>2 DEF Range
<1>4. UNION Range(places) = A \cup B \cup C \cup D \cup (E \cup F)
  BY <1>1, <1>3
<1>5. /\ A \cap B = {} /\ A \cap C = {} /\ B \cap C = {} /\ E \cap F = {}
      /\ A \cap D = {} /\ A \cap E = {} /\ A \cap F = {} /\ B \cap D = {} /\ B \cap E = {}
      /\ B \cap F = {} /\ C \cap D = {} /\ C \cap E = {} /\ C \cap F = {} /\ D \cap E = {}
      /\ D \cap F = {}
  BY DEF Apart
<1>6. ASSUME NEW i \in 1..6, NEW j \in 1..6, i < j
      PROVE  places[i] \cap places[j] = {}
  BY <1>1, <1>5, <1>6, SMTT(60)
<1>7. QED
  BY <1>4, <1>6 DEF EachOnce, places

LEMMA PlacesMeans == SpillInv => NothingLost
<1> SUFFICES ASSUME SpillInv PROVE NothingLost
  OBVIOUS
<1> DEFINE A == Range(outs)
           B == Range(loop.items)
           C == Range(loop.popped)
           D == Hand(loop)
           E == Held(spill.ring)
           F == DOMAIN spill.index
           P == 0..spill.ring.next - 1
<1>1. /\ Base(spill) /\ Accounted(loop, spill)
      /\ InLine(outs, loop.items, loop.popped, spill.ring.next)
  BY DEF SpillInv, SpillHolds
<1>2. InHand = D
  BY DEF InHand, Hand
<1>3. /\ spill.ring.next \in Nat /\ A \cup B \cup C = P
      /\ A \cap B = {} /\ A \cap C = {} /\ B \cap C = {}
  <2>1. Partition(outs, loop.items, loop.popped, spill.ring.next)
    BY <1>1, LineIs
  <2>2. QED
    BY <2>1 DEF Partition
<1>4. loop.got = P \cup D \cup (E \cup F) /\ D \cap P = {} /\ D \cap (E \cup F) = {}
  BY <1>1 DEF Accounted
<1>5. E \cap F = {} /\ spill.mem = SizeOf(E) /\ Ring(spill.ring) /\ F \subseteq Window(spill.ring)
  BY <1>1 DEF Base
<1>6. (E \cup F) \cap P = {}
  <2>1. E \subseteq Window(spill.ring)
    BY <1>5, RingWindow
  <2>2. Window(spill.ring) \cap P = {}
    <3> DEFINE x == spill.ring.next
               W == Window(spill.ring)
    <3>1. x \in Nat /\ \A v \in W : v \in Nat /\ x <= v
      BY <1>3 DEF Window
    <3> HIDE DEF x, W
    <3>2. W \cap (0..x - 1) = {}
      BY <3>1, SMTT(60)
    <3>3. QED
      BY <3>2 DEF x, W
  <2> HIDE DEF E, F, P
  <2>3. QED
    BY <1>5, <2>1, <2>2
<1> DEFINE places == <<A, B, C, D, E, F>>
<1> HIDE DEF A, B, C, D, E, F, P
<1>7. loop.got = A \cup B \cup C \cup D \cup (E \cup F)
  BY <1>3, <1>4
<1>8. Apart(A, B, C, D, E, F)
  BY <1>3, <1>4, <1>5, <1>6 DEF Apart
<1>9. /\ UNION Range(places) = loop.got
      /\ \A i, j \in 1..6 : i < j => places[i] \cap places[j] = {}
  <2>1. EachOnce(places, A \cup B \cup C \cup D \cup (E \cup F))
    BY <1>8, SixPlaces
  <2> HIDE DEF places
  <2>2. QED
    BY <1>7, <2>1 DEF EachOnce
<1>10. QED
  BY <1>2, <1>5, <1>9 DEF NothingLost, A, B, C, E, F

LEMMA OrderMeans == SpillInv => DeliversInOrder
<1> SUFFICES ASSUME SpillInv PROVE DeliversInOrder
  OBVIOUS
<1> DEFINE x == spill.ring.next
<1>1. /\ Accounted(loop, spill) /\ LoopOK(loop, spill)
      /\ InLine(outs, loop.items, loop.popped, x)
  BY DEF SpillInv, SpillHolds
<1>2. /\ x \in Nat /\ outs = [i \in 1..Len(outs) |-> i - 1]
      /\ loop.items = << >> /\ loop.popped = << >> => Len(outs) = x
  <2>1. Partition(outs, loop.items, loop.popped, x)
    BY <1>1, LineIs
  <2>2. QED
    BY <2>1 DEF Partition
<1>3. ASSUME loop.pc = "exit", loop.error = "none"
      PROVE  Len(outs) \notin loop.got
  <2>1. Still(spill) /\ Len(outs) = x
    BY <1>1, <1>2, <1>3 DEF LoopOK
  <2>2. Hand(loop) = {}
    BY <1>3 DEF Hand
  <2>3. x \notin 0..x - 1
    <3>1. x \in Nat
      BY <1>2
    <3> HIDE DEF x
    <3>2. QED
      BY <3>1, SMTT(60)
  <2>4. QED
    BY <1>1, <2>1, <2>2, <2>3 DEF Accounted, Still
<1>4. QED
  BY <1>2, <1>3 DEF DeliversInOrder

LEMMA SpillAlways == SpillSpec => []SpillInv
BY NewBufferHolds, SpillStep, PTL DEF SpillSpec

\* For every number of results, capacity, budget, granularity and pattern of
\* failed writes: the ring, the index, the table of the batches and the write
\* position of SpillableReorderBuffer stay consistent.
THEOREM SpillTyped == SpillSpec => []SpillTypeOK
BY SpillAlways, ShapeMeans, PTL

\* Whatever spill_item and spill_candidates_whole_batch have put in the file,
\* next_in_order finds it there, at the offset and with the framing it expects.
THEOREM SpilledAlwaysReadable == SpillSpec => []SpilledIsReadable
BY SpillAlways, ReadableMeans, PTL

\* No result that insert or force_insert took is lost or held twice, and
\* memory_used is exactly the size of what the ring holds.
THEOREM NothingEverLost == SpillSpec => []NothingLost
BY SpillAlways, PlacesMeans, PTL

\* run_spillable_loop sends a gapless run, and all of it when it ends well.
THEOREM SpillDelivers == SpillSpec => []DeliversInOrder
BY SpillAlways, OrderMeans, PTL
=============================================================================
