---------------------------- MODULE MemoryProofs ----------------------------
(***************************************************************************)
(* The two users of raw memory in the kernel: the ring buffer and the heap.*)
(*                                                                         *)
(* The ring buffer of sys/src/queue.c is a bounded FIFO, for every number  *)
(* of slots that divides the range of the counters, every element type and *)
(* any tasks.  The argument places the elements: the k-th oldest one lies  *)
(* k - 1 slots behind slot tail % Count, once around at most (ItemsPlaced).*)
(* A write fills the slots behind the last element and leaves the others   *)
(* alone (CopiedPlaces, Extended), a read copies the slots of the oldest   *)
(* elements (PeekedItems) and moving the tail renumbers the rest           *)
(* (Shortened).  The arithmetic underneath is that an index, which is a    *)
(* remainder, does not notice the wrap of the free-running counter it was  *)
(* computed from (WrapIndex); this is where Wrap % Count = 0 is needed.    *)
(*                                                                         *)
(* The heap of sys/src/heap.c hands out disjoint memory and is one block   *)
(* again when all of it was freed, for every memory, header and request    *)
(* size, as long as it is used as TidyNext says.  NoOverlap is about the   *)
(* allocations only; what makes it inductive is that there is a set of     *)
(* blocks that tiles the memory in the order of its addresses and agrees   *)
(* with the links (Linked), of which the ones in use are the allocations   *)
(* (Given) and no two free ones are neighbours (Merged).  The chain the    *)
(* code walks stays within that set (ChainIn), so the search finds one of  *)
(* its blocks (BestFitFree).                                               *)
(***************************************************************************)
EXTENDS Queue, Heap, Induction

\* A slot index is a remainder: it is determined by being in range and
\* congruent.
LEMMA Remainder ==
  ASSUME NEW m \in Nat \ {0}, NEW a \in Nat, NEW q \in Nat, NEW r \in 0 .. m - 1,
         a = m * q + r
  PROVE  a % m = r
OBVIOUS

\* A number is a multiple of m and its remainder.
LEMMA Quotient ==
  ASSUME NEW m \in Nat \ {0}, NEW a \in Nat
  PROVE  /\ (a % m) \in 0 .. m - 1
         /\ \E q \in Nat : a = (m * q) + (a % m)
<1>1. (a % m) \in 0 .. m - 1
  OBVIOUS
<1>2. a = (m * (a \div m)) + (a % m) /\ (a \div m) \in Nat
  OBVIOUS
<1> QED
  BY <1>1, <1>2

\* A step of at most one turn around a ring of m slots.
LEMMA TurnOnce ==
  ASSUME NEW m \in Nat \ {0}, NEW a \in Nat, NEW k \in 0 .. m
  PROVE  (a + k) % m = IF (a % m) + k < m THEN (a % m) + k ELSE (a % m) + k - m
<1>1. PICK q \in Nat : a = (m * q) + (a % m)
  BY Quotient
<1>2. PICK r \in 0 .. m - 1 : r = (a % m)
  BY Quotient
<1>3. CASE r + k < m
  <2>1. a + k = (m * q) + (r + k)
    BY <1>1, <1>2
  <2> QED
    BY <1>2, <1>3, <2>1, Remainder
<1>4. CASE ~(r + k < m)
  <2>1. a + k = (m * (q + 1)) + (r + k - m)
    BY <1>1, <1>2
  <2>2. r + k - m \in 0 .. m - 1 /\ q + 1 \in Nat /\ a + k \in Nat
    BY <1>4
  <2>3. (a + k) % m = r + k - m
    BY <2>1, <2>2, Remainder
  <2> QED
    BY <1>2, <1>4, <2>3
<1> QED
  BY <1>2, <1>3, <1>4

\* The slot k places behind slot i.
Turn(i, k) == IF i + k < Count THEN i + k ELSE i + k - Count

\* Indices do not notice the wrap of a counter.
LEMMA WrapIndex ==
  ASSUME NEW a \in 0 .. Wrap - 1, NEW k \in 0 .. Count
  PROVE  Plus(a, k) \in 0 .. Wrap - 1 /\ Plus(a, k) % Count = (a + k) % Count
<1> USE QueueAssumption
<1>1. CASE a + k < Wrap
  BY <1>1 DEF Plus
<1>2. CASE ~(a + k < Wrap)
  <2>1. PICK x \in 0 .. Wrap - 1 : x = a + k - Wrap /\ Plus(a, k) = x
    BY <1>2 DEF Plus
  <2>0. x \in Nat /\ a + k \in Nat /\ Count \in Nat \ {0} /\ Wrap \in Nat
    BY <2>1
  <2>2. PICK q \in Nat : x = (Count * q) + (x % Count)
    BY <2>0, Quotient
  <2>3. PICK w \in Nat : Wrap = (Count * w) + (Wrap % Count)
    BY Quotient
  <2>4. PICK r \in 0 .. Count - 1 : r = (x % Count)
    BY <2>0, Quotient
  <2>5. a + k = (Count * (q + w)) + r
    <3>1. Wrap = Count * w
      BY <2>3
    <3>2. a + k = (Count * q) + r + (Count * w)
      BY <2>1, <2>2, <2>4, <3>1
    <3> QED
      BY <3>2
  <2>6. (a + k) % Count = r
    <3>1. q + w \in Nat
      OBVIOUS
    <3> QED
      BY <2>0, <2>5, <3>1, Remainder
  <2> QED
    BY <2>1, <2>4, <2>6
<1> QED
  BY <1>1, <1>2

\* The place of an element behind counter a.
LEMMA TurnIndex ==
  ASSUME NEW a \in 0 .. Wrap - 1, NEW k \in 0 .. Count
  PROVE  /\ (a + k) % Count = Turn(a % Count, k)
         /\ (a % Count) \in QueueSlots /\ Turn(a % Count, k) \in QueueSlots
<1>1. (a % Count) \in QueueSlots
  BY QueueAssumption, Quotient DEF QueueSlots
<1>2. (a + k) % Count = Turn(a % Count, k)
  <2>1. a \in Nat /\ Count \in Nat \ {0}
    BY QueueAssumption
  <2> QED
    BY <2>1, TurnOnce DEF Turn
<1>3. Turn(a % Count, k) \in QueueSlots
  BY <1>1, QueueAssumption DEF Turn, QueueSlots
<1> QED
  BY <1>1, <1>2, <1>3

\* The counters of a queue that holds at most Count elements.
Bounded == /\ head \in 0 .. Wrap - 1 /\ tail \in 0 .. Wrap - 1
           /\ buf \in [QueueSlots -> Data] /\ Used <= Count

\* Then the head is Used slots behind the tail.
LEMMA Indices ==
  ASSUME Bounded
  PROVE  /\ Used \in 0 .. Count /\ Room \in 0 .. Count /\ Room = Count - Used
         /\ TailIdx \in QueueSlots /\ HeadIdx \in QueueSlots
         /\ HeadIdx = Turn(TailIdx, Used)
<1>1. Used \in 0 .. Count /\ Room \in 0 .. Count /\ Room = Count - Used
  BY QueueAssumption DEF Bounded, Used, Room, Minus
<1>2. head = Plus(tail, Used)
  BY QueueAssumption DEF Bounded, Used, Minus, Plus
<1>3. HeadIdx = (tail + Used) % Count
  BY <1>1, <1>2, WrapIndex DEF Bounded, HeadIdx
<1> QED
  BY <1>1, <1>3, TurnIndex DEF Bounded, HeadIdx, TailIdx

\* A sequence that starts with a and goes on with b.
LEMMA Joined ==
  ASSUME NEW S, NEW a \in Seq(S), NEW b \in Seq(S), NEW c \in Seq(S),
         Len(c) = Len(a) + Len(b),
         \A k \in 1 .. Len(a) : c[k] = a[k],
         \A k \in 1 .. Len(b) : c[Len(a) + k] = b[k]
  PROVE  c = a \o b
<1>1. /\ a \o b \in Seq(S) /\ Len(a \o b) = Len(a) + Len(b)
      /\ \A i \in 1 .. Len(a) + Len(b) : (a \o b)[i] = IF i <= Len(a) THEN a[i] ELSE b[i - Len(a)]
  BY ConcatProperties
<1>2. Len(a) \in Nat /\ Len(b) \in Nat
  OBVIOUS
<1>3. ASSUME NEW i \in 1 .. Len(c)
      PROVE  c[i] = (a \o b)[i]
  <2>1. CASE i <= Len(a)
    BY <1>1, <1>2, <2>1
  <2>2. CASE ~(i <= Len(a))
    <3>1. i - Len(a) \in 1 .. Len(b) /\ Len(a) + (i - Len(a)) = i
      BY <1>2, <2>2
    <3>2. c[i] = b[i - Len(a)]
      BY <3>1
    <3> QED
      BY <1>1, <2>2, <3>2
  <2> QED
    BY <2>1, <2>2
<1> QED
  BY <1>1, <1>3, SeqEqual

\* The elements of the queue, by their places in the ring.
ItemsPlaced == /\ Items \in Seq(Data) /\ Len(Items) = Used
               /\ \A k \in 1 .. Used : Items[k] = buf[Turn(TailIdx, k - 1)]

\* The queued elements are a sequence and lie where ItemsPlaced says.
LEMMA ItemsType == Bounded => ItemsPlaced
<1> SUFFICES ASSUME Bounded PROVE ItemsPlaced
  OBVIOUS
<1>1. Used \in Nat
  BY Indices
<1>2. \A k \in 1 .. Used : /\ (tail + k - 1) % Count = Turn(TailIdx, k - 1)
                           /\ Turn(TailIdx, k - 1) \in QueueSlots
  <2> SUFFICES ASSUME NEW k \in 1 .. Used
               PROVE  /\ (tail + k - 1) % Count = Turn(TailIdx, k - 1)
                      /\ Turn(TailIdx, k - 1) \in QueueSlots
    OBVIOUS
  <2>1. k - 1 \in 0 .. Count /\ tail + k - 1 = tail + (k - 1)
    BY Indices, QueueAssumption DEF Bounded
  <2> QED
    BY <2>1, TurnIndex DEF Bounded, TailIdx
<1>3. Items \in [1 .. Used -> Data] /\ \A k \in 1 .. Used : Items[k] = buf[Turn(TailIdx, k - 1)]
  BY <1>2 DEF Items, Bounded
<1> QED
  BY <1>1, <1>3, FunctionSeq DEF ItemsPlaced

\* The same of the state after a step.
LEMMA ItemsTypeNext == Bounded' => ItemsPlaced'
BY ItemsType, PTL
-----------------------------------------------------------------------------
(* What the copies do to the elements of the queue.                        *)

\* The first n elements of a sequence.
LEMMA SeqFirst ==
  ASSUME NEW S, NEW s \in Seq(S), NEW n \in 0 .. Len(s)
  PROVE  /\ SubSeq(s, 1, n) \in Seq(S) /\ Len(SubSeq(s, 1, n)) = n
         /\ \A k \in 1 .. n : SubSeq(s, 1, n)[k] = s[k]
OBVIOUS

\* What is left of a sequence without its first n elements.
LEMMA SeqRest ==
  ASSUME NEW S, NEW s \in Seq(S), NEW n \in 0 .. Len(s)
  PROVE  /\ SubSeq(s, n + 1, Len(s)) \in Seq(S) /\ Len(SubSeq(s, n + 1, Len(s))) = Len(s) - n
         /\ \A k \in 1 .. Len(s) - n : SubSeq(s, n + 1, Len(s))[k] = s[n + k]
OBVIOUS

\* n elements of d written behind the head, with or without a turn around the
\* end of the ring, extend the queue by the first n elements of d.
LEMMA Extended ==
  ASSUME Bounded, NEW d \in Seq(Data), NEW n \in 0 .. Room, n <= Len(d),
         head' = Plus(head, n), tail' = tail, buf' \in [QueueSlots -> Data],
         \A k \in 0 .. n - 1 : buf'[Turn(HeadIdx, k)] = d[k + 1],
         \A i \in QueueSlots : (\A k \in 0 .. n - 1 : i # Turn(HeadIdx, k)) => buf'[i] = buf[i]
  PROVE  Bounded' /\ Used' = Used + n /\ Items' = Items \o SubSeq(d, 1, n)
<1> USE QueueAssumption
<1>1. /\ Used \in 0 .. Count /\ TailIdx \in 0 .. Count - 1 /\ HeadIdx = Turn(TailIdx, Used)
      /\ n \in 0 .. Count - Used /\ Count \in Nat
  BY Indices DEF QueueSlots
<1>2. Used' = Used + n
  BY <1>1 DEF Bounded, Used, Minus, Plus
<1>3. Bounded'
  <2>1. head' \in 0 .. Wrap - 1
    <3>1. n \in 0 .. Count
      BY <1>1
    <3> QED
      BY <3>1, WrapIndex DEF Bounded
  <2>2. Used + n <= Count
    BY <1>1
  <2> QED
    BY <1>2, <2>1, <2>2 DEF Bounded
<1>4. ItemsPlaced
  BY ItemsType
<1>5. /\ Items' \in Seq(Data) /\ Len(Items') = Used + n
      /\ \A k \in 1 .. Used + n : Items'[k] = buf'[Turn(TailIdx, k - 1)]
  <2>1. TailIdx' = TailIdx
    BY DEF TailIdx
  <2> QED
    BY <1>2, <1>3, <2>1, ItemsTypeNext DEF ItemsPlaced
<1>6. \A k \in 1 .. Used : buf'[Turn(TailIdx, k - 1)] = buf[Turn(TailIdx, k - 1)]
  <2> SUFFICES ASSUME NEW k \in 1 .. Used
               PROVE  buf'[Turn(TailIdx, k - 1)] = buf[Turn(TailIdx, k - 1)]
    OBVIOUS
  <2>1. Turn(TailIdx, k - 1) \in QueueSlots
    BY <1>1 DEF Turn, QueueSlots
  <2>2. \A j \in 0 .. n - 1 : Turn(TailIdx, k - 1) # Turn(HeadIdx, j)
    BY <1>1 DEF Turn
  <2> QED
    BY <2>1, <2>2
<1>7. \A k \in Used + 1 .. Used + n : buf'[Turn(TailIdx, k - 1)] = d[k - Used]
  <2> SUFFICES ASSUME NEW k \in Used + 1 .. Used + n
               PROVE  buf'[Turn(TailIdx, k - 1)] = d[k - Used]
    OBVIOUS
  <2>1. Turn(TailIdx, k - 1) = Turn(HeadIdx, k - 1 - Used)
    BY <1>1 DEF Turn
  <2>2. k - 1 - Used \in 0 .. n - 1
    BY <1>1
  <2>3. buf'[Turn(HeadIdx, k - 1 - Used)] = d[(k - 1 - Used) + 1]
    BY <2>2
  <2>4. (k - 1 - Used) + 1 = k - Used
    BY <1>1
  <2> QED
    BY <2>1, <2>3, <2>4
<1>8. PICK e \in Seq(Data) : /\ e = SubSeq(d, 1, n) /\ Len(e) = n
                             /\ \A k \in 1 .. n : e[k] = d[k]
  <2>1. /\ SubSeq(d, 1, n) \in Seq(Data) /\ Len(SubSeq(d, 1, n)) = n
        /\ \A k \in 1 .. n : SubSeq(d, 1, n)[k] = d[k]
    <3> HIDE QueueAssumption
    <3>1. n \in 0 .. Len(d)
      BY <1>1
    <3> QED
      BY <3>1, SeqFirst
  <2> QED
    BY <2>1
<1>9. Items' = Items \o e
  <2>1. \A k \in 1 .. Used : Items'[k] = Items[k]
    <3> TAKE k \in 1 .. Used
    <3>1. k \in 1 .. Used + n
      BY <1>1
    <3>2. Items'[k] = buf'[Turn(TailIdx, k - 1)] /\ Items[k] = buf[Turn(TailIdx, k - 1)]
      BY <3>1, <1>4, <1>5, Zenon DEF ItemsPlaced
    <3> QED
      BY <3>2, <1>6, Zenon
  <2>2. ASSUME NEW k \in 1 .. n
        PROVE  Items'[Used + k] = e[k]
    <3>1. Used + k \in Used + 1 .. Used + n /\ (Used + k) - Used = k /\ Used + k \in 1 .. Used + n
      BY <1>1
    <3>2. buf'[Turn(TailIdx, (Used + k) - 1)] = d[(Used + k) - Used]
      BY <3>1, <1>7
    <3>3. Items'[Used + k] = buf'[Turn(TailIdx, (Used + k) - 1)]
      BY <3>1, <1>5
    <3> QED
      BY <3>1, <3>2, <3>3, <1>8
  <2>3. /\ Items \in Seq(Data) /\ Items' \in Seq(Data) /\ Len(Items') = Len(Items) + Len(e)
        /\ \A k \in 1 .. Len(Items) : Items'[k] = Items[k]
        /\ \A k \in 1 .. Len(e) : Items'[Len(Items) + k] = e[k]
    BY <1>4, <1>5, <1>8, <2>1, <2>2 DEF ItemsPlaced
  <2> QED
    BY <2>3, Joined
<1> QED
  BY <1>2, <1>3, <1>8, <1>9

\* The two copies of Queue_Put write exactly the n slots behind the head.
LEMMA CopiedPlaces ==
  ASSUME Bounded, NEW d \in Seq(Data), NEW n \in 0 .. Room, n <= Len(d)
  PROVE  /\ Copied(d, n) \in [QueueSlots -> Data]
         /\ \A k \in 0 .. n - 1 : Copied(d, n)[Turn(HeadIdx, k)] = d[k + 1]
         /\ \A i \in QueueSlots : (\A k \in 0 .. n - 1 : i # Turn(HeadIdx, k)) => Copied(d, n)[i] = buf[i]
<1> USE QueueAssumption
<1>1. HeadIdx \in 0 .. Count - 1 /\ n \in 0 .. Count /\ Count \in Nat \ {0}
  BY Indices DEF QueueSlots
<1> DEFINE w == Lesser(Count - HeadIdx, n)
<1>2. /\ w \in 0 .. n /\ w <= Count - HeadIdx
      /\ w = n \/ (w = Count - HeadIdx /\ w < n)
  BY <1>1 DEF Lesser
<1>3. \A i \in QueueSlots : Copied(d, n)[i] =
        IF HeadIdx <= i /\ i < HeadIdx + w THEN d[i - HeadIdx + 1]
        ELSE IF i < n - w THEN d[w + i + 1] ELSE buf[i]
  BY DEF Copied
<1>4. \A k \in 1 .. n : d[k] \in Data
  BY <1>1
<1> HIDE DEF w
<1>5. Copied(d, n) \in [QueueSlots -> Data]
  <2>1. \A i \in QueueSlots : Copied(d, n)[i] \in Data
    <3> SUFFICES ASSUME NEW i \in QueueSlots
                 PROVE  Copied(d, n)[i] \in Data
      OBVIOUS
    <3>1. CASE HeadIdx <= i /\ i < HeadIdx + w
      <4>1. i - HeadIdx + 1 \in 1 .. n
        BY <3>1, <1>1, <1>2 DEF QueueSlots
      <4> QED
        BY <3>1, <4>1, <1>3, <1>4
    <3>2. CASE ~(HeadIdx <= i /\ i < HeadIdx + w) /\ i < n - w
      <4>1. w + i + 1 \in 1 .. n
        BY <3>2, <1>1, <1>2 DEF QueueSlots
      <4> QED
        BY <3>2, <4>1, <1>3, <1>4
    <3>3. CASE ~(HeadIdx <= i /\ i < HeadIdx + w) /\ ~(i < n - w)
      BY <3>3, <1>3 DEF Bounded
    <3> QED
      BY <3>1, <3>2, <3>3
  <2>2. Copied(d, n) = [i \in QueueSlots |-> Copied(d, n)[i]]
    BY DEF Copied
  <2> QED
    BY <2>1, <2>2
<1>6. ASSUME NEW k \in 0 .. n - 1
      PROVE  Copied(d, n)[Turn(HeadIdx, k)] = d[k + 1]
  <2>1. Turn(HeadIdx, k) \in QueueSlots
    BY <1>1 DEF Turn, QueueSlots
  <2>2. CASE k < w
    <3>1. Turn(HeadIdx, k) = HeadIdx + k
      BY <2>2, <1>1, <1>2 DEF Turn
    <3>2. HeadIdx <= HeadIdx + k /\ HeadIdx + k < HeadIdx + w /\ (HeadIdx + k) - HeadIdx + 1 = k + 1
      BY <2>2, <1>1, <1>2
    <3> QED
      BY <2>1, <3>1, <3>2, <1>3
  <2>3. CASE ~(k < w)
    <3>1. w = Count - HeadIdx /\ Turn(HeadIdx, k) = k - w
      BY <2>3, <1>1, <1>2 DEF Turn
    <3>2. k - w < HeadIdx /\ k - w < n - w /\ w + (k - w) + 1 = k + 1
      BY <2>3, <3>1, <1>1, <1>2
    <3> QED
      BY <2>1, <3>1, <3>2, <1>1, <1>2, <1>3
  <2> QED
    BY <2>2, <2>3
<1>7. ASSUME NEW i \in QueueSlots, \A k \in 0 .. n - 1 : i # Turn(HeadIdx, k)
      PROVE  Copied(d, n)[i] = buf[i]
  <2>1. ~(HeadIdx <= i /\ i < HeadIdx + w)
    <3> SUFFICES ASSUME HeadIdx <= i, i < HeadIdx + w
                 PROVE  FALSE
      OBVIOUS
    <3>1. i - HeadIdx \in 0 .. n - 1 /\ Turn(HeadIdx, i - HeadIdx) = i
      BY <1>1, <1>2 DEF Turn, QueueSlots
    <3> QED
      BY <3>1, <1>7
  <2>2. ~(i < n - w)
    <3> SUFFICES ASSUME i < n - w
                 PROVE  FALSE
      OBVIOUS
    <3>1. i + w \in 0 .. n - 1 /\ Turn(HeadIdx, i + w) = i
      BY <1>1, <1>2 DEF Turn, QueueSlots
    <3> QED
      BY <3>1, <1>7
  <2> QED
    BY <2>1, <2>2, <1>3
<1> QED
  BY <1>5, <1>6, <1>7

\* The two copies of Queue_Peek return the oldest n elements.
LEMMA PeekedItems ==
  ASSUME Bounded, NEW n \in 0 .. Used
  PROVE  Peeked(n) = SubSeq(Items, 1, n) /\ Peeked(n) \in Seq(Data)
<1> USE QueueAssumption
<1>1. Used \in 0 .. Count /\ TailIdx \in 0 .. Count - 1 /\ n \in 0 .. Count /\ Count \in Nat \ {0}
  BY Indices DEF QueueSlots
<1>2. ItemsPlaced
  BY ItemsType
<1> DEFINE w == Lesser(Count - TailIdx, n)
<1>3. /\ w \in 0 .. n /\ w <= Count - TailIdx
      /\ w = n \/ (w = Count - TailIdx /\ w < n)
  BY <1>1 DEF Lesser
<1>4. /\ \A k \in 1 .. n : Peeked(n)[k] = IF k <= w THEN buf[TailIdx + k - 1] ELSE buf[k - w - 1]
      /\ Peeked(n) = [k \in 1 .. n |-> Peeked(n)[k]]
  BY DEF Peeked
<1> HIDE DEF w
<1>5. ASSUME NEW k \in 1 .. n
      PROVE  Peeked(n)[k] = Items[k] /\ Items[k] \in Data
  <2>1. Items[k] = buf[Turn(TailIdx, k - 1)] /\ Turn(TailIdx, k - 1) \in QueueSlots
    BY <1>1, <1>2 DEF ItemsPlaced, Turn, QueueSlots
  <2>2. Turn(TailIdx, k - 1) = IF k <= w THEN TailIdx + k - 1 ELSE k - w - 1
    BY <1>1, <1>3 DEF Turn
  <2> QED
    BY <1>4, <2>1, <2>2 DEF Bounded
<1>6. Peeked(n) \in Seq(Data) /\ Len(Peeked(n)) = n
  <2>1. Peeked(n) \in [1 .. n -> Data]
    BY <1>4, <1>5
  <2> QED
    BY <1>1, <2>1, FunctionSeq
<1>7. /\ SubSeq(Items, 1, n) \in Seq(Data) /\ Len(SubSeq(Items, 1, n)) = n
      /\ \A k \in 1 .. n : SubSeq(Items, 1, n)[k] = Items[k]
  BY <1>1, <1>2 DEF ItemsPlaced
<1> QED
  BY <1>5, <1>6, <1>7, SeqEqual

\* Moving the tail by n takes the oldest n elements away.
LEMMA Shortened ==
  ASSUME Bounded, NEW n \in 0 .. Used, tail' = Plus(tail, n), head' = head, buf' = buf
  PROVE  Bounded' /\ Used' = Used - n /\ Items' = SubSeq(Items, n + 1, Len(Items))
<1> USE QueueAssumption
<1>1. Used \in 0 .. Count /\ TailIdx \in 0 .. Count - 1 /\ n \in 0 .. Count /\ Count \in Nat \ {0}
  BY Indices DEF QueueSlots
<1>2. Used' = Used - n
  BY <1>1 DEF Bounded, Used, Minus, Plus
<1>3. tail' \in 0 .. Wrap - 1 /\ TailIdx' = Turn(TailIdx, n)
  BY <1>1, WrapIndex, TurnIndex DEF Bounded, TailIdx
<1>4. Bounded'
  BY <1>1, <1>2, <1>3 DEF Bounded
<1>5. ItemsPlaced
  BY ItemsType
<1>6. /\ Items' \in Seq(Data) /\ Len(Items') = Used - n
      /\ \A k \in 1 .. Used - n : Items'[k] = buf[Turn(Turn(TailIdx, n), k - 1)]
  BY <1>2, <1>3, <1>4, ItemsTypeNext DEF ItemsPlaced
<1>7. ASSUME NEW k \in 1 .. Used - n
      PROVE  Items'[k] = Items[n + k]
  <2>1. Turn(Turn(TailIdx, n), k - 1) = Turn(TailIdx, (n + k) - 1) /\ n + k \in 1 .. Used
    BY <1>1 DEF Turn
  <2> QED
    BY <1>5, <1>6, <2>1 DEF ItemsPlaced
<1>8. /\ SubSeq(Items, n + 1, Used) \in Seq(Data) /\ Len(SubSeq(Items, n + 1, Used)) = Used - n
      /\ \A k \in 1 .. Used - n : SubSeq(Items, n + 1, Used)[k] = Items[n + k]
  <2> HIDE QueueAssumption
  <2>1. Items \in Seq(Data) /\ n \in 0 .. Len(Items) /\ Used = Len(Items)
    BY <1>5 DEF ItemsPlaced
  <2>2. /\ SubSeq(Items, n + 1, Len(Items)) \in Seq(Data)
        /\ Len(SubSeq(Items, n + 1, Len(Items))) = Len(Items) - n
        /\ \A k \in 1 .. Len(Items) - n : SubSeq(Items, n + 1, Len(Items))[k] = Items[n + k]
    BY <2>1, SeqRest
  <2> QED
    BY <2>1, <2>2, Zenon
<1>9. Items' = SubSeq(Items, n + 1, Used)
  BY <1>6, <1>7, <1>8, SeqEqual
<1> QED
  BY <1>2, <1>4, <1>5, <1>9 DEF ItemsPlaced
-----------------------------------------------------------------------------
(* The operations, as steps of the bounded FIFO.                           *)

\* Only a sole producer fills memory of the queue.
FillSole == \A t \in Producers : call[t].op = "fill" => Producers = {t}

QueueIInv == QueueTypeOK /\ UsedBounded /\ ReservationStable /\ FillSole

MovedOK == moved \in [dir : {"in", "out"}, chunk : Seq(Data)]

\* A request is a sequence.
LEMMA ChunkSeq == \A d \in Chunks : d \in Seq(Data)
BY QueueAssumption, FunctionSeq DEF Chunks

\* A chunk of n elements that was written behind the head is an Enqueue.
LEMMA EnqueueStep ==
  ASSUME Bounded, NEW d \in Seq(Data), NEW n \in 0 .. Room, n <= Len(d),
         Items' = Items \o SubSeq(d, 1, n), moved' = In(SubSeq(d, 1, n))
  PROVE  Fifo!Enqueue /\ MovedOK'
<1>1. ItemsPlaced /\ Used \in 0 .. Count /\ Room = Count - Used
  BY ItemsType, Indices
<1>2. n \in 0 .. Count - Len(Items) /\ n \in Nat
  BY <1>1, QueueAssumption DEF ItemsPlaced
<1>3. SubSeq(d, 1, n) \in Seq(Data) /\ Len(SubSeq(d, 1, n)) = n
  BY <1>2
<1>4. SubSeq(d, 1, n) \in [1 .. n -> Data]
  BY <1>3, LenProperties
<1>5. Fifo!Enqueue
  <2>1. moved' = Fifo!In(SubSeq(d, 1, n))
    BY DEF In, Fifo!In
  <2> QED
    BY <1>2, <1>4, <2>1 DEF Fifo!Enqueue
<1>6. MovedOK'
  BY <1>3 DEF MovedOK, In
<1> QED
  BY <1>5, <1>6

\* Queue_Put appends what it accepts.
LEMMA PutStep ==
  ASSUME Bounded, NEW d \in Seq(Data), Put(d)
  PROVE  Bounded' /\ MovedOK' /\ Fifo!Enqueue
<1>1. Accepted(d) \in 0 .. Room /\ Accepted(d) <= Len(d)
  <2>1. Room \in Nat /\ Len(d) \in Nat
    BY Indices, QueueAssumption
  <2> QED
    BY <2>1 DEF Accepted, Lesser
<1>2. PICK n \in 0 .. Room : n = Accepted(d)
  BY <1>1
<1>3. /\ buf' = Copied(d, n) /\ head' = Plus(head, n) /\ tail' = tail
      /\ moved' = In(SubSeq(d, 1, n)) /\ n <= Len(d)
  BY <1>1, <1>2 DEF Put
<1>4. /\ buf' \in [QueueSlots -> Data]
      /\ \A k \in 0 .. n - 1 : buf'[Turn(HeadIdx, k)] = d[k + 1]
      /\ \A i \in QueueSlots : (\A k \in 0 .. n - 1 : i # Turn(HeadIdx, k)) => buf'[i] = buf[i]
  BY <1>3, CopiedPlaces
<1>5. Bounded' /\ Items' = Items \o SubSeq(d, 1, n)
  BY <1>3, <1>4, Extended
<1> QED
  BY <1>3, <1>5, EnqueueStep

\* A copy of the oldest elements.
LEMMA PeekStep ==
  ASSUME Bounded, NEW n \in Nat, moved' = Out(Peeked(Lesser(n, Used)))
  PROVE  /\ Lesser(n, Used) \in 0 .. Used /\ MovedOK'
         /\ moved' = Fifo!Out(SubSeq(Items, 1, Lesser(n, Used)))
<1>1. Used \in Nat
  BY Indices
<1>2. Lesser(n, Used) \in 0 .. Used
  BY <1>1 DEF Lesser
<1>3. /\ Peeked(Lesser(n, Used)) = SubSeq(Items, 1, Lesser(n, Used))
      /\ Peeked(Lesser(n, Used)) \in Seq(Data)
  BY <1>2, PeekedItems
<1> QED
  BY <1>2, <1>3 DEF MovedOK, Out, Fifo!Out

\* The elements a Drop removes; what was free stays free.
LEMMA DropStep ==
  ASSUME Bounded, NEW n \in Nat, Drop(n), head' = head, buf' = buf
  PROVE  /\ Bounded' /\ Room <= Room' /\ HeadIdx' = HeadIdx
         /\ Lesser(n, Used) \in 0 .. Len(Items)
         /\ Items' = SubSeq(Items, Lesser(n, Used) + 1, Len(Items))
<1>1. Used \in Nat /\ ItemsPlaced /\ Room = Count - Used /\ Count \in Nat
  BY Indices, ItemsType, QueueAssumption
<1>2. PICK k \in 0 .. Used : k = Lesser(n, Used)
  BY <1>1 DEF Lesser
<1>3. Bounded' /\ Used' = Used - k /\ Items' = SubSeq(Items, k + 1, Len(Items))
  BY <1>2, Shortened DEF Drop
<1>4. Room' = Count - (Used - k)
  BY <1>3 DEF Room
<1>5. Room <= Room'
  BY <1>1, <1>4
<1> QED
  BY <1>1, <1>2, <1>3, <1>5 DEF HeadIdx, ItemsPlaced

\* Queue_Get hands the oldest elements over and removes them.
LEMMA GetStep ==
  ASSUME Bounded, NEW n \in Nat, Get(n)
  PROVE  /\ Bounded' /\ Room <= Room' /\ HeadIdx' = HeadIdx /\ MovedOK'
         /\ Fifo!Dequeue
<1>1. moved' = Out(Peeked(Lesser(n, Used))) /\ Drop(n) /\ head' = head /\ buf' = buf
  BY DEF Get, Peek
<1> QED
  BY <1>1, PeekStep, DropStep DEF Fifo!Dequeue

\* Queue_Peek and Queue_GetUsedLinearMem hand the oldest elements over.
LEMMA LookStep ==
  ASSUME Bounded, NEW n \in Nat, Peek(n), UNCHANGED <<head, tail, buf>>
  PROVE  MovedOK' /\ Fifo!Look
<1>1. ItemsPlaced /\ Items' = Items
  BY ItemsType DEF Items, Used
<1>2. /\ Lesser(n, Used) \in 0 .. Used /\ MovedOK'
      /\ moved' = Fifo!Out(SubSeq(Items, 1, Lesser(n, Used)))
  BY PeekStep DEF Peek
<1> QED
  BY <1>1, <1>2 DEF Fifo!Look, ItemsPlaced
-----------------------------------------------------------------------------
(* The inductive invariant.                                                *)

\* The queue part of the invariant is what the copies need.
LEMMA InvBounded == QueueIInv => Bounded
BY DEF QueueIInv, QueueTypeOK, UsedBounded, Bounded

\* A step that keeps the ring in order and every call well formed, and does
\* not touch a reservation or its slots, keeps the invariant.
LEMMA Kept ==
  ASSUME QueueIInv, Bounded', MovedOK', NEW t \in QueueTasks, NEW c, CallOK(c),
         \/ call' = [call EXCEPT ![t] = c]
         \/ call' = call /\ call[t] = c,
         \/ HeadIdx' = HeadIdx /\ Room <= Room'
         \/ t \in Producers /\ call[t].op # "fill",
         t \in Producers /\ c.op = "fill" =>
           /\ Producers = {t}
           /\ c.idx = HeadIdx' /\ c.room <= Room' /\ c.idx + c.room <= Count
  PROVE  QueueIInv'
<1>1. /\ DOMAIN call' = QueueTasks
      /\ \A u \in QueueTasks : call'[u] = IF u = t THEN c ELSE call[u]
      /\ \A u \in QueueTasks : CallOK(call[u])
  BY DEF QueueIInv, QueueTypeOK
<1>2. QueueTypeOK'
  <2>1. DOMAIN call' = QueueTasks /\ \A u \in QueueTasks : CallOK(call'[u])
    BY <1>1
  <2>2. head' \in 0 .. Wrap - 1 /\ tail' \in 0 .. Wrap - 1 /\ buf' \in [QueueSlots -> Data]
    BY DEF Bounded
  <2> QED
    BY <2>1, <2>2 DEF QueueTypeOK, MovedOK, CallOK
<1>3. UsedBounded'
  BY DEF Bounded, UsedBounded
<1>4. FillSole'
  BY <1>1 DEF QueueIInv, FillSole, QueueTasks
<1>5. ReservationStable'
  <2> SUFFICES ASSUME NEW u \in Producers, call'[u].op = "fill"
               PROVE  /\ call'[u].idx = HeadIdx'
                      /\ call'[u].room <= Room'
                      /\ call'[u].idx + call'[u].room <= Count
    BY DEF ReservationStable
  <2>1. CASE u = t
    BY <1>1, <2>1 DEF QueueTasks
  <2>2. CASE u # t
    <3>1. call'[u] = call[u] /\ u \in QueueTasks
      BY <1>1, <2>2 DEF QueueTasks
    <3>2. Producers = {u} /\ CallOK(call[u])
      BY <1>1, <3>1 DEF QueueIInv, FillSole
    <3>3. HeadIdx' = HeadIdx /\ Room <= Room'
      BY <2>2, <3>2
    <3>4. /\ call[u].idx = HeadIdx
          /\ call[u].room <= Room /\ call[u].idx + call[u].room <= Count
      BY <3>1 DEF QueueIInv, ReservationStable
    <3>5. call[u].room \in Nat
      BY <3>1, <3>2, QueueAssumption DEF CallOK, Idle
    <3>6. Room \in Int /\ Room' \in Int
      <4>1. Bounded => Room \in Int
        BY Indices, QueueAssumption
      <4>2. Bounded' => Room' \in Int
        BY QueueAssumption DEF Bounded, Room, Used, Minus
      <4> QED
        BY <4>1, <4>2, InvBounded
    <3> QED
      BY <3>1, <3>3, <3>4, <3>5, <3>6
  <2> QED
    BY <2>1, <2>2
<1> QED
  BY <1>2, <1>3, <1>4, <1>5 DEF QueueIInv

\* A step that changes no call.
LEMMA KeptCalls ==
  ASSUME QueueIInv, Bounded', MovedOK', NEW t \in QueueTasks, call[t] = Idle, call' = call,
         \/ HeadIdx' = HeadIdx /\ Room <= Room'
         \/ t \in Producers
  PROVE  QueueIInv'
<1>1. CallOK(Idle) /\ Idle.op # "fill"
  BY DEF CallOK, Idle
<1> QED
  BY <1>1, Kept

\* A step that leaves the ring alone.
LEMMA KeptRing ==
  ASSUME QueueIInv, UNCHANGED <<head, tail, buf>>
  PROVE  Bounded' /\ HeadIdx' = HeadIdx /\ Room <= Room' /\ Items' = Items
<1>1. Used' = Used /\ Room' = Room /\ HeadIdx' = HeadIdx /\ Items' = Items
  BY DEF Used, Room, HeadIdx, Items
<1>2. Bounded /\ Room \in Nat
  BY InvBounded, Indices, QueueAssumption
<1> QED
  BY <1>1, <1>2 DEF Bounded

\* A task outside the queue code is in no call.
LEMMA IdleOK == CallOK(Idle) /\ Idle.op = "idle"
BY DEF CallOK, Idle
-----------------------------------------------------------------------------
\* What a producer's call does.
LEMMA ProducerKeeps ==
  ASSUME QueueIInv, NEW t \in Producers, ProducerStep(t)
  PROVE  QueueIInv' /\ [Fifo!Next]_Fifo!fifoVars
<1> USE IdleOK
<1>1. Bounded /\ t \in QueueTasks /\ CallOK(call[t])
  BY InvBounded DEF QueueTasks, QueueIInv, QueueTypeOK
<1>2. CASE QueuePut(t)
  <2>1. PICK d \in Chunks : Put(d) /\ call[t] = Idle /\ call' = call
    BY <1>2 DEF QueuePut
  <2>2. Bounded' /\ MovedOK' /\ Fifo!Enqueue
    BY <1>1, <2>1, ChunkSeq, PutStep
  <2> QED
    BY <1>1, <2>1, <2>2, KeptCalls DEF Fifo!Next
<1>3. CASE PutWaitCall(t)
  <2>1. PICK d \in Chunks, p \in BOOLEAN :
          call' = [call EXCEPT ![t] = PutCall(d, p)] /\ call[t] = Idle
          /\ UNCHANGED <<head, tail, buf, moved>>
    BY <1>3 DEF PutWaitCall
  <2>2. CallOK(PutCall(d, p)) /\ PutCall(d, p).op = "put"
    BY ChunkSeq DEF CallOK, PutCall
  <2>3. MovedOK'
    BY <2>1 DEF QueueIInv, QueueTypeOK, MovedOK
  <2>4. QueueIInv'
    BY <1>1, <2>1, <2>2, <2>3, KeptRing, Kept
  <2> QED
    BY <2>1, <2>4, KeptRing DEF Fifo!fifoVars
<1>4. CASE PutWaitStep(t)
  <2>1. call[t].op = "put" /\ Put(call[t].data)
    BY <1>4 DEF PutWaitStep
  <2>2. call[t] \in [op : {"put"}, data : Seq(Data), patient : BOOLEAN]
    BY <1>1, <2>1 DEF CallOK, Idle
  <2>3. Bounded' /\ MovedOK' /\ Fifo!Enqueue
    BY <1>1, <2>1, <2>2, PutStep
  <2>4. CASE call' = [call EXCEPT ![t] = Idle]
    BY <1>1, <2>1, <2>3, <2>4, Kept DEF Fifo!Next
  <2>5. CASE call' = [call EXCEPT ![t].data = Rest(call[t].data, Accepted(call[t].data))]
    <3> DEFINE rest == Rest(call[t].data, Accepted(call[t].data))
               c == [call[t] EXCEPT !.data = rest]
    <3>1. rest \in Seq(Data)
      <4>1. Room \in Nat /\ Len(call[t].data) \in Nat
        BY <1>1, <2>2, Indices, QueueAssumption
      <4>2. Accepted(call[t].data) \in Nat
        BY <4>1 DEF Accepted, Lesser
      <4> QED
        BY <2>2, <4>1, <4>2 DEF Rest
    <3>2. call' = [call EXCEPT ![t] = c]
      BY <2>5
    <3>3. CallOK(c) /\ c.op = "put"
      BY <2>2, <3>1 DEF CallOK
    <3> HIDE DEF c
    <3> QED
      BY <1>1, <2>1, <2>3, <3>2, <3>3, Kept DEF Fifo!Next
  <2> QED
    BY <1>4, <2>4, <2>5 DEF PutWaitStep
<1>5. CASE GetFreeLinearMem(t)
  <2> DEFINE c == FillCall(HeadIdx, Lesser(Count - HeadIdx, Room))
  <2>1. /\ call[t] = Idle /\ Producers = {t} /\ call' = [call EXCEPT ![t] = c]
        /\ UNCHANGED <<head, tail, buf, moved>>
    BY <1>5 DEF GetFreeLinearMem
  <2>2. HeadIdx \in QueueSlots /\ Room \in 0 .. Count /\ Count \in Nat
    BY <1>1, Indices, QueueAssumption
  <2>3. /\ c.idx = HeadIdx /\ c.room <= Room /\ c.idx + c.room <= Count
        /\ c.room \in 0 .. Count
    BY <2>2 DEF FillCall, Lesser, QueueSlots
  <2>4. CallOK(c)
    BY <2>2, <2>3 DEF CallOK, FillCall
  <2>5. MovedOK'
    BY <2>1 DEF QueueIInv, QueueTypeOK, MovedOK
  <2>6. HeadIdx' = HeadIdx /\ Room' = Room
    BY <2>1 DEF HeadIdx, Room, Used
  <2> HIDE DEF c
  <2>7. QueueIInv'
    BY <1>1, <2>1, <2>3, <2>4, <2>5, <2>6, KeptRing, Kept
  <2> QED
    BY <2>1, <2>7, KeptRing DEF Fifo!fifoVars
<1>6. CASE IncreaseCount(t)
  <2>1. PICK d \in Chunks :
          /\ Len(d) <= call[t].room
          /\ buf' = [i \in QueueSlots |->
                       IF call[t].idx <= i /\ i < call[t].idx + Len(d)
                       THEN d[i - call[t].idx + 1] ELSE buf[i]]
          /\ head' = Plus(head, Lesser(Len(d), Room))
          /\ moved' = In(SubSeq(d, 1, Lesser(Len(d), Room)))
    BY <1>6 DEF IncreaseCount
  <2>2. /\ call[t].op = "fill" /\ call' = [call EXCEPT ![t] = Idle] /\ tail' = tail
        /\ Producers = {t}
    BY <1>6 DEF IncreaseCount, QueueIInv, FillSole
  <2>3. d \in Seq(Data) /\ Len(d) \in Nat
    BY ChunkSeq
  <2>4. /\ call[t].idx = HeadIdx /\ HeadIdx \in QueueSlots /\ Room \in 0 .. Count /\ Count \in Nat
        /\ call[t].room <= Room /\ HeadIdx + call[t].room <= Count /\ call[t].room \in Nat
    <3>1. call[t].room \in Nat
      BY <1>1, <2>2, QueueAssumption DEF CallOK, Idle
    <3> QED
      BY <1>1, <2>2, <3>1, Indices, QueueAssumption DEF QueueIInv, ReservationStable
  <2>5. PICK n \in 0 .. Room : n = Len(d) /\ Lesser(Len(d), Room) = n /\ HeadIdx + n <= Count
    BY <2>1, <2>3, <2>4 DEF Lesser, QueueSlots
  <2>6. \A i \in QueueSlots :
          buf'[i] = IF HeadIdx <= i /\ i < HeadIdx + n THEN d[i - HeadIdx + 1] ELSE buf[i]
    BY <2>1, <2>4, <2>5
  <2>7. buf' \in [QueueSlots -> Data]
    <3>1. ASSUME NEW i \in QueueSlots
          PROVE  buf'[i] \in Data
      <4>1. CASE HeadIdx <= i /\ i < HeadIdx + n
        <5>1. i - HeadIdx + 1 \in 1 .. Len(d)
          BY <2>4, <2>5, <4>1 DEF QueueSlots
        <5> QED
          BY <2>3, <2>6, <4>1, <5>1
      <4>2. CASE ~(HeadIdx <= i /\ i < HeadIdx + n)
        BY <1>1, <2>6, <4>2 DEF Bounded
      <4> QED
        BY <4>1, <4>2
    <3> QED
      BY <2>1, <3>1
  <2>8. ASSUME NEW k \in 0 .. n - 1
        PROVE  Turn(HeadIdx, k) = HeadIdx + k /\ buf'[Turn(HeadIdx, k)] = d[k + 1]
    <3>1. /\ Turn(HeadIdx, k) = HeadIdx + k /\ HeadIdx + k \in QueueSlots
          /\ HeadIdx <= HeadIdx + k /\ HeadIdx + k < HeadIdx + n
          /\ (HeadIdx + k) - HeadIdx + 1 = k + 1
      BY <2>4, <2>5 DEF Turn, QueueSlots
    <3> QED
      BY <2>6, <3>1
  <2>9. ASSUME NEW i \in QueueSlots, \A k \in 0 .. n - 1 : i # Turn(HeadIdx, k)
        PROVE  buf'[i] = buf[i]
    <3>1. ~(HeadIdx <= i /\ i < HeadIdx + n)
      <4> SUFFICES ASSUME HeadIdx <= i, i < HeadIdx + n
                   PROVE  FALSE
        OBVIOUS
      <4>1. i - HeadIdx \in 0 .. n - 1 /\ HeadIdx + (i - HeadIdx) = i
        BY <2>4, <2>5 DEF QueueSlots
      <4> QED
        BY <2>8, <2>9, <4>1
    <3> QED
      BY <2>6, <3>1
  <2>10. Bounded' /\ Items' = Items \o SubSeq(d, 1, n)
    <3>1. head' = Plus(head, n) /\ n <= Len(d)
      BY <2>1, <2>3, <2>5
    <3> QED
      BY <1>1, <2>2, <2>3, <2>7, <2>8, <2>9, <3>1, Extended
  <2>11. Fifo!Enqueue /\ MovedOK'
    <3>1. moved' = In(SubSeq(d, 1, n)) /\ n <= Len(d)
      BY <2>1, <2>3, <2>5
    <3> QED
      BY <1>1, <2>3, <2>10, <3>1, EnqueueStep
  <2>12. QueueIInv'
    <3>1. /\ call' = [u \in QueueTasks |-> IF u = t THEN Idle ELSE call[u]]
          /\ \A u \in QueueTasks : CallOK(call[u])
      BY <2>2 DEF QueueIInv, QueueTypeOK
    <3>2. QueueTypeOK'
      BY <2>10, <2>11, <3>1 DEF QueueTypeOK, Bounded, MovedOK
    <3>3. \A u \in Producers : call'[u].op # "fill"
      BY <2>2, <3>1 DEF QueueTasks
    <3> QED
      BY <2>10, <3>2, <3>3 DEF QueueIInv, ReservationStable, FillSole, UsedBounded, Bounded
  <2> QED
    BY <2>11, <2>12 DEF Fifo!Next
<1> QED
  BY <1>2, <1>3, <1>4, <1>5, <1>6 DEF ProducerStep

\* What a consumer's call does.
LEMMA ConsumerKeeps ==
  ASSUME QueueIInv, NEW t \in Consumers, ConsumerStep(t)
  PROVE  QueueIInv' /\ [Fifo!Next]_Fifo!fifoVars
<1> USE IdleOK
<1>1. Bounded /\ t \in QueueTasks /\ CallOK(call[t]) /\ t \notin Producers /\ Used \in Nat /\ MovedOK
  BY InvBounded, Indices, QueueAssumption DEF QueueTasks, QueueIInv, QueueTypeOK, MovedOK
<1>2. CASE QueueGet(t)
  <2>1. PICK n \in 0 .. MaxReq : Get(n) /\ call[t] = Idle /\ call' = call
    BY <1>2 DEF QueueGet
  <2>2. n \in Nat
    BY QueueAssumption
  <2> QED
    BY <1>1, <2>1, <2>2, GetStep, KeptCalls DEF Fifo!Next
<1>3. CASE QueuePeek(t)
  <2>1. PICK n \in 0 .. MaxReq : Peek(n) /\ call[t] = Idle /\ UNCHANGED <<head, tail, buf, call>>
    BY <1>3 DEF QueuePeek
  <2>2. n \in Nat
    BY QueueAssumption
  <2>3. MovedOK' /\ Fifo!Look
    BY <1>1, <2>1, <2>2, LookStep
  <2> QED
    BY <1>1, <2>1, <2>3, KeptRing, KeptCalls DEF Fifo!Next
<1>4. ASSUME NEW n \in Nat, Drop(n), call[t] = Idle, UNCHANGED <<head, buf, call, moved>>
      PROVE  QueueIInv' /\ [Fifo!Next]_Fifo!fifoVars
  <2>1. /\ Bounded' /\ Room <= Room' /\ HeadIdx' = HeadIdx
        /\ Lesser(n, Used) \in 0 .. Len(Items)
        /\ Items' = SubSeq(Items, Lesser(n, Used) + 1, Len(Items))
    BY <1>1, <1>4, DropStep
  <2>2. Fifo!Discard
    BY <1>4, <2>1 DEF Fifo!Discard
  <2>3. MovedOK'
    BY <1>1, <1>4 DEF MovedOK
  <2> QED
    BY <1>1, <1>4, <2>1, <2>2, <2>3, KeptCalls DEF Fifo!Next
<1>5. CASE QueueDrop(t)
  <2>1. PICK n \in 0 .. MaxReq : Drop(n) /\ call[t] = Idle /\ UNCHANGED <<head, buf, call, moved>>
    BY <1>5 DEF QueueDrop
  <2>2. n \in Nat
    BY QueueAssumption
  <2> QED
    BY <1>4, <2>1, <2>2
<1>6. CASE QueueDropAll(t)
  BY <1>1, <1>4, <1>6 DEF QueueDropAll
<1>7. CASE GetWaitCall(t)
  <2>1. PICK n \in 0 .. MaxReq, p \in BOOLEAN :
          call' = [call EXCEPT ![t] = GetCall(<<>>, n, p)] /\ UNCHANGED <<head, tail, buf, moved>>
    BY <1>7 DEF GetWaitCall
  <2>2. CallOK(GetCall(<<>>, n, p))
    BY QueueAssumption DEF CallOK, GetCall
  <2>3. MovedOK'
    BY <1>1, <2>1 DEF MovedOK
  <2>4. QueueIInv'
    BY <1>1, <2>1, <2>2, <2>3, KeptRing, Kept
  <2> QED
    BY <2>1, <2>4, KeptRing DEF Fifo!fifoVars
<1>8. CASE GetWaitStep(t)
  <2>1. call[t].op = "get" /\ Get(call[t].missing)
    BY <1>8 DEF GetWaitStep
  <2>2. call[t] \in [op : {"get"}, data : Seq(Data), missing : Nat, patient : BOOLEAN]
    BY <1>1, <2>1 DEF CallOK, Idle
  <2>3. PICK n \in 0 .. Used : n = Lesser(call[t].missing, Used) /\ n <= call[t].missing
    BY <1>1, <2>2 DEF Lesser
  <2>4. Bounded' /\ Room <= Room' /\ HeadIdx' = HeadIdx /\ MovedOK' /\ Fifo!Dequeue
    BY <1>1, <2>1, <2>2, GetStep
  <2>5. CASE call' = [call EXCEPT ![t] = Idle]
    BY <1>1, <2>4, <2>5, Kept DEF Fifo!Next
  <2>6. CASE call' = [call EXCEPT ![t].data = @ \o Peeked(n), ![t].missing = @ - n]
    <3> DEFINE c == [call[t] EXCEPT !.data = @ \o Peeked(n), !.missing = @ - n]
    <3>1. call' = [call EXCEPT ![t] = c]
      BY <2>6
    <3>2. Peeked(n) \in Seq(Data)
      BY <1>1, PeekedItems
    <3>3. call[t].data \o Peeked(n) \in Seq(Data) /\ call[t].missing - n \in Nat
      BY <1>1, <2>2, <2>3, <3>2
    <3>4. CallOK(c)
      BY <2>2, <3>3 DEF CallOK
    <3> HIDE DEF c
    <3> QED
      BY <1>1, <2>4, <3>1, <3>4, Kept DEF Fifo!Next
  <2> QED
    BY <1>8, <2>3, <2>5, <2>6 DEF GetWaitStep
<1>9. CASE GetUsedLinearMem(t)
  <2>1. Peek(Count - TailIdx) /\ call[t] = Idle /\ UNCHANGED <<head, tail, buf, call>>
    BY <1>9 DEF GetUsedLinearMem, Peek
  <2>2. Count - TailIdx \in Nat
    BY <1>1, Indices, QueueAssumption DEF QueueSlots
  <2>3. MovedOK' /\ Fifo!Look
    BY <1>1, <2>1, <2>2, LookStep
  <2> QED
    BY <1>1, <2>1, <2>3, KeptRing, KeptCalls DEF Fifo!Next
<1> QED
  BY <1>2, <1>3, <1>5, <1>6, <1>7, <1>8, <1>9 DEF ConsumerStep

\* A queue is created empty.
LEMMA QueueInitOK == QueueInit => QueueIInv /\ Fifo!Init
<1> SUFFICES ASSUME QueueInit PROVE QueueIInv /\ Fifo!Init
  OBVIOUS
<1> USE IdleOK
<1>1. Used = 0 /\ Room = Count /\ moved = Out(<<>>) /\ call = [t \in QueueTasks |-> Idle]
  BY QueueAssumption DEF QueueInit, Used, Room, Minus
<1>2. QueueTypeOK
  <2>1. head \in 0 .. Wrap - 1 /\ tail \in 0 .. Wrap - 1 /\ buf \in [QueueSlots -> Data]
    BY QueueAssumption DEF QueueInit
  <2>2. moved \in [dir : {"in", "out"}, chunk : Seq(Data)]
    BY <1>1 DEF Out
  <2> QED
    BY <1>1, <2>1, <2>2 DEF QueueTypeOK
<1>3. QueueIInv
  BY <1>1, <1>2, QueueAssumption DEF QueueIInv, UsedBounded, ReservationStable, FillSole, QueueTasks
<1>4. Items = <<>>
  <2>1. Items \in Seq(Data) /\ Len(Items) = 0
    BY <1>1, <1>3, InvBounded, ItemsType DEF ItemsPlaced
  <2> QED
    BY <2>1, EmptySeq
<1> QED
  BY <1>1, <1>3, <1>4 DEF Fifo!Init, Out, Fifo!Out

\* Every step keeps the invariant and is a step of the FIFO, or leaves it
\* alone.
LEMMA QueueStepOK == QueueIInv /\ [QueueNext]_queueVars => QueueIInv' /\ [Fifo!Next]_Fifo!fifoVars
<1> SUFFICES ASSUME QueueIInv, [QueueNext]_queueVars
             PROVE  QueueIInv' /\ [Fifo!Next]_Fifo!fifoVars
  OBVIOUS
<1>1. CASE QueueNext
  BY <1>1, ProducerKeeps, ConsumerKeeps DEF QueueNext
<1>2. CASE UNCHANGED queueVars
  <2>1. Items' = Items /\ moved' = moved /\ UNCHANGED <<head, tail, buf, call>>
    BY <1>2 DEF queueVars, Items, Used
  <2>2. QueueIInv'
    BY <2>1 DEF QueueIInv, QueueTypeOK, UsedBounded, ReservationStable, FillSole, Used, Room,
                HeadIdx, CallOK
  <2> QED
    BY <2>1, <2>2 DEF Fifo!fifoVars
<1> QED
  BY <1>1, <1>2

\* The queue never claims more elements than it has slots, across the wrap of
\* its counters, and memory that Queue_GetFreeLinearMem handed out is still
\* the free memory at the head when Queue_IncreaseCount commits it
\* (Queue_GetUsed, Queue_GetFree, Queue_GetFreeLinearMem).
THEOREM RingSafe == QueueSpec => [](QueueTypeOK /\ UsedBounded /\ ReservationStable)
<1>1. QueueInit => QueueIInv
  BY QueueInitOK
<1>2. QueueIInv /\ [QueueNext]_queueVars => QueueIInv'
  BY QueueStepOK
<1>3. QueueIInv => QueueTypeOK /\ UsedBounded /\ ReservationStable
  BY DEF QueueIInv
<1> QED
  BY <1>1, <1>2, <1>3, PTL DEF QueueSpec

\* The ring buffer implements a bounded FIFO: whatever the position of the
\* counters, no element is lost, repeated, reordered or made up by
\* Queue_Put, Queue_Get, Queue_Peek, Queue_Drop, their waiting forms or the
\* direct access to the memory of the ring.
THEOREM RingIsFifo == QueueSpec => ImplementsFifo
<1>1. QueueInit => QueueIInv /\ Fifo!Init
  BY QueueInitOK
<1>2. QueueIInv /\ [QueueNext]_queueVars => QueueIInv' /\ [Fifo!Next]_Fifo!fifoVars
  BY QueueStepOK
<1> QED
  BY <1>1, <1>2, PTL DEF QueueSpec, ImplementsFifo, Fifo!Spec

-----------------------------------------------------------------------------
(* A transfer that is longer than the queue.                               *)

\* What Queue_Put does to the elements.
LEMMA PutItems ==
  ASSUME Bounded, NEW d \in Seq(Data), Put(d)
  PROVE  /\ Bounded' /\ Accepted(d) \in 0 .. Len(d)
         /\ Items' = Items \o SubSeq(d, 1, Accepted(d))
<1>1. Accepted(d) \in 0 .. Room /\ Accepted(d) \in 0 .. Len(d)
  <2>1. Room \in Nat /\ Len(d) \in Nat
    BY Indices, QueueAssumption
  <2> QED
    BY <2>1 DEF Accepted, Lesser
<1>2. PICK n \in 0 .. Room : n = Accepted(d)
  BY <1>1
<1>3. buf' = Copied(d, n) /\ head' = Plus(head, n) /\ tail' = tail /\ n <= Len(d)
  BY <1>1, <1>2 DEF Put
<1>4. /\ buf' \in [QueueSlots -> Data]
      /\ \A k \in 0 .. n - 1 : buf'[Turn(HeadIdx, k)] = d[k + 1]
      /\ \A i \in QueueSlots : (\A k \in 0 .. n - 1 : i # Turn(HeadIdx, k)) => buf'[i] = buf[i]
  BY <1>3, CopiedPlaces
<1>5. Bounded' /\ Items' = Items \o SubSeq(d, 1, n)
  BY <1>3, <1>4, Extended
<1> QED
  BY <1>1, <1>2, <1>5

\* A sequence is its first n elements and the rest.
LEMMA SeqParts ==
  ASSUME NEW S, NEW s \in Seq(S), NEW n \in 0 .. Len(s)
  PROVE  /\ s = SubSeq(s, 1, n) \o SubSeq(s, n + 1, Len(s))
         /\ SubSeq(s, 1, n) \in Seq(S) /\ SubSeq(s, n + 1, Len(s)) \in Seq(S)
<1> DEFINE a == SubSeq(s, 1, n)
           b == SubSeq(s, n + 1, Len(s))
<1>1. a \in Seq(S) /\ Len(a) = n /\ \A k \in 1 .. n : a[k] = s[k]
  BY SeqFirst
<1>2. b \in Seq(S) /\ Len(b) = Len(s) - n /\ \A k \in 1 .. Len(s) - n : b[k] = s[n + k]
  BY SeqRest
<1> HIDE DEF a, b
<1>3. Len(s) = Len(a) + Len(b)
  BY <1>1, <1>2
<1>4. s = a \o b
  BY <1>1, <1>2, <1>3, Joined
<1> QED
  BY <1>1, <1>2, <1>4 DEF a, b

\* The transfer with its writer p and its reader c: both wait without a limit,
\* the reader counts what it misses, and the message is in three places.
Reading(c) == /\ call[c] \in [op : {"get"}, data : Seq(Data), missing : Nat, patient : {TRUE}]
              /\ call[c].missing = Len(Msg) - Len(call[c].data)
Writing(p) == call[p] \in [op : {"put"}, data : Seq(Data), patient : {TRUE}]
Unsent(p) == IF call[p].op = "put" THEN call[p].data ELSE <<>>
Transfer(p, c) ==
  /\ Bounded /\ DOMAIN call = QueueTasks
  /\ call[p] = Idle \/ Writing(p)
  /\ \/ Reading(c) /\ (call[c].data \o Items) \o Unsent(p) = Msg
     \/ call[c] = Idle /\ Items = <<>> /\ Unsent(p) = <<>>

\* Joining sequences of elements is associative.
LEMMA DataJoin == \A a, b, c \in Seq(Data) : (a \o b) \o c = a \o (b \o c)
BY JoinAssoc

\* A pass of Queue_PutWait moves elements from the writer to the ring.
LEMMA PutKeeps ==
  ASSUME NEW p, NEW c, Producers = {p}, Consumers = {c}, p # c, Transfer(p, c), PutWaitStep(p)
  PROVE  Transfer(p, c)'
<1> DEFINE d == call[p].data
           k == Accepted(d)
           rest == Rest(d, k)
<1>1. call[p].op = "put" /\ Writing(p) /\ Put(d) /\ Bounded /\ p \in QueueTasks /\ c \in QueueTasks
  BY DEF Transfer, PutWaitStep, Idle, QueueTasks
<1>2. d \in Seq(Data)
  BY <1>1 DEF Writing
<1>3. Bounded' /\ k \in 0 .. Len(d) /\ Items' = Items \o SubSeq(d, 1, k)
  BY <1>1, <1>2, PutItems
<1>4. /\ d = SubSeq(d, 1, k) \o rest /\ SubSeq(d, 1, k) \in Seq(Data) /\ rest \in Seq(Data)
  BY <1>2, <1>3, SeqParts DEF Rest
<1>5. /\ DOMAIN call' = QueueTasks /\ call'[c] = call[c]
      /\ \/ rest = <<>> /\ call'[p] = Idle
         \/ call'[p] = [call[p] EXCEPT !.data = rest]
  BY <1>1 DEF Transfer, PutWaitStep, Writing, PutCall
<1> HIDE DEF k, rest
<1>6. (call'[p] = Idle \/ Writing(p)') /\ Unsent(p)' = rest
  <2>1. CASE rest = <<>> /\ call'[p] = Idle
    <3>1. Idle.op # "put"
      BY DEF Idle
    <3> QED
      BY <2>1, <3>1 DEF Unsent
  <2>2. CASE call'[p] = [call[p] EXCEPT !.data = rest]
    <3>1. /\ call'[p] \in [op : {"put"}, data : Seq(Data), patient : {TRUE}]
          /\ call'[p].data = rest /\ call'[p].op = "put"
      BY <1>1, <1>4, <2>2 DEF Writing
    <3> QED
      BY <3>1 DEF Writing, Unsent
  <2> QED
    BY <1>5, <2>1, <2>2
<1>7. Items \in Seq(Data) /\ Unsent(p) = d
  BY <1>1, ItemsType DEF ItemsPlaced, Unsent
<1>8. CASE Reading(c) /\ (call[c].data \o Items) \o Unsent(p) = Msg
  <2> DEFINE g == call[c].data
             q == SubSeq(d, 1, k)
  <2>1. g \in Seq(Data) /\ q \in Seq(Data)
    BY <1>4, <1>8 DEF Reading
  <2>2. (g \o Items) \o (q \o rest) = Msg
    BY <1>4, <1>7, <1>8
  <2> HIDE DEF g, q
  <2>3. (g \o (Items \o q)) \o rest = (g \o Items) \o (q \o rest)
    <3> DEFINE i == Items
    <3>1. i \in Seq(Data) /\ rest \in Seq(Data)
      BY <1>4, <1>7
    <3> HIDE DEF i
    <3>2. g \o (i \o q) = (g \o i) \o q
      BY <2>1, <3>1, DataJoin, Zenon
    <3> DEFINE h == g \o i
    <3>3. h \in Seq(Data)
      BY <2>1, <3>1, ConcatProperties
    <3> HIDE DEF h
    <3>4. (h \o q) \o rest = h \o (q \o rest)
      BY <2>1, <3>1, <3>3, DataJoin, Zenon
    <3> QED
      BY <3>2, <3>4 DEF h, i
  <2>4. (g \o (Items \o q)) \o rest = Msg
    BY <2>2, <2>3
  <2>5. (call'[c].data \o Items') \o Unsent(p)' = Msg
    BY <1>3, <1>5, <1>6, <2>4 DEF g, q
  <2>6. Reading(c)'
    BY <1>5, <1>8 DEF Reading
  <2> QED
    BY <1>3, <1>5, <1>6, <2>5, <2>6 DEF Transfer
<1>9. CASE call[c] = Idle /\ Items = <<>> /\ Unsent(p) = <<>>
  <2>1. d = <<>> /\ Len(d) = 0
    BY <1>7, <1>9
  <2>2. k = 0 /\ rest = <<>> /\ SubSeq(d, 1, k) = <<>>
    BY <1>2, <1>3, <1>4, <2>1, EmptySeq DEF rest, Rest
  <2>3. Items' = <<>>
    BY <1>3, <1>9, <2>2
  <2> QED
    BY <1>3, <1>5, <1>6, <1>9, <2>2, <2>3 DEF Transfer
<1> QED
  BY <1>8, <1>9 DEF Transfer

\* A pass of Queue_GetWait moves elements from the ring to the reader, which
\* returns with the last one.
LEMMA GetKeeps ==
  ASSUME NEW p, NEW c, Producers = {p}, Consumers = {c}, p # c, Transfer(p, c), GetWaitStep(c)
  PROVE  Transfer(p, c)'
<1> DEFINE g == call[c].data
           m == call[c].missing
           n == Lesser(m, Used)
           u == Unsent(p)
           first == SubSeq(Items, 1, n)
           rest == SubSeq(Items, n + 1, Len(Items))
<1>1. /\ call[c].op = "get" /\ Reading(c) /\ Get(m) /\ Bounded /\ p \in QueueTasks /\ c \in QueueTasks
      /\ (g \o Items) \o u = Msg
  BY DEF Transfer, GetWaitStep, Idle, QueueTasks
<1>2. /\ g \in Seq(Data) /\ m \in Nat /\ Items \in Seq(Data) /\ Len(Items) = Used /\ Used \in Nat
      /\ m = Len(Msg) - Len(g)
  <2>1. g \in Seq(Data) /\ m \in Nat /\ m = Len(Msg) - Len(g)
    BY <1>1 DEF Reading
  <2>2. Items \in Seq(Data) /\ Len(Items) = Used /\ Used \in Nat
    BY <1>1, ItemsType, Indices, QueueAssumption DEF ItemsPlaced
  <2> QED
    BY <2>1, <2>2
<1>3. u \in Seq(Data)
  <2>1. Idle.op # "put" /\ <<>> \in Seq(Data)
    BY EmptySeq DEF Idle
  <2>2. call[p] = Idle \/ Writing(p)
    BY DEF Transfer
  <2>3. CASE call[p] = Idle
    BY <2>1, <2>3 DEF Unsent
  <2>4. CASE Writing(p)
    <3>1. call[p].op = "put" /\ call[p].data \in Seq(Data)
      BY <2>4 DEF Writing
    <3> QED
      BY <3>1 DEF Unsent
  <2> QED
    BY <2>2, <2>3, <2>4
<1>4. Bounded' /\ n \in 0 .. Len(Items) /\ Items' = rest
  BY <1>1, <1>2, DropStep DEF Get
<1>5. Peeked(n) = first
  BY <1>1, <1>2, <1>4, PeekedItems
<1>6. Items = first \o rest /\ first \in Seq(Data) /\ rest \in Seq(Data)
  BY <1>2, <1>4, SeqParts
<1>7. /\ DOMAIN call' = QueueTasks /\ call'[p] = call[p]
      /\ \/ n = m /\ call'[c] = Idle
         \/ call'[c] = [call[c] EXCEPT !.data = g \o first, !.missing = m - n]
  <2>1. call[c].patient = TRUE /\ DOMAIN call = QueueTasks
    BY <1>1 DEF Transfer, Reading
  <2>2. \/ n = m /\ call' = [call EXCEPT ![c] = Idle]
        \/ call' = [call EXCEPT ![c].data = @ \o Peeked(n), ![c].missing = @ - n]
    BY <2>1 DEF GetWaitStep
  <2>3. CASE n = m /\ call' = [call EXCEPT ![c] = Idle]
    BY <1>1, <2>1, <2>3
  <2>4. CASE call' = [call EXCEPT ![c].data = @ \o Peeked(n), ![c].missing = @ - n]
    <3> DEFINE x == [call[c] EXCEPT !.data = g \o first, !.missing = m - n]
    <3>1. call' = [call EXCEPT ![c] = x]
      BY <1>5, <2>4
    <3> HIDE DEF x
    <3>2. DOMAIN call' = QueueTasks /\ call'[p] = call[p] /\ call'[c] = x
      BY <1>1, <2>1, <3>1
    <3> QED
      BY <3>2 DEF x
  <2> QED
    BY <2>2, <2>3, <2>4
<1>8. (call'[p] = Idle \/ Writing(p)') /\ Unsent(p)' = u
  BY <1>7 DEF Transfer, Writing, Unsent
<1>9. n <= m
  <2>1. \A x, y \in Nat : Lesser(x, y) <= x
    BY DEF Lesser
  <2> QED
    BY <1>2, <2>1
<1>10. Len(Msg) = Len(g) + Len(Items) + Len(u)
  <2>1. g \o Items \in Seq(Data) /\ Len(g \o Items) = Len(g) + Len(Items)
    BY <1>2, ConcatProperties
  <2>2. Len((g \o Items) \o u) = Len(g \o Items) + Len(u)
    BY <1>3, <2>1, ConcatProperties
  <2> QED
    BY <1>1, <2>1, <2>2
<1>11. Len(g) \in Nat /\ Len(u) \in Nat /\ Len(first) = n /\ Len(rest) = Len(Items) - n
  BY <1>2, <1>3, <1>4, SeqFirst, SeqRest
<1> HIDE DEF g, m, n, u, first, rest
<1>12. CASE n = m /\ call'[c] = Idle
  <2>1. Len(rest) = 0 /\ Len(u) = 0
    BY <1>2, <1>4, <1>10, <1>11, <1>12
  <2>2. Items' = <<>> /\ u = <<>>
    BY <1>3, <1>4, <1>6, <2>1, EmptySeq
  <2> QED
    BY <1>4, <1>7, <1>8, <1>12, <2>2 DEF Transfer
<1>13. CASE call'[c] = [call[c] EXCEPT !.data = g \o first, !.missing = m - n]
  <2>2. g \o first \in Seq(Data) /\ Len(g \o first) = Len(g) + n
    BY <1>2, <1>6, <1>11, ConcatProperties
  <2>3. m - n = Len(Msg) - Len(g \o first) /\ m - n \in Nat
    BY <1>2, <1>4, <1>9, <1>10, <1>11, <2>2
  <2>1. call'[c].data = g \o first /\ call'[c].missing = m - n
        /\ call'[c] \in [op : {"get"}, data : Seq(Data), missing : Nat, patient : {TRUE}]
    BY <1>1, <1>13, <2>2, <2>3 DEF Reading
  <2>4. Reading(c)'
    BY <2>1, <2>3 DEF Reading
  <2>5. ((g \o first) \o rest) \o u = Msg
    <3>1. (g \o first) \o rest = g \o (first \o rest)
      BY <1>2, <1>6, DataJoin, Zenon
    <3> QED
      BY <1>1, <1>6, <3>1 DEF g, u
  <2>6. (call'[c].data \o Items') \o Unsent(p)' = Msg
    BY <1>4, <1>8, <2>1, <2>5
  <2> QED
    BY <1>4, <1>7, <1>8, <2>4, <2>6 DEF Transfer
<1> QED
  BY <1>7, <1>12, <1>13

\* A transfer of any length, from one writer in Queue_PutWait to one reader in
\* Queue_GetWait, through a queue of any size whose counters may wrap at any
\* point, delivers the message: at every moment what the reader has, the ring
\* holds and the writer still has is exactly the message, in order.
THEOREM TransferIntact == ASSUME OnePair PROVE StreamSpec => []StreamIntact
<1>1. PICK p, c : Producers = {p} /\ Consumers = {c}
  BY DEF OnePair
<1>2. p # c /\ QueueTasks = {p, c}
  BY <1>1, QueueAssumption DEF QueueTasks
<1>3. StreamInit => Transfer(p, c)
  <2> SUFFICES ASSUME StreamInit PROVE Transfer(p, c)
    OBVIOUS
  <2>1. Used = 0 /\ Bounded
    BY QueueAssumption DEF StreamInit, Used, Minus, Bounded
  <2>2. Items \in Seq(Data) /\ Len(Items) = 0 /\ Items = <<>>
    BY <2>1, ItemsType, EmptySeq DEF ItemsPlaced
  <2>3. DOMAIN call = QueueTasks /\ call[p] = PutCall(Msg, TRUE) /\ call[c] = GetCall(<<>>, Len(Msg), TRUE)
    BY <1>1, <1>2 DEF StreamInit
  <2>4. Writing(p) /\ Unsent(p) = Msg
    BY <2>3, MsgAssumption DEF Writing, Unsent, PutCall
  <2>5. Reading(c) /\ call[c].data = <<>>
    BY <2>3, MsgAssumption, EmptySeq DEF Reading, GetCall
  <2>6. (<<>> \o <<>>) \o Msg = Msg
    BY MsgAssumption, EmptySeq, ConcatEmptySeq
  <2> QED
    BY <2>1, <2>2, <2>3, <2>4, <2>5, <2>6 DEF Transfer
<1>4. Transfer(p, c) /\ [\E t \in QueueTasks : StreamStep(t)]_queueVars => Transfer(p, c)'
  <2> SUFFICES ASSUME Transfer(p, c), [\E t \in QueueTasks : StreamStep(t)]_queueVars
               PROVE  Transfer(p, c)'
    OBVIOUS
  <2>1. CASE PutWaitStep(p)
    BY <1>1, <1>2, <2>1, PutKeeps
  <2>2. CASE GetWaitStep(c)
    BY <1>1, <1>2, <2>2, GetKeeps
  <2>3. ~PutWaitStep(c) /\ ~GetWaitStep(p)
    <3>1. Idle.op = "idle"
      BY DEF Idle
    <3>2. call[c].op # "put" /\ call[p].op # "get"
      BY <3>1 DEF Transfer, Reading, Writing
    <3> QED
      BY <3>2 DEF PutWaitStep, GetWaitStep
  <2>4. CASE UNCHANGED queueVars
    BY <2>4 DEF queueVars, Transfer, Reading, Writing, Unsent, Items, Bounded, Used
  <2> QED
    BY <1>2, <2>1, <2>2, <2>3, <2>4 DEF StreamStep
<1>5. Transfer(p, c) => StreamIntact
  <2> SUFFICES ASSUME Transfer(p, c) PROVE StreamIntact
    OBVIOUS
  <2>1. CASE Reading(c) /\ (call[c].data \o Items) \o Unsent(p) = Msg
    <3>1. call[c].op = "get"
      BY <2>1 DEF Reading
    <3> QED
      BY <1>1, <2>1, <3>1 DEF StreamIntact, Unsent
  <2>2. CASE call[c] = Idle /\ Items = <<>> /\ Unsent(p) = <<>>
    <3>1. call[c].op # "get" /\ <<>> \o <<>> = <<>>
      BY <2>2, EmptySeq, ConcatEmptySeq DEF Idle
    <3> QED
      BY <1>1, <2>2, <3>1 DEF StreamIntact, Unsent
  <2> QED
    BY <2>1, <2>2 DEF Transfer
<1> QED
  BY <1>3, <1>4, <1>5, PTL DEF StreamSpec

-----------------------------------------------------------------------------
(* The heap: induction and recursion first.                                *)

-----------------------------------------------------------------------------
\* The values of a link and of the headers.
Links == Addr \cup {NoAddr}
Headers == [Addr -> [used : BOOLEAN, size : 0 .. Size, prev : Links, next : Links]]

\* The blocks B tile the memory, in the order of their addresses, and the links
\* of their headers h agree with it.
Linked(h, B) ==
  /\ B \subseteq Addr /\ 0 \in B /\ h[0].prev = NoAddr
  /\ \A b \in B : /\ h[b].size >= Hdr
                  /\ h[b].next = NoAddr => b + h[b].size = Size
                  /\ h[b].next # NoAddr => /\ h[b].next = b + h[b].size
                                           /\ h[b].next \in B /\ h[h[b].next].prev = b
                  /\ b # 0 => h[b].prev \in B /\ h[h[b].prev].next = b
  /\ \A b, c \in B : b < c => b + h[b].size <= c

\* A block is in use exactly while a caller owns it, and is large enough.
Given(h, B, L) ==
  /\ \A m \in L : m.at \in B /\ h[m.at].used /\ m.req + Hdr <= h[m.at].size
  /\ \A m, o \in L : m.at = o.at => m = o
  /\ \A b \in B : h[b].used => \E m \in L : m.at = b

\* No two free blocks follow one another.
Merged(h, B) == \A b \in B : ~h[b].used /\ h[b].next # NoAddr => h[h[b].next].used

\* ... except for block b and its neighbours.
Apart(h, B, b) ==
  \A c \in B \ {b} : ~h[c].used /\ h[c].next \notin {NoAddr, b} => h[h[c].next].used

\* The inductive invariant.
HeapIInv == /\ HeapTypeOK
            /\ \E B \in SUBSET Addr : Linked(hdr, B) /\ Given(hdr, B, live) /\ Merged(hdr, B)

\* What the proofs use of the constants.
LEMMA Sizes ==
  /\ Size \in Nat /\ Hdr \in Nat /\ Hdr > 0 /\ Size >= Hdr /\ Reqs \subseteq Nat
  /\ Addr \subseteq Nat /\ 0 \in Addr /\ NoAddr \notin Addr /\ Links \subseteq Int
BY HeapAssumption DEF Addr, NoAddr, Links

\* The neighbours of a block.
LEMMA Neighbours ==
  ASSUME NEW h \in Headers, NEW B, Linked(h, B), NEW b \in B
  PROVE  /\ b \in Nat /\ b \in Addr /\ b < Size /\ h[b].size \in Nat /\ h[b].used \in BOOLEAN
         /\ h[b].next \in Links /\ h[b].prev \in Links
         /\ h[b].next # NoAddr => h[b].next \in B /\ h[b].next > b /\ h[b].next # 0
         /\ \A c \in B : h[c].next = b => h[b].prev = c
         /\ b + h[b].size <= Size
<1>1. b \in Addr /\ b \in Nat /\ b < Size
  BY Sizes DEF Linked, Addr
<1>2. /\ h[b].size \in Nat /\ h[b].used \in BOOLEAN /\ h[b].size <= Size
      /\ h[b].next \in Links /\ h[b].prev \in Links
  BY <1>1, Sizes DEF Headers
<1>3. h[b].size >= Hdr /\ (h[b].next = NoAddr => b + h[b].size = Size)
      /\ (h[b].next # NoAddr => h[b].next = b + h[b].size /\ h[b].next \in B)
  BY DEF Linked
<1>4. h[b].next # NoAddr => h[b].next > b /\ h[b].next # 0
  <2> DEFINE s == h[b].size
             n == h[b].next
  <2>1. s \in Nat /\ s >= Hdr /\ b \in Nat
    BY <1>1, <1>2, <1>3
  <2>2. n # NoAddr => n = b + s
    BY <1>3
  <2> HIDE DEF s, n
  <2>3. n # NoAddr => n > b /\ n # 0
    BY <2>1, <2>2, Sizes
  <2> QED
    BY <2>3 DEF n
<1>5. \A c \in B : h[c].next = b => h[b].prev = c
  <2>1. b # NoAddr
    BY <1>1, Sizes
  <2> QED
    BY <2>1 DEF Linked
<1>6. b + h[b].size <= Size
  <2>1. CASE h[b].next = NoAddr
    BY <1>1, <1>2, <1>3, <2>1, Sizes
  <2>2. CASE h[b].next # NoAddr
    <3>1. h[b].next \in Addr
      BY <1>3, <2>2 DEF Linked
    <3>2. h[b].next < Size /\ h[b].next \in Nat
      BY <3>1, Sizes DEF Addr
    <3> QED
      BY <1>3, <2>2, <3>2, Sizes
  <2> QED
    BY <2>1, <2>2
<1> QED
  BY <1>1, <1>2, <1>3, <1>4, <1>5, <1>6

\* Joining block b with the free block n behind it, field by field.
LEMMA JoinFields ==
  ASSUME NEW h \in Headers, NEW B, Linked(h, B), NEW b \in B,
         h[b].next # NoAddr, ~h[h[b].next].used
  PROVE  LET n == h[b].next
             g == JoinNext(h, b)
         IN  /\ g \in Headers
             /\ g[b].size = h[b].size + h[n].size /\ g[b].next = h[n].next
             /\ g[b].prev = h[b].prev /\ g[b].used = h[b].used
             /\ \A c \in Addr \ {b} : /\ g[c].used = h[c].used /\ g[c].size = h[c].size
                                      /\ g[c].next = h[c].next
                                      /\ g[c].prev = IF c = h[n].next THEN b ELSE h[c].prev
<1> DEFINE n == h[b].next
           z == h[n].next
           sum == h[b].size + h[n].size
           j == [h EXCEPT ![b].size = @ + h[n].size, ![b].next = z]
           g == JoinNext(h, b)
<1>1. /\ b \in Nat /\ b \in Addr /\ n \in B /\ n > b /\ n = b + h[b].size
      /\ h[b].size \in Nat /\ h[b].prev \in Links /\ h[b].used \in BOOLEAN
  BY Neighbours DEF Linked
<1>2. n \in Addr /\ n \in Nat /\ h[n].size \in Nat /\ z \in Links /\ n + h[n].size <= Size
      /\ (z # NoAddr => z \in B /\ z > n /\ z \in Addr /\ z \in Nat)
  <2>1. z # NoAddr => z \in B /\ z > n
    BY <1>1, Neighbours
  <2> QED
    BY <1>1, <2>1, Neighbours
<1>3. sum \in 0 .. Size
  <2> DEFINE s == h[b].size
             r == h[n].size
  <2>1. s \in Nat /\ r \in Nat /\ n = b + s /\ n + r <= Size /\ b \in Nat
    BY <1>1, <1>2
  <2> HIDE DEF s, r, n
  <2>2. s + r \in 0 .. Size
    BY <2>1, Sizes
  <2> QED
    BY <2>2 DEF s, r
<1>4. z # b
  BY <1>1, <1>2, Sizes
<1>5. g = IF z = NoAddr THEN j ELSE [j EXCEPT ![z].prev = b]
  BY DEF JoinNext
<1> HIDE DEF n, z, sum, g
<1>6. j = [h EXCEPT ![b] = [h[b] EXCEPT !.size = sum, !.next = z]]
  BY <1>1 DEF sum, Headers
<1>7. /\ j \in Headers /\ j[b].size = sum /\ j[b].next = z /\ j[b].prev = h[b].prev
      /\ j[b].used = h[b].used /\ \A c \in Addr \ {b} : j[c] = h[c]
  <2>1. [h[b] EXCEPT !.size = sum, !.next = z]
          \in [used : BOOLEAN, size : 0 .. Size, prev : Links, next : Links]
    BY <1>1, <1>2, <1>3 DEF Headers
  <2> HIDE DEF j
  <2> QED
    BY <1>1, <1>2, <1>3, <1>6, <2>1 DEF Headers
<1> HIDE DEF j
<1>8. CASE z = NoAddr
  <2>1. g = j /\ z \notin Addr
    BY <1>5, <1>8, Sizes
  <2> QED
    BY <1>7, <2>1 DEF n, z, sum, g
<1>9. CASE z # NoAddr
  <2>1. g = [j EXCEPT ![z] = [j[z] EXCEPT !.prev = b]]
    BY <1>2, <1>5, <1>7, <1>9 DEF Headers
  <2>2. [j[z] EXCEPT !.prev = b]
          \in [used : BOOLEAN, size : 0 .. Size, prev : Links, next : Links]
    BY <1>1, <1>2, <1>7, <1>9 DEF Headers, Links
  <2>3. g \in Headers /\ \A c \in Addr \ {z} : g[c] = j[c]
    BY <1>2, <1>7, <1>9, <2>1, <2>2 DEF Headers
  <2>4. /\ g[z].prev = b /\ g[z].used = j[z].used /\ g[z].size = j[z].size
        /\ g[z].next = j[z].next
    <3>1. g[z] = [j[z] EXCEPT !.prev = b]
      BY <1>2, <1>7, <1>9, <2>1 DEF Headers
    <3>2. j[z] \in [used : BOOLEAN, size : 0 .. Size, prev : Links, next : Links]
      BY <1>2, <1>7, <1>9 DEF Headers
    <3> QED
      BY <3>1, <3>2
  <2>5. /\ g[b].size = sum /\ g[b].next = z /\ g[b].prev = h[b].prev /\ g[b].used = h[b].used
    BY <1>1, <1>4, <1>7, <2>3
  <2>6. ASSUME NEW c \in Addr \ {b}
        PROVE  /\ g[c].used = h[c].used /\ g[c].size = h[c].size /\ g[c].next = h[c].next
               /\ g[c].prev = IF c = z THEN b ELSE h[c].prev
    <3>1. CASE c = z
      BY <1>7, <2>4, <3>1
    <3>2. CASE c # z
      BY <1>7, <2>3, <3>2
    <3> QED
      BY <3>1, <3>2
  <2> QED
    BY <2>3, <2>5, <2>6 DEF n, z, sum, g
<1> QED
  BY <1>8, <1>9

\* Joining two free blocks leaves a chain that tiles the memory.
LEMMA JoinLinked ==
  ASSUME NEW h \in Headers, NEW B, Linked(h, B), NEW b \in B,
         h[b].next # NoAddr, ~h[h[b].next].used
  PROVE  Linked(JoinNext(h, b), B \ {h[b].next})
<1> DEFINE n == h[b].next
           z == h[n].next
           g == JoinNext(h, b)
           C == B \ {n}
<1>1. /\ g \in Headers
      /\ g[b].size = h[b].size + h[n].size /\ g[b].next = z
      /\ g[b].prev = h[b].prev
      /\ \A c \in Addr \ {b} : /\ g[c].size = h[c].size /\ g[c].next = h[c].next
                               /\ g[c].prev = IF c = z THEN b ELSE h[c].prev
  BY JoinFields
<1>2. /\ b \in Nat /\ n \in B /\ n > b /\ n = b + h[b].size /\ n # 0 /\ h[n].prev = b
      /\ h[b].size \in Nat /\ h[b].size >= Hdr
  BY Neighbours DEF Linked
<1>3. /\ n \in Nat /\ h[n].size \in Nat /\ h[n].size >= Hdr
      /\ (z # NoAddr => z \in B /\ z > n /\ z = n + h[n].size /\ h[z].prev = n /\ z # 0)
      /\ (z = NoAddr => n + h[n].size = Size)
  <2>1. z # NoAddr => z \in B /\ z > n /\ z # 0
    BY <1>2, Neighbours
  <2>2. n \in Nat /\ h[n].size \in Nat
    BY <1>2, Neighbours
  <2> QED
    BY <1>2, <2>1, <2>2 DEF Linked
<1>4. B \subseteq Addr /\ B \subseteq Nat /\ C \subseteq Addr /\ b \in C /\ 0 \in C /\ z # b
  <2>1. B \subseteq Addr /\ 0 \in B
    BY DEF Linked
  <2>2. B \subseteq Nat /\ NoAddr \notin B
    BY <2>1, Sizes
  <2>3. n # b
    BY <1>2, <1>3
  <2>4. z # b
    <3>1. CASE z = NoAddr
      BY <2>2, <3>1
    <3>2. CASE z # NoAddr
      BY <1>2, <1>3, <2>2, <3>2
    <3> QED
      BY <3>1, <3>2
  <2> QED
    BY <1>2, <2>1, <2>2, <2>3, <2>4
<1> HIDE DEF n, z, g
<1>5. g[0].prev = NoAddr
  BY <1>1, <1>3, <1>4, Sizes DEF Linked
<1>6. ASSUME NEW c \in C
      PROVE  /\ g[c].size >= Hdr
             /\ g[c].next = NoAddr => c + g[c].size = Size
             /\ g[c].next # NoAddr => /\ g[c].next = c + g[c].size
                                      /\ g[c].next \in C /\ g[g[c].next].prev = c
             /\ c # 0 => g[c].prev \in C /\ g[g[c].prev].next = c
  <2>0. /\ c \in B /\ c \in Addr /\ h[c].size >= Hdr
        /\ h[c].next = NoAddr => c + h[c].size = Size
        /\ h[c].next # NoAddr => /\ h[c].next = c + h[c].size
                                 /\ h[c].next \in B /\ h[h[c].next].prev = c
        /\ c # 0 => h[c].prev \in B /\ h[h[c].prev].next = c
    BY <1>4 DEF Linked
  <2>1. CASE c = b
    <3> DEFINE s == h[b].size
               r == h[n].size
    <3>1. s \in Nat /\ r \in Nat /\ s >= Hdr /\ n = b + s /\ b \in Nat
          /\ (z # NoAddr => z = n + r) /\ (z = NoAddr => n + r = Size)
      BY <1>2, <1>3
    <3>2. g[b].size = s + r
      BY <1>1
    <3> HIDE DEF s, r
    <3>3. s + r >= Hdr /\ n + r = b + (s + r)
      BY <3>1, Sizes
    <3>4. z # NoAddr => z \in C /\ g[z].prev = b
      <4>1. z # NoAddr => z \in B /\ z # n /\ z # b /\ z \in Addr
        BY <1>2, <1>3, <1>4
      <4> QED
        BY <1>1, <4>1
    <3>5. b # 0 => g[b].prev \in C /\ g[g[b].prev].next = b
      <4>1. b # 0 => h[b].prev \in B /\ h[h[b].prev].next = b
        BY <2>0, <2>1
      <4>2. b # 0 => h[b].prev # b /\ h[b].prev # n
        <5> SUFFICES ASSUME b # 0 PROVE h[b].prev # b /\ h[b].prev # n
          OBVIOUS
        <5>1. h[b].prev # b
          BY <1>2, <4>1 DEF n
        <5>2. h[b].prev # n
          <6>1. h[n].next # b
            BY <1>4 DEF z
          <6> QED
            BY <4>1, <6>1
        <5> QED
          BY <5>1, <5>2
      <4> QED
        BY <1>1, <1>4, <4>1, <4>2
    <3> QED
      BY <1>1, <2>1, <3>1, <3>2, <3>3, <3>4, <3>5
  <2>2. CASE c # b
    <3>1. /\ g[c].size = h[c].size /\ g[c].next = h[c].next
          /\ g[c].prev = IF c = z THEN b ELSE h[c].prev
      BY <1>1, <2>0, <2>2
    <3>2. h[c].next # NoAddr => h[c].next \in C /\ g[h[c].next].prev = c
      <4> SUFFICES ASSUME h[c].next # NoAddr PROVE h[c].next \in C /\ g[h[c].next].prev = c
        OBVIOUS
      <4>1. h[c].next \in B /\ h[h[c].next].prev = c
        BY <2>0
      <4>2. h[c].next # n
        BY <1>2, <2>2, <4>1
      <4>3. h[c].next # z
        BY <1>3, <4>1
      <4>4. g[h[c].next].prev = h[h[c].next].prev
        <5>1. CASE h[c].next = b
          BY <1>1, <5>1
        <5>2. CASE h[c].next # b
          BY <1>1, <1>4, <4>1, <4>3, <5>2
        <5> QED
          BY <5>1, <5>2
      <4> QED
        BY <4>1, <4>2, <4>4
    <3>3. c # 0 => g[c].prev \in C /\ g[g[c].prev].next = c
      <4>1. CASE c = z
        BY <1>1, <1>4, <3>1, <4>1
      <4>2. CASE c # z /\ c # 0
        <5>1. h[c].prev \in B /\ h[h[c].prev].next = c
          BY <2>0, <4>2
        <5>2. h[c].prev # n
          BY <4>2, <5>1 DEF z
        <5>3. h[c].prev # b
          BY <5>1 DEF n
        <5> QED
          BY <1>1, <1>4, <3>1, <4>2, <5>1, <5>2, <5>3
      <4> QED
        BY <4>1, <4>2
    <3> QED
      BY <2>0, <3>1, <3>2, <3>3
  <2> QED
    BY <2>1, <2>2
<1>7. ASSUME NEW c \in C, NEW d \in C, c < d
      PROVE  c + g[c].size <= d
  <2>1. c \in B /\ d \in B /\ c + h[c].size <= d
    BY <1>7 DEF Linked
  <2>2. CASE c # b
    BY <1>1, <1>4, <2>1, <2>2
  <2>3. CASE c = b
    <3>1. n <= d /\ n # d
      BY <1>2, <2>1, <2>3
    <3>2. n < d
      BY <1>3, <1>4, <2>1, <3>1
    <3>3. n + h[n].size <= d
      BY <1>2, <2>1, <3>2 DEF Linked
    <3>4. g[c].size = h[b].size + h[n].size /\ n = b + h[b].size
      BY <1>1, <1>2, <2>3
    <3> QED
      BY <1>2, <1>3, <1>4, <2>1, <2>3, <3>3, <3>4
  <2> QED
    BY <2>2, <2>3
<1>8. Linked(g, C)
  BY <1>4, <1>5, <1>6, <1>7 DEF Linked
<1> QED
  BY <1>8 DEF g, n

\* Joining two free blocks does not touch the ones in use.
LEMMA JoinGiven ==
  ASSUME NEW h \in Headers, NEW B, Linked(h, B), NEW b \in B, NEW L, Given(h, B, L),
         ~h[b].used, h[b].next # NoAddr, ~h[h[b].next].used
  PROVE  Given(JoinNext(h, b), B \ {h[b].next}, L)
<1> DEFINE n == h[b].next
           g == JoinNext(h, b)
<1>1. g[b].used = h[b].used
      /\ \A c \in Addr \ {b} : g[c].used = h[c].used /\ g[c].size = h[c].size
  BY JoinFields
<1>2. B \subseteq Addr
  BY DEF Linked
<1>3. ~h[n].used
  OBVIOUS
<1> HIDE DEF n, g
<1>4. \A m \in L : m.at \in B \ {n} /\ g[m.at].used /\ m.req + Hdr <= g[m.at].size
  <2> SUFFICES ASSUME NEW m \in L
               PROVE  m.at \in B \ {n} /\ g[m.at].used /\ m.req + Hdr <= g[m.at].size
    OBVIOUS
  <2>1. m.at \in B /\ h[m.at].used /\ m.req + Hdr <= h[m.at].size
    BY DEF Given
  <2>2. m.at # n /\ m.at # b
    BY <1>3, <2>1
  <2> QED
    BY <1>1, <1>2, <2>1, <2>2
<1>5. \A c \in B \ {n} : g[c].used => \E m \in L : m.at = c
  <2> SUFFICES ASSUME NEW c \in B \ {n}, g[c].used
               PROVE  \E m \in L : m.at = c
    OBVIOUS
  <2>1. h[c].used
    BY <1>1, <1>2
  <2> QED
    BY <2>1 DEF Given
<1>6. Given(g, B \ {n}, L)
  BY <1>4, <1>5 DEF Given
<1> QED
  BY <1>6 DEF g, n

\* Heap_Free: the block and its free neighbours become one.
LEMMA FreeStep ==
  ASSUME HeapIInv, NEW m \in live, Free(m)
  PROVE  HeapIInv'
<1> DEFINE b == m.at
           h == [hdr EXCEPT ![b].used = FALSE]
           L == live \ {m}
           h1 == JoinNext(h, b)
           h2 == JoinPrev(h1, b)
           p == h1[b].prev
<1>1. hdr \in Headers /\ live \subseteq [at : Addr, req : Reqs]
  BY DEF HeapIInv, HeapTypeOK, Headers, Links
<1>2. hdr' = h2 /\ live' = L
  BY DEF Free
<1>3. PICK B \in SUBSET Addr : Linked(hdr, B) /\ Given(hdr, B, live) /\ Merged(hdr, B)
  BY DEF HeapIInv
<1>4. b \in B /\ b \in Addr /\ hdr[b].used
  BY <1>3 DEF Given
<1> HIDE DEF b
<1>5. /\ h \in Headers /\ ~h[b].used /\ h[b].next = hdr[b].next
      /\ \A c \in Addr : h[c].size = hdr[c].size /\ h[c].next = hdr[c].next /\ h[c].prev = hdr[c].prev
      /\ \A c \in Addr \ {b} : h[c].used = hdr[c].used
  <2>1. h = [hdr EXCEPT ![b] = [hdr[b] EXCEPT !.used = FALSE]]
    BY <1>1, <1>4 DEF Headers
  <2>2. [hdr[b] EXCEPT !.used = FALSE]
          \in [used : BOOLEAN, size : 0 .. Size, prev : Links, next : Links]
    BY <1>1, <1>4 DEF Headers
  <2>3. h \in Headers /\ h[b] = [hdr[b] EXCEPT !.used = FALSE] /\ \A c \in Addr \ {b} : h[c] = hdr[c]
    BY <1>1, <1>4, <2>1, <2>2 DEF Headers
  <2>4. /\ ~h[b].used /\ h[b].size = hdr[b].size /\ h[b].next = hdr[b].next
        /\ h[b].prev = hdr[b].prev
    BY <1>1, <1>4, <2>3 DEF Headers
  <2> HIDE DEF h
  <2> QED
    BY <2>3, <2>4
<1> HIDE DEF h
<1>6. Linked(h, B)
  <2>1. B \subseteq Addr /\ \A c \in B : (hdr[c].next # NoAddr => hdr[c].next \in Addr)
                                       /\ (c # 0 => hdr[c].prev \in Addr)
    BY <1>3 DEF Linked
  <2> QED
    BY <1>3, <1>5, <2>1 DEF Linked
<1>7. Given(h, B, L)
  <2>1. ASSUME NEW o \in L PROVE o.at \in B /\ h[o.at].used /\ o.req + Hdr <= h[o.at].size
    <3>1. o.at \in B /\ hdr[o.at].used /\ o.req + Hdr <= hdr[o.at].size
      BY <1>3 DEF Given
    <3>2. o.at # b
      BY <1>3 DEF Given, b
    <3> QED
      BY <1>5, <3>1, <3>2
  <2>2. ASSUME NEW c \in B, h[c].used PROVE \E o \in L : o.at = c
    <3>1. c # b /\ hdr[c].used
      BY <1>5, <2>2
    <3>2. PICK o \in live : o.at = c
      BY <1>3, <3>1 DEF Given
    <3> QED
      BY <3>1, <3>2 DEF b
  <2>3. \A q, o \in L : q.at = o.at => q = o
    BY <1>3 DEF Given
  <2> QED
    BY <2>1, <2>2, <2>3 DEF Given
<1>8. Apart(h, B, b)
  <2> SUFFICES ASSUME NEW c \in B \ {b}, ~h[c].used, h[c].next \notin {NoAddr, b}
               PROVE  h[h[c].next].used
    BY DEF Apart
  <2>1. hdr[c].next = h[c].next /\ ~hdr[c].used /\ h[c].next \in Addr
    BY <1>5, <1>6 DEF Linked
  <2> QED
    BY <1>3, <1>5, <2>1 DEF Merged
<1> HIDE DEF L, h1, h2, p
\* The block behind
<1>9. \E C \in SUBSET Addr :
         /\ h1 \in Headers /\ Linked(h1, C) /\ b \in C /\ Given(h1, C, L) /\ ~h1[b].used
         /\ Apart(h1, C, b) /\ (h1[b].next # NoAddr => h1[h1[b].next].used)
  <2> DEFINE n == h[b].next
  <2>1. CASE n = NoAddr \/ h[n].used
    <3>1. h1 = h
      BY <2>1 DEF h1, JoinNext
    <3> QED
      BY <1>4, <1>5, <1>6, <1>7, <1>8, <2>1, <3>1
  <2>2. CASE n # NoAddr /\ ~h[n].used
    <3>1. n \in B /\ n > b /\ n \in Nat /\ b \in Nat /\ n # b
      BY <1>4, <1>5, <1>6, <2>2, Neighbours
    <3>2. Linked(h1, B \ {n}) /\ Given(h1, B \ {n}, L)
      BY <1>4, <1>5, <1>6, <1>7, <2>2, JoinLinked, JoinGiven DEF h1
    <3>3. /\ h1 \in Headers /\ h1[b].next = h[n].next /\ h1[b].used = h[b].used
          /\ \A c \in Addr \ {b} : h1[c].used = h[c].used /\ h1[c].next = h[c].next
      BY <1>4, <1>5, <1>6, <2>2, JoinFields DEF h1
    <3>4. h[n].next # NoAddr => h[n].next \in B /\ h[n].next > n /\ h[n].next \in Nat /\ h[n].next # b
      <4>1. h[n].next # NoAddr => h[n].next \in B /\ h[n].next > n
        BY <1>5, <1>6, <3>1, Neighbours
      <4>2. B \subseteq Nat
        BY Sizes
      <4> DEFINE z == h[n].next
      <4>3. n \in Nat /\ b \in Nat /\ n > b /\ (z # NoAddr => z \in Nat /\ z > n /\ z \in B)
        BY <3>1, <4>1, <4>2
      <4> HIDE DEF n, z
      <4>4. z # NoAddr => z \in B /\ z > n /\ z \in Nat /\ z # b
        BY <4>3
      <4> QED
        BY <4>4 DEF z
    <3>5. h1[b].next # NoAddr => h1[h1[b].next].used
      <4> SUFFICES ASSUME h1[b].next # NoAddr PROVE h1[h1[b].next].used
        OBVIOUS
      <4> HIDE DEF n
      <4>1. h[n].next # NoAddr /\ h[n].next # b
        BY <3>3, <3>4
      <4>2. h[h[n].next].used
        BY <1>8, <2>2, <3>1, <4>1 DEF Apart
      <4> QED
        BY <3>3, <3>4, <4>1, <4>2
    <3>6. Apart(h1, B \ {n}, b)
      <4> SUFFICES ASSUME NEW c \in (B \ {n}) \ {b}, ~h1[c].used, h1[c].next \notin {NoAddr, b}
                   PROVE  h1[h1[c].next].used
        BY DEF Apart
      <4>1. h1[c].next = h[c].next /\ ~h[c].used
        BY <3>3
      <4>2. h[h[c].next].used
        BY <1>8, <4>1 DEF Apart
      <4>3. h[c].next \in Addr \ {b}
        BY <1>6, <4>1 DEF Linked
      <4> QED
        BY <3>3, <4>1, <4>2, <4>3
    <3>7. b \in B \ {n} /\ B \ {n} \in SUBSET Addr /\ ~h1[b].used
      BY <1>4, <1>5, <3>1, <3>3
    <3> HIDE DEF n
    <3> QED
      BY <3>2, <3>3, <3>5, <3>6, <3>7
  <2> QED
    BY <2>1, <2>2
<1>10. PICK C \in SUBSET Addr :
         /\ h1 \in Headers /\ Linked(h1, C) /\ b \in C /\ Given(h1, C, L) /\ ~h1[b].used
         /\ Apart(h1, C, b) /\ (h1[b].next # NoAddr => h1[h1[b].next].used)
  BY <1>9
\* The block in front
<1>11. \E D \in SUBSET Addr : h2 \in Headers /\ Linked(h2, D) /\ Given(h2, D, L) /\ Merged(h2, D)
  <2>0. \A c \in C : h1[c].next = b => p = c
    BY <1>10, Neighbours DEF p
  <2>1. CASE p = NoAddr \/ h1[p].used
    <3>1. h2 = h1
      BY <2>1 DEF h2, p, JoinPrev
    <3>2. Merged(h1, C)
      <4> SUFFICES ASSUME NEW c \in C, ~h1[c].used, h1[c].next # NoAddr
                   PROVE  h1[h1[c].next].used
        BY DEF Merged
      <4>1. CASE c = b
        BY <1>10, <4>1
      <4>2. CASE c # b /\ h1[c].next # b
        BY <1>10, <4>2 DEF Apart
      <4>3. CASE h1[c].next = b
        <5>1. p = c
          BY <2>0, <4>3
        <5>2. c # NoAddr
          BY Sizes
        <5> QED
          BY <2>1, <5>1, <5>2
      <4> QED
        BY <4>1, <4>2, <4>3
    <3> QED
      BY <1>10, <3>1, <3>2
  <2>2. CASE p # NoAddr /\ ~h1[p].used
    <3>1. p \in C /\ h1[p].next = b /\ b # NoAddr
      <4>1. b # 0 /\ b # NoAddr
        BY <1>4, <1>10, <2>2, Sizes DEF Linked, p
      <4> QED
        BY <1>10, <4>1 DEF Linked, p
    <3>2. h2 = JoinNext(h1, p)
      BY <1>10, <2>2, <3>1 DEF h2, p, JoinPrev, JoinNext
    <3>3. Linked(h2, C \ {b}) /\ Given(h2, C \ {b}, L)
      BY <1>10, <2>2, <3>1, <3>2, JoinLinked, JoinGiven
    <3>4. /\ h2 \in Headers /\ h2[p].next = h1[b].next /\ h2[p].used = h1[p].used
          /\ \A c \in Addr \ {p} : h2[c].used = h1[c].used /\ h2[c].next = h1[c].next
      BY <1>10, <2>2, <3>1, <3>2, JoinFields
    <3>5. Merged(h2, C \ {b})
      <4> SUFFICES ASSUME NEW c \in C \ {b}, ~h2[c].used, h2[c].next # NoAddr
                   PROVE  h2[h2[c].next].used
        BY DEF Merged
      <4>1. CASE c = p
        <5>1. h2[c].next = h1[b].next /\ h1[h1[b].next].used /\ h1[b].next \in Addr
          BY <1>10, <3>4, <4>1 DEF Linked
        <5> QED
          BY <2>2, <3>4, <5>1
      <4>2. CASE c # p
        <5>1. h2[c].next = h1[c].next /\ ~h1[c].used
          BY <3>4, <4>2
        <5>2. h1[c].next # b
          BY <2>0, <4>2
        <5>3. h1[h1[c].next].used /\ h1[c].next \in Addr
          BY <1>10, <5>1, <5>2 DEF Apart, Linked
        <5> QED
          BY <2>2, <3>4, <5>1, <5>3
      <4> QED
        BY <4>1, <4>2
    <3>6. C \ {b} \in SUBSET Addr
      OBVIOUS
    <3> QED
      BY <3>3, <3>4, <3>5, <3>6
  <2> QED
    BY <2>1, <2>2
<1>12. HeapTypeOK'
  BY <1>1, <1>2, <1>11 DEF HeapTypeOK, Headers, Links, L
<1> QED
  BY <1>2, <1>11, <1>12 DEF HeapIInv

-----------------------------------------------------------------------------
\* The walk along the chain.
LEMMA WalkRecursion ==
  ASSUME HeapTypeOK
  PROVE  /\ Walk = [k \in 0 .. Size |->
                      IF k = 0 THEN 0
                      ELSE IF Walk[k - 1] = NoAddr THEN NoAddr ELSE hdr[Walk[k - 1]].next]
<1> DEFINE Next(w) == IF w = NoAddr THEN NoAddr ELSE hdr[w].next
           F == [k \in Nat |-> [w \in Links |-> Next(w)]]
           G(g) == [k \in 0 .. Size |->
                      IF k = 0 THEN 0
                      ELSE IF g[k - 1] = NoAddr THEN NoAddr ELSE hdr[g[k - 1]].next]
<1>1. \A w \in Links : Next(w) \in Links
  BY DEF HeapTypeOK, Links
<1>2. F \in [Nat -> [Links -> Links]] /\ \A k \in Nat : \A w \in Links : F[k][w] = Next(w)
  <2> HIDE DEF Next
  <2> QED
    BY <1>1
<1> HIDE DEF F
<1>3. 0 \in Links /\ Size \in Nat
  BY Sizes DEF Links
<1>4. PICK f : Iterates(f, Links, 0, F, Size)
  <2>1. F \in Steps(Links) /\ 0 \in Links /\ Size \in Nat
    BY <1>2, <1>3 DEF Steps
  <2> QED
    BY <2>1, Recursion, Zenon
<1>5. ASSUME NEW k \in 0 .. Size PROVE f[k] = G(f)[k]
  <2>1. CASE k = 0
    BY <1>4, <2>1 DEF Iterates
  <2>2. CASE k # 0
    <3>1. k \in 1 .. Size /\ k - 1 \in 0 .. Size /\ k \in Nat
      BY <1>3, <2>2
    <3>2. f[k] = Next(f[k - 1])
      BY <1>2, <1>4, <3>1 DEF Iterates
    <3> QED
      BY <2>2, <3>2
  <2> QED
    BY <2>1, <2>2
<1>6. f = G(f)
  BY <1>4, <1>5 DEF Iterates
<1>7. Walk = CHOOSE g : g = G(g)
  BY DEF Walk
<1>8. Walk = G(Walk)
  <2> HIDE DEF G
  <2> QED
    BY <1>6, <1>7
<1> QED
  BY <1>8

\* The chain consists of the blocks that tile the memory.
LEMMA ChainIn ==
  ASSUME HeapTypeOK, NEW B, Linked(hdr, B)
  PROVE  (\A k \in 0 .. Size : Walk[k] \in B \cup {NoAddr}) /\ Chain \subseteq B
<1> DEFINE S == {k \in Nat : k <= Size => Walk[k] \in B \cup {NoAddr}}
<1>0. Size \in Nat /\ NoAddr \notin B /\ 0 \in B
  BY Sizes DEF Linked
<1>1. \A k \in 0 .. Size :
         Walk[k] = IF k = 0 THEN 0
                   ELSE IF Walk[k - 1] = NoAddr THEN NoAddr ELSE hdr[Walk[k - 1]].next
  <2> DEFINE G(g) == [k \in 0 .. Size |->
                      IF k = 0 THEN 0
                      ELSE IF g[k - 1] = NoAddr THEN NoAddr ELSE hdr[g[k - 1]].next]
  <2>1. Walk = G(Walk)
    BY WalkRecursion
  <2>2. \A g : \A k \in 0 .. Size : G(g)[k] = IF k = 0 THEN 0
                   ELSE IF g[k - 1] = NoAddr THEN NoAddr ELSE hdr[g[k - 1]].next
    OBVIOUS
  <2> HIDE DEF G
  <2> QED
    BY <2>1, <2>2, Zenon
<1>2. 0 \in S
  BY <1>0, <1>1
<1>3. ASSUME NEW k \in Nat, k \in S PROVE k + 1 \in S
  <2> SUFFICES ASSUME k + 1 <= Size PROVE Walk[k + 1] \in B \cup {NoAddr}
    OBVIOUS
  <2>1. k \in 0 .. Size /\ k + 1 \in 0 .. Size /\ k + 1 # 0 /\ (k + 1) - 1 = k
    BY <1>0
  <2>2. Walk[k] \in B \cup {NoAddr}
    BY <1>3, <2>1
  <2>3. Walk[k + 1] = IF Walk[k] = NoAddr THEN NoAddr ELSE hdr[Walk[k]].next
    BY <1>1, <2>1
  <2> QED
    BY <2>2, <2>3 DEF Linked
<1>4. Nat \subseteq S
  <2>1. \A k \in Nat : k \in S => k + 1 \in S
    BY <1>3
  <2> HIDE DEF S
  <2> QED
    BY <1>2, <2>1, NatInduct
<1>5. \A k \in 0 .. Size : Walk[k] \in B \cup {NoAddr}
  BY <1>0, <1>4
<1> QED
  BY <1>5 DEF Chain

\* The search returns a free block of the chain, if there is one.
LEMMA BestFitFree ==
  ASSUME HeapTypeOK, NEW B, Linked(hdr, B), NEW size
  PROVE  BestFit(size) = NoAddr \/ (BestFit(size) \in Chain /\ ~hdr[BestFit(size)].used)
<1> DEFINE Better(b, f) == IF b = NoAddr \/ (b # NoAddr /\ hdr[b].used) THEN f
                           ELSE IF \/ f = NoAddr
                                   \/ hdr[b].size >= size /\ hdr[b].size < hdr[f].size
                                THEN b ELSE f
           F == [k \in Nat |-> [f \in Links |-> IF k \in 1 .. Size THEN Better(Walk[k - 1], f) ELSE f]]
           G(g) == [k \in 0 .. Size |->
                      IF k = 0 THEN NoAddr ELSE Better(Walk[k - 1], g[k - 1])]
           Good == {b \in Chain : ~hdr[b].used} \cup {NoAddr}
<1>0. Size \in Nat /\ NoAddr \in Links /\ B \subseteq Links
  BY Sizes DEF Links, Linked
<1>1. \A k \in 1 .. Size : k - 1 \in 0 .. Size
  BY <1>0
<1>2. \A k \in 1 .. Size : Walk[k - 1] \in Links /\ Walk[k - 1] \in Chain \cup {NoAddr}
  <2>1. \A k \in 0 .. Size : Walk[k] \in B \cup {NoAddr}
    BY ChainIn
  <2>2. \A k \in 0 .. Size : Walk[k] \in Chain \cup {NoAddr}
    BY DEF Chain
  <2> QED
    BY <1>0, <1>1, <2>1, <2>2
<1>3. \A b, f : Better(b, f) \in {b, f} /\ (Better(b, f) # f => b # NoAddr /\ ~hdr[b].used)
  OBVIOUS
<1>4. BestFit(size) = (CHOOSE g : g = G(g))[Size]
  BY DEF BestFit
<1> HIDE DEF Better
<1>5. F \in Steps(Links) /\ \A k \in 1 .. Size : \A f \in Links : F[k][f] = Better(Walk[k - 1], f)
  <2>1. \A k \in Nat : \A f \in Links : (IF k \in 1 .. Size THEN Better(Walk[k - 1], f) ELSE f) \in Links
    BY <1>2, <1>3
  <2>2. \A k \in 1 .. Size : k \in Nat
    BY <1>0
  <2> QED
    BY <2>1, <2>2 DEF Steps
<1> HIDE DEF F
<1>6. PICK f : Iterates(f, Links, NoAddr, F, Size)
  BY <1>0, <1>5, Recursion, Zenon
<1>7. f = G(f)
  <2>1. f \in [0 .. Size -> Links] /\ f[0] = NoAddr /\ \A k \in 1 .. Size : f[k] = F[k][f[k - 1]]
    BY <1>6 DEF Iterates
  <2>2. ASSUME NEW k \in 0 .. Size
        PROVE  f[k] = IF k = 0 THEN NoAddr ELSE Better(Walk[k - 1], f[k - 1])
    <3>1. CASE k = 0
      BY <2>1, <3>1
    <3>2. CASE k # 0
      <4>1. k \in 1 .. Size /\ k - 1 \in 0 .. Size
        BY <1>0, <3>2
      <4> QED
        BY <1>5, <2>1, <3>2, <4>1
    <3> QED
      BY <3>1, <3>2
  <2> QED
    BY <2>1, <2>2
<1> DEFINE fit == CHOOSE g : g = G(g)
<1>8. fit = G(fit)
  <2> HIDE DEF G
  <2> QED
    BY <1>7
<1> HIDE DEF fit
<1>9. \A k \in 0 .. Size : fit[k] = IF k = 0 THEN NoAddr ELSE Better(Walk[k - 1], fit[k - 1])
  <2>1. \A g : \A k \in 0 .. Size : G(g)[k] = IF k = 0 THEN NoAddr ELSE Better(Walk[k - 1], g[k - 1])
    OBVIOUS
  <2> HIDE DEF G
  <2> QED
    BY <1>8, <2>1, Zenon
<1> DEFINE S == {k \in Nat : k <= Size => fit[k] \in Good}
<1>10. 0 \in S
  BY <1>0, <1>9
<1>11. ASSUME NEW k \in Nat, k \in S PROVE k + 1 \in S
  <2> SUFFICES ASSUME k + 1 <= Size PROVE fit[k + 1] \in Good
    OBVIOUS
  <2>1. k \in 0 .. Size /\ k + 1 \in 0 .. Size /\ k + 1 \in 1 .. Size /\ k + 1 # 0 /\ (k + 1) - 1 = k
    BY <1>0
  <2>2. fit[k] \in Good /\ fit[k + 1] = Better(Walk[k], fit[k])
    BY <1>9, <1>11, <2>1
  <2>3. Walk[k] \in Chain \cup {NoAddr}
    BY <1>2, <2>1
  <2> QED
    BY <1>3, <2>2, <2>3
<1>12. Size \in S
  <2>1. \A k \in Nat : k \in S => k + 1 \in S
    BY <1>11
  <2> HIDE DEF S
  <2> QED
    BY <1>0, <1>10, <2>1, NatInduct
<1>13. fit[Size] \in Good
  BY <1>0, <1>12
<1>14. BestFit(size) \in Good
  BY <1>4, <1>13 DEF fit
<1> QED
  BY <1>14

-----------------------------------------------------------------------------
\* Heap_Malloc, while the only free block is the last one: the block is taken
\* as a whole, or its end becomes the new last block.
LEMMA MallocStep ==
  ASSUME HeapIInv, NEW req \in Reqs, Tidy, Fits(req), Malloc(req)
  PROVE  HeapIInv'
<1> DEFINE size == req + Hdr
           b == BestFit(size)
           s == hdr[b].size
           n == b + size
           m == [at |-> b, req |-> req]
           rest == [used |-> FALSE, size |-> s - size, prev |-> b, next |-> hdr[b].next]
           Header == [used : BOOLEAN, size : 0 .. Size, prev : Links, next : Links]
<1>1. hdr \in Headers /\ live \subseteq [at : Addr, req : Reqs] /\ HeapTypeOK
      /\ hdr \in [Addr -> Header]
  BY DEF HeapIInv, HeapTypeOK, Headers, Links
<1>2. PICK B \in SUBSET Addr : Linked(hdr, B) /\ Given(hdr, B, live) /\ Merged(hdr, B)
  BY DEF HeapIInv
<1>3. hdr' = Take(b, size) /\ live' = live \cup {m} /\ b # NoAddr /\ s >= size
  BY DEF Malloc, Fits
<1>4. b \in Chain /\ ~hdr[b].used
  BY <1>1, <1>2, <1>3, BestFitFree
<1>5. b \in B /\ hdr[b].next = NoAddr
  BY <1>1, <1>2, <1>4, ChainIn DEF Tidy
<1>6. /\ req \in Nat /\ size \in Nat /\ size >= Hdr /\ b \in Nat /\ b \in Addr /\ s \in Nat
      /\ b + s = Size /\ hdr[b].prev \in Links
  <2>1. req \in Nat /\ size \in Nat /\ size >= Hdr
    BY Sizes
  <2>2. b + s = Size
    BY <1>2, <1>5 DEF Linked
  <2> QED
    BY <1>1, <1>2, <1>5, <2>1, <2>2, Neighbours
<1>7. m \in [at : Addr, req : Reqs] /\ m.at = b /\ m.req = req
  BY <1>6
<1>8. \A o \in live : o.at # b
  BY <1>2, <1>4 DEF Given
<1>9. hdr' = IF s >= size + 2 * Hdr
             THEN [hdr EXCEPT ![n] = rest, ![b].used = TRUE, ![b].size = size, ![b].next = n]
             ELSE [hdr EXCEPT ![b].used = TRUE]
  BY <1>3 DEF Take
<1>10. B \subseteq Nat /\ NoAddr \notin B
  BY Sizes
<1> HIDE DEF size, b, s, n, m
<1>11. CASE ~(s >= size + 2 * Hdr)
  <2>1. hdr' = [hdr EXCEPT ![b] = [hdr[b] EXCEPT !.used = TRUE]]
    BY <1>1, <1>6, <1>9, <1>11
  <2>2. [hdr[b] EXCEPT !.used = TRUE] \in Header
    BY <1>1, <1>6
  <2>3. hdr' \in [Addr -> Header] /\ hdr'[b] = [hdr[b] EXCEPT !.used = TRUE]
        /\ \A c \in Addr \ {b} : hdr'[c] = hdr[c]
    BY <1>1, <1>6, <2>1, <2>2
  <2>4. hdr[b] \in Header
    BY <1>1, <1>6
  <2>5. /\ \A c \in Addr : /\ hdr'[c].size = hdr[c].size /\ hdr'[c].next = hdr[c].next
                           /\ hdr'[c].prev = hdr[c].prev
        /\ hdr'[b].used /\ \A c \in Addr \ {b} : hdr'[c].used = hdr[c].used
    BY <2>3, <2>4
  <2>6. Linked(hdr', B)
    <3>1. B \subseteq Addr /\ \A c \in B : (hdr[c].next # NoAddr => hdr[c].next \in Addr)
                                         /\ (c # 0 => hdr[c].prev \in Addr)
      BY <1>2 DEF Linked
    <3> QED
      BY <1>2, <2>5, <3>1 DEF Linked
  <2>7. Given(hdr', B, live')
    <3>1. \A o \in live' : o.at \in B /\ hdr'[o.at].used /\ o.req + Hdr <= hdr'[o.at].size
      <4>1. ASSUME NEW o \in live PROVE o.at \in B /\ hdr'[o.at].used /\ o.req + Hdr <= hdr'[o.at].size
        <5>1. o.at \in B /\ o.at # b /\ hdr[o.at].used /\ o.req + Hdr <= hdr[o.at].size
          BY <1>2, <1>8 DEF Given
        <5> QED
          BY <2>5, <5>1
      <4>2. m.at \in B /\ hdr'[m.at].used /\ m.req + Hdr <= hdr'[m.at].size
        <5>1. size <= s
          BY <1>3, <1>6
        <5> QED
          BY <1>5, <1>6, <1>7, <2>5, <5>1 DEF s, size
      <4> QED
        BY <1>3, <4>1, <4>2
    <3>2. \A q, o \in live' : q.at = o.at => q = o
      BY <1>2, <1>3, <1>7, <1>8 DEF Given
    <3>3. \A c \in B : hdr'[c].used => \E o \in live' : o.at = c
      <4> SUFFICES ASSUME NEW c \in B, hdr'[c].used PROVE \E o \in live' : o.at = c
        OBVIOUS
      <4>1. CASE c = b
        BY <1>3, <1>7, <4>1
      <4>2. CASE c # b
        BY <1>2, <1>3, <2>5, <4>2 DEF Given
      <4> QED
        BY <4>1, <4>2
    <3> QED
      BY <3>1, <3>2, <3>3 DEF Given
  <2>8. Merged(hdr', B)
    <3> SUFFICES ASSUME NEW c \in B, ~hdr'[c].used, hdr'[c].next # NoAddr
                 PROVE  hdr'[hdr'[c].next].used
      BY DEF Merged
    <3>1. c # b /\ ~hdr[c].used /\ hdr'[c].next = hdr[c].next
      BY <2>5
    <3>2. hdr[hdr[c].next].used /\ hdr[c].next \in Addr
      BY <1>2, <3>1 DEF Merged, Linked
    <3> QED
      BY <2>5, <3>1, <3>2
  <2>9. HeapTypeOK'
    BY <1>1, <1>3, <1>7, <2>3 DEF HeapTypeOK, Links
  <2> QED
    BY <2>6, <2>7, <2>8, <2>9 DEF HeapIInv
<1>12. CASE s >= size + 2 * Hdr
  <2> DEFINE C == B \cup {n}
             h == [hdr[b] EXCEPT !.used = TRUE, !.size = size, !.next = n]
  <2>1. /\ n \in Nat /\ n \in Addr /\ n > b /\ n # b /\ n # 0 /\ n # NoAddr
        /\ n + (s - size) = Size /\ s - size \in 0 .. Size /\ s - size >= Hdr /\ size \in 0 .. Size
        /\ n = b + size
    BY <1>6, <1>12, Sizes DEF n, Addr
  <2>2. n \notin B
    <3> SUFFICES ASSUME n \in B PROVE FALSE
      OBVIOUS
    <3>1. b + s <= n
      BY <1>2, <1>5, <2>1 DEF Linked, s
    <3> QED
      BY <1>6, <2>1, <3>1, Sizes DEF Addr
  <2>3. rest \in Header /\ h \in Header
    BY <1>1, <1>6, <2>1 DEF Links
  <2>4. hdr' = [hdr EXCEPT ![n] = rest, ![b] = h]
    BY <1>1, <1>6, <1>9, <1>12, <2>1
  <2>5. /\ hdr' \in [Addr -> Header] /\ hdr'[b] = h /\ hdr'[n] = rest
        /\ \A c \in Addr \ {b, n} : hdr'[c] = hdr[c]
    BY <1>1, <1>6, <2>1, <2>3, <2>4
  <2>6. /\ h.used /\ h.size = size /\ h.next = n /\ h.prev = hdr[b].prev
        /\ ~rest.used /\ rest.size = s - size /\ rest.prev = b /\ rest.next = NoAddr
    <3>1. hdr[b] \in Header
      BY <1>1, <1>6
    <3> QED
      BY <1>5, <3>1
  <2> HIDE DEF h, rest
  <2>7. Linked(hdr', C)
    <3>1. C \subseteq Addr /\ 0 \in C
      BY <1>2, <2>1 DEF Linked
    <3>2. hdr'[0].prev = NoAddr
      <4>1. hdr[0].prev = NoAddr /\ 0 \in Addr
        BY <1>2, Sizes DEF Linked
      <4>2. CASE b = 0
        BY <2>5, <2>6, <4>1, <4>2
      <4>3. CASE b # 0
        BY <2>1, <2>5, <4>1, <4>3
      <4> QED
        BY <4>2, <4>3
    <3>3. ASSUME NEW c \in C
          PROVE  /\ hdr'[c].size >= Hdr
                 /\ hdr'[c].next = NoAddr => c + hdr'[c].size = Size
                 /\ hdr'[c].next # NoAddr => /\ hdr'[c].next = c + hdr'[c].size
                                             /\ hdr'[c].next \in C /\ hdr'[hdr'[c].next].prev = c
                 /\ c # 0 => hdr'[c].prev \in C /\ hdr'[hdr'[c].prev].next = c
      <4>1. CASE c = n
        <5>1. n # 0 => hdr'[n].prev \in C /\ hdr'[hdr'[n].prev].next = n
          BY <1>5, <2>5, <2>6
        <5> QED
          BY <2>1, <2>5, <2>6, <4>1, <5>1
      <4>2. CASE c = b
        <5>1. b # 0 => hdr[b].prev \in B /\ hdr[hdr[b].prev].next = b
          BY <1>2, <1>5 DEF Linked
        <5>2. b # 0 => hdr[b].prev # b
          BY <1>5, <1>10, <5>1
        <5>3. b # 0 => hdr'[b].prev \in C /\ hdr'[hdr'[b].prev].next = b
          BY <2>2, <2>5, <2>6, <5>1, <5>2
        <5> QED
          BY <1>6, <2>1, <2>5, <2>6, <4>2, <5>3
      <4>3. CASE c # n /\ c # b
        <5>1. /\ c \in B /\ hdr[c].size >= Hdr
              /\ hdr[c].next = NoAddr => c + hdr[c].size = Size
              /\ hdr[c].next # NoAddr => /\ hdr[c].next = c + hdr[c].size
                                         /\ hdr[c].next \in B /\ hdr[hdr[c].next].prev = c
              /\ c # 0 => hdr[c].prev \in B /\ hdr[hdr[c].prev].next = c
          BY <1>2, <4>3 DEF Linked
        <5>2. hdr'[c] = hdr[c]
          BY <2>5, <4>3, <5>1
        <5>3. hdr[c].next # NoAddr => hdr'[hdr[c].next].prev = c
          <6> SUFFICES ASSUME hdr[c].next # NoAddr PROVE hdr'[hdr[c].next].prev = c
            OBVIOUS
          <6>1. CASE hdr[c].next = b
            BY <2>5, <2>6, <5>1, <6>1
          <6>2. CASE hdr[c].next # b
            BY <2>2, <2>5, <5>1, <6>2
          <6> QED
            BY <6>1, <6>2
        <5>4. c # 0 => hdr'[hdr[c].prev].next = c
          <6> SUFFICES ASSUME c # 0 PROVE hdr'[hdr[c].prev].next = c
            OBVIOUS
          <6>1. hdr[c].prev # b
            BY <1>5, <1>10, <5>1
          <6> QED
            BY <2>2, <2>5, <5>1, <6>1
        <5> QED
          BY <5>1, <5>2, <5>3, <5>4
      <4> QED
        BY <4>1, <4>2, <4>3
    <3>4. ASSUME NEW c \in C, NEW d \in C, c < d
          PROVE  c + hdr'[c].size <= d
      <4>1. \A x, y \in B : x < y => x + hdr[x].size <= y
        BY <1>2 DEF Linked
      <4>2. \A x \in B : x <= b
        <5> SUFFICES ASSUME NEW x \in B, b < x PROVE FALSE
          BY <1>6, <1>10
        <5>1. b + s <= x
          BY <1>5, <4>1 DEF s
        <5>2. x < Size
          BY Sizes DEF Addr
        <5> QED
          BY <1>6, <1>10, <5>1, <5>2, Sizes
      <4>3. c # n
        BY <1>6, <1>10, <2>1, <3>4, <4>2
      <4>4. CASE c = b
        <5>1. d = n
          BY <1>6, <1>10, <3>4, <4>2, <4>4
        <5> QED
          BY <2>1, <2>5, <2>6, <4>4, <5>1
      <4>5. CASE c # b
        <5>1. c \in B /\ c \in Nat /\ hdr'[c] = hdr[c]
          BY <1>10, <2>5, <4>3, <4>5
        <5>2. CASE d \in B
          BY <3>4, <4>1, <5>1, <5>2
        <5>3. CASE d = n
          <6>1. c < b
            BY <1>6, <4>2, <4>5, <5>1
          <6>2. c + hdr[c].size <= b
            BY <1>5, <4>1, <5>1, <6>1
          <6>3. hdr[c].size \in Nat
            BY <1>1, <1>2, <5>1, Neighbours
          <6> QED
            BY <1>6, <2>1, <5>1, <5>3, <6>2, <6>3
        <5> QED
          BY <5>2, <5>3
      <4> QED
        BY <4>4, <4>5
    <3> QED
      BY <3>1, <3>2, <3>3, <3>4 DEF Linked
  <2>8. Given(hdr', C, live')
    <3>1. \A o \in live' : o.at \in C /\ hdr'[o.at].used /\ o.req + Hdr <= hdr'[o.at].size
      <4>1. ASSUME NEW o \in live PROVE o.at \in C /\ hdr'[o.at].used /\ o.req + Hdr <= hdr'[o.at].size
        <5>1. o.at \in B /\ o.at # b /\ hdr[o.at].used /\ o.req + Hdr <= hdr[o.at].size
          BY <1>2, <1>8 DEF Given
        <5>2. hdr'[o.at] = hdr[o.at]
          BY <2>2, <2>5, <5>1
        <5> QED
          BY <5>1, <5>2
      <4>2. m.at \in C /\ hdr'[m.at].used /\ m.req + Hdr <= hdr'[m.at].size
        <5>1. m.req + Hdr = size /\ size \in Nat
          BY <1>6, <1>7 DEF size
        <5> QED
          BY <1>5, <1>7, <2>5, <2>6, <5>1
      <4> QED
        BY <1>3, <4>1, <4>2
    <3>2. \A q, o \in live' : q.at = o.at => q = o
      BY <1>2, <1>3, <1>7, <1>8 DEF Given
    <3>3. \A c \in C : hdr'[c].used => \E o \in live' : o.at = c
      <4> SUFFICES ASSUME NEW c \in C, hdr'[c].used PROVE \E o \in live' : o.at = c
        OBVIOUS
      <4>1. CASE c = b
        BY <1>3, <1>7, <4>1
      <4>2. CASE c # b
        <5>1. c # n
          BY <2>5, <2>6
        <5>2. c \in B /\ hdr[c].used
          BY <2>5, <4>2, <5>1
        <5> QED
          BY <1>2, <1>3, <5>2 DEF Given
      <4> QED
        BY <4>1, <4>2
    <3> QED
      BY <3>1, <3>2, <3>3 DEF Given
  <2>9. Merged(hdr', C)
    <3> SUFFICES ASSUME NEW c \in C, ~hdr'[c].used, hdr'[c].next # NoAddr
                 PROVE  hdr'[hdr'[c].next].used
      BY DEF Merged
    <3>1. c # n /\ c # b
      BY <2>5, <2>6
    <3>2. c \in B /\ hdr'[c] = hdr[c]
      BY <2>5, <3>1
    <3>3. hdr[hdr[c].next].used /\ hdr[c].next \in B
      BY <1>2, <3>2 DEF Merged, Linked
    <3> QED
      BY <1>4, <2>2, <2>5, <3>2, <3>3
  <2>10. HeapTypeOK'
    BY <1>1, <1>3, <1>7, <2>5 DEF HeapTypeOK, Links
  <2>11. C \in SUBSET Addr
    BY <2>1
  <2> QED
    BY <2>7, <2>8, <2>9, <2>10, <2>11 DEF HeapIInv
<1> QED
  BY <1>11, <1>12

\* The headers Heap_Init writes.
LEMMA FreshBlock ==
  LET x == [NoBlock EXCEPT !.size = Size]
      Header == [used : BOOLEAN, size : 0 .. Size, prev : Links, next : Links]
  IN  /\ NoBlock \in Header /\ x \in Header
      /\ x.used = FALSE /\ x.size = Size /\ x.prev = NoAddr /\ x.next = NoAddr
<1> DEFINE Header == [used : BOOLEAN, size : 0 .. Size, prev : Links, next : Links]
<1>1. 0 \in 0 .. Size /\ Size \in 0 .. Size /\ NoAddr \in Links
  BY Sizes DEF Links
<1>2. NoBlock \in Header
  BY <1>1 DEF NoBlock
<1>3. NoBlock.used = FALSE /\ NoBlock.prev = NoAddr /\ NoBlock.next = NoAddr
  BY DEF NoBlock
<1> QED
  BY <1>1, <1>2, <1>3

\* Heap_Init: one free block.
LEMMA HeapInitOK == HeapInit => HeapIInv
<1> SUFFICES ASSUME HeapInit PROVE HeapIInv
  OBVIOUS
<1>1. /\ hdr \in Headers /\ live = {} /\ hdr[0].prev = NoAddr /\ hdr[0].next = NoAddr
      /\ ~hdr[0].used /\ hdr[0].size = Size
  <2>1. /\ NoBlock \in [used : BOOLEAN, size : 0 .. Size, prev : Links, next : Links]
        /\ [NoBlock EXCEPT !.size = Size] \in [used : BOOLEAN, size : 0 .. Size, prev : Links, next : Links]
    BY FreshBlock
  <2>2. hdr \in Headers /\ hdr[0] = [NoBlock EXCEPT !.size = Size]
    BY <2>1, Sizes DEF HeapInit, Headers
  <2> QED
    BY <2>2, FreshBlock DEF HeapInit
<1>2. HeapTypeOK
  BY <1>1 DEF HeapTypeOK, Headers, Links
<1>3. Linked(hdr, {0}) /\ Given(hdr, {0}, live) /\ Merged(hdr, {0})
  BY <1>1, Sizes DEF Linked, Given, Merged
<1> QED
  BY <1>2, <1>3, Sizes DEF HeapIInv

\* The invariant of the heap that is used as TidyNext says.
LEMMA HeapInvariant == TidySpec => []HeapIInv
<1>1. HeapIInv /\ [TidyNext]_heapVars => HeapIInv'
  <2> SUFFICES ASSUME HeapIInv, [TidyNext]_heapVars
               PROVE  HeapIInv'
    OBVIOUS
  <2>1. CASE UNCHANGED heapVars
    BY <2>1 DEF heapVars, HeapIInv, HeapTypeOK
  <2>2. CASE TidyNext
    BY <2>2, MallocStep, FreeStep DEF TidyNext
  <2> QED
    BY <2>1, <2>2
<1> QED
  BY <1>1, HeapInitOK, PTL DEF TidySpec

\* Heap_Malloc and Heap_Free: memory handed out lies within the heap, and no
\* two allocations that are still owned share an address, whatever the sizes
\* and the order in which they are freed.
THEOREM AllocationsDisjoint == TidySpec => []NoOverlap
<1>1. HeapIInv => NoOverlap
  <2> SUFFICES ASSUME HeapIInv, NEW m \in live
               PROVE  /\ Extent(m) \subseteq Addr
                      /\ \A o \in live \ {m} : Extent(m) \cap Extent(o) = {}
    BY DEF NoOverlap
  <2>1. PICK B \in SUBSET Addr : Linked(hdr, B) /\ Given(hdr, B, live)
    BY DEF HeapIInv
  <2>2. hdr \in Headers /\ live \subseteq [at : Addr, req : Reqs]
    BY DEF HeapIInv, HeapTypeOK, Headers, Links
  <2>3. ASSUME NEW o \in live
        PROVE  /\ o.at \in B /\ o.at \in Nat /\ o.req \in Nat /\ hdr[o.at].size \in Nat
               /\ o.req + Hdr <= hdr[o.at].size /\ o.at + hdr[o.at].size <= Size
    <3>1. o.at \in B /\ o.req + Hdr <= hdr[o.at].size
      BY <2>1 DEF Given
    <3>2. o.req \in Nat
      BY <2>2, Sizes
    <3> QED
      BY <2>1, <2>2, <3>1, <3>2, Neighbours
  <2>4. ASSUME NEW o \in live, NEW x \in Extent(o)
        PROVE  x \in Nat /\ o.at <= x /\ x < o.at + hdr[o.at].size
    <3> DEFINE a == o.at
               r == o.req
               s == hdr[o.at].size
    <3>1. a \in Nat /\ r \in Nat /\ s \in Nat /\ r + Hdr <= s /\ x \in a .. a + Hdr + r - 1
      BY <2>3 DEF Extent
    <3> HIDE DEF a, r, s
    <3>2. x \in Nat /\ a <= x /\ x < a + s
      BY <3>1, Sizes
    <3> QED
      BY <3>2 DEF a, s
  <2>5. Extent(m) \subseteq Addr
    <3> SUFFICES ASSUME NEW x \in Extent(m) PROVE x \in Addr
      OBVIOUS
    <3>1. x \in Nat /\ x < m.at + hdr[m.at].size /\ m.at + hdr[m.at].size <= Size
      BY <2>3, <2>4
    <3>2. m.at \in Nat /\ hdr[m.at].size \in Nat
      BY <2>3
    <3> QED
      BY <3>1, <3>2, Sizes DEF Addr
  <2>6. ASSUME NEW o \in live \ {m}, NEW x \in Extent(m) \cap Extent(o)
        PROVE  FALSE
    <3> DEFINE a == m.at
               c == o.at
               s == hdr[m.at].size
               r == hdr[o.at].size
    <3>1. x \in Nat /\ a <= x /\ x < a + s /\ c <= x /\ x < c + r
      BY <2>4
    <3>2. a \in Nat /\ c \in Nat /\ s \in Nat /\ r \in Nat /\ a \in B /\ c \in B
      BY <2>3
    <3>3. a # c
      BY <2>1 DEF Given
    <3>4. (a < c => a + s <= c) /\ (c < a => c + r <= a)
      BY <2>1, <3>2 DEF Linked
    <3> HIDE DEF a, c, s, r
    <3> QED
      BY <3>1, <3>2, <3>3, <3>4
  <2> QED
    BY <2>5, <2>6
<1> QED
  BY <1>1, HeapInvariant, PTL

\* The chain of headers is linked both ways and tiles the heap, and when every
\* allocation was freed, in whatever order, the heap is one free block again.
THEOREM HeapSound == TidySpec => [](HeapTypeOK /\ Tiles /\ Restored)
<1>1. HeapIInv => HeapTypeOK /\ Tiles /\ Restored
  <2> SUFFICES ASSUME HeapIInv PROVE HeapTypeOK /\ Tiles /\ Restored
    OBVIOUS
  <2>1. HeapTypeOK /\ hdr \in Headers
    BY DEF HeapIInv, HeapTypeOK, Headers, Links
  <2>2. PICK B \in SUBSET Addr : Linked(hdr, B) /\ Given(hdr, B, live) /\ Merged(hdr, B)
    BY DEF HeapIInv
  <2>3. Tiles
    <3>1. Chain \subseteq B
      BY <2>1, <2>2, ChainIn
    <3> QED
      BY <2>2, <3>1 DEF Tiles, Linked
  <2>4. Restored
    <3> SUFFICES ASSUME live = {} PROVE hdr[0] = [NoBlock EXCEPT !.size = Size]
      BY DEF Restored
    <3>1. 0 \in B /\ 0 \in Addr /\ hdr[0].prev = NoAddr /\ hdr[0].size \in Nat
      BY <2>1, <2>2, Sizes, Neighbours DEF Linked
    <3>2. ~hdr[0].used
      BY <2>2, <3>1 DEF Given
    <3>3. hdr[0].next = NoAddr
      <4> SUFFICES ASSUME hdr[0].next # NoAddr PROVE FALSE
        OBVIOUS
      <4>1. hdr[0].next \in B /\ hdr[hdr[0].next].used
        BY <2>2, <3>1, <3>2 DEF Linked, Merged
      <4> QED
        BY <2>2, <4>1 DEF Given
    <3>4. hdr[0].size = Size
      <4>1. 0 + hdr[0].size = Size
        BY <2>2, <3>1, <3>3 DEF Linked
      <4> QED
        BY <3>1, <4>1
    <3>5. hdr[0] \in [used : BOOLEAN, size : 0 .. Size, prev : Links, next : Links]
      BY <2>1, <3>1 DEF Headers
    <3>6. hdr[0].used = FALSE
      BY <3>2, <3>5
    <3> DEFINE x == [NoBlock EXCEPT !.size = Size]
    <3>7. /\ x \in [used : BOOLEAN, size : 0 .. Size, prev : Links, next : Links]
          /\ x.used = FALSE /\ x.size = Size /\ x.prev = NoAddr /\ x.next = NoAddr
      BY FreshBlock
    <3> HIDE DEF x
    <3>8. hdr[0] = x
      BY <3>1, <3>3, <3>4, <3>5, <3>6, <3>7
    <3> QED
      BY <3>8 DEF x
  <2> QED
    BY <2>1, <2>3, <2>4
<1> QED
  BY <1>1, HeapInvariant, PTL
=============================================================================
