-------------------------------- MODULE Heap --------------------------------
(***************************************************************************)
(* The allocator of sys/src/heap.c.  The heap is a chain of blocks, each a *)
(* header followed by its memory; addresses and sizes are counted in units *)
(* of eight bytes, the granularity Heap_Malloc rounds requests to.         *)
(* A write through a null pointer lands outside of the heap.               *)
(***************************************************************************)
EXTENDS Integers, FiniteSets

CONSTANTS Size,  \* SYS_HEAP_SIZE
          Hdr,   \* sizeof(block_t)
          Reqs   \* request sizes

ASSUME HeapAssumption == /\ Size \in Nat /\ Hdr \in Nat \ {0} /\ Size >= Hdr
                         /\ Reqs \subseteq Nat

Addr == 0 .. Size - 1
NoAddr == -1
NoBlock == [used |-> FALSE, size |-> 0, prev |-> NoAddr, next |-> NoAddr]

VARIABLES hdr,  \* hdr[a]: the header at address a
          live  \* history: the allocations callers still own, [at, req]

heapVars == <<hdr, live>>

\* Heap_Init: one free block.
HeapInit ==
  /\ hdr = [a \in Addr |-> IF a = 0 THEN [NoBlock EXCEPT !.size = Size] ELSE NoBlock]
  /\ live = {}

\* Walk[k] is the k-th block of the chain, counted from zero, Nil behind the
\* last one.  There is room for at most Size blocks.
Walk[k \in 0 .. Size] ==
  IF k = 0 THEN 0 ELSE IF Walk[k - 1] = NoAddr THEN NoAddr ELSE hdr[Walk[k - 1]].next

Chain == {Walk[k] : k \in 0 .. Size} \ {NoAddr}

\* best_fit after k blocks of the search loop of Heap_Malloc.
BestFit(size) ==
  LET fit[k \in 0 .. Size] ==
        IF k = 0 THEN NoAddr
        ELSE LET b == Walk[k - 1] f == fit[k - 1]
             IN  IF b = NoAddr \/ (b # NoAddr /\ hdr[b].used) THEN f
                 ELSE IF \/ f = NoAddr
                         \/ hdr[b].size >= size /\ hdr[b].size < hdr[f].size
                      THEN b ELSE f
  IN  fit[Size]

\* Block b is taken for size units, header included; what is left behind
\* becomes a block of its own if it is large enough.
Take(b, size) ==
  LET rest == [used |-> FALSE, size |-> hdr[b].size - size, prev |-> b, next |-> hdr[b].next]
  IN  IF hdr[b].size >= size + 2 * Hdr
      THEN [hdr EXCEPT ![b + size] = rest,
                       ![b].used = TRUE, ![b].size = size, ![b].next = b + size]
      ELSE [hdr EXCEPT ![b].used = TRUE]

\* Heap_Malloc of req units.
Malloc(req) ==
  LET size == req + Hdr
      b == BestFit(size)
  IN  /\ b # NoAddr
      /\ hdr' = Take(b, size)
      /\ live' = live \cup {[at |-> b, req |-> req]}

\* Mutant: the next block is joined even if it is in use.
JoinNext_Used(h, b) ==
  LET n == h[b].next
  IN  IF n = NoAddr THEN h
      ELSE LET j == [h EXCEPT ![b].size = @ + h[n].size, ![b].next = h[n].next]
           IN  IF h[n].next = NoAddr THEN j ELSE [j EXCEPT ![h[n].next].prev = b]
\* Mutant: the block behind is not told of its new neighbour.
JoinNext_OneWay(h, b) ==
  LET n == h[b].next
  IN  IF n = NoAddr \/ (n # NoAddr /\ h[n].used) THEN h
      ELSE [h EXCEPT ![b].size = @ + h[n].size, ![b].next = h[n].next]

\* The header table h with the block behind b joined to b, if it is free.
JoinNext(h, b) ==
  LET n == h[b].next
  IN  IF n = NoAddr \/ (n # NoAddr /\ h[n].used) THEN h
      ELSE LET j == [h EXCEPT ![b].size = @ + h[n].size, ![b].next = h[n].next]
           IN  IF h[n].next = NoAddr THEN j ELSE [j EXCEPT ![h[n].next].prev = b]

\* ... and with b joined to the block its header names as the previous one.
JoinPrev(h, b) ==
  LET p == h[b].prev
  IN  IF p = NoAddr \/ (p # NoAddr /\ h[p].used) THEN h
      ELSE LET j == [h EXCEPT ![p].size = @ + h[b].size, ![p].next = h[b].next]
           IN  IF h[b].next = NoAddr THEN j ELSE [j EXCEPT ![h[b].next].prev = p]

\* Heap_Free of a live allocation.
Free(m) == /\ m \in live
           /\ LET cleared == [hdr EXCEPT ![m.at].used = FALSE]
              IN  hdr' = JoinPrev(JoinNext(cleared, m.at), m.at)
           /\ live' = live \ {m}

HeapNext == \/ \E req \in Reqs : Malloc(req)
            \/ \E m \in live : Free(m)

HeapSpec == HeapInit /\ [][HeapNext]_heapVars

\* A request for which the search finds a block that is large enough.
Fits(req) == BestFit(req + Hdr) # NoAddr /\ hdr[BestFit(req + Hdr)].size >= req + Hdr

\* No hole: the only free block is the last one.
Tidy == \A b \in Chain : hdr[b].used \/ hdr[b].next = NoAddr

\* The use a program makes of the heap that starts its tasks and sockets and
\* later frees them in any order: it allocates only while the free memory is
\* the last block.
TidyNext == \/ \E req \in Reqs : Tidy /\ Fits(req) /\ Malloc(req)
            \/ \E m \in live : Free(m)

TidySpec == HeapInit /\ [][TidyNext]_heapVars
-----------------------------------------------------------------------------
\* Type invariant.
HeapTypeOK == /\ hdr \in [Addr -> [used : BOOLEAN, size : 0 .. Size,
                                   prev : Addr \cup {NoAddr}, next : Addr \cup {NoAddr}]]
              /\ live \subseteq [at : Addr, req : Reqs]

\* The memory handed out lies within the heap, and no two live allocations
\* (their headers included) share an address.
Extent(m) == m.at .. m.at + Hdr + m.req - 1
NoOverlap == \A m \in live : /\ Extent(m) \subseteq Addr
                             /\ \A o \in live \ {m} : Extent(m) \cap Extent(o) = {}

\* The chain tiles the heap from end to end and is linked both ways.
Tiles == \A b \in Chain :
  LET n == hdr[b].next
  IN  IF n = NoAddr THEN b + hdr[b].size = Size
      ELSE n = b + hdr[b].size /\ hdr[n].prev = b

\* Nothing is lost to fragmentation for good: when every allocation has been
\* freed, in whatever order, the heap is one free block again.
Restored == live = {} => hdr[0] = [NoBlock EXCEPT !.size = Size]
=============================================================================
