---------------------------- MODULE BoundedFifo ----------------------------
(***************************************************************************)
(* What a queue of sys/src/queue.c promises its users: a first-in          *)
(* first-out sequence of at most Cap elements.  Elements enter in chunks   *)
(* at the back; a reader is handed a prefix, which either stays (peek) or  *)
(* leaves (get, drop).                                                     *)
(***************************************************************************)
EXTENDS Naturals, Sequences

CONSTANTS Cap,   \* capacity in elements
          Data   \* the elements

VARIABLES items, \* the queued elements, oldest first
          moved  \* the chunk most recently taken from a writer or handed to
                 \* a reader

fifoVars == <<items, moved>>

In(chunk) == [dir |-> "in", chunk |-> chunk]
Out(chunk) == [dir |-> "out", chunk |-> chunk]

Init == items = <<>> /\ moved = Out(<<>>)

\* A chunk enters behind everything that is already queued.
Enqueue == \E n \in 0 .. Cap - Len(items) : \E chunk \in [1 .. n -> Data] :
             /\ items' = items \o chunk
             /\ moved' = In(chunk)

\* The oldest n elements are handed to a reader and leave the queue.
Dequeue == \E n \in 0 .. Len(items) :
             /\ moved' = Out(SubSeq(items, 1, n))
             /\ items' = SubSeq(items, n + 1, Len(items))

\* The oldest n elements are handed to a reader and stay.
Look == /\ \E n \in 0 .. Len(items) : moved' = Out(SubSeq(items, 1, n))
        /\ UNCHANGED items

\* The oldest n elements leave unread.
Discard == /\ \E n \in 0 .. Len(items) : items' = SubSeq(items, n + 1, Len(items))
           /\ UNCHANGED moved

Next == Enqueue \/ Dequeue \/ Look \/ Discard

Spec == Init /\ [][Next]_fifoVars
=============================================================================
