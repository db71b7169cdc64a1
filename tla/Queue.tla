------------------------------- MODULE Queue -------------------------------
(***************************************************************************)
(* The element queue of sys/src/queue.c: a ring of Count slots addressed   *)
(* by two free-running counters of type size_t, `head' (elements ever      *)
(* written) and `tail' (elements ever read), which wrap at Wrap (2^32 on   *)
(* the target).                                                            *)
(*                                                                         *)
(* Tasks are scheduled cooperatively, so everything between two calls of   *)
(* Yield() is one atomic step.  Queue_PutWait and Queue_GetWait move what  *)
(* they can, then yield and retry: each pass of their loops is an action   *)
(* and their progress is kept in `call'.                                   *)
(***************************************************************************)
EXTENDS Integers, Sequences

CONSTANTS Count,      \* q->count
          Wrap,       \* the counters are size_t: arithmetic is modulo Wrap
          Data,       \* element values
          Producers,  \* tasks that write to the queue
          Consumers,  \* tasks that read from it
          MaxReq,     \* bound: the longest request a caller makes
          Msg         \* the elements of one long transfer

\* The index computation head % count survives the wrap of the counter only
\* if count divides 2^32.  Every Queue_Create() of the program passes 128 or
\* 256, so this is what the code relies on.
ASSUME QueueAssumption ==
  /\ Count \in Nat \ {0}
  /\ Wrap \in Nat \ (0 .. Count)
  /\ Wrap % Count = 0
  /\ MaxReq \in Nat
  /\ Producers \cap Consumers = {}

ASSUME MsgAssumption == Msg \in Seq(Data)

QueueTasks == Producers \cup Consumers
QueueSlots == 0 .. Count - 1

VARIABLES head, tail, \* q->head, q->tail
          buf,        \* the slots behind q->ptr
          call,       \* per task: the call it is in the middle of
          moved       \* history: the chunk most recently taken from a writer
                      \* or copied to a reader

queueVars == <<head, tail, buf, call, moved>>

Chunks == UNION {[1 .. n -> Data] : n \in 0 .. MaxReq}

\* A task outside the queue code, in the loop of Queue_PutWait with the
\* elements still to be written, in the loop of Queue_GetWait with what it
\* read and how much is missing, or filling memory it obtained from
\* Queue_GetFreeLinearMem.
Idle == [op |-> "idle"]
PutCall(d, p) == [op |-> "put", data |-> d, patient |-> p]
GetCall(d, n, p) == [op |-> "get", data |-> d, missing |-> n, patient |-> p]
FillCall(i, n) == [op |-> "fill", idx |-> i, room |-> n]

In(d) == [dir |-> "in", chunk |-> d]
Out(d) == [dir |-> "out", chunk |-> d]

Lesser(a, b) == IF a <= b THEN a ELSE b

\* size_t addition and subtraction; every argument is below Wrap.
Plus(a, b) == IF a + b < Wrap THEN a + b ELSE a + b - Wrap
Minus(a, b) == IF a >= b THEN a - b ELSE a - b + Wrap

Used == Minus(head, tail)
Room == Count - Used
HeadIdx == head % Count
TailIdx == tail % Count

QueueInit == /\ head = 0 /\ tail = 0
             /\ buf \in [QueueSlots -> Data]
             /\ call = [t \in QueueTasks |-> Idle]
             /\ moved = Out(<<>>)
-----------------------------------------------------------------------------
\* Mutant: the second memcpy() is missing.
Copied_OneCopy(d, n) ==
  [i \in QueueSlots |-> IF HeadIdx <= i /\ i < HeadIdx + n THEN d[i - HeadIdx + 1] ELSE buf[i]]

\* The two memcpy()s of Queue_Put: up to the end of the ring, then the rest
\* from its start.
Copied(d, n) ==
  LET to_wrap == Lesser(Count - HeadIdx, n)
  IN  [i \in QueueSlots |->
         IF HeadIdx <= i /\ i < HeadIdx + to_wrap THEN d[i - HeadIdx + 1]
         ELSE IF i < n - to_wrap THEN d[to_wrap + i + 1]
         ELSE buf[i]]

\* Mutant: the second memcpy() does not start at the beginning of the ring.
Peeked_BadOffset(n) ==
  LET to_wrap == Lesser(Count - TailIdx, n)
  IN  [k \in 1 .. n |-> IF k <= to_wrap THEN buf[TailIdx + k - 1] ELSE buf[k - 1]]

\* The two memcpy()s of Queue_Peek.
Peeked(n) ==
  LET to_wrap == Lesser(Count - TailIdx, n)
  IN  [k \in 1 .. n |-> IF k <= to_wrap THEN buf[TailIdx + k - 1]
                                        ELSE buf[k - to_wrap - 1]]

\* What Queue_Put takes of d, and what is left for the next pass.
\* Mutant: all or nothing.
Accepted_AllOrNothing(d) == IF Len(d) <= Room THEN Len(d) ELSE 0
Accepted(d) == Lesser(Len(d), Room)
Rest(d, n) == SubSeq(d, n + 1, Len(d))

\* Queue_Put: as much of d as fits.
Put(d) == /\ buf' = Copied(d, Accepted(d))
          /\ head' = Plus(head, Accepted(d))
          /\ moved' = In(SubSeq(d, 1, Accepted(d)))
          /\ UNCHANGED tail

\* Queue_Peek and Queue_Drop of at most n elements, together Queue_Get.
Peek(n) == moved' = Out(Peeked(Lesser(n, Used)))
Drop(n) == tail' = Plus(tail, Lesser(n, Used))
Get(n) == Peek(n) /\ Drop(n) /\ UNCHANGED <<head, buf>>
-----------------------------------------------------------------------------
\* Calls that never wait.
QueuePut(t) == /\ call[t] = Idle
               /\ \E d \in Chunks : Put(d)
               /\ UNCHANGED call

QueueGet(t) == /\ call[t] = Idle
               /\ \E n \in 0 .. MaxReq : Get(n)
               /\ UNCHANGED call

QueuePeek(t) == /\ call[t] = Idle
                /\ \E n \in 0 .. MaxReq : Peek(n)
                /\ UNCHANGED <<head, tail, buf, call>>

QueueDrop(t) == /\ call[t] = Idle
                /\ \E n \in 0 .. MaxReq : Drop(n)
                /\ UNCHANGED <<head, buf, call, moved>>

QueueDropAll(t) == /\ call[t] = Idle
                   /\ Drop(Used)
                   /\ UNCHANGED <<head, buf, call, moved>>

\* Queue_PutWait: `patient' callers pass no timeout and are not cancelled.
PutWaitCall(t) ==
  /\ call[t] = Idle
  /\ \E d \in Chunks, p \in BOOLEAN : call' = [call EXCEPT ![t] = PutCall(d, p)]
  /\ UNCHANGED <<head, tail, buf, moved>>

\* One pass of the loop: write a chunk; return when all is written or the
\* caller gave up (timeout, cancellation), otherwise yield.
PutWaitStep(t) ==
  /\ call[t].op = "put"
  /\ LET rest == Rest(call[t].data, Accepted(call[t].data))
     IN  \/ /\ rest = <<>> \/ ~call[t].patient
            /\ call' = [call EXCEPT ![t] = Idle]
         \/ /\ rest # <<>>
            /\ call' = [call EXCEPT ![t].data = rest]
  /\ Put(call[t].data)

\* Queue_GetWait, in the same two parts.
GetWaitCall(t) ==
  /\ call[t] = Idle
  /\ \E n \in 0 .. MaxReq, p \in BOOLEAN :
       call' = [call EXCEPT ![t] = GetCall(<<>>, n, p)]
  /\ UNCHANGED <<head, tail, buf, moved>>

GetWaitStep(t) ==
  /\ call[t].op = "get"
  /\ LET n == Lesser(call[t].missing, Used)
     IN  \/ /\ n = call[t].missing \/ ~call[t].patient
            /\ call' = [call EXCEPT ![t] = Idle]
         \/ /\ n # call[t].missing
            /\ call' = [call EXCEPT ![t].data = @ \o Peeked(n), ![t].missing = @ - n]
  /\ Get(call[t].missing)

\* Queue_GetFreeLinearMem: the caller learns the index of the head slot and
\* how many free slots follow it without a wrap, and fills them at leisure
\* (a DMA transfer may run while the task sleeps).  Only a sole producer may
\* do that: the head must not move meanwhile.
GetFreeLinearMem(t) ==
  /\ call[t] = Idle
  /\ Producers = {t}
  /\ call' = [call EXCEPT ![t] = FillCall(HeadIdx, Lesser(Count - HeadIdx, Room))]
  /\ UNCHANGED <<head, tail, buf, moved>>

\* The caller's copy into that memory followed by Queue_IncreaseCount.
IncreaseCount(t) ==
  /\ call[t].op = "fill"
  /\ \E d \in {c \in Chunks : Len(c) <= call[t].room} :
       /\ buf' = [i \in QueueSlots |->
                    IF call[t].idx <= i /\ i < call[t].idx + Len(d)
                    THEN d[i - call[t].idx + 1] ELSE buf[i]]
       /\ head' = Plus(head, Lesser(Len(d), Room))
       /\ moved' = In(SubSeq(d, 1, Lesser(Len(d), Room)))
  /\ call' = [call EXCEPT ![t] = Idle]
  /\ UNCHANGED tail

\* Queue_GetUsedLinearMem: what is readable without a wrap.
GetUsedLinearMem(t) ==
  /\ call[t] = Idle
  /\ moved' = Out(Peeked(Lesser(Count - TailIdx, Used)))
  /\ UNCHANGED <<head, tail, buf, call>>

ProducerStep(t) == \/ QueuePut(t) \/ PutWaitCall(t) \/ PutWaitStep(t)
                   \/ GetFreeLinearMem(t) \/ IncreaseCount(t)
ConsumerStep(t) == \/ QueueGet(t) \/ QueuePeek(t) \/ QueueDrop(t) \/ QueueDropAll(t)
                   \/ GetWaitCall(t) \/ GetWaitStep(t) \/ GetUsedLinearMem(t)

QueueNext == \/ \E t \in Producers : ProducerStep(t)
             \/ \E t \in Consumers : ConsumerStep(t)

QueueSpec == QueueInit /\ [][QueueNext]_queueVars

\* A transfer: one Queue_PutWait of Msg against one Queue_GetWait of its
\* length, wherever the counters of the empty queue are.
StreamInit ==
  /\ head \in 0 .. Wrap - 1 /\ tail = head
  /\ buf \in [QueueSlots -> Data]
  /\ call = [t \in QueueTasks |-> IF t \in Producers THEN PutCall(Msg, TRUE)
                                  ELSE GetCall(<<>>, Len(Msg), TRUE)]
  /\ moved = Out(<<>>)

StreamStep(t) == PutWaitStep(t) \/ GetWaitStep(t)
StreamOver == \A t \in QueueTasks : call[t] = Idle
StreamSpec == StreamInit /\ [][\E t \in QueueTasks : StreamStep(t)]_queueVars
-----------------------------------------------------------------------------
CallOK(c) ==
  \/ c = Idle
  \/ c \in [op : {"put"}, data : Seq(Data), patient : BOOLEAN]
  \/ c \in [op : {"get"}, data : Seq(Data), missing : Nat, patient : BOOLEAN]
  \/ c \in [op : {"fill"}, idx : QueueSlots, room : 0 .. Count]

\* Type invariant: counters within size_t, slots and calls well formed.
QueueTypeOK == /\ head \in 0 .. Wrap - 1
               /\ tail \in 0 .. Wrap - 1
               /\ buf \in [QueueSlots -> Data]
               /\ DOMAIN call = QueueTasks /\ \A t \in QueueTasks : CallOK(call[t])
               /\ moved \in [dir : {"in", "out"}, chunk : Seq(Data)]

\* The queue never claims more elements than it has slots, whatever the
\* position of the two counters relative to the wrap of size_t
\* (Queue_GetUsed / Queue_GetFree).
UsedBounded == Used <= Count

\* The memory Queue_GetFreeLinearMem handed out is still the free memory at
\* the head when the sole producer commits it with Queue_IncreaseCount,
\* however many elements consumers took in between.
ReservationStable ==
  \A t \in Producers : call[t].op = "fill" =>
    /\ call[t].idx = HeadIdx
    /\ call[t].room <= Room
    /\ call[t].idx + call[t].room <= Count

\* The queued elements, oldest first: the refinement mapping.
Items == [k \in 1 .. Used |-> buf[(tail + k - 1) % Count]]

Fifo == INSTANCE BoundedFifo WITH Cap <- Count, items <- Items

\* The transfer has one writer and one reader.
OnePair == \E p \in Producers, c \in Consumers : Producers = {p} /\ Consumers = {c}

\* What is still in the hands of the writer, in the ring, and already with
\* the reader is always exactly the message, in order: no chunk boundary of
\* Queue_PutWait or Queue_GetWait loses, repeats or swaps an element.
StreamIntact ==
  \A p \in Producers, c \in Consumers :
    LET unsent == IF call[p].op = "put" THEN call[p].data ELSE <<>>
    IN  IF call[c].op = "get" THEN (call[c].data \o Items) \o unsent = Msg
        ELSE Items \o unsent = <<>>

\* Every step of the ring, including the ones that straddle the end of the
\* buffer or the wrap of a counter, is a step of a bounded FIFO.
ImplementsFifo == Fifo!Spec
=============================================================================
