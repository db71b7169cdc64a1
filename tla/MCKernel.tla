------------------------------ MODULE MCKernel ------------------------------
(***************************************************************************)
(* The kernel of sys/ in one instance.  Queues, semaphores, events, the    *)
(* heap and the scheduler share no state with one another in the models:   *)
(* `part' says which of them a behaviour runs, the others keep their       *)
(* initial state.  Two parts use the queue: every call in any order, and   *)
(* one Queue_PutWait longer than the queue against one Queue_GetWait.      *)
(***************************************************************************)
EXTENDS Queue, Sem, Ev, Heap, Yield

CONSTANTS Parts, m1, m2, m3
VARIABLE part

BothOrders == {<<m1, m2>>, <<m2, m1>>}
ThreeLists == {<<m1, m2, m3>>, <<m3, m2, m1>>, <<m2, m1>>}

\* More elements than the queue holds.
MCMsg == <<1, 2, 2, 1, 2, 1, 1, 2>>
\* The transfers are the ones theorem TransferIntact is about.
ASSUME MCPair == OnePair

\* Any use, as long as the block the search picks is large enough.
FitNext == \/ \E req \in Reqs : Fits(req) /\ Malloc(req)
           \/ \E m \in live : Free(m)
-----------------------------------------------------------------------------
kernelVars == <<part, queueVars, vars, evVars, heapVars, yieldVars>>

KernelInit == /\ part \in Parts
              /\ IF part = "queue" THEN QueueInit
                 ELSE IF part = "stream" THEN StreamInit
                 ELSE QueueInit /\ buf = [i \in QueueSlots |-> 1]
              /\ Init /\ EvInit /\ HeapInit /\ YieldInit

KernelNext ==
  \/ /\ \/ part = "queue" /\ QueueNext
        \/ part = "stream" /\ \E t \in QueueTasks : StreamStep(t)
        \/ part = "stream" /\ StreamOver /\ UNCHANGED queueVars
     /\ UNCHANGED <<part, vars, evVars, heapVars, yieldVars>>
  \/ part = "sem" /\ Next /\ UNCHANGED <<part, queueVars, evVars, heapVars, yieldVars>>
  \/ part = "ev" /\ EvNext /\ UNCHANGED <<part, queueVars, vars, heapVars, yieldVars>>
  \/ part = "heap" /\ TidyNext /\ UNCHANGED <<part, queueVars, vars, evVars, yieldVars>>
  \/ part = "yield" /\ YieldNext /\ UNCHANGED <<part, queueVars, vars, evVars, heapVars>>

KernelSpec == KernelInit /\ [][KernelNext]_kernelVars

\* The scheduler runs every task once per round and tasks cooperate: a task
\* in a polling loop makes its next pass, a task that runs calls the
\* scheduler, and a listener that captured an event finishes its work on it.
KernelFairSpec ==
  /\ KernelSpec
  /\ \A t \in QueueTasks : WF_queueVars(part = "stream" /\ StreamStep(t))
  /\ \A t \in Tasks : WF_vars(part = "sem" /\ Pass(t))
  /\ \A n \in Notifiers : WF_evVars(part = "ev" /\ NotifyReturn(n))
  /\ \A l \in Listeners : /\ WF_evVars(part = "ev" /\ Capture(l))
                          /\ WF_evVars(part = "ev" /\ Ack(l))
  /\ WF_yieldVars(part = "yield" /\ ContextSwitch)

\* The heap used without the restriction of TidyNext.
SplitSpec ==
  KernelInit /\ [][FitNext /\ UNCHANGED <<part, queueVars, vars, evVars, yieldVars>>]_kernelVars
-----------------------------------------------------------------------------
\* Queue and heap are well formed: types, the counters of the queue across
\* their wrap, the memory Queue_GetFreeLinearMem handed out still free when
\* it is committed, and a heap chain that is linked both ways, tiles the heap
\* and is one block again once everything was freed.
MemoryOK == /\ QueueTypeOK /\ UsedBounded /\ ReservationStable
            /\ HeapTypeOK /\ Tiles /\ Restored

\* Tasks and listeners are well formed: types, one owner per listener entry,
\* and a ring of tasks that is linked both ways.
TasksOK == TypeOK /\ EvTypeOK /\ EntryOwned /\ YieldTypeOK /\ RingLinked

\* A transfer longer than the queue ends: neither side waits forever for the
\* other one.
StreamEnds == (part = "stream") ~> StreamOver
=============================================================================
