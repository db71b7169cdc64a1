------------------------------- MODULE Yield -------------------------------
(***************************************************************************)
(* The cooperative scheduler of sys/src/yield.c.                           *)
(*                                                                         *)
(* Task control blocks form a doubly linked ring; `curr' is the running    *)
(* task.  Only a call of the scheduler passes control on, so everything a  *)
(* task does between two context switches is one atomic step.  Blocks of   *)
(* tasks live on the heap and are freed when the task ends; blocks of      *)
(* coroutines are kept in a pool of slots and reused.                      *)
(*                                                                         *)
(* `pc' is where a task is inside this module's code: in its own handler   *)
(* ("run"), in the search loop of Yield_Run ("search"), past it with a     *)
(* slot in hand ("start"), polling in Yield_Wait ("wait"), or in           *)
(* Yield_ExecuteTask after its handler returned ("exit").                  *)
(***************************************************************************)
EXTENDS Integers, FiniteSets

CONSTANTS CoroNum,   \* SYS_CORO_MAX_NUM
          PlainNum,  \* bound: heap blocks for tasks other than the first
          MaxId,     \* bound: task ids handed out
          Exclusive  \* callers of Yield_Run exclude one another

ASSUME YieldAssumption == /\ CoroNum \in Nat /\ PlainNum \in Nat
                          /\ MaxId \in Nat \ {0}
                          /\ Exclusive \in BOOLEAN

Main == 0
Coro == 1 .. CoroNum
Plain == CoroNum + 1 .. CoroNum + PlainNum
Blocks == 0 .. CoroNum + PlainNum
Nil == -1

VARIABLES
  curr,         \* curr_task
  state,        \* t->state; "free" if there is no block (NULL slot, heap)
  next, prev,   \* t->next, t->prev
  id, nextId,   \* t->id, next_task_id
  handler_done, cancelled, shielded,
  pc,           \* control point of the task, on its stack
  ptr,          \* local pointer of Yield_Run (slot) and Yield_Wait (task)
  awaited,      \* history: the id Yield_Wait was called with
  owed,         \* history: who has to run before the task runs again
  asked         \* history: ids for which Yield_Cancel found a task

ring == <<curr, state, next, prev>>
flags == <<handler_done, cancelled, shielded>>
local == <<pc, ptr, awaited>>
yieldVars == <<ring, id, nextId, flags, local, owed, asked>>

InRing == {b \in Blocks : state[b] \in {"pending", "active"}}

\* The first task: created by Init() and started by Yield_Start(), in memory
\* that the startup code cleared.
YieldInit ==
  /\ curr = Main
  /\ state = [b \in Blocks |-> IF b = Main THEN "active" ELSE "free"]
  /\ next = [b \in Blocks |-> IF b = Main THEN Main ELSE Nil]
  /\ prev = [b \in Blocks |-> IF b = Main THEN Main ELSE Nil]
  /\ id = [b \in Blocks |-> IF b = Main THEN 1 ELSE 0]
  /\ nextId = 2
  /\ handler_done = [b \in Blocks |-> FALSE]
  /\ cancelled = [b \in Blocks |-> FALSE]
  /\ shielded = [b \in Blocks |-> FALSE]
  /\ pc = [b \in Blocks |-> "run"]
  /\ ptr = [b \in Blocks |-> Nil]
  /\ awaited = [b \in Blocks |-> 0]
  /\ owed = [b \in Blocks |-> {}]
  /\ asked = {}
-----------------------------------------------------------------------------
\* Yield_Schedule with the running task alive: it becomes pending and the
\* next one in the ring active.
Switch ==
  LET n == next[curr]
  IN  /\ state' = [state EXCEPT ![curr] = "pending", ![n] = "active"]
      /\ curr' = n
      /\ owed' = [b \in Blocks |->
                    (IF b = curr THEN InRing \ {curr} ELSE owed[b]) \ {n}]
      /\ UNCHANGED <<next, prev>>

\* Mutant: the scheduler advances twice.
Retire_Skip ==
  LET n == next[curr]
      m == IF next[n] = curr THEN n ELSE next[n]
  IN  /\ next' = [next EXCEPT ![prev[curr]] = n]
      /\ prev' = [prev EXCEPT ![n] = prev[curr]]
      /\ state' = [state EXCEPT ![curr] = IF curr \in Coro THEN "done" ELSE "free",
                                ![m] = "active"]
      /\ curr' = m
      /\ owed' = [b \in Blocks |-> IF b = curr THEN {} ELSE owed[b] \ {curr, m}]

\* Yield_Schedule with the running task marked TASK_DONE: it is unlinked and,
\* unless it is a coroutine, its block is freed.
Retire ==
  LET n == next[curr]
  IN  /\ next' = [next EXCEPT ![prev[curr]] = n]
      /\ prev' = [prev EXCEPT ![n] = prev[curr]]
      /\ state' = [state EXCEPT ![curr] = IF curr \in Coro THEN "done" ELSE "free",
                                ![n] = "active"]
      /\ curr' = n
      /\ owed' = [b \in Blocks |-> IF b = curr THEN {} ELSE owed[b] \ {curr, n}]

\* The parts of Yield_InitializeTask: a fresh id,
NewId(b) == /\ id' = [id EXCEPT ![b] = nextId]
            /\ nextId' = nextId + 1

\* clean flags,
ClearFlags(b) == /\ handler_done' = [handler_done EXCEPT ![b] = FALSE]
                 /\ cancelled' = [cancelled EXCEPT ![b] = FALSE]

\* and a place in front of the running task, at the end of the round.
\* Mutant: curr_task->prev->next is not updated.
Link_OneWay(b) == /\ prev' = [prev EXCEPT ![b] = prev[curr], ![curr] = b]
                  /\ next' = [next EXCEPT ![b] = curr]
Link(b) == /\ prev' = [prev EXCEPT ![b] = prev[curr], ![curr] = b]
           /\ next' = [next EXCEPT ![b] = curr, ![prev[curr]] = b]

\* Yield_InitializeTask of block b.  The shield flag is not set:
\* a slot keeps what its previous user left there, and fresh heap memory
\* holds any value.
InitializeTask(b) ==
  /\ NewId(b) /\ ClearFlags(b) /\ Link(b)
  /\ state' = [state EXCEPT ![b] = "pending"]
  /\ owed' = [owed EXCEPT ![b] = {}]
  /\ IF state[b] = "free"
       THEN \E e \in BOOLEAN : shielded' = [shielded EXCEPT ![b] = e]
       ELSE UNCHANGED shielded
  /\ UNCHANGED <<curr, asked>>

\* The running task continues at control point c with local pointer p.
Goto(c, p, i) == /\ pc' = [pc EXCEPT ![curr] = c]
                 /\ ptr' = [ptr EXCEPT ![curr] = p]
                 /\ awaited' = [awaited EXCEPT ![curr] = i]

\* The smallest index: array scans stop at the first hit.
First(S) == CHOOSE s \in S : \A r \in S : s <= r

InRun == {b \in InRing : pc[b] \in {"search", "start"}}
\* Bound: ids left for new tasks, counting the calls of Yield_Run under way.
IdLeft == nextId + Cardinality(InRun) <= MaxId
-----------------------------------------------------------------------------
\* Yield(), also the loop of Yield_Start after Main returned.
YieldCall == /\ pc[curr] = "run"
             /\ Switch
             /\ UNCHANGED <<id, nextId, flags, local, asked>>

\* Yield_Task: allocation (which may fail) and initialisation.
Task == /\ pc[curr] = "run"
        /\ IdLeft
        /\ \E b \in Plain : /\ state[b] = "free"
                            /\ InitializeTask(b)
                            /\ pc' = [pc EXCEPT ![b] = "run"]
        /\ UNCHANGED <<ptr, awaited>>

\* One pass of the slot search of Yield_Run; it ends in a Yield() whether or
\* not a slot was found.
RunSearch ==
  /\ \/ pc[curr] = "run" /\ IdLeft /\ (Exclusive => InRun = {})
     \/ pc[curr] = "search"
  /\ LET usable == {s \in Coro : state[s] \in {"free", "done"}}
     IN  IF usable = {} THEN Goto("search", Nil, 0)
                        ELSE Goto("start", First(usable), 0)
  /\ Switch
  /\ UNCHANGED <<id, nextId, flags, asked>>

\* The rest of Yield_Run: use the slot, or fail if it needs memory and there
\* is none.
RunStart ==
  /\ pc[curr] = "start"
  /\ \/ /\ InitializeTask(ptr[curr])
        /\ pc' = [pc EXCEPT ![curr] = "run", ![ptr[curr]] = "run"]
        /\ ptr' = [ptr EXCEPT ![curr] = Nil, ![ptr[curr]] = Nil]
        /\ awaited' = [awaited EXCEPT ![ptr[curr]] = 0]
     \/ /\ state[ptr[curr]] = "free"
        /\ Goto("run", Nil, 0)
        /\ UNCHANGED <<ring, id, nextId, flags, owed, asked>>

\* Yield_Wait on a task that exists and is still running; in the other cases
\* the call returns at once and changes nothing.
WaitCall == /\ pc[curr] = "run"
            /\ \E b \in InRing : ~handler_done[b] /\ Goto("wait", b, id[b])
            /\ Switch
            /\ UNCHANGED <<id, nextId, flags, asked>>

\* One pass of the polling loop: the task ended, the timeout passed, or yield.
WaitPoll ==
  /\ pc[curr] = "wait"
  /\ \/ Goto("run", Nil, 0) /\ UNCHANGED <<ring, owed>>
     \/ ~handler_done[ptr[curr]] /\ Switch /\ UNCHANGED local
  /\ UNCHANGED <<id, nextId, flags, asked>>

\* Yield_Cancel of a task that exists.
Cancel == /\ pc[curr] = "run"
          /\ \E b \in InRing : /\ cancelled' = [cancelled EXCEPT ![b] = TRUE]
                               /\ asked' = asked \cup {id[b]}
          /\ UNCHANGED <<ring, id, nextId, handler_done, shielded, local, owed>>

Shield == /\ pc[curr] = "run"
          /\ \E e \in BOOLEAN : shielded' = [shielded EXCEPT ![curr] = e]
          /\ UNCHANGED <<ring, id, nextId, handler_done, cancelled, local, owed, asked>>

\* Mutant: the block is released without a round for the waiters.
Finish_AtOnce == /\ pc[curr] = "run" /\ curr # Main
                 /\ handler_done' = [handler_done EXCEPT ![curr] = TRUE]
                 /\ Retire
                 /\ UNCHANGED <<id, nextId, cancelled, shielded, local, asked>>

\* Yield_ExecuteTask: the handler returned; waiters get one round to notice,
\* then the task is done.  The first task is not run by Yield_ExecuteTask.
Finish == /\ pc[curr] = "run" /\ curr # Main
          /\ handler_done' = [handler_done EXCEPT ![curr] = TRUE]
          /\ Goto("exit", Nil, 0)
          /\ Switch
          /\ UNCHANGED <<id, nextId, cancelled, shielded, asked>>

Exit == /\ pc[curr] = "exit"
        /\ Goto("run", Nil, 0)
        /\ Retire
        /\ UNCHANGED <<id, nextId, flags, asked>>

IsCancelled(b) == ~shielded[b] /\ cancelled[b]

Scheduling == \/ YieldCall \/ Task \/ RunSearch \/ RunStart \/ WaitCall \/ WaitPoll
              \/ Finish \/ Exit
YieldNext == Scheduling \/ Cancel \/ Shield

YieldSpec == YieldInit /\ [][YieldNext]_yieldVars

\* Cooperation: whatever a task does, it calls the scheduler eventually.
ContextSwitch == \/ YieldCall \/ RunSearch \/ RunStart \/ WaitCall \/ WaitPoll \/ Finish \/ Exit
-----------------------------------------------------------------------------
States == {"free", "pending", "active", "done"}
Points == {"run", "search", "start", "wait", "exit"}

\* Type invariant.
YieldTypeOK ==
  /\ curr \in Blocks
  /\ state \in [Blocks -> States]
  /\ next \in [Blocks -> Blocks \cup {Nil}] /\ prev \in [Blocks -> Blocks \cup {Nil}]
  /\ id \in [Blocks -> Nat] /\ nextId \in Nat
  /\ handler_done \in [Blocks -> BOOLEAN] /\ cancelled \in [Blocks -> BOOLEAN]
  /\ shielded \in [Blocks -> BOOLEAN]
  /\ pc \in [Blocks -> Points] /\ ptr \in [Blocks -> Blocks \cup {Nil}]
  /\ awaited \in [Blocks -> Nat] /\ owed \in [Blocks -> SUBSET Blocks]
  /\ asked \subseteq Nat

\* The ring is a well-formed doubly linked list: what the list operations of
\* Yield_InitializeTask and Yield_Schedule have to keep.
RingLinked == \A b \in InRing : /\ next[b] \in InRing /\ prev[next[b]] = b
                                /\ prev[b] \in InRing /\ next[prev[b]] = b

\* An id names one task and never the next user of its control block: tasks
\* in the ring have different ids, a task in Yield_Wait polls the block of
\* the task it was asked to wait for, which is neither freed nor reused
\* before the waiter has seen handler_done, and a task is cancelled only if
\* its own id was passed to Yield_Cancel.
IdSafe == \A t \in InRing :
            /\ \A u \in InRing : id[t] = id[u] => t = u
            /\ pc[t] = "wait" => ptr[t] \in InRing /\ id[ptr[t]] = awaited[t]
            /\ cancelled[t] => id[t] \in asked

\* When a task runs again, all other tasks have run since (README.md).
FullRound == owed[curr] = {}

\* Every task in the ring runs again.
NoStarvation == \A b \in Blocks : (b \in InRing) ~> (curr = b)
=============================================================================
