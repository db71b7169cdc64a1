-------------------------------- MODULE Sem --------------------------------
(***************************************************************************)
(* The semaphores of sys/src/sem.c.  A semaphore holds SEM_RELEASED (0) or *)
(* the id of the task that locked it.  Tasks are cooperative: the loop     *)
(* body of Sem_Lock and Sem_LockMultiple up to its Yield() is one step.    *)
(*                                                                         *)
(* `held' is what a task may rely on: the semaphores its calls returned    *)
(* EOK for and which it has not released since.  Clients follow the        *)
(* with_sem / with_sems discipline: they release what they hold, once.     *)
(*                                                                         *)
(* A task may pass Sem_LockMultiple a list with a semaphore it already     *)
(* holds.  A pass that fails then releases that one too, while the task    *)
(* still relies on it: `lost' collects the semaphores this happened to.    *)
(***************************************************************************)
EXTENDS Integers, Sequences, FiniteSets

CONSTANTS Sems,    \* the semaphores
          Tasks,   \* the ids of the tasks, as Yield_GetTaskID() returns them
          IdMod,   \* sem_t is an enumeration of one byte: stores are modulo 256
          Lists    \* the semaphore lists passed to Sem_LockMultiple

\* A list names every semaphore once.
ASSUME SemAssumption ==
  /\ IdMod \in Nat \ {0}
  /\ Tasks \subseteq Nat \ {0}
  /\ Lists \subseteq Seq(Sems) \ {<<>>}
  /\ \A l \in Lists : \A i, j \in DOMAIN l : l[i] = l[j] => i = j

Released == 0

VARIABLES sem,   \* sem[s]: the stored value
          want,  \* want[t]: the list a task is trying to lock, <<>> if none
          mode,  \* mode[t]: outside, in Sem_Lock, in the first pass of
                 \* Sem_LockMultiple, or in a later one
          held,  \* held[t]: the semaphores the task may rely on
          lost   \* those released under a task that relied on them, until nobody
                 \* relies on them any more

vars == <<sem, want, mode, held, lost>>

Modes == {"idle", "lock", "first", "again"}

Init == /\ sem = [s \in Sems |-> Released]
        /\ want = [t \in Tasks |-> <<>>]
        /\ mode = [t \in Tasks |-> "idle"]
        /\ held = [t \in Tasks |-> {}]
        /\ lost = {}

Stored(t) == t % IdMod

\* The tests `*sem != SEM_RELEASED' and `*sem == task_id': the stored byte
\* is compared with the whole id.
\* Mutant: no test.
Lockable_Always(t, s) == TRUE
Lockable(t, s) == sem[s] = Released \/ sem[s] = t

Ranged(l) == {l[i] : i \in DOMAIN l}

Return(t) == /\ want' = [want EXCEPT ![t] = <<>>]
             /\ mode' = [mode EXCEPT ![t] = "idle"]
-----------------------------------------------------------------------------
\* A task calls Sem_Lock(s); locking again what it already holds is allowed.
LockCall(t, s) == /\ mode[t] = "idle"
                  /\ want' = [want EXCEPT ![t] = <<s>>]
                  /\ mode' = [mode EXCEPT ![t] = "lock"]
                  /\ UNCHANGED <<sem, held, lost>>

\* The loop of Sem_Lock finds the semaphore free or its own.  While it does
\* not, the loop only yields.
Lock(t) == /\ mode[t] = "lock"
           /\ Lockable(t, want[t][1])
           /\ sem' = [sem EXCEPT ![want[t][1]] = Stored(t)]
           /\ held' = [held EXCEPT ![t] = @ \cup {want[t][1]}]
           /\ Return(t)
           /\ UNCHANGED lost

\* ETIMEOUT of Sem_Lock: only after the semaphore was found taken.
LockTimeout(t) == /\ mode[t] = "lock"
                  /\ ~Lockable(t, want[t][1])
                  /\ Return(t)
                  /\ UNCHANGED <<sem, held, lost>>

\* A task calls Sem_LockMultiple(l), whatever it holds.
LockMultipleCall(t, l) == /\ mode[t] = "idle"
                          /\ want' = [want EXCEPT ![t] = l]
                          /\ mode' = [mode EXCEPT ![t] = "first"]
                          /\ UNCHANGED <<sem, held, lost>>

\* The semaphores the inner loop locks: those before the first taken one.
Prefix(t) == {want[t][i] : i \in {j \in DOMAIN want[t] :
                                    \A k \in 1 .. j : Lockable(t, want[t][k])}}

\* One pass of Sem_LockMultiple that reaches the end of the list.
LockMultiple(t) == /\ mode[t] \in {"first", "again"}
                   /\ Prefix(t) = Ranged(want[t])
                   /\ sem' = [s \in Sems |-> IF s \in Prefix(t) THEN Stored(t) ELSE sem[s]]
                   /\ held' = [held EXCEPT ![t] = @ \cup Ranged(want[t])]
                   /\ Return(t)
                   /\ UNCHANGED lost

\* Mutant: the prefix stays locked while the task waits.
LockMultipleRetry_Keep(t) ==
  /\ mode[t] \in {"first", "again"}
  /\ Prefix(t) # Ranged(want[t])
  /\ sem' = [s \in Sems |-> IF s \in Prefix(t) THEN Stored(t) ELSE sem[s]]
  /\ mode' = [mode EXCEPT ![t] = "again"]
  /\ UNCHANGED <<want, held, lost>>

\* One pass that meets a taken semaphore: the locked prefix is released, the
\* semaphores in it that the task held before the call included.
LockMultipleRetry(t) == /\ mode[t] \in {"first", "again"}
                        /\ Prefix(t) # Ranged(want[t])
                        /\ sem' = [s \in Sems |-> IF s \in Prefix(t) THEN Released ELSE sem[s]]
                        /\ lost' = lost \cup (Prefix(t) \cap held[t])
                        /\ mode' = [mode EXCEPT ![t] = "again"]
                        /\ UNCHANGED <<want, held>>

\* The timeout is tested at the head of the loop, after a failed pass and its
\* Yield(), whether or not the semaphores are free by now.
LockMultipleTimeout(t) == /\ mode[t] = "again"
                          /\ Return(t)
                          /\ UNCHANGED <<sem, held, lost>>

\* Task t gives up S.
GiveUp(t, S) == /\ held' = [held EXCEPT ![t] = @ \ S]
                /\ lost' = {s \in lost : \E u \in Tasks : s \in held'[u]}

Release(t, s) == /\ mode[t] = "idle" /\ s \in held[t]
                 /\ sem' = [sem EXCEPT ![s] = Released]
                 /\ GiveUp(t, {s})
                 /\ UNCHANGED <<want, mode>>

\* Mutant: only the first one of the list is released.
ReleaseMultiple_First(t, l) ==
  /\ mode[t] = "idle" /\ Ranged(l) \subseteq held[t]
  /\ sem' = [sem EXCEPT ![l[1]] = Released]
  /\ GiveUp(t, Ranged(l))
  /\ UNCHANGED <<want, mode>>

\* Sem_ReleaseMultiple of a list the task holds.
ReleaseMultiple(t, l) ==
  /\ mode[t] = "idle" /\ Ranged(l) \subseteq held[t]
  /\ sem' = [s \in Sems |-> IF s \in Ranged(l) THEN Released ELSE sem[s]]
  /\ GiveUp(t, Ranged(l))
  /\ UNCHANGED <<want, mode>>

\* Calls on one semaphore; they may be nested in any order.
Single(t) == \/ \E s \in Sems : LockCall(t, s)
             \/ Lock(t)
             \/ LockTimeout(t)
             \/ \E s \in Sems : Release(t, s)

\* Calls on a list of semaphores.
Multiple(t) == \/ \E l \in Lists : LockMultipleCall(t, l)
               \/ LockMultiple(t)
               \/ LockMultipleRetry(t)
               \/ LockMultipleTimeout(t)
               \/ \E l \in Lists : ReleaseMultiple(t, l)

Next == \E t \in Tasks : Single(t) \/ Multiple(t)

Spec == Init /\ [][Next]_vars

\* Ids that a sem_t can hold.  Yield_InitializeTask hands out ids 1, 2, 3...
\* without end, so this is a condition on how long the program runs.
IdsFit == Tasks \subseteq 1 .. IdMod - 1

\* The scheduler runs every task once per round, so a task inside a locking
\* loop makes its next pass.
Pass(t) == Lock(t) \/ LockMultiple(t) \/ LockMultipleRetry(t)
-----------------------------------------------------------------------------
\* Type invariant.
TypeOK == /\ sem \in [Sems -> 0 .. IdMod - 1]
          /\ want \in [Tasks -> Seq(Sems)]
          /\ mode \in [Tasks -> Modes]
          /\ held \in [Tasks -> SUBSET Sems]
          /\ lost \subseteq Sems
          /\ \A t \in Tasks : /\ mode[t] = "lock" => want[t] \in {<<s>> : s \in Sems}
                              /\ mode[t] \in {"first", "again"} => want[t] \in Lists

\* Exclusive access: two tasks never rely on the same semaphore, whatever
\* they nest of Sem_Lock, Sem_LockMultiple, timeouts and releases, except for
\* a semaphore that a failing pass of Sem_LockMultiple released under the task
\* that had locked it before the call (sem.c:55-56).
MutualExclusion == \A t, u \in Tasks : t # u => held[t] \cap held[u] \subseteq lost

\* A semaphore is marked taken only while the task it names relies on it: no
\* failed pass of Sem_LockMultiple, no timeout and no foreign release leaves
\* one locked behind.  One that a task relies on is marked with its id, unless
\* a failing pass released it under that task.
OwnerExact == \A s \in Sems :
  /\ sem[s] \in Tasks \cup {Released}
  /\ \A t \in Tasks : /\ sem[s] = t => s \in held[t]
                      /\ s \in held[t] \ lost => sem[s] = t

\* Failed passes of Sem_LockMultiple leave nothing locked while they wait: when
\* nobody relies on anything, every waiting task can lock all it wants.
NoDeadlock == \A t \in Tasks :
  (mode[t] # "idle" /\ \A u \in Tasks : held[u] = {}) =>
    \A i \in DOMAIN want[t] : Lockable(t, want[t][i])

\* Tasks waiting in Sem_LockMultiple on overlapping lists in any order, and
\* in Sem_Lock, never block one another for good: while there are waiters,
\* somebody gets to hold a semaphore (or all give up).
SomeoneServed == (\E t \in Tasks : mode[t] # "idle") ~>
                   \/ \A t \in Tasks : mode[t] = "idle"
                   \/ \E t \in Tasks : held[t] # {}
=============================================================================
