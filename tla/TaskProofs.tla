----------------------------- MODULE TaskProofs -----------------------------
(***************************************************************************)
(* Exclusion of the semaphores, for any number of tasks, semaphores and    *)
(* lists, as long as task ids fit in a sem_t.  The inductive invariant is  *)
(* OwnerExact together with the types: MutualExclusion alone does not say  *)
(* that a semaphore somebody relies on is marked as taken.  No condition   *)
(* on nesting is needed: what a failing pass of Sem_LockMultiple releases  *)
(* under the task that relies on it is in `lost'.                          *)
(*                                                                         *)
(* Events, for any number of listeners, entries and wraps of ev->id.       *)
(*                                                                         *)
(* The types and the ownership of the entries need no assumption.  That a  *)
(* notifier returns only when nobody needs its argument any more is proved *)
(* for an event with one notifying task, which is how the program uses     *)
(* Ev_Notify.  Delivered alone is not inductive: a listener that has       *)
(* captured the event, or still has to, keeps its entry at an id other     *)
(* than ev->id, which is what Ev_Notify waits for (Unacked), and between   *)
(* two calls of Ev_Notify all entries are at ev->id (Quiet).               *)
(*                                                                         *)
(* The scheduler, for any number of coroutine slots and tasks, as long as  *)
(* callers of Yield_Run exclude one another.                               *)
(*                                                                         *)
(* RingLinked does not say that the ring is one cycle, and the promise     *)
(* that everybody runs once per round rests on that.  The inductive        *)
(* invariant numbers the tasks in the order in which they will run, the    *)
(* running one being 0: a task is owed a run only by tasks before it.      *)
(* What Yield_Wait relies on follows from it: a task that ends is passed   *)
(* by everybody who polls its block before the block is released.          *)
(***************************************************************************)
EXTENDS Sem, Ev, Yield, Induction

-----------------------------------------------------------------------------
(* Semaphores.                                                             *)

\* An id that fits in a sem_t is stored unchanged and differs from Released.
LEMMA StoredId ==
  ASSUME IdsFit, NEW t \in Tasks
  PROVE  Stored(t) = t /\ t # Released /\ t \in 1 .. IdMod - 1
<1>1. t \in 1 .. IdMod - 1 /\ IdMod \in Nat
  BY SemAssumption DEF IdsFit
<1>2. t % IdMod = t
  BY <1>1
<1> QED
  BY <1>1, <1>2 DEF Stored, Released

\* The elements of a list are semaphores.
LEMMA RangedType ==
  ASSUME NEW l \in Seq(Sems)
  PROVE  Ranged(l) \subseteq Sems
BY DEF Ranged

\* What a pass of Sem_LockMultiple locks was free or the task's own.
LEMMA PrefixLockable ==
  ASSUME NEW t \in Tasks, want[t] \in Seq(Sems)
  PROVE  \A s \in Prefix(t) : s \in Sems /\ Lockable(t, s)
<1> TAKE s \in Prefix(t)
<1>1. PICK i \in DOMAIN want[t] :
        want[t][i] = s /\ \A k \in 1 .. i : Lockable(t, want[t][k])
  BY DEF Prefix
<1>2. i \in 1 .. i /\ want[t][i] \in Sems
  OBVIOUS
<1> QED
  BY <1>1, <1>2

LEMMA InitIInv == Init => TypeOK /\ OwnerExact
<1> SUFFICES ASSUME Init PROVE TypeOK /\ OwnerExact
  OBVIOUS
<1>1. TypeOK
  BY SemAssumption DEF Init, TypeOK, Modes, Released
<1>2. OwnerExact
  BY SemAssumption DEF Init, OwnerExact, Released
<1> QED
  BY <1>1, <1>2

\* Every step of a task keeps the types and the exact ownership.
LEMMA StepIInv ==
  ASSUME IdsFit, TypeOK, OwnerExact, NEW t \in Tasks, Single(t) \/ Multiple(t)
  PROVE  TypeOK' /\ OwnerExact'
<1> USE StoredId, SemAssumption
<1>1. ASSUME NEW s \in Sems, LockCall(t, s)
      PROVE  TypeOK' /\ OwnerExact'
  BY <1>1 DEF LockCall, TypeOK, OwnerExact, Modes
<1>2. CASE Lock(t)
  <2>1. PICK s \in Sems : want[t] = <<s>>
    BY <1>2 DEF Lock, TypeOK
  <2>2. want[t][1] = s
    BY <2>1
  <2>3. TypeOK'
    BY <1>2, <2>2 DEF Lock, Return, TypeOK, Modes
  <2>4. OwnerExact'
    BY <1>2, <2>2 DEF Lock, Return, TypeOK, OwnerExact, Lockable
  <2> QED
    BY <2>3, <2>4
<1>3. CASE LockTimeout(t)
  BY <1>3 DEF LockTimeout, Return, TypeOK, OwnerExact, Modes
<1>4. ASSUME NEW l \in Lists, LockMultipleCall(t, l)
      PROVE  TypeOK' /\ OwnerExact'
  BY <1>4 DEF LockMultipleCall, TypeOK, OwnerExact, Modes
<1>5. CASE LockMultiple(t)
  <2>1. /\ want[t] \in Lists /\ want[t] \in Seq(Sems)
        /\ Ranged(want[t]) \subseteq Sems
    BY <1>5, RangedType DEF LockMultiple, TypeOK
  <2>2. \A s \in Ranged(want[t]) : Lockable(t, s)
    <3>1. Prefix(t) = Ranged(want[t])
      BY <1>5 DEF LockMultiple
    <3> QED
      BY <2>1, <3>1, PrefixLockable
  <2>3. TypeOK'
    BY <1>5, <2>1 DEF LockMultiple, Return, TypeOK, Modes
  <2>4. OwnerExact'
    BY <1>5, <2>1, <2>2 DEF LockMultiple, Return, TypeOK, OwnerExact, Lockable
  <2> QED
    BY <2>3, <2>4
<1>6. CASE LockMultipleRetry(t)
  <2>1. want[t] \in Lists /\ want[t] \in Seq(Sems)
    BY <1>6 DEF LockMultipleRetry, TypeOK
  <2>2. \A s \in Prefix(t) : s \in Sems /\ Lockable(t, s)
    BY <2>1, PrefixLockable
  <2>3. TypeOK'
    BY <1>6, <2>2 DEF LockMultipleRetry, TypeOK, Modes, Released
  <2>4. \A s \in Sems : \A u \in Tasks :
          s \in held[u] \ lost' => s \notin Prefix(t) /\ sem[s] = u
    <3> SUFFICES ASSUME NEW s \in Sems, NEW u \in Tasks, s \in held[u], s \notin lost'
                 PROVE  s \notin Prefix(t) /\ sem[s] = u
      OBVIOUS
    <3>1. sem[s] = u
      BY <1>6 DEF LockMultipleRetry, OwnerExact
    <3>2. ASSUME s \in Prefix(t) PROVE FALSE
      <4>1. u = t
        BY <2>2, <3>1, <3>2 DEF Lockable
      <4> QED
        BY <1>6, <3>2, <4>1 DEF LockMultipleRetry
    <3> QED
      BY <3>1, <3>2
  <2>5. OwnerExact'
    BY <1>6, <2>4 DEF LockMultipleRetry, TypeOK, OwnerExact
  <2> QED
    BY <2>3, <2>5
<1>7. CASE LockMultipleTimeout(t)
  BY <1>7 DEF LockMultipleTimeout, Return, TypeOK, OwnerExact, Modes
<1>8. ASSUME NEW s \in Sems, Release(t, s)
      PROVE  TypeOK' /\ OwnerExact'
  <2>1. TypeOK'
    BY <1>8 DEF Release, TypeOK, Modes, Released, GiveUp
  <2>2. OwnerExact'
    BY <1>8 DEF Release, TypeOK, OwnerExact, GiveUp
  <2> QED
    BY <2>1, <2>2
<1>9. ASSUME NEW l \in Lists, ReleaseMultiple(t, l)
      PROVE  TypeOK' /\ OwnerExact'
  <2>1. Ranged(l) \subseteq Sems
    BY RangedType
  <2>2. TypeOK'
    BY <1>9 DEF ReleaseMultiple, TypeOK, Modes, Released, GiveUp
  <2>3. OwnerExact'
    BY <1>9, <2>1 DEF ReleaseMultiple, TypeOK, OwnerExact, GiveUp
  <2> QED
    BY <2>2, <2>3
<1> QED
  BY <1>1, <1>2, <1>3, <1>4, <1>5, <1>6, <1>7, <1>8, <1>9 DEF Single, Multiple

\* A semaphore is marked as taken only while the task it names relies on it,
\* and always then, but for those a failing pass of Sem_LockMultiple released
\* under their task, however the calls of sem.c are nested.
THEOREM Ownership == ASSUME IdsFit PROVE Spec => [](TypeOK /\ OwnerExact)
<1>1. Init => TypeOK /\ OwnerExact
  BY InitIInv
<1>2. TypeOK /\ OwnerExact /\ [Next]_vars => (TypeOK /\ OwnerExact)'
  <2> SUFFICES ASSUME TypeOK, OwnerExact, [Next]_vars
               PROVE  TypeOK' /\ OwnerExact'
    OBVIOUS
  <2>1. CASE Next
    BY <2>1, StepIInv DEF Next
  <2>2. CASE UNCHANGED vars
    BY <2>2 DEF vars, TypeOK, OwnerExact
  <2> QED
    BY <2>1, <2>2
<1> QED
  BY <1>1, <1>2, PTL DEF Spec

\* Two tasks never rely on the same semaphore (Sem_Lock, Sem_LockMultiple),
\* but for those a failing pass released under their task.
THEOREM Exclusion == ASSUME IdsFit PROVE Spec => []MutualExclusion
<1>1. TypeOK /\ OwnerExact => MutualExclusion
  BY DEF TypeOK, OwnerExact, MutualExclusion
<1> QED
  BY <1>1, Ownership, PTL

\* When nobody relies on a semaphore, every task in Sem_Lock or
\* Sem_LockMultiple finds all it wants free.
THEOREM DeadlockFreedom == ASSUME IdsFit PROVE Spec => []NoDeadlock
<1>1. TypeOK /\ OwnerExact => NoDeadlock
  <2> SUFFICES ASSUME TypeOK, OwnerExact, NEW t \in Tasks, mode[t] # "idle",
                      \A u \in Tasks : held[u] = {}, NEW i \in DOMAIN want[t]
               PROVE  Lockable(t, want[t][i])
    BY DEF NoDeadlock
  <2>1. want[t][i] \in Sems
    BY DEF TypeOK
  <2> QED
    BY <2>1 DEF OwnerExact, Lockable
<1> QED
  BY <1>1, Ownership, PTL
-----------------------------------------------------------------------------
(* Events.                                                                 *)

\* One task notifies the event.
OneNotifier == \A n, m \in Notifiers : n = m

\* Listener l has something to do before Ev_Notify may return.
Busy(l) == got[l] # Nobody \/ \E n \in Notifiers : l \in missing[n]

\* The entry of a busy listener shows it; what is captured is not missing.
Unacked == \A l \in Listeners :
             /\ Busy(l) => slot[l] # 0 /\ evId[slot[l]] # lastId
             /\ got[l] # Nobody => \A n \in Notifiers : l \notin missing[n]

\* Outside of Ev_Notify every entry in use is acknowledged.
Quiet == Notifiers \ notifying # {} => AllAcked(lastId)

\* Without an argument there was no event yet.
Silent == arg = Nobody => \A i \in EvSlots : evId[i] = lastId

EvOwned == EvTypeOK /\ EntryOwned /\ Silent
EvIInv == EvOwned /\ Unacked /\ Quiet
-----------------------------------------------------------------------------
\* The event id changes with every event, also when it wraps.
LEMMA BumpType ==
  ASSUME NEW e \in 0 .. EvIdMod - 1
  PROVE  Bump(e) \in 0 .. EvIdMod - 1 /\ Bump(e) # e
<1>1. EvIdMod \in Nat \ {0, 1} /\ e \in Nat /\ e + 1 \in 1 .. EvIdMod
  BY EvAssumption
<1>2. CASE e + 1 = EvIdMod
  <2>1. (e + 1) % EvIdMod = 0
    BY <1>1, <1>2
  <2> QED
    BY <1>1, <1>2, <2>1 DEF Bump
<1>3. CASE e + 1 # EvIdMod
  <2>1. (e + 1) % EvIdMod = e + 1
    BY <1>1, <1>3
  <2> QED
    BY <1>1, <1>3, <2>1 DEF Bump
<1> QED
  BY <1>2, <1>3

LEMMA InitOwned == EvInit => EvOwned
BY EvAssumption DEF EvInit, EvOwned, EvTypeOK, EntryOwned, Silent, Listening, EvSlots

\* Every step keeps the types and the ownership of the entries.
LEMMA StepOwned ==
  ASSUME EvOwned, [EvNext]_evVars
  PROVE  EvOwned'
<1> USE EvAssumption DEF EvOwned, EvSlots
<1>1. ASSUME NEW n \in Notifiers, Notify(n)
      PROVE  EvOwned'
  BY <1>1, BumpType DEF Notify, EvTypeOK, EntryOwned, Silent, Listening
<1>2. ASSUME NEW n \in Notifiers, NotifyReturn(n)
      PROVE  EvOwned'
  BY <1>2 DEF NotifyReturn, EvTypeOK, EntryOwned, Silent, Listening
<1>3. ASSUME NEW l \in Listeners, Listen(l)
      PROVE  EvOwned'
  BY <1>3 DEF Listen, EvTypeOK, EntryOwned, Silent, Listening
<1>4. ASSUME NEW l \in Listeners, Capture(l)
      PROVE  EvOwned'
  BY <1>4 DEF Capture, EvTypeOK, EntryOwned, Silent, Listening
<1>5. ASSUME NEW l \in Listeners, Ack(l)
      PROVE  EvOwned'
  BY <1>5 DEF Ack, EvTypeOK, EntryOwned, Silent, Listening
<1>6. ASSUME NEW l \in Listeners, ListenEnd(l)
      PROVE  EvOwned'
  BY <1>6 DEF ListenEnd, EvTypeOK, EntryOwned, Silent, Listening
<1>7. CASE UNCHANGED evVars
  BY <1>7 DEF evVars, EvTypeOK, EntryOwned, Silent, Listening
<1> QED
  BY <1>1, <1>2, <1>3, <1>4, <1>5, <1>6, <1>7 DEF EvNext

\* An entry of ev->listeners belongs to the listener that got it and to no
\* other until Ev_ListenEnd.
THEOREM Entries == EvSpec => [](EvTypeOK /\ EntryOwned)
<1>1. EvOwned /\ [EvNext]_evVars => EvOwned'
  BY StepOwned
<1>2. EvOwned => EvTypeOK /\ EntryOwned
  BY DEF EvOwned
<1> QED
  BY InitOwned, <1>1, <1>2, PTL DEF EvSpec
-----------------------------------------------------------------------------
LEMMA InitUnacked == EvInit => Unacked /\ Quiet
BY EvAssumption DEF EvInit, Unacked, Quiet, Busy, AllAcked, EvSlots

\* Between two calls of Ev_Notify nobody is busy.
LEMMA QuietIdle ==
  ASSUME EvIInv, Notifiers \ notifying # {}
  PROVE  \A l \in Listeners : ~Busy(l)
BY EvAssumption DEF EvIInv, EvOwned, EvTypeOK, EntryOwned, Unacked, Quiet, AllAcked, Listening, EvSlots

\* Every step keeps Unacked and Quiet.
LEMMA StepUnacked ==
  ASSUME OneNotifier, EvIInv, [EvNext]_evVars
  PROVE  Unacked' /\ Quiet'
<1> USE EvAssumption DEF EvIInv, EvOwned, EvSlots, Busy
<1>1. ASSUME NEW n \in Notifiers, Notify(n)
      PROVE  Unacked' /\ Quiet'
  <2>1. \A l \in Listeners : ~Busy(l)
    BY <1>1, QuietIdle DEF Notify
  <2>2. AllAcked(lastId)
    BY <1>1 DEF Notify, Quiet
  <2>3. Unacked'
    <3> SUFFICES ASSUME NEW l \in Listeners, Busy(l)'
                 PROVE  /\ slot'[l] # 0 /\ evId'[slot'[l]] # lastId'
                        /\ got'[l] = Nobody
      BY DEF Unacked
    <3>1. got'[l] = Nobody /\ l \in Listening
      BY <1>1, <2>1 DEF Notify, EvTypeOK
    <3>2. slot[l] \in EvSlots /\ evId[slot[l]] = lastId
      BY <2>2, <3>1 DEF EvTypeOK, EntryOwned, AllAcked, Listening
    <3>3. lastId' # lastId
      BY <1>1, BumpType DEF Notify, EvTypeOK
    <3> QED
      BY <1>1, <3>1, <3>2, <3>3 DEF Notify
  <2>4. Quiet'
    BY <1>1 DEF Notify, EvTypeOK, Quiet, AllAcked, OneNotifier
  <2> QED
    BY <2>3, <2>4
<1>2. ASSUME NEW n \in Notifiers, NotifyReturn(n)
      PROVE  Unacked' /\ Quiet'
  BY <1>2 DEF NotifyReturn, EvTypeOK, Unacked, Quiet, AllAcked
<1>3. ASSUME NEW l \in Listeners, Listen(l)
      PROVE  Unacked' /\ Quiet'
  <2>1. Unacked'
    BY <1>3 DEF Listen, EvTypeOK, EntryOwned, Listening, Unacked
  <2>2. Quiet'
    BY <1>3 DEF Listen, EvTypeOK, Quiet, AllAcked
  <2> QED
    BY <2>1, <2>2
<1>4. ASSUME NEW l \in Listeners, Capture(l)
      PROVE  Unacked' /\ Quiet'
  <2>1. arg \in Notifiers
    BY <1>4 DEF Capture, EvTypeOK, Silent
  <2>2. Unacked'
    BY <1>4, <2>1 DEF Capture, EvTypeOK, Unacked, OneNotifier
  <2>3. Quiet'
    BY <1>4 DEF Capture, Quiet, AllAcked
  <2> QED
    BY <2>2, <2>3
<1>5. ASSUME NEW l \in Listeners, Ack(l)
      PROVE  Unacked' /\ Quiet'
  <2>1. Unacked'
    BY <1>5 DEF Ack, EvTypeOK, EntryOwned, Listening, Unacked
  <2>2. Quiet'
    BY <1>5 DEF Ack, EvTypeOK, Quiet, AllAcked
  <2> QED
    BY <2>1, <2>2
<1>6. ASSUME NEW l \in Listeners, ListenEnd(l)
      PROVE  Unacked' /\ Quiet'
  BY <1>6 DEF ListenEnd, EvTypeOK, Unacked, Quiet, AllAcked
<1>7. CASE UNCHANGED evVars
  BY <1>7 DEF evVars, Unacked, Quiet, AllAcked
<1> QED
  BY <1>1, <1>2, <1>3, <1>4, <1>5, <1>6, <1>7 DEF EvNext

\* When Ev_Notify has returned, everybody who was registered when the event
\* was raised has captured and acknowledged it or left, and nobody works on
\* the argument any more.
THEOREM Delivery == ASSUME OneNotifier PROVE EvSpec => []Delivered
<1>1. EvInit => EvIInv
  BY InitOwned, InitUnacked DEF EvIInv
<1>2. EvIInv /\ [EvNext]_evVars => EvIInv'
  BY StepOwned, StepUnacked DEF EvIInv
<1>3. EvIInv => Delivered
  <2> SUFFICES ASSUME EvIInv, NEW n \in Notifiers \ notifying
               PROVE  missing[n] = {} /\ \A l \in Listeners : got[l] # n
    BY DEF Delivered
  <2>1. \A l \in Listeners : ~Busy(l)
    BY QuietIdle
  <2> QED
    BY <2>1, EvAssumption DEF Busy, EvIInv, EvOwned, EvTypeOK
<1> QED
  BY <1>1, <1>2, <1>3, PTL DEF EvSpec
-----------------------------------------------------------------------------
(* The scheduler.                                                          *)

\* r numbers the tasks of the ring in the order in which they will run.
Ranked(r) ==
  /\ r[curr] = 0
  /\ \A c \in InRing : c # curr => r[c] > 0
  /\ \A c \in InRing : next[c] # curr => r[next[c]] = r[c] + 1
  /\ \A c \in InRing : next[c] = curr => \A d \in InRing : r[d] <= r[c]
  /\ \A c, d \in InRing : r[c] = r[d] => c = d
  /\ \A c \in InRing : \A d \in owed[c] : d \in InRing /\ d # curr /\ r[d] < r[c]

Round == \E r \in [Blocks -> Nat] : Ranked(r)

\* The ring of tasks; the first task is always in it.
Ring == RingLinked /\ curr \in InRing /\ Main \in InRing /\ Round

\* Only one task is in Yield_Run, and the slot it found is not in use.
SlotHeld == /\ \A t, u \in InRun : t = u
            /\ \A t \in InRing : pc[t] = "start" => ptr[t] \in Coro \ InRing

\* Ids are handed out once.
Fresh == \A t \in InRing : id[t] < nextId

\* A task that ended is polled only by tasks that run before it, or now.
Leaving == \A x \in InRing : pc[x] = "exit" =>
             /\ x # Main /\ handler_done[x]
             /\ \A t \in InRing : pc[t] = "wait" /\ ptr[t] = x => t \in owed[x] \cup {curr}

YieldIInv == YieldTypeOK /\ Ring /\ SlotHeld /\ Fresh /\ Leaving /\ IdSafe
-----------------------------------------------------------------------------
\* The scan of the slots picks one of those it looks for.
LEMMA FirstIn ==
  ASSUME NEW S, S \subseteq Nat, S # {}
  PROVE  First(S) \in S
BY Least DEF First

\* The task in front of the running one closes the ring.
LEMMA LastTask ==
  ASSUME Ring
  PROVE  /\ prev[curr] \in InRing /\ next[prev[curr]] = curr
         /\ \A c \in InRing : next[c] = curr => c = prev[curr]
BY DEF Ring, RingLinked

\* The ring is one cycle: a task that is its own successor is alone.
LEMMA Alone ==
  ASSUME YieldTypeOK, Ring, next[curr] = curr
  PROVE  InRing = {curr}
<1>1. PICK r \in [Blocks -> Nat] : Ranked(r)
  BY DEF Ring, Round
<1>2. ASSUME NEW d \in InRing
      PROVE  d = curr
  <2>1. r[d] <= r[curr] /\ r[d] \in Nat /\ r[curr] = 0
    BY <1>1 DEF Ring, Ranked, InRing
  <2> QED
    BY <1>1, <2>1 DEF Ring, Ranked
<1> QED
  BY <1>2 DEF Ring
-----------------------------------------------------------------------------
(* What the three operations on the ring do to it.                         *)

\* Passing control on turns the ring by one place.
LEMMA SwitchRing ==
  ASSUME YieldTypeOK, Ring, Switch
  PROVE  Ring' /\ InRing' = InRing
<1> DEFINE n == next[curr]
<1>1. n \in InRing /\ curr \in InRing /\ curr' = n /\ next' = next /\ prev' = prev
  BY DEF Ring, RingLinked, Switch
<1>2. InRing' = InRing
  BY <1>1 DEF Switch, InRing, YieldTypeOK
<1>3. RingLinked' /\ curr' \in InRing' /\ Main \in InRing'
  BY <1>1, <1>2 DEF Ring, RingLinked
<1>4. Round'
  <2>1. PICK r \in [Blocks -> Nat] : Ranked(r)
    BY DEF Ring, Round
  <2> DEFINE last == prev[curr]
  <2>2. PICK q \in [Blocks -> Nat] :
          \A c \in Blocks : q[c] = IF c = curr THEN r[last]
                                   ELSE IF r[c] > 0 THEN r[c] - 1 ELSE 0
    <3> DEFINE f == [c \in Blocks |-> IF c = curr THEN r[last]
                                      ELSE IF r[c] > 0 THEN r[c] - 1 ELSE 0]
    <3>1. f \in [Blocks -> Nat]
      BY LastTask, <2>1 DEF InRing
    <3> QED
      BY <3>1
  <2>3. /\ last \in InRing /\ next[last] = curr
        /\ \A c \in InRing : next[c] = curr => c = last
    BY LastTask
  <2>4. InRing \subseteq Blocks
    BY DEF InRing
  <2>5. \A d \in InRing : r[d] \in Nat /\ r[d] <= r[last]
    BY <2>1, <2>3, <2>4 DEF Ranked
  <2>6. \A c \in InRing : c # curr => r[c] > 0 /\ q[c] = r[c] - 1
    BY <2>1, <2>2, <2>4 DEF Ranked
  <2>7. q[curr] = r[last]
    BY <2>2, <2>4, <1>1
  <2>8. n # curr => r[n] = 1
    BY <1>1, <2>1 DEF Ranked
  <2>9. Ranked(q)'
    <3>1. q[n] = 0
      <4>1. CASE n = curr
        BY <4>1, <2>1, <2>7, <2>3, <1>1 DEF Ranked
      <4>2. CASE n # curr
        BY <4>2, <2>6, <2>8, <1>1
      <4> QED
        BY <4>1, <4>2
    <3>2. \A c \in InRing : c # n => q[c] > 0
      <4> SUFFICES ASSUME NEW c \in InRing, c # n
                   PROVE  q[c] > 0
        OBVIOUS
      <4>1. CASE c = curr
        <5>1. last # curr
          BY <4>1, <2>3
        <5> QED
          BY <4>1, <5>1, <2>1, <2>3, <2>7 DEF Ranked
      <4>2. CASE c # curr
        <5>1. n # curr => r[c] # 1
          BY <1>1, <2>1, <2>8 DEF Ranked
        <5>2. n # curr
          BY <4>2, <1>1, Alone
        <5> QED
          BY <4>2, <5>1, <5>2, <2>5, <2>6
      <4> QED
        BY <4>1, <4>2
    <3>3. \A c \in InRing : next[c] # n => q[next[c]] = q[c] + 1
      <4> SUFFICES ASSUME NEW c \in InRing, next[c] # n
                   PROVE  q[next[c]] = q[c] + 1
        OBVIOUS
      <4>1. c # curr /\ next[c] \in InRing
        BY DEF Ring, RingLinked
      <4>2. CASE next[c] = curr
        BY <4>1, <4>2, <2>3, <2>5, <2>6, <2>7
      <4>3. CASE next[c] # curr
        BY <4>1, <4>3, <2>1, <2>5, <2>6 DEF Ranked
      <4> QED
        BY <4>2, <4>3
    <3>4. \A c \in InRing : next[c] = n => \A d \in InRing : q[d] <= q[c]
      <4> SUFFICES ASSUME NEW c \in InRing, next[c] = n, NEW d \in InRing
                   PROVE  q[d] <= q[c]
        OBVIOUS
      <4>1. c = curr
        BY <1>1 DEF Ring, RingLinked
      <4> QED
        BY <4>1, <2>3, <2>5, <2>6, <2>7
    <3>5. \A c, d \in InRing : q[c] = q[d] => c = d
      <4>1. \A c \in InRing : c # curr => q[c] < q[curr] /\ q[c] \in Nat
        BY <2>5, <2>6, <2>7, <2>3
      <4>2. q[curr] \in Nat
        BY <2>7, <2>5, <2>3
      <4>3. \A c, d \in InRing : c # curr /\ d # curr /\ q[c] = q[d] => r[c] = r[d]
        BY <2>5, <2>6
      <4> QED
        BY <4>1, <4>2, <4>3, <2>1 DEF Ranked
    <3>6. \A c \in InRing : \A d \in owed'[c] : d \in InRing /\ d # n /\ q[d] < q[c]
      <4> SUFFICES ASSUME NEW c \in InRing, NEW d \in owed'[c]
                   PROVE  d \in InRing /\ d # n /\ q[d] < q[c]
        OBVIOUS
      <4>1. CASE c = curr
        <5>1. d \in InRing \ {curr} /\ d # n
          BY <4>1, <2>4 DEF Switch
        <5> QED
          BY <4>1, <5>1, <2>3, <2>5, <2>6, <2>7
      <4>2. CASE c # curr
        <5>1. d \in owed[c] /\ d # n
          BY <4>2, <2>4 DEF Switch
        <5>2. d \in InRing /\ d # curr /\ r[d] < r[c]
          BY <5>1, <2>1 DEF Ranked
        <5> QED
          BY <4>2, <5>1, <5>2, <2>5, <2>6
      <4> QED
        BY <4>1, <4>2
    <3> QED
      BY <1>1, <1>2, <3>1, <3>2, <3>3, <3>4, <3>5, <3>6 DEF Ranked
  <2> QED
    BY <2>2, <2>9 DEF Round
<1> QED
  BY <1>2, <1>3, <1>4 DEF Ring
\* The running task is unlinked; the others keep their order.
LEMMA RetireRing ==
  ASSUME YieldTypeOK, Ring, curr # Main, Retire
  PROVE  Ring' /\ InRing' = InRing \ {curr}
<1> DEFINE n == next[curr]
           last == prev[curr]
<1>1. /\ n \in InRing /\ n # curr /\ curr \in InRing /\ curr' = n
      /\ last \in InRing /\ last # curr
      /\ next[last] = curr /\ prev[n] = curr
  <2>1. InRing # {curr}
    BY DEF Ring
  <2> QED
    BY <2>1, Alone DEF Ring, RingLinked, Retire
<1>2. InRing \subseteq Blocks
  BY DEF InRing
<1>3. /\ \A c \in InRing : next'[c] = IF c = last THEN n ELSE next[c]
      /\ \A c \in InRing : prev'[c] = IF c = n THEN last ELSE prev[c]
  BY <1>1, <1>2 DEF Retire, YieldTypeOK
<1>4. InRing' = InRing \ {curr}
  BY <1>1, <1>2 DEF Retire, InRing, YieldTypeOK
<1>5. RingLinked'
  BY <1>1, <1>3, <1>4 DEF Ring, RingLinked
<1>6. Round'
  <2>1. PICK r \in [Blocks -> Nat] : Ranked(r)
    BY DEF Ring, Round
  <2>2. PICK q \in [Blocks -> Nat] :
          \A c \in Blocks : q[c] = IF r[c] > 0 THEN r[c] - 1 ELSE 0
    <3> DEFINE f == [c \in Blocks |-> IF r[c] > 0 THEN r[c] - 1 ELSE 0]
    <3>1. f \in [Blocks -> Nat]
      BY <2>1
    <3> QED
      BY <3>1
  <2>3. \A c \in InRing : r[c] \in Nat /\ (c # curr => r[c] > 0 /\ q[c] = r[c] - 1)
    BY <2>1, <2>2, <1>2 DEF Ranked
  <2>4. r[n] = 1
    BY <1>1, <2>1 DEF Ranked
  <2>5. \A c \in InRing : r[c] <= r[last]
    BY <1>1, <2>1 DEF Ranked
  <2>6. q[n] = 0
    BY <1>1, <2>3, <2>4
  <2>7. \A c \in InRing' : c # n => q[c] > 0
    <3>1. \A c \in InRing' : c # n => r[c] # 1
      BY <1>1, <1>4, <2>1, <2>4 DEF Ranked
    <3> QED
      BY <1>4, <2>3, <3>1
  <2>8. \A c \in InRing' : next'[c] # n => q[next'[c]] = q[c] + 1
    <3> SUFFICES ASSUME NEW c \in InRing', next'[c] # n
                 PROVE  q[next'[c]] = q[c] + 1
      OBVIOUS
    <3>1. c \in InRing \ {curr} /\ c # last /\ next'[c] = next[c]
      BY <1>3, <1>4
    <3>2. next[c] # curr /\ next[c] \in InRing
      BY <3>1 DEF Ring, RingLinked
    <3> QED
      BY <3>1, <3>2, <2>1, <2>3 DEF Ranked
  <2>9. \A c \in InRing' : next'[c] = n => \A d \in InRing' : q[d] <= q[c]
    <3> SUFFICES ASSUME NEW c \in InRing', next'[c] = n, NEW d \in InRing'
                 PROVE  q[d] <= q[c]
      OBVIOUS
    <3>1. c = last
      BY <1>1, <1>3, <1>4 DEF Ring, RingLinked
    <3> QED
      BY <3>1, <1>1, <1>4, <2>3, <2>5
  <2>10. \A c, d \in InRing' : q[c] = q[d] => c = d
    <3>1. \A c, d \in InRing' : q[c] = q[d] => r[c] = r[d]
      BY <1>4, <2>3
    <3> QED
      BY <3>1, <1>4, <2>1 DEF Ranked
  <2>11. \A c \in InRing' : \A d \in owed'[c] : d \in InRing' /\ d # n /\ q[d] < q[c]
    <3> SUFFICES ASSUME NEW c \in InRing', NEW d \in owed'[c]
                 PROVE  d \in InRing' /\ d # n /\ q[d] < q[c]
      OBVIOUS
    <3>1. c \in InRing \ {curr} /\ d \in owed[c] /\ d # curr /\ d # n
      BY <1>2, <1>4 DEF Retire
    <3>2. d \in InRing /\ r[d] < r[c]
      BY <3>1, <2>1 DEF Ranked
    <3> QED
      BY <3>1, <3>2, <1>4, <2>3
  <2>12. Ranked(q)'
    BY <1>1, <2>6, <2>7, <2>8, <2>9, <2>10, <2>11 DEF Ranked
  <2> QED
    BY <2>12 DEF Round
<1> QED
  BY <1>1, <1>4, <1>5, <1>6 DEF Ring

\* A block that is not in the ring is linked in as the last one to run.
LEMMA LinkRing ==
  ASSUME YieldTypeOK, Ring, NEW b \in Blocks \ InRing, Link(b), curr' = curr,
         state' = [state EXCEPT ![b] = "pending"], owed' = [owed EXCEPT ![b] = {}]
  PROVE  Ring' /\ InRing' = InRing \cup {b}
<1> DEFINE last == prev[curr]
<1>1. curr \in InRing /\ last \in InRing /\ next[last] = curr /\ b # curr /\ b # last
  BY LastTask DEF Ring
<1>2. InRing \subseteq Blocks
  BY DEF InRing
<1>3. /\ \A c \in InRing : next'[c] = IF c = last THEN b ELSE next[c]
      /\ \A c \in InRing : prev'[c] = IF c = curr THEN b ELSE prev[c]
      /\ next'[b] = curr /\ prev'[b] = last
  BY <1>1, <1>2 DEF Link, YieldTypeOK
<1>4. InRing' = InRing \cup {b}
  BY <1>1, <1>2 DEF InRing, YieldTypeOK
<1>5. RingLinked'
  BY <1>1, <1>3, <1>4 DEF Ring, RingLinked
<1>6. Round'
  <2>1. PICK r \in [Blocks -> Nat] : Ranked(r)
    BY DEF Ring, Round
  <2>2. PICK q \in [Blocks -> Nat] :
          \A c \in Blocks : q[c] = IF c = b THEN r[last] + 1 ELSE r[c]
    <3> DEFINE f == [c \in Blocks |-> IF c = b THEN r[last] + 1 ELSE r[c]]
    <3>1. f \in [Blocks -> Nat]
      BY <1>1, <1>2, <2>1
    <3> QED
      BY <3>1
  <2>3. \A c \in InRing : r[c] \in Nat /\ q[c] = r[c] /\ r[c] <= r[last]
    BY <1>1, <1>2, <2>1, <2>2 DEF Ranked
  <2>4. q[b] = r[last] + 1 /\ r[last] \in Nat
    BY <1>1, <1>2, <2>2
  <2>5. q[curr] = 0 /\ \A c \in InRing' : c # curr => q[c] > 0
    BY <1>1, <1>4, <2>1, <2>3, <2>4 DEF Ranked
  <2>6. \A c \in InRing' : next'[c] # curr => q[next'[c]] = q[c] + 1
    <3> SUFFICES ASSUME NEW c \in InRing, next'[c] # curr
                 PROVE  q[next'[c]] = q[c] + 1
      BY <1>3, <1>4
    <3>1. CASE c = last
      BY <3>1, <1>3, <2>3, <2>4
    <3>2. CASE c # last
      <4>1. next'[c] = next[c] /\ next[c] \in InRing /\ next[c] # curr
        BY <3>2, <1>3 DEF Ring, RingLinked
      <4> QED
        BY <4>1, <2>1, <2>3 DEF Ranked
    <3> QED
      BY <3>1, <3>2
  <2>7. \A c \in InRing' : next'[c] = curr => \A d \in InRing' : q[d] <= q[c]
    <3> SUFFICES ASSUME NEW c \in InRing', next'[c] = curr, NEW d \in InRing'
                 PROVE  q[d] <= q[c]
      OBVIOUS
    <3>1. c = b
      BY <1>1, <1>3, <1>4, LastTask
    <3> QED
      BY <3>1, <1>4, <2>3, <2>4
  <2>8. \A c, d \in InRing' : q[c] = q[d] => c = d
    <3>1. \A c, d \in InRing : q[c] = q[d] => c = d
      BY <2>1, <2>3 DEF Ranked
    <3>2. \A c \in InRing : q[c] # q[b]
      BY <2>3, <2>4
    <3> QED
      BY <1>4, <3>1, <3>2
  <2>9. \A c \in InRing' : \A d \in owed'[c] : d \in InRing' /\ d # curr /\ q[d] < q[c]
    <3> SUFFICES ASSUME NEW c \in InRing', NEW d \in owed'[c]
                 PROVE  d \in InRing /\ d # curr /\ q[d] < q[c]
      BY <1>4
    <3>1. c \in InRing /\ d \in owed[c]
      BY <1>2, <1>4 DEF YieldTypeOK
    <3>2. d \in InRing /\ d # curr /\ r[d] < r[c]
      BY <3>1, <2>1 DEF Ranked
    <3> QED
      BY <3>1, <3>2, <2>3
  <2>10. Ranked(q)'
    BY <2>5, <2>6, <2>7, <2>8, <2>9 DEF Ranked
  <2> QED
    BY <2>10 DEF Round
<1> QED
  BY <1>1, <1>4, <1>5, <1>6 DEF Ring
-----------------------------------------------------------------------------
RingType == /\ curr \in Blocks /\ state \in [Blocks -> States]
            /\ next \in [Blocks -> Blocks \cup {Nil}] /\ prev \in [Blocks -> Blocks \cup {Nil}]
            /\ owed \in [Blocks -> SUBSET Blocks]

\* The operations on the ring keep its types.
LEMMA RingTypes ==
  ASSUME YieldTypeOK, Ring
  PROVE  /\ Switch \/ Retire => RingType'
         /\ \A b \in Blocks : InitializeTask(b) => RingType'
<1>1. next[curr] \in Blocks /\ prev[curr] \in Blocks /\ InRing \subseteq Blocks
  BY DEF Ring, RingLinked, InRing
<1>2. Switch => RingType'
  BY <1>1 DEF Switch, RingType, YieldTypeOK, States
<1>3. Retire => RingType'
  BY <1>1 DEF Retire, RingType, YieldTypeOK, States
<1>4. \A b \in Blocks : InitializeTask(b) => RingType'
  BY <1>1 DEF InitializeTask, Link, RingType, YieldTypeOK, States
<1> QED
  BY <1>2, <1>3, <1>4

\* What is left to show of a step that only passes control on and moves the
\* running task to another control point.
LEMMA SwitchStep ==
  ASSUME YieldIInv, Switch, UNCHANGED <<id, nextId, cancelled, shielded, asked>>,
         NEW c \in Points, NEW p \in Blocks \cup {Nil}, NEW i \in Nat,
         Goto(c, p, i) \/ (UNCHANGED local /\ c = pc[curr] /\ p = ptr[curr] /\ i = awaited[curr]),
         handler_done' = IF c = "exit" THEN [handler_done EXCEPT ![curr] = TRUE] ELSE handler_done,
         c \in {"search", "start"} => InRun \subseteq {curr},
         c = "start" => p \in Coro \ InRing,
         c = "wait" => p \in InRing /\ i = id[p] /\ ~handler_done[p],
         c = "exit" => curr # Main
  PROVE  YieldIInv'
<1> USE DEF YieldIInv
<1>1. Ring' /\ InRing' = InRing
  BY SwitchRing
<1>2. /\ curr \in Blocks /\ curr \in InRing /\ InRing \subseteq Blocks
      /\ pc' = [pc EXCEPT ![curr] = c] /\ ptr' = [ptr EXCEPT ![curr] = p]
      /\ awaited' = [awaited EXCEPT ![curr] = i]
  BY DEF Goto, local, YieldTypeOK, InRing, Ring
<1>3. YieldTypeOK'
  BY <1>2, RingTypes DEF RingType, YieldTypeOK
<1>4. SlotHeld'
  BY <1>1, <1>2 DEF SlotHeld, InRun, YieldTypeOK
<1>5. Fresh' /\ IdSafe'
  BY <1>1, <1>2 DEF Fresh, IdSafe, YieldTypeOK
<1>6. Leaving'
  <2> SUFFICES ASSUME NEW x \in InRing, pc'[x] = "exit"
               PROVE  /\ x # Main /\ handler_done'[x]
                      /\ \A t \in InRing : pc'[t] = "wait" /\ ptr'[t] = x => t \in owed'[x] \cup {curr'}
    BY <1>1 DEF Leaving
  <2>1. x # Main /\ handler_done'[x]
    BY <1>2 DEF Leaving, YieldTypeOK
  <2>2. ASSUME NEW t \in InRing, pc'[t] = "wait", ptr'[t] = x
        PROVE  t \in owed'[x] \cup {curr'}
    <3>1. CASE x = curr
      BY <3>1, <2>2, <1>2 DEF Switch, YieldTypeOK
    <3>2. CASE x # curr /\ t = curr
      <4>1. pc[x] = "exit" /\ c = "wait" /\ p = x /\ ~handler_done[x]
        BY <3>2, <2>2, <1>2 DEF YieldTypeOK
      <4> QED
        BY <4>1 DEF Leaving
    <3>3. CASE x # curr /\ t # curr
      <4>1. pc[x] = "exit" /\ pc[t] = "wait" /\ ptr[t] = x
        BY <3>3, <2>2, <1>2 DEF YieldTypeOK
      <4>2. t \in owed[x]
        BY <3>3, <4>1 DEF Leaving
      <4> QED
        BY <3>3, <4>2, <1>2 DEF Switch
    <3> QED
      BY <3>1, <3>2, <3>3
  <2> QED
    BY <2>1, <2>2
<1> QED
  BY <1>1, <1>3, <1>4, <1>5, <1>6
\* A new task in block b; the running task goes on in its own handler.
LEMMA StartStep ==
  ASSUME YieldIInv, NEW b \in Blocks \ InRing, InitializeTask(b),
         \A t \in Blocks : pc'[t] = IF t = b \/ (t = curr /\ pc[t] = "start") THEN "run" ELSE pc[t],
         \A t \in InRing \ {curr} : ptr'[t] = ptr[t] /\ awaited'[t] = awaited[t],
         \A u \in InRing \ {curr} : pc[u] = "start" => ptr[u] # b,
         pc \in [Blocks -> Points] => pc' \in [Blocks -> Points],
         ptr' \in [Blocks -> Blocks \cup {Nil}], awaited' \in [Blocks -> Nat],
         pc[curr] \in {"run", "start"}
  PROVE  YieldIInv'
<1> USE DEF YieldIInv
<1>1. Ring' /\ InRing' = InRing \cup {b}
  BY LinkRing DEF InitializeTask
<1>2. curr \in InRing /\ curr' = curr /\ InRing \subseteq Blocks /\ b # curr
  BY DEF Ring, InRing, InitializeTask
<1>3. YieldTypeOK'
  <2>1. RingType'
    BY RingTypes
  <2>2. id' \in [Blocks -> Nat] /\ nextId' \in Nat /\ asked' \subseteq Nat
    BY DEF YieldTypeOK, InitializeTask, NewId
  <2>3. handler_done' \in [Blocks -> BOOLEAN] /\ cancelled' \in [Blocks -> BOOLEAN]
    BY DEF YieldTypeOK, InitializeTask, ClearFlags
  <2>4. shielded' \in [Blocks -> BOOLEAN]
    <3>1. shielded' = shielded \/ \E e \in BOOLEAN : shielded' = [shielded EXCEPT ![b] = e]
      BY DEF InitializeTask
    <3> QED
      BY <3>1 DEF YieldTypeOK
  <2> QED
    BY <2>1, <2>2, <2>3, <2>4 DEF RingType, YieldTypeOK
<1>4. SlotHeld'
  BY <1>1, <1>2 DEF SlotHeld, InRun
<1>5. Fresh'
  BY <1>1, <1>2 DEF Fresh, InitializeTask, NewId, YieldTypeOK
<1>6. IdSafe'
  <2>1. \A t \in InRing : id'[t] = id[t] /\ id[t] \in Nat /\ cancelled'[t] = cancelled[t]
    BY <1>2 DEF InitializeTask, NewId, ClearFlags, YieldTypeOK
  <2>2. id'[b] = nextId /\ nextId \in Nat /\ ~cancelled'[b] /\ asked' = asked
    BY DEF InitializeTask, NewId, ClearFlags, YieldTypeOK
  <2>3. \A t, u \in InRing' : id'[t] = id'[u] => t = u
    <3>1. \A t, u \in InRing : id'[t] = id'[u] => t = u
      BY <2>1 DEF IdSafe
    <3>2. \A t \in InRing : id'[t] # id'[b]
      BY <2>1, <2>2 DEF Fresh
    <3> QED
      BY <1>1, <3>1, <3>2
  <2>4. \A t \in InRing' : pc'[t] = "wait" => ptr'[t] \in InRing' /\ id'[ptr'[t]] = awaited'[t]
    BY <1>1, <1>2, <2>1 DEF IdSafe
  <2>5. \A t \in InRing' : cancelled'[t] => id'[t] \in asked'
    BY <1>1, <2>1, <2>2 DEF IdSafe
  <2> QED
    BY <2>3, <2>4, <2>5 DEF IdSafe
<1>7. Leaving'
  <2>1. \A x \in InRing : owed'[x] = owed[x] /\ handler_done'[x] = handler_done[x]
    BY <1>2 DEF InitializeTask, ClearFlags, YieldTypeOK
  <2> QED
    BY <1>1, <1>2, <2>1 DEF Leaving
<1> QED
  BY <1>1, <1>3, <1>4, <1>5, <1>6, <1>7

\* The task that ended leaves the ring: nobody polls its block any more.
LEMMA ExitStep ==
  ASSUME YieldIInv, Exit
  PROVE  YieldIInv'
<1> USE DEF YieldIInv
<1>1. curr \in InRing /\ InRing \subseteq Blocks /\ pc[curr] = "exit"
  BY DEF Ring, InRing, Exit
<1>2. curr # Main
  BY <1>1 DEF Leaving
<1>3. Ring' /\ InRing' = InRing \ {curr}
  BY <1>2, RetireRing DEF Exit
<1>4. owed[curr] = {}
  <2>1. PICK r \in [Blocks -> Nat] : Ranked(r)
    BY DEF Ring, Round
  <2>2. \A d \in owed[curr] : d \in Blocks /\ r[d] < r[curr]
    BY <1>1, <2>1 DEF Ranked
  <2>3. r[curr] = 0 /\ \A d \in Blocks : r[d] \in Nat
    BY <2>1 DEF Ranked
  <2> QED
    BY <2>2, <2>3
<1>5. \A t \in InRing : pc[t] = "wait" => ptr[t] # curr
  BY <1>1, <1>4 DEF Leaving
<1>6. YieldTypeOK'
  BY RingTypes DEF RingType, YieldTypeOK, Exit, Goto, Nil, Points, flags
<1>7. \A t \in InRing' : /\ pc'[t] = pc[t] /\ ptr'[t] = ptr[t] /\ awaited'[t] = awaited[t]
                         /\ id'[t] = id[t] /\ cancelled'[t] = cancelled[t]
                         /\ handler_done'[t] = handler_done[t]
  BY <1>1, <1>3 DEF Exit, Goto, flags, YieldTypeOK
<1>8. SlotHeld' /\ Fresh' /\ IdSafe'
  BY <1>1, <1>3, <1>5, <1>7 DEF SlotHeld, Fresh, IdSafe, InRun, Exit, flags, YieldTypeOK
<1>9. Leaving'
  <2>1. \A x \in InRing' : owed'[x] = owed[x] \ {curr, next[curr]} /\ curr' = next[curr]
    BY <1>1, <1>3 DEF Exit, Retire
  <2> QED
    BY <1>3, <1>7, <2>1 DEF Leaving
<1> QED
  BY <1>3, <1>6, <1>8, <1>9

\* The running task returns from a call to its handler.
LEMMA ReturnStep ==
  ASSUME YieldIInv, Goto("run", Nil, 0), pc[curr] \in {"start", "wait"},
         UNCHANGED <<ring, id, nextId, flags, owed, asked>>
  PROVE  YieldIInv'
<1> USE DEF YieldIInv, ring, flags
<1>1. curr \in Blocks /\ InRing' = InRing
  BY DEF InRing, YieldTypeOK
<1>2. Ring'
  BY <1>1 DEF Ring, RingLinked, Round, Ranked
<1>3. YieldTypeOK'
  BY DEF YieldTypeOK, Goto, Points, Nil
<1>4. SlotHeld' /\ Fresh' /\ IdSafe'
  BY <1>1 DEF SlotHeld, Fresh, IdSafe, InRun, Goto, YieldTypeOK
<1>5. Leaving'
  BY <1>1 DEF Leaving, Goto, YieldTypeOK
<1> QED
  BY <1>2, <1>3, <1>4, <1>5
-----------------------------------------------------------------------------
LEMMA InitYieldIInv == YieldInit => YieldIInv
<1> SUFFICES ASSUME YieldInit PROVE YieldIInv
  OBVIOUS
<1> USE YieldAssumption DEF YieldInit, Main, Nil, Blocks
<1>1. InRing = {Main} /\ Main \in Blocks
  BY DEF InRing
<1>2. YieldTypeOK
  BY DEF YieldTypeOK, States, Points
<1>3. Ranked([b \in Blocks |-> 0])
  BY <1>1 DEF Ranked
<1>4. Ring
  <2>1. [b \in Blocks |-> 0] \in [Blocks -> Nat]
    OBVIOUS
  <2> QED
    BY <1>1, <1>3, <2>1 DEF Ring, RingLinked, Round
<1>5. SlotHeld /\ Fresh /\ Leaving /\ IdSafe
  BY <1>1 DEF SlotHeld, InRun, Fresh, Leaving, IdSafe
<1> QED
  BY <1>2, <1>4, <1>5 DEF YieldIInv

\* Every step of the running task keeps the invariant.
LEMMA StepYieldIInv ==
  ASSUME Exclusive, YieldIInv, [YieldNext]_yieldVars
  PROVE  YieldIInv'
<1> USE DEF YieldIInv
<1>1. curr \in InRing /\ curr \in Blocks /\ InRing \subseteq Blocks
  BY DEF Ring, InRing
<1>2. Coro \subseteq Blocks /\ Plain \subseteq Blocks /\ Coro \cap Plain = {} /\ Coro \subseteq Nat
      /\ Plain \subseteq Nat
  BY YieldAssumption DEF Coro, Plain, Blocks
<1>3. CASE YieldCall
  <2>1. "run" \in Points /\ ptr[curr] \in Blocks \cup {Nil} /\ awaited[curr] \in Nat
    BY <1>1 DEF Points, YieldTypeOK
  <2> QED
    BY <1>3, <2>1, SwitchStep DEF YieldCall, flags
<1>4. CASE Task
  <2>1. PICK b \in Plain : /\ state[b] = "free" /\ InitializeTask(b)
                           /\ pc' = [pc EXCEPT ![b] = "run"]
    BY <1>4 DEF Task
  <2>2. b \in Blocks \ InRing /\ b \notin Coro
    BY <1>2, <2>1 DEF InRing
  <2>3. \A u \in InRing \ {curr} : pc[u] = "start" => ptr[u] # b
    BY <2>2 DEF SlotHeld
  <2>4. /\ \A t \in Blocks : pc'[t] = IF t = b \/ (t = curr /\ pc[t] = "start") THEN "run" ELSE pc[t]
        /\ pc' \in [Blocks -> Points] /\ ptr' = ptr /\ awaited' = awaited /\ pc[curr] = "run"
    BY <1>4, <2>1 DEF Task, YieldTypeOK, Points
  <2> QED
    BY <2>1, <2>2, <2>3, <2>4, StartStep DEF YieldTypeOK
<1>5. CASE RunSearch
  <2> DEFINE usable == {s \in Coro : state[s] \in {"free", "done"}}
  <2>1. InRun \subseteq {curr}
    BY <1>1, <1>5 DEF RunSearch, SlotHeld, InRun
  <2>2. Switch /\ UNCHANGED <<id, nextId, handler_done, cancelled, shielded, asked>>
    BY <1>5 DEF RunSearch, flags
  <2>3. {"search", "start"} \subseteq Points /\ Nil \in Blocks \cup {Nil} /\ 0 \in Nat
    BY DEF Points
  <2>4. CASE usable = {}
    <3>1. Goto("search", Nil, 0)
      BY <1>5, <2>4 DEF RunSearch
    <3> QED
      BY <2>1, <2>2, <2>3, <3>1, SwitchStep
  <2>5. CASE usable # {}
    <3>1. Goto("start", First(usable), 0)
      BY <1>5, <2>5 DEF RunSearch
    <3>2. First(usable) \in usable
      BY <1>2, <2>5, FirstIn
    <3>3. First(usable) \in Coro \ InRing
      BY <3>2 DEF InRing
    <3> HIDE DEF usable
    <3> QED
      BY <1>2, <2>1, <2>2, <2>3, <3>1, <3>3, SwitchStep
  <2> QED
    BY <2>4, <2>5
<1>6. CASE RunStart
  <2>1. pc[curr] = "start" /\ ptr[curr] \in Coro \ InRing
    BY <1>1, <1>6 DEF RunStart, SlotHeld
  <2>2. CASE /\ InitializeTask(ptr[curr])
             /\ pc' = [pc EXCEPT ![curr] = "run", ![ptr[curr]] = "run"]
             /\ ptr' = [ptr EXCEPT ![curr] = Nil, ![ptr[curr]] = Nil]
             /\ awaited' = [awaited EXCEPT ![ptr[curr]] = 0]
    <3>1. ptr[curr] \in Blocks \ InRing
      BY <1>2, <2>1
    <3>2. \A u \in InRing \ {curr} : pc[u] # "start"
      BY <1>1, <2>1 DEF SlotHeld, InRun
    <3>3. /\ \A t \in Blocks : pc'[t] = IF t = ptr[curr] \/ (t = curr /\ pc[t] = "start")
                                        THEN "run" ELSE pc[t]
          /\ pc' \in [Blocks -> Points] /\ ptr' \in [Blocks -> Blocks \cup {Nil}]
          /\ awaited' \in [Blocks -> Nat]
          /\ \A t \in InRing \ {curr} : ptr'[t] = ptr[t] /\ awaited'[t] = awaited[t]
      BY <1>1, <2>1, <2>2, <3>1 DEF YieldTypeOK, Points
    <3> DEFINE b == ptr[curr]
    <3>4. b \in Blocks \ InRing /\ InitializeTask(b) /\ pc[curr] \in {"run", "start"}
      BY <2>1, <2>2, <3>1
    <3>5. \A u \in InRing \ {curr} : pc[u] = "start" => ptr[u] # b
      BY <3>2
    <3>6. \A t \in Blocks : pc'[t] = IF t = b \/ (t = curr /\ pc[t] = "start") THEN "run" ELSE pc[t]
      BY <3>3
    <3> HIDE DEF b
    <3> QED
      BY <3>3, <3>4, <3>5, <3>6, StartStep
  <2>3. CASE Goto("run", Nil, 0) /\ UNCHANGED <<ring, id, nextId, flags, owed, asked>>
    BY <2>1, <2>3, ReturnStep
  <2> QED
    BY <1>6, <2>2, <2>3 DEF RunStart
<1>7. CASE WaitCall
  <2>1. PICK b \in InRing : ~handler_done[b] /\ Goto("wait", b, id[b])
    BY <1>7 DEF WaitCall
  <2>2. b \in Blocks \cup {Nil} /\ id[b] \in Nat /\ "wait" \in Points
    BY <1>1 DEF YieldTypeOK, Points
  <2> QED
    BY <1>7, <2>1, <2>2, SwitchStep DEF WaitCall, flags
<1>8. CASE WaitPoll
  <2>1. pc[curr] = "wait" /\ UNCHANGED <<id, nextId, flags, asked>>
    BY <1>8 DEF WaitPoll
  <2>2. CASE Goto("run", Nil, 0) /\ UNCHANGED <<ring, owed>>
    BY <2>1, <2>2, ReturnStep
  <2>3. CASE ~handler_done[ptr[curr]] /\ Switch /\ UNCHANGED local
    <3>1. /\ ptr[curr] \in Blocks \cup {Nil} /\ awaited[curr] \in Nat /\ "wait" \in Points
          /\ ptr[curr] \in InRing /\ awaited[curr] = id[ptr[curr]]
      BY <1>1, <2>1 DEF YieldTypeOK, Points, IdSafe
    <3> QED
      BY <2>1, <2>3, <3>1, SwitchStep DEF flags
  <2> QED
    BY <1>8, <2>2, <2>3 DEF WaitPoll
<1>9. CASE Finish
  <2>1. "exit" \in Points /\ Nil \in Blocks \cup {Nil} /\ 0 \in Nat
    BY DEF Points
  <2> QED
    BY <1>9, <2>1, SwitchStep DEF Finish
<1>10. CASE Exit
  BY <1>10, ExitStep
<1>11. CASE Cancel \/ Shield
  <2>1. InRing' = InRing /\ UNCHANGED <<curr, next, prev, owed, id, nextId, handler_done, pc, ptr, awaited>>
    BY <1>11 DEF Cancel, Shield, ring, local, InRing
  <2>2. Ring' /\ SlotHeld' /\ Fresh' /\ Leaving'
    BY <2>1 DEF Ring, RingLinked, Round, Ranked, SlotHeld, InRun, Fresh, Leaving
  <2>3. YieldTypeOK'
    <3>1. CASE Cancel
      <4>1. PICK b \in Blocks : /\ cancelled' = [cancelled EXCEPT ![b] = TRUE]
                                /\ asked' = asked \cup {id[b]}
        BY <1>1, <3>1 DEF Cancel
      <4>2. cancelled' \in [Blocks -> BOOLEAN]
        BY <4>1 DEF YieldTypeOK
      <4>3. asked' \subseteq Nat
        BY <4>1 DEF YieldTypeOK
      <4> QED
        BY <3>1, <4>2, <4>3 DEF Cancel, ring, local, YieldTypeOK
    <3>2. CASE Shield
      <4>1. shielded' \in [Blocks -> BOOLEAN]
        BY <1>1, <3>2 DEF Shield, YieldTypeOK
      <4> QED
        BY <3>2, <4>1 DEF Shield, ring, local, YieldTypeOK
    <3> QED
      BY <1>11, <3>1, <3>2
  <2>4. IdSafe'
    BY <1>1, <1>11, <2>1 DEF Cancel, Shield, IdSafe, YieldTypeOK
  <2> QED
    BY <2>2, <2>3, <2>4
<1>12. CASE UNCHANGED yieldVars
  <2>1. /\ curr' = curr /\ state' = state /\ next' = next /\ prev' = prev /\ id' = id /\ nextId' = nextId
        /\ handler_done' = handler_done /\ cancelled' = cancelled /\ shielded' = shielded
        /\ pc' = pc /\ ptr' = ptr /\ awaited' = awaited /\ owed' = owed /\ asked' = asked
    BY <1>12 DEF yieldVars, ring, flags, local
  <2>2. InRing' = InRing /\ InRun' = InRun
    BY <2>1 DEF InRing, InRun
  <2>3. YieldTypeOK' /\ IdSafe'
    BY <1>1, <2>1, <2>2 DEF YieldTypeOK, IdSafe
  <2>4. Ring'
    BY <1>1, <2>1, <2>2 DEF Ring, RingLinked, Round, Ranked, InRing
  <2>5. SlotHeld' /\ Fresh' /\ Leaving'
    BY <1>1, <2>1, <2>2 DEF SlotHeld, Fresh, Leaving
  <2> QED
    BY <2>3, <2>4, <2>5
<1> QED
  BY <1>3, <1>4, <1>5, <1>6, <1>7, <1>8, <1>9, <1>10, <1>11, <1>12 DEF YieldNext, Scheduling

\* The ring stays one doubly linked cycle through every start and end of a
\* task, and an id never names another task than the one it was given to: a
\* waiter or a cancellation never reaches the next user of a control block.
THEOREM TaskIdentity ==
  ASSUME Exclusive PROVE YieldSpec => [](YieldTypeOK /\ RingLinked /\ IdSafe)
<1>1. YieldIInv /\ [YieldNext]_yieldVars => YieldIInv'
  BY StepYieldIInv
<1>2. YieldIInv => YieldTypeOK /\ RingLinked /\ IdSafe
  BY DEF YieldIInv, Ring
<1> QED
  BY InitYieldIInv, <1>1, <1>2, PTL DEF YieldSpec

\* Between two turns of a task every other task of the ring has had its own
\* (Yield_Schedule), however tasks are started and end in between.
THEOREM RoundRobin == ASSUME Exclusive PROVE YieldSpec => []FullRound
<1>1. YieldIInv /\ [YieldNext]_yieldVars => YieldIInv'
  BY StepYieldIInv
<1>2. YieldIInv => FullRound
  <2> SUFFICES ASSUME YieldIInv, NEW d \in owed[curr]
               PROVE  FALSE
    BY DEF FullRound
  <2>1. PICK r \in [Blocks -> Nat] : Ranked(r)
    BY DEF YieldIInv, Ring, Round
  <2>2. d \in Blocks /\ r[d] < r[curr] /\ r[curr] = 0
    BY <2>1 DEF YieldIInv, Ring, Ranked, InRing
  <2> QED
    BY <2>2
<1> QED
  BY InitYieldIInv, <1>1, <1>2, PTL DEF YieldSpec
=============================================================================
