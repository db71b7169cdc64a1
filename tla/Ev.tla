--------------------------------- MODULE Ev ---------------------------------
(***************************************************************************)
(* Events of sys/src/ev.c: tasks that notify and tasks that listen in an   *)
(* ev_listen loop (capture, work, acknowledge).                            *)
(*                                                                         *)
(* The argument of Ev_Notify usually lives on the notifier's stack: it is  *)
(* identified with the notifying task and is gone when Ev_Notify returns.  *)
(* Callbacks (Ev_Subscribe) run inside the step that raises the event.     *)
(***************************************************************************)
EXTENDS Integers, FiniteSets

CONSTANTS Notifiers, Listeners,
          SlotNum,  \* elements of ev->listeners
          EvIdMod     \* ev->id is a uint32_t: it counts modulo IdMod

EvSlots == 1 .. SlotNum
Nobody == "none"

ASSUME EvAssumption == /\ SlotNum \in Nat \ {0} /\ EvIdMod \in Nat \ {0, 1}
                       /\ Nobody \notin Notifiers \cup Listeners

VARIABLES lastId, arg,    \* ev->id, ev->arg
          owner,      \* listeners[i].task_id (None: 0)
          evId,       \* listeners[i].ev_id
          notifying,  \* tasks inside Ev_Notify
          slot,       \* the entry Ev_Listen gave to a listener, 0 if none
          got,        \* the argument a listener captured and has not acked
          missing     \* history: listeners that have to capture an event

evVars == <<lastId, arg, owner, evId, notifying, slot, got, missing>>

EvInit == /\ lastId = 0 /\ arg = Nobody
          /\ owner = [i \in EvSlots |-> Nobody] /\ evId = [i \in EvSlots |-> 0]
          /\ notifying = {}
          /\ slot = [l \in Listeners |-> 0] /\ got = [l \in Listeners |-> Nobody]
          /\ missing = [n \in Notifiers |-> {}]

Listening == {l \in Listeners : slot[l] # 0}

Bump(e) == (e + 1) % EvIdMod

\* The inner loop of Ev_Notify: every registered entry has event id e.
\* Mutant: one entry is enough.
AllAcked_Any(e) == \E i \in EvSlots : owner[i] # Nobody => evId[i] = e
AllAcked(e) == \A i \in EvSlots : owner[i] # Nobody => evId[i] = e
-----------------------------------------------------------------------------
\* Ev_Notify up to its first Yield(); with no listener it returns at once.
Notify(n) ==
  /\ n \notin notifying
  /\ arg' = n
  /\ lastId' = Bump(lastId)
  /\ notifying' = IF AllAcked(lastId')
                  THEN notifying ELSE notifying \cup {n}
  /\ missing' = [missing EXCEPT ![n] = Listening]
  /\ UNCHANGED <<owner, evId, slot, got>>

\* A later pass that finds everything acknowledged; other passes only yield.
NotifyReturn(n) ==
  /\ n \in notifying
  /\ AllAcked(lastId)
  /\ notifying' = notifying \ {n}
  /\ UNCHANGED <<lastId, arg, owner, evId, slot, got, missing>>

\* Ev_Listen: the first free entry, if there is one.
Listen(l) ==
  /\ slot[l] = 0
  /\ \E i \in EvSlots :
       /\ owner[i] = Nobody /\ \A j \in 1 .. i - 1 : owner[j] # Nobody
       /\ owner' = [owner EXCEPT ![i] = l]
       /\ evId' = [evId EXCEPT ![i] = lastId]
       /\ slot' = [slot EXCEPT ![l] = i]
  /\ UNCHANGED <<lastId, arg, notifying, got, missing>>

\* Ev_Capture sees a new event and hands out its argument.  A timeout leads
\* straight to Ev_Ack of an event already acknowledged: nothing changes.
Capture(l) ==
  /\ slot[l] # 0 /\ got[l] = Nobody
  /\ lastId # evId[slot[l]]
  /\ got' = [got EXCEPT ![l] = arg]
  /\ missing' = [missing EXCEPT ![arg] = @ \ {l}]
  /\ UNCHANGED <<lastId, arg, owner, evId, notifying, slot>>

\* Ev_Ack in the loop step of ev_listen: it acknowledges the current id.
Ack(l) ==
  /\ slot[l] # 0 /\ got[l] # Nobody
  /\ evId' = [evId EXCEPT ![slot[l]] = lastId]
  /\ got' = [got EXCEPT ![l] = Nobody]
  /\ UNCHANGED <<lastId, arg, owner, notifying, slot, missing>>

\* Mutant: the entry is not cleared.
ListenEnd_Keep(l) ==
  /\ slot[l] # 0
  /\ slot' = [slot EXCEPT ![l] = 0]
  /\ got' = [got EXCEPT ![l] = Nobody]
  /\ missing' = [n \in Notifiers |-> missing[n] \ {l}]
  /\ UNCHANGED <<lastId, arg, owner, evId, notifying>>

\* Leaving the loop runs Ev_ListenEnd.
ListenEnd(l) ==
  /\ slot[l] # 0
  /\ owner' = [owner EXCEPT ![slot[l]] = Nobody]
  /\ slot' = [slot EXCEPT ![l] = 0]
  /\ got' = [got EXCEPT ![l] = Nobody]
  /\ missing' = [n \in Notifiers |-> missing[n] \ {l}]
  /\ UNCHANGED <<lastId, arg, evId, notifying>>

EvNext == \/ \E n \in Notifiers : Notify(n) \/ NotifyReturn(n)
          \/ \E l \in Listeners : Listen(l) \/ Capture(l) \/ Ack(l) \/ ListenEnd(l)

EvSpec == EvInit /\ [][EvNext]_evVars

-----------------------------------------------------------------------------
\* Type invariant.
EvTypeOK == /\ lastId \in 0 .. EvIdMod - 1 /\ arg \in Notifiers \cup {Nobody}
            /\ owner \in [EvSlots -> Listeners \cup {Nobody}]
            /\ evId \in [EvSlots -> 0 .. EvIdMod - 1]
            /\ notifying \subseteq Notifiers
            /\ slot \in [Listeners -> 0 .. SlotNum]
            /\ got \in [Listeners -> Notifiers \cup {Nobody}]
            /\ missing \in [Notifiers -> SUBSET Listeners]

\* An entry of ev->listeners belongs to one listener and is not handed out
\* again before Ev_ListenEnd.
EntryOwned == \A l \in Listening : owner[slot[l]] = l

\* When Ev_Notify returns, every listener that was registered when the event
\* was raised has captured it or stopped listening, and nobody is still at
\* work on the argument, which lives on the notifier's stack (ev.h, Ev_Ack).
Delivered == \A n \in Notifiers \ notifying : /\ missing[n] = {}
                                              /\ \A l \in Listeners : got[l] # n

\* Ev_Notify returns.
NotifyReturns == \A n \in Notifiers : n \in notifying ~> n \notin notifying
=============================================================================
