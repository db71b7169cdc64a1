----------------------------- MODULE RxTxProofs -----------------------------
(***************************************************************************)
(* The frame buffers and the address resolution of net/tcpip, for any      *)
(* number of buffers, tasks, hosts, addresses and table entries, as long   *)
(* as callers of TCPIPRxTx_Alloc exclude one another between the search    *)
(* and the mark.                                                           *)
(*                                                                         *)
(* OneOwner and SentRight are not inductive: that a buffer is handed out   *)
(* once rests on the one task between search and mark (Senders: the buffer *)
(* it found is still free, and it is alone there), that a buffer is sent   *)
(* once on complete buffers being marked as taken (Buffers), and that a    *)
(* frame goes to the right host on the table never pairing an address with *)
(* a host that does not own it (Addresses).                                *)
(***************************************************************************)
EXTENDS RxTx, FiniteSetTheorems, Induction

Frames == [dst : Addrs \cup Hosts \cup {None, Bcast}, da : Hosts \cup {None, Bcast}]
Calls == [pc : {"idle", "alloc", "reply", "request", "sleep"},
          dst : Addrs \cup Hosts \cup {None, Bcast},
          buf : 0 .. BufNum, found : 0 .. BufNum, tries : 0 .. Attempts]

RightFrame(f) == f \in Frames /\ (f.dst \in Addrs => f.dst \in Owns[f.da])

\* Complete buffers are taken, hold what was passed to Send, and go to the
\* host that owns the address.
Buffers ==
  /\ allocated \in [Bufs -> BOOLEAN] /\ filled \in [Bufs -> BOOLEAN]
  /\ content \in [Bufs -> Frames]
  /\ tx \in 0 .. BufNum /\ eem \in 0 .. EemCap
  /\ \A b \in Bufs : filled[b] => allocated[b] /\ RightFrame(content[b])
  /\ tx # 0 => filled[tx]
  /\ handed = {<<b, content[b]>> : b \in {c \in Bufs : filled[c]}}

\* Where a task can be, and what it holds there.
Stage(k) ==
  \/ k.pc = "idle" /\ k.buf = 0 /\ k.found = 0
  \/ k.pc = "alloc" /\ k.buf = 0 /\ k.dst \in Addrs \cup {Bcast}
  \/ k.pc = "reply" /\ k.buf = 0 /\ k.dst \in Hosts
  \/ k.pc = "request" /\ k.buf # 0 /\ k.dst \in Addrs /\ k.tries < Attempts
  \/ k.pc = "sleep" /\ k.buf # 0 /\ k.dst \in Addrs /\ k.found = 0

\* A task builds its frame in a buffer of its own; the buffer a search found
\* is still free and nobody else has found one.
Senders ==
  /\ task \in [Tasks -> Calls]
  /\ \A t \in Tasks : Stage(task[t])
  /\ \A t \in Tasks : task[t].buf # 0 => allocated[task[t].buf] /\ ~filled[task[t].buf]
  /\ \A t, u \in Tasks : t # u /\ task[t].buf # 0 => task[t].buf # task[u].buf
  /\ \A t \in Tasks : task[t].found # 0 => ~allocated[task[t].found]
  /\ \A t, u \in Tasks : task[t].found # 0 /\ task[u].found # 0 => t = u

\* An entry of the table pairs an address with the host that owns it.
Addresses ==
  /\ table \in [Slots -> [ha : Hosts \cup {None}, pa : Addrs \cup {None}]]
  /\ \A s \in Slots : table[s].pa # None => /\ table[s].ha \in Hosts
                                            /\ table[s].pa \in Owns[table[s].ha]
  /\ age \in [Slots -> Slots] /\ \A s \in Slots : \E k \in Slots : age[k] = s

RxTxIInv == Buffers /\ Senders /\ Addresses
-----------------------------------------------------------------------------
(* Searches return what they look for.                                     *)

\* The search for the first buffer, and for the last entry.
LEMMA LowestIn ==
  ASSUME NEW S, S \subseteq Nat \ {0}
  PROVE  /\ S # {} => Lowest(S) \in S
         /\ Lowest(S) # 0 => Lowest(S) \in S
<1>1. S # {} => \E b \in S : \A c \in S : b <= c
  BY Least
<1> QED
  BY <1>1 DEF Lowest

LEMMA HighestIn ==
  ASSUME NEW S, S \subseteq Slots, S # {}
  PROVE  (CHOOSE r \in S : \A q \in S : q <= r) \in S
<1>1. TableSize \in Nat
  BY RxTxAssumption
<1> DEFINE T == {n \in Nat : \E r \in S : n = TableSize - r}
<1>2. \A r \in S : TableSize - r \in T
  BY <1>1 DEF Slots
<1>3. PICK x \in T : \A y \in T : x <= y
  BY <1>2, Least
<1>4. PICK r \in S : x = TableSize - r
  OBVIOUS
<1> HIDE DEF T
<1>5. ASSUME NEW q \in S
      PROVE  q <= r
  <2>1. TableSize - r <= TableSize - q
    BY <1>2, <1>3, <1>4
  <2>2. q \in Int /\ r \in Int
    BY DEF Slots
  <2> QED
    BY <1>1, <2>1, <2>2
<1> QED
  BY <1>5

\* TCPIPRxTx_Alloc finds a buffer that is not taken.
LEMMA SearchFree ==
  ASSUME NEW a \in [Bufs -> BOOLEAN]
  PROVE  /\ Search(a) \in 0 .. BufNum
         /\ Search(a) # 0 => Search(a) \in Bufs /\ ~a[Search(a)]
<1> DEFINE S == {b \in Bufs : ~a[b]}
<1>1. S \subseteq Nat \ {0} /\ BufNum \in Nat
  BY RxTxAssumption DEF Bufs
<1>2. Lowest(S) # 0 => Lowest(S) \in S
  BY <1>1, LowestIn
<1>3. Search(a) = Lowest(S)
  BY DEF Search
<1>4. Search(a) # 0 => Search(a) \in Bufs /\ ~a[Search(a)]
  BY <1>2, <1>3
<1> QED
  BY <1>1, <1>4 DEF Bufs

\* TCPIPArpTable_GetHWAddr returns a host that owns the address.
LEMMA EntryRight ==
  ASSUME Addresses, NEW pa \in Addrs, Known(pa) # {}
  PROVE  Entry(pa) \in Slots /\ RightFrame(Frame(pa, table[Entry(pa)].ha))
<1>1. Known(pa) \subseteq Nat
  BY RxTxAssumption DEF Known, Slots
<1>2. \E s \in Known(pa) : \A q \in Known(pa) : s <= q
  BY <1>1, Least
<1>3. Entry(pa) \in Known(pa)
  BY <1>2 DEF Entry
<1>4. Entry(pa) \in Slots /\ table[Entry(pa)].pa = pa /\ pa # None
  BY <1>3, RxTxAssumption DEF Known
<1>5. table[Entry(pa)].ha \in Hosts /\ pa \in Owns[table[Entry(pa)].ha]
  BY <1>4 DEF Addresses
<1> QED
  BY <1>4, <1>5 DEF RightFrame, Frame, Frames

\* A slot that is touched moves to the end of the order, nothing is lost.
LEMMA TouchAges ==
  ASSUME Addresses, NEW s \in Slots, Touch(s)
  PROVE  age' \in [Slots -> Slots] /\ \A r \in Slots : \E k \in Slots : age'[k] = r
<1>0. TableSize \in Nat \ {0}
  BY RxTxAssumption
<1>1. PICK i \in Slots : /\ age[i] = s
                         /\ age' = [k \in Slots |-> IF k < i THEN age[k]
                                       ELSE IF k < TableSize THEN age[k + 1] ELSE s]
  <2>1. \E k \in Slots : age[k] = s
    BY DEF Addresses
  <2> QED
    BY <2>1 DEF Touch
<1>2. age' \in [Slots -> Slots]
  <2>1. ASSUME NEW k \in Slots
        PROVE  (IF k < i THEN age[k] ELSE IF k < TableSize THEN age[k + 1] ELSE s) \in Slots
    <3>1. k < TableSize => k + 1 \in Slots
      BY <1>0 DEF Slots
    <3>2. age \in [Slots -> Slots]
      BY DEF Addresses
    <3> QED
      BY <3>1, <3>2
  <2> QED
    BY <1>1, <2>1
<1>3. ASSUME NEW r \in Slots
      PROVE  \E k \in Slots : age'[k] = r
  <2>1. PICK j \in Slots : age[j] = r
    BY DEF Addresses
  <2>2. CASE j < i
    BY <1>1, <2>1, <2>2
  <2>3. CASE j = i
    <3>1. TableSize \in Slots /\ ~(TableSize < i) /\ ~(TableSize < TableSize)
      BY <1>0 DEF Slots
    <3> QED
      BY <1>1, <2>1, <2>3, <3>1
  <2>4. CASE i < j
    <3>1. j - 1 \in Slots /\ ~(j - 1 < i) /\ j - 1 < TableSize /\ (j - 1) + 1 = j
      BY <1>0, <2>4 DEF Slots
    <3>2. age'[j - 1] = age[j]
      BY <1>1, <3>1
    <3> QED
      BY <2>1, <3>1, <3>2
  <2> QED
    BY <2>2, <2>3, <2>4 DEF Slots
<1> QED
  BY <1>2, <1>3

\* A frame from host h teaches the table an address that h owns.
LEMMA UpdateKeeps ==
  ASSUME Addresses, NEW h \in Hosts, NEW pa \in Owns[h], UpdateTable(h, pa)
  PROVE  Addresses'
<1> DEFINE same == {s \in Slots : table[s].ha = h}
           s == IF same = {} THEN age[1] ELSE CHOOSE r \in same : \A q \in same : q <= r
<1>1. s \in Slots
  <2>1. 1 \in Slots
    BY RxTxAssumption DEF Slots
  <2>2. same # {} => (CHOOSE r \in same : \A q \in same : q <= r) \in same
    BY HighestIn
  <2> QED
    BY <2>1, <2>2 DEF Addresses
<1>0. CASE UNCHANGED arpVars
  BY <1>0 DEF Addresses, arpVars
<1>2. CASE ~UNCHANGED arpVars
  <2>1. table' = [table EXCEPT ![s] = [ha |-> h, pa |-> pa]] /\ Touch(s)
    BY <1>2 DEF UpdateTable
  <2> HIDE DEF s
  <2>2. pa \in Addrs
    BY RxTxAssumption
  <2>3. table' \in [Slots -> [ha : Hosts \cup {None}, pa : Addrs \cup {None}]]
    BY <1>1, <2>1, <2>2 DEF Addresses
  <2>4. \A r \in Slots : table'[r].pa # None => /\ table'[r].ha \in Hosts
                                                /\ table'[r].pa \in Owns[table'[r].ha]
    BY <1>1, <2>1 DEF Addresses
  <2> QED
    BY <1>1, <2>1, <2>3, <2>4, TouchAges DEF Addresses
<1> QED
  BY <1>0, <1>2
-----------------------------------------------------------------------------
(* What Send, Drop and the transmission task do to the buffers.            *)

\* TCPIPRxTx_Send of a complete frame.
LEMMA HandKeeps ==
  ASSUME Buffers, NEW b \in Bufs, NEW f, RightFrame(f), ~filled[b], Hand(b, f), UNCHANGED txVars,
         allocated' = Marked(b) \/ (allocated' = allocated /\ allocated[b])
  PROVE  /\ Buffers' /\ filled' = [filled EXCEPT ![b] = TRUE]
         /\ \A c \in Bufs : allocated'[c] <=> allocated[c] \/ c = b
<1>1. /\ filled' = [filled EXCEPT ![b] = TRUE] /\ content' = [content EXCEPT ![b] = f]
      /\ handed' = handed \cup {<<b, f>>} /\ f \in Frames
  BY DEF Hand, RightFrame
<1>2. /\ allocated' \in [Bufs -> BOOLEAN]
      /\ \A c \in Bufs : allocated'[c] <=> allocated[c] \/ c = b
  BY DEF Buffers, Marked
<1>3. filled' \in [Bufs -> BOOLEAN] /\ \A c \in Bufs : filled'[c] <=> filled[c] \/ c = b
  BY <1>1 DEF Buffers
<1>4. content' \in [Bufs -> Frames] /\ \A c \in Bufs : content'[c] = IF c = b THEN f ELSE content[c]
  BY <1>1 DEF Buffers
<1>5. \A c \in Bufs : filled'[c] => allocated'[c] /\ RightFrame(content'[c])
  BY <1>2, <1>3, <1>4 DEF Buffers
<1>6. handed' = {<<c, content'[c]>> : c \in {d \in Bufs : filled'[d]}}
  <2>1. handed = {<<c, content[c]>> : c \in {d \in Bufs : filled[d]}}
    BY DEF Buffers
  <2>2. \A x : x \in handed' => x \in {<<c, content'[c]>> : c \in {d \in Bufs : filled'[d]}}
    BY <1>1, <1>3, <1>4, <2>1
  <2>3. \A x : x \in {<<c, content'[c]>> : c \in {d \in Bufs : filled'[d]}} => x \in handed'
    BY <1>1, <1>3, <1>4, <2>1
  <2> QED
    BY <2>2, <2>3
<1>7. tx' \in 0 .. BufNum /\ eem' \in 0 .. EemCap /\ (tx' # 0 => filled'[tx'])
  <2>1. tx' = tx /\ eem' = eem /\ tx \in 0 .. BufNum /\ eem \in 0 .. EemCap
    BY DEF txVars, Buffers
  <2>2. tx # 0 => tx \in Bufs /\ filled[tx]
    BY <2>1, RxTxAssumption DEF Buffers, Bufs
  <2> QED
    BY <1>3, <2>1, <2>2
<1>8. Buffers'
  BY <1>2, <1>3, <1>4, <1>5, <1>6, <1>7 DEF Buffers, RightFrame, Frames
<1> QED
  BY <1>1, <1>2, <1>8

\* Buffers that become free.
LEMMA ClearKeeps ==
  ASSUME Buffers, NEW bs, Clear(bs), tx' \in 0 .. BufNum, eem' \in 0 .. EemCap,
         tx' # 0 => filled[tx'] /\ tx' \notin bs
  PROVE  /\ Buffers'
         /\ \A c \in Bufs : (allocated'[c] <=> allocated[c] /\ c \notin bs)
                           /\ (filled'[c] <=> filled[c] /\ c \notin bs)
<1>1. /\ allocated' \in [Bufs -> BOOLEAN]
      /\ \A c \in Bufs : allocated'[c] <=> allocated[c] /\ c \notin bs
  BY DEF Clear, Buffers
<1>2. filled' \in [Bufs -> BOOLEAN] /\ \A c \in Bufs : filled'[c] <=> filled[c] /\ c \notin bs
  BY DEF Clear, Buffers
<1>3. /\ content' \in [Bufs -> Frames]
      /\ \A c \in Bufs : content'[c] = IF c \in bs THEN Blank ELSE content[c]
  <2>1. Blank \in Frames
    BY DEF Blank, Frame, Frames
  <2> QED
    BY <2>1 DEF Clear, Buffers
<1>4. \A c \in Bufs : filled'[c] => allocated'[c] /\ RightFrame(content'[c])
  BY <1>1, <1>2, <1>3 DEF Buffers
<1>5. handed' = {<<c, content'[c]>> : c \in {d \in Bufs : filled'[d]}}
  <2>1. /\ handed = {<<c, content[c]>> : c \in {d \in Bufs : filled[d]}}
        /\ handed' = {h \in handed : h[1] \notin bs}
    BY DEF Buffers, Clear
  <2>2. ASSUME NEW x \in handed'
        PROVE  x \in {<<c, content'[c]>> : c \in {d \in Bufs : filled'[d]}}
    <3>1. PICK c \in Bufs : filled[c] /\ x = <<c, content[c]>> /\ x[1] \notin bs
      BY <2>1
    <3>2. c \notin bs
      BY <3>1
    <3> QED
      BY <1>2, <1>3, <3>1, <3>2
  <2>3. ASSUME NEW c \in Bufs, filled'[c]
        PROVE  <<c, content'[c]>> \in handed'
    <3>1. filled[c] /\ c \notin bs /\ content'[c] = content[c]
      BY <1>2, <1>3, <2>3
    <3>2. <<c, content[c]>>[1] \notin bs /\ <<c, content[c]>> \in handed
      BY <2>1, <3>1
    <3> QED
      BY <2>1, <3>1, <3>2
  <2> QED
    BY <2>2, <2>3
<1>6. tx' # 0 => filled'[tx']
  <2>1. tx' # 0 => tx' \in Bufs
    BY RxTxAssumption DEF Bufs
  <2> QED
    BY <1>2, <2>1
<1>7. Buffers'
  BY <1>1, <1>2, <1>3, <1>4, <1>5, <1>6 DEF Buffers, RightFrame, Frames
<1> QED
  BY <1>1, <1>2, <1>7
-----------------------------------------------------------------------------
(* What a step does to the calls of the tasks.                             *)

\* Task t goes on with call k; the frames and finds of the others stay what
\* they are.
LEMMA SendersKept ==
  ASSUME Senders, NEW t \in Tasks, NEW k \in Calls, Stage(k), task' = [task EXCEPT ![t] = k],
         \A u \in Tasks \ {t} : task[u].buf # 0 => allocated'[task[u].buf] /\ ~filled'[task[u].buf],
         \A u \in Tasks \ {t} : task[u].found # 0 => ~allocated'[task[u].found],
         k.buf # 0 => /\ allocated'[k.buf] /\ ~filled'[k.buf]
                      /\ \A u \in Tasks \ {t} : task[u].buf # k.buf,
         k.found # 0 => ~allocated'[k.found] /\ \A u \in Tasks \ {t} : task[u].found = 0
  PROVE  Senders'
<1>1. task' \in [Tasks -> Calls] /\ \A u \in Tasks : task'[u] = IF u = t THEN k ELSE task[u]
  BY DEF Senders
<1>2. \A u \in Tasks : Stage(task'[u])
  BY <1>1 DEF Senders
<1>3. \A u \in Tasks : task'[u].buf # 0 => allocated'[task'[u].buf] /\ ~filled'[task'[u].buf]
  BY <1>1
<1>4. \A v, u \in Tasks : v # u /\ task'[v].buf # 0 => task'[v].buf # task'[u].buf
  BY <1>1 DEF Senders
<1>5. \A u \in Tasks : task'[u].found # 0 => ~allocated'[task'[u].found]
  BY <1>1
<1>6. \A v, u \in Tasks : task'[v].found # 0 /\ task'[u].found # 0 => v = u
  BY <1>1 DEF Senders
<1> QED
  BY <1>1, <1>2, <1>3, <1>4, <1>5, <1>6 DEF Senders, Calls, Stage

\* Complete frames leave; the calls stay as they are.
LEMMA SendersStay ==
  ASSUME Buffers, Senders, task' = task,
         \A c \in Bufs : (allocated'[c] => allocated[c]) /\ (filled'[c] => filled[c])
                       /\ (allocated[c] /\ ~filled[c] => allocated'[c])
  PROVE  Senders'
<1>1. \A t \in Tasks : task[t] \in Calls
  BY DEF Senders
<1>2. \A t \in Tasks : (task[t].buf # 0 => task[t].buf \in Bufs)
                     /\ (task[t].found # 0 => task[t].found \in Bufs)
  BY <1>1, RxTxAssumption DEF Calls, Bufs
<1>3. \A t \in Tasks : task[t].buf # 0 => allocated'[task[t].buf] /\ ~filled'[task[t].buf]
  BY <1>2 DEF Senders
<1>4. \A t \in Tasks : task[t].found # 0 => ~allocated'[task[t].found]
  BY <1>2 DEF Senders
<1> QED
  BY <1>3, <1>4 DEF Senders, Calls, Stage

\* A task that comes out of Alloc marks a buffer nobody else has, and is the
\* only one that has found a buffer.
LEMMA FoundFree ==
  ASSUME Buffers, Senders, NEW t \in Tasks, task[t].found # 0
  PROVE  /\ task[t].found \in Bufs /\ ~allocated[task[t].found] /\ ~filled[task[t].found]
         /\ \A u \in Tasks \ {t} : task[u].found = 0
         /\ \A u \in Tasks : task[u].buf # task[t].found
<1>1. task[t] \in Calls /\ ~allocated[task[t].found]
  BY DEF Senders
<1>2. task[t].found \in Bufs
  BY <1>1, RxTxAssumption DEF Calls, Bufs
<1>3. \A u \in Tasks \ {t} : task[u].found = 0
  BY DEF Senders
<1>4. \A u \in Tasks : task[u].buf # task[t].found
  BY <1>1 DEF Senders
<1> QED
  BY <1>1, <1>2, <1>3, <1>4 DEF Buffers

\* A task owns the buffer it builds a frame in.
LEMMA HoldsOwn ==
  ASSUME Senders, NEW t \in Tasks, task[t].buf # 0
  PROVE  /\ task[t].buf \in Bufs /\ allocated[task[t].buf] /\ ~filled[task[t].buf]
         /\ \A u \in Tasks \ {t} : task[u].buf # task[t].buf
<1>1. task[t] \in Calls
  BY DEF Senders
<1>2. task[t].buf \in Bufs
  BY <1>1, RxTxAssumption DEF Calls, Bufs
<1> QED
  BY <1>2 DEF Senders

\* A task that is outside the search comes back with a free buffer only if
\* nobody else has one in hand.
LEMMA Searched ==
  ASSUME Exclusive, NEW t \in Tasks, NEW a \in [Bufs -> BOOLEAN], MaySearch(t, a)
  PROVE  /\ Search(a) \in 0 .. BufNum
         /\ Search(a) # 0 => ~a[Search(a)] /\ \A u \in Tasks \ {t} : task[u].found = 0
BY SearchFree DEF MaySearch, Between

\* What the other tasks hold is neither free nor complete.
LEMMA OthersHold ==
  ASSUME Buffers, Senders, NEW t \in Tasks
  PROVE  /\ \A u \in Tasks \ {t} : task[u].buf # 0 => /\ task[u].buf \in Bufs
                                                     /\ allocated[task[u].buf] /\ ~filled[task[u].buf]
         /\ \A u \in Tasks \ {t} : task[u].found # 0 => /\ task[u].found \in Bufs
                                                       /\ ~allocated[task[u].found]
<1>1. \A u \in Tasks : task[u] \in Calls
  BY DEF Senders
<1>2. \A u \in Tasks : (task[u].buf # 0 => task[u].buf \in Bufs)
                     /\ (task[u].found # 0 => task[u].found \in Bufs)
  BY <1>1, RxTxAssumption DEF Calls, Bufs
<1> QED
  BY <1>2 DEF Senders

\* TCPIPRxTx_Send by a task that is done with its call, from the buffer it
\* has found or the one it holds.
LEMMA HandDone ==
  ASSUME RxTxIInv, NEW t \in Tasks, NEW b \in Bufs, NEW f, RightFrame(f), Hand(b, f),
         \/ b = task[t].found /\ task[t].found # 0 /\ allocated' = Marked(b)
         \/ b = task[t].buf /\ task[t].buf # 0 /\ UNCHANGED allocated,
         UNCHANGED txVars, NEW k \in Calls, Stage(k), task' = [task EXCEPT ![t] = k],
         k.found = 0, k.buf # 0 => k.buf = task[t].buf /\ b # k.buf
  PROVE  Buffers' /\ Senders'
<1> USE DEF RxTxIInv
<1>1. /\ ~filled[b] /\ \A u \in Tasks \ {t} : task[u].buf # b
      /\ allocated' = Marked(b) \/ (allocated' = allocated /\ allocated[b])
      /\ \A u \in Tasks \ {t} : task[u].found # 0 => task[u].found # b
  <2>1. CASE b = task[t].found /\ task[t].found # 0 /\ allocated' = Marked(b)
    BY <2>1, FoundFree
  <2>2. CASE b = task[t].buf /\ task[t].buf # 0 /\ UNCHANGED allocated
    BY <2>2, HoldsOwn, OthersHold
  <2> QED
    BY <2>1, <2>2
<1>2. /\ Buffers' /\ filled' = [filled EXCEPT ![b] = TRUE]
      /\ \A c \in Bufs : allocated'[c] <=> allocated[c] \/ c = b
  BY <1>1, HandKeeps
<1>3. \A c \in Bufs : filled'[c] <=> filled[c] \/ c = b
  BY <1>2 DEF Buffers
<1>4. /\ \A u \in Tasks \ {t} : task[u].buf # 0 => allocated'[task[u].buf] /\ ~filled'[task[u].buf]
      /\ \A u \in Tasks \ {t} : task[u].found # 0 => ~allocated'[task[u].found]
  BY <1>1, <1>2, <1>3, OthersHold
<1>5. k.buf # 0 => /\ allocated'[k.buf] /\ ~filled'[k.buf]
                   /\ \A u \in Tasks \ {t} : task[u].buf # k.buf
  BY <1>2, <1>3, HoldsOwn
<1>6. Senders'
  BY <1>4, <1>5, SendersKept
<1> QED
  BY <1>2, <1>6

\* A task that goes on without touching the buffers, with the one it held.
LEMMA CallKept ==
  ASSUME RxTxIInv, NEW t \in Tasks, UNCHANGED <<bufVars, txVars>>,
         NEW k \in Calls, Stage(k), task' = [task EXCEPT ![t] = k],
         k.buf # 0 => k.buf = task[t].buf,
         k.found # 0 => ~allocated[k.found] /\ \A u \in Tasks \ {t} : task[u].found = 0
  PROVE  Buffers' /\ Senders'
<1> USE DEF RxTxIInv
<1>1. UNCHANGED <<allocated, filled, content, handed, tx, eem>>
  BY DEF bufVars, txVars
<1>2. Buffers'
  BY <1>1 DEF Buffers, RightFrame, Frames
<1>3. Senders'
  BY <1>1, OthersHold, HoldsOwn, SendersKept
<1> QED
  BY <1>2, <1>3

\* The steps that leave the address table alone.
LEMMA TableKept == Addresses /\ UNCHANGED arpVars => Addresses'
BY DEF Addresses, arpVars

\* Idle tasks and new calls are well formed.
LEMMA IdleCall == Idle \in Calls /\ Stage(Idle) /\ Idle.buf = 0 /\ Idle.found = 0
BY RxTxAssumption DEF Idle, Calls, Stage

\* A call of TCPIPRxTx_Alloc.
LEMMA CallKeeps ==
  ASSUME RxTxIInv, Exclusive, NEW t \in Tasks, NEW pc, NEW dst, Call(t, pc, dst),
         \/ pc = "alloc" /\ dst \in Addrs \cup {Bcast}
         \/ pc = "reply" /\ dst \in Hosts,
         UNCHANGED <<bufVars, txVars>>
  PROVE  Buffers' /\ Senders'
<1> DEFINE k == [pc |-> pc, dst |-> dst, buf |-> 0, tries |-> 0, found |-> Search(allocated)]
<1>0. allocated \in [Bufs -> BOOLEAN]
  BY DEF RxTxIInv, Buffers
<1>1. /\ Search(allocated) \in 0 .. BufNum
      /\ Search(allocated) # 0 => /\ ~allocated[Search(allocated)]
                                  /\ \A u \in Tasks \ {t} : task[u].found = 0
  BY <1>0, Searched DEF Call
<1>2. k \in Calls /\ Stage(k) /\ k.buf = 0 /\ k.found = Search(allocated)
  BY <1>1, RxTxAssumption DEF Calls, Stage
<1>3. task' = [task EXCEPT ![t] = k]
  BY DEF Call
<1> HIDE DEF k
<1> QED
  BY <1>1, <1>2, <1>3, CallKept

\* The ARP request of TCPIPArp_GetHWAddr, for a frame that is in buffer b.
LEMMA RequestCall ==
  ASSUME Exclusive, NEW t \in Tasks, NEW b \in Bufs, NEW dst \in Addrs, NEW n \in 0 .. Attempts - 1,
         NEW a \in [Bufs -> BOOLEAN], Request(t, b, dst, n, a)
  PROVE  \E k \in Calls : /\ Stage(k) /\ k.buf = b /\ task' = [task EXCEPT ![t] = k]
                          /\ k.found # 0 => ~a[k.found] /\ \A u \in Tasks \ {t} : task[u].found = 0
<1> DEFINE k == [pc |-> "request", dst |-> dst, buf |-> b, tries |-> n, found |-> Search(a)]
<1>1. /\ Search(a) \in 0 .. BufNum
      /\ Search(a) # 0 => ~a[Search(a)] /\ \A u \in Tasks \ {t} : task[u].found = 0
  BY Searched DEF Request
<1>2. k \in Calls /\ Stage(k)
  BY <1>1, RxTxAssumption DEF Calls, Stage, Bufs
<1>3. task' = [task EXCEPT ![t] = k]
  BY DEF Request
<1> QED
  BY <1>1, <1>2, <1>3

\* The frame leaves when its address is known.
LEMMA ResolvedKeeps ==
  ASSUME RxTxIInv, NEW t \in Tasks, NEW b \in Bufs, NEW dst \in Addrs, Resolved(t, b, dst),
         \/ b = task[t].found /\ task[t].found # 0 /\ allocated' = Marked(b)
         \/ b = task[t].buf /\ task[t].buf # 0 /\ UNCHANGED allocated,
         UNCHANGED txVars
  PROVE  RxTxIInv'
<1>1. /\ Hand(b, Frame(dst, table[Entry(dst)].ha)) /\ Touch(Entry(dst)) /\ table' = table
      /\ task' = [task EXCEPT ![t] = Idle] /\ Known(dst) # {}
  BY DEF Resolved
<1>2. Entry(dst) \in Slots /\ RightFrame(Frame(dst, table[Entry(dst)].ha))
  BY <1>1, EntryRight DEF RxTxIInv
<1>3. Buffers' /\ Senders'
  BY <1>1, <1>2, IdleCall, HandDone
<1>4. Addresses'
  BY <1>1, <1>2, TouchAges DEF RxTxIInv, Addresses
<1> QED
  BY <1>3, <1>4 DEF RxTxIInv
-----------------------------------------------------------------------------
\* TCPIPIp_Send and TCPIPArp_GetHWAddr.
LEMMA StepKeeps ==
  ASSUME RxTxIInv, Exclusive, NEW t \in Tasks, SendTo(t) \/ Step(t)
  PROVE  RxTxIInv'
<1>0. /\ task[t] \in Calls /\ Stage(task[t]) /\ allocated \in [Bufs -> BOOLEAN]
      /\ task \in [Tasks -> Calls]
  BY DEF RxTxIInv, Senders, Buffers
<1>1. CASE SendTo(t)
  <2>1. PICK dst \in Addrs \cup {Bcast} : Call(t, "alloc", dst)
    BY <1>1 DEF SendTo
  <2>2. UNCHANGED <<bufVars, txVars>> /\ UNCHANGED arpVars
    BY <1>1 DEF SendTo
  <2> QED
    BY <2>1, <2>2, CallKeeps, TableKept DEF RxTxIInv
<1>2. CASE SearchAgain(t)
  <2> DEFINE k == [task[t] EXCEPT !.found = Search(allocated)]
  <2>1. /\ task' = [task EXCEPT ![t] = k] /\ UNCHANGED <<bufVars, txVars>> /\ UNCHANGED arpVars
        /\ MaySearch(t, allocated) /\ task[t].pc # "idle" /\ task[t].pc # "sleep"
    BY <1>2 DEF SearchAgain
  <2>2. /\ Search(allocated) \in 0 .. BufNum
        /\ Search(allocated) # 0 => /\ ~allocated[Search(allocated)]
                                    /\ \A u \in Tasks \ {t} : task[u].found = 0
    BY <1>0, <2>1, Searched
  <2>3. k \in Calls /\ k.buf = task[t].buf /\ k.found = Search(allocated)
    BY <1>0, <2>2 DEF Calls
  <2>4. Stage(k)
    BY <1>0, <2>1 DEF Stage, Calls
  <2> HIDE DEF k
  <2> QED
    BY <2>1, <2>2, <2>3, <2>4, CallKept, TableKept DEF RxTxIInv
<1>3. CASE Build(t)
  <2>1. PICK b \in Bufs : /\ b = task[t].found /\ b # 0 /\ allocated' = Marked(b) /\ ~allocated[b]
                          /\ ~filled[b] /\ \A u \in Tasks : task[u].buf # b
                          /\ \A u \in Tasks \ {t} : task[u].found = 0
    BY <1>3, FoundFree DEF Build, RxTxIInv
  <2>2. task[t].pc = "alloc" /\ task[t].dst \in Addrs \cup {Bcast} /\ UNCHANGED txVars
    BY <1>0, <1>3 DEF Build, Stage
  <2>3. PICK dst : dst = task[t].dst
    OBVIOUS
  <2>4. CASE dst = Bcast /\ Hand(b, Frame(dst, Bcast)) /\ task' = [task EXCEPT ![t] = Idle]
             /\ UNCHANGED arpVars
    <3>1. RightFrame(Frame(dst, Bcast))
      BY <2>4, RxTxAssumption DEF RightFrame, Frame, Frames
    <3>2. Buffers' /\ Senders'
      BY <2>1, <2>2, <2>4, <3>1, IdleCall, HandDone
    <3> QED
      BY <2>4, <3>2, TableKept DEF RxTxIInv
  <2>5. CASE dst # Bcast /\ Resolved(t, b, dst)
    BY <2>1, <2>2, <2>3, <2>5, ResolvedKeeps
  <2>6. CASE /\ dst # Bcast /\ Request(t, b, dst, 0, Marked(b))
             /\ content' = [content EXCEPT ![b] = Frame(dst, None)]
             /\ UNCHANGED <<filled, handed>>
    <3>1. dst \in Addrs /\ 0 \in 0 .. Attempts - 1
      BY <2>2, <2>3, <2>6, RxTxAssumption
    <3>2. /\ Marked(b) \in [Bufs -> BOOLEAN]
          /\ \A c \in Bufs : Marked(b)[c] <=> allocated[c] \/ c = b
      BY <1>0 DEF Marked
    <3>3. PICK k \in Calls : /\ Stage(k) /\ k.buf = b /\ task' = [task EXCEPT ![t] = k]
                             /\ k.found # 0 => ~Marked(b)[k.found]
      BY <2>6, <3>1, <3>2, RequestCall
    <3>4. Buffers'
      <4>1. /\ content' \in [Bufs -> Frames]
            /\ \A c \in Bufs : filled[c] => content'[c] = content[c]
        <5>1. Frame(dst, None) \in Frames
          BY <3>1 DEF Frame, Frames
        <5> QED
          BY <2>1, <2>6, <5>1 DEF RxTxIInv, Buffers
      <4>2. handed' = {<<c, content'[c]>> : c \in {d \in Bufs : filled'[d]}}
        BY <2>6, <4>1 DEF RxTxIInv, Buffers
      <4>3. \A c \in Bufs : filled'[c] => allocated'[c] /\ RightFrame(content'[c])
        BY <2>1, <2>6, <3>2, <4>1 DEF RxTxIInv, Buffers
      <4>4. filled' = filled /\ tx' = tx /\ eem' = eem /\ allocated' \in [Bufs -> BOOLEAN]
        BY <2>1, <2>2, <2>6, <3>2 DEF txVars
      <4> QED
        BY <4>1, <4>2, <4>3, <4>4 DEF RxTxIInv, Buffers, RightFrame, Frames
    <3>5. Senders'
      <4>1. Buffers /\ Senders
        BY DEF RxTxIInv
      <4>2. \A u \in Tasks \ {t} : task[u].buf # 0 => /\ allocated'[task[u].buf]
                                                     /\ ~filled'[task[u].buf]
        BY <2>1, <2>6, <3>2, <4>1, OthersHold
      <4>3. allocated'[b] /\ ~filled'[b]
        BY <2>1, <2>6, <3>2
      <4> QED
        BY <2>1, <3>3, <4>1, <4>2, <4>3, SendersKept
    <3>6. UNCHANGED arpVars
      BY <2>6 DEF Request
    <3> QED
      BY <3>4, <3>5, <3>6, TableKept DEF RxTxIInv
  <2> QED
    BY <1>3, <2>1, <2>3, <2>4, <2>5, <2>6 DEF Build
<1>4. CASE SendRequest(t)
  <2> DEFINE k == [task[t] EXCEPT !.pc = "sleep", !.found = 0, !.tries = @ + 1]
  <2>1. /\ task[t].pc = "request" /\ task[t].found # 0 /\ allocated' = Marked(task[t].found)
        /\ Hand(task[t].found, Frame(Bcast, Bcast)) /\ UNCHANGED txVars /\ UNCHANGED arpVars
        /\ task' = [task EXCEPT ![t] = k]
    BY <1>0, <1>4 DEF SendRequest
  <2>2. k \in Calls /\ Stage(k) /\ k.found = 0 /\ k.buf = task[t].buf
    <3>1. /\ task[t].buf \in 0 .. BufNum /\ task[t].buf # 0 /\ task[t].dst \in Addrs
          /\ task[t].tries \in 0 .. Attempts /\ task[t].tries < Attempts
      BY <1>0, <2>1 DEF Stage, Calls
    <3>2. task[t].tries + 1 \in 0 .. Attempts /\ 0 \in 0 .. BufNum
      BY <3>1, RxTxAssumption
    <3>3. /\ k.pc = "sleep" /\ k.found = 0
          /\ k.dst = task[t].dst /\ k.buf = task[t].buf
      BY <1>0 DEF Calls
    <3>4. k \in Calls
      BY <1>0, <3>2 DEF Calls
    <3> QED
      BY <3>1, <3>3, <3>4 DEF Stage
  <2>3. task[t].found \in Bufs /\ task[t].buf # task[t].found
    BY <2>1, FoundFree DEF RxTxIInv
  <2>4. RightFrame(Frame(Bcast, Bcast))
    BY RxTxAssumption DEF RightFrame, Frame, Frames
  <2> HIDE DEF k
  <2>5. Buffers' /\ Senders'
    BY <2>1, <2>2, <2>3, <2>4, HandDone
  <2> QED
    BY <2>1, <2>5, TableKept DEF RxTxIInv
<1>5. CASE Wake(t)
  <2>1. PICK b \in Bufs, dst \in Addrs :
          /\ b = task[t].buf /\ b # 0 /\ dst = task[t].dst /\ allocated[b] /\ ~filled[b]
          /\ \A u \in Tasks \ {t} : task[u].buf # b
    <3>1. task[t].pc = "sleep" /\ task[t].buf # 0 /\ task[t].dst \in Addrs
      BY <1>0, <1>5 DEF Wake, Stage
    <3> QED
      BY <3>1, HoldsOwn DEF RxTxIInv
  <2>2. UNCHANGED txVars
    BY <1>5 DEF Wake
  <2>3. CASE Resolved(t, b, dst) /\ UNCHANGED allocated
    BY <2>1, <2>2, <2>3, ResolvedKeeps
  <2>4. CASE task[t].tries < Attempts /\ Request(t, b, dst, task[t].tries, allocated) /\ UNCHANGED bufVars
    <3>1. task[t].tries \in 0 .. Attempts - 1
      BY <1>0, <2>4, RxTxAssumption DEF Calls
    <3>2. PICK k \in Calls : /\ Stage(k) /\ k.buf = b /\ task' = [task EXCEPT ![t] = k]
                             /\ k.found # 0 => /\ ~allocated[k.found]
                                               /\ \A u \in Tasks \ {t} : task[u].found = 0
      BY <1>0, <2>4, <3>1, RequestCall
    <3>3. UNCHANGED arpVars
      BY <2>4 DEF Request
    <3> QED
      BY <2>1, <2>2, <2>4, <3>2, <3>3, CallKept, TableKept DEF RxTxIInv
  <2>5. CASE Drop(b) /\ task' = [task EXCEPT ![t] = Idle] /\ UNCHANGED arpVars
    <3>1. Clear({b})
      BY <2>5 DEF Drop
    <3>2. /\ tx' \in 0 .. BufNum /\ eem' \in 0 .. EemCap
          /\ tx' # 0 => filled[tx'] /\ tx' \notin {b}
      <4>1. tx' = tx /\ eem' = eem
        BY <2>2 DEF txVars
      <4> QED
        BY <2>1, <4>1 DEF RxTxIInv, Buffers
    <3>3. /\ Buffers'
          /\ \A c \in Bufs : (allocated'[c] <=> allocated[c] /\ c \notin {b})
                            /\ (filled'[c] <=> filled[c] /\ c \notin {b})
      BY <3>1, <3>2, ClearKeeps DEF RxTxIInv
    <3>4. Senders'
      <4>1. Buffers /\ Senders
        BY DEF RxTxIInv
      <4>2. \A u \in Tasks \ {t} : task[u].buf # 0 => /\ allocated'[task[u].buf]
                                                     /\ ~filled'[task[u].buf]
        BY <2>1, <3>3, <4>1, OthersHold
      <4>3. \A u \in Tasks \ {t} : task[u].found # 0 => ~allocated'[task[u].found]
        BY <3>3, <4>1, OthersHold
      <4> QED
        BY <2>5, <4>1, <4>2, <4>3, IdleCall, SendersKept
    <3> QED
      BY <2>5, <3>3, <3>4, TableKept DEF RxTxIInv
  <2> QED
    BY <1>5, <2>1, <2>3, <2>4, <2>5 DEF Wake
<1> QED
  BY <1>1, <1>2, <1>3, <1>4, <1>5 DEF Step

\* What the reception task does with ARP frames and with a lost interface.
LEMMA RxKeeps ==
  ASSUME RxTxIInv, Exclusive, RxReply \/ RxRequest \/ SendReply \/ Reset
  PROVE  RxTxIInv'
<1>0. Rx \in Tasks /\ task[Rx] \in Calls /\ Stage(task[Rx])
  BY RxTxAssumption DEF RxTxIInv, Senders
<1>1. ASSUME UNCHANGED <<bufVars, task, txVars>>
      PROVE  Buffers' /\ Senders'
  <2>1. UNCHANGED <<allocated, filled, content, handed, tx, eem, task>>
    BY <1>1 DEF bufVars, txVars
  <2>2. Buffers'
    BY <2>1 DEF RxTxIInv, Buffers, RightFrame, Frames
  <2>3. Senders'
    BY <2>1 DEF RxTxIInv, Senders, Stage, Calls
  <2> QED
    BY <2>2, <2>3
<1>2. CASE RxReply
  <2>1. PICK h \in Hosts : \E pa \in Owns[h] : UpdateTable(h, pa)
    BY <1>2 DEF RxReply
  <2> QED
    BY <1>1, <1>2, <2>1, UpdateKeeps DEF RxReply, RxTxIInv
<1>3. CASE RxRequest
  <2>0. PICK h \in Hosts : \E pa \in Owns[h] : UpdateTable(h, pa) /\ Call(Rx, "reply", h)
    BY <1>3 DEF RxRequest
  <2>1. PICK pa \in Owns[h] : UpdateTable(h, pa) /\ Call(Rx, "reply", h)
    BY <2>0
  <2>2. UNCHANGED <<bufVars, txVars>>
    BY <1>3 DEF RxRequest
  <2>3. Buffers' /\ Senders'
    BY <1>0, <2>1, <2>2, CallKeeps
  <2> QED
    BY <2>1, <2>3, UpdateKeeps DEF RxTxIInv
<1>4. CASE SendReply
  <2>1. /\ task[Rx].found # 0 /\ task[Rx].dst \in Hosts /\ task[Rx].found \in Bufs
        /\ allocated' = Marked(task[Rx].found)
        /\ Hand(task[Rx].found, Frame(task[Rx].dst, task[Rx].dst))
        /\ task' = [task EXCEPT ![Rx] = Idle] /\ UNCHANGED arpVars /\ UNCHANGED txVars
    BY <1>0, <1>4, FoundFree DEF SendReply, Stage, RxTxIInv
  <2>2. RightFrame(Frame(task[Rx].dst, task[Rx].dst))
    BY <2>1, RxTxAssumption DEF RightFrame, Frame, Frames
  <2>3. Buffers' /\ Senders'
    BY <1>0, <2>1, <2>2, IdleCall, HandDone
  <2> QED
    BY <2>1, <2>3, TableKept DEF RxTxIInv
<1>5. CASE Reset
  <2>1. Addresses'
    BY <1>5 DEF Reset, Addresses, Free
  <2> QED
    BY <1>1, <1>5, <2>1 DEF Reset, RxTxIInv
<1> QED
  BY <1>2, <1>3, <1>4, <1>5

\* A pass of TCPIPRxTx_TxTask looks at complete frames only.
LEMMA PassFilled ==
  ASSUME Buffers
  PROVE  Pass \subseteq Bufs /\ \A b \in Pass : filled[b]
<1>1. tx \in 0 .. BufNum /\ BufNum \in Nat
  BY RxTxAssumption DEF Buffers
<1>2. \A b \in tx + 1 .. BufNum : b \in Bufs
  BY <1>1 DEF Bufs
<1>3. tx # 0 => tx \in Bufs /\ filled[tx]
  BY <1>1 DEF Bufs, Buffers
<1> QED
  BY <1>2, <1>3 DEF Pass

\* TCPIPRxTx_TxTask and the USB interface.
LEMMA TxKeeps ==
  ASSUME RxTxIInv, TxPass \/ TxDiscard \/ EemDrain
  PROVE  RxTxIInv'
<1>1. ASSUME NEW bs, bs \subseteq Pass, Clear(bs), tx' \in 0 .. BufNum, eem' \in 0 .. EemCap,
             tx' # 0 => filled[tx'] /\ tx' \notin bs, UNCHANGED <<task, arpVars>>
      PROVE  RxTxIInv'
  <2>1. /\ Buffers'
        /\ \A c \in Bufs : (allocated'[c] <=> allocated[c] /\ c \notin bs)
                          /\ (filled'[c] <=> filled[c] /\ c \notin bs)
    BY <1>1, ClearKeeps DEF RxTxIInv
  <2>2. \A b \in bs : b \in Bufs /\ filled[b]
    BY <1>1, PassFilled DEF RxTxIInv
  <2>3. Senders'
    BY <1>1, <2>1, <2>2, SendersStay DEF RxTxIInv
  <2> QED
    BY <1>1, <2>1, <2>3, TableKept DEF RxTxIInv
<1>2. /\ Pass \subseteq Bufs /\ \A b \in Pass : filled[b]
      /\ eem \in 0 .. EemCap /\ EemCap \in Nat /\ BufNum \in Nat
  BY PassFilled, RxTxAssumption DEF RxTxIInv, Buffers
<1>3. CASE TxPass
  <2>1. PICK sent \in SUBSET Pass :
          /\ Cardinality(sent) = Lesser(EemCap - eem, Cardinality(Pass))
          /\ eem' = eem + Cardinality(sent) /\ tx' = Lowest(Pass \ sent) /\ Clear(sent)
    BY <1>3 DEF TxPass
  <2>2. Cardinality(Pass) \in Nat
    <3>1. IsFiniteSet(Bufs)
      BY <1>2, FS_Interval DEF Bufs
    <3>2. IsFiniteSet(Pass)
      BY <1>2, <3>1, FS_Subset
    <3> QED
      BY <3>2, FS_CardinalityType
  <2>3. eem' \in 0 .. EemCap
    BY <1>2, <2>1, <2>2 DEF Lesser
  <2>4. tx' = 0 \/ tx' \in Pass \ sent
    <3>1. Pass \ sent \subseteq Nat \ {0}
      BY <1>2 DEF Bufs
    <3> QED
      BY <2>1, <3>1, LowestIn
  <2>5. tx' \in 0 .. BufNum /\ (tx' # 0 => filled[tx'] /\ tx' \notin sent)
    <3>1. \A b \in Bufs : b \in 0 .. BufNum
      BY <1>2 DEF Bufs
    <3> QED
      BY <1>2, <2>4, <3>1
  <2> QED
    BY <1>1, <1>3, <2>1, <2>3, <2>5 DEF TxPass
<1>4. CASE TxDiscard
  BY <1>1, <1>2, <1>4 DEF TxDiscard
<1>5. CASE EemDrain
  <2>1. PICK n \in 0 .. eem - 1 : eem' = n
    BY <1>5 DEF EemDrain
  <2>2. eem' \in 0 .. EemCap
    BY <1>2, <2>1
  <2>3. UNCHANGED <<allocated, filled, content, handed, tx, task, table, age>>
    BY <1>5 DEF EemDrain, bufVars, arpVars
  <2>4. Buffers'
    BY <2>2, <2>3 DEF RxTxIInv, Buffers, RightFrame, Frames
  <2>5. Senders' /\ Addresses'
    BY <2>3 DEF RxTxIInv, Senders, Stage, Calls, Addresses
  <2> QED
    BY <2>4, <2>5 DEF RxTxIInv
<1> QED
  BY <1>3, <1>4, <1>5

\* At start-up no buffer is taken and the table is empty.
LEMMA RxTxInitOK == Init => RxTxIInv
<1> SUFFICES ASSUME Init PROVE RxTxIInv
  OBVIOUS
<1>1. Buffers
  <2>1. Blank \in Frames
    BY DEF Blank, Frame, Frames
  <2> QED
    BY <2>1, RxTxAssumption DEF Init, Buffers
<1>2. Senders
  BY IdleCall DEF Init, Senders
<1>3. Addresses
  BY DEF Init, Addresses, Free
<1> QED
  BY <1>1, <1>2, <1>3 DEF RxTxIInv

\* Every step keeps the invariant.
LEMMA RxTxStepOK == ASSUME Exclusive PROVE RxTxIInv /\ [Next]_vars => RxTxIInv'
<1> SUFFICES ASSUME RxTxIInv, [Next]_vars
             PROVE  RxTxIInv'
  OBVIOUS
<1>1. CASE Next
  BY <1>1, StepKeeps, RxKeeps, TxKeeps DEF Next
<1>2. CASE UNCHANGED vars
  <2>1. UNCHANGED <<allocated, filled, content, task, table, age, tx, eem, handed>>
    BY <1>2 DEF vars
  <2>2. Buffers' /\ Senders' /\ Addresses'
    BY <2>1 DEF RxTxIInv, Buffers, RightFrame, Frames, Senders, Stage, Calls, Addresses
  <2> QED
    BY <2>2 DEF RxTxIInv
<1> QED
  BY <1>1, <1>2

\* No two frames are ever built in one buffer, and none in a buffer that waits
\* for transmission, as long as callers of TCPIPRxTx_Alloc exclude one
\* another between the search and the mark.
THEOREM BufferOwner == ASSUME Exclusive PROVE Spec => []OneOwner
<1>1. RxTxIInv => OneOwner
  <2> SUFFICES ASSUME RxTxIInv PROVE OneOwner
    OBVIOUS
  <2>1. ASSUME NEW h \in handed
        PROVE  filled[h[1]] /\ h = <<h[1], content[h[1]]>>
    BY DEF RxTxIInv, Buffers
  <2>2. \A t, u \in Tasks : t # u => Owned(t) \cap Owned(u) = {}
    BY DEF RxTxIInv, Senders, Owned
  <2>3. \A t \in Tasks, h \in handed : h[1] \notin Owned(t)
    BY <2>1 DEF RxTxIInv, Senders, Owned
  <2>4. \A g, h \in handed : g[1] = h[1] => g = h
    BY <2>1
  <2> QED
    BY <2>2, <2>3, <2>4 DEF OneOwner
<1> QED
  BY <1>1, RxTxInitOK, RxTxStepOK, PTL DEF Spec

\* What leaves is what was handed over, complete and unchanged, and it goes to
\* the host that owns the address, under the same condition
\* (TCPIPRxTx_Send, TCPIPRxTx_TxTask, TCPIPArpTable_GetHWAddr).
THEOREM FramesRight == ASSUME Exclusive PROVE Spec => []SentRight
<1>1. RxTxIInv => SentRight
  <2> SUFFICES ASSUME RxTxIInv PROVE SentRight
    OBVIOUS
  <2>1. TypeOK
    BY DEF RxTxIInv, Buffers, Senders, Addresses, Frames, Calls, TypeOK
  <2>2. {c \in Bufs : allocated[c] /\ filled[c]} \cup ({tx} \ {0}) = {c \in Bufs : filled[c]}
    <3>1. tx # 0 => tx \in Bufs /\ filled[tx]
      BY RxTxAssumption DEF RxTxIInv, Buffers, Bufs
    <3>2. \A c \in Bufs : filled[c] => allocated[c]
      BY DEF RxTxIInv, Buffers
    <3> QED
      BY <3>1, <3>2
  <2>3. TxExact
    BY <2>1, <2>2 DEF TxExact, RxTxIInv, Buffers
  <2>4. Addressed
    <3> SUFFICES ASSUME NEW h \in handed, h[2].dst \in Addrs
                 PROVE  h[2].dst \in Owns[h[2].da]
      BY DEF Addressed
    <3>1. PICK b \in Bufs : filled[b] /\ h = <<b, content[b]>>
      BY DEF RxTxIInv, Buffers
    <3>2. RightFrame(content[b]) /\ h[2] = content[b]
      BY <3>1 DEF RxTxIInv, Buffers
    <3> QED
      BY <3>2 DEF RightFrame
  <2> QED
    BY <2>3, <2>4 DEF SentRight
<1> QED
  BY <1>1, RxTxInitOK, RxTxStepOK, PTL DEF Spec
=============================================================================
