-------------------------------- MODULE RxTx --------------------------------
(***************************************************************************)
(* The transmission path of the TCP/IP stack: the frame buffers of         *)
(* net/tcpip/src/rxtx.c, the address resolution of arp.c and arp_table.c,  *)
(* and TCPIPIp_Send, which holds one buffer while it resolves an address   *)
(* with frames that need buffers of their own.                             *)
(*                                                                         *)
(* Tasks are cooperative: a step runs from one Yield to the next.  Every   *)
(* task sends frames; the reception task also handles what arrives, and    *)
(* while it waits for a buffer or an address nothing is handled.           *)
(***************************************************************************)
EXTENDS Integers, FiniteSets

CONSTANTS BufNum,     \* elems(tx_buf)
          Tasks, Rx,  \* the tasks that send; the reception task is one
          Hosts,      \* link addresses; the host h has the IP addresses Owns[h]
          Addrs, Owns,
          TableSize,  \* TCPIP_ARP_TABLE_SIZE
          Attempts,   \* TCPIP_ARP_ATTEMPTS
          EemCap,     \* USBEEM_TX_BUF_CAPACITY
          Exclusive,  \* no two tasks are between search and mark of Alloc
          None, Bcast

ASSUME RxTxAssumption ==
  /\ BufNum \in Nat \ {0} /\ TableSize \in Nat \ {0}
  /\ Attempts \in Nat \ {0} /\ EemCap \in Nat \ {0}
  /\ Rx \in Tasks /\ Exclusive \in BOOLEAN
  /\ Owns \in [Hosts -> SUBSET Addrs]
  /\ None \notin Hosts \cup Addrs /\ Bcast \notin Hosts \cup Addrs
  /\ Hosts \cap Addrs = {} /\ None # Bcast

Bufs == 1 .. BufNum
Slots == 1 .. TableSize

VARIABLES allocated, \* [Bufs -> BOOLEAN], tx_buf[].allocated
          filled,    \* [Bufs -> BOOLEAN], tx_buf[].size # 0
          content,   \* [Bufs -> frame], tx_buf[].buf
          task,      \* [Tasks -> where the task is in TCPIPIp_Send]
          table,     \* [Slots -> entry], arp_table[]
          age,       \* the slots of arp_table by `ts', oldest first
          tx,        \* buffer TCPIPRxTx_TxTask waits to send, or 0
          eem,       \* frames in the queue of the USB interface
          handed     \* history: <<buffer, frame>> passed to Send, not yet sent

vars == <<allocated, filled, content, task, table, age, tx, eem, handed>>
bufVars == <<allocated, filled, content, handed>>
arpVars == <<table, age>>
txVars == <<tx, eem>>

Free == [ha |-> None, pa |-> None]
Idle == [pc |-> "idle", dst |-> None, buf |-> 0, found |-> 0, tries |-> 0]
Frame(dst, da) == [dst |-> dst, da |-> da]
Blank == Frame(None, None)

Init ==
  /\ allocated = [b \in Bufs |-> FALSE] /\ filled = [b \in Bufs |-> FALSE]
  /\ content = [b \in Bufs |-> Blank]
  /\ task = [t \in Tasks |-> Idle]
  /\ table = [s \in Slots |-> Free] /\ age = [s \in Slots |-> s]
  /\ tx = 0 /\ eem = 0 /\ handed = {}
-----------------------------------------------------------------------------
(* The address table.                                                      *)

\* Slot s becomes the youngest.
Touch(s) ==
  LET i == CHOOSE k \in Slots : age[k] = s
  IN  age' = [k \in Slots |-> IF k < i THEN age[k] ELSE IF k < TableSize THEN age[k + 1] ELSE s]

\* Mutant: the link address of a reused entry stays.
UpdateTable_KeepHa(ha, pa) ==
  LET same == {s \in Slots : table[s].ha = ha}
      s == IF same = {} THEN age[1] ELSE CHOOSE r \in same : TRUE
  IN  /\ table' = [table EXCEPT ![s].pa = pa, ![s].ha = IF @ = None THEN ha ELSE @]
      /\ Touch(s)

\* TCPIPArpTable_UpdateTable: the entry of this link address or the oldest.
\* When no entry is older than this instant, or their ages are beyond the
\* signed range of dtime_t, oldest_id stays -1 and the table is missed.
UpdateTable(ha, pa) ==
  LET same == {s \in Slots : table[s].ha = ha}
      s == IF same = {} THEN age[1] ELSE CHOOSE r \in same : \A q \in same : q <= r
  IN  \/ /\ table' = [table EXCEPT ![s] = [ha |-> ha, pa |-> pa]]
         /\ Touch(s)
      \/ same = {} /\ UNCHANGED arpVars

Known(pa) == {s \in Slots : table[s].pa = pa}

\* TCPIPArpTable_GetHWAddr, with the entry refreshed: the first match.
Entry(pa) == CHOOSE s \in Known(pa) : \A q \in Known(pa) : s <= q
-----------------------------------------------------------------------------
(* The buffers.                                                            *)

\* The first buffer of a set, 0 when there is none.
Lowest(S) == IF S = {} THEN 0 ELSE CHOOSE b \in S : \A c \in S : b <= c

\* Mutant: a buffer counts as taken only once its frame is complete.
Search_Unfilled(alloc) == Lowest({b \in Bufs : ~filled[b]})

\* The search of TCPIPRxTx_Alloc; 0 when all are taken.
Search(alloc) == Lowest({b \in Bufs : ~alloc[b]})

\* Alloc yields between a successful search and the mark.
Between(t) == \E u \in Tasks \ {t} : task[u].found # 0
MaySearch(t, alloc) == Exclusive => Search(alloc) = 0 \/ ~Between(t)

Marked(b) == [allocated EXCEPT ![b] = TRUE]

\* TCPIPRxTx_Send of a frame that is complete in buffer b.
Hand(b, f) == /\ filled' = [filled EXCEPT ![b] = TRUE]
              /\ content' = [content EXCEPT ![b] = f]
              /\ handed' = handed \cup {<<b, f>>}

\* Buffers become free.  Their old bytes are forgotten here: whoever gets the
\* buffer next writes his frame before anybody reads it.
Clear(bs) == /\ allocated' = [b \in Bufs |-> allocated[b] /\ b \notin bs]
             /\ filled' = [b \in Bufs |-> filled[b] /\ b \notin bs]
             /\ content' = [b \in Bufs |-> IF b \in bs THEN Blank ELSE content[b]]
             /\ handed' = {h \in handed : h[1] \notin bs}

\* Mutant: a dropped frame keeps its buffer.
Drop_Keep(b) == UNCHANGED bufVars
\* TCPIPRxTx_Drop
Drop(b) == Clear({b})
-----------------------------------------------------------------------------
(* TCPIPIp_Send and TCPIPArp_SendFrame.                                    *)

\* A task calls Alloc for a frame to dst, or for an ARP reply to a host.
Call(t, pc, dst) ==
  /\ MaySearch(t, allocated)
  /\ task' = [task EXCEPT ![t] = [pc |-> pc, dst |-> dst, buf |-> 0, tries |-> 0,
                                  found |-> Search(allocated)]]

SendTo(t) ==
  /\ task[t].pc = "idle"
  /\ \E dst \in Addrs \cup {Bcast} : Call(t, "alloc", dst)
  /\ UNCHANGED <<bufVars, arpVars, txVars>>

\* Alloc found nothing and looks again.
SearchAgain(t) ==
  /\ task[t].pc # "idle" /\ task[t].pc # "sleep" /\ task[t].found = 0
  /\ MaySearch(t, allocated)
  /\ task' = [task EXCEPT ![t].found = Search(allocated)]
  /\ UNCHANGED <<bufVars, arpVars, txVars>>

\* The frame in buffer b leaves for dst: the address is known.
Resolved(t, b, dst) ==
  /\ Known(dst) # {}
  /\ Hand(b, Frame(dst, table[Entry(dst)].ha))
  /\ Touch(Entry(dst)) /\ UNCHANGED table
  /\ task' = [task EXCEPT ![t] = Idle]

\* It is not: SendFrame allocates a second buffer for the ARP request.
Request(t, b, dst, tries, alloc) ==
  /\ Known(dst) = {}
  /\ MaySearch(t, alloc)
  /\ task' = [task EXCEPT ![t] = [pc |-> "request", dst |-> dst, buf |-> b, tries |-> tries,
                                  found |-> Search(alloc)]]
  /\ UNCHANGED arpVars

\* Alloc returns to the sender of a frame: it fills the buffer, and looks for
\* the address unless the frame is a broadcast.
Build(t) ==
  LET b == task[t].found
      dst == task[t].dst
  IN  /\ task[t].pc = "alloc" /\ b # 0
      /\ allocated' = Marked(b)
      /\ \/ /\ dst = Bcast
            /\ Hand(b, Frame(dst, Bcast))
            /\ task' = [task EXCEPT ![t] = Idle]
            /\ UNCHANGED arpVars
         \/ dst # Bcast /\ Resolved(t, b, dst)
         \/ /\ dst # Bcast
            /\ Request(t, b, dst, 0, Marked(b))
            /\ content' = [content EXCEPT ![b] = Frame(dst, None)]
            /\ UNCHANGED <<filled, handed>>
      /\ UNCHANGED txVars

\* Alloc returns to SendFrame: the request goes out and GetHWAddr sleeps.
SendRequest(t) ==
  /\ task[t].pc = "request" /\ task[t].found # 0
  /\ allocated' = Marked(task[t].found)
  /\ Hand(task[t].found, Frame(Bcast, Bcast))
  /\ task' = [task EXCEPT ![t].pc = "sleep", ![t].found = 0, ![t].tries = @ + 1]
  /\ UNCHANGED <<arpVars, txVars>>

\* The end of the sleep: look again, or give up and drop the frame.
Wake(t) ==
  LET b == task[t].buf
      dst == task[t].dst
  IN  /\ task[t].pc = "sleep"
      /\ \/ task[t].tries < Attempts /\ Resolved(t, b, dst) /\ UNCHANGED allocated
         \/ /\ task[t].tries < Attempts
            /\ Request(t, b, dst, task[t].tries, allocated)
            /\ UNCHANGED bufVars
         \/ /\ task[t].tries = Attempts
            /\ Drop(b)
            /\ task' = [task EXCEPT ![t] = Idle]
            /\ UNCHANGED arpVars
      /\ UNCHANGED txVars
-----------------------------------------------------------------------------
(* What the reception task does with ARP frames and with a lost interface. *)

RxReply == /\ task[Rx].pc = "idle"
           /\ \E h \in Hosts : \E pa \in Owns[h] : UpdateTable(h, pa)
           /\ UNCHANGED <<bufVars, task, txVars>>

\* A request for our address: the sender is learnt, then the reply is built.
RxRequest == /\ task[Rx].pc = "idle"
             /\ \E h \in Hosts : \E pa \in Owns[h] :
                  UpdateTable(h, pa) /\ Call(Rx, "reply", h)
             /\ UNCHANGED <<bufVars, txVars>>

SendReply == /\ task[Rx].pc = "reply" /\ task[Rx].found # 0
             /\ allocated' = Marked(task[Rx].found)
             /\ Hand(task[Rx].found, Frame(task[Rx].dst, task[Rx].dst))
             /\ task' = [task EXCEPT ![Rx] = Idle]
             /\ UNCHANGED <<arpVars, txVars>>

\* USBEEM_Recv failed: TCPIP_Reset clears the table.
Reset == /\ task[Rx].pc = "idle"
         /\ table' = [s \in Slots |-> Free] /\ age' = [s \in Slots |-> s]
         /\ UNCHANGED <<bufVars, task, txVars>>
-----------------------------------------------------------------------------
(* TCPIPRxTx_TxTask: one pass over the buffers, from Yield to Yield.       *)

Lesser(a, b) == IF a <= b THEN a ELSE b

\* The buffers still to send in this pass; the one waited for is sent
\* whatever became of it.
Pass == ({tx} \ {0}) \cup {b \in tx + 1 .. BufNum : allocated[b] /\ filled[b]}

\* USBEEM_Send copies the frame and the buffer is free; when the interface is
\* full the task waits in USBEEM_Send with the first buffer not yet sent.
TxPass ==
  /\ Pass # {}
  /\ \E sent \in SUBSET Pass :
       /\ Cardinality(sent) = Lesser(EemCap - eem, Cardinality(Pass))
       /\ \A b \in sent, c \in Pass \ sent : b < c
       /\ eem' = eem + Cardinality(sent)
       /\ tx' = Lowest(Pass \ sent)
       /\ Clear(sent)
  /\ UNCHANGED <<task, arpVars>>

\* USBEEM_Send fails when the interface is full and inactive: the frames are
\* gone all the same.
TxDiscard == /\ Pass # {} /\ eem = EemCap
             /\ tx' = 0
             /\ Clear(Pass)
             /\ UNCHANGED <<eem, task, arpVars>>

\* The USB interface passes frames on to the host.
EemDrain == /\ eem > 0
            /\ \E n \in 0 .. eem - 1 : eem' = n
            /\ UNCHANGED <<bufVars, task, arpVars, tx>>
-----------------------------------------------------------------------------
Step(t) == SearchAgain(t) \/ Build(t) \/ SendRequest(t) \/ Wake(t)

Next == \/ \E t \in Tasks : SendTo(t) \/ Step(t)
        \/ RxReply \/ RxRequest \/ SendReply \/ Reset
        \/ TxPass \/ TxDiscard \/ EemDrain

Spec == Init /\ [][Next]_vars

\* The scheduler runs every task again and again; the host reads frames.
Fairness == /\ \A t \in Tasks : WF_vars(Step(t))
            /\ WF_vars(SendReply)
            /\ WF_vars(TxPass) /\ WF_vars(EemDrain)

FairSpec == Spec /\ Fairness
-----------------------------------------------------------------------------
Owned(t) == {task[t].buf} \ {0}

\* Type invariant.
TypeOK ==
  /\ allocated \in [Bufs -> BOOLEAN] /\ filled \in [Bufs -> BOOLEAN]
  /\ content \in [Bufs -> [dst : Addrs \cup Hosts \cup {None, Bcast},
                           da : Hosts \cup {None, Bcast}]]
  /\ task \in [Tasks -> [pc : {"idle", "alloc", "reply", "request", "sleep"},
                         dst : Addrs \cup Hosts \cup {None, Bcast},
                         buf : 0 .. BufNum, found : 0 .. BufNum, tries : 0 .. Attempts]]
  /\ table \in [Slots -> [ha : Hosts \cup {None}, pa : Addrs \cup {None}]]
  /\ age \in [Slots -> Slots] /\ \A s \in Slots : \E k \in Slots : age[k] = s
  /\ tx \in 0 .. BufNum /\ eem \in 0 .. EemCap

\* Nobody builds a frame in a buffer that another task builds one in, or that
\* waits for transmission: TCPIPRxTx_Alloc hands out free buffers only.
OneOwner ==
  /\ \A t, u \in Tasks : t # u => Owned(t) \cap Owned(u) = {}
  /\ \A t \in Tasks, h \in handed : h[1] \notin Owned(t)
  /\ \A g, h \in handed : g[1] = h[1] => g = h

\* The buffers and the address table are well formed, and what
\* TCPIPRxTx_TxTask will send is exactly what was passed to
\* TCPIPRxTx_Send: nothing is lost, overwritten or sent half-built.
TxExact ==
  /\ TypeOK
  /\ {<<b, content[b]>> : b \in {c \in Bufs : allocated[c] /\ filled[c]} \cup ({tx} \ {0})} = handed

\* A frame for an IP address goes to the link address of its owner, however
\* entries of the table were replaced, refreshed or cleared meanwhile.
Addressed == \A h \in handed : h[2].dst \in Addrs => h[2].dst \in Owns[h[2].da]

\* What goes out is what was handed over, complete and to the host it is for:
\* TCPIPRxTx_Send, _TxTask and TCPIPArpTable_GetHWAddr together.
SentRight == TxExact /\ Addressed

\* Transmission goes on: a complete frame is sent even from the buffer a pass
\* of TCPIPRxTx_TxTask reaches last, however many frames arrive in the buffers
\* before it, and buffers come back: neither a failed resolution nor tasks
\* that hold a buffer while they wait for a second one exhaust them for good.
Progress ==
  /\ (allocated[BufNum] /\ filled[BufNum]) ~> ~(allocated[BufNum] /\ filled[BufNum])
  /\ []<>(\E b \in Bufs : ~allocated[b])
=============================================================================
