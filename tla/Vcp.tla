-------------------------------- MODULE Vcp --------------------------------
(***************************************************************************)
(* The virtual serial port, dev/src/usb_vcp.c, on its two bulk endpoints.  *)
(* Bytes are numbered in the order in which the application, respectively  *)
(* the host, sends them.                                                   *)
(***************************************************************************)
EXTENDS Usb

CONSTANTS VcpQueue,   \* capacity of the two queues
          VcpBytes,   \* bytes that each side sends
          VcpResets   \* bus resets

VARIABLES vcp, vrxf,  \* vcp: endpoints, tasks and queues; vrxf: reception FIFO
          vbus,       \* the host drives a reset; flags of the peripheral
          vhost, vapp \* bytes sent and received by host and application

vcpVars == <<vcp, vrxf, vbus, vhost, vapp>>
ASSUME VcpAssumption == {VcpQueue, VcpBytes} \subseteq Nat \ {0} /\ VcpResets \in Nat

\* USBVCP_Init, and `up' for USBCore_IsConfigured.
VcpInit == /\ vcp = [in |-> InIdle, out |-> OutIdle, up |-> TRUE,
                     rx |-> "start", rxbuf |-> <<>>, tx |-> "get", txbuf |-> <<>>,
                     offs |-> 0, rxq |-> <<>>, txq |-> <<>>]
           /\ vrxf = <<>> /\ vbus = [driven |-> FALSE, flags |-> {}, resets |-> 0]
           /\ vhost = [sent |-> 0, got |-> <<>>]
           /\ vapp = [sent |-> 0, got |-> <<>>]
-----------------------------------------------------------------------------
Traffic == ~vbus.driven /\ vbus.flags = {}

\* USBVCP_RxTask: start a transfer, wait for its end, queue what arrived.
RxTaskStart == /\ vcp.rx = "start"
               /\ vcp' = [vcp EXCEPT !.rx = "wait", !.out = StartOUT(@, Mps, NoCb)]

\* Queue_PutWait: as much as fits, until all is queued.
RxTaskPut ==
  /\ vcp.rx = "put"
  /\ LET n == Least(VcpQueue - Len(vcp.rxq), Len(vcp.rxbuf))
     IN  vcp' = [vcp EXCEPT !.rxq = @ \o SubSeq(vcp.rxbuf, 1, n),
                            !.rxbuf = SubSeq(@, n + 1, Len(@)),
                            !.rx = IF n = Len(vcp.rxbuf) THEN "start" ELSE "put"]

RxTaskWait ==
  /\ vcp.rx = "wait" /\ vcp.out.ec # "busy"
  /\ vcp' = [vcp EXCEPT !.rx = IF vcp.out.ec = "ok" /\ vcp.out.data # <<>> THEN "put" ELSE "start",
                        !.rxbuf = IF vcp.out.ec = "ok" THEN vcp.out.data ELSE <<>>]

RxTask == (RxTaskStart \/ RxTaskPut \/ RxTaskWait) /\ UNCHANGED <<vrxf, vbus, vhost, vapp>>
-----------------------------------------------------------------------------
\* USBVCP_TxTask: collect until the buffer is full or 5 ms are over ...
TxTaskGet(timeout) ==
  /\ vcp.tx = "get"
  /\ LET n == Least(Mps - Len(vcp.txbuf), Len(vcp.txq))
         buf == vcp.txbuf \o SubSeq(vcp.txq, 1, n)
     IN  /\ n > 0 \/ (timeout /\ buf # <<>>)
         /\ vcp' = [vcp EXCEPT !.txq = SubSeq(@, n + 1, Len(@)), !.txbuf = buf, !.offs = 0,
                      !.tx = IF Len(buf) = Mps \/ timeout THEN "start" ELSE "get"]

\* ... then send the buffer until a transfer succeeds.  Every attempt has the
\* full size, so that after a part it would go on behind the buffer.
Behind == -1
TxTaskStart ==
  /\ vcp.tx = "start" /\ (QuietReset => Traffic)
  /\ LET at(i) == vcp.offs + i
         data == [i \in 1 .. Len(vcp.txbuf) |->
                    IF at(i) <= Len(vcp.txbuf) THEN vcp.txbuf[at(i)] ELSE Behind]
     IN  vcp' = [vcp EXCEPT !.tx = "wait", !.in = StartIN(@, data, NoCb, TRUE)]

\* Mutant: a transfer that failed counts as sent.
TxTaskWait_AnyEnd ==
  /\ vcp.tx = "wait" /\ vcp.in.ec # "busy"
  /\ vcp' = [vcp EXCEPT !.tx = "get", !.txbuf = <<>>]

TxTaskWait ==
  /\ vcp.tx = "wait" /\ vcp.in.ec # "busy"
  /\ LET offs == IF vcp.in.ec = "ok" THEN vcp.offs + vcp.in.offs ELSE vcp.offs
         done == offs = Len(vcp.txbuf)
     IN  vcp' = [vcp EXCEPT !.tx = IF done THEN "get" ELSE "start", !.offs = offs,
                            !.txbuf = IF done THEN <<>> ELSE @]

TxTask == /\ TxTaskGet(FALSE) \/ TxTaskGet(TRUE) \/ TxTaskStart \/ TxTaskWait
          /\ UNCHANGED <<vrxf, vbus, vhost, vapp>>

\* USBVCP_Send and USBVCP_Recv, one round of their loops.
VcpSend ==
  /\ vcp.up /\ vapp.sent < VcpBytes /\ Len(vcp.txq) < VcpQueue
  /\ \E n \in 1 .. Least(VcpQueue - Len(vcp.txq), VcpBytes - vapp.sent) :
       /\ vcp' = [vcp EXCEPT !.txq = @ \o [i \in 1 .. n |-> vapp.sent + i]]
       /\ vapp' = [vapp EXCEPT !.sent = @ + n]
  /\ UNCHANGED <<vrxf, vbus, vhost>>
VcpRecv ==
  /\ vcp.up
  /\ \E n \in 1 .. Len(vcp.rxq) :
       /\ vcp' = [vcp EXCEPT !.rxq = SubSeq(@, n + 1, Len(@))]
       /\ vapp' = [vapp EXCEPT !.got = @ \o SubSeq(vcp.rxq, 1, n)]
  /\ UNCHANGED <<vrxf, vbus, vhost>>
-----------------------------------------------------------------------------
\* The pass of USB_HandlerTask, as far as these endpoints go.
VcpHandler ==
  LET p == BulkPass([in |-> vcp.in, out |-> vcp.out], vbus.flags)
      pop == vrxf # <<>> /\ "rst" \notin vbus.flags
  IN  /\ vcp' = [vcp EXCEPT !.in = p.in, !.out = IF pop THEN RxPop(p.out, Head(vrxf)) ELSE p.out,
                            !.up = "enum" \in vbus.flags \/ (@ /\ "rst" \notin vbus.flags)]
      /\ vrxf' = IF pop THEN Tail(vrxf) ELSE <<>>
      /\ vbus' = [vbus EXCEPT !.flags = {}]
      /\ UNCHANGED <<vhost, vapp>>

VcpHostIn ==
  /\ Traffic /\ InReady(vcp.in)
  /\ vcp' = [vcp EXCEPT !.in = InTaken(@)]
  /\ vhost' = [vhost EXCEPT !.got = @ \o SubSeq(vcp.in.fifo, 1, InPacket(vcp.in))]
  /\ UNCHANGED <<vrxf, vbus, vapp>>
VcpHostOut ==
  /\ Traffic /\ vcp.out.ena
  /\ \E n \in 1 .. Least(Mps, VcpBytes - vhost.sent) :
       LET p == [i \in 1 .. n |-> vhost.sent + i]
       IN  /\ vcp' = [vcp EXCEPT !.out = OutTaken(@, p)]
           /\ vrxf' = vrxf \o RxEntries(vcp.out, p)
           /\ vhost' = [vhost EXCEPT !.sent = @ + n]
  /\ UNCHANGED <<vbus, vapp>>
VcpHostReset ==
  /\ Traffic /\ vbus.resets < VcpResets /\ (QuietReset => ~vcp.in.fe)
  /\ vbus' = [driven |-> TRUE, flags |-> {"rst"}, resets |-> vbus.resets + 1]
  /\ UNCHANGED <<vcp, vrxf, vhost, vapp>>
VcpHostResetEnd ==
  /\ vbus.driven
  /\ vbus' = [vbus EXCEPT !.driven = FALSE, !.flags = @ \cup {"enum"}]
  /\ UNCHANGED <<vcp, vrxf, vhost, vapp>>

VcpNext == \/ RxTask \/ TxTask \/ VcpSend \/ VcpRecv \/ VcpHandler
           \/ VcpHostIn \/ VcpHostOut \/ VcpHostReset \/ VcpHostResetEnd
VcpSpec == VcpInit /\ [][VcpNext]_vcpVars
-----------------------------------------------------------------------------
\* Part of the type invariant; a buffer is sent as a whole or not at all.
VcpTypeOK == /\ vcp.in.ec \in Errors /\ vcp.out.ec \in Errors
             /\ Len(vcp.rxq) <= VcpQueue /\ Len(vcp.txq) <= VcpQueue
             /\ Len(vcp.in.fifo) <= FifoRoom
             /\ vcp.tx # "get" => vcp.offs = 0

UpTo(n) == [i \in 1 .. n |-> i]
Ascending(s) == \A i \in 1 .. Len(s) - 1 : s[i] < s[i + 1]

\* The queues keep within their size.  Without a reset both streams arrive
\* complete and in order.  Across resets USBVCP_TxTask repeats what it cannot
\* know to have arrived, so that nothing is lost on the way to the host, and
\* the way to the application may lose what a reset interrupts, but never
\* repeats or reorders a byte.
VcpStream ==
  /\ VcpTypeOK
  /\ vbus.resets = 0 => /\ vhost.got = UpTo(Len(vhost.got))
                        /\ vapp.got = UpTo(Len(vapp.got))
  /\ Ascending(vapp.got \o vcp.rxq)
  /\ \A b \in 1 .. vapp.sent - Len(vcp.txq) - Len(vcp.txbuf) :
       \E i \in 1 .. Len(vhost.got) : vhost.got[i] = b
=============================================================================
