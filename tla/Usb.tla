-------------------------------- MODULE Usb --------------------------------
(***************************************************************************)
(* The transfers of dev/src/usb.c, seen from one endpoint, together with   *)
(* the part of the USB peripheral they drive.  Operators map the control   *)
(* block of an endpoint to its next value; UsbCore, Vcp and Eem turn them  *)
(* into actions for the endpoints they own.                                *)
(*                                                                         *)
(* There are no interrupts: USB_HandlerTask polls the flags, and one pass  *)
(* of its loop is atomic because nobody listens to usb_ev with a task.     *)
(***************************************************************************)
EXTENDS Integers, Sequences

CONSTANTS Mps,        \* bytes of a full packet
          FifoRoom,   \* bytes a transmission FIFO holds
          QuietReset  \* no reset hits a transfer whose data is not in the FIFO,
                      \* and no transfer starts while the host drives a reset

ASSUME UsbAssumption == Mps \in Nat \ {0} /\ FifoRoom \in Nat \ {0} /\ FifoRoom >= Mps

NoCb == "none"
Errors == {"ok", "busy", "reset"}
Least(a, b) == IF a <= b THEN a ELSE b

\* usb_ep_t of an IN endpoint: driver fields, then the registers: endpoint
\* enabled, NAK, packets and bytes still to go (DIEPTSIZ), the FIFO, the
\* FIFO-empty mask bit and the pending transfer-complete flag.
InIdle == [ec |-> "ok", data |-> <<>>, offs |-> 0, cb |-> NoCb, zlp |-> FALSE,
           ena |-> FALSE, nak |-> FALSE, pkts |-> 0, left |-> 0, fifo |-> <<>>,
           fe |-> FALSE, xfrc |-> FALSE]

\* usb_ep_t of an OUT endpoint; `data' is what arrived so far, `room' what
\* the buffer of the transfer holds.
OutIdle == [ec |-> "ok", room |-> 0, data |-> <<>>, cb |-> NoCb,
            ena |-> FALSE, pkts |-> 0, xfrc |-> FALSE, stup |-> FALSE]

\* Full and partial packets of a transfer; an empty one is a packet too.
PktCnt(size) == IF size = 0 THEN 1 ELSE (size + Mps - 1) \div Mps
-----------------------------------------------------------------------------
\* USB_StartINTransfer: nothing happens while a transfer is in progress.
\* Bulk transfers that fill their last packet are followed by an empty one.
StartIN(k, data, cb, bulk) ==
  IF k.ec = "busy" THEN k
  ELSE LET size == Len(data) IN
       [k EXCEPT !.ec = "busy", !.data = data, !.offs = 0, !.cb = cb,
                 !.zlp = IF bulk THEN PktCnt(size) * Mps = size ELSE @,
                 !.pkts = PktCnt(size), !.left = size,
                 !.ena = TRUE, !.nak = FALSE, !.fe = @ \/ size > 0]

\* USB_StartOUTTransfer.
StartOUT(k, room, cb) ==
  IF k.ec = "busy" THEN k
  ELSE [k EXCEPT !.ec = "busy", !.room = room, !.data = <<>>, !.cb = cb,
                 !.pkts = PktCnt(room), !.ena = TRUE]

\* USB_StartSETUPTransfer: SETUP packets need no enabled endpoint.
StartSETUP(k, room, cb) ==
  IF k.ec = "busy" THEN k
  ELSE [k EXCEPT !.ec = "busy", !.room = room, !.data = <<>>, !.cb = cb]

\* USB_FinishTransfer without the callback, which the owner runs next.
Finished(k, ec) == [k EXCEPT !.ec = ec, !.cb = NoCb]

\* USB_HandleInEpIsr, transfer complete: the follow-up empty packet.
NeedsZlp(k) == k.xfrc /\ k.zlp
SendZlp(k) == [k EXCEPT !.xfrc = FALSE, !.zlp = FALSE, !.pkts = 1, !.left = 0,
                        !.ena = TRUE, !.nak = FALSE]

\* USB_WritePacket: what the FIFO has room for.
WritePacket(k) == Least(FifoRoom - Len(k.fifo), Len(k.data) - k.offs)

\* Mutant: the interrupt is masked after the first part.
FillFifo_MaskAlways(k) ==
  LET n == WritePacket(k)
  IN  [k EXCEPT !.fifo = @ \o SubSeq(k.data, k.offs + 1, k.offs + n),
                !.offs = @ + n, !.fe = FALSE]

\* USB_HandleInEpIsr, FIFO empty: the next part of the transfer is written;
\* the interrupt is masked once everything is in the FIFO.
FillFifo(k) ==
  LET n == WritePacket(k)
  IN  [k EXCEPT !.fifo = @ \o SubSeq(k.data, k.offs + 1, k.offs + n),
                !.offs = @ + n, !.fe = k.offs + n < Len(k.data)]

\* USB_ReadPacket and USB_DumpPacket: what fits the buffer of the transfer in
\* progress is read, the rest is dumped.
ReadPacket(k, data) ==
  LET room == IF k.ec = "busy" THEN k.room - Len(k.data) ELSE 0
  IN  SubSeq(data, 1, Least(room, Len(data)))

\* USB_HandleRxlvlIsr: the entry at the front of the reception FIFO.
\* Popping a status entry raises the flag it stands for.
RxPop(k, e) ==
  CASE e.kind \in {"data", "setup"} -> [k EXCEPT !.data = @ \o ReadPacket(k, e.data)]
    [] e.kind = "done" -> [k EXCEPT !.xfrc = TRUE]
    [] e.kind = "setupdone" -> [k EXCEPT !.stup = TRUE]

\* USB_HandleReset for one endpoint: FIFOs are flushed, endpoints disabled,
\* flags cleared.  The control block and DIEPEMPMSK keep their values.
InReset(k) == [k EXCEPT !.fifo = <<>>, !.ena = FALSE, !.xfrc = FALSE]
OutReset(k) == [k EXCEPT !.ena = FALSE, !.xfrc = FALSE, !.stup = FALSE]

\* One pass of USB_HandlerTask over the bulk endpoints p.in and p.out, which
\* have no callbacks, given the bus flags that are up.
InPass(k) == LET a == IF NeedsZlp(k) THEN SendZlp(k)
                      ELSE IF k.xfrc THEN Finished([k EXCEPT !.xfrc = FALSE], "ok") ELSE k
             IN  IF k.fe THEN FillFifo(a) ELSE a
OutPass(k) == IF k.xfrc THEN Finished([k EXCEPT !.xfrc = FALSE], "ok") ELSE k
BulkPass(p, flags) ==
  LET in1 == IF "rst" \in flags THEN InReset(p.in) ELSE p.in
      out1 == IF "rst" \in flags THEN OutReset(p.out) ELSE p.out
  IN  [in  |-> InPass(IF "enum" \in flags THEN Finished(in1, "reset") ELSE in1),
       out |-> OutPass(IF "enum" \in flags THEN Finished(out1, "reset") ELSE out1)]
-----------------------------------------------------------------------------
(* The peripheral, driven by the host.                                     *)

\* An IN token is answered once a whole packet is in the FIFO.
InPacket(k) == Least(Mps, k.left)
InReady(k) == k.ena /\ ~k.nak /\ k.pkts > 0 /\ Len(k.fifo) >= InPacket(k)
InTaken(k) == LET n == InPacket(k) IN
  [k EXCEPT !.fifo = SubSeq(@, n + 1, Len(@)), !.left = @ - n, !.pkts = @ - 1,
            !.ena = k.pkts > 1, !.xfrc = k.pkts = 1]

\* A short packet or the last one of the programmed count ends a transfer.
OutLast(k, p) == Len(p) < Mps \/ k.pkts = 1
OutTaken(k, p) == [k EXCEPT !.pkts = @ - 1, !.ena = ~OutLast(k, p)]
RxEntry(kind, data) == [kind |-> kind, data |-> data]
RxEntries(k, p) == <<RxEntry("data", p)>> \o
                   IF OutLast(k, p) THEN <<RxEntry("done", <<>>)>> ELSE <<>>
=============================================================================
