-------------------------------- MODULE Eem --------------------------------
(***************************************************************************)
(* Ethernet emulation over USB, dev/src/usb_eem.c: rings of frames, the    *)
(* tasks that pack them into transfers and take transfers apart, and the   *)
(* detection of the byte order the host uses for the headers.              *)
(*                                                                         *)
(* A header is two bytes of Base values each: a type flag, a CRC flag and  *)
(* a length, or for a command its kind and the length of an echo.  The     *)
(* payload of frame f is len(f) bytes 100 + f, followed by a checksum of   *)
(* Crc bytes.                                                              *)
(***************************************************************************)
EXTENDS Usb, FiniteSets

CONSTANTS EemLen,     \* lengths of the frames, by frame number
          EemRxRing, EemTxRing, \* frames the rings hold
          EemXfer,    \* bytes of a transfer buffer
          EemMax,     \* bytes of a ring buffer: USBEEM_MAX_ETH_FRAME_LEN
          HostXfers,  \* transfers of the host: sequences of frames, 0 an echo, -1 a hint
          EemXfers,   \* transfers the host starts
          HostEnd,    \* byte orders a host may use
          FirstSingle, \* the first transfer after a reset carries a single frame
          EemResets   \* bus resets

VARIABLES eem, erxf,  \* eem: endpoints, tasks, rings, byte order
          ebus, ehost, eapp

eemVars == <<eem, erxf, ebus, ehost, eapp>>
Base == 8
Crc == 1
Frames == 1 .. Len(EemLen)

\* usbeem_hdr_t.  Zero is the empty EEM packet.
HdrType == (Base * Base) \div 2
HdrHint == Base
EchoLen(h) == h % Base
HdrLen(h) == h % ((Base * Base) \div 4)
HdrBytes(h, end) == IF end = "be" THEN <<h \div Base, h % Base>> ELSE <<h % Base, h \div Base>>

EemInit == /\ eem = [in |-> InIdle, out |-> OutIdle, end |-> "unknown",
                     rx |-> "start", xfer |-> <<>>, offs |-> 0, len |-> 0, tx |-> "pack", tail |-> 0,
                     rxring |-> <<>>, txring |-> <<>>, vague |-> FALSE]
           /\ erxf = <<>> /\ ebus = [driven |-> FALSE, flags |-> {}, resets |-> 0]
           /\ ehost \in [end : HostEnd, out : {<<>>}, sent : {<<>>}, part : {<<>>}, got : {<<>>}, first : {TRUE}]
           /\ eapp = [sent |-> <<>>, got |-> <<>>]

Payload(f) == [i \in 1 .. EemLen[f] |-> 100 + f] \o [i \in 1 .. Crc |-> 99]
EemFrame(f, end) == IF f = 0 THEN HdrBytes(HdrType + 2, end) \o <<98, 98>>
                    ELSE IF f = -1 THEN HdrBytes(HdrType + HdrHint, end)
                    ELSE HdrBytes(EemLen[f] + Crc, end) \o Payload(f)
-----------------------------------------------------------------------------
\* USBEEM_ExtractHdrFields: type and payload length.  Echo commands carry a
\* payload too, the others none.
ExtractHdrFields(end, b) ==
  LET h == IF end = "le" THEN b[1] + b[2] * Base ELSE b[1] * Base + b[2]
      type == h >= HdrType
  IN  [type |-> type, len |-> IF ~type THEN HdrLen(h) ELSE IF (h \div HdrHint) % 2 = 0 THEN EchoLen(h) ELSE 0]

\* The order in which the length fits a transfer of one frame, big endian
\* first; the empty packet says nothing.
FitsOne(end, b, size) == ExtractHdrFields(end, b).len + 2 = size
Detect(b, size) ==
  CASE b = <<0, 0>> /\ size = 2 -> "unknown"
    [] FitsOne("be", b, size) -> "be"
    [] FitsOne("le", b, size) -> "le"
    [] OTHER -> "unknown"

\* History: the length fits in both orders, as a length of two equal bytes
\* does, and the order that was tried first is taken.
Vague(b, size) == b # <<0, 0>> /\ FitsOne("be", b, size) /\ FitsOne("le", b, size)

\* USBEEM_RxTask.
EemRxStart == /\ eem.rx = "start"
              /\ eem' = [eem EXCEPT !.rx = "wait", !.out = StartOUT(@, EemXfer, NoCb)]
EemRxWait == /\ eem.rx = "wait" /\ eem.out.ec # "busy"
             /\ eem' = IF eem.out.ec = "ok"
                       THEN [eem EXCEPT !.rx = "parse", !.xfer = eem.out.data, !.offs = 0]
                       ELSE [eem EXCEPT !.rx = "start"]

\* Behind the received bytes the transfer buffer holds leftovers; a header is
\* read there only after the frames were taken apart in the wrong order.
Leftover == -2
HdrAt(offs) == [i \in 1 .. 2 |-> IF offs + i <= Len(eem.xfer) THEN eem.xfer[offs + i] % Base ELSE 0]

\* The header at the current offset and the byte order after it.  An unsettled
\* header is read as little endian, the empty packet as big endian.
EemHdr == LET b == HdrAt(eem.offs)
              known == eem.end # "unknown"
              end == IF known THEN eem.end ELSE Detect(b, Len(eem.xfer))
          IN  [end |-> end, vague |-> ~known /\ Vague(b, Len(eem.xfer)),
               f |-> ExtractHdrFields(IF end = "be" THEN "be" ELSE "le", b)]

RxRoom == Len(eem.rxring) < EemRxRing

\* Mutant: the copy starts at the header.
FramePayload_WithHdr(len) == SubSeq(eem.xfer, eem.offs + 1, eem.offs + len - Crc)

\* The payload without its checksum, as far as the ring buffer holds it.
FramePayload(len) == LET at(i) == eem.offs + 2 + i
                     IN  [i \in 1 .. Least(EemMax, len - Crc) |->
                            IF at(i) <= Len(eem.xfer) THEN eem.xfer[at(i)] ELSE Leftover]
XferRead == eem.offs >= Len(eem.xfer)
EemRxEnd == /\ eem.rx = "parse" /\ XferRead
            /\ eem' = [eem EXCEPT !.rx = "start", !.xfer = <<>>, !.offs = 0]

\* The frame at the current offset: the byte order is settled if it can be,
\* a command is skipped, a frame without checksum ends the transfer.  A data
\* frame is copied at once, or waits for a free buffer with its length read.
EemRxParse ==
  /\ eem.rx = "parse" /\ ~XferRead
  /\ LET h == EemHdr
         at == [eem EXCEPT !.end = h.end, !.vague = @ \/ h.vague]
         next == [at EXCEPT !.offs = @ + h.f.len + 2]
     IN  eem' = IF h.f.type THEN next
                ELSE IF h.f.len < Crc THEN [at EXCEPT !.offs = Len(eem.xfer)]
                ELSE IF RxRoom THEN [next EXCEPT !.rxring = Append(@, FramePayload(h.f.len))]
                ELSE [at EXCEPT !.rx = "room", !.len = h.f.len]
EemRxRoom == /\ eem.rx = "room" /\ RxRoom
             /\ eem' = [eem EXCEPT !.rx = "parse", !.len = 0, !.offs = @ + eem.len + 2,
                                   !.rxring = Append(@, FramePayload(eem.len))]
EemRxTask == (EemRxStart \/ EemRxWait \/ EemRxEnd \/ EemRxParse \/ EemRxRoom) /\ UNCHANGED <<erxf, ebus, ehost, eapp>>
-----------------------------------------------------------------------------
\* USBEEM_TxTask packs the frames of the ring that fit a transfer.  They
\* leave the ring when the transfer succeeded.
Packed(n) == LET part[i \in 0 .. n] == IF i = 0 THEN <<>>
                                       ELSE part[i - 1] \o EemFrame(eem.txring[i], eem.end)
             IN  part[n]
EemTraffic == ~ebus.driven /\ ebus.flags = {}
EemTxPack ==
  /\ QuietReset => EemTraffic
  /\ eem.tx = "pack" /\ eem.end # "unknown" /\ eem.txring # <<>>
  /\ LET fits == {n \in 1 .. Len(eem.txring) : Len(Packed(n)) <= EemXfer}
         n == CHOOSE k \in fits : \A j \in fits : j <= k
     IN  eem' = [eem EXCEPT !.tx = "wait", !.tail = n, !.in = StartIN(@, Packed(n), NoCb, TRUE)]

\* Mutant: the frames leave the ring however the transfer ends.
EemTxWait_AnyEnd ==
  /\ eem.tx = "wait" /\ eem.in.ec # "busy"
  /\ eem' = [eem EXCEPT !.tx = "pack", !.txring = SubSeq(@, eem.tail + 1, Len(@)), !.tail = 0]
EemTxWait ==
  /\ eem.tx = "wait" /\ eem.in.ec # "busy"
  /\ eem' = [eem EXCEPT !.tx = "pack", !.tail = 0,
                !.txring = IF eem.in.ec = "ok" THEN SubSeq(@, eem.tail + 1, Len(@)) ELSE @]
EemTxTask == (EemTxPack \/ EemTxWait) /\ UNCHANGED <<erxf, ebus, ehost, eapp>>

\* USBEEM_Recv and USBEEM_Send, called by the network stack.
EemRecv == /\ eem.rxring # <<>>
           /\ eapp' = [eapp EXCEPT !.got = Append(@, Head(eem.rxring))]
           /\ eem' = [eem EXCEPT !.rxring = Tail(@)]
           /\ UNCHANGED <<erxf, ebus, ehost>>
EemSend == /\ Len(eem.txring) < EemTxRing
           /\ \E f \in {Len(eapp.sent) + 1} \cap Frames :
                /\ eem' = [eem EXCEPT !.txring = Append(@, f)]
                /\ eapp' = [eapp EXCEPT !.sent = Append(@, f)]
           /\ UNCHANGED <<erxf, ebus, ehost>>
-----------------------------------------------------------------------------
EemHandler ==
  LET p == BulkPass([in |-> eem.in, out |-> eem.out], ebus.flags)
      pop == erxf # <<>> /\ "rst" \notin ebus.flags
  IN  /\ eem' = [eem EXCEPT !.in = p.in, !.out = IF pop THEN RxPop(p.out, Head(erxf)) ELSE p.out,
                            !.end = IF "rst" \in ebus.flags THEN "unknown" ELSE @]
      /\ erxf' = IF pop THEN Tail(erxf) ELSE <<>>
      /\ ebus' = [ebus EXCEPT !.flags = {}]
      /\ UNCHANGED <<ehost, eapp>>

\* The host sends the next transfer packet by packet, an empty packet after
\* a full last one, and takes received transfers apart when one is complete.
Concat(xs, end) == LET cat[i \in 0 .. Len(xs)] == IF i = 0 THEN <<>> ELSE cat[i - 1] \o EemFrame(xs[i], end)
                   IN  cat[Len(xs)]
EemHostStart ==
  /\ EemTraffic /\ ehost.out = <<>> /\ Len(ehost.sent) < EemXfers
  /\ \E x \in HostXfers \ {ehost.sent[i] : i \in 1 .. Len(ehost.sent)} :
       LET data == IF x = <<>> THEN <<0, 0>> ELSE Concat(x, ehost.end)
       IN  /\ FirstSingle /\ ehost.first => Len(x) <= 1
           /\ ehost' = [ehost EXCEPT !.sent = Append(@, x), !.out = Append(data, -1),
                                     !.first = @ /\ x = <<>>]
  /\ UNCHANGED <<eem, erxf, ebus, eapp>>
EemHostOut ==
  /\ EemTraffic /\ ehost.out # <<>> /\ eem.out.ena
  /\ LET n == Least(Mps, Len(ehost.out) - 1)
         p == SubSeq(ehost.out, 1, n)
     IN  /\ eem' = [eem EXCEPT !.out = OutTaken(@, p)]
         /\ erxf' = erxf \o RxEntries(eem.out, p)
         /\ ehost' = [ehost EXCEPT !.out = IF n < Mps THEN <<>> ELSE SubSeq(@, n + 1, Len(@))]
  /\ UNCHANGED <<ebus, eapp>>
EemHostIn ==
  /\ EemTraffic /\ InReady(eem.in)
  /\ LET p == SubSeq(eem.in.fifo, 1, InPacket(eem.in))
         data == ehost.part \o p
     IN  ehost' = IF Len(p) < Mps THEN [ehost EXCEPT !.part = <<>>, !.got = Append(@, data)]
                  ELSE [ehost EXCEPT !.part = data]
  /\ eem' = [eem EXCEPT !.in = InTaken(@)]
  /\ UNCHANGED <<erxf, ebus, eapp>>

\* A quiet reset also finds no received transfer that is still to be taken
\* apart: its headers would be read with a byte order that is forgotten.
EemHostReset ==
  /\ EemTraffic /\ ebus.resets < EemResets
  /\ QuietReset => ~eem.in.fe /\ eem.rx = "wait" /\ eem.out.ec = "busy"
  /\ ebus' = [driven |-> TRUE, flags |-> {"rst"}, resets |-> ebus.resets + 1]
  /\ ehost' = [ehost EXCEPT !.out = <<>>, !.part = <<>>, !.first = TRUE]
  /\ UNCHANGED <<eem, erxf, eapp>>
EemHostResetEnd ==
  /\ ebus.driven
  /\ ebus' = [ebus EXCEPT !.driven = FALSE, !.flags = @ \cup {"enum"}]
  /\ UNCHANGED <<eem, erxf, ehost, eapp>>

\* While the reception task takes frames from a transfer no other task runs,
\* until it waits for a buffer.
EemCanParse == eem.rx = "parse"
EemTasks == EemTxTask \/ EemRecv \/ EemSend \/ EemHandler
EemNext == \/ EemRxTask
           \/ ~EemCanParse /\ EemTasks
           \/ EemHostStart \/ EemHostOut \/ EemHostIn \/ EemHostReset \/ EemHostResetEnd
EemFair == /\ WF_eemVars(EemRxTask) /\ WF_eemVars(~EemCanParse /\ EemTxTask)
           /\ WF_eemVars(~EemCanParse /\ EemHandler) /\ WF_eemVars(EemHostIn)
           /\ WF_eemVars(EemHostResetEnd)
-----------------------------------------------------------------------------
\* Part of the type invariant.
EemTypeOK == /\ eem.in.ec \in Errors /\ eem.out.ec \in Errors
             /\ Len(eem.rxring) <= EemRxRing /\ Len(eem.txring) <= EemTxRing
             /\ eem.end \in {"unknown", "le", "be"} /\ Len(eem.in.fifo) <= FifoRoom

\* The frames of the host in the order in which they were sent.
HostFrames == LET cat[i \in 0 .. Len(ehost.sent)] ==
                    IF i = 0 THEN <<>> ELSE cat[i - 1] \o SelectSeq(ehost.sent[i], LAMBDA f : f > 0)
              IN  cat[Len(ehost.sent)]
PosOf(f, s) == CHOOSE i \in 1 .. Len(s) : s[i] = f
Whole(p) == p # <<>> /\ p[1] - 100 \in Frames /\ p = SubSeq(Payload(p[1] - 100), 1, EemLen[p[1] - 100])

\* The condition of the properties below: the byte order was never settled by a
\* length that reads the same in both orders, or it is the one tried first.
Certain == eem.vague => ehost.end = "be"

\* The rings keep within their size and the byte order is not mistaken, which
\* would cost the link until the next reset (USBEEM_RxTask), unless a length
\* that reads the same both ways was all there was to tell it from.  The frames
\* the stack receives are frames of the host, whole, each at most once and in
\* the order in which they were sent.
EemIntact ==
  /\ EemTypeOK
  /\ Certain =>
       /\ eem.end \in {"unknown", ehost.end}
       /\ \A i \in 1 .. Len(eapp.got) : Whole(eapp.got[i])
       /\ \A i, j \in 1 .. Len(eapp.got) : i < j =>
            PosOf(eapp.got[i][1] - 100, HostFrames) < PosOf(eapp.got[j][1] - 100, HostFrames)

\* A transfer the host received holds frame f in the host's byte order.
HostHas(f) == \E i \in 1 .. Len(ehost.got) :
  LET d == ehost.got[i] b == EemFrame(f, ehost.end)
  IN  \E o \in 0 .. Len(d) - Len(b) : SubSeq(d, o + 1, o + Len(b)) = b

\* A frame leaves the transmission ring only when the host has received it, in
\* a transfer the host can take apart (USBEEM_TxTask moves the tail only then).
EemSent == Certain => \A i \in 1 .. Len(eapp.sent) - Len(eem.txring) : HostHas(eapp.sent[i])

\* With the byte order known, frames in the ring are delivered, or a reset
\* makes the order unknown again.
EemDelivers == eem.txring # <<>> /\ eem.end # "unknown" ~> eem.txring = <<>> \/ eem.end = "unknown"
=============================================================================
