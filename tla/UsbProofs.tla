------------------------------ MODULE UsbProofs ------------------------------
(***************************************************************************)
(* Proofs about the control endpoint (UsbCore) and, in the second half, the*)
(* serial port (Vcp), both on the facts about the endpoints (Usb).         *)
(*                                                                         *)
(* The inductive invariant describes a control transfer as a sequence of   *)
(* phases, each a predicate on the endpoint c, the reception FIFO q and    *)
(* the host h: what both control blocks, the registers and the FIFOs hold, *)
(* what the host has received, and how far the request has been applied.   *)
(* One pass of USB_HandlerTask, and each step of the host, lead from a     *)
(* phase to a phase.  The host may be ahead of the handler: the next setup *)
(* frame can be queued behind the end of the previous transfer (Between).  *)
(***************************************************************************)
EXTENDS UsbCore, Vcp, SequenceTheorems, TLAPS

\* Types.
Callbacks == {NoCb, "setup", "datain", "dataout", "statusin", "statusout"}
InRec == [ec : Errors, data : Seq(Int), offs : Nat, cb : Callbacks, zlp : BOOLEAN, ena : BOOLEAN,
          nak : BOOLEAN, pkts : Nat, left : Nat, fifo : Seq(Int), fe : BOOLEAN, xfrc : BOOLEAN]
OutRec == [ec : Errors, room : Nat, data : Seq(Int \cup Requests), cb : Callbacks, ena : BOOLEAN,
           pkts : Nat, xfrc : BOOLEAN, stup : BOOLEAN]
CtlRec == [ptr : BOOLEAN, data : Seq(Int), size : Nat, offset : Nat, setup : Requests \cup {<<>>}]
DevRec == [state : {"default", "address", "configured"}, address : Nat, configuration : Nat,
           halt_tx : SUBSET Nat, halt_rx : SUBSET Nat, alternate : Nat]
CoreRec == [in : InRec, out : OutRec, ctl : CtlRec, dev : DevRec, le : Seq(Int)]
HostRec == [st : {"idle", "in", "out", "statusin", "statusout", "reset"},
            req : Requests \cup {NoReq}, got : Seq(Int), sent : Seq(Int),
            addr : Nat, cfg : Nat, coding : Int]

\* An endpoint without a transfer.
InFree(k) == /\ k.ec # "busy" /\ k.cb = NoCb /\ ~k.ena /\ ~k.fe /\ ~k.xfrc /\ k.fifo = <<>>
OutFree(k) == /\ k.ec # "busy" /\ k.cb = NoCb /\ ~k.ena /\ ~k.xfrc /\ ~k.stup /\ k.data = <<>>

\* The device is in the state that goes with this address and configuration.
DevAgrees(d, addr, cfg) ==
  /\ d.address = addr /\ d.configuration = cfg
  /\ d.state = IF cfg # 0 THEN "configured" ELSE IF addr # 0 THEN "address" ELSE "default"
  /\ cfg # 0 => addr # 0
Settled(c, h) == DevAgrees(c.dev, h.addr, h.cfg)

\* The stage of the host behind a setup frame, and what the frame leaves in
\* the FIFO.  Between two transfers, `tail' is queued, and maybe the next frame.
FirstStage(s) == IF s.length = 0 THEN "statusin" ELSE IF s.dir = "in" THEN "in" ELSE "out"
SetupPair(s) == <<RxEntry("setup", <<s>>), RxEntry("setupdone", <<>>)>>
AtFirst(c, h) == /\ h.req \in Requests /\ h.st = FirstStage(h.req) /\ h.got = <<>>
                 /\ c.in.nak /\ (h.req.req = "set_line" => h.coding = Unknown)
Between(c, q, h, tail) == \/ h.st = "idle" /\ q = tail
                          \/ AtFirst(c, h) /\ q = tail \o SetupPair(h.req)
DataEntry(p) == RxEntry("data", p)
DoneEntry == RxEntry("done", <<>>)

\* Waiting for a setup frame, taking it from the FIFO, having refused it.
OutSetup(k) == k.ec = "busy" /\ k.cb = "setup" /\ k.room = 3 /\ ~k.ena /\ ~k.xfrc
Listening(c, q, h) ==
  /\ InFree(c.in) /\ OutSetup(c.out) /\ ~c.out.stup /\ c.out.data = <<>> /\ ~c.ctl.ptr /\ Settled(c, h)
  /\ Between(c, q, h, <<>>)
Framing(c, q, h) ==
  /\ InFree(c.in) /\ OutSetup(c.out) /\ Settled(c, h) /\ AtFirst(c, h)
  /\ c.out.data = <<h.req>> /\ ~c.ctl.ptr
  /\ IF c.out.stup THEN q = <<>> ELSE q = <<RxEntry("setupdone", <<>>)>>
Refusing(c, q, h) ==
  /\ InFree(c.in) /\ OutSetup(c.out) /\ ~c.out.stup /\ c.out.data = <<>> /\ ~c.ctl.ptr /\ Settled(c, h)
  /\ AtFirst(c, h) /\ q = <<>>

\* The data stage towards the host.  IsAnswer is what the data must be; none
\* fills its last packet.
IsAnswer(a, h) ==
  /\ Len(a) \in 0 .. Mps + 1 /\ Len(a) # Mps /\ Len(a) <= h.req.length
  /\ h.req.req = "get_descriptor" => a = Descriptor(h.req)
  /\ h.req.req = "get_configuration" => a = <<h.cfg>>
  /\ h.req.req = "get_line" /\ h.coding # Unknown => a = <<h.coding>>
Rest(c) == c.ctl.size - c.ctl.offset
Part(c) == CtlPart(c.ctl, c.ctl.offset)
Answering(c, h) ==
  /\ Settled(c, h) /\ h.req \in Requests
  /\ IsAnswer(c.ctl.data, h) /\ c.ctl.size = Len(c.ctl.data)
  /\ c.ctl.offset = 0 \/ (c.ctl.offset = Mps /\ c.ctl.size = Mps + 1)
InSending(k) == k.ec = "busy" /\ k.cb = "datain" /\ k.ena /\ ~k.nak /\ k.pkts = 1 /\ ~k.xfrc
InSent(k) == k.ec = "busy" /\ k.cb = "datain" /\ ~k.ena /\ k.xfrc /\ ~k.fe /\ k.fifo = <<>>
OutStatus(k) == k.ec = "busy" /\ k.cb = "statusout" /\ k.data = <<>> /\ ~k.stup
OutArmed(k) == OutStatus(k) /\ k.ena /\ k.pkts = 1 /\ ~k.xfrc
Sending(c, q, h) ==
  /\ Answering(c, h) /\ h.st = "in" /\ h.got = SubSeq(c.ctl.data, 1, c.ctl.offset)
  /\ OutArmed(c.out) /\ q = <<>> /\ InSending(c.in)
  /\ c.in.data = Part(c) /\ c.in.left = Len(Part(c))
  /\ IF c.in.fe THEN c.in.fifo = <<>> /\ c.in.offs = 0 /\ Len(Part(c)) > 0 ELSE c.in.fifo = Part(c)
Sent(c, q, h) ==
  /\ Answering(c, h) /\ OutArmed(c.out) /\ q = <<>> /\ InSent(c.in)
  /\ h.got = SubSeq(c.ctl.data, 1, c.ctl.offset + Len(Part(c)))
  /\ h.st = IF Rest(c) >= Mps THEN "in" ELSE "statusout"
Answered(c, q, h) ==
  /\ Answering(c, h) /\ OutArmed(c.out) /\ q = <<>> /\ InFree(c.in)
  /\ h.st = "statusout" /\ h.got = c.ctl.data
Ending(c, q, h) ==
  /\ Settled(c, h) /\ OutStatus(c.out) /\ ~c.out.ena
  /\ \/ ~c.out.xfrc /\ InSent(c.in) /\ Rest(c) < Mps /\ Between(c, q, h, <<DataEntry(<<>>), DoneEntry>>)
     \/ ~c.out.xfrc /\ InFree(c.in) /\ Between(c, q, h, <<DataEntry(<<>>), DoneEntry>>)
     \/ ~c.out.xfrc /\ InFree(c.in) /\ Between(c, q, h, <<DoneEntry>>)
     \/ c.out.xfrc /\ InFree(c.in) /\ Between(c, q, h, <<>>)

\* The data stage from the host: only `set line coding' has one.
OutReading(k) == k.ec = "busy" /\ k.cb = "dataout" /\ k.room = 1 /\ ~k.stup
Taking(c, q, h) ==
  /\ Settled(c, h) /\ InFree(c.in) /\ OutReading(c.out) /\ c.ctl.ptr
  /\ h.req \in Requests /\ c.ctl.setup = h.req /\ h.req.req = "set_line" /\ h.req.length # 0
  /\ h.coding = Unknown
  /\ \/ /\ h.st = "out" /\ q = <<>>
        /\ c.out.ena /\ c.out.pkts = 1 /\ ~c.out.xfrc /\ c.out.data = <<>>
     \/ /\ h.st = "statusin" /\ ~c.out.ena /\ Len(h.sent) = 1
        /\ \/ q = <<DataEntry(h.sent), DoneEntry>> /\ c.out.data = <<>> /\ ~c.out.xfrc
           \/ q = <<DoneEntry>> /\ c.out.data = h.sent /\ c.le = h.sent /\ ~c.out.xfrc
           \/ q = <<>> /\ c.out.data = h.sent /\ c.le = h.sent /\ c.out.xfrc

\* The status stage towards the host: the request is applied, the host does
\* not know yet.
Applied(c, h) ==
  DevAgrees(c.dev, IF h.req.req = "set_address" THEN h.req.value ELSE h.addr,
                   IF h.req.req = "set_configuration" THEN h.req.value ELSE h.cfg)
InEmpty(k) == k.ec = "busy" /\ k.cb = "statusin" /\ k.fifo = <<>> /\ ~k.fe
Confirming(c, q, h) ==
  /\ InEmpty(c.in) /\ c.in.ena /\ ~c.in.nak /\ c.in.pkts = 1 /\ c.in.left = 0 /\ ~c.in.xfrc
  /\ OutFree(c.out) /\ q = <<>> /\ h.st = "statusin" /\ h.req \in Requests /\ Applied(c, h)
  /\ h.req.req = "set_line" => c.le = h.sent /\ Len(h.sent) = 1
Confirmed(c, q, h) ==
  /\ InEmpty(c.in) /\ ~c.in.ena /\ c.in.xfrc /\ OutFree(c.out)
  /\ Settled(c, h) /\ Between(c, q, h, <<>>)

Phase(c, q, h) == \/ Listening(c, q, h) \/ Framing(c, q, h) \/ Refusing(c, q, h)
                  \/ Sending(c, q, h) \/ Sent(c, q, h) \/ Answered(c, q, h) \/ Ending(c, q, h)
                  \/ Taking(c, q, h) \/ Confirming(c, q, h) \/ Confirmed(c, q, h)

\* After a reset; the line coding survives it.
Flushed(c) == /\ ~c.in.fe /\ ~c.in.ena /\ ~c.in.xfrc /\ c.in.fifo = <<>>
              /\ ~c.out.ena /\ ~c.out.xfrc /\ ~c.out.stup /\ c.dev = DevReset
LineOK(c, h) == Len(c.le) = 1 /\ (h.coding # Unknown => c.le = <<h.coding>>)
InBounds(k) == k.offs <= Len(k.data) /\ Len(k.fifo) <= FifoRoom
CoreTypes(c, h) == c \in CoreRec /\ h \in HostRec /\ InBounds(c.in) /\ LineOK(c, h)
Work(c, q, b, h) ==
  IF b = {} /\ h.st # "reset" THEN Phase(c, q, h)
  ELSE /\ h.addr = 0 /\ h.cfg = 0
       /\ IF "rst" \in b THEN ~c.in.fe ELSE Flushed(c) /\ q = <<>>
       /\ IF "enum" \in b THEN h.st = "idle" ELSE h.st = "reset"
CoreInv == /\ CoreTypes(core, host) /\ bus \subseteq {"rst", "enum"}
           /\ Work(core, rxf, bus, host)
-----------------------------------------------------------------------------
LEMMA LeastInt == ASSUME NEW a \in Int, NEW b \in Int
                  PROVE  Least(a, b) \in Int /\ Least(a, b) <= a /\ Least(a, b) <= b
                         /\ (Least(a, b) = a \/ Least(a, b) = b)
BY DEF Least

LEMMA OnePacket == ASSUME NEW n \in 0 .. Mps PROVE PktCnt(n) = 1
<1> n \in Nat /\ n <= Mps /\ Mps \in Nat /\ Mps > 0
  BY UsbAssumption
<1>1. CASE n = 0
  BY <1>1 DEF PktCnt
<1>2. CASE n # 0
  <2>1. n + Mps - 1 = Mps + (n - 1) /\ n - 1 \in 0 .. Mps - 1
    BY <1>2
  <2>2. (n + Mps - 1) \div Mps = 1
    BY <2>1, SMTT(30)
  <2> QED BY <1>2, <2>2 DEF PktCnt
<1> QED BY <1>1, <1>2

LEMMA Words == /\ "ok" \in Errors /\ "busy" \in Errors /\ "reset" \in Errors /\ NoCb \in Callbacks /\ "setup" \in Callbacks
               /\ "datain" \in Callbacks /\ "dataout" \in Callbacks /\ "statusin" \in Callbacks
               /\ "statusout" \in Callbacks
BY DEF Errors, Callbacks

LEMMA Empties == <<>> \in Seq(Int \cup Requests) /\ <<>> \in Seq(Int) /\ Len(<<>>) = 0
OBVIOUS

LEMMA NoInts == ASSUME NEW a \in Seq(Int), Len(a) = 0 PROVE a = <<>>
OBVIOUS

LEMMA InFields ==
  ASSUME NEW k \in InRec
  PROVE  /\ k.ec \in Errors /\ k.data \in Seq(Int) /\ k.offs \in Nat /\ k.cb \in Callbacks
         /\ k.pkts \in Nat /\ k.left \in Nat /\ k.fifo \in Seq(Int)
         /\ Len(k.data) \in Nat /\ Len(k.fifo) \in Nat
BY LenProperties DEF InRec

CtlIN(k, d, cb) == StartIN(k, d, cb, FALSE)

LEMMA StartINFields ==
  ASSUME NEW k \in InRec, k.ec # "busy", NEW d \in Seq(Int), Len(d) <= Mps, NEW cb \in Callbacks
  PROVE  LET r == CtlIN(k, d, cb)
         IN  /\ r \in InRec /\ r.ec = "busy" /\ r.cb = cb /\ r.data = d /\ r.offs = 0
             /\ r.pkts = 1 /\ r.left = Len(d) /\ r.ena /\ ~r.nak /\ (r.fe <=> k.fe \/ Len(d) > 0)
             /\ r.fifo = k.fifo /\ r.xfrc = k.xfrc
<1>1. Len(d) \in 0 .. Mps /\ Len(d) \in Nat
  BY LenProperties, UsbAssumption
<1>2. PktCnt(Len(d)) = 1 /\ 1 \in Nat /\ 0 \in Nat
  BY <1>1, OnePacket
<1>3. CtlIN(k, d, cb) \in InRec
  BY <1>1, <1>2, Words DEF CtlIN, StartIN, InRec
<1> QED BY <1>2, <1>3 DEF CtlIN, StartIN, InRec

LEMMA SendPart ==
  ASSUME NEW k \in InRec, k.ec # "busy", ~k.fe, ~k.xfrc, NEW d \in Seq(Int), Len(d) \in 0 .. Mps,
         NEW x, x = CtlIN(k, d, "datain")
  PROVE  /\ x \in InRec /\ x.ec = "busy" /\ x.cb = "datain" /\ x.data = d /\ x.offs = 0
         /\ x.pkts = 1 /\ x.left = Len(d) /\ x.ena /\ ~x.nak /\ (x.fe <=> Len(d) > 0) /\ x.fifo = k.fifo /\ ~x.xfrc
<1>1. "datain" \in Callbacks /\ Len(d) <= Mps
  BY Words, UsbAssumption
<1> QED BY <1>1, StartINFields

LEMMA StartOUTFields ==
  ASSUME NEW k \in OutRec, k.ec # "busy", NEW room \in 0 .. Mps, NEW cb \in Callbacks
  PROVE  LET r == StartOUT(k, room, cb)
         IN  /\ r \in OutRec /\ r.ec = "busy" /\ r.cb = cb /\ r.data = <<>> /\ r.room = room
             /\ r.pkts = 1 /\ r.ena /\ r.xfrc = k.xfrc /\ r.stup = k.stup
<1>1. PktCnt(room) = 1 /\ room \in Nat /\ 1 \in Nat
  BY OnePacket, UsbAssumption
<1>2. StartOUT(k, room, cb) \in OutRec
  BY <1>1, Words, Empties DEF StartOUT, OutRec
<1> QED BY <1>1, <1>2 DEF StartOUT, OutRec

LEMMA StartSETUPFields ==
  ASSUME NEW k \in OutRec, k.ec # "busy"
  PROVE  LET r == StartSETUP(k, 3, "setup")
         IN  /\ r \in OutRec /\ r.ec = "busy" /\ r.cb = "setup" /\ r.data = <<>> /\ r.room = 3
             /\ r.ena = k.ena /\ r.xfrc = k.xfrc /\ r.stup = k.stup
<1>1. StartSETUP(k, 3, "setup") \in OutRec
  BY Words, Empties, 3 \in Nat DEF StartSETUP, OutRec
<1> QED BY <1>1 DEF StartSETUP, OutRec

LEMMA FillFields ==
  ASSUME NEW k \in InRec, k.fifo = <<>>, k.offs = 0, Len(k.data) <= Mps
  PROVE  LET r == FillFifo(k)
         IN  /\ r \in InRec /\ r.fifo = k.data /\ r.offs = Len(k.data) /\ ~r.fe /\ r.ec = k.ec
             /\ r.data = k.data /\ r.cb = k.cb /\ r.ena = k.ena /\ r.nak = k.nak
             /\ r.pkts = k.pkts /\ r.left = k.left /\ r.xfrc = k.xfrc
<1>1. k.data \in Seq(Int) /\ Len(k.data) \in Nat
  BY InFields
<1>2. WritePacket(k) = Len(k.data)
  BY <1>1, UsbAssumption DEF WritePacket, Least
<1>3. SubSeq(k.data, 1, Len(k.data)) = k.data /\ <<>> \o k.data = k.data
  BY <1>1
<1>4. /\ k.fifo \o SubSeq(k.data, k.offs + 1, k.offs + Len(k.data)) = k.data
      /\ k.offs + Len(k.data) = Len(k.data) /\ ~(k.offs + Len(k.data) < Len(k.data))
  BY <1>1, <1>3
<1>5. FillFifo(k) \in InRec
  <2> DEFINE n == WritePacket(k)
             f == k.fifo \o SubSeq(k.data, k.offs + 1, k.offs + n)
             o == k.offs + n
             e == k.offs + n < Len(k.data)
  <2>1. f \in Seq(Int) /\ o \in Nat /\ e \in BOOLEAN
    BY <1>1, <1>2, <1>4
  <2>2. FillFifo(k) = [k EXCEPT !.fifo = f, !.offs = o, !.fe = e]
    BY DEF FillFifo
  <2> HIDE DEF f, o, e
  <2> QED BY <2>1, <2>2 DEF InRec
<1> QED BY <1>1, <1>2, <1>4, <1>5 DEF FillFifo, InRec

LEMMA TakenFields ==
  ASSUME NEW k \in InRec, k.pkts = 1, k.left = Len(k.fifo), Len(k.fifo) <= Mps
  PROVE  LET r == InTaken(k)
         IN  /\ r \in InRec /\ r.fifo = <<>> /\ ~r.ena /\ r.xfrc /\ r.ec = k.ec /\ r.cb = k.cb
             /\ r.fe = k.fe /\ r.nak = k.nak /\ r.data = k.data /\ r.offs = k.offs
<1>1. k.fifo \in Seq(Int) /\ Len(k.fifo) \in Nat
  BY InFields
<1>2. InPacket(k) = Len(k.fifo)
  BY <1>1, UsbAssumption DEF InPacket, Least
<1>3. SubSeq(k.fifo, Len(k.fifo) + 1, Len(k.fifo)) = <<>>
  BY <1>1
<1>4. /\ k.left - Len(k.fifo) = 0 /\ k.pkts - 1 = 0 /\ ~(k.pkts > 1)
      /\ k.left - Len(k.fifo) \in Nat /\ k.pkts - 1 \in Nat
  BY <1>1
<1>5. InTaken(k) \in InRec
  <2> DEFINE n == InPacket(k)
             f == SubSeq(k.fifo, n + 1, Len(k.fifo))
             l == k.left - n
             p == k.pkts - 1
             e == k.pkts > 1
             x == k.pkts = 1
  <2>1. f \in Seq(Int) /\ l \in Nat /\ p \in Nat /\ e \in BOOLEAN /\ x \in BOOLEAN
    BY <1>2, <1>3, <1>4, Empties
  <2>2. InTaken(k) = [k EXCEPT !.fifo = f, !.left = l, !.pkts = p, !.ena = e, !.xfrc = x]
    BY DEF InTaken
  <2> HIDE DEF f, l, p, e, x
  <2> QED BY <2>1, <2>2 DEF InRec
<1> QED BY <1>2, <1>3, <1>4, <1>5 DEF InTaken, InRec

LEMMA OutTakenFields ==
  ASSUME NEW k \in OutRec, k.pkts = 1, NEW p
  PROVE  LET r == OutTaken(k, p)
         IN  /\ r \in OutRec /\ r.ec = k.ec /\ r.cb = k.cb /\ r.data = k.data /\ r.room = k.room
             /\ ~r.ena /\ r.xfrc = k.xfrc /\ r.stup = k.stup
<1>1. OutTaken(k, p) \in OutRec
  BY k.pkts - 1 \in Nat DEF OutTaken, OutLast, OutRec
<1> QED BY <1>1 DEF OutTaken, OutLast, OutRec
-----------------------------------------------------------------------------
(* The operations of the control endpoint.                                 *)

LEMMA CoreFields ==
  ASSUME NEW c \in CoreRec
  PROVE  /\ c.in \in InRec /\ c.out \in OutRec /\ c.ctl \in CtlRec /\ c.dev \in DevRec
         /\ c.le \in Seq(Int)
BY DEF CoreRec

LEMMA CoreSetIn ==
  ASSUME NEW c \in CoreRec, NEW x \in InRec
  PROVE  LET r == [c EXCEPT !.in = x]
         IN  /\ r \in CoreRec /\ r.in = x /\ r.out = c.out /\ r.ctl = c.ctl /\ r.dev = c.dev
             /\ r.le = c.le
BY DEF CoreRec

LEMMA CoreSetOut ==
  ASSUME NEW c \in CoreRec, NEW x \in OutRec
  PROVE  LET r == [c EXCEPT !.out = x]
         IN  /\ r \in CoreRec /\ r.out = x /\ r.in = c.in /\ r.ctl = c.ctl /\ r.dev = c.dev
             /\ r.le = c.le
BY DEF CoreRec

LEMMA CtlIdleTyped == CtlIdle \in CtlRec /\ ~CtlIdle.ptr
BY Empties, 0 \in Nat DEF CtlIdle, CtlRec

LEMMA FinishedIn ==
  ASSUME NEW k \in InRec, NEW ec \in Errors
  PROVE  LET r == Finished(k, ec)
         IN  /\ r \in InRec /\ r.ec = ec /\ r.cb = NoCb /\ r.ena = k.ena /\ r.nak = k.nak
             /\ r.fe = k.fe /\ r.xfrc = k.xfrc /\ r.fifo = k.fifo /\ r.data = k.data
             /\ r.offs = k.offs
BY Words DEF Finished, InRec

Emptied(k, ec) == [Finished(k, ec) EXCEPT !.data = <<>>]

LEMMA EmptiedOut ==
  ASSUME NEW k \in OutRec, NEW ec \in Errors
  PROVE  LET r == Emptied(k, ec)
         IN  /\ r \in OutRec /\ r.ec = ec /\ r.cb = NoCb /\ r.data = <<>> /\ r.ena = k.ena
             /\ r.xfrc = k.xfrc /\ r.stup = k.stup
<1>1. Finished(k, ec) \in OutRec
  BY Words DEF Finished, OutRec
<1>2. LET r == Finished(k, ec)
      IN  r.ec = ec /\ r.cb = NoCb /\ r.ena = k.ena /\ r.xfrc = k.xfrc /\ r.stup = k.stup
  BY Words DEF Finished, OutRec
<1> DEFINE f == Finished(k, ec)
<1> HIDE DEF f
<1>3. f \in OutRec BY <1>1 DEF f
<1>4. LET r == [f EXCEPT !.data = <<>>]
      IN  /\ r \in OutRec /\ r.ec = f.ec /\ r.cb = f.cb /\ r.data = <<>> /\ r.ena = f.ena
          /\ r.xfrc = f.xfrc /\ r.stup = f.stup
  BY <1>3, Empties DEF OutRec
<1> QED BY <1>2, <1>4 DEF f, Emptied

\* StartSETUPStage leaves the endpoint listening.
LEMMA SetupStage ==
  ASSUME NEW c \in CoreRec, c.out.ec # "busy"
  PROVE  LET r == StartSETUPStage(c)
         IN  /\ r \in CoreRec /\ r.in = c.in /\ r.dev = c.dev /\ r.le = c.le /\ ~r.ctl.ptr
             /\ r.out.ec = "busy" /\ r.out.cb = "setup" /\ r.out.data = <<>> /\ r.out.room = 3
             /\ r.out.ena = c.out.ena /\ r.out.xfrc = c.out.xfrc /\ r.out.stup = c.out.stup
<1> DEFINE x == StartSETUP(c.out, 3, "setup")
<1>1. c.out \in OutRec
  BY CoreFields
<1>2. /\ x \in OutRec /\ x.ec = "busy" /\ x.cb = "setup" /\ x.data = <<>> /\ x.room = 3
      /\ x.ena = c.out.ena /\ x.xfrc = c.out.xfrc /\ x.stup = c.out.stup
  BY <1>1, StartSETUPFields
<1>3. StartSETUPStage(c) = [c EXCEPT !.ctl = CtlIdle, !.out = x]
  BY DEF StartSETUPStage
<1> HIDE DEF x
<1>4. LET r == [c EXCEPT !.ctl = CtlIdle, !.out = x]
      IN  r \in CoreRec /\ r.in = c.in /\ r.dev = c.dev /\ r.le = c.le /\ r.ctl = CtlIdle /\ r.out = x
  BY <1>2, CtlIdleTyped DEF CoreRec
<1> QED BY <1>2, <1>3, <1>4, CtlIdleTyped

\* An endpoint without pending flags is left alone.
LEMMA OutEpIdle ==
  ASSUME NEW c, ~c.out.xfrc, ~c.out.stup PROVE HandleOutEp(c) = c
BY DEF HandleOutEp

LEMMA InEpIdle ==
  ASSUME NEW c, ~c.in.xfrc, ~c.in.fe PROVE HandleInEp(c) = c
BY DEF HandleInEp

\* One pass of USB_HandlerTask without bus events, and what it leaves in the FIFO.
Pass(c, q) == LET d == HandleInEp(HandleOutEp(c))
              IN  IF q # <<>> THEN HandleRxlvl(d, Head(q)) ELSE d
NextQ(q) == IF q = <<>> THEN <<>> ELSE Tail(q)
Good(c, q, h) == CoreTypes(c, h) /\ Phase(c, q, h)

LEMMA QuietPass ==
  ASSUME HandlerTask, bus = {}
  PROVE  core' = Pass(core, rxf) /\ rxf' = NextQ(rxf) /\ bus' = {} /\ host' = host
<1>1. "rst" \notin bus /\ "enum" \notin bus
  OBVIOUS
<1> QED BY <1>1 DEF HandlerTask, HandlerPass, Pass, NextQ

LEMMA IdlePass ==
  ASSUME NEW c, ~c.out.xfrc, ~c.out.stup, ~c.in.xfrc, ~c.in.fe, NEW q
  PROVE  Pass(c, q) = IF q # <<>> THEN HandleRxlvl(c, Head(q)) ELSE c
BY OutEpIdle, InEpIdle DEF Pass

\* Popping an entry only changes the OUT endpoint, and the line coding where
\* the data belongs there.
LEMMA PopFields ==
  ASSUME NEW c \in CoreRec, NEW e, c.out.cb # "dataout", RxPop(c.out, e) \in OutRec
  PROVE  LET r == HandleRxlvl(c, e)
         IN  /\ r \in CoreRec /\ r.in = c.in /\ r.dev = c.dev /\ r.le = c.le /\ r.ctl = c.ctl
             /\ r.out = RxPop(c.out, e)
<1> DEFINE x == RxPop(c.out, e)
<1>1. HandleRxlvl(c, e) = [c EXCEPT !.out = x, !.le = c.le]
  BY DEF HandleRxlvl
<1> HIDE DEF x
<1>2. x \in OutRec /\ c.le \in Seq(Int)
  BY CoreFields DEF x
<1>3. LET r == [c EXCEPT !.out = x, !.le = c.le]
      IN  r \in CoreRec /\ r.in = c.in /\ r.dev = c.dev /\ r.le = c.le /\ r.ctl = c.ctl /\ r.out = x
  BY <1>2 DEF CoreRec
<1> QED BY <1>1, <1>3 DEF x

LEMMA Entries ==
  /\ \A kind, data : RxEntry(kind, data).kind = kind /\ RxEntry(kind, data).data = data
  /\ \A s : /\ SetupPair(s) # <<>> /\ Head(SetupPair(s)) = RxEntry("setup", <<s>>)
            /\ Tail(SetupPair(s)) = <<RxEntry("setupdone", <<>>)>>
BY DEF RxEntry, SetupPair

LEMMA PopSetup ==
  ASSUME NEW k \in OutRec, k.ec = "busy", k.room = 3, k.data = <<>>, NEW s \in Requests
  PROVE  LET r == RxPop(k, RxEntry("setup", <<s>>))
         IN  /\ r \in OutRec /\ r.data = <<s>> /\ r.ec = k.ec /\ r.cb = k.cb /\ r.room = k.room
             /\ r.ena = k.ena /\ r.xfrc = k.xfrc /\ r.stup = k.stup
<1> DEFINE e == RxEntry("setup", <<s>>)
<1>1. e.kind = "setup" /\ e.data = <<s>>
  BY Entries
<1>2. ReadPacket(k, e.data) = <<s>>
  <2>1. Least(3 - 0, 1) = 1
    BY DEF Least
  <2>2. Len(<<s>>) = 1 /\ SubSeq(<<s>>, 1, 1) = <<s>>
    <3> DEFINE d == <<s>>
    <3>1. d \in Seq(Requests) /\ Len(d) = 1
      OBVIOUS
    <3> HIDE DEF d
    <3>2. SubSeq(d, 1, Len(d)) = d
      BY <3>1
    <3> QED BY <3>1, <3>2 DEF d
  <2> QED BY <1>1, <2>1, <2>2, Empties DEF ReadPacket
<1>3. RxPop(k, e) = [k EXCEPT !.data = <<>> \o <<s>>]
  BY <1>1, <1>2 DEF RxPop
<1>4. <<>> \o <<s>> = <<s>> /\ <<s>> \in Seq(Int \cup Requests)
  OBVIOUS
<1> DEFINE d == <<s>>
<1>5. RxPop(k, e) = [k EXCEPT !.data = d] /\ d \in Seq(Int \cup Requests) /\ d = <<s>>
  BY <1>3, <1>4
<1> HIDE DEF d, e
<1> QED BY <1>5 DEF OutRec, e

LEMMA PopSetupDone ==
  ASSUME NEW k \in OutRec
  PROVE  LET r == RxPop(k, RxEntry("setupdone", <<>>))
         IN  /\ r \in OutRec /\ r.stup /\ r.data = k.data /\ r.ec = k.ec /\ r.cb = k.cb
             /\ r.room = k.room /\ r.ena = k.ena /\ r.xfrc = k.xfrc
<1>1. RxPop(k, RxEntry("setupdone", <<>>)) = [k EXCEPT !.stup = TRUE]
  BY Entries DEF RxPop
<1> QED BY <1>1 DEF OutRec

LEMMA PopDone ==
  ASSUME NEW k \in OutRec
  PROVE  LET r == RxPop(k, DoneEntry)
         IN  /\ r \in OutRec /\ r.xfrc /\ r.data = k.data /\ r.ec = k.ec /\ r.cb = k.cb
             /\ r.room = k.room /\ r.ena = k.ena /\ r.stup = k.stup
<1>1. RxPop(k, DoneEntry) = [k EXCEPT !.xfrc = TRUE]
  BY Entries DEF RxPop, DoneEntry
<1> QED BY <1>1 DEF OutRec

LEMMA PopEmpty ==
  ASSUME NEW k \in OutRec, k.data = <<>>
  PROVE  RxPop(k, DataEntry(<<>>)) = k
<1>1. DataEntry(<<>>).kind = "data" /\ DataEntry(<<>>).data = <<>>
  BY Entries DEF DataEntry
<1>2. ReadPacket(k, <<>>) = <<>>
  <2> DEFINE n == IF k.ec = "busy" THEN k.room - Len(k.data) ELSE 0
  <2>1. n \in Int
    BY Empties DEF OutRec
  <2>2. Least(n, 0) \in Int /\ Least(n, 0) <= 0
    BY <2>1 DEF Least
  <2>3. SubSeq(<<>>, 1, Least(n, 0)) = <<>>
    BY <2>2
  <2>4. ReadPacket(k, <<>>) = SubSeq(<<>>, 1, Least(n, Len(<<>>)))
    BY DEF ReadPacket
  <2> HIDE DEF n
  <2>5. Least(n, Len(<<>>)) = Least(n, 0)
    BY Empties
  <2> QED BY <2>3, <2>4, <2>5
<1>3. [k EXCEPT !.data = <<>>] = k
  BY DEF OutRec
<1> QED BY <1>1, <1>2, <1>3 DEF RxPop
-----------------------------------------------------------------------------
(* A pass of the handler in each phase.                                    *)

LEMMA TypesStep ==
  ASSUME NEW c, NEW h, CoreTypes(c, h), NEW r \in CoreRec, r.in = c.in, r.le = c.le
  PROVE  CoreTypes(r, h)
BY DEF CoreTypes, LineOK

LEMMA PhaseGood ==
  ASSUME NEW c, NEW q, NEW h, CoreTypes(c, h),
         \/ Listening(c, q, h) \/ Framing(c, q, h) \/ Refusing(c, q, h)
         \/ Sending(c, q, h) \/ Sent(c, q, h) \/ Answered(c, q, h) \/ Ending(c, q, h)
         \/ Taking(c, q, h) \/ Confirming(c, q, h) \/ Confirmed(c, q, h)
  PROVE  Good(c, q, h)
BY DEF Good, Phase

LEMMA EmptyTail == \A s : <<>> \o SetupPair(s) = SetupPair(s) /\ NextQ(SetupPair(s)) = <<RxEntry("setupdone", <<>>)>>
                          /\ NextQ(<<>>) = <<>>
<1> TAKE s
<1>1. SetupPair(s) \in Seq({RxEntry("setup", <<s>>), RxEntry("setupdone", <<>>)})
  BY DEF SetupPair
<1>2. <<>> \o SetupPair(s) = SetupPair(s)
  <2> DEFINE x == SetupPair(s) T == {RxEntry("setup", <<s>>), RxEntry("setupdone", <<>>)}
  <2>1. x \in Seq(T) BY <1>1
  <2> HIDE DEF x, T
  <2> QED BY <2>1 DEF x
<1> QED BY <1>2, Entries DEF NextQ

\* A control endpoint that listens, between two requests or with the next
\* setup frame at the front of the FIFO.
LEMMA ReadyPop ==
  ASSUME NEW c, NEW q, NEW h, CoreTypes(c, h), InFree(c.in), OutSetup(c.out), ~c.out.stup,
         c.out.data = <<>>, ~c.ctl.ptr, Settled(c, h), Between(c, q, h, <<>>)
  PROVE  Good(IF q # <<>> THEN HandleRxlvl(c, Head(q)) ELSE c, NextQ(q), h)
<1>1. CASE h.st = "idle" /\ q = <<>>
  <2>1. Listening(c, NextQ(q), h)
    BY <1>1 DEF Listening, Between, NextQ
  <2> QED BY <1>1, <2>1, PhaseGood
<1>2. CASE AtFirst(c, h) /\ q = <<>> \o SetupPair(h.req)
  <2> DEFINE s == h.req
             e == RxEntry("setup", <<s>>)
             r == HandleRxlvl(c, e)
  <2>1. q = SetupPair(s) /\ q # <<>> /\ Head(q) = e /\ NextQ(q) = <<RxEntry("setupdone", <<>>)>>
    BY <1>2, Entries, EmptyTail
  <2>2. s \in Requests /\ c \in CoreRec /\ c.out \in OutRec
    BY <1>2, CoreFields DEF AtFirst, CoreTypes
  <2>3. LET x == RxPop(c.out, e)
        IN  /\ x \in OutRec /\ x.data = <<s>> /\ x.ec = "busy" /\ x.cb = "setup" /\ x.room = 3
            /\ ~x.ena /\ ~x.xfrc /\ ~x.stup
    BY <2>2, PopSetup DEF OutSetup
  <2>4. /\ r \in CoreRec /\ r.in = c.in /\ r.dev = c.dev /\ r.le = c.le /\ r.ctl = c.ctl
        /\ r.out = RxPop(c.out, e)
    BY <2>2, <2>3, PopFields DEF OutSetup
  <2> HIDE DEF r, e
  <2>5. CoreTypes(r, h)
    BY <2>4, TypesStep
  <2>6. Framing(r, NextQ(q), h)
    BY <1>2, <2>1, <2>3, <2>4 DEF Framing, OutSetup, AtFirst, Settled
  <2> QED BY <2>1, <2>5, <2>6, PhaseGood DEF r
<1> QED BY <1>1, <1>2 DEF Between

LEMMA ListeningPass ==
  ASSUME NEW c, NEW q, NEW h, CoreTypes(c, h), Listening(c, q, h)
  PROVE  Good(Pass(c, q), NextQ(q), h)
<1>1. Pass(c, q) = IF q # <<>> THEN HandleRxlvl(c, Head(q)) ELSE c
  BY IdlePass DEF Listening, InFree, OutSetup
<1> QED BY <1>1, ReadyPop DEF Listening

LEMMA StillPass ==
  ASSUME NEW c, NEW q, NEW h, CoreTypes(c, h),
         Refusing(c, q, h) \/ Answered(c, q, h) \/ Confirming(c, q, h)
           \/ (Sending(c, q, h) /\ ~c.in.fe)
  PROVE  Good(Pass(c, q), NextQ(q), h)
<1>1. q = <<>> /\ ~c.out.xfrc /\ ~c.out.stup /\ ~c.in.xfrc /\ ~c.in.fe
  BY DEF Refusing, Answered, Confirming, Sending, InFree, OutSetup, OutArmed, OutStatus, OutFree,
         InEmpty, InSending
<1>2. Pass(c, q) = c /\ NextQ(q) = q
  BY <1>1, IdlePass DEF NextQ
<1> QED BY <1>2, PhaseGood

LEMMA Single == \A x : <<x>> # <<>> /\ Head(<<x>>) = x /\ Tail(<<x>>) = <<>>
OBVIOUS

LEMMA FramePass ==
  ASSUME NEW c, NEW q, NEW h, CoreTypes(c, h), Framing(c, q, h), ~c.out.stup
  PROVE  Good(Pass(c, q), NextQ(q), h)
<1> DEFINE e == RxEntry("setupdone", <<>>)
           r == HandleRxlvl(c, e)
<1>1. q = <<e>> /\ q # <<>> /\ Head(q) = e /\ NextQ(q) = <<>>
  BY Single DEF Framing, NextQ
<1>2. Pass(c, q) = r
  BY <1>1, IdlePass DEF Framing, InFree, OutSetup
<1>3. c \in CoreRec /\ c.out \in OutRec
  BY CoreFields DEF CoreTypes
<1>4. LET x == RxPop(c.out, e)
      IN  /\ x \in OutRec /\ x.stup /\ x.data = c.out.data /\ x.ec = c.out.ec /\ x.cb = c.out.cb
          /\ x.room = c.out.room /\ x.ena = c.out.ena /\ x.xfrc = c.out.xfrc
  BY <1>3, PopSetupDone
<1>5. /\ r \in CoreRec /\ r.in = c.in /\ r.dev = c.dev /\ r.le = c.le /\ r.ctl = c.ctl
      /\ r.out = RxPop(c.out, e)
  BY <1>3, <1>4, PopFields DEF Framing, OutSetup
<1> HIDE DEF r, e
<1>6. CoreTypes(r, h)
  BY <1>5, TypesStep
<1>7. Framing(r, NextQ(q), h)
  BY <1>1, <1>4, <1>5 DEF Framing, OutSetup, AtFirst, Settled
<1> QED BY <1>2, <1>6, <1>7, PhaseGood

LEMMA PartFacts ==
  ASSUME NEW c, NEW h, CoreTypes(c, h), Answering(c, h)
  PROVE  /\ Part(c) \in Seq(Int) /\ Len(Part(c)) \in 0 .. Mps
         /\ Part(c) = SubSeq(c.ctl.data, c.ctl.offset + 1, c.ctl.offset + Len(Part(c)))
         /\ Len(Part(c)) = Least(Mps, Rest(c)) /\ Rest(c) \in Nat /\ Rest(c) # Mps
         /\ c.ctl.offset \in Nat /\ c.ctl.data \in Seq(Int) /\ c.ctl.offset + Len(Part(c)) <= Len(c.ctl.data)
         /\ c.ctl.size = Len(c.ctl.data) /\ Len(c.ctl.data) \in Nat
<1> DEFINE a == c.ctl.data o == c.ctl.offset
<1>1. a \in Seq(Int) /\ o \in Nat /\ c.ctl.size = Len(a) /\ Len(a) \in Nat
  BY LenProperties DEF CoreTypes, CoreRec, CtlRec, Answering
<1>2. Mps \in Nat /\ Mps > 1 /\ Len(a) \in 0 .. Mps + 1 /\ Len(a) # Mps
      /\ (o = 0 \/ (o = Mps /\ Len(a) = Mps + 1))
  BY <1>1, UsbAssumption, CoreAssumption DEF Answering, IsAnswer
<1> DEFINE n == Least(Mps, Len(a) - o)
           l == Len(a)
<1>3. n \in 0 .. Mps /\ o + n <= Len(a) /\ Rest(c) = Len(a) - o /\ Rest(c) \in Nat /\ Rest(c) # Mps
  <2>1. Rest(c) = l - o
    BY <1>1 DEF Rest
  <2>2. n = Least(Mps, l - o)
    OBVIOUS
  <2> HIDE DEF l, o, n, a
  <2>3. l \in Nat /\ o \in Nat /\ l \in 0 .. Mps + 1 /\ l # Mps /\ (o = 0 \/ (o = Mps /\ l = Mps + 1))
    BY <1>1, <1>2 DEF l
  <2>4. n \in 0 .. Mps /\ o + n <= l /\ l - o \in Nat /\ l - o # Mps
    BY <1>2, <2>2, <2>3 DEF Least
  <2> QED BY <2>1, <2>4 DEF l
<1>4. Part(c) = SubSeq(a, o + 1, o + n)
  BY <1>1 DEF Part, CtlPart
<1> HIDE DEF n, a, o
<1>5. SubSeq(a, o + 1, o + n) \in Seq(Int) /\ Len(SubSeq(a, o + 1, o + n)) = n
  BY <1>1, <1>3
<1> QED BY <1>1, <1>3, <1>4, <1>5 DEF n, a, o

LEMMA SendingPass ==
  ASSUME NEW c, NEW q, NEW h, CoreTypes(c, h), Sending(c, q, h), c.in.fe
  PROVE  Good(Pass(c, q), NextQ(q), h)
<1> DEFINE x == FillFifo(c.in)
           r == [c EXCEPT !.in = x]
<1>1. q = <<>> /\ NextQ(q) = <<>> /\ ~c.out.xfrc /\ ~c.out.stup /\ ~c.in.xfrc
  BY DEF Sending, OutArmed, OutStatus, InSending, NextQ
<1>2. Pass(c, q) = r
  BY <1>1, OutEpIdle DEF Pass, HandleInEp
<1>3. c \in CoreRec /\ c.in \in InRec /\ Len(c.in.data) <= Mps /\ c.in.data = Part(c) /\ Len(Part(c)) \in 0 .. Mps
  BY CoreFields, PartFacts, UsbAssumption DEF CoreTypes, Sending
<1>4. /\ x \in InRec /\ x.fifo = Part(c) /\ x.offs = Len(Part(c)) /\ ~x.fe /\ x.ec = c.in.ec
      /\ x.data = Part(c) /\ x.cb = c.in.cb /\ x.ena = c.in.ena /\ x.nak = c.in.nak
      /\ x.pkts = c.in.pkts /\ x.left = c.in.left /\ x.xfrc = c.in.xfrc
  BY <1>3, FillFields DEF Sending
<1> HIDE DEF x
<1>5. /\ r \in CoreRec /\ r.in = x /\ r.out = c.out /\ r.ctl = c.ctl /\ r.dev = c.dev /\ r.le = c.le
  BY <1>3, <1>4, CoreSetIn
<1> HIDE DEF r
<1>6. CoreTypes(r, h)
  BY <1>3, <1>4, <1>5, UsbAssumption DEF CoreTypes, LineOK, InBounds
<1>7. Part(r) = Part(c)
  BY <1>5 DEF Part
<1>8. Answering(r, h)
  BY <1>5 DEF Answering, Settled, Sending
<1>9. Sending(r, <<>>, h)
  BY <1>4, <1>5, <1>7, <1>8 DEF Sending, InSending
<1> QED BY <1>1, <1>2, <1>6, <1>9, PhaseGood

\* The end of an IN transfer.
LEMMA FinishInOk ==
  ASSUME NEW c \in CoreRec, c.in.xfrc, ~c.in.fe
  PROVE  LET d == [c EXCEPT !.in = Finished([c.in EXCEPT !.xfrc = FALSE], "ok")]
         IN  /\ HandleInEp(c) = Callback(d, c.in.cb, "ok", <<>>)
             /\ d \in CoreRec /\ d.out = c.out /\ d.ctl = c.ctl /\ d.dev = c.dev /\ d.le = c.le
             /\ d.in.ec = "ok" /\ d.in.cb = NoCb /\ d.in.ena = c.in.ena /\ d.in.nak = c.in.nak
             /\ ~d.in.fe /\ ~d.in.xfrc /\ d.in.fifo = c.in.fifo /\ d.in.data = c.in.data
             /\ d.in.offs = c.in.offs
<1> DEFINE k == [c.in EXCEPT !.xfrc = FALSE]
           f == Finished(k, "ok")
           b == [c EXCEPT !.in.xfrc = FALSE]
           d == [c EXCEPT !.in = f]
<1>1. c.in \in InRec
  BY CoreFields
<1>2. /\ k \in InRec /\ ~k.xfrc /\ k.cb = c.in.cb /\ k.ena = c.in.ena /\ k.nak = c.in.nak
      /\ k.fe = c.in.fe /\ k.fifo = c.in.fifo /\ k.data = c.in.data /\ k.offs = c.in.offs
  BY <1>1 DEF InRec
<1> HIDE DEF k
<1>3. /\ f \in InRec /\ f.ec = "ok" /\ f.cb = NoCb /\ f.ena = k.ena /\ f.nak = k.nak
      /\ f.fe = k.fe /\ f.xfrc = k.xfrc /\ f.fifo = k.fifo /\ f.data = k.data /\ f.offs = k.offs
  BY <1>2, FinishedIn, Words
<1>4. b = [c EXCEPT !.in = k]
  BY DEF k
<1> HIDE DEF b, f
<1>5. b \in CoreRec /\ b.in = k
  BY <1>2, <1>4, CoreSetIn
<1>6. [b EXCEPT !.in = f] = d
  BY <1>4, <1>5 DEF CoreRec
<1>7. FinishIn(b, "ok") = Callback(d, c.in.cb, "ok", <<>>)
  BY <1>2, <1>5, <1>6 DEF FinishIn, f
<1>8. HandleInEp(c) = FinishIn(b, "ok")
  BY DEF HandleInEp, b
<1>9. /\ d \in CoreRec /\ d.in = f /\ d.out = c.out /\ d.ctl = c.ctl /\ d.dev = c.dev /\ d.le = c.le
  BY <1>3, CoreSetIn
<1> HIDE DEF d
<1>10. /\ HandleInEp(c) = Callback(d, c.in.cb, "ok", <<>>)
       /\ d \in CoreRec /\ d.out = c.out /\ d.ctl = c.ctl /\ d.dev = c.dev /\ d.le = c.le
       /\ d.in.ec = "ok" /\ d.in.cb = NoCb /\ d.in.ena = c.in.ena /\ d.in.nak = c.in.nak
       /\ ~d.in.fe /\ ~d.in.xfrc /\ d.in.fifo = c.in.fifo /\ d.in.data = c.in.data
       /\ d.in.offs = c.in.offs
  BY <1>2, <1>3, <1>7, <1>8, <1>9
<1> QED BY <1>10 DEF d, f, k

\* The same for the OUT endpoint; `stup' is what is left of the setup flag.
LEMMA FinishOutOk ==
  ASSUME NEW c \in CoreRec, NEW k \in OutRec
  PROVE  LET d == [c EXCEPT !.out = Emptied(k, "ok")]
         IN  /\ FinishOut([c EXCEPT !.out = k], "ok") = Callback(d, k.cb, "ok", k.data)
             /\ d \in CoreRec /\ d.in = c.in /\ d.ctl = c.ctl /\ d.dev = c.dev /\ d.le = c.le
             /\ d.out.ec = "ok" /\ d.out.cb = NoCb /\ d.out.data = <<>> /\ d.out.ena = k.ena
             /\ d.out.xfrc = k.xfrc /\ d.out.stup = k.stup
<1> DEFINE f == Emptied(k, "ok")
           b == [c EXCEPT !.out = k]
           d == [c EXCEPT !.out = f]
<1>1. /\ f \in OutRec /\ f.ec = "ok" /\ f.cb = NoCb /\ f.data = <<>> /\ f.ena = k.ena
      /\ f.xfrc = k.xfrc /\ f.stup = k.stup
  BY EmptiedOut, Words
<1>2. b \in CoreRec /\ b.out = k
  BY CoreSetOut
<1> HIDE DEF f
<1>3. [b EXCEPT !.out = f] = d
  BY DEF CoreRec
<1> HIDE DEF b
<1>4. FinishOut(b, "ok") = Callback(d, k.cb, "ok", k.data)
  BY <1>2, <1>3 DEF FinishOut, f, Emptied
<1>5. /\ d \in CoreRec /\ d.out = f /\ d.in = c.in /\ d.ctl = c.ctl /\ d.dev = c.dev /\ d.le = c.le
  BY <1>1, CoreSetOut
<1> HIDE DEF d
<1>6. /\ FinishOut(b, "ok") = Callback(d, k.cb, "ok", k.data)
      /\ d \in CoreRec /\ d.in = c.in /\ d.ctl = c.ctl /\ d.dev = c.dev /\ d.le = c.le
      /\ d.out.ec = "ok" /\ d.out.cb = NoCb /\ d.out.data = <<>> /\ d.out.ena = k.ena
      /\ d.out.xfrc = k.xfrc /\ d.out.stup = k.stup
  BY <1>1, <1>4, <1>5
<1> QED BY <1>6 DEF d, b, f

LEMMA OutXfrc ==
  ASSUME NEW c \in CoreRec, c.out.xfrc, ~c.out.stup
  PROVE  \E d \in CoreRec :
             /\ HandleOutEp(c) = Callback(d, c.out.cb, "ok", c.out.data)
             /\ d.in = c.in /\ d.ctl = c.ctl /\ d.dev = c.dev /\ d.le = c.le
             /\ d.out.ec = "ok" /\ d.out.cb = NoCb /\ d.out.data = <<>> /\ d.out.ena = c.out.ena
             /\ ~d.out.xfrc /\ ~d.out.stup
<1> DEFINE k == [c.out EXCEPT !.xfrc = FALSE]
           d == [c EXCEPT !.out = Emptied(k, "ok")]
<1>1. /\ k \in OutRec /\ k.cb = c.out.cb /\ k.data = c.out.data /\ k.ena = c.out.ena /\ ~k.xfrc
      /\ k.stup = c.out.stup
  BY CoreFields DEF OutRec
<1>2. [c EXCEPT !.out.xfrc = FALSE] = [c EXCEPT !.out = k]
  OBVIOUS
<1> HIDE DEF k
<1>3. HandleOutEp(c) = FinishOut([c EXCEPT !.out = k], "ok")
  BY <1>2 DEF HandleOutEp
<1>4. /\ FinishOut([c EXCEPT !.out = k], "ok") = Callback(d, k.cb, "ok", k.data)
      /\ d \in CoreRec /\ d.in = c.in /\ d.ctl = c.ctl /\ d.dev = c.dev /\ d.le = c.le
      /\ d.out.ec = "ok" /\ d.out.cb = NoCb /\ d.out.data = <<>> /\ d.out.ena = k.ena
      /\ d.out.xfrc = k.xfrc /\ d.out.stup = k.stup
  BY <1>1, FinishOutOk
<1> HIDE DEF d
<1> QED BY <1>1, <1>3, <1>4

LEMMA OutStup ==
  ASSUME NEW c \in CoreRec, ~c.out.xfrc, c.out.stup
  PROVE  \E d \in CoreRec :
             /\ HandleOutEp(c) = Callback(d, c.out.cb, "ok", c.out.data)
             /\ d.in = c.in /\ d.ctl = c.ctl /\ d.dev = c.dev /\ d.le = c.le
             /\ d.out.ec = "ok" /\ d.out.cb = NoCb /\ d.out.data = <<>> /\ d.out.ena = c.out.ena
             /\ ~d.out.xfrc /\ ~d.out.stup
<1> DEFINE k == [c.out EXCEPT !.stup = FALSE]
           d == [c EXCEPT !.out = Emptied(k, "ok")]
<1>1. /\ k \in OutRec /\ k.cb = c.out.cb /\ k.data = c.out.data /\ k.ena = c.out.ena /\ ~k.stup
      /\ k.xfrc = c.out.xfrc
  BY CoreFields DEF OutRec
<1>2. [c EXCEPT !.out.stup = FALSE] = [c EXCEPT !.out = k]
  OBVIOUS
<1> HIDE DEF k
<1>3. HandleOutEp(c) = FinishOut([c EXCEPT !.out = k], "ok")
  BY <1>2 DEF HandleOutEp
<1>4. /\ FinishOut([c EXCEPT !.out = k], "ok") = Callback(d, k.cb, "ok", k.data)
      /\ d \in CoreRec /\ d.in = c.in /\ d.ctl = c.ctl /\ d.dev = c.dev /\ d.le = c.le
      /\ d.out.ec = "ok" /\ d.out.cb = NoCb /\ d.out.data = <<>> /\ d.out.ena = k.ena
      /\ d.out.xfrc = k.xfrc /\ d.out.stup = k.stup
  BY <1>1, FinishOutOk
<1> HIDE DEF d
<1> QED BY <1>1, <1>3, <1>4

LEMMA Callbacked ==
  ASSUME NEW c, NEW data
  PROVE  /\ Callback(c, "setup", "ok", data) = SetupCallback(c, data)
         /\ Callback(c, "datain", "ok", data) = DataINCallback(c)
         /\ Callback(c, "dataout", "ok", data) = DataOUTCallback(c, data)
         /\ Callback(c, "statusin", "ok", data) = StartSETUPStage(c)
         /\ Callback(c, "statusout", "ok", data) = StartSETUPStage(c)
BY DEF Callback, NoCb

LEMMA SentPass ==
  ASSUME NEW c, NEW q, NEW h, CoreTypes(c, h), Sent(c, q, h)
  PROVE  Good(Pass(c, q), NextQ(q), h)
<1> DEFINE d == [c EXCEPT !.in = Finished([c.in EXCEPT !.xfrc = FALSE], "ok")]
<1>1. q = <<>> /\ NextQ(q) = <<>> /\ ~c.out.xfrc /\ ~c.out.stup /\ c.in.xfrc /\ ~c.in.fe
      /\ c.in.cb = "datain" /\ c \in CoreRec /\ Answering(c, h)
  BY DEF Sent, OutArmed, OutStatus, InSent, NextQ, CoreTypes
<1>2. /\ HandleInEp(c) = Callback(d, "datain", "ok", <<>>)
      /\ d \in CoreRec /\ d.out = c.out /\ d.ctl = c.ctl /\ d.dev = c.dev /\ d.le = c.le
      /\ d.in.ec = "ok" /\ d.in.cb = NoCb /\ d.in.ena = c.in.ena /\ d.in.nak = c.in.nak
      /\ ~d.in.fe /\ ~d.in.xfrc /\ d.in.fifo = c.in.fifo /\ d.in.data = c.in.data
      /\ d.in.offs = c.in.offs
  BY <1>1, FinishInOk
<1> HIDE DEF d
<1>3. Pass(c, q) = DataINCallback(d)
  BY <1>1, <1>2, OutEpIdle, Callbacked DEF Pass
<1>4. /\ Rest(c) \in Nat /\ c.ctl.offset \in Nat /\ c.ctl.data \in Seq(Int) /\ Len(c.ctl.data) \in Nat
      /\ c.ctl.size = Len(c.ctl.data) /\ c.ctl.offset + Len(Part(c)) <= Len(c.ctl.data)
      /\ Len(Part(c)) = Least(Mps, Rest(c))
  BY <1>1, PartFacts
<1>m. Mps \in Nat /\ Mps > 1
  BY UsbAssumption, CoreAssumption
<1>d. CoreTypes(d, h)
  BY <1>2, Words DEF CoreTypes, LineOK, InBounds
<1>5. CASE Rest(c) < Mps
  <2>1. DataINCallback(d) = StartStatusOUTStage(d)
    BY <1>2, <1>4, <1>5, <1>m DEF DataINCallback, Rest
  <2>2. StartOUT(d.out, 0, "statusout") = d.out
    BY <1>2 DEF StartOUT, Sent, OutArmed, OutStatus
  <2>3. StartStatusOUTStage(d) = d
    <3>1. [d EXCEPT !.out = d.out] = d
      BY <1>2 DEF CoreRec
    <3> QED BY <2>2, <3>1 DEF StartStatusOUTStage
  <2>4. Len(Part(c)) = Len(c.ctl.data) - c.ctl.offset
    BY <1>4, <1>5, <1>m DEF Least, Rest
  <2>5. h.got = c.ctl.data /\ h.st = "statusout"
    <3>1. c.ctl.offset + Len(Part(c)) = Len(c.ctl.data)
      BY <1>4, <2>4
    <3>2. SubSeq(c.ctl.data, 1, Len(c.ctl.data)) = c.ctl.data
      BY <1>4
    <3> QED BY <1>4, <1>5, <1>m, <3>1, <3>2 DEF Sent
  <2>6. Answering(d, h)
    BY <1>1, <1>2 DEF Answering, Settled
  <2>7. Answered(d, <<>>, h)
    BY <1>2, <2>5, <2>6 DEF Answered, Sent, OutArmed, OutStatus, InFree, InSent
  <2> QED BY <1>1, <1>3, <1>d, <2>1, <2>3, <2>7, PhaseGood
<1>6. CASE Rest(c) >= Mps
  <2> DEFINE n == c.ctl.offset + Mps
             ctl == [c.ctl EXCEPT !.offset = n]
             p == CtlPart(c.ctl, n)
             x == CtlIN(d.in, p, "datain")
             r == [d EXCEPT !.ctl = ctl, !.in = x]
  <2>1. c.ctl.offset = 0 /\ Len(c.ctl.data) = Mps + 1 /\ n = Mps
    <3>1. Len(c.ctl.data) - c.ctl.offset >= Mps
      BY <1>4, <1>6 DEF Rest
    <3>2. Len(c.ctl.data) \in 0 .. Mps + 1 /\ Len(c.ctl.data) # Mps
          /\ (c.ctl.offset = 0 \/ (c.ctl.offset = Mps /\ c.ctl.size = Mps + 1))
      BY <1>1 DEF Answering, IsAnswer
    <3> QED BY <1>4, <1>m, <3>1, <3>2
  <2>2. DataINCallback(d) = r
    <3>1. d.ctl.size - d.ctl.offset >= Mps
      BY <1>2, <1>6 DEF Rest
    <3>2. [d EXCEPT !.ctl.offset = d.ctl.offset + Mps,
                    !.in = StartIN(d.in, CtlPart(d.ctl, d.ctl.offset + Mps), "datain", FALSE)] = r
      BY <1>2 DEF CtlIN
    <3> QED BY <3>1, <3>2 DEF DataINCallback
  <2>3. ctl \in CtlRec /\ ctl.data = c.ctl.data /\ ctl.size = c.ctl.size /\ ctl.offset = Mps
        /\ ctl.ptr = c.ctl.ptr /\ ctl.setup = c.ctl.setup
    BY <1>1, <2>1, <1>m, CoreFields DEF CtlRec
  <2>4. p = SubSeq(c.ctl.data, Mps + 1, Mps + 1)
    <3>1. Least(Mps, c.ctl.size - n) = 1
      BY <1>4, <1>m, <2>1 DEF Least
    <3> QED BY <2>1, <3>1 DEF CtlPart
  <2>5. p \in Seq(Int) /\ Len(p) = 1
    <3> DEFINE a == c.ctl.data
               m == Mps + 1
    <3>1. a \in Seq(Int) /\ m \in 1 .. Len(a)
      BY <1>4, <1>m, <2>1
    <3>2. p = SubSeq(a, m, m)
      BY <2>4
    <3> HIDE DEF a, m, p
    <3>3. SubSeq(a, m, m) \in Seq(Int) /\ Len(SubSeq(a, m, m)) = 1
      BY <3>1
    <3> QED BY <3>2, <3>3
  <2>6. /\ x \in InRec /\ x.ec = "busy" /\ x.cb = "datain" /\ x.data = p /\ x.offs = 0
        /\ x.pkts = 1 /\ x.left = Len(p) /\ x.ena /\ ~x.nak /\ x.fe
        /\ x.fifo = c.in.fifo /\ ~x.xfrc
    <3> HIDE DEF p, n, ctl
    <3>1. Len(p) <= Mps /\ Len(p) > 0
      BY <1>m, <2>5
    <3>2. d.in \in InRec /\ d.in.ec # "busy" /\ "datain" \in Callbacks
      BY <1>2, CoreFields, Words
    <3> DEFINE k == d.in
    <3>3. k \in InRec /\ k.ec # "busy" /\ x = CtlIN(k, p, "datain") /\ ~k.fe /\ ~k.xfrc
          /\ k.fifo = c.in.fifo /\ p \in Seq(Int) /\ Len(p) \in 0 .. Mps /\ Len(p) > 0
      BY <1>2, <1>m, <2>5, <3>2
    <3> HIDE DEF x, k
    <3>4. /\ x \in InRec /\ x.ec = "busy" /\ x.cb = "datain" /\ x.data = p /\ x.offs = 0
          /\ x.pkts = 1 /\ x.left = Len(p) /\ x.ena /\ ~x.nak /\ x.fe /\ x.fifo = k.fifo /\ ~x.xfrc
      BY <3>3, SendPart
    <3> QED BY <3>3, <3>4
  <2>p. p = CtlPart(c.ctl, Mps)
    BY <2>1
  <2> HIDE DEF p, x, ctl, n
  <2>7. /\ r \in CoreRec /\ r.in = x /\ r.ctl = ctl /\ r.out = c.out /\ r.dev = c.dev /\ r.le = c.le
    BY <1>2, <2>3, <2>6 DEF CoreRec
  <2> HIDE DEF r
  <2>8. CoreTypes(r, h)
    <3>1. Len(x.fifo) <= FifoRoom /\ x.offs <= Len(x.data)
      BY <2>5, <2>6 DEF CoreTypes, InBounds
    <3> QED BY <2>7, <3>1 DEF CoreTypes, LineOK, InBounds
  <2>9. Answering(r, h)
    BY <1>1, <1>4, <2>1, <2>3, <2>7 DEF Answering, Settled
  <2>10. Part(r) = p
    BY <2>3, <2>7, <2>p DEF Part, CtlPart
  <2>11. h.got = SubSeq(r.ctl.data, 1, r.ctl.offset) /\ h.st = "in"
    <3>1. Len(Part(c)) = Mps /\ c.ctl.offset + Len(Part(c)) = Mps
      BY <1>4, <1>6, <1>m, <2>1 DEF Least
    <3> QED BY <1>6, <3>1, <2>3, <2>7 DEF Sent
  <2>12. Sending(r, <<>>, h)
    <3>1. Len(Part(r)) > 0
      BY <2>5, <2>10
    <3> QED BY <3>1, <2>6, <2>7, <2>9, <2>10, <2>11 DEF Sending, Sent, OutArmed, OutStatus, InSending, InSent
  <2> QED BY <1>1, <1>3, <2>2, <2>8, <2>12, PhaseGood
<1> QED BY <1>4, <1>5, <1>6, <1>m

LEMMA JoinTwo ==
  ASSUME NEW T, NEW a \in T, NEW b \in T, NEW s \in Seq(T)
  PROVE  /\ <<a, b>> \o s # <<>> /\ Head(<<a, b>> \o s) = a /\ Tail(<<a, b>> \o s) = <<b>> \o s
<1>1. <<a, b>> \o s \in Seq(T) /\ Len(<<a, b>> \o s) = 2 + Len(s) /\ Len(s) \in Nat
  BY LenProperties
<1>2. \A i \in 1 .. 2 + Len(s) : (<<a, b>> \o s)[i] = IF i <= 2 THEN <<a, b>>[i] ELSE s[i - 2]
  OBVIOUS
<1>3. <<b>> \o s \in Seq(T) /\ Len(<<b>> \o s) = 1 + Len(s)
  OBVIOUS
<1>4. \A i \in 1 .. 1 + Len(s) : (<<b>> \o s)[i] = IF i <= 1 THEN <<b>>[i] ELSE s[i - 1]
  OBVIOUS
<1> DEFINE x == <<a, b>> \o s
           y == <<b>> \o s
<1> HIDE DEF x, y
<1>5. x # <<>> /\ Head(x) = x[1] /\ Tail(x) \in Seq(T) /\ Len(Tail(x)) = 1 + Len(s)
      /\ \A i \in 1 .. 1 + Len(s) : Tail(x)[i] = x[i + 1]
  <2>1. x \in Seq(T) /\ Len(x) = 2 + Len(s)
    BY <1>1 DEF x
  <2>2. x # <<>>
    BY <1>1, <2>1, Empties
  <2> QED BY <1>1, <2>1, <2>2, HeadTailProperties
<1>6. \A i \in 1 .. 1 + Len(s) : Tail(x)[i] = y[i]
  <2> SUFFICES ASSUME NEW i \in 1 .. 1 + Len(s) PROVE Tail(x)[i] = y[i]
    OBVIOUS
  <2>1. Tail(x)[i] = x[i + 1]
    BY <1>5
  <2>2. x[i + 1] = IF i + 1 <= 2 THEN <<a, b>>[i + 1] ELSE s[i + 1 - 2]
    BY <1>1, <1>2 DEF x
  <2>3. y[i] = IF i <= 1 THEN <<b>>[i] ELSE s[i - 1]
    BY <1>4 DEF y
  <2>4. CASE i = 1
    <3>1. i + 1 = 2 /\ <<a, b>>[2] = b /\ <<b>>[1] = b
      BY <2>4
    <3>2. x[i + 1] = b
      BY <2>2, <3>1
    <3>3. y[i] = b
      BY <2>3, <2>4, <3>1
    <3> QED BY <2>1, <3>2, <3>3
  <2>5. CASE i # 1
    <3>1. i + 1 - 2 = i - 1 /\ ~(i + 1 <= 2) /\ ~(i <= 1)
      BY <1>1, <2>5
    <3>2. x[i + 1] = s[i - 1]
      BY <2>2, <3>1
    <3>3. y[i] = s[i - 1]
      BY <2>3, <3>1
    <3> QED BY <2>1, <3>2, <3>3
  <2> QED BY <2>4, <2>5
<1>7. Tail(x) = y
  BY <1>1, <1>3, <1>5, <1>6, SeqEqual DEF y
<1>8. x[1] = a
  BY <1>1, <1>2 DEF x
<1> QED BY <1>5, <1>7, <1>8 DEF x, y

LEMMA JoinOne ==
  ASSUME NEW T, NEW a \in T, NEW s \in Seq(T)
  PROVE  <<a>> \o s # <<>> /\ Head(<<a>> \o s) = a /\ Tail(<<a>> \o s) = <<>> \o s
OBVIOUS

\* Taking the entry at the front leaves the rest of what is queued.
LEMMA BetweenTwo ==
  ASSUME NEW c, NEW r, NEW q, NEW h, NEW a, NEW b, Between(c, q, h, <<a, b>>), r.in.nak = c.in.nak
  PROVE  q # <<>> /\ Head(q) = a /\ Between(r, NextQ(q), h, <<b>>)
<1>1. CASE h.st = "idle" /\ q = <<a, b>>
  <2>1. q # <<>> /\ Head(q) = a /\ Tail(q) = <<b>>
    BY <1>1
  <2> QED BY <1>1, <2>1 DEF Between, NextQ
<1>2. CASE AtFirst(c, h) /\ q = <<a, b>> \o SetupPair(h.req)
  <2> DEFINE s == SetupPair(h.req)
             T == {a, b, RxEntry("setup", <<h.req>>), RxEntry("setupdone", <<>>)}
  <2>1. s \in Seq(T) /\ a \in T /\ b \in T
    BY DEF SetupPair
  <2>2. AtFirst(r, h)
    BY <1>2 DEF AtFirst
  <2> HIDE DEF s, T
  <2>3. q # <<>> /\ Head(q) = a /\ Tail(q) = <<b>> \o s
    BY <1>2, <2>1, JoinTwo DEF s
  <2> QED BY <2>2, <2>3 DEF Between, NextQ, s
<1> QED BY <1>1, <1>2 DEF Between

LEMMA BetweenOne ==
  ASSUME NEW c, NEW r, NEW q, NEW h, NEW a, Between(c, q, h, <<a>>), r.in.nak = c.in.nak
  PROVE  q # <<>> /\ Head(q) = a /\ Between(r, NextQ(q), h, <<>>)
<1>1. CASE h.st = "idle" /\ q = <<a>>
  BY <1>1, Single DEF Between, NextQ
<1>2. CASE AtFirst(c, h) /\ q = <<a>> \o SetupPair(h.req)
  <2> DEFINE s == SetupPair(h.req)
             T == {a, RxEntry("setup", <<h.req>>), RxEntry("setupdone", <<>>)}
  <2>1. s \in Seq(T) /\ a \in T
    BY DEF SetupPair
  <2>2. AtFirst(r, h)
    BY <1>2 DEF AtFirst
  <2> HIDE DEF s, T
  <2>3. q # <<>> /\ Head(q) = a /\ Tail(q) = <<>> \o s
    BY <1>2, <2>1, JoinOne DEF s
  <2> QED BY <2>2, <2>3 DEF Between, NextQ, s
<1> QED BY <1>1, <1>2 DEF Between

LEMMA SameOut ==
  ASSUME NEW c \in CoreRec PROVE [c EXCEPT !.out = c.out] = c
BY DEF CoreRec

\* The status packet of the host is popped, then its end.
LEMMA EndingPop ==
  ASSUME NEW c, NEW q, NEW h, CoreTypes(c, h), Settled(c, h), OutStatus(c.out), ~c.out.ena,
         ~c.out.xfrc, InFree(c.in), Between(c, q, h, <<DataEntry(<<>>), DoneEntry>>)
  PROVE  q # <<>> /\ Good(HandleRxlvl(c, Head(q)), NextQ(q), h)
<1> DEFINE r == HandleRxlvl(c, DataEntry(<<>>))
<1>1. c \in CoreRec /\ c.out \in OutRec
  BY CoreFields DEF CoreTypes
<1>2. RxPop(c.out, DataEntry(<<>>)) = c.out
  BY <1>1, PopEmpty DEF OutStatus
<1>3. /\ r \in CoreRec /\ r.in = c.in /\ r.dev = c.dev /\ r.le = c.le /\ r.ctl = c.ctl
      /\ r.out = c.out
  BY <1>1, <1>2, PopFields DEF OutStatus
<1> HIDE DEF r
<1>4. q # <<>> /\ Head(q) = DataEntry(<<>>) /\ Between(r, NextQ(q), h, <<DoneEntry>>)
  BY <1>3, BetweenTwo
<1>5. CoreTypes(r, h)
  BY <1>3, TypesStep
<1>6. Ending(r, NextQ(q), h)
  BY <1>3, <1>4 DEF Ending, Settled
<1> QED BY <1>4, <1>5, <1>6, PhaseGood DEF r

LEMMA EndingPass ==
  ASSUME NEW c, NEW q, NEW h, CoreTypes(c, h), Ending(c, q, h)
  PROVE  Good(Pass(c, q), NextQ(q), h)
<1>0. c \in CoreRec /\ c.out \in OutRec /\ Settled(c, h) /\ OutStatus(c.out) /\ ~c.out.ena /\ ~c.out.stup
  BY CoreFields DEF CoreTypes, Ending, OutStatus
<1>1. CASE ~c.out.xfrc /\ InSent(c.in) /\ Rest(c) < Mps
           /\ Between(c, q, h, <<DataEntry(<<>>), DoneEntry>>)
  <2> DEFINE d == [c EXCEPT !.in = Finished([c.in EXCEPT !.xfrc = FALSE], "ok")]
  <2>1. c.in.xfrc /\ ~c.in.fe /\ c.in.cb = "datain" /\ c.in.fifo = <<>> /\ ~c.in.ena
    BY <1>1 DEF InSent
  <2>2. /\ HandleInEp(c) = Callback(d, "datain", "ok", <<>>)
        /\ d \in CoreRec /\ d.out = c.out /\ d.ctl = c.ctl /\ d.dev = c.dev /\ d.le = c.le
        /\ d.in.ec = "ok" /\ d.in.cb = NoCb /\ d.in.ena = c.in.ena /\ d.in.nak = c.in.nak
        /\ ~d.in.fe /\ ~d.in.xfrc /\ d.in.fifo = c.in.fifo /\ d.in.data = c.in.data
        /\ d.in.offs = c.in.offs
    BY <1>0, <2>1, FinishInOk
  <2> HIDE DEF d
  <2>3. DataINCallback(d) = StartStatusOUTStage(d)
    <3>1. c.ctl.size \in Nat /\ c.ctl.offset \in Nat /\ Mps \in Nat
      BY <1>0, UsbAssumption DEF CoreRec, CtlRec
    <3> QED BY <1>1, <2>2, <3>1 DEF DataINCallback, Rest
  <2>4. StartStatusOUTStage(d) = d
    <3>1. StartOUT(d.out, 0, "statusout") = d.out
      BY <1>0, <2>2 DEF StartOUT, OutStatus
    <3> QED BY <2>2, <3>1, SameOut DEF StartStatusOUTStage
  <2>5. HandleInEp(HandleOutEp(c)) = d
    BY <1>0, <1>1, <2>2, <2>3, <2>4, OutEpIdle, Callbacked
  <2>6. CoreTypes(d, h)
    BY <2>2 DEF CoreTypes, LineOK, InBounds
  <2>7. Settled(d, h) /\ OutStatus(d.out) /\ ~d.out.ena /\ ~d.out.xfrc /\ InFree(d.in)
        /\ Between(d, q, h, <<DataEntry(<<>>), DoneEntry>>)
    BY <1>0, <1>1, <2>1, <2>2 DEF Settled, InFree, Between, AtFirst
  <2>8. q # <<>> /\ Good(HandleRxlvl(d, Head(q)), NextQ(q), h)
    BY <2>6, <2>7, EndingPop
  <2> QED BY <2>5, <2>8 DEF Pass
<1>2. CASE ~c.out.xfrc /\ InFree(c.in) /\ Between(c, q, h, <<DataEntry(<<>>), DoneEntry>>)
  <2>1. q # <<>> /\ Good(HandleRxlvl(c, Head(q)), NextQ(q), h)
    BY <1>0, <1>2, EndingPop
  <2>2. Pass(c, q) = HandleRxlvl(c, Head(q))
    BY <1>0, <1>2, <2>1, IdlePass DEF InFree
  <2> QED BY <2>1, <2>2
<1>3. CASE ~c.out.xfrc /\ InFree(c.in) /\ Between(c, q, h, <<DoneEntry>>)
  <2> DEFINE r == HandleRxlvl(c, DoneEntry)
  <2>1. LET x == RxPop(c.out, DoneEntry)
        IN  /\ x \in OutRec /\ x.xfrc /\ x.data = c.out.data /\ x.ec = c.out.ec /\ x.cb = c.out.cb
            /\ x.room = c.out.room /\ x.ena = c.out.ena /\ x.stup = c.out.stup
    BY <1>0, PopDone
  <2>2. /\ r \in CoreRec /\ r.in = c.in /\ r.dev = c.dev /\ r.le = c.le /\ r.ctl = c.ctl
        /\ r.out = RxPop(c.out, DoneEntry)
    BY <1>0, <2>1, PopFields DEF OutStatus
  <2> HIDE DEF r
  <2>3. q # <<>> /\ Head(q) = DoneEntry /\ Between(r, NextQ(q), h, <<>>)
    BY <1>3, <2>2, BetweenOne
  <2>4. Pass(c, q) = r
    BY <1>0, <1>3, <2>3, IdlePass DEF InFree, r
  <2>5. CoreTypes(r, h)
    BY <2>2, TypesStep
  <2>6. Ending(r, NextQ(q), h)
    BY <1>0, <1>3, <2>1, <2>2, <2>3 DEF Ending, Settled, OutStatus
  <2> QED BY <2>4, <2>5, <2>6, PhaseGood
<1>4. CASE c.out.xfrc /\ InFree(c.in) /\ Between(c, q, h, <<>>)
  <2>1. PICK d \in CoreRec :
             /\ HandleOutEp(c) = Callback(d, c.out.cb, "ok", c.out.data)
             /\ d.in = c.in /\ d.ctl = c.ctl /\ d.dev = c.dev /\ d.le = c.le
             /\ d.out.ec = "ok" /\ d.out.cb = NoCb /\ d.out.data = <<>> /\ d.out.ena = c.out.ena
             /\ ~d.out.xfrc /\ ~d.out.stup
    BY <1>0, <1>4, OutXfrc
  <2> DEFINE r == StartSETUPStage(d)
  <2>2. HandleOutEp(c) = r
    BY <1>0, <2>1, Callbacked DEF OutStatus
  <2>3. /\ r \in CoreRec /\ r.in = c.in /\ r.dev = c.dev /\ r.le = c.le /\ ~r.ctl.ptr
        /\ r.out.ec = "busy" /\ r.out.cb = "setup" /\ r.out.data = <<>> /\ r.out.room = 3
        /\ ~r.out.ena /\ ~r.out.xfrc /\ ~r.out.stup
    BY <1>0, <2>1, SetupStage
  <2> HIDE DEF r
  <2>4. Pass(c, q) = IF q # <<>> THEN HandleRxlvl(r, Head(q)) ELSE r
    <3>1. HandleInEp(r) = r
      BY <1>4, <2>3, InEpIdle DEF InFree
    <3> QED BY <2>2, <3>1 DEF Pass
  <2>5. CoreTypes(r, h)
    BY <2>3, TypesStep
  <2>6. Good(IF q # <<>> THEN HandleRxlvl(r, Head(q)) ELSE r, NextQ(q), h)
    <3>1. Between(r, q, h, <<>>) /\ Settled(r, h) /\ InFree(r.in) /\ OutSetup(r.out)
      BY <1>0, <1>4, <2>3 DEF Between, AtFirst, Settled, OutSetup
    <3> QED BY <2>3, <2>5, <3>1, ReadyPop
  <2> QED BY <2>4, <2>6
<1> QED BY <1>1, <1>2, <1>3, <1>4 DEF Ending

LEMMA ConfirmedPass ==
  ASSUME NEW c, NEW q, NEW h, CoreTypes(c, h), Confirmed(c, q, h)
  PROVE  Good(Pass(c, q), NextQ(q), h)
<1> DEFINE d == [c EXCEPT !.in = Finished([c.in EXCEPT !.xfrc = FALSE], "ok")]
           r == StartSETUPStage(d)
<1>1. c \in CoreRec /\ c.in.xfrc /\ ~c.in.fe /\ c.in.cb = "statusin" /\ c.in.fifo = <<>> /\ ~c.in.ena
      /\ OutFree(c.out)
  BY DEF CoreTypes, Confirmed, InEmpty
<1>2. /\ HandleInEp(c) = Callback(d, "statusin", "ok", <<>>)
      /\ d \in CoreRec /\ d.out = c.out /\ d.ctl = c.ctl /\ d.dev = c.dev /\ d.le = c.le
      /\ d.in.ec = "ok" /\ d.in.cb = NoCb /\ d.in.ena = c.in.ena /\ d.in.nak = c.in.nak
      /\ ~d.in.fe /\ ~d.in.xfrc /\ d.in.fifo = c.in.fifo /\ d.in.data = c.in.data
      /\ d.in.offs = c.in.offs
  BY <1>1, FinishInOk
<1> HIDE DEF d
<1>3. HandleInEp(HandleOutEp(c)) = r
  BY <1>1, <1>2, OutEpIdle, Callbacked DEF OutFree
<1>4. /\ r \in CoreRec /\ r.in = d.in /\ r.dev = c.dev /\ r.le = c.le /\ ~r.ctl.ptr
      /\ r.out.ec = "busy" /\ r.out.cb = "setup" /\ r.out.data = <<>> /\ r.out.room = 3
      /\ ~r.out.ena /\ ~r.out.xfrc /\ ~r.out.stup
  BY <1>1, <1>2, SetupStage DEF OutFree
<1> HIDE DEF r
<1>5. CoreTypes(d, h)
  BY <1>2 DEF CoreTypes, LineOK, InBounds
<1>6. CoreTypes(r, h)
  BY <1>2, <1>4, <1>5, TypesStep
<1>7. Between(r, q, h, <<>>) /\ Settled(r, h) /\ InFree(r.in) /\ OutSetup(r.out)
  BY <1>1, <1>2, <1>4 DEF Confirmed, Between, AtFirst, Settled, OutSetup, InFree
<1>8. Good(IF q # <<>> THEN HandleRxlvl(r, Head(q)) ELSE r, NextQ(q), h)
  BY <1>4, <1>6, <1>7, ReadyPop
<1> QED BY <1>3, <1>8 DEF Pass

LEMMA PopData ==
  ASSUME NEW k \in OutRec, k.ec = "busy", k.room = 1, k.data = <<>>, NEW p \in Seq(Int), Len(p) = 1
  PROVE  LET r == RxPop(k, DataEntry(p))
         IN  /\ r \in OutRec /\ r.data = p /\ r.ec = k.ec /\ r.cb = k.cb /\ r.room = k.room
             /\ r.ena = k.ena /\ r.xfrc = k.xfrc /\ r.stup = k.stup
<1>1. DataEntry(p).kind = "data" /\ DataEntry(p).data = p
  BY Entries DEF DataEntry
<1>2. ReadPacket(k, p) = p
  <2>1. Least(1 - 0, 1) = 1
    BY DEF Least
  <2>2. SubSeq(p, 1, Len(p)) = p
    OBVIOUS
  <2> QED BY <2>1, <2>2, Empties DEF ReadPacket
<1>3. <<>> \o p = p /\ p \in Seq(Int \cup Requests)
  OBVIOUS
<1>4. RxPop(k, DataEntry(p)) = [k EXCEPT !.data = p]
  BY <1>1, <1>2, <1>3 DEF RxPop
<1> QED BY <1>3, <1>4 DEF OutRec

\* Data of `set line coding' also becomes the line coding.
LEMMA PopCoding ==
  ASSUME NEW c \in CoreRec, c.out.cb = "dataout", NEW p \in Seq(Int), RxPop(c.out, DataEntry(p)) \in OutRec,
         RxPop(c.out, DataEntry(p)).data = p
  PROVE  LET r == HandleRxlvl(c, DataEntry(p))
         IN  /\ r \in CoreRec /\ r.in = c.in /\ r.dev = c.dev /\ r.le = p /\ r.ctl = c.ctl
             /\ r.out = RxPop(c.out, DataEntry(p))
<1> DEFINE x == RxPop(c.out, DataEntry(p))
<1>1. DataEntry(p).kind = "data"
  BY Entries DEF DataEntry
<1>2. HandleRxlvl(c, DataEntry(p)) = [c EXCEPT !.out = x, !.le = p]
  BY <1>1 DEF HandleRxlvl
<1>3. x \in OutRec
  OBVIOUS
<1> HIDE DEF x
<1>4. LET r == [c EXCEPT !.out = x, !.le = p]
      IN  r \in CoreRec /\ r.in = c.in /\ r.dev = c.dev /\ r.le = p /\ r.ctl = c.ctl /\ r.out = x
  BY <1>3 DEF CoreRec
<1> QED BY <1>2, <1>4 DEF x

\* The end of the data does not change the coding.
LEMMA PopCodingDone ==
  ASSUME NEW c \in CoreRec
  PROVE  LET r == HandleRxlvl(c, DoneEntry)
         IN  /\ r \in CoreRec /\ r.in = c.in /\ r.dev = c.dev /\ r.le = c.le /\ r.ctl = c.ctl
             /\ r.out \in OutRec /\ r.out.xfrc /\ r.out.data = c.out.data /\ r.out.ec = c.out.ec
             /\ r.out.cb = c.out.cb /\ r.out.room = c.out.room /\ r.out.ena = c.out.ena
             /\ r.out.stup = c.out.stup
<1> DEFINE x == RxPop(c.out, DoneEntry)
<1>1. /\ x \in OutRec /\ x.xfrc /\ x.data = c.out.data /\ x.ec = c.out.ec /\ x.cb = c.out.cb
      /\ x.room = c.out.room /\ x.ena = c.out.ena /\ x.stup = c.out.stup
  BY CoreFields, PopDone
<1>2. HandleRxlvl(c, DoneEntry) = [c EXCEPT !.out = x, !.le = c.le]
  BY Entries DEF HandleRxlvl, DoneEntry
<1> HIDE DEF x
<1>3. LET r == [c EXCEPT !.out = x, !.le = c.le]
      IN  r \in CoreRec /\ r.in = c.in /\ r.dev = c.dev /\ r.le = c.le /\ r.ctl = c.ctl /\ r.out = x
  BY <1>1, CoreFields DEF CoreRec
<1> QED BY <1>1, <1>2, <1>3

LEMMA SendEmpty ==
  ASSUME NEW k \in InRec, k.ec # "busy", ~k.fe, ~k.xfrc,
         NEW x, x = CtlIN(k, <<>>, "statusin")
  PROVE  /\ x \in InRec /\ x.ec = "busy" /\ x.cb = "statusin" /\ x.data = <<>> /\ x.offs = 0
         /\ x.pkts = 1 /\ x.left = 0 /\ x.ena /\ ~x.nak /\ ~x.fe /\ x.fifo = k.fifo /\ ~x.xfrc
<1> DEFINE d == <<>>
<1>1. "statusin" \in Callbacks /\ Len(d) <= Mps /\ ~(Len(d) > 0) /\ d \in Seq(Int) /\ Len(d) = 0
  BY Words, UsbAssumption, Empties
<1>d. x = CtlIN(k, d, "statusin")
  OBVIOUS
<1> HIDE DEF d
<1> DEFINE r == CtlIN(k, d, "statusin")
<1>2. /\ r \in InRec /\ r.ec = "busy" /\ r.cb = "statusin" /\ r.data = d /\ r.offs = 0
      /\ r.pkts = 1 /\ r.left = Len(d) /\ r.ena /\ ~r.nak /\ (r.fe <=> k.fe \/ Len(d) > 0)
      /\ r.fifo = k.fifo /\ r.xfrc = k.xfrc
  BY <1>1, StartINFields, Zenon
<1>3. x = r
  BY <1>d
<1> HIDE DEF r
<1>4. r.left = 0 /\ ~r.fe /\ ~r.xfrc
  BY <1>1, <1>2
<1> QED BY <1>2, <1>3, <1>4 DEF d

\* The empty packet of the status stage.
LEMMA StatusStage ==
  ASSUME NEW c \in CoreRec, InFree(c.in), NEW r, r = StartStatusINStage(c)
  PROVE  /\ r \in CoreRec /\ r.out = c.out /\ r.ctl = c.ctl /\ r.dev = c.dev /\ r.le = c.le
         /\ InEmpty(r.in) /\ r.in.ena /\ ~r.in.nak /\ r.in.pkts = 1 /\ r.in.left = 0 /\ ~r.in.xfrc
         /\ InBounds(r.in)
<1> DEFINE k == c.in
           x == CtlIN(k, <<>>, "statusin")
<1>1. k \in InRec /\ k.ec # "busy" /\ ~k.fe /\ ~k.xfrc /\ k.fifo = <<>>
  BY CoreFields DEF InFree
<1>2. r = [c EXCEPT !.in = x]
  BY DEF StartStatusINStage, CtlIN
<1> HIDE DEF k
<1>3. /\ x \in InRec /\ x.ec = "busy" /\ x.cb = "statusin" /\ x.data = <<>> /\ x.offs = 0
      /\ x.pkts = 1 /\ x.left = 0 /\ x.ena /\ ~x.nak /\ ~x.fe /\ x.fifo = k.fifo /\ ~x.xfrc
  BY <1>1, SendEmpty
<1> HIDE DEF x
<1>4. /\ r \in CoreRec /\ r.in = x /\ r.out = c.out /\ r.ctl = c.ctl /\ r.dev = c.dev /\ r.le = c.le
  BY <1>2, <1>3, CoreSetIn
<1>5. x.offs <= Len(x.data) /\ Len(x.fifo) <= FifoRoom
  BY <1>1, <1>3, UsbAssumption, Empties
<1> QED BY <1>1, <1>3, <1>4, <1>5 DEF InEmpty, InBounds

LEMMA TakingPass ==
  ASSUME NEW c, NEW q, NEW h, CoreTypes(c, h), Taking(c, q, h)
  PROVE  Good(Pass(c, q), NextQ(q), h)
<1>0. /\ c \in CoreRec /\ h \in HostRec /\ c.out \in OutRec /\ InFree(c.in) /\ OutReading(c.out)
      /\ c.out.cb = "dataout" /\ h.coding = Unknown /\ ~c.out.stup /\ ~c.in.xfrc /\ ~c.in.fe /\ h.sent \in Seq(Int)
      /\ Settled(c, h)
  BY CoreFields DEF CoreTypes, Taking, OutReading, InFree, HostRec
<1>1. CASE /\ h.st = "out" /\ q = <<>>
           /\ c.out.ena /\ c.out.pkts = 1 /\ ~c.out.xfrc /\ c.out.data = <<>>
  <2>1. Pass(c, q) = c /\ NextQ(q) = q
    BY <1>0, <1>1, IdlePass DEF NextQ
  <2> QED BY <2>1, PhaseGood
<1>2. CASE /\ h.st = "statusin" /\ ~c.out.ena /\ Len(h.sent) = 1
           /\ q = <<DataEntry(h.sent), DoneEntry>> /\ c.out.data = <<>> /\ ~c.out.xfrc
  <2> DEFINE p == h.sent
             e == DataEntry(p)
             r == HandleRxlvl(c, e)
  <2>1. q # <<>> /\ Head(q) = e /\ NextQ(q) = <<DoneEntry>>
    BY <1>2 DEF NextQ
  <2>2. Pass(c, q) = r
    BY <1>0, <1>2, <2>1, IdlePass
  <2>3. LET x == RxPop(c.out, e)
        IN  /\ x \in OutRec /\ x.data = p /\ x.ec = c.out.ec /\ x.cb = c.out.cb /\ x.room = c.out.room
            /\ x.ena = c.out.ena /\ x.xfrc = c.out.xfrc /\ x.stup = c.out.stup
    BY <1>0, <1>2, PopData DEF OutReading
  <2>4. /\ r \in CoreRec /\ r.in = c.in /\ r.dev = c.dev /\ r.le = p /\ r.ctl = c.ctl
        /\ r.out = RxPop(c.out, e)
    BY <1>0, <2>3, PopCoding
  <2> HIDE DEF r
  <2>5. CoreTypes(r, h)
    BY <1>0, <1>2, <2>4 DEF CoreTypes, LineOK
  <2>6. Taking(r, <<DoneEntry>>, h)
    BY <1>0, <1>2, <2>3, <2>4 DEF Taking, OutReading, Settled
  <2> QED BY <2>1, <2>2, <2>5, <2>6, PhaseGood
<1>3. CASE /\ h.st = "statusin" /\ ~c.out.ena /\ Len(h.sent) = 1
           /\ q = <<DoneEntry>> /\ c.out.data = h.sent /\ c.le = h.sent /\ ~c.out.xfrc
  <2> DEFINE r == HandleRxlvl(c, DoneEntry)
  <2>1. q # <<>> /\ Head(q) = DoneEntry /\ NextQ(q) = <<>>
    BY <1>3, Single DEF NextQ
  <2>2. Pass(c, q) = r
    BY <1>0, <1>3, <2>1, IdlePass
  <2>3. /\ r \in CoreRec /\ r.in = c.in /\ r.dev = c.dev /\ r.le = c.le /\ r.ctl = c.ctl
        /\ r.out \in OutRec /\ r.out.xfrc /\ r.out.data = c.out.data /\ r.out.ec = c.out.ec
        /\ r.out.cb = c.out.cb /\ r.out.room = c.out.room /\ r.out.ena = c.out.ena
        /\ r.out.stup = c.out.stup
    BY <1>0, PopCodingDone
  <2> HIDE DEF r
  <2>4. CoreTypes(r, h)
    BY <2>3, TypesStep
  <2>5. Taking(r, <<>>, h)
    BY <1>0, <1>3, <2>3 DEF Taking, OutReading, Settled
  <2> QED BY <2>1, <2>2, <2>4, <2>5, PhaseGood
<1>4. CASE /\ h.st = "statusin" /\ ~c.out.ena /\ Len(h.sent) = 1
           /\ q = <<>> /\ c.out.data = h.sent /\ c.le = h.sent /\ c.out.xfrc
  <2>1. PICK d \in CoreRec :
             /\ HandleOutEp(c) = Callback(d, c.out.cb, "ok", c.out.data)
             /\ d.in = c.in /\ d.ctl = c.ctl /\ d.dev = c.dev /\ d.le = c.le
             /\ d.out.ec = "ok" /\ d.out.cb = NoCb /\ d.out.data = <<>> /\ d.out.ena = c.out.ena
             /\ ~d.out.xfrc /\ ~d.out.stup
    BY <1>0, <1>4, OutXfrc
  <2> DEFINE r == StartStatusINStage(d)
             s == h.req
  <2>2. s \in Requests /\ c.ctl.setup = s /\ s.req = "set_line" /\ s.length # 0 /\ s.dir = "out" /\ c.ctl.ptr
    BY CoreAssumption DEF Taking
  <2>3. ProcessSetup(d) = r
    <3>1. RequestCallback(d, s, IF s.type = "standard" /\ s.dir = "in" THEN StandardGet(d.dev, s) ELSE Refused) = {<<>>}
      BY <2>2 DEF RequestCallback
    <3>2. {<<>>} # Refused
      BY DEF Refused
    <3>3. ProcessSetupData(d, s) = r
      BY <2>1, <2>2, <3>1, <3>2 DEF ProcessSetupData
    <3> QED BY <2>1, <2>2, <3>3 DEF ProcessSetup
  <2>4. HandleOutEp(c) = r
    <3>1. DataOUTCallback(d, h.sent) = SetupCallback(d, <<>>)
      BY <1>4, CoreAssumption, UsbAssumption DEF DataOUTCallback
    <3>2. SetupCallback(d, <<>>) = ProcessSetup(d)
      BY DEF SetupCallback
    <3> QED BY <1>0, <1>4, <2>1, <2>3, <3>1, <3>2, Callbacked
  <2>5. /\ r \in CoreRec /\ r.out = d.out /\ r.ctl = d.ctl /\ r.dev = d.dev /\ r.le = d.le
        /\ InEmpty(r.in) /\ r.in.ena /\ ~r.in.nak /\ r.in.pkts = 1 /\ r.in.left = 0 /\ ~r.in.xfrc
        /\ InBounds(r.in)
    BY <1>0, <2>1, StatusStage
  <2> HIDE DEF r
  <2>6. Pass(c, q) = r /\ NextQ(q) = <<>>
    <3>1. HandleInEp(r) = r
      BY <2>5, InEpIdle DEF InEmpty
    <3> QED BY <1>4, <2>4, <3>1 DEF Pass, NextQ
  <2>7. CoreTypes(r, h)
    BY <1>0, <1>4, <2>1, <2>5 DEF CoreTypes, LineOK
  <2>8. Applied(r, h)
    BY <1>0, <2>1, <2>2, <2>5 DEF Applied, Settled
  <2>9. Confirming(r, <<>>, h)
    BY <1>4, <2>1, <2>2, <2>5, <2>8 DEF Confirming, OutFree
  <2> QED BY <2>6, <2>7, <2>9, PhaseGood
<1> QED BY <1>1, <1>2, <1>3, <1>4 DEF Taking
-----------------------------------------------------------------------------
(* The setup frame is complete: USBCore_ProcessSetup chooses the stage.    *)

\* The endpoint when the setup callback runs.
Prepared(c, h) ==
  /\ CoreTypes(c, h) /\ InFree(c.in) /\ OutFree(c.out) /\ ~c.ctl.ptr /\ c.ctl.setup = h.req
  /\ Settled(c, h) /\ AtFirst(c, h)

LEMMA RefuseStage ==
  ASSUME NEW c, NEW h, Prepared(c, h)
  PROVE  Good(HandleInEp(AbortStage(c)), <<>>, h)
<1> DEFINE r == StartSETUPStage(c)
<1>1. c \in CoreRec /\ c.in \in InRec /\ c.out \in OutRec /\ c.in.nak /\ ~c.out.ena /\ c.out.ec # "busy"
  BY CoreFields DEF Prepared, CoreTypes, AtFirst, OutFree
<1>2. [c EXCEPT !.in.nak = TRUE, !.out.ena = FALSE] = c
  <2>1. c.in.nak = TRUE /\ c.out.ena = FALSE
    BY <1>1 DEF InRec, OutRec
  <2>2. [c.in EXCEPT !.nak = TRUE] = c.in /\ [c.out EXCEPT !.ena = FALSE] = c.out
    BY <1>1, <2>1 DEF InRec, OutRec
  <2>3. [c EXCEPT !.in = c.in, !.out = c.out] = c
    BY <1>1 DEF CoreRec
  <2> QED BY <2>2, <2>3
<1>3. AbortStage(c) = r
  BY <1>2 DEF AbortStage
<1>4. /\ r \in CoreRec /\ r.in = c.in /\ r.dev = c.dev /\ r.le = c.le /\ ~r.ctl.ptr
      /\ r.out.ec = "busy" /\ r.out.cb = "setup" /\ r.out.data = <<>> /\ r.out.room = 3
      /\ r.out.ena = c.out.ena /\ r.out.xfrc = c.out.xfrc /\ r.out.stup = c.out.stup
  BY <1>1, SetupStage
<1> HIDE DEF r
<1>5. HandleInEp(r) = r
  BY <1>4, InEpIdle DEF Prepared, InFree
<1>6. CoreTypes(r, h)
  BY <1>4, TypesStep DEF Prepared
<1>7. Refusing(r, <<>>, h)
  BY <1>4 DEF Prepared, Refusing, OutFree, OutSetup, Settled, AtFirst
<1> QED BY <1>3, <1>5, <1>6, <1>7, PhaseGood

LEMMA ConfirmStage ==
  ASSUME NEW c, NEW h, Prepared(c, h), NEW d \in DevRec, h.st = "statusin", h.req.req # "set_line",
         DevAgrees(d, IF h.req.req = "set_address" THEN h.req.value ELSE h.addr,
                      IF h.req.req = "set_configuration" THEN h.req.value ELSE h.cfg)
  PROVE  Good(HandleInEp(StartStatusINStage([c EXCEPT !.dev = d])), <<>>, h)
<1> DEFINE b == [c EXCEPT !.dev = d]
           r == StartStatusINStage(b)
<1>1. b \in CoreRec /\ b.in = c.in /\ b.out = c.out /\ b.ctl = c.ctl /\ b.dev = d /\ b.le = c.le
  BY DEF Prepared, CoreTypes, CoreRec
<1> HIDE DEF b
<1>2. /\ r \in CoreRec /\ r.out = b.out /\ r.ctl = b.ctl /\ r.dev = b.dev /\ r.le = b.le
      /\ InEmpty(r.in) /\ r.in.ena /\ ~r.in.nak /\ r.in.pkts = 1 /\ r.in.left = 0 /\ ~r.in.xfrc
      /\ InBounds(r.in)
  BY <1>1, StatusStage DEF Prepared
<1> HIDE DEF r
<1>3. HandleInEp(r) = r
  BY <1>2, InEpIdle DEF InEmpty
<1>4. CoreTypes(r, h)
  BY <1>1, <1>2 DEF Prepared, CoreTypes, LineOK
<1>5. Applied(r, h)
  BY <1>1, <1>2 DEF Applied
<1>6. Confirming(r, <<>>, h)
  BY <1>1, <1>2, <1>5 DEF Confirming, Prepared, AtFirst
<1> QED BY <1>3, <1>4, <1>6, PhaseGood DEF r, b

LEMMA TakeStage ==
  ASSUME NEW c, NEW h, Prepared(c, h), h.st = "out", h.req.req = "set_line", h.req.length # 0
  PROVE  Good(HandleInEp(StartDataOUTStage(c, Len(c.le))), <<>>, h)
<1> DEFINE n == Len(c.le)
           k == c.out
           x == StartOUT(k, n, "dataout")
           ctl == [c.ctl EXCEPT !.ptr = TRUE, !.size = n, !.offset = 0]
           r == [c EXCEPT !.ctl = ctl, !.out = x]
<1>1. n = 1 /\ Least(Mps, n) = n /\ n \in 0 .. Mps /\ n \in Nat
  BY CoreAssumption, UsbAssumption DEF Prepared, CoreTypes, LineOK, Least
<1>2. StartDataOUTStage(c, n) = r
  BY <1>1 DEF StartDataOUTStage
<1>3. c \in CoreRec /\ k \in OutRec /\ k.ec # "busy" /\ "dataout" \in Callbacks /\ ~k.xfrc /\ ~k.stup
  BY CoreFields, Words DEF Prepared, CoreTypes, OutFree
<1>4. ctl \in CtlRec /\ ctl.ptr /\ ctl.setup = c.ctl.setup
  BY <1>1, <1>3, CoreFields, 0 \in Nat DEF CtlRec
<1>n. StartDataOUTStage(c, Len(c.le)) = r
  BY <1>2
<1> HIDE DEF n, k, ctl
<1>5. /\ x \in OutRec /\ x.ec = "busy" /\ x.cb = "dataout" /\ x.data = <<>> /\ x.room = n
      /\ x.pkts = 1 /\ x.ena /\ x.xfrc = k.xfrc /\ x.stup = k.stup
  BY <1>1, <1>3, StartOUTFields
<1> HIDE DEF x
<1>6. /\ r \in CoreRec /\ r.in = c.in /\ r.out = x /\ r.ctl = ctl /\ r.dev = c.dev /\ r.le = c.le
  BY <1>3, <1>4, <1>5 DEF CoreRec
<1> HIDE DEF r
<1>7. HandleInEp(r) = r
  BY <1>6, InEpIdle DEF Prepared, InFree
<1>8. CoreTypes(r, h)
  BY <1>6, TypesStep DEF Prepared
<1>9. OutReading(r.out) /\ ~r.out.xfrc
  BY <1>1, <1>3, <1>5, <1>6 DEF OutReading
<1>10. Taking(r, <<>>, h)
  BY <1>4, <1>5, <1>6, <1>9 DEF Taking, Prepared, Settled, AtFirst
<1> QED BY <1>n, <1>7, <1>8, <1>10, PhaseGood

LEMMA AnswerStage ==
  ASSUME NEW c, NEW h, Prepared(c, h), h.st = "in", NEW a \in Seq(Int), IsAnswer(a, h)
  PROVE  Good(HandleInEp(StartDataINStage(c, a)), <<>>, h)
<1> DEFINE k == c.in
           o == c.out
           f == a # <<>>
           n == Len(a)
           ctl == [c.ctl EXCEPT !.ptr = f, !.data = a, !.size = n, !.offset = 0]
           p == CtlPart(ctl, 0)
           x == CtlIN(k, p, "datain")
           y == StartOUT(o, 0, "statusout")
           r == [c EXCEPT !.ctl = ctl, !.in = x, !.out = y]
<1>1. StartDataINStage(c, a) = r
  BY DEF StartDataINStage, CtlIN
<1>2. /\ c \in CoreRec /\ k \in InRec /\ o \in OutRec /\ k.ec # "busy" /\ o.ec # "busy" /\ ~k.fe /\ ~k.xfrc
      /\ ~o.xfrc /\ ~o.stup /\ k.fifo = <<>> /\ f \in BOOLEAN /\ n \in Nat /\ n = Len(a)
      /\ "datain" \in Callbacks /\ "statusout" \in Callbacks
  BY CoreFields, Words, LenProperties DEF Prepared, CoreTypes, OutFree, InFree
<1>m. Mps \in Nat /\ Mps > 1 /\ n \in 0 .. Mps + 1
  BY <1>2, UsbAssumption, CoreAssumption DEF IsAnswer
<1> HIDE DEF f, n, k, o
<1>3. ctl \in CtlRec /\ ctl.data = a /\ ctl.size = n /\ ctl.offset = 0
  BY <1>2, CoreFields, 0 \in Nat DEF CtlRec
<1> HIDE DEF ctl
<1> DEFINE l == Least(Mps, n)
<1>4. l \in 0 .. Mps /\ l <= n /\ l \in Nat
  BY <1>m, <1>2 DEF Least
<1>5. p = SubSeq(a, 1, l)
  <2>1. ctl.size - 0 = n
    BY <1>2, <1>3
  <2>2. Least(Mps, ctl.size - 0) = l
    BY <2>1
  <2>3. p = SubSeq(a, 0 + 1, 0 + l)
    BY <1>3, <2>2 DEF CtlPart
  <2> QED BY <1>4, <2>3
<1> HIDE DEF l, p
<1>6. p \in Seq(Int) /\ Len(p) = l /\ Len(p) \in 0 .. Mps
  BY <1>2, <1>4, <1>5
<1>x. x = CtlIN(k, p, "datain")
  OBVIOUS
<1> HIDE DEF x
<1>7. /\ x \in InRec /\ x.ec = "busy" /\ x.cb = "datain" /\ x.data = p /\ x.offs = 0
      /\ x.pkts = 1 /\ x.left = Len(p) /\ x.ena /\ ~x.nak /\ (x.fe <=> Len(p) > 0) /\ x.fifo = k.fifo /\ ~x.xfrc
  BY <1>2, <1>6, <1>x, SendPart
<1>8. /\ y \in OutRec /\ y.ec = "busy" /\ y.cb = "statusout" /\ y.data = <<>> /\ y.room = 0
      /\ y.pkts = 1 /\ y.ena /\ y.xfrc = o.xfrc /\ y.stup = o.stup
  <2>1. 0 \in 0 .. Mps
    BY UsbAssumption
  <2> QED BY <1>2, <2>1, StartOUTFields
<1> HIDE DEF y
<1>9. r \in CoreRec /\ r.in = x /\ r.out = y /\ r.ctl = ctl /\ r.dev = c.dev /\ r.le = c.le
  BY <1>2, <1>3, <1>7, <1>8 DEF CoreRec
<1> HIDE DEF r
<1>10. CoreTypes(r, h)
  <2>1. x.offs <= Len(x.data) /\ Len(x.fifo) <= FifoRoom
    BY <1>2, <1>6, <1>7, UsbAssumption, Empties
  <2> QED BY <1>9, <2>1 DEF Prepared, CoreTypes, LineOK, InBounds
<1>11. Answering(r, h)
  BY <1>2, <1>3, <1>9 DEF Answering, Prepared, Settled, AtFirst
<1>12. Part(r) = p
  BY <1>3, <1>9 DEF Part, p
<1>13. h.got = SubSeq(r.ctl.data, 1, r.ctl.offset)
  <2>1. SubSeq(a, 1, 0) = <<>>
    OBVIOUS
  <2> QED BY <2>1, <1>3, <1>9 DEF Prepared, AtFirst
<1>14. OutArmed(r.out) /\ InSending(r.in)
  BY <1>2, <1>7, <1>8, <1>9 DEF OutArmed, OutStatus, InSending
<1>15. Sending(r, <<>>, h)
  <2>1. ~r.in.fe => p = <<>>
    <3>1. ~r.in.fe => Len(p) = 0
      BY <1>4, <1>6, <1>7, <1>9
    <3> QED BY <1>6, <3>1, NoInts
  <2> QED BY <1>2, <1>7, <1>9, <1>11, <1>12, <1>13, <1>14, <2>1 DEF Sending
<1>16. CASE r.in.fe
  <2>1. Good(Pass(r, <<>>), NextQ(<<>>), h)
    BY <1>10, <1>15, <1>16, SendingPass
  <2>2. Pass(r, <<>>) = HandleInEp(r) /\ NextQ(<<>>) = <<>>
    BY <1>14, OutEpIdle DEF Pass, NextQ, OutArmed, OutStatus
  <2> QED BY <1>1, <2>1, <2>2
<1>17. CASE ~r.in.fe
  <2>1. HandleInEp(r) = r
    BY <1>17, <1>14, InEpIdle DEF InSending
  <2> QED BY <1>1, <1>10, <1>15, <2>1, PhaseGood
<1> QED BY <1>16, <1>17

LEMMA OneElement == \A x : {x} # Refused /\ (CHOOSE y \in {x} : TRUE) = x
BY DEF Refused

LEMMA SetupFields ==
  ASSUME NEW s \in Requests
  PROVE  /\ s.dir \in {"in", "out"} /\ s.value \in Nat /\ s.index \in Nat /\ s.length \in Nat
         /\ (s.req = "set_line" => s.dir = "out") /\ (s.req = "get_line" => s.dir = "in")
         /\ (s.req = "get_descriptor" /\ DescType(s) = 2 => s.length # Mps)
<1>1. s \in SetupFrames
  BY CoreAssumption
<1> QED BY <1>1, CoreAssumption DEF SetupFrames

LEMMA OneByte ==
  ASSUME NEW n \in Nat
  PROVE  <<n>> \in Seq(Int) /\ Len(<<n>>) = 1
OBVIOUS

\* An answer of one or two bytes satisfies what every answer must.
LEMMA ShortAnswer ==
  ASSUME NEW a \in Seq(Int), Len(a) \in 1 .. 2, NEW h, h.req \in Requests, h.req.length >= Len(a),
         h.req.req # "get_descriptor",
         h.req.req = "get_configuration" => a = <<h.cfg>>,
         h.req.req = "get_line" /\ h.coding # Unknown => a = <<h.coding>>
  PROVE  IsAnswer(a, h)
<1>1. h.req.length \in Nat /\ Mps \in Nat /\ Mps > 2
  BY SetupFields, UsbAssumption, CoreAssumption
<1>2. Len(a) \in 0 .. Mps + 1 /\ Len(a) # Mps /\ Len(a) <= h.req.length
  <2> DEFINE n == Len(a)
             m == h.req.length
  <2>1. n \in 1 .. 2 /\ m \in Nat /\ m >= n
    BY <1>1
  <2> HIDE DEF n, m
  <2>2. n \in 0 .. Mps + 1 /\ n # Mps /\ n <= m
    BY <1>1, <2>1
  <2> QED BY <2>2 DEF n, m
<1> QED BY <1>2 DEF IsAnswer

LEMMA BytesFacts ==
  ASSUME NEW v \in Nat, NEW n \in Nat
  PROVE  Bytes(v, n) \in Seq(Int) /\ Len(Bytes(v, n)) = n
<1>1. \A i \in 1 .. n : 100 * v + i \in Int
  OBVIOUS
<1> DEFINE f == [i \in 1 .. n |-> 100 * v + i]
<1>2. f \in [1 .. n -> Int]
  BY <1>1
<1> HIDE DEF f
<1>3. f \in Seq(Int) /\ Len(f) = n
  <2>1. DOMAIN f = 1 .. n
    BY <1>2
  <2>2. f \in Seq(Int)
    BY <1>2
  <2>3. Len(f) \in Nat /\ DOMAIN f = 1 .. Len(f)
    BY <2>2, LenProperties
  <2> QED BY <2>1, <2>2, <2>3
<1> QED BY <1>3 DEF Bytes, f

\* What a standard `get' returns is an answer.
LEMMA GetAnswers ==
  ASSUME NEW c, NEW h, Prepared(c, h), h.req.length # 0, StandardGet(c.dev, h.req) # Refused
  PROVE  \E a \in Seq(Int) : StandardGet(c.dev, h.req) = {a} /\ (h.req.req # "get_line" => IsAnswer(a, h))
<1> DEFINE s == h.req
           d == c.dev
<1>1. s \in Requests /\ d \in DevRec /\ d.configuration \in Nat /\ d.alternate \in Nat
      /\ d.configuration = h.cfg /\ s.length \in Nat /\ s.length >= 1 /\ s.value \in Nat
  BY CoreFields, SetupFields DEF Prepared, CoreTypes, AtFirst, DevRec, Settled, DevAgrees
<1>2. CASE s.req = "get_descriptor"
  <2> DEFINE t == DescType(s)
             z == DescSize(s)
             n == Least(z, s.length)
             a == Bytes(t, n)
  <2>1. t \in DOMAIN Descriptors /\ StandardGet(d, s) = {a}
    BY <1>2 DEF StandardGet, GetDescriptor, Descriptor, Refused
  <2>2. Mps \in Nat /\ Mps > 2
    BY UsbAssumption, CoreAssumption
  <2>3. t \in 1 .. 4 /\ (z = 0 \/ z = IF t = 2 THEN Mps + 1 ELSE 1)
    <3>1. DOMAIN Descriptors = 1 .. 4
      BY DEF Descriptors
    <3>2. Descriptors[1] = 1 /\ Descriptors[2] = Mps + 1 /\ Descriptors[3] = 1 /\ Descriptors[4] = 1
      BY DEF Descriptors, DeviceDesc, ConfigDesc, StringDesc, QualifierDesc
    <3>3. z = 0 \/ z = Descriptors[t]
      BY DEF DescSize
    <3> HIDE DEF t, z
    <3> QED BY <2>1, <3>1, <3>2, <3>3
  <2>s. t = 2 => s.length # Mps
    BY <1>1, <1>2, SetupFields
  <2>a. a = Descriptor(s)
    BY DEF Descriptor
  <2> HIDE DEF t, z
  <2>4. n \in 0 .. Mps + 1 /\ n # Mps /\ n <= s.length /\ n \in Nat
    BY <1>1, <2>2, <2>3, <2>s DEF Least
  <2> HIDE DEF n
  <2>5. a \in Seq(Int) /\ Len(a) = n
    <3>1. t \in Nat /\ n \in Nat
      BY <2>3, <2>4
    <3> QED BY <3>1, BytesFacts
  <2>6. IsAnswer(a, h)
    BY <1>2, <2>a, <2>4, <2>5 DEF IsAnswer
  <2> QED BY <2>1, <2>5, <2>6
<1>3. CASE s.req = "get_configuration"
  <2>1. StandardGet(d, s) = {<<d.configuration>>}
    BY <1>3 DEF StandardGet, GetConfiguration
  <2>2. <<d.configuration>> \in Seq(Int) /\ Len(<<d.configuration>>) = 1
    BY <1>1, OneByte
  <2>a. Len(<<d.configuration>>) \in 1 .. 2 /\ s.length >= Len(<<d.configuration>>)
    BY <1>1, <2>2
  <2>3. IsAnswer(<<d.configuration>>, h)
    BY <1>1, <1>3, <2>2, <2>a, ShortAnswer
  <2> QED BY <2>1, <2>2, <2>3
<1>4. CASE s.req = "get_status"
  <2>1. PICK n \in {0, 1} : StandardGet(d, s) = {<<n, 0>>} /\ s.length = 2
    BY <1>4 DEF StandardGet, GetStatus, Refused
  <2>2. <<n, 0>> \in Seq(Int) /\ Len(<<n, 0>>) = 2
    OBVIOUS
  <2>a. Len(<<n, 0>>) \in 1 .. 2 /\ s.length >= Len(<<n, 0>>)
    BY <2>1, <2>2
  <2>3. IsAnswer(<<n, 0>>, h)
    BY <1>1, <1>4, <2>2, <2>a, ShortAnswer
  <2> QED BY <2>1, <2>2, <2>3
<1>5. CASE s.req = "get_interface"
  <2>1. StandardGet(d, s) = {<<d.alternate>>}
    BY <1>5 DEF StandardGet, GetInterface
  <2>2. <<d.alternate>> \in Seq(Int) /\ Len(<<d.alternate>>) = 1
    BY <1>1, OneByte
  <2>a. Len(<<d.alternate>>) \in 1 .. 2 /\ s.length >= Len(<<d.alternate>>)
    BY <1>1, <2>2
  <2>3. IsAnswer(<<d.alternate>>, h)
    BY <1>1, <1>5, <2>2, <2>a, ShortAnswer
  <2> QED BY <2>1, <2>2, <2>3
<1>6. CASE s.req \notin {"get_descriptor", "get_configuration", "get_status", "get_interface"}
  BY <1>6 DEF StandardGet
<1> QED BY <1>2, <1>3, <1>4, <1>5, <1>6

\* What a standard `set' leaves agrees with what the host asked for.
LEMMA SetApplies ==
  ASSUME NEW d \in DevRec, NEW s \in Requests, NEW addr \in Nat, NEW cfg \in Nat, DevAgrees(d, addr, cfg),
         StandardSet(d, s) # Refused
  PROVE  \E x \in DevRec :
           /\ StandardSet(d, s) = {x} /\ s.req # "set_line"
           /\ DevAgrees(x, IF s.req = "set_address" THEN s.value ELSE addr,
                           IF s.req = "set_configuration" THEN s.value ELSE cfg)
<1>0. s.value \in Nat /\ s.index \in Nat /\ d.halt_tx \in SUBSET Nat /\ d.halt_rx \in SUBSET Nat
  BY SetupFields DEF DevRec
<1>1. CASE s.req = "set_address"
  <2> DEFINE st == IF s.value = 0 THEN "default" ELSE "address"
             x == [d EXCEPT !.address = s.value, !.state = st]
  <2>1. StandardSet(d, s) = {x} /\ d.state # "configured"
    BY <1>1 DEF StandardSet, SetAddress, Configured
  <2>2. st \in {"default", "address", "configured"}
    OBVIOUS
  <2>3. x \in DevRec /\ x.address = s.value /\ x.state = st /\ x.configuration = d.configuration
    BY <1>0 DEF DevRec
  <2>4. cfg = 0 /\ d.configuration = 0
    BY <2>1 DEF DevAgrees
  <2>5. DevAgrees(x, s.value, cfg)
    BY <2>3, <2>4 DEF DevAgrees
  <2> QED BY <1>1, <2>1, <2>3, <2>5
<1>2. CASE s.req = "set_configuration"
  <2> DEFINE st == IF s.value = 0 THEN "address" ELSE "configured"
             x == [d EXCEPT !.configuration = s.value, !.state = st]
  <2>1. StandardSet(d, s) = {x} /\ d.state # "default"
    BY <1>2 DEF StandardSet, SetConfiguration
  <2>2. x \in DevRec /\ x.configuration = s.value /\ x.state = st /\ x.address = d.address
    BY <1>0 DEF DevRec
  <2>3. addr # 0 /\ d.address = addr
    BY <2>1 DEF DevAgrees
  <2>4. DevAgrees(x, addr, s.value)
    BY <2>2, <2>3 DEF DevAgrees
  <2> QED BY <1>2, <2>1, <2>2, <2>4
<1>3. CASE s.req = "clear_feature" \/ s.req = "set_feature"
  <2>1. PICK t \in SUBSET Nat, w \in SUBSET Nat : StandardSet(d, s) = {[d EXCEPT !.halt_tx = t, !.halt_rx = w]}
    <3> DEFINE e == EpNum(s)
    <3>0. e \in Nat
      BY <1>0 DEF EpNum
    <3> HIDE DEF e
    <3>1. /\ d.halt_tx \ {e} \in SUBSET Nat /\ d.halt_tx \cup {e} \in SUBSET Nat
          /\ d.halt_rx \ {e} \in SUBSET Nat /\ d.halt_rx \cup {e} \in SUBSET Nat
      BY <1>0, <3>0
    <3>2. \A u : [d EXCEPT !.halt_tx = u] = [d EXCEPT !.halt_tx = u, !.halt_rx = d.halt_rx]
      BY DEF DevRec
    <3>3. \A u : [d EXCEPT !.halt_rx = u] = [d EXCEPT !.halt_tx = d.halt_tx, !.halt_rx = u]
      BY DEF DevRec
    <3>4. \/ StandardSet(d, s) = {[d EXCEPT !.halt_tx = d.halt_tx \ {e}]}
          \/ StandardSet(d, s) = {[d EXCEPT !.halt_tx = d.halt_tx \cup {e}]}
          \/ StandardSet(d, s) = {[d EXCEPT !.halt_rx = d.halt_rx \ {e}]}
          \/ StandardSet(d, s) = {[d EXCEPT !.halt_rx = d.halt_rx \cup {e}]}
      BY <1>3 DEF StandardSet, ClearFeature, SetFeature, e
    <3>5. ASSUME NEW u \in SUBSET Nat, StandardSet(d, s) = {[d EXCEPT !.halt_tx = u]}
          PROVE  \E a \in SUBSET Nat, b \in SUBSET Nat :
                   StandardSet(d, s) = {[d EXCEPT !.halt_tx = a, !.halt_rx = b]}
      <4>1. StandardSet(d, s) = {[d EXCEPT !.halt_tx = u, !.halt_rx = d.halt_rx]}
        BY <3>2, <3>5
      <4> QED BY <1>0, <4>1
    <3>6. ASSUME NEW u \in SUBSET Nat, StandardSet(d, s) = {[d EXCEPT !.halt_rx = u]}
          PROVE  \E a \in SUBSET Nat, b \in SUBSET Nat :
                   StandardSet(d, s) = {[d EXCEPT !.halt_tx = a, !.halt_rx = b]}
      <4>1. StandardSet(d, s) = {[d EXCEPT !.halt_tx = d.halt_tx, !.halt_rx = u]}
        BY <3>3, <3>6
      <4> QED BY <1>0, <4>1
    <3> QED BY <3>1, <3>4, <3>5, <3>6
  <2> DEFINE x == [d EXCEPT !.halt_tx = t, !.halt_rx = w]
  <2>2. x \in DevRec /\ x.configuration = d.configuration /\ x.state = d.state /\ x.address = d.address
    BY <2>1 DEF DevRec
  <2>3. DevAgrees(x, addr, cfg)
    BY <2>2 DEF DevAgrees
  <2> QED BY <1>3, <2>1, <2>2, <2>3
<1>4. CASE s.req = "set_interface"
  <2> DEFINE v == s.value % 256
             x == [d EXCEPT !.alternate = v]
  <2>1. StandardSet(d, s) = {x}
    BY <1>4 DEF StandardSet, SetInterface
  <2>v. v \in Nat
    BY <1>0
  <2> HIDE DEF v
  <2>2. x \in DevRec /\ x.configuration = d.configuration /\ x.state = d.state /\ x.address = d.address
    BY <2>v DEF DevRec
  <2>3. DevAgrees(x, addr, cfg)
    BY <2>2 DEF DevAgrees
  <2> QED BY <1>4, <2>1, <2>2, <2>3
<1>5. CASE s.req \notin {"set_address", "set_configuration", "clear_feature", "set_feature", "set_interface"}
  BY <1>5 DEF StandardSet
<1> QED BY <1>1, <1>2, <1>3, <1>4, <1>5

\* A request without a data stage is applied and confirmed, or refused.
LEMMA NoDataStage ==
  ASSUME NEW c, NEW h, Prepared(c, h), h.req.length = 0
  PROVE  Good(HandleInEp(ProcessSetupNoData(c, h.req)), <<>>, h)
<1> DEFINE s == h.req
           std == IF s.type = "standard" /\ s.dir = "out" THEN StandardSet(c.dev, s) ELSE Refused
<1>1. /\ s \in Requests /\ h.st = "statusin" /\ c \in CoreRec /\ c.dev \in DevRec
      /\ DevAgrees(c.dev, h.addr, h.cfg) /\ h.addr \in Nat /\ h.cfg \in Nat
  BY CoreFields DEF Prepared, CoreTypes, AtFirst, FirstStage, Settled, HostRec
<1>2. CASE std # Refused
  <2>1. StandardSet(c.dev, s) # Refused /\ std = StandardSet(c.dev, s)
    BY <1>2
  <2>2. PICK x \in DevRec :
           /\ StandardSet(c.dev, s) = {x} /\ s.req # "set_line"
           /\ DevAgrees(x, IF s.req = "set_address" THEN s.value ELSE h.addr,
                           IF s.req = "set_configuration" THEN s.value ELSE h.cfg)
    BY <1>1, <2>1, SetApplies
  <2>3. (CHOOSE d \in std : TRUE) = x
    BY <2>1, <2>2, OneElement
  <2>4. ProcessSetupNoData(c, s) = StartStatusINStage([c EXCEPT !.dev = x])
    BY <1>2, <2>3 DEF ProcessSetupNoData
  <2> QED BY <1>1, <2>2, <2>4, ConfirmStage
<1>3. CASE std = Refused /\ s.req = "set_control"
  <2>1. ProcessSetupNoData(c, s) = StartStatusINStage([c EXCEPT !.dev = c.dev])
    BY <1>3 DEF ProcessSetupNoData
  <2>2. DevAgrees(c.dev, IF s.req = "set_address" THEN s.value ELSE h.addr,
                         IF s.req = "set_configuration" THEN s.value ELSE h.cfg)
    BY <1>1, <1>3
  <2> QED BY <1>1, <1>3, <2>1, <2>2, ConfirmStage
<1>4. CASE std = Refused /\ s.req # "set_control"
  <2>1. ProcessSetupNoData(c, s) = AbortStage(c)
    BY <1>4 DEF ProcessSetupNoData
  <2> QED BY <2>1, RefuseStage
<1> QED BY <1>2, <1>3, <1>4

\* A request with a data stage is answered, its data awaited, or refused.
LEMMA DataStage ==
  ASSUME NEW c, NEW h, Prepared(c, h), h.req.length # 0
  PROVE  Good(HandleInEp(ProcessSetupData(c, h.req)), <<>>, h)
<1> DEFINE s == h.req
           std == IF s.type = "standard" /\ s.dir = "in" THEN StandardGet(c.dev, s) ELSE Refused
           res == RequestCallback(c, s, std)
<1>1. /\ s \in Requests /\ c \in CoreRec /\ ~c.ctl.ptr /\ h.st = (IF s.dir = "in" THEN "in" ELSE "out")
      /\ c.le \in Seq(Int) /\ Len(c.le) = 1 /\ (h.coding # Unknown => c.le = <<h.coding>>)
  BY CoreFields DEF Prepared, CoreTypes, AtFirst, FirstStage, LineOK
<1>2. /\ s.dir \in {"in", "out"} /\ (s.req = "set_line" => s.dir = "out")
      /\ (s.req = "get_line" => s.dir = "in")
  BY <1>1, SetupFields
<1>3. CASE res = Refused
  <2>1. ProcessSetupData(c, s) = AbortStage(c)
    BY <1>3 DEF ProcessSetupData
  <2> QED BY <2>1, RefuseStage
<1>4. CASE res # Refused /\ s.dir = "in"
  <2>1. PICK a \in Seq(Int) : res = {a} /\ IsAnswer(a, h)
    <3>1. CASE s.req = "get_line"
      <4>1. res = {c.le}
        BY <3>1 DEF RequestCallback
      <4>a. Len(c.le) \in 1 .. 2 /\ s.length >= Len(c.le)
        BY <1>1, SetupFields
      <4>2. IsAnswer(c.le, h)
        BY <1>1, <3>1, <4>a, ShortAnswer
      <4> QED BY <1>1, <4>1, <4>2
    <3>2. CASE s.req # "get_line"
      <4>1. res = StandardGet(c.dev, s)
        BY <1>2, <1>4, <3>2 DEF RequestCallback
      <4>2. PICK a \in Seq(Int) : StandardGet(c.dev, s) = {a} /\ (s.req # "get_line" => IsAnswer(a, h))
        BY <1>4, <4>1, GetAnswers
      <4> QED BY <3>2, <4>1, <4>2
    <3> QED BY <3>1, <3>2
  <2>2. (CHOOSE data \in res : TRUE) = a
    BY <2>1, OneElement
  <2>3. ProcessSetupData(c, s) = StartDataINStage(c, a)
    BY <1>4, <2>2 DEF ProcessSetupData
  <2> QED BY <1>1, <1>4, <2>1, <2>3, AnswerStage
<1>5. CASE res # Refused /\ s.dir # "in"
  <2>1. s.req = "set_line"
    BY <1>2, <1>5 DEF RequestCallback
  <2>2. ProcessSetupData(c, s) = StartDataOUTStage(c, Len(c.le))
    BY <1>1, <1>5 DEF ProcessSetupData
  <2> QED BY <1>1, <1>5, <2>1, <2>2, TakeStage
<1> QED BY <1>3, <1>4, <1>5

LEMMA FramedPass ==
  ASSUME NEW c, NEW q, NEW h, CoreTypes(c, h), Framing(c, q, h), c.out.stup
  PROVE  Good(Pass(c, q), NextQ(q), h)
<1> DEFINE s == h.req
<1>1. /\ c \in CoreRec /\ q = <<>> /\ NextQ(q) = <<>> /\ ~c.out.xfrc /\ s \in Requests
      /\ c.out.data = <<s>> /\ c.out.cb = "setup"
  BY DEF CoreTypes, Framing, NextQ, OutSetup, AtFirst
<1>2. PICK d \in CoreRec :
             /\ HandleOutEp(c) = Callback(d, c.out.cb, "ok", c.out.data)
             /\ d.in = c.in /\ d.ctl = c.ctl /\ d.dev = c.dev /\ d.le = c.le
             /\ d.out.ec = "ok" /\ d.out.cb = NoCb /\ d.out.data = <<>> /\ d.out.ena = c.out.ena
             /\ ~d.out.xfrc /\ ~d.out.stup
  BY <1>1, OutStup
<1> DEFINE ctl == [d.ctl EXCEPT !.setup = s]
           b == [d EXCEPT !.ctl = ctl]
<1>3. ctl \in CtlRec /\ ctl.setup = s /\ ctl.ptr = d.ctl.ptr
  BY <1>1, <1>2, CoreFields DEF CtlRec
<1>4. [d EXCEPT !.ctl.setup = s] = b
  OBVIOUS
<1>5. HandleOutEp(c) = ProcessSetup(b)
  <2>1. <<s>> # <<>> /\ <<s>>[Len(<<s>>)] = s
    OBVIOUS
  <2>2. SetupCallback(d, <<s>>) = ProcessSetup(b)
    BY <1>4, <2>1 DEF SetupCallback
  <2> QED BY <1>1, <1>2, <2>2, Callbacked
<1> HIDE DEF ctl
<1>6. b \in CoreRec /\ b.in = c.in /\ b.out = d.out /\ b.ctl = ctl /\ b.dev = c.dev /\ b.le = c.le
  BY <1>2, <1>3 DEF CoreRec
<1> HIDE DEF b
<1>7. Prepared(b, h)
  <2>1. CoreTypes(b, h)
    BY <1>6, TypesStep
  <2> QED BY <1>2, <1>3, <1>6, <2>1 DEF Prepared, Framing, OutFree, OutSetup, Settled, AtFirst
<1>8. ProcessSetup(b) = IF s.length = 0 THEN ProcessSetupNoData(b, s) ELSE ProcessSetupData(b, s)
  BY <1>3, <1>6 DEF ProcessSetup
<1>9. Good(HandleInEp(ProcessSetup(b)), <<>>, h)
  BY <1>7, <1>8, NoDataStage, DataStage
<1> QED BY <1>1, <1>5, <1>9 DEF Pass

\* A pass of the handler while the bus is quiet.
LEMMA PassGood ==
  ASSUME NEW c, NEW q, NEW h, Good(c, q, h)
  PROVE  Good(Pass(c, q), NextQ(q), h)
<1>0. CoreTypes(c, h)
  BY DEF Good
<1>1. CASE Listening(c, q, h)
  BY <1>0, <1>1, ListeningPass
<1>2. CASE Framing(c, q, h)
  BY <1>0, <1>2, FramePass, FramedPass
<1>3. CASE Refusing(c, q, h) \/ Answered(c, q, h) \/ Confirming(c, q, h)
  BY <1>0, <1>3, StillPass
<1>4. CASE Sending(c, q, h)
  BY <1>0, <1>4, StillPass, SendingPass
<1>5. CASE Sent(c, q, h)
  BY <1>0, <1>5, SentPass
<1>6. CASE Ending(c, q, h)
  BY <1>0, <1>6, EndingPass
<1>7. CASE Taking(c, q, h)
  BY <1>0, <1>7, TakingPass
<1>8. CASE Confirmed(c, q, h)
  BY <1>0, <1>8, ConfirmedPass
<1> QED BY <1>1, <1>2, <1>3, <1>4, <1>5, <1>6, <1>7, <1>8 DEF Good, Phase
-----------------------------------------------------------------------------
(* The host, in each phase.                                                *)

LEMMA HostFields ==
  ASSUME NEW h \in HostRec
  PROVE  /\ h.got \in Seq(Int) /\ h.sent \in Seq(Int) /\ h.addr \in Nat /\ h.cfg \in Nat /\ h.coding \in Int
         /\ h.req \in Requests \cup {NoReq}
BY DEF HostRec

LEMMA DoneFields ==
  ASSUME NEW h \in HostRec
  PROVE  LET r == Done(h)
         IN  /\ r \in HostRec /\ r.st = "idle" /\ r.addr = h.addr /\ r.cfg = h.cfg /\ r.coding = h.coding
BY Empties DEF Done, HostRec

LEMMA HostSetupGood ==
  ASSUME HostPolite, NEW s \in Requests, HostSetup(s), Good(core, rxf, host)
  PROVE  Good(core', rxf', host')
<1> DEFINE c == core
           h == host
           k == [c.in EXCEPT !.nak = TRUE]
           o == [c.out EXCEPT !.ena = FALSE]
           g == FirstStage(s)
           v == IF s.req = "set_line" THEN Unknown ELSE h.coding
           d == core'
           e == host'
<1>0. h.st = "idle" /\ CoreTypes(c, h) /\ c \in CoreRec /\ h \in HostRec /\ c.in \in InRec /\ c.out \in OutRec
  BY CoreFields DEF HostSetup, Good, CoreTypes
<1>1. d = [c EXCEPT !.in = k, !.out = o]
  BY DEF HostSetup
<1>2. /\ k \in InRec /\ k.nak /\ k.ec = c.in.ec /\ k.cb = c.in.cb /\ k.ena = c.in.ena /\ k.fe = c.in.fe
      /\ k.xfrc = c.in.xfrc /\ k.fifo = c.in.fifo /\ k.data = c.in.data /\ k.offs = c.in.offs
  BY <1>0 DEF InRec
<1>3. /\ o \in OutRec /\ ~o.ena /\ o.ec = c.out.ec /\ o.cb = c.out.cb /\ o.room = c.out.room
      /\ o.data = c.out.data /\ o.xfrc = c.out.xfrc /\ o.stup = c.out.stup
  BY <1>0 DEF OutRec
<1>e. e = [h EXCEPT !.st = g, !.req = s, !.got = <<>>, !.coding = v]
  BY DEF HostSetup, FirstStage
<1>g. g \in {"idle", "in", "out", "statusin", "statusout", "reset"} /\ v \in Int
  BY <1>0, HostFields DEF FirstStage, Unknown
<1>q. rxf' = rxf \o SetupPair(s)
  BY DEF HostSetup, SetupPair
<1> HIDE DEF k, o, g, v
<1>4. /\ d \in CoreRec /\ d.in = k /\ d.out = o /\ d.ctl = c.ctl /\ d.dev = c.dev /\ d.le = c.le
  BY <1>0, <1>1, <1>2, <1>3 DEF CoreRec
<1>5. /\ e \in HostRec /\ e.st = g /\ e.req = s /\ e.got = <<>> /\ e.coding = v
      /\ e.addr = h.addr /\ e.cfg = h.cfg
  BY <1>0, <1>e, <1>g, Empties DEF HostRec
<1>c. c.in = core.in /\ c.out = core.out
  OBVIOUS
<1> HIDE DEF d, e
<1>6. CoreTypes(d, e)
  <2>1. v # Unknown => v = h.coding
    BY DEF v
  <2>2. LineOK(d, e)
    BY <1>0, <1>4, <1>5, <2>1 DEF CoreTypes, LineOK
  <2> QED BY <1>0, <1>2, <1>4, <1>5, <2>2 DEF CoreTypes, InBounds
<1>7. AtFirst(d, e)
  BY <1>2, <1>4, <1>5 DEF AtFirst, g, v
<1>8. Settled(c, h) => Settled(d, e)
  BY <1>4, <1>5 DEF Settled
<1>9. \A tail : Between(c, rxf, h, tail) => Between(d, rxf', e, tail)
  <2> SUFFICES ASSUME NEW tail, Between(c, rxf, h, tail) PROVE Between(d, rxf', e, tail)
    OBVIOUS
  <2>1. rxf = tail
    BY <1>0 DEF Between, AtFirst, FirstStage
  <2> QED BY <1>5, <1>7, <1>q, <2>1 DEF Between
<1>10. CASE Listening(c, rxf, h)
  <2>1. Listening(d, rxf', e)
    BY <1>2, <1>3, <1>4, <1>8, <1>9, <1>10 DEF Listening, InFree, OutSetup
  <2> QED BY <1>6, <2>1, PhaseGood DEF d, e
<1>11. CASE Ending(c, rxf, h)
  <2>1. OutStatus(o) /\ ~o.ena
    BY <1>3, <1>11 DEF Ending, OutStatus
  <2>2. InSent(c.in) => InSent(k)
    BY <1>2 DEF InSent
  <2>3. InFree(c.in) => InFree(k)
    BY <1>2 DEF InFree
  <2>4. Rest(d) = Rest(c)
    BY <1>4 DEF Rest
  <2>5. Settled(d, e)
    BY <1>8, <1>11 DEF Ending
  <2>6. o.xfrc = c.out.xfrc
    BY <1>3
  <2>7. Ending(d, rxf', e)
    <3>1. CASE ~c.out.xfrc /\ InSent(c.in) /\ Rest(c) < Mps
               /\ Between(c, rxf, h, <<DataEntry(<<>>), DoneEntry>>)
      BY <1>4, <1>9, <2>1, <2>2, <2>4, <2>5, <2>6, <3>1 DEF Ending
    <3>2. CASE ~c.out.xfrc /\ InFree(c.in) /\ Between(c, rxf, h, <<DataEntry(<<>>), DoneEntry>>)
      BY <1>4, <1>9, <2>1, <2>3, <2>5, <2>6, <3>2 DEF Ending
    <3>3. CASE ~c.out.xfrc /\ InFree(c.in) /\ Between(c, rxf, h, <<DoneEntry>>)
      BY <1>4, <1>9, <2>1, <2>3, <2>5, <2>6, <3>3 DEF Ending
    <3>4. CASE c.out.xfrc /\ InFree(c.in) /\ Between(c, rxf, h, <<>>)
      BY <1>4, <1>9, <2>1, <2>3, <2>5, <2>6, <3>4 DEF Ending
    <3> QED BY <1>11, <3>1, <3>2, <3>3, <3>4 DEF Ending
  <2> QED BY <1>6, <2>7, PhaseGood DEF d, e
<1>12. CASE Confirmed(c, rxf, h)
  <2>1. Confirmed(d, rxf', e)
    BY <1>2, <1>3, <1>4, <1>8, <1>9, <1>12 DEF Confirmed, InEmpty, OutFree
  <2> QED BY <1>6, <2>1, PhaseGood DEF d, e
<1>13. ~(Framing(c, rxf, h) \/ Refusing(c, rxf, h) \/ Sending(c, rxf, h) \/ Sent(c, rxf, h)
         \/ Answered(c, rxf, h) \/ Taking(c, rxf, h) \/ Confirming(c, rxf, h))
  BY <1>0 DEF Framing, Refusing, AtFirst, FirstStage, Sending, Sent, Answered, Taking, Confirming
<1> QED BY <1>10, <1>11, <1>12, <1>13 DEF Good, Phase

\* Only an answer that is in the FIFO is ready to be fetched.
LEMMA FetchedInSending ==
  ASSUME NEW c, NEW q, NEW h, Good(c, q, h), h.st = "in", InReady(c.in)
  PROVE  Sending(c, q, h) /\ ~c.in.fe
<1>1. c.in.ena
  BY DEF InReady
<1>2. ~(Listening(c, q, h) \/ Framing(c, q, h) \/ Refusing(c, q, h))
  BY <1>1 DEF Listening, Framing, Refusing, InFree
<1>3. ~(Sent(c, q, h) \/ Answered(c, q, h) \/ Ending(c, q, h))
  BY <1>1 DEF Sent, Answered, Ending, InFree, InSent
<1>4. ~(Taking(c, q, h) \/ Confirming(c, q, h) \/ Confirmed(c, q, h))
  BY <1>1 DEF Taking, Confirming, Confirmed, InFree
<1>5. Sending(c, q, h)
  BY <1>2, <1>3, <1>4 DEF Good, Phase
<1>6. ~c.in.fe
  <2> SUFFICES ASSUME c.in.fe PROVE FALSE
    OBVIOUS
  <2>1. c.in.fifo = <<>> /\ c.in.left = Len(Part(c)) /\ Answering(c, h) /\ Len(Part(c)) > 0
    BY <1>5 DEF Sending
  <2>2. Len(Part(c)) \in 0 .. Mps
    BY <2>1, PartFacts DEF Good
  <2>3. InPacket(c.in) >= 1
    BY <2>1, <2>2, UsbAssumption DEF InPacket, Least
  <2> QED BY <2>1, <2>2, <2>3, Empties, UsbAssumption DEF InReady, InPacket, Least
<1> QED BY <1>5, <1>6

LEMMA HostInGood ==
  ASSUME HostIn, Good(core, rxf, host)
  PROVE  Good(core', rxf', host')
<1> DEFINE c == core
           h == host
           x == InTaken(c.in)
           p == SubSeq(c.in.fifo, 1, InPacket(c.in))
           got == h.got \o p
           g == IF Len(p) < Mps \/ Len(got) >= h.req.length THEN "statusout" ELSE "in"
           d == core'
           e == host'
<1>0. Sending(c, rxf, h) /\ ~c.in.fe /\ CoreTypes(c, h) /\ c \in CoreRec /\ h \in HostRec /\ c.in \in InRec
  BY FetchedInSending, CoreFields DEF HostIn, Good, CoreTypes
<1>a. Answering(c, h) /\ OutArmed(c.out) /\ rxf = <<>> /\ InSending(c.in) /\ c.in.fifo = Part(c)
      /\ c.in.left = Len(Part(c)) /\ h.got = SubSeq(c.ctl.data, 1, c.ctl.offset)
  BY <1>0 DEF Sending
<1>b. /\ Part(c) \in Seq(Int) /\ Len(Part(c)) \in 0 .. Mps
      /\ Part(c) = SubSeq(c.ctl.data, c.ctl.offset + 1, c.ctl.offset + Len(Part(c)))
      /\ Len(Part(c)) = Least(Mps, Rest(c)) /\ Rest(c) \in Nat /\ Rest(c) # Mps
      /\ c.ctl.offset \in Nat /\ c.ctl.data \in Seq(Int) /\ c.ctl.offset + Len(Part(c)) <= Len(c.ctl.data)
      /\ c.ctl.size = Len(c.ctl.data) /\ Len(c.ctl.data) \in Nat
  BY <1>0, <1>a, PartFacts
<1>m. Mps \in Nat /\ Mps > 1
  BY UsbAssumption, CoreAssumption
<1>1. d = [c EXCEPT !.in = x] /\ e = [h EXCEPT !.got = got, !.st = g] /\ rxf' = rxf
  BY DEF HostIn
<1>2. /\ x \in InRec /\ x.fifo = <<>> /\ ~x.ena /\ x.xfrc /\ x.ec = c.in.ec /\ x.cb = c.in.cb
      /\ x.fe = c.in.fe /\ x.nak = c.in.nak /\ x.data = c.in.data /\ x.offs = c.in.offs
  <2>1. c.in.pkts = 1 /\ c.in.left = Len(c.in.fifo) /\ Len(c.in.fifo) <= Mps
    BY <1>a, <1>b, <1>m DEF InSending
  <2> QED BY <1>0, <2>1, TakenFields
<1>3. p = Part(c)
  <2>1. InPacket(c.in) = Len(Part(c))
    BY <1>a, <1>b, <1>m DEF InPacket, Least
  <2>2. SubSeq(Part(c), 1, Len(Part(c))) = Part(c)
    BY <1>b
  <2> QED BY <1>a, <2>1, <2>2
<1> DEFINE a == c.ctl.data
           i == c.ctl.offset
           l == Len(Part(c))
           n == Len(c.ctl.data)
           m == h.req.length
<1>n. /\ a \in Seq(Int) /\ i \in Nat /\ n \in Nat /\ l \in 0 .. Mps /\ i + l <= n /\ n = Len(a)
      /\ Rest(c) = n - i /\ n - i # Mps /\ l = Least(Mps, n - i) /\ Len(p) = l
  <2>1. Rest(c) = n - i
    BY <1>b DEF Rest
  <2> QED BY <1>3, <1>b, <2>1
<1>l. m \in Nat /\ n <= m
  BY <1>a, SetupFields DEF Answering, IsAnswer
<1>j. h.got = SubSeq(a, 1, i) /\ p = SubSeq(a, i + 1, i + l)
  BY <1>3, <1>a, <1>b
<1>k. g = IF Len(p) < Mps \/ Len(got) >= m THEN "statusout" ELSE "in"
  OBVIOUS
<1> HIDE DEF a, i, l, n, m, p, g
<1>4. got = SubSeq(a, 1, i + l) /\ got \in Seq(Int) /\ Len(got) = i + l
  <2> DEFINE j == i + l
  <2>1. 1 \in 1 .. Len(a) + 1 /\ i \in 1 - 1 .. Len(a) /\ j \in i .. Len(a)
    BY <1>m, <1>n
  <2>2. got = SubSeq(a, 1, i) \o SubSeq(a, i + 1, j)
    BY <1>j
  <2> HIDE DEF j
  <2>3. SubSeq(a, 1, i) \o SubSeq(a, i + 1, j) = SubSeq(a, 1, j)
    BY <1>n, <2>1, ConcatAdjacentSubSeq
  <2>4. SubSeq(a, 1, j) \in Seq(Int) /\ Len(SubSeq(a, 1, j)) = j
    BY <1>n, <2>1
  <2> QED BY <2>2, <2>3, <2>4 DEF j
<1> HIDE DEF got
<1>5. g = IF Rest(c) >= Mps THEN "in" ELSE "statusout"
  <2>1. CASE n - i < Mps
    <3>1. l < Mps
      BY <1>n, <1>m, <2>1 DEF Least
    <3>2. g = "statusout"
      BY <1>k, <1>n, <3>1
    <3> QED BY <1>n, <1>m, <2>1, <3>2
  <2>2. CASE n - i >= Mps
    <3>1. l = Mps /\ i + l < n
      BY <1>n, <1>m, <2>2 DEF Least
    <3>2. ~(Len(got) >= m) /\ ~(Len(p) < Mps)
      <4> DEFINE u == Len(got)
                 w == Len(p)
      <4>1. u = i + l /\ w = Mps /\ l \in Nat
        BY <1>4, <1>n, <1>m, <3>1
      <4> HIDE DEF u, w
      <4>2. ~(u >= m) /\ ~(w < Mps)
        BY <1>l, <1>n, <1>m, <3>1, <4>1
      <4> QED BY <4>2 DEF u, w
    <3> QED BY <1>k, <1>n, <2>2, <3>2
  <2> QED BY <1>n, <1>m, <2>1, <2>2
<1>g. g \in {"idle", "in", "out", "statusin", "statusout", "reset"}
  BY DEF g
<1> HIDE DEF x
<1>6. /\ d \in CoreRec /\ d.in = x /\ d.out = c.out /\ d.ctl = c.ctl /\ d.dev = c.dev /\ d.le = c.le
  BY <1>0, <1>1, <1>2, CoreSetIn
<1>7. /\ e \in HostRec /\ e.st = g /\ e.req = h.req /\ e.got = got /\ e.coding = h.coding
      /\ e.addr = h.addr /\ e.cfg = h.cfg
  BY <1>0, <1>1, <1>4, <1>g DEF HostRec
<1> HIDE DEF d, e
<1>8. CoreTypes(d, e)
  <2>1. Len(x.fifo) <= FifoRoom
    BY <1>2, UsbAssumption, Empties
  <2> QED BY <1>0, <1>2, <1>6, <1>7, <2>1 DEF CoreTypes, LineOK, InBounds
<1>9. Part(d) = Part(c) /\ Rest(d) = Rest(c)
  BY <1>6 DEF Part, Rest
<1>10. Answering(d, e)
  BY <1>a, <1>6, <1>7 DEF Answering, Settled, IsAnswer
<1>11. InSent(x)
  BY <1>0, <1>a, <1>2 DEF InSent, InSending
<1>12. Sent(d, <<>>, e)
  BY <1>a, <1>4, <1>5, <1>6, <1>7, <1>9, <1>10, <1>11 DEF Sent, a, i, l
<1> QED BY <1>1, <1>8, <1>12, <1>a, PhaseGood DEF d, e

\* The OUT endpoint accepts packets in the data stage of `set line coding'
\* and in the status stage of an answer only.
LEMMA AcceptedPhases ==
  ASSUME NEW c, NEW q, NEW h, Good(c, q, h), c.out.ena
  PROVE  (Sending(c, q, h) \/ Sent(c, q, h) \/ Answered(c, q, h)) \/ Taking(c, q, h)
<1>1. ~(Listening(c, q, h) \/ Framing(c, q, h) \/ Refusing(c, q, h))
  BY DEF Listening, Framing, Refusing, OutSetup
<1>2. ~(Ending(c, q, h) \/ Confirming(c, q, h) \/ Confirmed(c, q, h))
  BY DEF Ending, Confirming, Confirmed, OutFree
<1> QED BY <1>1, <1>2 DEF Good, Phase

LEMMA TwoEntries == ASSUME NEW x, NEW y PROVE <<x>> \o <<y>> = <<x, y>>
<1> DEFINE T == {x, y}
           s == <<x>>
           r == <<x, y>>
<1>1. s \in Seq(T) /\ y \in T /\ r = Append(s, y)
  OBVIOUS
<1> HIDE DEF T, s, r
<1>2. Append(s, y) = s \o <<y>>
  BY <1>1, AppendIsConcat
<1> QED BY <1>1, <1>2 DEF s, r

LEMMA LastEntries ==
  ASSUME NEW k, k.pkts = 1, NEW p
  PROVE  <<>> \o RxEntries(k, p) = <<DataEntry(p), DoneEntry>>
<1>1. OutLast(k, p)
  BY DEF OutLast
<1>2. RxEntries(k, p) = <<DataEntry(p)>> \o <<DoneEntry>>
  BY <1>1 DEF RxEntries, DataEntry, DoneEntry
<1> DEFINE x == DataEntry(p)
           y == DoneEntry
<1> HIDE DEF x, y
<1>3. <<x>> \o <<y>> = <<x, y>>
  BY TwoEntries
<1>4. <<>> \o <<x, y>> = <<x, y>>
  <2> DEFINE s == <<x, y>>
             T == {x, y}
  <2>1. s \in Seq(T)
    OBVIOUS
  <2> HIDE DEF s, T
  <2> QED BY <2>1 DEF s
<1> QED BY <1>2, <1>3, <1>4 DEF x, y

LEMMA HostOutGood ==
  ASSUME HostOut, Good(core, rxf, host)
  PROVE  Good(core', rxf', host')
<1> DEFINE c == core
           h == host
           d == core'
           e == host'
<1>0. CoreTypes(c, h) /\ c \in CoreRec /\ h \in HostRec /\ c.out \in OutRec /\ c.out.ena
      /\ h.st \in {"out", "statusout"}
  BY CoreFields DEF HostOut, Good, CoreTypes
<1>1. PICK p \in IF h.st = "out" THEN {<<1>>, <<2>>} ELSE {<<>>} :
        /\ rxf' = rxf \o RxEntries(c.out, p)
        /\ d = [c EXCEPT !.out = OutTaken(c.out, p)]
        /\ e = IF h.st = "out" THEN [h EXCEPT !.st = "statusin", !.sent = p] ELSE Done(h)
  BY DEF HostOut
<1> DEFINE x == OutTaken(c.out, p)
<1>2. ASSUME c.out.pkts = 1
      PROVE  /\ x \in OutRec /\ x.ec = c.out.ec /\ x.cb = c.out.cb /\ x.data = c.out.data
             /\ x.room = c.out.room /\ ~x.ena /\ x.xfrc = c.out.xfrc /\ x.stup = c.out.stup
  BY <1>0, <1>2, OutTakenFields
<1>d. d = [c EXCEPT !.out = x]
  BY <1>1
<1> HIDE DEF x
<1>3. ASSUME c.out.pkts = 1
      PROVE  d \in CoreRec /\ d.in = c.in /\ d.out = x /\ d.ctl = c.ctl /\ d.dev = c.dev /\ d.le = c.le
  BY <1>0, <1>2, <1>3, <1>d, CoreSetOut
<1>q. rxf = <<>> /\ c.out.pkts = 1 => rxf' = <<DataEntry(p), DoneEntry>>
  BY <1>1, LastEntries
<1> HIDE DEF d
<1>4. CASE h.st = "out"
  <2>1. Taking(c, rxf, h)
    BY <1>0, <1>4, AcceptedPhases DEF Sending, Sent, Answered
  <2>2. /\ rxf = <<>> /\ c.out.ena /\ c.out.pkts = 1 /\ ~c.out.xfrc /\ c.out.data = <<>>
    BY <1>4, <2>1 DEF Taking
  <2>3. p \in Seq(Int) /\ Len(p) = 1
    <3>1. p = <<1>> \/ p = <<2>>
      BY <1>1, <1>4
    <3>2. <<1>> \in Seq(Int) /\ Len(<<1>>) = 1 /\ <<2>> \in Seq(Int) /\ Len(<<2>>) = 1
      BY OneByte
    <3> QED BY <3>1, <3>2
  <2>4. e = [h EXCEPT !.st = "statusin", !.sent = p]
    BY <1>1, <1>4
  <2>5. /\ e \in HostRec /\ e.st = "statusin" /\ e.sent = p /\ e.req = h.req /\ e.coding = h.coding
        /\ e.addr = h.addr /\ e.cfg = h.cfg
    BY <1>0, <2>3, <2>4 DEF HostRec
  <2> HIDE DEF e
  <2>6. CoreTypes(d, e)
    BY <1>0, <1>3, <2>2, <2>5 DEF CoreTypes, LineOK
  <2>7. rxf' = <<DataEntry(e.sent), DoneEntry>>
    BY <1>q, <2>2, <2>5
  <2>8. Taking(d, rxf', e)
    BY <1>2, <1>3, <2>1, <2>2, <2>3, <2>5, <2>7 DEF Taking, Settled, OutReading
  <2> QED BY <2>6, <2>8, PhaseGood DEF d, e
<1>5. CASE h.st = "statusout"
  <2>1. Sent(c, rxf, h) \/ Answered(c, rxf, h)
    BY <1>0, <1>5, AcceptedPhases DEF Sending, Taking
  <2>2. /\ rxf = <<>> /\ OutArmed(c.out) /\ c.out.pkts = 1 /\ Settled(c, h)
    BY <2>1 DEF Sent, Answered, Answering, OutArmed
  <2>3. p = <<>> /\ e = Done(h)
    BY <1>1, <1>5
  <2>4. e \in HostRec /\ e.st = "idle" /\ e.addr = h.addr /\ e.cfg = h.cfg /\ e.coding = h.coding
    BY <1>0, <2>3, DoneFields
  <2> HIDE DEF e
  <2>5. CoreTypes(d, e)
    BY <1>0, <1>3, <2>2, <2>4 DEF CoreTypes, LineOK
  <2>6. Between(d, rxf', e, <<DataEntry(<<>>), DoneEntry>>)
    BY <1>q, <2>2, <2>3, <2>4 DEF Between
  <2>7. OutStatus(d.out) /\ ~d.out.ena /\ ~d.out.xfrc /\ Settled(d, e)
    BY <1>2, <1>3, <2>2, <2>4 DEF OutArmed, OutStatus, Settled
  <2>8. (InSent(d.in) /\ Rest(d) < Mps) \/ InFree(d.in)
    <3>1. CASE Answered(c, rxf, h)
      BY <1>3, <2>2, <3>1 DEF Answered
    <3>2. CASE Sent(c, rxf, h)
      <4>1. Answering(c, h) /\ InSent(c.in) /\ ~(Rest(c) >= Mps)
        BY <1>5, <3>2 DEF Sent
      <4>2. Rest(c) \in Nat /\ Mps \in Nat
        BY <1>0, <4>1, PartFacts, UsbAssumption
      <4>3. Rest(d) = Rest(c)
        BY <1>3, <2>2 DEF Rest
      <4> QED BY <1>3, <2>2, <4>1, <4>2, <4>3
    <3> QED BY <2>1, <3>1, <3>2
  <2>9. Ending(d, rxf', e)
    BY <2>6, <2>7, <2>8 DEF Ending
  <2> QED BY <2>5, <2>9, PhaseGood DEF d, e
<1> QED BY <1>0, <1>4, <1>5

LEMMA HostStatusInGood ==
  ASSUME HostStatusIn, Good(core, rxf, host)
  PROVE  Good(core', rxf', host')
<1> DEFINE c == core
           h == host
           x == InTaken(c.in)
           ad == IF h.req.req = "set_address" THEN h.req.value ELSE h.addr
           cf == IF h.req.req = "set_configuration" THEN h.req.value ELSE h.cfg
           co == IF h.req.req = "set_line" THEN h.sent[1] ELSE h.coding
           d == core'
           e == host'
<1>0. /\ CoreTypes(c, h) /\ c \in CoreRec /\ h \in HostRec /\ c.in \in InRec
      /\ h.st = "statusin" /\ InReady(c.in) /\ c.in.ena
  BY CoreFields DEF HostStatusIn, Good, CoreTypes, InReady
<1>1. Confirming(c, rxf, h)
  <2>1. ~(Listening(c, rxf, h) \/ Framing(c, rxf, h) \/ Refusing(c, rxf, h))
    BY <1>0 DEF Listening, Framing, Refusing, InFree
  <2>2. ~(Sending(c, rxf, h) \/ Sent(c, rxf, h) \/ Answered(c, rxf, h) \/ Ending(c, rxf, h))
    BY <1>0 DEF Sending, Sent, Answered, Ending, InFree, InSent
  <2>3. ~(Taking(c, rxf, h) \/ Confirmed(c, rxf, h))
    BY <1>0 DEF Taking, Confirmed, InFree
  <2> QED BY <2>1, <2>2, <2>3 DEF Good, Phase
<1>2. /\ InEmpty(c.in) /\ c.in.ena /\ ~c.in.nak /\ c.in.pkts = 1 /\ c.in.left = 0 /\ ~c.in.xfrc
      /\ OutFree(c.out) /\ rxf = <<>> /\ h.req \in Requests /\ DevAgrees(c.dev, ad, cf)
      /\ (h.req.req = "set_line" => c.le = h.sent /\ Len(h.sent) = 1)
  BY <1>1 DEF Confirming, Applied
<1>3. d = [c EXCEPT !.in = x] /\ rxf' = rxf /\ e = [Done(h) EXCEPT !.addr = ad, !.cfg = cf, !.coding = co]
  BY DEF HostStatusIn, Done
<1>4. /\ x \in InRec /\ x.fifo = <<>> /\ ~x.ena /\ x.xfrc /\ x.ec = c.in.ec /\ x.cb = c.in.cb
      /\ x.fe = c.in.fe /\ x.nak = c.in.nak /\ x.data = c.in.data /\ x.offs = c.in.offs
  <2>1. c.in.left = Len(c.in.fifo) /\ Len(c.in.fifo) <= Mps
    BY <1>2, Empties, UsbAssumption DEF InEmpty
  <2> QED BY <1>0, <1>2, <2>1, TakenFields
<1>5. ad \in Nat /\ cf \in Nat
  BY <1>0, <1>2, SetupFields, HostFields
<1>6. co \in Int /\ Len(c.le) = 1 /\ (co # Unknown => c.le = <<co>>)
  <2>1. CASE h.req.req = "set_line"
    <3>1. h.sent \in Seq(Int) /\ Len(h.sent) = 1 /\ c.le = h.sent
      BY <1>0, <1>2, <2>1, HostFields
    <3>2. h.sent = <<h.sent[1]>> /\ h.sent[1] \in Int
      BY <3>1
    <3> QED BY <2>1, <3>1, <3>2
  <2>2. CASE h.req.req # "set_line"
    BY <1>0, <2>2, HostFields DEF CoreTypes, LineOK
  <2> QED BY <2>1, <2>2
<1> HIDE DEF x, ad, cf, co
<1>7. /\ d \in CoreRec /\ d.in = x /\ d.out = c.out /\ d.ctl = c.ctl /\ d.dev = c.dev /\ d.le = c.le
  BY <1>0, <1>3, <1>4, CoreSetIn
<1>8. e \in HostRec /\ e.st = "idle" /\ e.addr = ad /\ e.cfg = cf /\ e.coding = co
  <2> DEFINE g == Done(h)
  <2>1. g \in HostRec /\ g.st = "idle"
    BY <1>0, DoneFields
  <2>2. e = [g EXCEPT !.addr = ad, !.cfg = cf, !.coding = co]
    BY <1>3
  <2> HIDE DEF g
  <2> QED BY <1>5, <1>6, <2>1, <2>2 DEF HostRec
<1> HIDE DEF d, e
<1>9. CoreTypes(d, e)
  <2>1. Len(x.fifo) <= FifoRoom
    BY <1>4, UsbAssumption, Empties
  <2> QED BY <1>0, <1>4, <1>6, <1>7, <1>8, <2>1 DEF CoreTypes, LineOK, InBounds
<1>10. Confirmed(d, <<>>, e)
  BY <1>2, <1>4, <1>7, <1>8 DEF Confirmed, InEmpty, Settled, Between
<1> QED BY <1>2, <1>3, <1>9, <1>10, PhaseGood DEF d, e

LEMMA HostStallGood ==
  ASSUME HostStall, Good(core, rxf, host)
  PROVE  Good(core', rxf', host')
<1> DEFINE c == core
           h == host
           e == host'
<1>0. /\ CoreTypes(c, h) /\ h \in HostRec /\ rxf = <<>> /\ c.out.cb = "setup" /\ c.out.data = <<>>
      /\ h.st # "idle" /\ core' = c /\ rxf' = rxf /\ e = Done(h)
  BY DEF HostStall, Stalled, Good, CoreTypes
<1>1. Refusing(c, rxf, h)
  <2>1. ~Listening(c, rxf, h)
    <3>1. \A s : SetupPair(s) # <<>> /\ <<>> \o SetupPair(s) = SetupPair(s)
      BY Entries, EmptyTail
    <3> QED BY <1>0, <3>1 DEF Listening, Between
  <2>2. ~Framing(c, rxf, h)
    BY <1>0, Single DEF Framing
  <2>3. ~(Sending(c, rxf, h) \/ Sent(c, rxf, h) \/ Answered(c, rxf, h) \/ Ending(c, rxf, h))
    BY <1>0 DEF Sending, Sent, Answered, Ending, OutArmed, OutStatus
  <2>4. ~(Taking(c, rxf, h) \/ Confirming(c, rxf, h) \/ Confirmed(c, rxf, h))
    BY <1>0 DEF Taking, Confirming, Confirmed, OutReading, OutFree, NoCb
  <2> QED BY <2>1, <2>2, <2>3, <2>4 DEF Good, Phase
<1>2. e \in HostRec /\ e.st = "idle" /\ e.addr = h.addr /\ e.cfg = h.cfg /\ e.coding = h.coding
  BY <1>0, DoneFields
<1> HIDE DEF e
<1>3. CoreTypes(c, e)
  BY <1>0, <1>2 DEF CoreTypes, LineOK
<1>4. Listening(c, <<>>, e)
  BY <1>1, <1>2 DEF Refusing, Listening, Settled, Between
<1> QED BY <1>0, <1>3, <1>4, PhaseGood DEF e
-----------------------------------------------------------------------------
(* Bus events: a reset flushes the endpoint, enumeration starts it again.  *)

LEMMA DevResetTyped == DevReset \in DevRec
BY DEF DevReset, DevRec

\* The reset handler.
LEMMA ResetFields ==
  ASSUME NEW c \in CoreRec, ~c.in.fe
  PROVE  LET r == HandleReset(c)
         IN  /\ r \in CoreRec /\ Flushed(r) /\ r.le = c.le /\ r.in.offs = c.in.offs /\ r.in.data = c.in.data
<1> DEFINE k == InReset(c.in)
           o == OutReset(c.out)
           d == DevReset
           r == [c EXCEPT !.in = k, !.out = o, !.dev = d]
<1>1. c.in \in InRec /\ c.out \in OutRec
  BY CoreFields
<1>2. /\ k \in InRec /\ k.fifo = <<>> /\ ~k.ena /\ ~k.xfrc /\ k.fe = c.in.fe /\ k.data = c.in.data
      /\ k.offs = c.in.offs
  BY <1>1, Empties DEF InReset, InRec
<1>3. o \in OutRec /\ ~o.ena /\ ~o.xfrc /\ ~o.stup
  BY <1>1 DEF OutReset, OutRec
<1>4. HandleReset(c) = r /\ d \in DevRec /\ d = DevReset
  BY DevResetTyped DEF HandleReset
<1> HIDE DEF k, o, d
<1>5. r \in CoreRec /\ r.in = k /\ r.out = o /\ r.dev = d /\ r.le = c.le
  BY <1>2, <1>3, <1>4 DEF CoreRec
<1> HIDE DEF r
<1> QED BY <1>2, <1>3, <1>4, <1>5 DEF Flushed

\* StartSETUPStage in any state of the endpoint.
LEMMA SetupAnyStage ==
  ASSUME NEW c \in CoreRec
  PROVE  LET r == StartSETUPStage(c)
         IN  /\ r \in CoreRec /\ r.in = c.in /\ r.dev = c.dev /\ r.le = c.le /\ ~r.ctl.ptr
             /\ r.out.ena = c.out.ena /\ r.out.xfrc = c.out.xfrc /\ r.out.stup = c.out.stup
             /\ (c.out.ec = "busy" => r.out = c.out)
             /\ (c.out.ec # "busy" => /\ r.out.ec = "busy" /\ r.out.cb = "setup" /\ r.out.data = <<>>
                                      /\ r.out.room = 3)
<1>1. CASE c.out.ec # "busy"
  BY <1>1, SetupStage
<1>2. CASE c.out.ec = "busy"
  <2> DEFINE r == [c EXCEPT !.ctl = CtlIdle, !.out = c.out]
  <2>1. StartSETUPStage(c) = r
    BY <1>2 DEF StartSETUPStage, StartSETUP
  <2>2. r \in CoreRec /\ r.in = c.in /\ r.dev = c.dev /\ r.le = c.le /\ r.ctl = CtlIdle /\ r.out = c.out
    BY CoreFields, CtlIdleTyped DEF CoreRec
  <2> HIDE DEF r
  <2> QED BY <1>2, <2>1, <2>2, CtlIdleTyped
<1> QED BY <1>1, <1>2

\* A callback that is told of a reset at most starts the reception of setup frames.
LEMMA ResetCallback ==
  ASSUME NEW c, NEW cb, NEW data
  PROVE  Callback(c, cb, "reset", data) = c \/ Callback(c, cb, "reset", data) = StartSETUPStage(c)
BY DEF Callback

LEMMA EnumFields ==
  ASSUME NEW c \in CoreRec, Flushed(c)
  PROVE  LET r == HandleEnum(c)
         IN  /\ r \in CoreRec /\ InFree(r.in) /\ OutSetup(r.out) /\ ~r.out.stup /\ r.out.data = <<>>
             /\ ~r.ctl.ptr /\ r.dev = DevReset /\ r.le = c.le /\ r.in.data = c.in.data
             /\ r.in.offs = c.in.offs
<1> DEFINE k == Finished(c.in, "reset")
           a == [c EXCEPT !.in = k]
           b == FinishIn(c, "reset")
           o == Emptied(b.out, "reset")
           d == [b EXCEPT !.out = o]
           e == FinishOut(b, "reset")
           r == StartSETUPStage(e)
<1>1. /\ k \in InRec /\ k.ec = "reset" /\ k.cb = NoCb /\ k.ena = c.in.ena
      /\ k.fe = c.in.fe /\ k.xfrc = c.in.xfrc /\ k.fifo = c.in.fifo /\ k.data = c.in.data
      /\ k.offs = c.in.offs
  BY CoreFields, FinishedIn, Words
<1> HIDE DEF k
<1>2. a \in CoreRec /\ a.in = k /\ a.out = c.out /\ a.dev = c.dev /\ a.le = c.le
  BY <1>1, CoreSetIn
<1> HIDE DEF a
<1>3. b = a \/ b = StartSETUPStage(a)
  BY ResetCallback DEF FinishIn, a, k
<1>s. LET s == StartSETUPStage(a)
      IN  /\ s \in CoreRec /\ s.in = a.in /\ s.dev = a.dev /\ s.le = a.le
          /\ s.out.ena = a.out.ena /\ s.out.xfrc = a.out.xfrc /\ s.out.stup = a.out.stup
  BY <1>2, SetupAnyStage
<1> HIDE DEF b
<1>4. /\ b \in CoreRec /\ b.in = k /\ b.dev = c.dev /\ b.le = c.le
      /\ b.out.ena = c.out.ena /\ b.out.xfrc = c.out.xfrc /\ b.out.stup = c.out.stup
  BY <1>2, <1>3, <1>s
<1>5. /\ o \in OutRec /\ o.ec = "reset" /\ o.data = <<>> /\ o.ena = b.out.ena
      /\ o.xfrc = b.out.xfrc /\ o.stup = b.out.stup
  <2>1. b.out \in OutRec /\ "reset" \in Errors
    BY <1>4, CoreFields, Words
  <2> QED BY <2>1, EmptiedOut
<1>e. e = Callback(d, b.out.cb, "reset", b.out.data)
  BY DEF FinishOut, Emptied
<1> HIDE DEF o
<1>6. d \in CoreRec /\ d.out = o /\ d.in = b.in /\ d.dev = b.dev /\ d.le = b.le
  BY <1>4, <1>5, CoreSetOut
<1> HIDE DEF d, e
<1>7. e = d \/ e = StartSETUPStage(d)
  BY <1>e, ResetCallback
<1>8. LET s == StartSETUPStage(d)
      IN  /\ s \in CoreRec /\ s.in = d.in /\ s.dev = d.dev /\ s.le = d.le
          /\ s.out.ec = "busy" /\ s.out.cb = "setup" /\ s.out.data = <<>> /\ s.out.room = 3
          /\ s.out.ena = d.out.ena /\ s.out.xfrc = d.out.xfrc /\ s.out.stup = d.out.stup
  <2>1. d.out.ec # "busy"
    BY <1>5, <1>6
  <2> QED BY <1>6, <2>1, SetupStage
<1>9. /\ e \in CoreRec /\ e.in = d.in /\ e.dev = d.dev /\ e.le = d.le
      /\ e.out.ena = d.out.ena /\ e.out.xfrc = d.out.xfrc /\ e.out.stup = d.out.stup
      /\ (e.out.ec = "busy" => e.out.cb = "setup" /\ e.out.data = <<>> /\ e.out.room = 3)
  BY <1>5, <1>6, <1>7, <1>8
<1>10. /\ r \in CoreRec /\ r.in = e.in /\ r.dev = e.dev /\ r.le = e.le /\ ~r.ctl.ptr
       /\ r.out.ena = e.out.ena /\ r.out.xfrc = e.out.xfrc /\ r.out.stup = e.out.stup
       /\ (e.out.ec = "busy" => r.out = e.out)
       /\ (e.out.ec # "busy" => /\ r.out.ec = "busy" /\ r.out.cb = "setup" /\ r.out.data = <<>>
                                /\ r.out.room = 3)
  BY <1>9, SetupAnyStage
<1>r. HandleEnum(c) = r
  BY DEF HandleEnum, e, b
<1> HIDE DEF r
<1>11. OutSetup(r.out) /\ ~r.out.stup /\ r.out.data = <<>>
  <2>1. r.out.ec = "busy" /\ r.out.cb = "setup" /\ r.out.data = <<>> /\ r.out.room = 3
    BY <1>9, <1>10
  <2>2. ~r.out.ena /\ ~r.out.xfrc /\ ~r.out.stup
    BY <1>4, <1>5, <1>6, <1>9, <1>10 DEF Flushed
  <2> QED BY <2>1, <2>2 DEF OutSetup
<1>12. InFree(r.in) /\ r.in = k
  BY <1>1, <1>4, <1>6, <1>9, <1>10 DEF InFree, Flushed
<1> QED BY <1>1, <1>4, <1>6, <1>9, <1>10, <1>11, <1>12, <1>r DEF Flushed

LEMMA FlushedIdle ==
  ASSUME NEW c, Flushed(c) PROVE HandleInEp(HandleOutEp(c)) = c
<1>1. HandleOutEp(c) = c
  BY OutEpIdle DEF Flushed
<1>2. HandleInEp(c) = c
  BY InEpIdle DEF Flushed
<1> QED BY <1>1, <1>2

\* A pass of the handler with a bus event pending, or during a reset.
LEMMA BusPass ==
  ASSUME HandlerTask, CoreInv, ~(bus = {} /\ host.st # "reset")
  PROVE  CoreInv'
<1> DEFINE a == IF "rst" \in bus THEN HandleReset(core) ELSE core
           b == IF "enum" \in bus THEN HandleEnum(a) ELSE a
<1>1. /\ core \in CoreRec /\ host \in HostRec /\ InBounds(core.in) /\ LineOK(core, host)
      /\ host.addr = 0 /\ host.cfg = 0 /\ host' = host /\ bus' = {}
      /\ ("rst" \in bus => ~core.in.fe) /\ ("rst" \notin bus => Flushed(core) /\ rxf = <<>>)
      /\ host.st = (IF "enum" \in bus THEN "idle" ELSE "reset")
  BY DEF CoreInv, CoreTypes, Work, HandlerTask
<1>2. /\ a \in CoreRec /\ Flushed(a) /\ a.le = core.le /\ a.in.offs = core.in.offs
      /\ a.in.data = core.in.data
  BY <1>1, ResetFields
<1>r. rxf' = <<>> /\ ~(rxf # <<>> /\ "rst" \notin bus)
  BY <1>1 DEF HandlerTask
<1>c. core' = HandleInEp(HandleOutEp(b))
  BY <1>r DEF HandlerTask, HandlerPass
<1> HIDE DEF a
<1>l. InBounds(a.in)
  BY <1>1, <1>2, Empties, UsbAssumption DEF InBounds, Flushed
<1>3. CASE "enum" \notin bus
  <2>1. core' = a
    BY <1>2, <1>3, <1>c, FlushedIdle
  <2>2. CoreTypes(core', host')
    BY <1>1, <1>2, <1>l, <2>1 DEF CoreTypes, LineOK
  <2>3. Work(core', rxf', bus', host')
    BY <1>1, <1>2, <1>3, <1>r, <2>1 DEF Work
  <2> QED BY <1>1, <2>2, <2>3 DEF CoreInv
<1>4. CASE "enum" \in bus
  <2> DEFINE r == HandleEnum(a)
  <2>1. /\ r \in CoreRec /\ InFree(r.in) /\ OutSetup(r.out) /\ ~r.out.stup /\ r.out.data = <<>>
        /\ ~r.ctl.ptr /\ r.dev = DevReset /\ r.le = a.le /\ r.in.data = a.in.data
        /\ r.in.offs = a.in.offs
    BY <1>2, EnumFields
  <2>c. core' = HandleInEp(HandleOutEp(r))
    BY <1>4, <1>c
  <2> HIDE DEF r
  <2>2. core' = r
    <3>1. HandleOutEp(r) = r
      BY <2>1, OutEpIdle DEF OutSetup
    <3>2. HandleInEp(r) = r
      BY <2>1, InEpIdle DEF InFree
    <3> QED BY <2>c, <3>1, <3>2
  <2>3. CoreTypes(r, host)
    <3>1. InBounds(r.in)
      BY <1>l, <2>1, Empties, UsbAssumption DEF InBounds, InFree
    <3> QED BY <1>1, <1>2, <2>1, <3>1 DEF CoreTypes, LineOK
  <2>4. Settled(r, host)
    BY <1>1, <2>1 DEF Settled, DevAgrees, DevReset
  <2>5. Listening(r, <<>>, host)
    BY <1>1, <1>4, <2>1, <2>4 DEF Listening, Between
  <2>6. Good(r, <<>>, host)
    BY <2>3, <2>5, PhaseGood
  <2> QED BY <1>1, <1>4, <1>r, <2>2, <2>6 DEF CoreInv, Good, Work
<1> QED BY <1>3, <1>4
-----------------------------------------------------------------------------
LEMMA HostIdleTyped == HostIdle \in HostRec
BY Empties DEF HostIdle, HostRec

LEMMA CoreInitInv == CoreInit => CoreInv
<1> SUFFICES ASSUME CoreInit PROVE CoreInv
  OBVIOUS
<1>1. InIdle \in InRec /\ InBounds(InIdle) /\ ~InIdle.fe
  BY Empties, Words, UsbAssumption, 0 \in Nat DEF InIdle, InRec, InBounds
<1>2. OutIdle \in OutRec
  BY Empties, Words, 0 \in Nat DEF OutIdle, OutRec
<1>3. <<0>> \in Seq(Int) /\ Len(<<0>>) = 1
  BY OneByte
<1> DEFINE l == <<0>>
           k == InIdle
           o == OutIdle
           t == CtlIdle
           d == DevReset
<1>4. core = [in |-> k, out |-> o, ctl |-> t, dev |-> d, le |-> l]
  BY DEF CoreInit, CoreIdle
<1>5. l \in Seq(Int) /\ k \in InRec /\ o \in OutRec /\ t \in CtlRec /\ d \in DevRec
  BY <1>1, <1>2, <1>3, CtlIdleTyped, DevResetTyped
<1> HIDE DEF l, k, o, t, d
<1>6. core \in CoreRec /\ core.in = k /\ core.le = l
  BY <1>4, <1>5 DEF CoreRec
<1>7. host \in HostRec /\ host.st = "reset" /\ host.addr = 0 /\ host.cfg = 0 /\ host.coding = 0
  BY HostIdleTyped DEF CoreInit, HostIdle, HostRec
<1>8. CoreTypes(core, host)
  BY <1>1, <1>3, <1>6, <1>7 DEF CoreTypes, LineOK, k, l
<1>9. bus = {"rst"} /\ Work(core, rxf, bus, host)
  BY <1>1, <1>6, <1>7 DEF Work, CoreInit, k
<1> QED BY <1>8, <1>9 DEF CoreInv

LEMMA HostResetInv ==
  ASSUME QuietReset, HostReset, CoreInv
  PROVE  CoreInv'
<1> DEFINE e == host'
<1>1. /\ CoreTypes(core, host) /\ core' = core /\ bus' = {"rst"} /\ ~core.in.fe
      /\ e = [HostIdle EXCEPT !.st = "reset", !.coding = host.coding]
  BY DEF HostReset, CoreInv
<1>2. host.coding \in Int
  BY <1>1, HostFields DEF CoreTypes
<1>3. e \in HostRec /\ e.st = "reset" /\ e.addr = 0 /\ e.cfg = 0 /\ e.coding = host.coding
  <2>1. HostIdle.addr = 0 /\ HostIdle.cfg = 0
    BY DEF HostIdle
  <2> QED BY <1>1, <1>2, <2>1, HostIdleTyped DEF HostRec
<1> HIDE DEF e
<1>4. CoreTypes(core, e)
  BY <1>1, <1>3 DEF CoreTypes, LineOK
<1> QED BY <1>1, <1>3, <1>4 DEF CoreInv, Work, e

LEMMA HostResetEndInv ==
  ASSUME HostResetEnd, CoreInv
  PROVE  CoreInv'
<1> DEFINE e == host'
<1>1. /\ CoreTypes(core, host) /\ core' = core /\ rxf' = rxf /\ bus' = bus \cup {"enum"}
      /\ e = [host EXCEPT !.st = "idle"] /\ host.st = "reset" /\ bus \subseteq {"rst", "enum"}
      /\ Work(core, rxf, bus, host) /\ host \in HostRec
  BY DEF HostResetEnd, CoreInv, CoreTypes
<1>2. e \in HostRec /\ e.st = "idle" /\ e.addr = host.addr /\ e.cfg = host.cfg /\ e.coding = host.coding
  BY <1>1 DEF HostRec
<1> HIDE DEF e
<1>3. CoreTypes(core, e)
  BY <1>1, <1>2 DEF CoreTypes, LineOK
<1>4. bus' # {} /\ "enum" \in bus' /\ ("rst" \in bus' <=> "rst" \in bus) /\ bus' \subseteq {"rst", "enum"}
  BY <1>1
<1>5. Work(core', rxf', bus', e)
  BY <1>1, <1>2, <1>4 DEF Work
<1> QED BY <1>1, <1>3, <1>4, <1>5 DEF CoreInv, e

LEMMA CoreStep ==
  ASSUME HostPolite, QuietReset, CoreInv, [CoreNext]_coreVars
  PROVE  CoreInv'
<1>1. CASE UNCHANGED coreVars
  <2>1. core' = core /\ rxf' = rxf /\ bus' = bus /\ host' = host
    BY <1>1 DEF coreVars
  <2> QED BY <2>1 DEF CoreInv
<1>2. CASE HandlerTask /\ ~(bus = {} /\ host.st # "reset")
  BY <1>2, BusPass
<1>3. CASE HostReset
  BY <1>3, HostResetInv
<1>4. CASE HostResetEnd
  BY <1>4, HostResetEndInv
<1>5. CASE /\ bus = {} /\ host.st # "reset"
           /\ \/ HandlerTask \/ (\E s \in Requests : HostSetup(s))
              \/ HostIn \/ HostOut \/ HostStatusIn \/ HostStall
  <2>1. Good(core, rxf, host)
    BY <1>5 DEF CoreInv, Work, Good
  <2>2. bus' = {}
    BY <1>5 DEF HandlerTask, HostSetup, HostIn, HostOut, HostStatusIn, HostStall
  <2>3. Good(core', rxf', host')
    <3>1. CASE HandlerTask
      <4>1. core' = Pass(core, rxf) /\ rxf' = NextQ(rxf) /\ host' = host
        BY <1>5, <3>1, QuietPass
      <4> QED BY <2>1, <4>1, PassGood
    <3>2. CASE \E s \in Requests : HostSetup(s)
      BY <2>1, <3>2, HostSetupGood
    <3>3. CASE HostIn
      BY <2>1, <3>3, HostInGood
    <3>4. CASE HostOut
      BY <2>1, <3>4, HostOutGood
    <3>5. CASE HostStatusIn
      BY <2>1, <3>5, HostStatusInGood
    <3>6. CASE HostStall
      BY <2>1, <3>6, HostStallGood
    <3> QED BY <1>5, <3>1, <3>2, <3>3, <3>4, <3>5, <3>6
  <2>4. host'.st # "reset"
    <3>1. CoreTypes(core', host') /\ Phase(core', rxf', host')
      BY <2>3 DEF Good
    <3> QED BY <3>1 DEF Phase, Listening, Framing, Refusing, Sending, Sent, Answered, Ending, Taking,
                        Confirming, Confirmed, Between, AtFirst, FirstStage
  <2> QED BY <2>2, <2>3, <2>4 DEF CoreInv, Work, Good
<1>7. \A s \in Requests : HostSetup(s) => bus = {} /\ host.st # "reset"
  BY DEF HostSetup
<1>8. HostIn \/ HostOut \/ HostStatusIn \/ HostStall => bus = {} /\ host.st # "reset"
  BY DEF HostIn, HostOut, HostStatusIn, HostStall
<1> QED BY <1>1, <1>2, <1>3, <1>4, <1>5, <1>7, <1>8 DEF CoreNext, HostStep
-----------------------------------------------------------------------------
(* The theorems.                                                           *)

LEMMA CoreInvariant ==
  ASSUME HostPolite, QuietReset
  PROVE  CoreSpec => []CoreInv
<1>1. CoreInv /\ [CoreNext]_coreVars => CoreInv'
  BY CoreStep
<1> QED BY <1>1, CoreInitInv, PTL DEF CoreSpec

LEMMA TransferUnderWay == CoreInv => NeverDeaf
<1> SUFFICES ASSUME CoreInv PROVE NeverDeaf
  OBVIOUS
<1>1. core.in \in InRec /\ core.out \in OutRec /\ core.dev \in DevRec /\ host \in HostRec /\ InBounds(core.in)
  BY CoreFields DEF CoreInv, CoreTypes
<1>2. core.in.ec \in Errors /\ core.in.offs \in 0 .. Len(core.in.data) /\ Len(core.in.fifo) <= FifoRoom
  BY <1>1, InFields DEF InBounds
<1>3. /\ core.out.ec \in Errors /\ core.dev.state \in {"default", "address", "configured"}
      /\ host.st \in {"idle", "in", "out", "statusin", "statusout", "reset"}
  BY <1>1 DEF OutRec, DevRec, HostRec
<1>4. ASSUME bus = {}, host.st # "reset" PROVE core.in.ec = "busy" \/ core.out.ec = "busy"
  <2>1. Phase(core, rxf, host)
    BY <1>4 DEF CoreInv, Work
  <2> QED BY <2>1 DEF Phase, Listening, Framing, Refusing, Sending, Sent, Answered, Ending, Taking, Confirming,
                      Confirmed, OutSetup, OutArmed, OutStatus, OutReading, InEmpty
<1> QED BY <1>2, <1>3, <1>4 DEF NeverDeaf, CoreTypeOK

LEMMA AnswerComplete == CoreInv => AnswerRight
<1> SUFFICES ASSUME CoreInv, host.st = "statusout",
                    host.req.req \in {"get_descriptor", "get_configuration", "get_line"},
                    host.req.req = "get_line" => host.coding # Unknown
             PROVE  host.got = Wanted(host.req)
  BY DEF AnswerRight
<1> DEFINE a == core.ctl.data
<1>1. Phase(core, rxf, host) /\ CoreTypes(core, host)
  BY DEF CoreInv, Work
<1>2. Sent(core, rxf, host) \/ Answered(core, rxf, host)
  BY <1>1 DEF Phase, Listening, Framing, Refusing, Sending, Ending, Taking, Confirming, Confirmed,
              Between, AtFirst, FirstStage
<1>3. Answering(core, host) /\ IsAnswer(a, host)
  BY <1>2 DEF Sent, Answered, Answering
<1>4. host.got = a
  <2>1. CASE Answered(core, rxf, host)
    BY <2>1 DEF Answered
  <2>2. CASE Sent(core, rxf, host)
    <3> DEFINE i == core.ctl.offset
               l == Len(Part(core))
               n == Len(a)
    <3>1. /\ a \in Seq(Int) /\ n = Len(a) /\ n \in Nat /\ i \in Nat /\ Rest(core) = n - i /\ Rest(core) \in Nat
          /\ l = Least(Mps, Rest(core)) /\ Mps \in Nat
      BY <1>1, <1>3, PartFacts, UsbAssumption DEF Rest
    <3>2. ~(Rest(core) >= Mps) /\ host.got = SubSeq(a, 1, i + l)
      BY <2>2 DEF Sent
    <3> HIDE DEF a, i, l, n
    <3>3. i + l = n
      BY <3>1, <3>2 DEF Least
    <3>4. SubSeq(a, 1, n) = a
      BY <3>1
    <3> QED BY <3>2, <3>3, <3>4
  <2> QED BY <1>2, <2>1, <2>2
<1> QED BY <1>3, <1>4 DEF IsAnswer, Wanted

LEMMA StatesAgree == CoreInv => HostAgrees
<1> SUFFICES ASSUME CoreInv, host.st = "idle", bus = {} PROVE DevAgrees(core.dev, host.addr, host.cfg)
  BY DEF HostAgrees, DevAgrees
<1>1. Phase(core, rxf, host)
  BY DEF CoreInv, Work
<1>2. Listening(core, rxf, host) \/ Ending(core, rxf, host) \/ Confirmed(core, rxf, host)
  BY <1>1 DEF Phase, Framing, Refusing, Sending, Sent, Answered, Taking, Confirming, AtFirst, FirstStage
<1> QED BY <1>2 DEF Listening, Ending, Confirmed, Settled

\* The control endpoint never goes deaf: between two passes of
\* USB_HandlerTask, whatever was requested, refused or cut off by a reset
\* before, a transfer that will call back is in progress, for packets and
\* FIFOs of any size and any requests of a host that finishes its transfers
\* (the stages of usb_core.c, USB_HandleEnum).
THEOREM ControlNeverDeaf ==
  ASSUME HostPolite, QuietReset
  PROVE  CoreSpec => []NeverDeaf
BY CoreInvariant, TransferUnderWay, PTL

\* A `get' brings back what was asked for: the descriptor cut to the requested
\* length, the configuration and the line coding the host itself set last
\* (USBCore_ProcessSetupData, USBCore_DataINCallback, USBVCP_RequestCallback).
THEOREM AnswersRight ==
  ASSUME HostPolite, QuietReset
  PROVE  CoreSpec => []AnswerRight
BY CoreInvariant, AnswerComplete, PTL

\* Between two requests the device has the address and the configuration of
\* the requests the host saw completed since the last reset and is in the
\* state that goes with them (USBCore_SetAddress, USBCore_SetConfiguration).
THEOREM HostAndDeviceAgree ==
  ASSUME HostPolite, QuietReset
  PROVE  CoreSpec => []HostAgrees
BY CoreInvariant, StatesAgree, PTL
-----------------------------------------------------------------------------
(***************************************************************************)
(* The serial port (Vcp).  The two directions share nothing but the bus.   *)
(* Towards the host the invariant (TxInv) says where the buffer of         *)
(* USBVCP_TxTask is in its transfer, and how many bytes the host has for   *)
(* certain.  Towards the application (RxInv) everything that has arrived,  *)
(* from the application over the queue and the buffer to the endpoint, is  *)
(* one rising sequence, below what is still in the reception FIFO.         *)
(***************************************************************************)
VOutRec == [ec : Errors, room : Nat, data : Seq(Int), cb : Callbacks, ena : BOOLEAN,
            pkts : Nat, xfrc : BOOLEAN, stup : BOOLEAN]
VcpRec == [in : InRec, out : VOutRec, up : BOOLEAN, rx : {"start", "wait", "put"}, rxbuf : Seq(Int),
           tx : {"get", "start", "wait"}, txbuf : Seq(Int), offs : Nat, rxq : Seq(Int), txq : Seq(Int)]
VcpEntry == [kind : {"data", "done"}, data : Seq(Int)]
VcpBus == [driven : BOOLEAN, flags : SUBSET {"rst", "enum"}, resets : Nat]
VcpEnd == [sent : Nat, got : Seq(Int)]
VcpTypes(v, q, b, h, a) ==
  /\ v \in VcpRec /\ q \in Seq(VcpEntry) /\ b \in VcpBus /\ h \in VcpEnd /\ a \in VcpEnd
  /\ b.resets = 0 => ~b.driven /\ b.flags = {}

\* Towards the host.  Buffer and queue hold the last numbers, in order.
Oldest(v, n) == n - Len(v.txbuf) - Len(v.txq)
Numbered(v, n) ==
  /\ Oldest(v, n) >= 0
  /\ \A i \in 1 .. Len(v.txbuf) : v.txbuf[i] = Oldest(v, n) + i
  /\ \A i \in 1 .. Len(v.txq) : v.txq[i] = Oldest(v, n) + Len(v.txbuf) + i

\* A transfer of d: not begun or over, to be written, written, taken by the
\* host, followed by an empty packet, cut off by a reset.
InQuiet(k) == k.ec # "busy" /\ ~k.ena /\ ~k.fe /\ ~k.xfrc /\ k.fifo = <<>>
Moving(k) == k.ec = "busy" /\ k.ena /\ ~k.nak /\ k.pkts = 1 /\ ~k.xfrc
Ended(k, d) == InQuiet(k) /\ (k.ec = "ok" => k.offs = Len(d))
Filling(k, d) == Moving(k) /\ k.fe /\ k.data = d /\ k.offs = 0 /\ k.fifo = <<>> /\ k.left = Len(d)
Loaded(k, d) == Moving(k) /\ ~k.fe /\ k.offs = Len(d) /\ k.fifo = d /\ k.left = Len(d)
Taken(k, d) == k.ec = "busy" /\ ~k.ena /\ k.xfrc /\ ~k.fe /\ k.fifo = <<>> /\ k.offs = Len(d)
Trailing(k, d) == Moving(k) /\ ~k.fe /\ k.fifo = <<>> /\ k.left = 0 /\ k.offs = Len(d)
Cut(k) == k.ec = "busy" /\ ~k.ena /\ ~k.xfrc /\ ~k.fe /\ k.fifo = <<>>
Transfer(k, d) == \/ Ended(k, d) \/ Filling(k, d) \/ Loaded(k, d) \/ Taken(k, d)
                  \/ Trailing(k, d) \/ Cut(k)
TxPhase(v) ==
  /\ Len(v.txbuf) <= Mps /\ Len(v.txq) <= VcpQueue
  /\ \/ v.tx = "get" /\ InQuiet(v.in)
     \/ v.tx = "start" /\ InQuiet(v.in) /\ v.txbuf # <<>> /\ v.offs = 0
     \/ v.tx = "wait" /\ Transfer(v.in, v.txbuf) /\ v.txbuf # <<>> /\ v.offs = 0
TxBus(k, b) == b.driven \/ b.flags # {} =>
  ~k.fe /\ ("rst" \notin b.flags => ~k.ena /\ ~k.xfrc /\ k.fifo = <<>>)

\* How many bytes the host has for certain.
Over(k) == k.xfrc \/ k.ec = "ok" \/ (k.ena /\ k.left = 0)
Known(v, n) == IF v.tx = "wait" /\ Over(v.in) THEN n - Len(v.txq) ELSE n - Len(v.txbuf) - Len(v.txq)
Has(got, n) == \A b \in 1 .. n : \E i \in 1 .. Len(got) : got[i] = b
Counted(got, n) == Len(got) = n /\ \A i \in 1 .. n : got[i] = i
TxInv(v, b, got, n) ==
  /\ Numbered(v, n) /\ TxPhase(v) /\ TxBus(v.in, b) /\ Has(got, Known(v, n))
  /\ b.resets = 0 => Counted(got, Known(v, n))

LEMMA TxSame ==
  ASSUME NEW v, NEW w, w.in = v.in, w.tx = v.tx, w.txbuf = v.txbuf, w.offs = v.offs, w.txq = v.txq,
         NEW b, NEW got, NEW n, TxInv(v, b, got, n)
  PROVE  TxInv(w, b, got, n)
<1>1. Oldest(w, n) = Oldest(v, n) /\ Known(w, n) = Known(v, n)
  BY DEF Oldest, Known
<1> QED BY <1>1 DEF TxInv, Numbered, TxPhase

LEMMA VcpFields ==
  ASSUME NEW v \in VcpRec
  PROVE  /\ v.in \in InRec /\ v.out \in VOutRec /\ v.rxbuf \in Seq(Int) /\ v.txbuf \in Seq(Int)
         /\ v.offs \in Nat /\ v.rxq \in Seq(Int) /\ v.txq \in Seq(Int) /\ v.up \in BOOLEAN
         /\ v.rx \in {"start", "wait", "put"} /\ v.tx \in {"get", "start", "wait"}
         /\ Len(v.txbuf) \in Nat /\ Len(v.txq) \in Nat /\ Len(v.rxbuf) \in Nat /\ Len(v.rxq) \in Nat
BY LenProperties DEF VcpRec

\* Bytes that are known to have arrived, when fewer are claimed.
LEMMA HasLess == ASSUME NEW got \in Seq(Int), NEW n \in Int, NEW m \in Int, m <= n, Has(got, n)
                 PROVE  Has(got, m)
BY DEF Has

\* The first n elements of a sequence, and the rest.
LEMMA Split ==
  ASSUME NEW s \in Seq(Int), NEW n \in 0 .. Len(s)
  PROVE  /\ SubSeq(s, 1, n) \in Seq(Int) /\ Len(SubSeq(s, 1, n)) = n
         /\ \A i \in 1 .. n : SubSeq(s, 1, n)[i] = s[i]
         /\ SubSeq(s, n + 1, Len(s)) \in Seq(Int) /\ Len(SubSeq(s, n + 1, Len(s))) = Len(s) - n
         /\ \A i \in 1 .. Len(s) - n : SubSeq(s, n + 1, Len(s))[i] = s[n + i]
         /\ SubSeq(s, 1, n) \o SubSeq(s, n + 1, Len(s)) = s
<1> DEFINE l == Len(s)
<1>1. l \in Nat /\ n \in Nat /\ n <= l /\ \A i \in 1 .. l : s[i] \in Int
  BY LenProperties, ElementOfSeq
<1>2. /\ SubSeq(s, 1, n) \in Seq(Int) /\ Len(SubSeq(s, 1, n)) = n
      /\ \A i \in 1 .. n : SubSeq(s, 1, n)[i] = s[i]
  BY <1>1
<1>3. \A i \in n + 1 .. l : s[i] \in Int
  BY <1>1
<1>4. /\ SubSeq(s, n + 1, l) \in Seq(Int) /\ Len(SubSeq(s, n + 1, l)) = IF n + 1 <= l THEN l - (n + 1) + 1 ELSE 0
      /\ \A i \in 1 .. l - (n + 1) + 1 : SubSeq(s, n + 1, l)[i] = s[n + 1 + i - 1]
  <2> HIDE DEF l
  <2> QED BY <1>1, <1>3, SubSeqProperties
<1>5. SubSeq(s, 1, n) \o SubSeq(s, n + 1, l) = SubSeq(s, 1, l)
  <2>1. 1 \in 1 .. Len(s) + 1 /\ n \in 1 - 1 .. Len(s) /\ Len(s) \in n .. Len(s)
    BY <1>1
  <2> QED BY <2>1, ConcatAdjacentSubSeq
<1>6. SubSeq(s, 1, l) = s
  BY <1>1
<1>7. Len(SubSeq(s, n + 1, l)) = l - n /\ \A i \in 1 .. l - n : SubSeq(s, n + 1, l)[i] = s[n + i]
  <2> HIDE DEF l
  <2>1. \A i \in 1 .. l - n : n + 1 + i - 1 = n + i
    BY <1>1
  <2> QED BY <1>1, <1>4, <2>1
<1> QED BY <1>2, <1>4, <1>5, <1>6, <1>7

LEMMA Join ==
  ASSUME NEW s \in Seq(Int), NEW t \in Seq(Int)
  PROVE  /\ s \o t \in Seq(Int) /\ Len(s \o t) = Len(s) + Len(t)
         /\ \A i \in 1 .. Len(s) : (s \o t)[i] = s[i]
         /\ \A i \in Len(s) + 1 .. Len(s) + Len(t) : (s \o t)[i] = t[i - Len(s)]
         /\ \A i \in 1 .. Len(t) : Len(s) + i \in 1 .. Len(s \o t) /\ (s \o t)[Len(s) + i] = t[i]
<1> DEFINE m == Len(s)
           n == Len(t)
           j == s \o t
<1>1. m \in Nat /\ n \in Nat
  BY LenProperties
<1>2. j \in Seq(Int) /\ Len(j) = m + n /\ \A i \in 1 .. m + n : j[i] = IF i <= m THEN s[i] ELSE t[i - m]
  BY ConcatProperties
<1> HIDE DEF m, n, j
<1>3. \A i \in 1 .. m : j[i] = s[i]
  BY <1>1, <1>2
<1>4. \A i \in m + 1 .. m + n : j[i] = t[i - m]
  BY <1>1, <1>2
<1>5. ASSUME NEW i \in 1 .. n PROVE m + i \in 1 .. Len(j) /\ j[m + i] = t[i]
  <2>1. m + i \in m + 1 .. m + n /\ (m + i) - m = i /\ m + i \in 1 .. m + n
    BY <1>1
  <2> QED BY <1>2, <1>4, <2>1
<1> QED BY <1>2, <1>3, <1>4, <1>5 DEF m, n, j

LEMMA JoinThree ==
  ASSUME NEW s \in Seq(Int), NEW t \in Seq(Int), NEW u \in Seq(Int)
  PROVE  (s \o t) \o u = s \o (t \o u)
BY ConcatAssociative

\* Starting a bulk transfer of the whole buffer.
LEMMA StartBulk ==
  ASSUME NEW k \in InRec, InQuiet(k), NEW d \in Seq(Int), Len(d) \in 1 .. Mps,
         NEW x, x = StartIN(k, d, NoCb, TRUE)
  PROVE  x \in InRec /\ Filling(x, d) /\ ~Over(x)
<1>1. Len(d) \in 0 .. Mps /\ Len(d) \in Nat /\ Len(d) > 0
  BY LenProperties, UsbAssumption
<1>2. PktCnt(Len(d)) = 1 /\ 1 \in Nat /\ 0 \in Nat
  BY <1>1, OnePacket
<1> DEFINE z == PktCnt(Len(d)) * Mps = Len(d)
           f == k.fe \/ Len(d) > 0
<1>3. z \in BOOLEAN /\ f \in BOOLEAN /\ f
  BY <1>1
<1>4. k.ec # "busy" /\ ~k.xfrc /\ k.fifo = <<>>
  BY DEF InQuiet
<1>5. x = [k EXCEPT !.ec = "busy", !.data = d, !.offs = 0, !.cb = NoCb, !.zlp = z, !.pkts = 1, !.left = Len(d),
                    !.ena = TRUE, !.nak = FALSE, !.fe = f]
  BY <1>2, <1>4 DEF StartIN
<1> HIDE DEF z, f
<1>6. x \in InRec
  BY <1>1, <1>2, <1>3, <1>5, Words DEF InRec
<1>7. /\ x.ec = "busy" /\ x.data = d /\ x.offs = 0 /\ x.pkts = 1 /\ x.left = Len(d) /\ x.ena /\ ~x.nak
      /\ x.fe /\ x.fifo = k.fifo /\ x.xfrc = k.xfrc
  BY <1>3, <1>5 DEF InRec
<1>8. Filling(x, d)
  BY <1>4, <1>7 DEF Filling, Moving
<1>9. ~Over(x)
  <2>1. ~x.xfrc /\ x.ec # "ok"
    BY <1>8 DEF Filling, Moving
  <2>2. x.left = Len(d)
    BY <1>8 DEF Filling
  <2>3. Len(d) # 0
    BY <1>1
  <2> QED BY <2>1, <2>2, <2>3 DEF Over
<1> QED BY <1>6, <1>8, <1>9

\* USBVCP_TxTask collects: the first bytes of the queue move to the buffer.
LEMMA TxGetGood ==
  ASSUME VcpTypes(vcp, vrxf, vbus, vhost, vapp), TxInv(vcp, vbus, vhost.got, vapp.sent),
         NEW t \in BOOLEAN, TxTaskGet(t)
  PROVE  /\ vcp' \in VcpRec /\ TxInv(vcp', vbus, vhost.got, vapp.sent)
         /\ vcp'.out = vcp.out /\ vcp'.rx = vcp.rx /\ vcp'.rxbuf = vcp.rxbuf /\ vcp'.rxq = vcp.rxq
<1> DEFINE a == vcp.txbuf
           q == vcp.txq
           la == Len(a)
           lq == Len(q)
           n == Least(Mps - la, lq)
           buf == a \o SubSeq(q, 1, n)
           rest == SubSeq(q, n + 1, lq)
           tx == IF Len(buf) = Mps \/ t THEN "start" ELSE "get"
           s == vapp.sent
<1>1. /\ vcp \in VcpRec /\ a \in Seq(Int) /\ q \in Seq(Int) /\ la \in Nat /\ lq \in Nat /\ s \in Nat /\ Mps \in Nat
      /\ vhost.got \in Seq(Int)
  BY VcpFields, UsbAssumption DEF VcpTypes, VcpEnd
<1>2. vcp.tx = "get" /\ InQuiet(vcp.in) /\ la <= Mps /\ lq <= VcpQueue
  BY DEF TxInv, TxPhase, TxTaskGet
<1>3. n \in 0 .. lq /\ n <= Mps - la
  <2> HIDE DEF la, lq
  <2> QED BY <1>1, <1>2 DEF Least
<1>4. SubSeq(q, 1, n) \in Seq(Int) /\ Len(SubSeq(q, 1, n)) = n /\ \A i \in 1 .. n : SubSeq(q, 1, n)[i] = q[i]
  <2> HIDE DEF n
  <2> QED BY <1>1, <1>3, Split
<1>5. rest \in Seq(Int) /\ Len(rest) = lq - n /\ \A i \in 1 .. lq - n : rest[i] = q[n + i]
  <2> HIDE DEF n
  <2> QED BY <1>1, <1>3, Split
<1>6. /\ buf \in Seq(Int) /\ Len(buf) = la + n /\ \A i \in 1 .. la : buf[i] = a[i]
      /\ \A i \in la + 1 .. la + n : buf[i] = q[i - la]
  BY <1>1, <1>3, <1>4
<1>7. /\ vcp' = [vcp EXCEPT !.txq = rest, !.txbuf = buf, !.offs = 0, !.tx = tx]
      /\ n > 0 \/ (t /\ buf # <<>>)
  BY DEF TxTaskGet
<1>8. tx \in {"get", "start"} /\ (tx = "start" => Len(buf) > 0)
  <2>1. buf # <<>> => Len(buf) > 0
    BY <1>6, EmptySeq, LenProperties
  <2> QED BY <1>1, <1>3, <1>6, <1>7, <2>1, UsbAssumption
<1> HIDE DEF rest, buf, tx, n, s, la, lq
<1>9. /\ vcp' \in VcpRec /\ vcp'.txq = rest /\ vcp'.txbuf = buf /\ vcp'.offs = 0 /\ vcp'.tx = tx
      /\ vcp'.in = vcp.in /\ vcp'.out = vcp.out /\ vcp'.rx = vcp.rx /\ vcp'.rxbuf = vcp.rxbuf /\ vcp'.rxq = vcp.rxq
  <2>1. tx \in {"get", "start", "wait"}
    BY <1>8
  <2> QED BY <1>1, <1>5, <1>6, <1>7, <2>1, 0 \in Nat DEF VcpRec
<1>10. Oldest(vcp, s) = s - la - lq /\ Oldest(vcp', s) = s - la - lq
  <2>1. Len(vcp.txbuf) = la /\ Len(vcp.txq) = lq
    BY DEF la, lq
  <2>2. Len(vcp'.txbuf) = la + n /\ Len(vcp'.txq) = lq - n
    BY <1>5, <1>6, <1>9
  <2>3. s - (la + n) - (lq - n) = s - la - lq
    BY <1>1, <1>3
  <2> QED BY <2>1, <2>2, <2>3 DEF Oldest
<1>11. /\ s - la - lq >= 0 /\ \A i \in 1 .. la : a[i] = s - la - lq + i
       /\ \A i \in 1 .. lq : q[i] = s - la - lq + la + i
  BY <1>10 DEF TxInv, Numbered, s, la, lq
<1>12. Numbered(vcp', s)
  <2>1. ASSUME NEW i \in 1 .. la + n PROVE buf[i] = s - la - lq + i
    <3>1. CASE i <= la
      BY <1>1, <1>3, <1>6, <1>11, <3>1
    <3>2. CASE i > la
      <4>1. i - la \in 1 .. lq /\ buf[i] = q[i - la]
        BY <1>1, <1>3, <1>6, <3>2
      <4>2. q[i - la] = s - la - lq + la + (i - la)
        BY <1>11, <4>1
      <4> QED BY <1>1, <1>3, <4>1, <4>2
    <3> QED BY <1>1, <1>3, <3>1, <3>2
  <2>2. ASSUME NEW i \in 1 .. lq - n PROVE rest[i] = s - la - lq + (la + n) + i
    <3>1. n + i \in 1 .. lq
      BY <1>1, <1>3
    <3>2. q[n + i] = s - la - lq + la + (n + i)
      BY <1>11, <3>1
    <3> QED BY <1>1, <1>3, <1>5, <3>2
  <2> QED BY <1>5, <1>6, <1>9, <1>10, <1>11, <2>1, <2>2 DEF Numbered
<1>13. TxPhase(vcp')
  <2>1. Len(buf) <= Mps /\ Len(rest) <= VcpQueue
    BY <1>1, <1>2, <1>3, <1>5, <1>6, VcpAssumption
  <2>2. tx = "start" => buf # <<>>
    BY <1>8
  <2> QED BY <1>2, <1>8, <1>9, <2>1, <2>2 DEF TxPhase
<1>14. Known(vcp, s) = Oldest(vcp, s) /\ Known(vcp', s) = Oldest(vcp', s)
  BY <1>2, <1>8, <1>9 DEF Known, Oldest
<1> QED BY <1>9, <1>10, <1>12, <1>13, <1>14 DEF TxInv, s

LEMMA TxStartGood ==
  ASSUME VcpTypes(vcp, vrxf, vbus, vhost, vapp), TxInv(vcp, vbus, vhost.got, vapp.sent),
         QuietReset, TxTaskStart
  PROVE  /\ vcp' \in VcpRec /\ TxInv(vcp', vbus, vhost.got, vapp.sent)
         /\ vcp'.out = vcp.out /\ vcp'.rx = vcp.rx /\ vcp'.rxbuf = vcp.rxbuf /\ vcp'.rxq = vcp.rxq
<1> DEFINE a == vcp.txbuf
           x == StartIN(vcp.in, a, NoCb, TRUE)
<1>1. vcp \in VcpRec /\ vcp.in \in InRec /\ a \in Seq(Int) /\ Len(a) \in Nat
  BY VcpFields DEF VcpTypes
<1>2. vcp.tx = "start" /\ InQuiet(vcp.in) /\ a # <<>> /\ Len(a) <= Mps /\ vcp.offs = 0 /\ Traffic
  BY DEF TxInv, TxPhase, TxTaskStart
<1>3. Len(a) \in 1 .. Mps /\ SubSeq(a, 1, Len(a)) = a
  BY <1>1, <1>2, UsbAssumption
<1>4. x \in InRec /\ Filling(x, a) /\ ~Over(x)
  BY <1>1, <1>2, <1>3, StartBulk
<1>5. vcp' = [vcp EXCEPT !.tx = "wait", !.in = x]
  <2> DEFINE data == [i \in 1 .. Len(vcp.txbuf) |->
                        IF vcp.offs + i <= Len(vcp.txbuf) THEN vcp.txbuf[vcp.offs + i] ELSE Behind]
  <2>1. data = a
    <3>1. \A i \in 1 .. Len(a) : 0 + i <= Len(a) /\ 0 + i = i
      BY <1>1
    <3>2. a = [i \in 1 .. Len(a) |-> a[i]]
      BY <1>1
    <3> QED BY <1>2, <3>1, <3>2
  <2>2. vcp' = [vcp EXCEPT !.tx = "wait", !.in = StartIN(vcp.in, data, NoCb, TRUE)]
    BY DEF TxTaskStart
  <2> QED BY <2>1, <2>2
<1> HIDE DEF x
<1>6. /\ vcp' \in VcpRec /\ vcp'.tx = "wait" /\ vcp'.in = x /\ vcp'.txbuf = a /\ vcp'.txq = vcp.txq /\ vcp'.offs = vcp.offs
      /\ vcp'.out = vcp.out /\ vcp'.rx = vcp.rx /\ vcp'.rxbuf = vcp.rxbuf /\ vcp'.rxq = vcp.rxq
  BY <1>1, <1>4, <1>5 DEF VcpRec
<1>7. Numbered(vcp', vapp.sent) /\ Known(vcp', vapp.sent) = Known(vcp, vapp.sent)
  BY <1>2, <1>4, <1>6 DEF TxInv, Numbered, Oldest, Known
<1>8. TxPhase(vcp')
  BY <1>2, <1>4, <1>6 DEF TxInv, TxPhase, Transfer
<1>9. TxBus(vcp'.in, vbus)
  BY <1>2 DEF TxBus, Traffic
<1> QED BY <1>6, <1>7, <1>8, <1>9 DEF TxInv

LEMMA TxWaitGood ==
  ASSUME VcpTypes(vcp, vrxf, vbus, vhost, vapp), TxInv(vcp, vbus, vhost.got, vapp.sent), TxTaskWait
  PROVE  /\ vcp' \in VcpRec /\ TxInv(vcp', vbus, vhost.got, vapp.sent)
         /\ vcp'.out = vcp.out /\ vcp'.rx = vcp.rx /\ vcp'.rxbuf = vcp.rxbuf /\ vcp'.rxq = vcp.rxq
<1> DEFINE a == vcp.txbuf
           s == vapp.sent
<1>1. vcp \in VcpRec /\ vcp.in \in InRec /\ a \in Seq(Int) /\ Len(a) \in Nat /\ s \in Nat /\ Len(vcp.txq) \in Nat
  BY VcpFields DEF VcpTypes, VcpEnd
<1>2. vcp.tx = "wait" /\ Ended(vcp.in, a) /\ a # <<>> /\ Len(a) <= Mps /\ vcp.offs = 0
  BY DEF TxInv, TxPhase, TxTaskWait, Transfer, Filling, Loaded, Moving, Taken, Trailing, Cut
<1>3. Len(a) > 0
  BY <1>1, <1>2
<1>4. InQuiet(vcp.in) /\ ~vcp.in.xfrc /\ ~vcp.in.ena
  BY <1>2 DEF Ended, InQuiet
<1>5. CASE vcp.in.ec = "ok"
  <2>1. vcp.in.offs = Len(a) /\ vcp.offs + vcp.in.offs = Len(a)
    BY <1>1, <1>2, <1>5 DEF Ended
  <2>2. vcp' = [vcp EXCEPT !.tx = "get", !.offs = Len(a), !.txbuf = <<>>]
    BY <1>5, <2>1 DEF TxTaskWait
  <2>3. /\ vcp' \in VcpRec /\ vcp'.tx = "get" /\ vcp'.in = vcp.in /\ vcp'.txbuf = <<>> /\ vcp'.txq = vcp.txq
        /\ vcp'.out = vcp.out /\ vcp'.rx = vcp.rx /\ vcp'.rxbuf = vcp.rxbuf /\ vcp'.rxq = vcp.rxq
    BY <1>1, <2>2, Empties DEF VcpRec
  <2>4. Len(vcp'.txbuf) = 0 /\ Oldest(vcp', s) = s - Len(vcp.txq) /\ Oldest(vcp, s) = s - Len(a) - Len(vcp.txq)
    BY <1>1, <2>3 DEF Oldest
  <2>5. Known(vcp, s) = s - Len(vcp.txq) /\ Known(vcp', s) = s - Len(vcp.txq)
    BY <1>1, <1>2, <1>5, <2>3, <2>4 DEF Known, Over
  <2>6. Numbered(vcp', s)
    <3>1. s - Len(a) - Len(vcp.txq) >= 0
      BY <2>4 DEF TxInv, Numbered
    <3>2. ASSUME NEW i \in 1 .. Len(vcp.txq) PROVE vcp.txq[i] = s - Len(vcp.txq) + 0 + i
      <4>1. vcp.txq[i] = (s - Len(a) - Len(vcp.txq)) + Len(a) + i
        BY <2>4 DEF TxInv, Numbered
      <4> QED BY <1>1, <4>1
    <3> QED BY <1>1, <2>3, <2>4, <3>1, <3>2 DEF Numbered
  <2>7. TxPhase(vcp')
    BY <1>4, <2>3, <2>4, UsbAssumption DEF TxInv, TxPhase
  <2> QED BY <2>3, <2>5, <2>6, <2>7 DEF TxInv
<1>6. CASE vcp.in.ec # "ok"
  <2>1. vcp' = [vcp EXCEPT !.tx = "start", !.offs = vcp.offs, !.txbuf = vcp.txbuf]
    BY <1>2, <1>3, <1>6 DEF TxTaskWait
  <2>2. /\ vcp' \in VcpRec /\ vcp'.tx = "start" /\ vcp'.in = vcp.in /\ vcp'.txbuf = a /\ vcp'.txq = vcp.txq
        /\ vcp'.offs = vcp.offs
        /\ vcp'.out = vcp.out /\ vcp'.rx = vcp.rx /\ vcp'.rxbuf = vcp.rxbuf /\ vcp'.rxq = vcp.rxq
    BY <1>1, <2>1 DEF VcpRec
  <2>3. Known(vcp', s) = Known(vcp, s) /\ Oldest(vcp', s) = Oldest(vcp, s)
    BY <1>4, <1>6, <2>2 DEF Known, Over, Oldest
  <2>4. Numbered(vcp', s) /\ TxPhase(vcp')
    BY <1>2, <1>4, <2>2, <2>3 DEF TxInv, Numbered, TxPhase
  <2> QED BY <2>2, <2>3, <2>4 DEF TxInv
<1> QED BY <1>5, <1>6

\* USBVCP_Send queues the next n bytes.
LEMMA SendGood ==
  ASSUME VcpTypes(vcp, vrxf, vbus, vhost, vapp), TxInv(vcp, vbus, vhost.got, vapp.sent), VcpSend
  PROVE  /\ vcp' \in VcpRec /\ vapp' \in VcpEnd /\ TxInv(vcp', vbus, vhost.got, vapp'.sent)
         /\ vcp'.out = vcp.out /\ vcp'.rx = vcp.rx /\ vcp'.rxbuf = vcp.rxbuf /\ vcp'.rxq = vcp.rxq
         /\ vapp'.got = vapp.got
<1> DEFINE s == vapp.sent
           q == vcp.txq
           la == Len(vcp.txbuf)
           lq == Len(q)
           o == s - la - lq
<1>1. /\ vcp \in VcpRec /\ q \in Seq(Int) /\ la \in Nat /\ lq \in Nat /\ s \in Nat /\ vapp \in VcpEnd
      /\ VcpQueue \in Nat /\ VcpBytes \in Nat
  BY VcpFields, VcpAssumption DEF VcpTypes, VcpEnd
<1>2. PICK n \in 1 .. Least(VcpQueue - lq, VcpBytes - s) :
        /\ vcp' = [vcp EXCEPT !.txq = q \o [i \in 1 .. n |-> s + i]]
        /\ vapp' = [vapp EXCEPT !.sent = s + n]
  BY DEF VcpSend
<1>3. n \in Nat /\ n <= VcpQueue - lq
  <2> HIDE DEF lq, s
  <2> QED BY <1>1, <1>2 DEF Least
<1> DEFINE p == [i \in 1 .. n |-> s + i]
           r == q \o p
<1>4. p \in Seq(Int) /\ Len(p) = n /\ \A i \in 1 .. n : p[i] = s + i
  <2> HIDE DEF s
  <2> QED BY <1>1, <1>3
<1>5. /\ r \in Seq(Int) /\ Len(r) = lq + n /\ \A i \in 1 .. lq : r[i] = q[i]
      /\ \A i \in lq + 1 .. lq + n : r[i] = p[i - lq]
  <2> HIDE DEF p
  <2> QED BY <1>1, <1>4, Join
<1>6. vcp' = [vcp EXCEPT !.txq = r]
  BY <1>2
<1> HIDE DEF r, p, la, lq, s
<1>7. /\ vcp' \in VcpRec /\ vcp'.txq = r /\ vcp'.txbuf = vcp.txbuf /\ vcp'.in = vcp.in /\ vcp'.tx = vcp.tx
      /\ vcp'.offs = vcp.offs
      /\ vcp'.out = vcp.out /\ vcp'.rx = vcp.rx /\ vcp'.rxbuf = vcp.rxbuf /\ vcp'.rxq = vcp.rxq
  BY <1>1, <1>5, <1>6 DEF VcpRec
<1>8. vapp' \in VcpEnd /\ vapp'.sent = s + n /\ vapp'.got = vapp.got
  <2>1. s + n \in Nat
    BY <1>1, <1>3
  <2> QED BY <1>1, <1>2, <2>1 DEF VcpEnd
<1>9. Len(vcp.txbuf) = la /\ Len(vcp'.txbuf) = la /\ Len(vcp.txq) = lq /\ Len(vcp'.txq) = lq + n
  BY <1>5, <1>7 DEF la, lq
<1>10. (s + n) - la - (lq + n) = o /\ (s + n) - (lq + n) = s - lq
  BY <1>1, <1>3
<1>11. Oldest(vcp, s) = o /\ Oldest(vcp', s + n) = o /\ Known(vcp', s + n) = Known(vcp, s)
  BY <1>7, <1>9, <1>10 DEF Oldest, Known
<1>12. o >= 0 /\ (\A i \in 1 .. la : vcp.txbuf[i] = o + i) /\ \A i \in 1 .. lq : q[i] = o + la + i
  BY <1>9, <1>11 DEF TxInv, Numbered, s
<1>13. ASSUME NEW i \in 1 .. lq + n PROVE r[i] = o + la + i
  <2>1. CASE i <= lq
    BY <1>1, <1>3, <1>5, <1>12, <2>1
  <2>2. CASE i > lq
    <3>1. i - lq \in 1 .. n /\ r[i] = p[i - lq]
      <4>1. i - lq \in 1 .. n /\ i \in lq + 1 .. lq + n
        BY <1>1, <1>3, <2>2
      <4> QED BY <1>5, <4>1
    <3> QED BY <1>1, <1>3, <1>4, <3>1
  <2> QED BY <1>1, <1>3, <2>1, <2>2
<1>14. Numbered(vcp', s + n)
  BY <1>7, <1>9, <1>11, <1>12, <1>13 DEF Numbered
<1>15. lq + n <= VcpQueue
  BY <1>1, <1>3
<1>16. TxPhase(vcp')
  BY <1>7, <1>9, <1>15 DEF TxInv, TxPhase
<1> QED BY <1>7, <1>8, <1>11, <1>14, <1>16 DEF TxInv, s

\* The host takes a packet: the whole buffer, or the empty one behind it.
LEMMA HostTakes ==
  ASSUME NEW k \in InRec, NEW d \in Seq(Int), Len(d) \in 1 .. Mps, Transfer(k, d), InReady(k),
         NEW x, x = InTaken(k)
  PROVE  /\ x \in InRec /\ Taken(x, d) /\ Over(x)
         /\ \/ ~Over(k) /\ SubSeq(k.fifo, 1, InPacket(k)) = d
            \/ Over(k) /\ SubSeq(k.fifo, 1, InPacket(k)) = <<>>
<1>1. Len(d) \in Nat /\ Len(d) > 0 /\ Len(d) <= Mps /\ k.left \in Nat /\ k.fifo \in Seq(Int) /\ Mps \in Nat
  BY LenProperties, UsbAssumption, InFields
<1>2. ~Filling(k, d)
  BY <1>1, LenProperties, EmptySeq DEF Filling, InReady, InPacket, Least
<1>3. Loaded(k, d) \/ Trailing(k, d)
  BY <1>2 DEF InReady, Transfer, Ended, InQuiet, Taken, Cut
<1>4. /\ k.pkts = 1 /\ k.left = Len(k.fifo) /\ Len(k.fifo) <= Mps /\ ~k.fe /\ k.offs = Len(d) /\ k.ec = "busy"
      /\ k.ena /\ ~k.xfrc
  BY <1>1, <1>3 DEF Loaded, Trailing, Moving
<1>5. x \in InRec /\ x.fifo = <<>> /\ ~x.ena /\ x.xfrc /\ x.ec = "busy" /\ ~x.fe /\ x.offs = Len(d)
  BY <1>4, TakenFields
<1>6. InPacket(k) = Len(k.fifo) /\ SubSeq(k.fifo, 1, Len(k.fifo)) = k.fifo
  BY <1>1, <1>4 DEF InPacket, Least
<1>7. \/ ~Over(k) /\ k.fifo = d
      \/ Over(k) /\ k.fifo = <<>>
  BY <1>1, <1>3, <1>4 DEF Over, Loaded, Trailing
<1> QED BY <1>5, <1>6, <1>7 DEF Taken, Over

LEMMA HostInStep ==
  ASSUME VcpTypes(vcp, vrxf, vbus, vhost, vapp), TxInv(vcp, vbus, vhost.got, vapp.sent), VcpHostIn
  PROVE  /\ vcp' \in VcpRec /\ vhost' \in VcpEnd /\ TxInv(vcp', vbus, vhost'.got, vapp.sent)
         /\ vcp'.out = vcp.out /\ vcp'.rx = vcp.rx /\ vcp'.rxbuf = vcp.rxbuf /\ vcp'.rxq = vcp.rxq
         /\ vhost'.sent = vhost.sent
<1> DEFINE a == vcp.txbuf
           k == vcp.in
           x == InTaken(k)
           p == SubSeq(k.fifo, 1, InPacket(k))
           g == vhost.got
           s == vapp.sent
           la == Len(a)
           lq == Len(vcp.txq)
<1>1. /\ vcp \in VcpRec /\ k \in InRec /\ a \in Seq(Int) /\ la \in Nat /\ lq \in Nat /\ s \in Nat /\ g \in Seq(Int)
      /\ Len(g) \in Nat /\ vhost \in VcpEnd
  BY VcpFields, LenProperties DEF VcpTypes, VcpEnd
<1>2. InReady(k) /\ Traffic
  BY DEF VcpHostIn
<1>3. vcp.tx = "wait" /\ Transfer(k, a) /\ a # <<>> /\ la <= Mps /\ vcp.offs = 0
  BY <1>2 DEF TxInv, TxPhase, InQuiet, InReady
<1>4. la \in 1 .. Mps
  BY <1>1, <1>3, UsbAssumption
<1>5. /\ x \in InRec /\ Taken(x, a) /\ Over(x)
      /\ (~Over(k) /\ p = a) \/ (Over(k) /\ p = <<>>)
  BY <1>1, <1>2, <1>3, <1>4, HostTakes
<1>6. vcp' = [vcp EXCEPT !.in = x] /\ vhost' = [vhost EXCEPT !.got = g \o p]
  BY DEF VcpHostIn
<1> HIDE DEF x, p
<1>7. p \in Seq(Int) /\ g \o p \in Seq(Int)
  <2>1. p \in Seq(Int)
    BY <1>1, <1>5, Empties
  <2> QED BY <1>1, <2>1, Join
<1>8. /\ vcp' \in VcpRec /\ vcp'.in = x /\ vcp'.tx = vcp.tx /\ vcp'.txbuf = a /\ vcp'.txq = vcp.txq /\ vcp'.offs = vcp.offs
      /\ vcp'.out = vcp.out /\ vcp'.rx = vcp.rx /\ vcp'.rxbuf = vcp.rxbuf /\ vcp'.rxq = vcp.rxq
  BY <1>1, <1>5, <1>6 DEF VcpRec
<1>9. vhost' \in VcpEnd /\ vhost'.got = g \o p /\ vhost'.sent = vhost.sent
  BY <1>1, <1>6, <1>7 DEF VcpEnd
<1>10. Numbered(vcp', s) /\ TxPhase(vcp') /\ TxBus(vcp'.in, vbus)
  BY <1>2, <1>3, <1>5, <1>8 DEF TxInv, Numbered, Oldest, TxPhase, Transfer, TxBus, Traffic
<1>11. Known(vcp', s) = s - lq
  BY <1>3, <1>5, <1>8 DEF Known
<1>12. CASE Over(k) /\ p = <<>>
  <2>1. g \o p = g /\ Known(vcp, s) = s - lq
    BY <1>1, <1>3, <1>12, ConcatEmptySeq DEF Known
  <2> QED BY <1>8, <1>9, <1>10, <1>11, <2>1 DEF TxInv
<1>13. CASE ~Over(k) /\ p = a
  <2> DEFINE o == s - la - lq
             j == g \o a
  <2>1. Known(vcp, s) = o /\ Oldest(vcp, s) = o
    BY <1>3, <1>13 DEF Known, Oldest
  <2>2. o >= 0 /\ (\A i \in 1 .. la : a[i] = o + i) /\ Has(g, o) /\ (vbus.resets = 0 => Counted(g, o))
    BY <2>1 DEF TxInv, Numbered
  <2> HIDE DEF la, lq, s, g
  <2>3. /\ Len(j) = Len(g) + la /\ \A i \in 1 .. Len(g) : j[i] = g[i]
        /\ \A i \in 1 .. la : Len(g) + i \in 1 .. Len(j) /\ j[Len(g) + i] = a[i]
    <3>1. Len(a) = la
      BY DEF la
    <3> QED BY <1>1, <3>1, Join
  <2> HIDE DEF j
  <2>4. Has(j, s - lq)
    <3> SUFFICES ASSUME NEW b \in 1 .. s - lq PROVE \E i \in 1 .. Len(j) : j[i] = b
      BY DEF Has
    <3>1. CASE b <= o
      <4>1. PICK i \in 1 .. Len(g) : g[i] = b
        BY <1>1, <2>2, <3>1 DEF Has
      <4> QED BY <1>1, <2>3, <4>1
    <3>2. CASE b > o
      <4>1. b - o \in 1 .. la /\ a[b - o] = b
        BY <1>1, <2>2, <3>2
      <4> QED BY <1>1, <2>3, <4>1
    <3> QED BY <1>1, <3>1, <3>2
  <2>5. ASSUME vbus.resets = 0 PROVE Counted(j, s - lq)
    <3>1. Len(g) = o /\ \A i \in 1 .. o : g[i] = i
      BY <2>2, <2>5 DEF Counted
    <3>2. Len(j) = s - lq
      BY <1>1, <2>3, <3>1
    <3>3. ASSUME NEW i \in 1 .. s - lq PROVE j[i] = i
      <4>1. CASE i <= o
        BY <1>1, <2>3, <3>1, <4>1
      <4>2. CASE i > o
        <5>1. i - o \in 1 .. la /\ Len(g) + (i - o) = i
          BY <1>1, <3>1, <4>2
        <5>2. a[i - o] = i
          BY <1>1, <2>2, <5>1
        <5>3. j[Len(g) + (i - o)] = a[i - o]
          BY <2>3, <5>1
        <5> QED BY <5>1, <5>2, <5>3
      <4> QED BY <1>1, <4>1, <4>2
    <3> QED BY <3>2, <3>3 DEF Counted
  <2>6. vhost'.got = j
    BY <1>9, <1>13 DEF j, g
  <2> QED BY <1>8, <1>9, <1>10, <1>11, <2>4, <2>5, <2>6 DEF TxInv, s, lq
<1> QED BY <1>5, <1>12, <1>13

\* One pass of USB_HandlerTask over the endpoint, without bus events.
LEMMA PassIn ==
  ASSUME NEW k \in InRec, NEW d \in Seq(Int), Len(d) \in 1 .. Mps, Transfer(k, d),
         NEW x, x = InPass(k)
  PROVE  x \in InRec /\ Transfer(x, d) /\ (Over(x) <=> Over(k))
<1>1. Len(d) \in Nat /\ Len(d) # 0 /\ Len(d) <= Mps
  BY LenProperties, UsbAssumption
<1>2. CASE ~k.xfrc /\ ~k.fe
  <2>1. x = k
    BY <1>2 DEF InPass, NeedsZlp
  <2> QED BY <2>1
<1>3. CASE Filling(k, d)
  <2>1. ~k.xfrc /\ k.fe /\ k.fifo = <<>> /\ k.offs = 0 /\ Len(k.data) <= Mps /\ k.data = d /\ k.left = Len(d)
        /\ k.ec = "busy" /\ k.ena /\ ~k.nak /\ k.pkts = 1
    BY <1>1, <1>3 DEF Filling, Moving
  <2>2. x = FillFifo(k)
    BY <2>1 DEF InPass, NeedsZlp
  <2>3. /\ x \in InRec /\ x.fifo = d /\ x.offs = Len(d) /\ ~x.fe /\ x.ec = "busy" /\ x.ena /\ ~x.nak
        /\ x.pkts = 1 /\ x.left = Len(d) /\ ~x.xfrc
    BY <2>1, <2>2, FillFields
  <2>4. Loaded(x, d)
    BY <2>3 DEF Loaded, Moving
  <2>5. ~Over(k) /\ ~Over(x)
    <3>1. k.left # 0 /\ x.left # 0
      BY <1>1, <2>1, <2>3
    <3> QED BY <2>1, <2>3, <3>1 DEF Over
  <2> QED BY <2>3, <2>4, <2>5 DEF Transfer
<1>4. CASE Taken(k, d)
  <2>1. k.ec = "busy" /\ ~k.ena /\ k.xfrc /\ ~k.fe /\ k.fifo = <<>> /\ k.offs = Len(d)
    BY <1>4 DEF Taken
  <2>2. Over(k)
    BY <2>1 DEF Over
  <2>3. CASE k.zlp
    <3>1. x = [k EXCEPT !.xfrc = FALSE, !.zlp = FALSE, !.pkts = 1, !.left = 0, !.ena = TRUE, !.nak = FALSE]
      BY <2>1, <2>3 DEF InPass, NeedsZlp, SendZlp, InRec
    <3>2. x \in InRec
      <4> DEFINE u == [k EXCEPT !.xfrc = FALSE, !.zlp = FALSE, !.ena = TRUE, !.nak = FALSE]
      <4>1. u \in InRec
        BY DEF InRec
      <4>2. x = [u EXCEPT !.pkts = 1, !.left = 0]
        BY <3>1 DEF InRec
      <4> HIDE DEF u
      <4> QED BY <4>1, <4>2, 0 \in Nat, 1 \in Nat DEF InRec
    <3>3. /\ x.ec = k.ec /\ x.ena /\ ~x.nak /\ x.pkts = 1 /\ x.left = 0 /\ ~x.xfrc /\ x.fe = k.fe
          /\ x.fifo = k.fifo /\ x.offs = k.offs
      BY <3>1 DEF InRec
    <3>4. x.ec = "busy" /\ ~x.fe /\ x.fifo = <<>> /\ x.offs = Len(d)
      BY <2>1, <3>3
    <3> QED BY <2>2, <3>2, <3>3, <3>4 DEF Transfer, Trailing, Moving, Over
  <2>4. CASE ~k.zlp
    <3>1. x = Finished([k EXCEPT !.xfrc = FALSE], "ok")
      BY <2>1, <2>4 DEF InPass, NeedsZlp, Finished, InRec
    <3>2. x = [k EXCEPT !.xfrc = FALSE, !.ec = "ok", !.cb = NoCb]
      BY <3>1 DEF Finished, InRec
    <3>3. /\ x \in InRec /\ x.ec = "ok" /\ ~x.ena /\ ~x.xfrc /\ ~x.fe /\ x.fifo = <<>> /\ x.offs = Len(d)
      BY <2>1, <3>2, Words DEF InRec
    <3> QED BY <2>2, <3>3 DEF Transfer, Ended, InQuiet, Over
  <2> QED BY <2>3, <2>4
<1> QED BY <1>2, <1>3, <1>4 DEF Transfer, Ended, InQuiet, Loaded, Trailing, Cut, Moving

LEMMA QuietPassIn ==
  ASSUME NEW k, InQuiet(k) PROVE InPass(k) = k
BY DEF InQuiet, InPass, NeedsZlp

\* The same while a reset is handled: what was under way is cut off.
ResetIn(k, f) == LET r == IF "rst" \in f THEN InReset(k) ELSE k
                 IN  IF "enum" \in f THEN Finished(r, "reset") ELSE r
LEMMA ResetPass ==
  ASSUME NEW k \in InRec, NEW f, ~k.fe,
         "rst" \notin f => ~k.ena /\ ~k.xfrc /\ k.fifo = <<>>,
         NEW x, x = InPass(ResetIn(k, f))
  PROVE  /\ x \in InRec /\ ~x.ena /\ ~x.fe /\ ~x.xfrc /\ x.fifo = <<>> /\ x.offs = k.offs
         /\ ("enum" \in f => x.ec = "reset") /\ ("enum" \notin f => x.ec = k.ec)
<1> DEFINE r == IF "rst" \in f THEN InReset(k) ELSE k
           z == ResetIn(k, f)
<1>1. r \in InRec /\ ~r.ena /\ ~r.fe /\ ~r.xfrc /\ r.fifo = <<>> /\ r.offs = k.offs /\ r.ec = k.ec
  <2>1. CASE "rst" \in f
    <3>1. r = [k EXCEPT !.fifo = <<>>, !.ena = FALSE, !.xfrc = FALSE]
      BY <2>1 DEF InReset
    <3> HIDE DEF r
    <3> QED BY <3>1, Empties DEF InRec
  <2>2. CASE "rst" \notin f
    BY <2>2
  <2> QED BY <2>1, <2>2
<1>2. z = IF "enum" \in f THEN Finished(r, "reset") ELSE r
  BY DEF ResetIn
<1> HIDE DEF r, z
<1>3. /\ z \in InRec /\ ~z.ena /\ ~z.fe /\ ~z.xfrc /\ z.fifo = <<>> /\ z.offs = k.offs
      /\ ("enum" \in f => z.ec = "reset") /\ ("enum" \notin f => z.ec = k.ec)
  <2>1. CASE "enum" \in f
    <3>1. z = Finished(r, "reset")
      BY <1>2, <2>1
    <3>2. z = [r EXCEPT !.ec = "reset", !.cb = NoCb]
      BY <3>1 DEF Finished
    <3>3. z \in InRec
      BY <1>1, <3>2, Words DEF InRec
    <3>4. z.ena = r.ena /\ z.fe = r.fe /\ z.xfrc = r.xfrc /\ z.fifo = r.fifo /\ z.offs = r.offs /\ z.ec = "reset"
      BY <1>1, <3>2 DEF InRec
    <3> QED BY <1>1, <2>1, <3>3, <3>4
  <2>2. CASE "enum" \notin f
    BY <1>1, <1>2, <2>2
  <2> QED BY <2>1, <2>2
<1>4. x = z
  <2>1. x = InPass(z)
    BY DEF z
  <2> QED BY <1>3, <2>1 DEF InPass, NeedsZlp
<1> QED BY <1>3, <1>4

\* What the handler does to the endpoint, in every phase of the task.
LEMMA HandlerTx ==
  ASSUME NEW v \in VcpRec, NEW w \in VcpRec, NEW b \in VcpBus, b.resets = 0 => ~b.driven /\ b.flags = {},
         NEW c \in VcpBus, c.driven = b.driven, c.flags = {}, c.resets = b.resets,
         NEW got \in Seq(Int), NEW n \in Nat, TxInv(v, b, got, n),
         w.in = InPass(ResetIn(v.in, b.flags)), w.tx = v.tx, w.txbuf = v.txbuf, w.offs = v.offs, w.txq = v.txq
  PROVE  TxInv(w, c, got, n)
<1> DEFINE a == v.txbuf
           k == v.in
           x == w.in
           f == b.flags
<1>1. /\ k \in InRec /\ x \in InRec /\ a \in Seq(Int) /\ Len(a) \in Nat /\ Len(v.txq) \in Nat
      /\ f \subseteq {"rst", "enum"} /\ x = InPass(ResetIn(k, f)) /\ v.tx \in {"get", "start", "wait"}
  BY VcpFields DEF VcpBus
<1>2. Len(a) <= Mps /\ (v.tx = "wait" => Len(a) \in 1 .. Mps)
  BY <1>1, UsbAssumption DEF TxInv, TxPhase
<1>3. Oldest(w, n) = Oldest(v, n) /\ Numbered(w, n)
  BY DEF TxInv, Numbered, Oldest
<1>4. CASE f = {}
  <2>1. ResetIn(k, f) = k
    BY <1>4 DEF ResetIn
  <2>2. CASE v.tx # "wait"
    <3>1. InQuiet(k)
      BY <2>2 DEF TxInv, TxPhase
    <3>2. x = k
      BY <1>1, <2>1, <3>1, QuietPassIn
    <3>3. TxBus(x, c)
      BY <1>4, <3>2 DEF TxInv, TxBus
    <3>4. Known(w, n) = Known(v, n) /\ TxPhase(w)
      BY <3>2 DEF TxInv, Known, TxPhase
    <3> QED BY <1>3, <3>3, <3>4 DEF TxInv
  <2>3. CASE v.tx = "wait"
    <3>1. Transfer(k, a) /\ a # <<>> /\ v.offs = 0 /\ Len(v.txq) <= VcpQueue
      BY <2>3 DEF TxInv, TxPhase
    <3>2. Transfer(x, a) /\ (Over(x) <=> Over(k))
      BY <1>1, <1>2, <2>1, <2>3, <3>1, PassIn
    <3>3. TxBus(x, c)
      <4>1. CASE b.driven
        <5>1. ~k.fe /\ ~k.ena /\ ~k.xfrc /\ k.fifo = <<>>
          BY <1>4, <4>1 DEF TxInv, TxBus
        <5>2. x = k
          BY <1>1, <2>1, <5>1 DEF InPass, NeedsZlp
        <5> QED BY <5>1, <5>2 DEF TxBus
      <4>2. CASE ~b.driven
        BY <4>2 DEF TxBus
      <4> QED BY <4>1, <4>2
    <3>4. Known(w, n) = Known(v, n)
      BY <3>2 DEF Known
    <3>5. TxPhase(w)
      BY <1>2, <2>3, <3>1, <3>2 DEF TxPhase
    <3> QED BY <1>3, <3>3, <3>4, <3>5 DEF TxInv
  <2> QED BY <2>2, <2>3
<1>5. CASE f # {}
  <2>1. ~k.fe /\ ("rst" \notin f => ~k.ena /\ ~k.xfrc /\ k.fifo = <<>>)
    BY <1>5 DEF TxInv, TxBus
  <2>2. /\ x \in InRec /\ ~x.ena /\ ~x.fe /\ ~x.xfrc /\ x.fifo = <<>> /\ x.offs = k.offs
        /\ ("enum" \in f => x.ec = "reset") /\ ("enum" \notin f => x.ec = k.ec)
    <3>1. k \in InRec /\ x = InPass(ResetIn(k, f))
      BY <1>1, <1>5
    <3> HIDE DEF f, x, k
    <3> QED BY <2>1, <3>1, ResetPass
  <2>3. TxBus(x, c)
    BY <2>2 DEF TxBus
  <2>4. b.resets # 0
    BY <1>5
  <2>5. x.ec = "ok" => k.ec = "ok"
    BY <2>2
  <2>6. TxPhase(w)
    <3>1. CASE v.tx # "wait"
      <4>1. InQuiet(k)
        BY <3>1 DEF TxInv, TxPhase
      <4>2. InQuiet(x)
        BY <2>2, <4>1 DEF InQuiet
      <4> QED BY <3>1, <4>2 DEF TxInv, TxPhase
    <3>2. CASE v.tx = "wait"
      <4>1. Transfer(k, a) /\ a # <<>> /\ v.offs = 0 /\ Len(v.txq) <= VcpQueue
        BY <3>2 DEF TxInv, TxPhase
      <4>2. k.ec = "ok" => k.offs = Len(a)
        BY <4>1 DEF Transfer, Ended, Filling, Loaded, Taken, Trailing, Cut, Moving
      <4>3. Cut(x) \/ Ended(x, a)
        BY <2>2, <2>5, <4>2 DEF Cut, Ended, InQuiet
      <4> QED BY <1>2, <3>2, <4>1, <4>3 DEF TxPhase, Transfer
    <3> QED BY <3>1, <3>2
  <2>7. Has(got, Known(w, n))
    <3>1. Over(x) => Over(k)
      BY <2>2, <2>5 DEF Over
    <3> DEFINE lo == n - Len(a) - Len(v.txq)
               hi == n - Len(v.txq)
    <3>2. lo \in Int /\ hi \in Int /\ lo <= hi
      BY <1>1
    <3>3. /\ Known(v, n) = (IF v.tx = "wait" /\ Over(k) THEN hi ELSE lo)
          /\ Known(w, n) = (IF v.tx = "wait" /\ Over(x) THEN hi ELSE lo)
      BY DEF Known
    <3>4. Has(got, Known(v, n))
      BY DEF TxInv
    <3> HIDE DEF lo, hi
    <3>5. Known(w, n) <= Known(v, n) /\ Known(w, n) \in Int /\ Known(v, n) \in Int
      BY <3>1, <3>2, <3>3
    <3> QED BY <3>4, <3>5, HasLess
  <2> QED BY <1>3, <2>3, <2>4, <2>6, <2>7 DEF TxInv
<1> QED BY <1>4, <1>5
-----------------------------------------------------------------------------
\* Towards the application: what has arrived, in the order of its bytes, and
\* behind it what is still in the reception FIFO.
Current(v) == IF v.rx = "put" THEN v.rxbuf ELSE IF v.rx = "wait" THEN v.out.data ELSE <<>>
Arrived(v, got) == (got \o v.rxq) \o Current(v)
Rising(d) == \A i, j \in 1 .. Len(d) : i < j => d[i] < d[j]
AtMost(d, n) == \A i \in 1 .. Len(d) : d[i] <= n
Below(d, e) == \A i \in 1 .. Len(d), j \in 1 .. Len(e) : d[i] < e[j]
InLine(d, q, n) ==
  /\ Rising(d) /\ AtMost(d, n)
  /\ \A k \in 1 .. Len(q) : Rising(q[k].data) /\ AtMost(q[k].data, n) /\ Below(d, q[k].data)
  /\ \A k, l \in 1 .. Len(q) : k < l => Below(q[k].data, q[l].data)

\* Without resets nothing is missing: the phases of a transfer.
OutQuiet(k) == ~k.ena /\ ~k.xfrc
OutOpen(k) == k.ec = "busy" /\ k.room = Mps /\ k.data = <<>> /\ ~k.xfrc
Whole(v, q) == \/ v.rx # "wait" /\ OutQuiet(v.out) /\ q = <<>>
               \/ v.rx = "wait" /\ OutOpen(v.out) /\ v.out.ena /\ q = <<>>
               \/ v.rx = "wait" /\ v.out.ec = "busy" /\ ~v.out.ena /\ v.out.xfrc /\ q = <<>>
               \/ v.rx = "wait" /\ v.out.ec = "busy" /\ OutQuiet(v.out) /\ q = <<DoneEntry>>
               \/ v.rx = "wait" /\ v.out.ec = "ok" /\ OutQuiet(v.out) /\ q = <<>>
Waiting(v, q, p) == v.rx = "wait" /\ OutOpen(v.out) /\ ~v.out.ena /\ q = <<DataEntry(p), DoneEntry>>
RxExact(v, q, d, n) ==
  /\ \A i \in 1 .. Len(d) : d[i] = i
  /\ \/ Len(d) = n /\ Whole(v, q)
     \/ \E p \in Seq(Int) : /\ Waiting(v, q, p) /\ Len(p) <= Mps /\ Len(d) + Len(p) = n
                            /\ \A i \in 1 .. Len(p) : p[i] = Len(d) + i
RxInv(v, q, b, got, n) ==
  /\ Len(v.rxq) <= VcpQueue /\ Len(v.out.data) <= v.out.room
  /\ v.rx # "wait" => v.out.ec # "busy"
  /\ v.out.ena => v.out.pkts = 1
  /\ InLine(Arrived(v, got), q, n)
  /\ b.resets = 0 => RxExact(v, q, Arrived(v, got), n)

LEMMA RxSame ==
  ASSUME NEW v, NEW w, w.out = v.out, w.rx = v.rx, w.rxbuf = v.rxbuf, w.rxq = v.rxq,
         NEW q, NEW b, NEW got, NEW n, RxInv(v, q, b, got, n)
  PROVE  RxInv(w, q, b, got, n)
<1>1. Arrived(w, got) = Arrived(v, got)
  BY DEF Arrived, Current
<1>2. \A d : RxExact(v, q, d, n) => RxExact(w, q, d, n)
  BY DEF RxExact, Whole, Waiting
<1> QED BY <1>1, <1>2 DEF RxInv

LEMMA ArrivedTyped ==
  ASSUME NEW v \in VcpRec, NEW got \in Seq(Int)
  PROVE  Current(v) \in Seq(Int) /\ got \o v.rxq \in Seq(Int) /\ Arrived(v, got) \in Seq(Int)
<1>1. v.rxbuf \in Seq(Int) /\ v.rxq \in Seq(Int) /\ v.out.data \in Seq(Int)
  BY VcpFields DEF VOutRec
<1>2. Current(v) \in Seq(Int)
  BY <1>1, Empties DEF Current
<1>3. got \o v.rxq \in Seq(Int)
  BY <1>1, Join
<1> QED BY <1>2, <1>3, Join DEF Arrived

\* A reset may take away the end of what arrived.
LEMMA LineShorter ==
  ASSUME NEW d \in Seq(Int), NEW e \in Seq(Int), NEW q, NEW n, InLine(d \o e, q, n)
  PROVE  InLine(d, q, n)
<1> DEFINE j == d \o e
<1>1. /\ Len(d) \in Nat /\ Len(e) \in Nat /\ Len(j) = Len(d) + Len(e) /\ \A i \in 1 .. Len(d) : j[i] = d[i]
  BY LenProperties, Join
<1>2. \A i \in 1 .. Len(d) : i \in 1 .. Len(j) /\ j[i] = d[i]
  BY <1>1
<1> HIDE DEF j
<1>3. Rising(j) /\ AtMost(j, n)
  BY DEF InLine, j
<1>4. Rising(d) /\ AtMost(d, n)
  BY <1>2, <1>3 DEF Rising, AtMost
<1>5. \A x : Below(j, x) => Below(d, x)
  BY <1>2 DEF Below
<1> QED BY <1>4, <1>5 DEF InLine, j

LEMMA LineFlushed == ASSUME NEW d, NEW q, NEW n, InLine(d, q, n) PROVE InLine(d, <<>>, n)
BY DEF InLine

\* Taking the first m bytes of the entry at the front.
LEMMA LinePop ==
  ASSUME NEW d \in Seq(Int), NEW q \in Seq(VcpEntry), q # <<>>, NEW n, InLine(d, q, n),
         NEW m \in 0 .. Len(Head(q).data)
  PROVE  InLine(d \o SubSeq(Head(q).data, 1, m), Tail(q), n)
<1> DEFINE e == Head(q).data
           p == SubSeq(e, 1, m)
           j == d \o p
           t == Tail(q)
<1>1. Head(q) \in VcpEntry /\ e \in Seq(Int) /\ Len(d) \in Nat /\ Len(e) \in Nat /\ m \in Nat /\ m <= Len(e)
  <2>1. Head(q) \in VcpEntry
    BY HeadTailProperties
  <2>2. e \in Seq(Int)
    BY <2>1 DEF VcpEntry
  <2> HIDE DEF e
  <2>3. Len(e) \in Nat /\ Len(d) \in Nat
    BY <2>2, LenProperties
  <2>4. m \in 0 .. Len(e)
    BY DEF e
  <2> QED BY <2>1, <2>2, <2>3, <2>4
<1>2. p \in Seq(Int) /\ Len(p) = m /\ \A i \in 1 .. m : p[i] = e[i]
  BY <1>1, Split
<1>3. \A i \in 1 .. Len(p) : i \in 1 .. Len(e) /\ p[i] = e[i]
  BY <1>1, <1>2
<1>4. /\ Len(q) \in Nat /\ Len(q) > 0 /\ q[1] = Head(q) /\ Len(t) = Len(q) - 1
      /\ \A k \in 1 .. Len(t) : t[k] = q[k + 1] /\ k + 1 \in 2 .. Len(q)
  BY LenProperties, HeadTailProperties, EmptySeq
<1>5. /\ Len(j) = Len(d) + Len(p) /\ \A i \in 1 .. Len(d) : j[i] = d[i]
      /\ \A i \in Len(d) + 1 .. Len(d) + Len(p) : j[i] = p[i - Len(d)]
  <2> HIDE DEF p
  <2> QED BY <1>2, Join
<1>6. Rising(e) /\ AtMost(e, n) /\ Below(d, e) /\ Rising(d) /\ AtMost(d, n)
  BY <1>4 DEF InLine
<1>7. \A k \in 2 .. Len(q) : Below(e, q[k].data) /\ Rising(q[k].data) /\ AtMost(q[k].data, n) /\ Below(d, q[k].data)
  BY <1>4 DEF InLine
<1> HIDE DEF p, j, e, t
<1>8. ASSUME NEW i \in 1 .. Len(j)
      PROVE  \/ i \in 1 .. Len(d) /\ j[i] = d[i]
             \/ i > Len(d) /\ i - Len(d) \in 1 .. Len(e) /\ j[i] = e[i - Len(d)]
  <2>1. CASE i <= Len(d)
    BY <1>1, <1>5, <2>1
  <2>2. CASE i > Len(d)
    <3>1. i \in Len(d) + 1 .. Len(d) + Len(p) /\ i - Len(d) \in 1 .. Len(p)
      BY <1>1, <1>2, <1>5, <2>2
    <3> QED BY <1>3, <1>5, <2>2, <3>1
  <2> QED BY <1>1, <2>1, <2>2
<1>9. Rising(j)
  <2> SUFFICES ASSUME NEW i \in 1 .. Len(j), NEW k \in 1 .. Len(j), i < k PROVE j[i] < j[k]
    BY DEF Rising
  <2>1. CASE k <= Len(d)
    <3>1. i \in 1 .. Len(d) /\ k \in 1 .. Len(d)
      BY <1>1, <2>1
    <3> QED BY <1>5, <1>6, <3>1 DEF Rising
  <2>2. CASE k > Len(d) /\ i <= Len(d)
    <3>1. i \in 1 .. Len(d) /\ j[i] = d[i] /\ k - Len(d) \in 1 .. Len(e) /\ j[k] = e[k - Len(d)]
      BY <1>1, <1>8, <2>2
    <3> QED BY <1>6, <3>1 DEF Below
  <2>3. CASE i > Len(d)
    <3>1. /\ i - Len(d) \in 1 .. Len(e) /\ j[i] = e[i - Len(d)]
          /\ k - Len(d) \in 1 .. Len(e) /\ j[k] = e[k - Len(d)] /\ i - Len(d) < k - Len(d)
      <4>1. i \notin 1 .. Len(d) /\ k \notin 1 .. Len(d) /\ i - Len(d) < k - Len(d)
        BY <1>1, <2>3
      <4> QED BY <1>8, <4>1
    <3> QED BY <1>6, <3>1 DEF Rising
  <2> QED BY <1>1, <2>1, <2>2, <2>3
<1>10. AtMost(j, n)
  BY <1>6, <1>8 DEF AtMost
<1>11. \A x : Below(d, x) /\ Below(e, x) => Below(j, x)
  BY <1>8 DEF Below
<1>12. \A k \in 1 .. Len(t) : Rising(t[k].data) /\ AtMost(t[k].data, n) /\ Below(j, t[k].data)
  BY <1>4, <1>7, <1>11
<1>13. ASSUME NEW k \in 1 .. Len(t), NEW l \in 1 .. Len(t), k < l PROVE Below(t[k].data, t[l].data)
  <2>1. k + 1 \in 1 .. Len(q) /\ l + 1 \in 1 .. Len(q) /\ k + 1 < l + 1
    <3>1. Len(t) \in Nat /\ k \in Int /\ l \in Int
      BY <1>4
    <3> QED BY <1>4, <1>13, <3>1
  <2> QED BY <1>4, <2>1 DEF InLine
<1>14. InLine(j, t, n)
  BY <1>9, <1>10, <1>12, <1>13 DEF InLine
<1> QED BY <1>14 DEF j, p, e, t

\* The host sends the next bytes.
LEMMA LineAdd ==
  ASSUME NEW d \in Seq(Int), NEW q \in Seq(VcpEntry), NEW n \in Nat, InLine(d, q, n),
         NEW m \in Nat, NEW p \in Seq(Int), Len(p) = m, \A i \in 1 .. m : p[i] = n + i
  PROVE  /\ q \o <<DataEntry(p), DoneEntry>> \in Seq(VcpEntry)
         /\ InLine(d, q \o <<DataEntry(p), DoneEntry>>, n + m)
<1> DEFINE t == <<DataEntry(p), DoneEntry>>
           r == q \o t
           l == Len(q)
<1>1. l \in Nat /\ \A k \in 1 .. l : q[k] \in VcpEntry /\ q[k].data \in Seq(Int) /\ Len(q[k].data) \in Nat
  <2>1. \A k \in 1 .. Len(q) : q[k] \in VcpEntry
    BY ElementOfSeq
  <2>2. \A x \in VcpEntry : x.data \in Seq(Int) /\ Len(x.data) \in Nat
    BY LenProperties DEF VcpEntry
  <2> QED BY <2>1, <2>2, LenProperties
<1>2. /\ DataEntry(p) \in VcpEntry /\ DoneEntry \in VcpEntry /\ DataEntry(p).data = p /\ DoneEntry.data = <<>>
  BY Empties DEF DataEntry, DoneEntry, RxEntry, VcpEntry
<1>3. t \in Seq(VcpEntry) /\ Len(t) = 2 /\ t[1] = DataEntry(p) /\ t[2] = DoneEntry
  BY <1>2
<1>4. /\ r \in Seq(VcpEntry) /\ Len(r) = l + 2
      /\ \A i \in 1 .. l + 2 : r[i] = IF i <= l THEN q[i] ELSE t[i - l]
  <2>1. /\ r \in Seq(VcpEntry) /\ Len(r) = Len(q) + Len(t)
        /\ \A i \in 1 .. Len(q) + Len(t) : r[i] = IF i <= Len(q) THEN q[i] ELSE t[i - Len(q)]
    <3> HIDE DEF t
    <3> QED BY <1>3, ConcatProperties
  <2> HIDE DEF t, r
  <2> QED BY <1>3, <2>1
<1>5. (\A k \in 1 .. l : r[k] = q[k]) /\ r[l + 1].data = p /\ r[l + 2].data = <<>>
  <2>1. l + 1 \in 1 .. l + 2 /\ l + 2 \in 1 .. l + 2 /\ (l + 1) - l = 1 /\ (l + 2) - l = 2 /\ ~(l + 1 <= l) /\ ~(l + 2 <= l)
    BY <1>1
  <2> HIDE DEF l, r, t
  <2> QED BY <1>1, <1>2, <1>3, <1>4, <2>1
<1> HIDE DEF r, t, l
<1>6. \A k \in 1 .. l + 2 : k \in 1 .. l \/ k = l + 1 \/ k = l + 2
  BY <1>1
<1>7. \A x \in Seq(Int) : AtMost(x, n) => AtMost(x, n + m) /\ Below(x, p) /\ Below(x, <<>>)
  <2> SUFFICES ASSUME NEW x \in Seq(Int), AtMost(x, n) PROVE AtMost(x, n + m) /\ Below(x, p) /\ Below(x, <<>>)
    OBVIOUS
  <2>1. \A i \in 1 .. Len(x) : x[i] \in Int /\ x[i] <= n
    BY ElementOfSeq DEF AtMost
  <2>2. \A i \in 1 .. Len(x) : x[i] <= n + m /\ \A j \in 1 .. m : x[i] < p[j]
    BY <2>1
  <2>3. \A j \in 1 .. Len(<<>>) : FALSE
    OBVIOUS
  <2>4. AtMost(x, n + m)
    BY <2>2 DEF AtMost
  <2>5. Below(x, p)
    BY <2>2 DEF Below
  <2>6. Below(x, <<>>)
    BY <2>3 DEF Below
  <2> QED BY <2>4, <2>5, <2>6
<1>8. Rising(p) /\ AtMost(p, n + m) /\ Below(p, <<>>) /\ Rising(<<>>) /\ AtMost(<<>>, n + m)
  BY DEF Rising, AtMost, Below
<1>9. /\ Rising(d) /\ AtMost(d, n)
      /\ \A k \in 1 .. l : Rising(q[k].data) /\ AtMost(q[k].data, n) /\ Below(d, q[k].data)
      /\ \A k, i \in 1 .. l : k < i => Below(q[k].data, q[i].data)
  BY DEF InLine, l
<1>10. ASSUME NEW k \in 1 .. l + 2 PROVE Rising(r[k].data) /\ AtMost(r[k].data, n + m) /\ Below(d, r[k].data)
  BY <1>1, <1>5, <1>6, <1>7, <1>8, <1>9
<1>11. ASSUME NEW k \in 1 .. l + 2, NEW i \in 1 .. l + 2, k < i PROVE Below(r[k].data, r[i].data)
  <2>1. CASE i \in 1 .. l
    <3>1. k \in 1 .. l
      BY <1>1, <2>1, <1>11
    <3> QED BY <1>5, <1>9, <1>11, <2>1, <3>1
  <2>2. CASE k \in 1 .. l /\ i \notin 1 .. l
    BY <1>1, <1>5, <1>6, <1>7, <1>9, <2>2
  <2>3. CASE k \notin 1 .. l
    <3>1. k = l + 1 /\ i = l + 2
      BY <1>1, <1>6, <1>11, <2>3
    <3> QED BY <1>5, <1>8, <3>1
  <2> QED BY <1>1, <1>6, <1>11, <2>1, <2>2, <2>3
<1>12. InLine(d, r, n + m)
  BY <1>4, <1>7, <1>9, <1>10, <1>11 DEF InLine
<1> QED BY <1>4, <1>12 DEF r, t
-----------------------------------------------------------------------------
LEMMA OutFields ==
  ASSUME NEW k \in VOutRec
  PROVE  /\ k.ec \in Errors /\ k.room \in Nat /\ k.data \in Seq(Int) /\ k.pkts \in Nat /\ Len(k.data) \in Nat
         /\ k.ena \in BOOLEAN /\ k.xfrc \in BOOLEAN
BY LenProperties DEF VOutRec

\* USBVCP_RxTask starts a transfer.
LEMMA RxStartGood ==
  ASSUME VcpTypes(vcp, vrxf, vbus, vhost, vapp), RxInv(vcp, vrxf, vbus, vapp.got, vhost.sent), RxTaskStart
  PROVE  /\ vcp' \in VcpRec /\ RxInv(vcp', vrxf, vbus, vapp.got, vhost.sent)
         /\ vcp'.in = vcp.in /\ vcp'.tx = vcp.tx /\ vcp'.txbuf = vcp.txbuf /\ vcp'.offs = vcp.offs /\ vcp'.txq = vcp.txq
<1> DEFINE k == vcp.out
           x == StartOUT(k, Mps, NoCb)
<1>1. vcp \in VcpRec /\ k \in VOutRec /\ Mps \in Nat
  BY VcpFields, UsbAssumption DEF VcpTypes
<1>2. vcp.rx = "start" /\ k.ec # "busy"
  BY DEF RxInv, RxTaskStart
<1>3. PktCnt(Mps) = 1 /\ 1 \in Nat
  BY <1>1, OnePacket
<1>4. x = [k EXCEPT !.ec = "busy", !.room = Mps, !.data = <<>>, !.cb = NoCb, !.pkts = 1, !.ena = TRUE]
  BY <1>2, <1>3 DEF StartOUT
<1>5. vcp' = [vcp EXCEPT !.rx = "wait", !.out = x]
  BY DEF RxTaskStart
<1> HIDE DEF x
<1>6. /\ x \in VOutRec /\ x.ec = "busy" /\ x.room = Mps /\ x.data = <<>> /\ x.pkts = 1 /\ x.ena /\ x.xfrc = k.xfrc
  BY <1>1, <1>3, <1>4, Words, Empties DEF VOutRec
<1>7. /\ vcp' \in VcpRec /\ vcp'.rx = "wait" /\ vcp'.out = x /\ vcp'.rxbuf = vcp.rxbuf /\ vcp'.rxq = vcp.rxq
      /\ vcp'.in = vcp.in /\ vcp'.tx = vcp.tx /\ vcp'.txbuf = vcp.txbuf /\ vcp'.offs = vcp.offs /\ vcp'.txq = vcp.txq
  BY <1>1, <1>5, <1>6 DEF VcpRec
<1>8. Arrived(vcp', vapp.got) = Arrived(vcp, vapp.got)
  BY <1>2, <1>6, <1>7 DEF Arrived, Current
<1>9. ASSUME NEW d, RxExact(vcp, vrxf, d, vhost.sent) PROVE RxExact(vcp', vrxf, d, vhost.sent)
  <2>1. Whole(vcp, vrxf) /\ Len(d) = vhost.sent /\ \A i \in 1 .. Len(d) : d[i] = i
    BY <1>2, <1>9 DEF RxExact, Waiting
  <2>2. OutQuiet(k) /\ vrxf = <<>>
    BY <1>2, <2>1 DEF Whole
  <2>3. Whole(vcp', vrxf)
    BY <1>6, <1>7, <2>2 DEF Whole, OutQuiet, OutOpen
  <2> QED BY <2>1, <2>3 DEF RxExact
<1>10. Len(vcp'.out.data) <= vcp'.out.room
  BY <1>1, <1>6, <1>7, Empties
<1> QED BY <1>6, <1>7, <1>8, <1>9, <1>10 DEF RxInv

\* The end of a transfer: with success what arrived is kept, otherwise lost.
LEMMA RxWaitGood ==
  ASSUME VcpTypes(vcp, vrxf, vbus, vhost, vapp), RxInv(vcp, vrxf, vbus, vapp.got, vhost.sent), RxTaskWait
  PROVE  /\ vcp' \in VcpRec /\ RxInv(vcp', vrxf, vbus, vapp.got, vhost.sent)
         /\ vcp'.in = vcp.in /\ vcp'.tx = vcp.tx /\ vcp'.txbuf = vcp.txbuf /\ vcp'.offs = vcp.offs /\ vcp'.txq = vcp.txq
<1> DEFINE k == vcp.out
           rx == IF k.ec = "ok" /\ k.data # <<>> THEN "put" ELSE "start"
           buf == IF k.ec = "ok" THEN k.data ELSE <<>>
           g == vapp.got
<1>1. vcp \in VcpRec /\ k \in VOutRec /\ g \in Seq(Int) /\ k.data \in Seq(Int)
  BY VcpFields, OutFields DEF VcpTypes, VcpEnd
<1>2. vcp.rx = "wait" /\ k.ec # "busy" /\ vcp' = [vcp EXCEPT !.rx = rx, !.rxbuf = buf]
  BY DEF RxTaskWait
<1>3. rx \in {"put", "start"} /\ rx \in {"start", "wait", "put"} /\ buf \in Seq(Int)
  BY <1>1, Empties
<1>4. /\ k.ec = "ok" => (IF rx = "put" THEN buf ELSE <<>>) = k.data
      /\ k.ec # "ok" => rx = "start"
  OBVIOUS
<1> HIDE DEF rx, buf
<1>5. /\ vcp' \in VcpRec /\ vcp'.rx = rx /\ vcp'.out = k /\ vcp'.rxbuf = buf /\ vcp'.rxq = vcp.rxq
      /\ vcp'.in = vcp.in /\ vcp'.tx = vcp.tx /\ vcp'.txbuf = vcp.txbuf /\ vcp'.offs = vcp.offs /\ vcp'.txq = vcp.txq
  BY <1>1, <1>2, <1>3 DEF VcpRec
<1>6. /\ Len(vcp'.rxq) <= VcpQueue /\ Len(vcp'.out.data) <= vcp'.out.room /\ vcp'.out.ec # "busy"
      /\ (vcp'.out.ena => vcp'.out.pkts = 1)
  BY <1>2, <1>5 DEF RxInv
<1>7. Current(vcp) = k.data
  BY <1>2 DEF Current
<1>8. CASE k.ec = "ok"
  <2>1. Current(vcp') = k.data
    BY <1>3, <1>4, <1>5, <1>8 DEF Current
  <2>2. Arrived(vcp', g) = Arrived(vcp, g)
    BY <1>5, <1>7, <2>1 DEF Arrived
  <2>3. ASSUME NEW d, RxExact(vcp, vrxf, d, vhost.sent) PROVE RxExact(vcp', vrxf, d, vhost.sent)
    <3>1. ~OutOpen(k)
      BY <1>8 DEF OutOpen
    <3>2. Whole(vcp, vrxf) /\ Len(d) = vhost.sent /\ \A i \in 1 .. Len(d) : d[i] = i
      BY <2>3, <3>1 DEF RxExact, Waiting
    <3>3. OutQuiet(k) /\ vrxf = <<>>
      BY <1>2, <1>8, <3>1, <3>2 DEF Whole
    <3>4. Whole(vcp', vrxf)
      BY <1>3, <1>5, <3>3 DEF Whole
    <3> QED BY <3>2, <3>4 DEF RxExact
  <2> QED BY <1>5, <1>6, <2>2, <2>3 DEF RxInv
<1>9. CASE k.ec # "ok"
  <2>1. ~RxExact(vcp, vrxf, Arrived(vcp, g), vhost.sent)
    BY <1>2, <1>9 DEF RxExact, Whole, Waiting, OutOpen
  <2>2. vbus.resets # 0
    BY <2>1 DEF RxInv
  <2>3. Current(vcp') = <<>> /\ g \o vcp.rxq \in Seq(Int)
    BY <1>1, <1>4, <1>5, <1>9, ArrivedTyped DEF Current
  <2>4. Arrived(vcp', g) = g \o vcp.rxq
    BY <1>5, <2>3, ConcatEmptySeq DEF Arrived
  <2>5. InLine((g \o vcp.rxq) \o k.data, vrxf, vhost.sent)
    BY <1>7 DEF RxInv, Arrived
  <2>6. InLine(Arrived(vcp', g), vrxf, vhost.sent)
    BY <1>1, <2>3, <2>4, <2>5, LineShorter
  <2> QED BY <1>5, <1>6, <2>2, <2>6 DEF RxInv
<1> QED BY <1>8, <1>9

\* Queue_PutWait: as much as fits.
LEMMA RxPutGood ==
  ASSUME VcpTypes(vcp, vrxf, vbus, vhost, vapp), RxInv(vcp, vrxf, vbus, vapp.got, vhost.sent), RxTaskPut
  PROVE  /\ vcp' \in VcpRec /\ RxInv(vcp', vrxf, vbus, vapp.got, vhost.sent)
         /\ vcp'.in = vcp.in /\ vcp'.tx = vcp.tx /\ vcp'.txbuf = vcp.txbuf /\ vcp'.offs = vcp.offs /\ vcp'.txq = vcp.txq
<1> DEFINE k == vcp.out
           r == vcp.rxbuf
           q == vcp.rxq
           lr == Len(r)
           lq == Len(q)
           n == Least(VcpQueue - lq, lr)
           a == SubSeq(r, 1, n)
           c == SubSeq(r, n + 1, lr)
           rx == IF n = lr THEN "start" ELSE "put"
           g == vapp.got
<1>1. vcp \in VcpRec /\ r \in Seq(Int) /\ q \in Seq(Int) /\ g \in Seq(Int) /\ lr \in Nat /\ lq \in Nat /\ VcpQueue \in Nat
  BY VcpFields, VcpAssumption DEF VcpTypes, VcpEnd
<1>2. vcp.rx = "put" /\ vcp' = [vcp EXCEPT !.rxq = q \o a, !.rxbuf = c, !.rx = rx] /\ lq <= VcpQueue
  BY DEF RxTaskPut, RxInv
<1>3. n \in 0 .. lr /\ n <= VcpQueue - lq
  <2> HIDE DEF lr, lq
  <2> QED BY <1>1, <1>2 DEF Least
<1>4. a \in Seq(Int) /\ Len(a) = n /\ c \in Seq(Int) /\ Len(c) = lr - n /\ a \o c = r
  <2> HIDE DEF n
  <2> QED BY <1>1, <1>3, Split
<1>5. rx \in {"put", "start"} /\ rx \in {"start", "wait", "put"} /\ (rx = "start" => c = <<>>)
  <2>1. Len(c) = 0 => c = <<>>
    BY <1>4, EmptySeq
  <2> HIDE DEF c, n, lr
  <2> QED BY <1>1, <1>3, <1>4, <2>1
<1> HIDE DEF rx, a, c, n, lr, lq
<1>6. q \o a \in Seq(Int) /\ Len(q \o a) = lq + n
  BY <1>1, <1>4, Join DEF lq
<1>7. /\ vcp' \in VcpRec /\ vcp'.rx = rx /\ vcp'.out = k /\ vcp'.rxbuf = c /\ vcp'.rxq = q \o a
      /\ vcp'.in = vcp.in /\ vcp'.tx = vcp.tx /\ vcp'.txbuf = vcp.txbuf /\ vcp'.offs = vcp.offs /\ vcp'.txq = vcp.txq
  BY <1>1, <1>2, <1>4, <1>5, <1>6 DEF VcpRec
<1>8. Len(vcp'.rxq) <= VcpQueue
  BY <1>1, <1>3, <1>6, <1>7
<1>9. Current(vcp') = c /\ Current(vcp) = r
  BY <1>2, <1>5, <1>7 DEF Current
<1>10. Arrived(vcp', g) = Arrived(vcp, g)
  <2>1. g \o (q \o a) = (g \o q) \o a /\ g \o q \in Seq(Int)
    <3>1. (g \o q) \o a = g \o (q \o a)
      BY <1>1, <1>4, JoinThree
    <3>2. g \o q \in Seq(Int)
      BY <1>1, Join
    <3> QED BY <3>1, <3>2
  <2>2. ((g \o q) \o a) \o c = (g \o q) \o (a \o c)
    BY <1>4, <2>1, JoinThree
  <2> QED BY <1>4, <1>7, <1>9, <2>1, <2>2 DEF Arrived
<1>11. ASSUME NEW d, RxExact(vcp, vrxf, d, vhost.sent) PROVE RxExact(vcp', vrxf, d, vhost.sent)
  <2>1. Whole(vcp, vrxf) /\ Len(d) = vhost.sent /\ \A i \in 1 .. Len(d) : d[i] = i
    BY <1>2, <1>11 DEF RxExact, Waiting
  <2>2. Whole(vcp', vrxf)
    BY <1>2, <1>5, <1>7, <2>1 DEF Whole
  <2> QED BY <2>1, <2>2 DEF RxExact
<1>12. vcp'.out.ec # "busy" /\ Len(vcp'.out.data) <= vcp'.out.room /\ (vcp'.out.ena => vcp'.out.pkts = 1)
  BY <1>2, <1>7 DEF RxInv
<1> QED BY <1>7, <1>8, <1>10, <1>11, <1>12 DEF RxInv

\* USBVCP_Recv takes the first n bytes of the queue.
LEMMA RecvGood ==
  ASSUME VcpTypes(vcp, vrxf, vbus, vhost, vapp), RxInv(vcp, vrxf, vbus, vapp.got, vhost.sent), VcpRecv
  PROVE  /\ vcp' \in VcpRec /\ vapp' \in VcpEnd /\ RxInv(vcp', vrxf, vbus, vapp'.got, vhost.sent)
         /\ vcp'.in = vcp.in /\ vcp'.tx = vcp.tx /\ vcp'.txbuf = vcp.txbuf /\ vcp'.offs = vcp.offs /\ vcp'.txq = vcp.txq
         /\ vapp'.sent = vapp.sent
<1> DEFINE q == vcp.rxq
           g == vapp.got
<1>1. vcp \in VcpRec /\ q \in Seq(Int) /\ g \in Seq(Int) /\ Len(q) \in Nat /\ VcpQueue \in Nat /\ vapp \in VcpEnd
  BY VcpFields, VcpAssumption DEF VcpTypes, VcpEnd
<1>2. PICK n \in 1 .. Len(q) : /\ vcp' = [vcp EXCEPT !.rxq = SubSeq(q, n + 1, Len(q))]
                               /\ vapp' = [vapp EXCEPT !.got = g \o SubSeq(q, 1, n)]
  BY DEF VcpRecv
<1> DEFINE a == SubSeq(q, 1, n)
           c == SubSeq(q, n + 1, Len(q))
<1>3. n \in 0 .. Len(q)
  BY <1>1, <1>2
<1>4. a \in Seq(Int) /\ c \in Seq(Int) /\ Len(c) = Len(q) - n /\ a \o c = q
  BY <1>1, <1>3, Split
<1> HIDE DEF a, c
<1>5. /\ vcp' \in VcpRec /\ vcp'.rx = vcp.rx /\ vcp'.out = vcp.out /\ vcp'.rxbuf = vcp.rxbuf /\ vcp'.rxq = c
      /\ vcp'.in = vcp.in /\ vcp'.tx = vcp.tx /\ vcp'.txbuf = vcp.txbuf /\ vcp'.offs = vcp.offs /\ vcp'.txq = vcp.txq
  <2>1. vcp' = [vcp EXCEPT !.rxq = c]
    BY <1>2 DEF c
  <2> QED BY <1>1, <1>4, <2>1 DEF VcpRec
<1>6. vapp' \in VcpEnd /\ vapp'.got = g \o a /\ vapp'.sent = vapp.sent
  <2>1. vapp' = [vapp EXCEPT !.got = g \o a] /\ g \o a \in Seq(Int)
    BY <1>1, <1>2, <1>4, Join DEF a
  <2> QED BY <1>1, <2>1 DEF VcpEnd
<1>7. (g \o a) \o c = g \o q
  <2>1. (g \o a) \o c = g \o (a \o c)
    BY <1>1, <1>4, JoinThree
  <2> QED BY <1>4, <2>1
<1>8. Arrived(vcp', vapp'.got) = Arrived(vcp, g)
  BY <1>5, <1>6, <1>7 DEF Arrived, Current
<1>9. \A d : RxExact(vcp, vrxf, d, vhost.sent) => RxExact(vcp', vrxf, d, vhost.sent)
  BY <1>5 DEF RxExact, Whole, Waiting
<1>10. Len(vcp'.rxq) <= VcpQueue
  <2>1. Len(q) <= VcpQueue
    BY DEF RxInv
  <2> QED BY <1>1, <1>3, <1>4, <1>5, <2>1
<1> QED BY <1>5, <1>6, <1>8, <1>9, <1>10 DEF RxInv
-----------------------------------------------------------------------------
\* The pass of USB_HandlerTask over the OUT endpoint, before it looks at the
\* reception FIFO.
ResetOut(k, f) == LET r == IF "rst" \in f THEN OutReset(k) ELSE k
                  IN  IF "enum" \in f THEN Finished(r, "reset") ELSE r
LEMMA PassOut ==
  ASSUME NEW k \in VOutRec, NEW f, NEW x, x = OutPass(ResetOut(k, f))
  PROVE  /\ x \in VOutRec /\ x.data = k.data /\ x.room = k.room /\ x.pkts = k.pkts
         /\ (x.ec = "busy" => k.ec = "busy") /\ (x.ena => k.ena)
         /\ f = {} /\ ~k.xfrc => x = k
         /\ f = {} /\ k.xfrc => x.ec = "ok" /\ ~x.xfrc /\ (x.ena <=> k.ena)
<1> DEFINE r == IF "rst" \in f THEN OutReset(k) ELSE k
           z == ResetOut(k, f)
<1>1. r \in VOutRec /\ r.data = k.data /\ r.room = k.room /\ r.pkts = k.pkts /\ r.ec = k.ec /\ (r.ena => k.ena)
  <2>1. CASE "rst" \in f
    <3>1. r = [k EXCEPT !.ena = FALSE, !.xfrc = FALSE, !.stup = FALSE]
      BY <2>1 DEF OutReset
    <3> HIDE DEF r
    <3> QED BY <3>1 DEF VOutRec
  <2>2. CASE "rst" \notin f
    BY <2>2
  <2> QED BY <2>1, <2>2
<1>2. z = IF "enum" \in f THEN Finished(r, "reset") ELSE r
  BY DEF ResetOut
<1>3. f = {} => z = k
  BY DEF ResetOut
<1> HIDE DEF r, z
<1>4. /\ z \in VOutRec /\ z.data = k.data /\ z.room = k.room /\ z.pkts = k.pkts
      /\ (z.ec = "busy" => k.ec = "busy") /\ (z.ena => k.ena)
  <2>1. CASE "enum" \in f
    <3>1. z = [r EXCEPT !.ec = "reset", !.cb = NoCb]
      BY <1>2, <2>1 DEF Finished
    <3> QED BY <1>1, <3>1, Words DEF VOutRec
  <2>2. CASE "enum" \notin f
    BY <1>1, <1>2, <2>2
  <2> QED BY <2>1, <2>2
<1>5. x = OutPass(z)
  BY DEF z
<1>6. CASE ~z.xfrc
  <2>1. x = z
    BY <1>5, <1>6 DEF OutPass
  <2> QED BY <1>3, <1>4, <1>6, <2>1
<1>7. CASE z.xfrc
  <2>1. x = [z EXCEPT !.xfrc = FALSE, !.ec = "ok", !.cb = NoCb]
    BY <1>4, <1>5, <1>7 DEF OutPass, Finished, VOutRec
  <2>2. x \in VOutRec /\ x.data = z.data /\ x.room = z.room /\ x.pkts = z.pkts /\ x.ec = "ok" /\ ~x.xfrc /\ (x.ena <=> z.ena)
    BY <1>4, <2>1, Words DEF VOutRec
  <2> QED BY <1>3, <1>4, <1>7, <2>2
<1> QED BY <1>6, <1>7

\* Popping an entry takes a beginning of its data, nothing when no transfer is
\* in progress.
LEMMA PopOut ==
  ASSUME NEW k \in VOutRec, Len(k.data) <= k.room, NEW e \in VcpEntry, NEW y, y = RxPop(k, e)
  PROVE  /\ y \in VOutRec /\ y.ec = k.ec /\ y.room = k.room /\ y.pkts = k.pkts /\ y.ena = k.ena
         /\ Len(y.data) <= y.room
         /\ \E m \in 0 .. Len(e.data) : y.data = k.data \o SubSeq(e.data, 1, m) /\ (k.ec # "busy" => m = 0)
<1>1. /\ k.data \in Seq(Int) /\ Len(k.data) \in Nat /\ k.room \in Nat /\ e.data \in Seq(Int)
      /\ Len(e.data) \in Nat /\ e.kind \in {"data", "done"}
  BY OutFields, LenProperties DEF VcpEntry
<1>2. CASE e.kind = "data"
  <2> DEFINE room == IF k.ec = "busy" THEN k.room - Len(k.data) ELSE 0
             le == Len(e.data)
             m == Least(room, le)
             p == SubSeq(e.data, 1, m)
             d == k.data \o p
  <2>1. room \in Nat /\ room <= k.room - Len(k.data) /\ (k.ec # "busy" => room = 0)
    BY <1>1
  <2> HIDE DEF room
  <2>2. m \in 0 .. le /\ m <= room /\ le \in Nat
    BY <1>1, <2>1 DEF Least
  <2> HIDE DEF m
  <2>3. p \in Seq(Int) /\ Len(p) = m
    BY <1>1, <2>2, Split
  <2>4. ReadPacket(k, e.data) = p
    BY DEF ReadPacket, room, m
  <2> HIDE DEF p
  <2>5. d \in Seq(Int) /\ Len(d) = Len(k.data) + m
    BY <1>1, <2>3, Join
  <2>6. y = [k EXCEPT !.data = d]
    BY <1>2, <2>4 DEF RxPop
  <2> HIDE DEF d, le
  <2>7. y \in VOutRec /\ y.data = d /\ y.ec = k.ec /\ y.room = k.room /\ y.pkts = k.pkts /\ y.ena = k.ena
    BY <2>5, <2>6 DEF VOutRec
  <2>8. Len(y.data) <= y.room
    BY <1>1, <2>1, <2>2, <2>5, <2>7
  <2>9. m \in 0 .. Len(e.data) /\ d = k.data \o SubSeq(e.data, 1, m) /\ (k.ec # "busy" => m = 0)
    BY <2>1, <2>2 DEF d, p, le
  <2> QED BY <2>7, <2>8, <2>9
<1>3. CASE e.kind = "done"
  <2>1. y = [k EXCEPT !.xfrc = TRUE]
    BY <1>3 DEF RxPop
  <2>2. y \in VOutRec /\ y.data = k.data /\ y.ec = k.ec /\ y.room = k.room /\ y.pkts = k.pkts /\ y.ena = k.ena
    BY <2>1 DEF VOutRec
  <2>3. 0 \in 0 .. Len(e.data) /\ k.data = k.data \o SubSeq(e.data, 1, 0)
    <3>1. SubSeq(e.data, 1, 0) = <<>>
      BY <1>1, SubSeqEmpty
    <3> QED BY <1>1, <3>1, ConcatEmptySeq
  <2> QED BY <2>2, <2>3
<1> QED BY <1>1, <1>2, <1>3

\* What the handler does to both, as far as the order of the bytes goes.
NextOut(k, q, f) == LET x == OutPass(ResetOut(k, f))
                    IN  IF q # <<>> /\ "rst" \notin f THEN RxPop(x, Head(q)) ELSE x
NextFifo(q, f) == IF q # <<>> /\ "rst" \notin f THEN Tail(q) ELSE <<>>
LEMMA HandlerLine ==
  ASSUME NEW v \in VcpRec, NEW w \in VcpRec, NEW q \in Seq(VcpEntry), NEW f, NEW got \in Seq(Int), NEW n,
         v.rx # "wait" => v.out.ec # "busy", Len(v.out.data) <= v.out.room, v.out.ena => v.out.pkts = 1,
         InLine(Arrived(v, got), q, n),
         w.out = NextOut(v.out, q, f), w.rx = v.rx, w.rxbuf = v.rxbuf, w.rxq = v.rxq
  PROVE  /\ NextFifo(q, f) \in Seq(VcpEntry) /\ InLine(Arrived(w, got), NextFifo(q, f), n)
         /\ w.rx # "wait" => w.out.ec # "busy"
         /\ Len(w.out.data) <= w.out.room /\ (w.out.ena => w.out.pkts = 1)
<1> DEFINE k == v.out
           x == OutPass(ResetOut(k, f))
           d == Arrived(v, got)
           base == got \o v.rxq
<1>1. k \in VOutRec /\ k.data \in Seq(Int) /\ base \in Seq(Int) /\ d \in Seq(Int)
  BY VcpFields, OutFields, ArrivedTyped
<1>2. /\ x \in VOutRec /\ x.data = k.data /\ x.room = k.room /\ x.pkts = k.pkts
      /\ (x.ec = "busy" => k.ec = "busy") /\ (x.ena => k.ena)
  BY <1>1, PassOut
<1>3. CASE q # <<>> /\ "rst" \notin f
  <2> DEFINE e == Head(q)
  <2>1. w.out = RxPop(x, e) /\ NextFifo(q, f) = Tail(q)
    BY <1>3 DEF NextOut, NextFifo
  <2>2. e \in VcpEntry /\ Tail(q) \in Seq(VcpEntry)
    BY <1>3, HeadTailProperties
  <2> HIDE DEF x, e
  <2>3. /\ w.out.ec = x.ec /\ w.out.room = x.room /\ w.out.pkts = x.pkts /\ w.out.ena = x.ena
        /\ Len(w.out.data) <= w.out.room
        /\ \E m \in 0 .. Len(e.data) : w.out.data = x.data \o SubSeq(e.data, 1, m) /\ (x.ec # "busy" => m = 0)
    <3>1. x \in VOutRec /\ Len(x.data) <= x.room
      BY <1>2
    <3> QED BY <2>1, <2>2, <3>1, PopOut
  <2>4. PICK m \in 0 .. Len(e.data) : w.out.data = k.data \o SubSeq(e.data, 1, m)
    BY <1>2, <2>3
  <2> DEFINE p == SubSeq(e.data, 1, m)
  <2>5. e.data \in Seq(Int) /\ p \in Seq(Int)
    <3>1. e.data \in Seq(Int)
      BY <2>2 DEF VcpEntry
    <3> QED BY <2>4, <3>1, Split
  <2>6. \E i \in 0 .. Len(e.data) : Arrived(w, got) = d \o SubSeq(e.data, 1, i)
    <3>1. CASE v.rx = "wait"
      <4>1. Current(v) = k.data /\ Current(w) = k.data \o p
        BY <2>4, <3>1 DEF Current
      <4> HIDE DEF p, base, k
      <4>2. (base \o k.data) \o p = base \o (k.data \o p)
        <5> DEFINE c == k.data
        <5>1. base \in Seq(Int) /\ c \in Seq(Int) /\ p \in Seq(Int)
          BY <1>1, <2>5
        <5> HIDE DEF c
        <5>2. (base \o c) \o p = base \o (c \o p)
          BY <5>1, JoinThree
        <5> QED BY <5>2 DEF c
      <4>3. d = base \o k.data /\ Arrived(w, got) = base \o (k.data \o p)
        BY <4>1 DEF Arrived, base, k
      <4> QED BY <2>4, <4>2, <4>3 DEF p
    <3>2. CASE v.rx # "wait"
      <4>1. Current(w) = Current(v)
        BY <3>2 DEF Current
      <4>2. Arrived(w, got) = d
        BY <4>1 DEF Arrived
      <4>3. SubSeq(e.data, 1, 0) = <<>> /\ d \o <<>> = d
        BY <1>1, SubSeqEmpty, ConcatEmptySeq
      <4>4. 0 \in 0 .. Len(e.data)
        BY <2>5, LenProperties
      <4> QED BY <4>2, <4>3, <4>4
    <3> QED BY <3>1, <3>2
  <2>7. PICK i \in 0 .. Len(e.data) : Arrived(w, got) = d \o SubSeq(e.data, 1, i)
    BY <2>6
  <2>8. InLine(d \o SubSeq(e.data, 1, i), Tail(q), n)
    <3> HIDE DEF d
    <3>1. InLine(d, q, n)
      BY DEF d
    <3> QED BY <1>1, <1>3, <2>7, <3>1, LinePop DEF e
  <2> QED BY <1>2, <2>1, <2>2, <2>3, <2>7, <2>8
<1>4. CASE ~(q # <<>> /\ "rst" \notin f)
  <2>1. w.out = x /\ NextFifo(q, f) = <<>>
    BY <1>4 DEF NextOut, NextFifo
  <2> HIDE DEF x
  <2>2. Current(w) = Current(v)
    BY <1>2, <2>1 DEF Current
  <2>3. Arrived(w, got) = d
    BY <2>2 DEF Arrived
  <2>4. InLine(d, <<>>, n)
    BY LineFlushed
  <2>5. <<>> \in Seq(VcpEntry)
    OBVIOUS
  <2> QED BY <1>2, <2>1, <2>3, <2>4, <2>5
<1> QED BY <1>3, <1>4

\* A packet is popped whole into an empty buffer; a status entry raises the flag.
LEMMA PopWhole ==
  ASSUME NEW k \in VOutRec, OutOpen(k), NEW p \in Seq(Int), Len(p) <= Mps, NEW y, y = RxPop(k, DataEntry(p))
  PROVE  y.ec = "busy" /\ y.data = p /\ y.ena = k.ena /\ ~y.xfrc
<1>1. k.ec = "busy" /\ k.room = Mps /\ k.data = <<>> /\ ~k.xfrc /\ Mps \in Nat /\ Len(p) \in Nat
  BY UsbAssumption, LenProperties DEF OutOpen
<1>2. k.room - Len(k.data) = Mps /\ Least(Mps, Len(p)) = Len(p)
  BY <1>1, Empties DEF Least
<1>3. SubSeq(p, 1, Len(p)) = p /\ <<>> \o p = p
  BY <1>1
<1>4. ReadPacket(k, p) = p
  BY <1>1, <1>2, <1>3 DEF ReadPacket
<1>5. DataEntry(p).kind = "data" /\ DataEntry(p).data = p
  BY DEF DataEntry, RxEntry
<1>6. y = [k EXCEPT !.data = k.data \o p]
  BY <1>4, <1>5 DEF RxPop
<1>7. y.data = k.data \o p /\ y.ec = k.ec /\ y.ena = k.ena /\ y.xfrc = k.xfrc
  BY <1>6 DEF VOutRec
<1> QED BY <1>1, <1>3, <1>7

LEMMA PopStatus ==
  ASSUME NEW k \in VOutRec, NEW y, y = RxPop(k, DoneEntry)
  PROVE  y.ec = k.ec /\ y.data = k.data /\ y.ena = k.ena /\ y.xfrc
<1>1. DoneEntry.kind = "done"
  BY DEF DoneEntry, RxEntry
<1>2. y = [k EXCEPT !.xfrc = TRUE]
  BY <1>1 DEF RxPop
<1> QED BY <1>2 DEF VOutRec

\* Without bus events nothing gets lost.
LEMMA HandlerExact ==
  ASSUME NEW v \in VcpRec, NEW w \in VcpRec, NEW q \in Seq(VcpEntry), NEW got \in Seq(Int), NEW n \in Nat,
         v.rx # "wait" => v.out.ec # "busy",
         RxExact(v, q, Arrived(v, got), n),
         w.out = NextOut(v.out, q, {}), w.rx = v.rx, w.rxbuf = v.rxbuf, w.rxq = v.rxq
  PROVE  RxExact(w, NextFifo(q, {}), Arrived(w, got), n)
<1> DEFINE k == v.out
           x == OutPass(ResetOut(k, {}))
           d == Arrived(v, got)
           base == got \o v.rxq
<1>1. k \in VOutRec /\ k.data \in Seq(Int) /\ base \in Seq(Int) /\ d \in Seq(Int) /\ v.rx \in {"start", "wait", "put"}
  BY VcpFields, OutFields, ArrivedTyped
<1>2. /\ x \in VOutRec /\ x.data = k.data
      /\ ~k.xfrc => x = k
      /\ k.xfrc => x.ec = "ok" /\ ~x.xfrc /\ (x.ena <=> k.ena)
  BY <1>1, PassOut
<1>3. /\ q = <<>> => w.out = x /\ NextFifo(q, {}) = <<>>
      /\ q # <<>> => w.out = RxPop(x, Head(q)) /\ NextFifo(q, {}) = Tail(q)
  BY DEF NextOut, NextFifo
<1> HIDE DEF x
<1>4. ASSUME w.out.data = k.data PROVE Arrived(w, got) = d
  BY <1>4 DEF Arrived, Current
<1>5. \A i \in 1 .. Len(d) : d[i] = i
  BY DEF RxExact
<1>6. CASE Len(d) = n /\ Whole(v, q) /\ q = <<>>
  <2>1. w.out = x /\ NextFifo(q, {}) = <<>> /\ Arrived(w, got) = d
    BY <1>2, <1>3, <1>4, <1>6
  <2>2. Whole(w, <<>>)
    <3>1. CASE k.xfrc
      <4>1. v.rx = "wait" /\ ~k.ena
        BY <1>6, <3>1 DEF Whole, OutQuiet, OutOpen
      <4> QED BY <1>2, <2>1, <3>1, <4>1 DEF Whole, OutQuiet
    <3>2. CASE ~k.xfrc
      BY <1>2, <1>6, <2>1, <3>2 DEF Whole
    <3> QED BY <3>1, <3>2
  <2> QED BY <1>5, <1>6, <2>1, <2>2 DEF RxExact
<1>7. CASE Len(d) = n /\ Whole(v, q) /\ q # <<>>
  <2>1. v.rx = "wait" /\ k.ec = "busy" /\ ~k.ena /\ ~k.xfrc /\ q = <<DoneEntry>>
    BY <1>7 DEF Whole, OutQuiet
  <2>2. Head(q) = DoneEntry /\ Tail(q) = <<>> /\ x = k
    BY <1>2, <2>1, Single
  <2>3. w.out.ec = "busy" /\ w.out.data = k.data /\ ~w.out.ena /\ w.out.xfrc
    <3>1. w.out = RxPop(k, DoneEntry)
      BY <1>3, <1>7, <2>2
    <3> QED BY <1>1, <2>1, <3>1, PopStatus
  <2>4. Arrived(w, got) = d /\ NextFifo(q, {}) = <<>>
    BY <1>3, <1>4, <1>7, <2>2, <2>3
  <2>5. Whole(w, <<>>)
    BY <2>1, <2>3 DEF Whole
  <2> QED BY <1>5, <1>7, <2>4, <2>5 DEF RxExact
<1>8. ASSUME NEW p \in Seq(Int), Waiting(v, q, p), Len(p) <= Mps, Len(d) + Len(p) = n,
             \A i \in 1 .. Len(p) : p[i] = Len(d) + i
      PROVE  RxExact(w, NextFifo(q, {}), Arrived(w, got), n)
  <2>1. v.rx = "wait" /\ OutOpen(k) /\ ~k.ena /\ ~k.xfrc /\ k.data = <<>> /\ q = <<DataEntry(p), DoneEntry>>
    BY <1>8 DEF Waiting, OutOpen
  <2>2. q # <<>> /\ Head(q) = DataEntry(p) /\ Tail(q) = <<DoneEntry>> /\ x = k
    BY <1>2, <2>1
  <2>3. w.out.ec = "busy" /\ w.out.data = p /\ ~w.out.ena /\ ~w.out.xfrc
    <3>1. w.out = RxPop(k, DataEntry(p))
      BY <1>3, <2>2
    <3> QED BY <1>1, <1>8, <2>1, <3>1, PopWhole
  <2>4. d = base /\ Arrived(w, got) = base \o p
    <3>1. Current(v) = <<>> /\ Current(w) = p
      BY <2>1, <2>3 DEF Current
    <3>2. base \o <<>> = base
      BY <1>1, ConcatEmptySeq
    <3> QED BY <3>1, <3>2 DEF Arrived
  <2> DEFINE j == d \o p
  <2> HIDE DEF d
  <2>5. /\ Len(j) = Len(d) + Len(p) /\ \A i \in 1 .. Len(d) : j[i] = d[i]
        /\ \A i \in Len(d) + 1 .. Len(d) + Len(p) : j[i] = p[i - Len(d)]
    BY <1>1, Join
  <2>6. Len(d) \in Nat /\ Len(p) \in Nat
    BY <1>1, LenProperties
  <2> HIDE DEF j
  <2>7. ASSUME NEW i \in 1 .. Len(j) PROVE j[i] = i
    <3>1. CASE i <= Len(d)
      <4>1. i \in 1 .. Len(d)
        BY <2>6, <3>1
      <4> QED BY <1>5, <2>5, <4>1
    <3>2. CASE i > Len(d)
      <4>1. i - Len(d) \in 1 .. Len(p) /\ j[i] = p[i - Len(d)]
        BY <2>5, <2>6, <3>2
      <4> QED BY <1>8, <2>6, <4>1
    <3> QED BY <2>5, <2>6, <3>1, <3>2
  <2>8. NextFifo(q, {}) = <<DoneEntry>> /\ Whole(w, <<DoneEntry>>)
    BY <1>3, <2>1, <2>2, <2>3 DEF Whole, OutQuiet
  <2>9. Arrived(w, got) = j /\ Len(j) = n
    BY <1>8, <2>4, <2>5 DEF j
  <2> QED BY <2>7, <2>8, <2>9 DEF RxExact
<1> QED BY <1>6, <1>7, <1>8 DEF RxExact

\* The host sends a packet.
LEMMA HostOutStep ==
  ASSUME VcpTypes(vcp, vrxf, vbus, vhost, vapp), RxInv(vcp, vrxf, vbus, vapp.got, vhost.sent), VcpHostOut
  PROVE  /\ vcp' \in VcpRec /\ vhost' \in VcpEnd /\ vrxf' \in Seq(VcpEntry)
         /\ RxInv(vcp', vrxf', vbus, vapp.got, vhost'.sent)
         /\ vcp'.in = vcp.in /\ vcp'.tx = vcp.tx /\ vcp'.txbuf = vcp.txbuf /\ vcp'.offs = vcp.offs /\ vcp'.txq = vcp.txq
         /\ vhost'.got = vhost.got
<1> DEFINE k == vcp.out
           s == vhost.sent
           g == vapp.got
           d == Arrived(vcp, g)
<1>1. /\ vcp \in VcpRec /\ k \in VOutRec /\ s \in Nat /\ g \in Seq(Int) /\ vhost \in VcpEnd /\ vrxf \in Seq(VcpEntry)
      /\ d \in Seq(Int) /\ VcpBytes \in Nat /\ Mps \in Nat
  BY VcpFields, ArrivedTyped, VcpAssumption, UsbAssumption DEF VcpTypes, VcpEnd
<1>2. k.ena /\ k.pkts = 1
  BY DEF VcpHostOut, RxInv
<1>3. PICK n \in 1 .. Least(Mps, VcpBytes - s) :
        /\ vcp' = [vcp EXCEPT !.out = OutTaken(k, [i \in 1 .. n |-> s + i])]
        /\ vrxf' = vrxf \o RxEntries(k, [i \in 1 .. n |-> s + i])
        /\ vhost' = [vhost EXCEPT !.sent = s + n]
  BY DEF VcpHostOut
<1>4. n \in Nat /\ n <= Mps
  <2> HIDE DEF s
  <2> QED BY <1>1, <1>3 DEF Least
<1> DEFINE p == [i \in 1 .. n |-> s + i]
           x == OutTaken(k, p)
           t == <<DataEntry(p), DoneEntry>>
<1>5. p \in Seq(Int) /\ Len(p) = n /\ \A i \in 1 .. n : p[i] = s + i
  <2> HIDE DEF s
  <2> QED BY <1>1, <1>4
<1> HIDE DEF p
<1>6. x \in VOutRec /\ x.ec = k.ec /\ x.room = k.room /\ x.data = k.data /\ ~x.ena /\ x.xfrc = k.xfrc
  <2>1. OutLast(k, p)
    BY <1>2 DEF OutLast
  <2>2. x = [k EXCEPT !.pkts = 0, !.ena = FALSE]
    <3>1. k.pkts - 1 = 0 /\ (~OutLast(k, p)) = FALSE
      BY <1>2, <2>1
    <3> QED BY <3>1 DEF OutTaken
  <2> HIDE DEF x
  <2> QED BY <1>1, <2>2, 0 \in Nat DEF VOutRec
<1>7. RxEntries(k, p) = t
  <2>1. RxEntries(k, p) = <<DataEntry(p)>> \o <<DoneEntry>>
    BY <1>2 DEF RxEntries, OutLast, DataEntry, DoneEntry
  <2> QED BY <2>1, TwoEntries
<1>8. vcp' = [vcp EXCEPT !.out = x] /\ vrxf' = vrxf \o t
  BY <1>3, <1>7 DEF p
<1> HIDE DEF x, s, d
<1>9. /\ vcp' \in VcpRec /\ vcp'.rx = vcp.rx /\ vcp'.out = x /\ vcp'.rxbuf = vcp.rxbuf /\ vcp'.rxq = vcp.rxq
      /\ vcp'.in = vcp.in /\ vcp'.tx = vcp.tx /\ vcp'.txbuf = vcp.txbuf /\ vcp'.offs = vcp.offs /\ vcp'.txq = vcp.txq
  BY <1>1, <1>6, <1>8 DEF VcpRec
<1>10. vhost' \in VcpEnd /\ vhost'.sent = s + n /\ vhost'.got = vhost.got
  <2>1. s + n \in Nat
    BY <1>1, <1>4
  <2> QED BY <1>1, <1>3, <2>1 DEF VcpEnd, s
<1>11. InLine(d, vrxf, s)
  BY DEF RxInv, d, s
<1>12. vrxf \o t \in Seq(VcpEntry) /\ InLine(d, vrxf \o t, s + n)
  BY <1>1, <1>4, <1>5, <1>11, LineAdd
<1>13. Arrived(vcp', g) = d
  BY <1>6, <1>9 DEF Arrived, Current, d
<1>14. ASSUME vbus.resets = 0 PROVE RxExact(vcp', vrxf \o t, d, s + n)
  <2>1. RxExact(vcp, vrxf, d, s)
    BY <1>14 DEF RxInv, d, s
  <2>2. /\ Len(d) = s /\ vcp.rx = "wait" /\ OutOpen(k) /\ vrxf = <<>> /\ \A i \in 1 .. Len(d) : d[i] = i
    BY <1>2, <2>1 DEF RxExact, Whole, Waiting, OutQuiet
  <2>3. vrxf \o t = t
    BY <2>2
  <2>4. Waiting(vcp', t, p)
    BY <1>6, <1>9, <2>2 DEF Waiting, OutOpen
  <2>5. Len(d) + Len(p) = s + n /\ Len(p) <= Mps /\ \A i \in 1 .. Len(p) : p[i] = Len(d) + i
    BY <1>4, <1>5, <2>2
  <2> QED BY <1>5, <2>2, <2>3, <2>4, <2>5 DEF RxExact
<1>15. /\ Len(vcp'.rxq) <= VcpQueue /\ Len(vcp'.out.data) <= vcp'.out.room
       /\ (vcp'.rx # "wait" => vcp'.out.ec # "busy") /\ ~vcp'.out.ena
  BY <1>6, <1>9 DEF RxInv
<1> QED BY <1>8, <1>9, <1>10, <1>12, <1>13, <1>14, <1>15 DEF RxInv
-----------------------------------------------------------------------------
VcpInv == /\ VcpTypes(vcp, vrxf, vbus, vhost, vapp)
          /\ TxInv(vcp, vbus, vhost.got, vapp.sent)
          /\ RxInv(vcp, vrxf, vbus, vapp.got, vhost.sent)

LEMMA VcpInitInv == VcpInit => VcpInv
<1> SUFFICES ASSUME VcpInit PROVE VcpInv
  OBVIOUS
<1> DEFINE f == {"rst", "enum"}
<1>1. InIdle \in InRec /\ OutIdle \in VOutRec
  BY Words, Empties, 0 \in Nat DEF InIdle, OutIdle, InRec, VOutRec
<1>2. /\ vcp.in = InIdle /\ vcp.out = OutIdle /\ vcp.rx = "start" /\ vcp.tx = "get" /\ vcp.txbuf = <<>> /\ vcp.offs = 0
      /\ vcp.rxbuf = <<>> /\ vcp.rxq = <<>> /\ vcp.txq = <<>> /\ vcp \in VcpRec
  <2>1. vcp \in VcpRec
    BY <1>1, Empties, 0 \in Nat DEF VcpInit, VcpRec
  <2> QED BY <2>1 DEF VcpInit
<1>3. /\ vrxf = <<>> /\ vbus.driven = FALSE /\ vbus.flags = {} /\ vbus.resets = 0 /\ vbus \in VcpBus
      /\ vhost.sent = 0 /\ vhost.got = <<>> /\ vapp.sent = 0 /\ vapp.got = <<>> /\ vhost \in VcpEnd /\ vapp \in VcpEnd
  BY Empties, 0 \in Nat DEF VcpInit, VcpBus, VcpEnd
<1>4. VcpTypes(vcp, vrxf, vbus, vhost, vapp)
  BY <1>2, <1>3 DEF VcpTypes
<1>5. /\ InQuiet(InIdle) /\ OutQuiet(OutIdle) /\ OutIdle.ec = "ok" /\ OutIdle.data = <<>> /\ OutIdle.room = 0
      /\ ~OutIdle.ena
  BY DEF InIdle, OutIdle, InQuiet, OutQuiet
<1>6. TxInv(vcp, vbus, vhost.got, vapp.sent)
  <2>1. Known(vcp, 0) = 0 /\ Oldest(vcp, 0) = 0
    <3>1. Len(vcp.txbuf) = 0 /\ Len(vcp.txq) = 0 /\ vcp.tx # "wait"
      BY <1>2, Empties
    <3> QED BY <3>1 DEF Known, Oldest
  <2>2. Numbered(vcp, 0)
    BY <1>2, <2>1, Empties DEF Numbered
  <2>3. TxPhase(vcp)
    BY <1>2, <1>5, Empties, UsbAssumption, VcpAssumption DEF TxPhase
  <2>4. Has(<<>>, 0) /\ Counted(<<>>, 0)
    BY Empties DEF Has, Counted
  <2>5. TxBus(vcp.in, vbus)
    BY <1>3 DEF TxBus
  <2> QED BY <1>3, <2>1, <2>2, <2>3, <2>4, <2>5 DEF TxInv
<1>7. RxInv(vcp, vrxf, vbus, vapp.got, vhost.sent)
  <2>1. Arrived(vcp, <<>>) = <<>>
    BY <1>2 DEF Arrived, Current
  <2>2. InLine(<<>>, <<>>, 0)
    BY Empties DEF InLine, Rising, AtMost
  <2>3. RxExact(vcp, <<>>, <<>>, 0)
    BY <1>2, <1>5, Empties DEF RxExact, Whole
  <2>4. Len(vcp.rxq) <= VcpQueue /\ Len(vcp.out.data) <= vcp.out.room
    BY <1>2, <1>5, Empties, VcpAssumption
  <2> QED BY <1>2, <1>3, <1>5, <2>1, <2>2, <2>3, <2>4 DEF RxInv
<1> QED BY <1>4, <1>6, <1>7 DEF VcpInv

LEMMA HandlerInv == ASSUME VcpInv, VcpHandler PROVE VcpInv'
<1> DEFINE f == vbus.flags
           k == vcp.in
           x == InPass(ResetIn(k, f))
           y == NextOut(vcp.out, vrxf, f)
           up == "enum" \in f \/ (vcp.up /\ "rst" \notin f)
<1>1. /\ vcp \in VcpRec /\ vrxf \in Seq(VcpEntry) /\ vbus \in VcpBus /\ vhost \in VcpEnd /\ vapp \in VcpEnd
      /\ (vbus.resets = 0 => ~vbus.driven /\ f = {}) /\ k \in InRec /\ vcp.out \in VOutRec
      /\ vapp.got \in Seq(Int) /\ vhost.got \in Seq(Int) /\ vapp.sent \in Nat /\ vhost.sent \in Nat /\ f \subseteq {"rst", "enum"}
  BY VcpFields DEF VcpInv, VcpTypes, VcpEnd, VcpBus
<1>2. TxInv(vcp, vbus, vhost.got, vapp.sent) /\ RxInv(vcp, vrxf, vbus, vapp.got, vhost.sent)
  BY DEF VcpInv
<1>3. vcp' = [vcp EXCEPT !.in = x, !.out = y, !.up = up]
  BY DEF VcpHandler, BulkPass, ResetIn, ResetOut, NextOut
<1>4. vrxf' = NextFifo(vrxf, f) /\ vbus' = [vbus EXCEPT !.flags = {}] /\ vhost' = vhost /\ vapp' = vapp
  BY DEF VcpHandler, NextFifo
<1>5. up \in BOOLEAN
  OBVIOUS
<1>6. x \in InRec
  <2>1. CASE f = {}
    <3>1. ResetIn(k, f) = k
      BY <2>1 DEF ResetIn
    <3>2. CASE vcp.tx # "wait"
      <4>1. InQuiet(k)
        BY <1>2, <3>2 DEF TxInv, TxPhase
      <4> QED BY <1>1, <3>1, <4>1, QuietPassIn
    <3>3. CASE vcp.tx = "wait"
      <4>1. Transfer(k, vcp.txbuf) /\ vcp.txbuf # <<>> /\ Len(vcp.txbuf) <= Mps /\ vcp.txbuf \in Seq(Int)
        BY <1>1, <1>2, <3>3, VcpFields DEF TxInv, TxPhase
      <4>2. Len(vcp.txbuf) \in 1 .. Mps
        BY <4>1, LenProperties, EmptySeq, UsbAssumption
      <4> QED BY <1>1, <3>1, <4>1, <4>2, PassIn
    <3> QED BY <3>2, <3>3
  <2>2. CASE f # {}
    <3>1. ~k.fe /\ ("rst" \notin f => ~k.ena /\ ~k.xfrc /\ k.fifo = <<>>)
      BY <1>2, <2>2 DEF TxInv, TxBus
    <3> QED BY <1>1, <3>1, ResetPass
  <2> QED BY <2>1, <2>2
<1>7. y \in VOutRec
  <2> DEFINE z == OutPass(ResetOut(vcp.out, f))
  <2>1. z \in VOutRec /\ z.data = vcp.out.data /\ z.room = vcp.out.room
    BY <1>1, PassOut
  <2>2. Len(z.data) <= z.room
    BY <1>2, <2>1 DEF RxInv
  <2>3. y = IF vrxf # <<>> /\ "rst" \notin f THEN RxPop(z, Head(vrxf)) ELSE z
    BY DEF NextOut
  <2> HIDE DEF z, y
  <2>4. CASE vrxf # <<>> /\ "rst" \notin f
    <3>1. Head(vrxf) \in VcpEntry /\ y = RxPop(z, Head(vrxf))
      BY <1>1, <2>3, <2>4, HeadTailProperties
    <3> QED BY <2>1, <2>2, <3>1, PopOut
  <2>5. CASE ~(vrxf # <<>> /\ "rst" \notin f)
    BY <2>1, <2>3, <2>5
  <2> QED BY <2>4, <2>5
<1> HIDE DEF up
<1>8. /\ vcp' \in VcpRec /\ vcp'.in = x /\ vcp'.out = y /\ vcp'.rx = vcp.rx /\ vcp'.rxbuf = vcp.rxbuf /\ vcp'.rxq = vcp.rxq
      /\ vcp'.tx = vcp.tx /\ vcp'.txbuf = vcp.txbuf /\ vcp'.offs = vcp.offs /\ vcp'.txq = vcp.txq
  <2> HIDE DEF x, y
  <2> QED BY <1>1, <1>3, <1>5, <1>6, <1>7 DEF VcpRec
<1>9. vbus' \in VcpBus /\ vbus'.driven = vbus.driven /\ vbus'.flags = {} /\ vbus'.resets = vbus.resets
  <2>1. {} \in SUBSET {"rst", "enum"}
    OBVIOUS
  <2> QED BY <1>1, <1>4, <2>1 DEF VcpBus
<1>10. TxInv(vcp', vbus', vhost.got, vapp.sent)
  BY <1>1, <1>2, <1>8, <1>9, HandlerTx
<1>11. /\ vcp.rx # "wait" => vcp.out.ec # "busy"
       /\ Len(vcp.out.data) <= vcp.out.room /\ (vcp.out.ena => vcp.out.pkts = 1)
       /\ InLine(Arrived(vcp, vapp.got), vrxf, vhost.sent) /\ Len(vcp.rxq) <= VcpQueue
  BY <1>2 DEF RxInv
<1>12. /\ vrxf' \in Seq(VcpEntry) /\ InLine(Arrived(vcp', vapp.got), vrxf', vhost.sent)
       /\ vcp'.rx # "wait" => vcp'.out.ec # "busy"
       /\ Len(vcp'.out.data) <= vcp'.out.room /\ (vcp'.out.ena => vcp'.out.pkts = 1)
  BY <1>1, <1>4, <1>8, <1>11, HandlerLine
<1>13. ASSUME vbus.resets = 0 PROVE RxExact(vcp', vrxf', Arrived(vcp', vapp.got), vhost.sent)
  <2>1. f = {} /\ RxExact(vcp, vrxf, Arrived(vcp, vapp.got), vhost.sent)
    BY <1>1, <1>2, <1>13 DEF RxInv
  <2>2. vcp'.out = NextOut(vcp.out, vrxf, {}) /\ vrxf' = NextFifo(vrxf, {})
    BY <1>4, <1>8, <2>1
  <2>3. RxExact(vcp', NextFifo(vrxf, {}), Arrived(vcp', vapp.got), vhost.sent)
    BY <1>1, <1>8, <1>11, <2>1, <2>2, HandlerExact
  <2> QED BY <2>2, <2>3
<1>14. RxInv(vcp', vrxf', vbus', vapp.got, vhost.sent)
  BY <1>8, <1>9, <1>11, <1>12, <1>13 DEF RxInv
<1>15. VcpTypes(vcp', vrxf', vbus', vhost, vapp)
  BY <1>1, <1>8, <1>9, <1>12 DEF VcpTypes
<1> QED BY <1>4, <1>10, <1>14, <1>15 DEF VcpInv

LEMMA ResetInv == ASSUME VcpInv, QuietReset, VcpHostReset PROVE VcpInv'
<1>1. /\ vbus \in VcpBus /\ vbus' = [driven |-> TRUE, flags |-> {"rst"}, resets |-> vbus.resets + 1]
      /\ UNCHANGED <<vcp, vrxf, vhost, vapp>> /\ ~vcp.in.fe
  BY DEF VcpInv, VcpTypes, VcpHostReset
<1>2. vbus.resets \in Nat /\ vbus.resets + 1 \in Nat /\ vbus.resets + 1 # 0
  BY <1>1 DEF VcpBus
<1>3. vbus' \in VcpBus /\ vbus'.flags = {"rst"} /\ vbus'.resets # 0
  BY <1>1, <1>2 DEF VcpBus
<1>4. VcpTypes(vcp, vrxf, vbus', vhost, vapp)
  BY <1>3 DEF VcpInv, VcpTypes
<1>5. TxBus(vcp.in, vbus')
  BY <1>1, <1>3 DEF TxBus
<1>6. TxInv(vcp, vbus', vhost.got, vapp.sent)
  BY <1>3, <1>5 DEF VcpInv, TxInv
<1>7. RxInv(vcp, vrxf, vbus', vapp.got, vhost.sent)
  BY <1>3 DEF VcpInv, RxInv
<1> QED BY <1>1, <1>4, <1>6, <1>7 DEF VcpInv

LEMMA ResetEndInv == ASSUME VcpInv, VcpHostResetEnd PROVE VcpInv'
<1>1. /\ vbus \in VcpBus /\ vbus' = [vbus EXCEPT !.driven = FALSE, !.flags = vbus.flags \cup {"enum"}]
      /\ UNCHANGED <<vcp, vrxf, vhost, vapp>> /\ vbus.driven
  BY DEF VcpInv, VcpTypes, VcpHostResetEnd
<1>2. vbus.resets # 0 /\ vbus.flags \cup {"enum"} \in SUBSET {"rst", "enum"}
  BY <1>1 DEF VcpInv, VcpTypes, VcpBus
<1>3. vbus' \in VcpBus /\ vbus'.flags = vbus.flags \cup {"enum"} /\ vbus'.resets = vbus.resets
  BY <1>1, <1>2 DEF VcpBus
<1>4. VcpTypes(vcp, vrxf, vbus', vhost, vapp)
  BY <1>2, <1>3 DEF VcpInv, VcpTypes
<1>5. TxBus(vcp.in, vbus')
  BY <1>1, <1>3 DEF VcpInv, TxInv, TxBus
<1>6. TxInv(vcp, vbus', vhost.got, vapp.sent)
  BY <1>3, <1>5 DEF VcpInv, TxInv
<1>7. RxInv(vcp, vrxf, vbus', vapp.got, vhost.sent)
  BY <1>3 DEF VcpInv, RxInv
<1> QED BY <1>1, <1>4, <1>6, <1>7 DEF VcpInv

LEMMA VcpStep == ASSUME VcpInv, QuietReset, [VcpNext]_vcpVars PROVE VcpInv'
<1>1. /\ VcpTypes(vcp, vrxf, vbus, vhost, vapp) /\ TxInv(vcp, vbus, vhost.got, vapp.sent)
      /\ RxInv(vcp, vrxf, vbus, vapp.got, vhost.sent)
  BY DEF VcpInv
<1>2. CASE RxTask
  <2>1. UNCHANGED <<vrxf, vbus, vhost, vapp>>
    BY <1>2 DEF RxTask
  <2>2. /\ vcp' \in VcpRec /\ RxInv(vcp', vrxf, vbus, vapp.got, vhost.sent)
        /\ vcp'.in = vcp.in /\ vcp'.tx = vcp.tx /\ vcp'.txbuf = vcp.txbuf /\ vcp'.offs = vcp.offs /\ vcp'.txq = vcp.txq
    BY <1>1, <1>2, RxStartGood, RxPutGood, RxWaitGood DEF RxTask
  <2>3. TxInv(vcp', vbus, vhost.got, vapp.sent)
    BY <1>1, <2>2, TxSame
  <2> QED BY <1>1, <2>1, <2>2, <2>3 DEF VcpInv, VcpTypes
<1>3. CASE TxTask
  <2>1. UNCHANGED <<vrxf, vbus, vhost, vapp>>
    BY <1>3 DEF TxTask
  <2>2. /\ vcp' \in VcpRec /\ TxInv(vcp', vbus, vhost.got, vapp.sent)
        /\ vcp'.out = vcp.out /\ vcp'.rx = vcp.rx /\ vcp'.rxbuf = vcp.rxbuf /\ vcp'.rxq = vcp.rxq
    <3>1. TxTaskGet(FALSE) \/ TxTaskGet(TRUE) \/ TxTaskStart \/ TxTaskWait
      BY <1>3 DEF TxTask
    <3>2. CASE TxTaskGet(FALSE)
      BY <1>1, <3>2, TxGetGood
    <3>3. CASE TxTaskGet(TRUE)
      BY <1>1, <3>3, TxGetGood
    <3> QED BY <1>1, <3>1, <3>2, <3>3, TxStartGood, TxWaitGood
  <2>3. RxInv(vcp', vrxf, vbus, vapp.got, vhost.sent)
    BY <1>1, <2>2, RxSame
  <2> QED BY <1>1, <2>1, <2>2, <2>3 DEF VcpInv, VcpTypes
<1>4. CASE VcpSend
  <2>1. UNCHANGED <<vrxf, vbus, vhost>>
    BY <1>4 DEF VcpSend
  <2>2. /\ vcp' \in VcpRec /\ vapp' \in VcpEnd /\ TxInv(vcp', vbus, vhost.got, vapp'.sent)
        /\ vcp'.out = vcp.out /\ vcp'.rx = vcp.rx /\ vcp'.rxbuf = vcp.rxbuf /\ vcp'.rxq = vcp.rxq
        /\ vapp'.got = vapp.got
    BY <1>1, <1>4, SendGood
  <2>3. RxInv(vcp', vrxf, vbus, vapp'.got, vhost.sent)
    BY <1>1, <2>2, RxSame
  <2> QED BY <1>1, <2>1, <2>2, <2>3 DEF VcpInv, VcpTypes
<1>5. CASE VcpRecv
  <2>1. UNCHANGED <<vrxf, vbus, vhost>>
    BY <1>5 DEF VcpRecv
  <2>2. /\ vcp' \in VcpRec /\ vapp' \in VcpEnd /\ RxInv(vcp', vrxf, vbus, vapp'.got, vhost.sent)
        /\ vcp'.in = vcp.in /\ vcp'.tx = vcp.tx /\ vcp'.txbuf = vcp.txbuf /\ vcp'.offs = vcp.offs /\ vcp'.txq = vcp.txq
        /\ vapp'.sent = vapp.sent
    BY <1>1, <1>5, RecvGood
  <2>3. TxInv(vcp', vbus, vhost.got, vapp'.sent)
    BY <1>1, <2>2, TxSame
  <2> QED BY <1>1, <2>1, <2>2, <2>3 DEF VcpInv, VcpTypes
<1>6. CASE VcpHostIn
  <2>1. UNCHANGED <<vrxf, vbus, vapp>>
    BY <1>6 DEF VcpHostIn
  <2>2. /\ vcp' \in VcpRec /\ vhost' \in VcpEnd /\ TxInv(vcp', vbus, vhost'.got, vapp.sent)
        /\ vcp'.out = vcp.out /\ vcp'.rx = vcp.rx /\ vcp'.rxbuf = vcp.rxbuf /\ vcp'.rxq = vcp.rxq
        /\ vhost'.sent = vhost.sent
    BY <1>1, <1>6, HostInStep
  <2>3. RxInv(vcp', vrxf, vbus, vapp.got, vhost'.sent)
    BY <1>1, <2>2, RxSame
  <2> QED BY <1>1, <2>1, <2>2, <2>3 DEF VcpInv, VcpTypes
<1>7. CASE VcpHostOut
  <2>1. UNCHANGED <<vbus, vapp>>
    BY <1>7 DEF VcpHostOut
  <2>2. /\ vcp' \in VcpRec /\ vhost' \in VcpEnd /\ vrxf' \in Seq(VcpEntry)
        /\ RxInv(vcp', vrxf', vbus, vapp.got, vhost'.sent)
        /\ vcp'.in = vcp.in /\ vcp'.tx = vcp.tx /\ vcp'.txbuf = vcp.txbuf /\ vcp'.offs = vcp.offs /\ vcp'.txq = vcp.txq
        /\ vhost'.got = vhost.got
    BY <1>1, <1>7, HostOutStep
  <2>3. TxInv(vcp', vbus, vhost'.got, vapp.sent)
    BY <1>1, <2>2, TxSame
  <2> QED BY <1>1, <2>1, <2>2, <2>3 DEF VcpInv, VcpTypes
<1>8. CASE UNCHANGED vcpVars
  BY <1>8 DEF VcpInv, vcpVars
<1> QED BY <1>2, <1>3, <1>4, <1>5, <1>6, <1>7, <1>8, HandlerInv, ResetInv, ResetEndInv DEF VcpNext

LEMMA VcpInvariant ==
  ASSUME QuietReset
  PROVE  VcpSpec => []VcpInv
<1>1. VcpInv /\ [VcpNext]_vcpVars => VcpInv'
  BY VcpStep
<1> QED BY <1>1, VcpInitInv, PTL DEF VcpSpec

\* The queues and the FIFO keep within their size.
LEMMA VcpSizes == VcpInv => VcpTypeOK
<1> SUFFICES ASSUME VcpInv PROVE VcpTypeOK
  OBVIOUS
<1>1. /\ vcp \in VcpRec /\ vcp.in \in InRec /\ vcp.out \in VOutRec /\ vcp.in.ec \in Errors /\ vcp.out.ec \in Errors
      /\ Len(vcp.txbuf) \in Nat
  BY VcpFields, InFields, OutFields DEF VcpInv, VcpTypes
<1>2. Len(vcp.rxq) <= VcpQueue /\ Len(vcp.txq) <= VcpQueue /\ TxPhase(vcp) /\ Len(vcp.txbuf) <= Mps
  BY DEF VcpInv, TxInv, RxInv, TxPhase
<1>3. vcp.tx # "get" => vcp.offs = 0
  BY <1>2 DEF TxPhase
<1>4. vcp.in.fifo = <<>> \/ vcp.in.fifo = vcp.txbuf
  BY <1>2 DEF TxPhase, InQuiet, Transfer, Ended, Filling, Loaded, Taken, Trailing, Cut
<1>5. Len(vcp.in.fifo) <= FifoRoom
  BY <1>1, <1>2, <1>4, Empties, UsbAssumption
<1> QED BY <1>1, <1>2, <1>3, <1>5 DEF VcpTypeOK

LEMMA UpToSeq ==
  ASSUME NEW g \in Seq(Int), \A i \in 1 .. Len(g) : g[i] = i PROVE g = UpTo(Len(g))
<1> DEFINE n == Len(g)
           u == UpTo(n)
<1>1. n \in Nat
  BY LenProperties
<1> HIDE DEF n
<1>2. u \in Seq(Int) /\ Len(u) = n /\ \A i \in 1 .. n : u[i] = i
  BY <1>1 DEF UpTo
<1> HIDE DEF u
<1>3. Len(g) = Len(u) /\ \A i \in 1 .. Len(g) : g[i] = u[i]
  BY <1>2 DEF n
<1>4. g = u
  BY <1>2, <1>3, SeqEqual
<1> QED BY <1>4 DEF u, n

LEMMA StreamsArrive == VcpInv => VcpStream
<1> SUFFICES ASSUME VcpInv PROVE VcpStream
  OBVIOUS
<1> DEFINE hg == vhost.got
           ag == vapp.got
           base == ag \o vcp.rxq
           d == Arrived(vcp, ag)
           s == vapp.sent
<1>1. /\ vcp \in VcpRec /\ hg \in Seq(Int) /\ ag \in Seq(Int) /\ vcp.rxq \in Seq(Int) /\ Current(vcp) \in Seq(Int)
      /\ base \in Seq(Int) /\ s \in Nat /\ Len(vcp.txq) \in Nat /\ Len(vcp.txbuf) \in Nat /\ Len(hg) \in Nat /\ Len(ag) \in Nat
  BY VcpFields, ArrivedTyped, LenProperties DEF VcpInv, VcpTypes, VcpEnd
<1>2. d = base \o Current(vcp)
  BY DEF Arrived
<1>3. VcpTypeOK
  BY VcpSizes
<1>4. ASSUME vbus.resets = 0 PROVE hg = UpTo(Len(hg))
  <2>1. \A i \in 1 .. Len(hg) : hg[i] = i
    BY <1>4 DEF VcpInv, TxInv, Counted
  <2> QED BY <1>1, <2>1, UpToSeq
<1>5. ASSUME vbus.resets = 0 PROVE ag = UpTo(Len(ag))
  <2>1. \A i \in 1 .. Len(d) : d[i] = i
    BY <1>5 DEF VcpInv, RxInv, RxExact
  <2>2. Len(base) = Len(ag) + Len(vcp.rxq) /\ \A i \in 1 .. Len(ag) : base[i] = ag[i]
    BY <1>1, Join
  <2>3. Len(d) = Len(base) + Len(Current(vcp)) /\ \A i \in 1 .. Len(base) : d[i] = base[i]
    <3> HIDE DEF base
    <3> QED BY <1>1, <1>2, Join
  <2>4. Len(vcp.rxq) \in Nat /\ Len(Current(vcp)) \in Nat
    BY <1>1, LenProperties
  <2> HIDE DEF base, d
  <2>5. \A i \in 1 .. Len(ag) : ag[i] = i
    <3>1. \A i \in 1 .. Len(ag) : i \in 1 .. Len(base) /\ i \in 1 .. Len(d)
      <4> DEFINE la == Len(ag)
                 lr == Len(vcp.rxq)
                 lc == Len(Current(vcp))
                 lb == Len(base)
                 ld == Len(d)
      <4>1. la \in Nat /\ lr \in Nat /\ lc \in Nat /\ lb = la + lr /\ ld = lb + lc
        BY <1>1, <2>2, <2>3, <2>4
      <4> HIDE DEF la, lr, lc, lb, ld
      <4>2. \A i \in 1 .. la : i \in 1 .. lb /\ i \in 1 .. ld
        BY <4>1
      <4> QED BY <4>2 DEF la, lb, ld
    <3> QED BY <2>1, <2>2, <2>3, <3>1
  <2> QED BY <1>1, <2>5, UpToSeq
<1>6. Ascending(base)
  <2>1. InLine(base \o Current(vcp), vrxf, vhost.sent)
    BY <1>2 DEF VcpInv, RxInv
  <2> HIDE DEF base
  <2>2. Rising(base)
    BY <1>1, <2>1, LineShorter DEF InLine
  <2>3. Len(base) \in Nat
    BY <1>1, LenProperties
  <2> QED BY <2>2, <2>3 DEF Rising, Ascending
<1>7. Has(hg, s - Len(vcp.txq) - Len(vcp.txbuf))
  <2>1. Has(hg, Known(vcp, s))
    BY DEF VcpInv, TxInv
  <2> HIDE DEF hg, s
  <2>2. /\ Known(vcp, s) \in Int /\ s - Len(vcp.txq) - Len(vcp.txbuf) \in Int
        /\ s - Len(vcp.txq) - Len(vcp.txbuf) <= Known(vcp, s)
    <3> DEFINE lb == Len(vcp.txbuf)
               lq == Len(vcp.txq)
    <3>1. Known(vcp, s) = s - lq \/ Known(vcp, s) = s - lb - lq
      BY DEF Known
    <3>2. lb \in Nat /\ lq \in Nat /\ s \in Nat
      BY <1>1
    <3> HIDE DEF lb, lq
    <3>3. /\ Known(vcp, s) \in Int /\ s - lq - lb \in Int /\ s - lq - lb <= Known(vcp, s)
      BY <3>1, <3>2
    <3> QED BY <3>3 DEF lb, lq
  <2> QED BY <1>1, <2>1, <2>2, HasLess
<1> QED BY <1>3, <1>4, <1>5, <1>6, <1>7 DEF VcpStream, Has

\* The serial port delivers both streams, for packets, queues and FIFOs of any
\* size, any number of bytes and of resets that do not hit a transfer whose data is
\* still to be written: without a reset complete and in order, across resets
\* nothing is lost on the way to the host and nothing is repeated or
\* reordered on the way to the application (USBVCP_TxTask, USBVCP_RxTask).
THEOREM SerialStreams ==
  ASSUME QuietReset
  PROVE  VcpSpec => []VcpStream
BY VcpInvariant, StreamsArrive, PTL
=============================================================================
