------------------------------ MODULE UsbCore ------------------------------
(***************************************************************************)
(* The control endpoint: dev/src/usb_core.c on top of endpoint 0 of usb.c, *)
(* the descriptors of usb_desc.c, the class requests of usb_vcp.c, and a   *)
(* host that issues control transfers.                                     *)
(*                                                                         *)
(* `core' holds what one pass of USB_HandlerTask works on: the control     *)
(* blocks of both directions, ctl_ptr and its companions, the device       *)
(* state, and the line coding that class requests read and write.          *)
(***************************************************************************)
EXTENDS Usb, FiniteSets

CONSTANTS Requests,   \* the setup frames a host may send
          HostPolite  \* the host does not give up on a transfer

\* The requests have the fields of usb_setup_t.  The class requests go in the
\* direction the class defines, and their data and the status of two bytes are
\* shorter than a packet.  No request cuts the configuration to whole packets: USBCore_DataINCallback
\* would follow it with an empty packet, which a host that has all it asked for
\* does not fetch, and the next answer would find the endpoint busy.
SetupFrames == [type : STRING, dir : {"in", "out"}, req : STRING, rcpt : STRING,
                value : Nat, index : Nat, length : Nat]

\* Type and index of a descriptor; number and direction of an endpoint.
DescType(s) == (s.value \div 256) % 256
DescIndex(s) == s.value % 256
EpNum(s) == s.index % 128
EpIn(s) == (s.index \div 128) % 2 = 1
IfaceNum(s) == s.index % 256

ASSUME CoreAssumption ==
  /\ Mps > 2 /\ Requests \subseteq SetupFrames
  /\ \A s \in Requests : /\ s.req = "set_line" => s.dir = "out"
                         /\ s.req = "get_line" => s.dir = "in"
                         /\ s.req = "get_descriptor" /\ DescType(s) = 2 => s.length # Mps

VARIABLES core, rxf,  \* rxf: entries of the reception FIFO
          bus,        \* pending bus events: "rst", "enum"
          host        \* the host: the transfer it performs, what it received

coreVars == <<core, rxf, bus, host>>

\* Sizes of the device, configuration, string and qualifier descriptors, in
\* units in which a packet holds Mps: as in usb_desc.c the configuration takes
\* two packets and none fills its last.
DeviceDesc == 1
ConfigDesc == Mps + 1
StringDesc == 1
QualifierDesc == 1
Descriptors == <<DeviceDesc, ConfigDesc, StringDesc, QualifierDesc>>
IfacesNum == 1
EndpointsNum == 2

\* The bytes of a descriptor, each different from every other.
Bytes(what, n) == [i \in 1 .. n |-> 100 * what + i]

DevReset == [state |-> "default", address |-> 0, configuration |-> 0,
             halt_tx |-> {}, halt_rx |-> {}, alternate |-> 0]
CtlIdle == [ptr |-> FALSE, data |-> <<>>, size |-> 0, offset |-> 0, setup |-> <<>>]
CoreIdle == [in |-> InIdle, out |-> OutIdle, ctl |-> CtlIdle, dev |-> DevReset,
             le |-> <<0>>]
NoReq == [req |-> "none"]
Unknown == -1  \* the coding, while a request that sets it is under way
HostIdle == [st |-> "idle", req |-> NoReq, got |-> <<>>, sent |-> <<>>,
             addr |-> 0, cfg |-> 0, coding |-> 0]

CoreInit == /\ core = CoreIdle /\ rxf = <<>> /\ bus = {"rst"}
            /\ host = [HostIdle EXCEPT !.st = "reset"]
-----------------------------------------------------------------------------
(* Stages.  ctl.ptr says whether ctl_ptr is set.  The fields nobody reads   *)
(* until they are written again (setup frame, data behind a null pointer,   *)
(* received data of a finished transfer) are cleared to merge states.       *)

StartSETUPStage(c) ==
  [c EXCEPT !.ctl = CtlIdle, !.out = StartSETUP(@, 3, "setup")]

StartStatusOUTStage(c) == [c EXCEPT !.out = StartOUT(@, 0, "statusout")]

StartStatusINStage(c) == [c EXCEPT !.in = StartIN(@, <<>>, "statusin", FALSE)]

\* Mutant: every packet carries the beginning of the data.
CtlPart_First(ctl, offs) == SubSeq(ctl.data, 1, Least(Mps, ctl.size - offs))

\* The part of the data that one packet carries.
CtlPart(ctl, offs) == SubSeq(ctl.data, offs + 1, offs + Least(Mps, ctl.size - offs))

\* The reception of the status packet is armed together with the data.
StartDataINStage(c, data) ==
  LET ctl == [c.ctl EXCEPT !.ptr = data # <<>>, !.data = data,
                           !.size = Len(data), !.offset = 0]
  IN  [c EXCEPT !.ctl = ctl, !.in = StartIN(@, CtlPart(ctl, 0), "datain", FALSE),
                !.out = StartOUT(@, 0, "statusout")]

\* Mutant: a transfer ends with its data even if the last packet is full.
DataINCallback_NoMore(c) == StartStatusOUTStage(c)

\* The next packet, an empty one if the last was full, or the status stage.
DataINCallback(c) ==
  LET rest == c.ctl.size - c.ctl.offset
      next == c.ctl.offset + Mps
  IN  IF rest >= Mps
      THEN [c EXCEPT !.ctl.offset = next,
                     !.in = StartIN(@, CtlPart(c.ctl, next), "datain", FALSE)]
      ELSE StartStatusOUTStage(c)

StartDataOUTStage(c, size) ==
  [c EXCEPT !.ctl.ptr = TRUE, !.ctl.size = size, !.ctl.offset = 0,
            !.out = StartOUT(@, Least(Mps, size), "dataout")]

AbortStage(c) == StartSETUPStage([c EXCEPT !.in.nak = TRUE, !.out.ena = FALSE])
-----------------------------------------------------------------------------
(* Requests.  A handler of a `get' returns the set that holds the data, a  *)
(* handler of a `set' the set that holds the new device state; a request   *)
(* that is refused returns the empty set.                                  *)

Refused == {}
Configured(d) == d.state = "configured"

\* The descriptor cut to the length asked for.  There is one configuration and
\* one string; any other index succeeds with nothing.
DescSize(s) == IF DescType(s) \in {2, 3} /\ DescIndex(s) # 0 THEN 0 ELSE Descriptors[DescType(s)]
Descriptor(s) == Bytes(DescType(s), Least(DescSize(s), s.length))

\* With an interface as recipient the listeners of usbcore_req_ev are asked,
\* none of whom has descriptors.
GetDescriptor(d, s) ==
  CASE s.rcpt = "device" /\ DescType(s) \in DOMAIN Descriptors -> {Descriptor(s)}
    [] s.rcpt = "iface" -> Refused
    [] OTHER -> Refused

GetConfiguration(d, s) ==
  IF s.rcpt = "device" /\ s.value = 0 /\ s.index = 0 /\ s.length = 1 /\ d.state # "default"
  THEN {<<d.configuration>>} ELSE Refused

Halted(d, s) == EpNum(s) \in IF EpIn(s) THEN d.halt_tx ELSE d.halt_rx
GetStatus(d, s) ==
  IF s.value # 0 \/ s.length # 2 THEN Refused
  ELSE CASE s.rcpt = "device" /\ s.index = 0 /\ d.state # "default" -> {<<0, 0>>}
         [] s.rcpt = "iface" /\ Configured(d) /\ IfaceNum(s) < IfacesNum -> {<<0, 0>>}
         [] s.rcpt = "ep" /\ \/ EpNum(s) = 0 /\ d.state # "default"
                             \/ EpNum(s) \in 1 .. EndpointsNum - 1 /\ Configured(d) ->
              {<<IF Halted(d, s) THEN 1 ELSE 0, 0>>}
         [] OTHER -> Refused

GetInterface(d, s) ==
  IF s.value = 0 /\ s.length = 1 /\ s.rcpt = "iface" /\ Configured(d) /\ IfaceNum(s) < IfacesNum
  THEN {<<d.alternate>>} ELSE Refused

SetAddress(d, s) ==
  IF Configured(d) \/ s.rcpt # "device" THEN Refused
  ELSE {[d EXCEPT !.address = s.value,
                  !.state = IF s.value = 0 THEN "default" ELSE "address"]}

SetConfiguration(d, s) ==
  IF d.state = "default" \/ s.rcpt # "device" THEN Refused
  ELSE {[d EXCEPT !.configuration = s.value,
                  !.state = IF s.value = 0 THEN "address" ELSE "configured"]}

EndpointHalt == 0
IsHalt(s) == s.rcpt = "ep" /\ EpNum(s) \in 1 .. EndpointsNum - 1 /\ s.value = EndpointHalt
ClearFeature(d, s) ==
  IF ~IsHalt(s) THEN Refused
  ELSE IF EpIn(s) THEN {[d EXCEPT !.halt_tx = @ \ {EpNum(s)}]}
  ELSE {[d EXCEPT !.halt_rx = @ \ {EpNum(s)}]}
SetFeature(d, s) ==
  IF ~IsHalt(s) THEN Refused
  ELSE IF EpIn(s) THEN {[d EXCEPT !.halt_tx = @ \cup {EpNum(s)}]}
  ELSE {[d EXCEPT !.halt_rx = @ \cup {EpNum(s)}]}

SetInterface(d, s) ==
  IF s.rcpt = "iface" /\ Configured(d) /\ IfaceNum(s) < IfacesNum
  THEN {[d EXCEPT !.alternate = s.value % 256]} ELSE Refused

\* USBVCP_RequestCallback: the class requests that return or take data.
\* It only looks at the request number.
RequestCallback(c, s, data) ==
  IF s.req = "get_line" THEN {c.le} ELSE IF s.req = "set_line" THEN {<<>>} ELSE data

StandardGet(d, s) == CASE s.req = "get_descriptor" -> GetDescriptor(d, s)
                       [] s.req = "get_configuration" -> GetConfiguration(d, s)
                       [] s.req = "get_status" -> GetStatus(d, s)
                       [] s.req = "get_interface" -> GetInterface(d, s)
                       [] OTHER -> Refused
StandardSet(d, s) == CASE s.req = "set_address" -> SetAddress(d, s)
                       [] s.req = "set_configuration" -> SetConfiguration(d, s)
                       [] s.req = "clear_feature" -> ClearFeature(d, s)
                       [] s.req = "set_feature" -> SetFeature(d, s)
                       [] s.req = "set_interface" -> SetInterface(d, s)
                       [] OTHER -> Refused

\* A request with a data stage.  For a `set' this runs twice: after the setup
\* frame, and when the data is complete.
ProcessSetupData(c, s) ==
  LET std == IF s.type = "standard" /\ s.dir = "in" THEN StandardGet(c.dev, s) ELSE Refused
      res == RequestCallback(c, s, std)
  IN  IF res = Refused THEN AbortStage(c)
      ELSE IF s.dir = "in" THEN StartDataINStage(c, CHOOSE data \in res : TRUE)
      ELSE IF ~c.ctl.ptr THEN StartDataOUTStage(c, Len(c.le))
      ELSE StartStatusINStage(c)

ProcessSetupNoData(c, s) ==
  LET std == IF s.type = "standard" /\ s.dir = "out" THEN StandardSet(c.dev, s) ELSE Refused
      dev == IF std = Refused THEN c.dev ELSE CHOOSE d \in std : TRUE
  IN  IF std # Refused \/ s.req = "set_control" THEN StartStatusINStage([c EXCEPT !.dev = dev])
      ELSE AbortStage(c)

ProcessSetup(c) == LET s == c.ctl.setup IN
  IF s.length = 0 THEN ProcessSetupNoData(c, s) ELSE ProcessSetupData(c, s)

\* Only the last of several setup frames counts.
SetupCallback(c, frames) ==
  ProcessSetup(IF frames = <<>> THEN c ELSE [c EXCEPT !.ctl.setup = frames[Len(frames)]])

DataOUTCallback(c, data) ==
  IF Len(data) = Mps
  THEN [c EXCEPT !.ctl.offset = @ + Mps,
                 !.out = StartOUT(@, Least(Mps, c.ctl.size - c.ctl.offset - Mps), "dataout")]
  ELSE SetupCallback(c, <<>>)

\* The call through ep->callback at the end of USB_FinishTransfer.
Callback(c, cb, ec, data) ==
  IF cb = NoCb \/ (cb = "setup" /\ ec = "reset") THEN c
  ELSE IF ec = "reset" \/ cb \in {"statusin", "statusout"} THEN StartSETUPStage(c)
  ELSE CASE cb = "setup" -> SetupCallback(c, data)
         [] cb = "datain" -> DataINCallback(c)
         [] cb = "dataout" -> DataOUTCallback(c, data)

FinishIn(c, ec) == Callback([c EXCEPT !.in = Finished(@, ec)], c.in.cb, ec, <<>>)
FinishOut(c, ec) == Callback([c EXCEPT !.out = [Finished(@, ec) EXCEPT !.data = <<>>]], c.out.cb, ec, c.out.data)
-----------------------------------------------------------------------------
(* One pass of USB_HandlerTask, in the order of its body.                  *)

\* Mutant: the device state survives a reset.
HandleReset_KeepDev(c) == [c EXCEPT !.in = InReset(@), !.out = OutReset(@)]

\* USB_HandleReset and the reset callback of the core.
HandleReset(c) == [c EXCEPT !.in = InReset(@), !.out = OutReset(@), !.dev = DevReset]

\* Mutant: the reception of setup frames is not restarted.
HandleEnum_NoRestart(c) == FinishOut(FinishIn(c, "reset"), "reset")

\* USB_HandleEnum: every transfer ends with an error, the core starts over.
HandleEnum(c) == StartSETUPStage(FinishOut(FinishIn(c, "reset"), "reset"))

HandleOutEp(c) ==
  LET a == IF c.out.xfrc THEN FinishOut([c EXCEPT !.out.xfrc = FALSE], "ok") ELSE c
  IN  IF c.out.stup THEN FinishOut([a EXCEPT !.out.stup = FALSE], "ok") ELSE a

HandleInEp(c) ==
  LET a == IF c.in.xfrc THEN FinishIn([c EXCEPT !.in.xfrc = FALSE], "ok") ELSE c
  IN  IF c.in.fe THEN [a EXCEPT !.in = FillFifo(@)] ELSE a

\* Data of a `set line coding' goes straight into the line coding.
HandleRxlvl(c, e) ==
  LET out == RxPop(c.out, e)
  IN  [c EXCEPT !.out = out,
                !.le = IF c.out.cb = "dataout" /\ e.kind = "data" THEN out.data ELSE @]

HandlerPass ==
  LET a == IF "rst" \in bus THEN HandleReset(core) ELSE core
      b == IF "enum" \in bus THEN HandleEnum(a) ELSE a
      c == HandleInEp(HandleOutEp(b))
  IN  core' = IF rxf # <<>> /\ "rst" \notin bus THEN HandleRxlvl(c, Head(rxf)) ELSE c

\* A reset flushes the reception FIFO.
HandlerTask == /\ HandlerPass
               /\ rxf' = IF "rst" \in bus \/ rxf = <<>> THEN <<>> ELSE Tail(rxf)
               /\ bus' = {}
               /\ UNCHANGED host
-----------------------------------------------------------------------------
(* The host.  A SETUP packet is always accepted and stops both directions. *)

Done(h) == [h EXCEPT !.st = "idle", !.req = NoReq, !.got = <<>>, !.sent = <<>>]

HostSetup(s) ==
  /\ bus = {} /\ Len(rxf) <= 2
  /\ host.st = "idle" \/ (~HostPolite /\ host.st # "reset")
  /\ rxf' = rxf \o <<RxEntry("setup", <<s>>), RxEntry("setupdone", <<>>)>>
  /\ core' = [core EXCEPT !.in.nak = TRUE, !.out.ena = FALSE]
  /\ host' = [host EXCEPT !.st = IF s.length = 0 THEN "statusin"
                                 ELSE IF s.dir = "in" THEN "in" ELSE "out",
                          !.req = s, !.got = <<>>,
                          !.coding = IF s.req = "set_line" THEN Unknown ELSE @]
  /\ UNCHANGED bus

\* Data packets until one is short or all that was asked for has arrived.
HostIn ==
  /\ bus = {} /\ host.st = "in" /\ InReady(core.in)
  /\ LET p == SubSeq(core.in.fifo, 1, InPacket(core.in))
         got == host.got \o p
     IN  host' = [host EXCEPT !.got = got,
                    !.st = IF Len(p) < Mps \/ Len(got) >= host.req.length
                           THEN "statusout" ELSE "in"]
  /\ core' = [core EXCEPT !.in = InTaken(@)]
  /\ UNCHANGED <<rxf, bus>>

\* An OUT packet: line coding in the data stage, empty in the status stage.
HostOut ==
  /\ bus = {} /\ host.st \in {"out", "statusout"} /\ core.out.ena /\ Len(rxf) <= 1
  /\ \E p \in IF host.st = "out" THEN {<<1>>, <<2>>} ELSE {<<>>} :
       /\ rxf' = rxf \o RxEntries(core.out, p)
       /\ core' = [core EXCEPT !.out = OutTaken(@, p)]
       /\ host' = IF host.st = "out" THEN [host EXCEPT !.st = "statusin", !.sent = p]
                  ELSE Done(host)
  /\ UNCHANGED bus

\* The empty packet of the status stage: the request is now in force.
HostStatusIn ==
  /\ bus = {} /\ host.st = "statusin" /\ InReady(core.in) /\ InPacket(core.in) = 0
  /\ core' = [core EXCEPT !.in = InTaken(@)]
  /\ host' = [Done(host) EXCEPT
                !.addr = IF host.req.req = "set_address" THEN host.req.value ELSE @,
                !.cfg = IF host.req.req = "set_configuration" THEN host.req.value ELSE @,
                !.coding = IF host.req.req = "set_line" THEN host.sent[1] ELSE @]
  /\ UNCHANGED <<rxf, bus>>

\* A stalled request fails; the stall shows as NAK with nothing under way.
Stalled == /\ core.in.nak /\ core.in.ec # "busy" /\ core.out.cb = "setup"
           /\ core.out.data = <<>> /\ rxf = <<>> /\ ~core.out.stup
HostStall == /\ bus = {} /\ host.st \notin {"idle", "reset"} /\ Stalled
             /\ host' = Done(host)
             /\ UNCHANGED <<core, rxf, bus>>

\* A reset begins and, later, ends with the enumeration flag.  DIEPEMPMSK
\* survives a reset: without QuietReset the rest of an aborted transfer is
\* written into the FIFO that was just flushed, and the next transfer of the
\* host receives it.
HostReset == /\ bus = {} /\ host.st # "reset"
             /\ QuietReset => ~core.in.fe
             /\ bus' = {"rst"}
             /\ host' = [HostIdle EXCEPT !.st = "reset", !.coding = host.coding]
             /\ UNCHANGED <<core, rxf>>

HostResetEnd == /\ host.st = "reset"
                /\ bus' = bus \cup {"enum"}
                /\ host' = [host EXCEPT !.st = "idle"]
                /\ UNCHANGED <<core, rxf>>

HostStep == HostIn \/ HostOut \/ HostStatusIn \/ HostStall \/ HostResetEnd
CoreNext == \/ HandlerTask
            \/ \E s \in Requests : HostSetup(s)
            \/ HostStep \/ HostReset

CoreSpec == CoreInit /\ [][CoreNext]_coreVars
CoreFair == WF_coreVars(HandlerTask) /\ WF_coreVars(HostStep)
-----------------------------------------------------------------------------
\* Type invariant.
CoreTypeOK ==
  /\ core.in.ec \in Errors /\ core.out.ec \in Errors
  /\ core.in.offs \in 0 .. Len(core.in.data) /\ Len(core.in.fifo) <= FifoRoom
  /\ core.dev.state \in {"default", "address", "configured"}
  /\ host.st \in {"idle", "in", "out", "statusin", "statusout", "reset"}

\* The control endpoint is well formed and never goes deaf: between two passes
\* of the handler a transfer is in progress in one direction at least, so that
\* something will call back and start the next stage.
NeverDeaf ==
  /\ CoreTypeOK
  /\ bus = {} /\ host.st # "reset" => core.in.ec = "busy" \/ core.out.ec = "busy"

\* The bytes that answer request s.
Wanted(s) == CASE s.req = "get_descriptor" -> Descriptor(s)
               [] s.req = "get_configuration" -> <<host.cfg>>
               [] s.req = "get_line" -> <<host.coding>>

\* What a `get' brings back is what was asked for: the descriptor cut to the
\* requested length, the configuration and the line coding the host itself
\* set last, across stages and back-to-back requests (the data stages of
\* usb_core.c).
AnswerRight ==
  /\ host.st = "statusout"
  /\ host.req.req \in {"get_descriptor", "get_configuration", "get_line"}
  /\ host.req.req = "get_line" => host.coding # Unknown
  => host.got = Wanted(host.req)

\* Host and device agree: between two requests the device has the address and
\* the configuration of the requests that were completed since the last reset,
\* none of the ones that were refused or cut off by a reset, and is in the
\* state that goes with them; only an addressed device is configured.
HostAgrees ==
  host.st = "idle" /\ bus = {} =>
    /\ core.dev.address = host.addr /\ core.dev.configuration = host.cfg
    /\ core.dev.state = IF host.cfg # 0 THEN "configured"
                        ELSE IF host.addr # 0 THEN "address" ELSE "default"
    /\ host.cfg # 0 => host.addr # 0

\* Every control transfer of the host ends, unless the bus is reset.
TransferEnds == host.st # "idle" ~> host.st = "idle"
=============================================================================
