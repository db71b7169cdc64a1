-------------------------------- MODULE Wire --------------------------------
(***************************************************************************)
(* The frame layers of net/tcpip: how eth.c, ip.c, arp.c, icmp.c, udp.c    *)
(* and tcp.c lay a message out in a transmission buffer and how the same   *)
(* code reads it at the other end.  Frames are sequences of bytes; numbers *)
(* of more than 16 bits are the tuples of their bytes, most significant    *)
(* first.  Buffers keep what earlier frames left in them, and the static   *)
(* frame descriptor of the reception task keeps its transport pointer.     *)
(***************************************************************************)
EXTENDS Integers, Sequences, FiniteSets, SequencesExt

CONSTANTS Me, Peer,  \* the two stations: [mac, ip]
          Mask,      \* TCPIP_IP_NETMASK
          Msgs,      \* messages the first station sends to the second
          Faults     \* what the link does to a frame

VARIABLES txbuf,     \* the bytes of the transmission buffer
          rxbuf,     \* the bytes of rx_buf at the second station
          icmp,      \* frame.icmp there: the offset it points at, 0 is null
          msg,       \* the message sent last, and what the link did to it
          got        \* what the second station made of it

wireVars == <<txbuf, rxbuf, icmp, msg, got>>

Room == 80           \* bytes of a buffer that frames of the instance reach
W16(n) == <<n \div 256, n % 256>>                          \* HTOBE16
Num(f, i) == f[i] * 256 + f[i + 1]                         \* BETOH16 at byte i
Sub(f, i, n) == SubSeq(f, i, i + n - 1)
Put(f, i, s) == SubSeq(f, 1, i - 1) \o s \o SubSeq(f, i + Len(s), Len(f))
Bcast4 == <<255, 255, 255, 255>>
Bcast6 == <<255, 255, 255, 255, 255, 255>>
Dropped == [kind |-> "dropped"]
-----------------------------------------------------------------------------
(* Checksums.                                                              *)

\* One addition of TCPIPChecksum_Checksum: the carry comes back in.
Carry(a, b) == IF a + b > 65535 THEN a + b - 65535 ELSE a + b

\* TCPIPChecksum_Checksum; an odd last byte is the high half of a word.
Checksum(sum, s) ==
  LET word(i) == s[i] * 256 + (IF i < Len(s) THEN s[i + 1] ELSE 0)
      acc[k \in 0 .. (Len(s) + 1) \div 2] ==
        IF k = 0 THEN sum ELSE Carry(acc[k - 1], word(2 * k - 1))
  IN  acc[(Len(s) + 1) \div 2]

Not16(n) == 65535 - n

\* The bytes f of one layer with its checksum at byte i, over the bytes from
\* the sum `iv'.
Summed(f, i, iv) == Put(f, i, W16(Not16(Checksum(iv, Put(f, i, <<0, 0>>)))))

\* TCPIPIpFrame_GetPseudoHdr of an IP header.
HdrLen(ip) == (ip[1] % 16) * 4
PseudoHdr(ip) == Sub(ip, 13, 4) \o Sub(ip, 17, 4) \o <<0, ip[10]>> \o W16(Num(ip, 3) - HdrLen(ip))
PseudoSum(ip) == Checksum(0, PseudoHdr(ip))
-----------------------------------------------------------------------------
(* Addresses.                                                              *)

Masked(a) == [i \in 1 .. 4 |-> IF Mask[i] = 255 THEN a[i] ELSE 0]
\* TCPIPIpAddr_IsMatchingBroadcast: the masked address is compared with the
\* whole of our own.
IsBroadcast(st, a) == \/ a = Bcast4
                      \/ /\ Masked(a) = st.ip
                         /\ \A i \in 1 .. 4 : Mask[i] = 0 => a[i] = 255
IsMulticast(a) == a[1] \in 224 .. 239
Accepts(st, a) == a = st.ip \/ IsBroadcast(st, a) \/ IsMulticast(a)

\* The link address of TCPIPIp_Send; resolution is the subject of RxTx, here
\* every address of the subnet belongs to the peer.
EthAddr(dst) ==
  IF IsBroadcast(Me, dst) THEN Bcast6
  ELSE IF IsMulticast(dst) THEN <<1, 0, 94, dst[2], dst[3], dst[4]>>
  ELSE Peer.mac
-----------------------------------------------------------------------------
(* Sending: every layer writes its header into the buffer `old'.           *)

\* The Ethernet header of eth_frame.h.
EthHdr(da, sa, type) == da \o sa \o W16(type)

\* The bits of the fragment word that neither SetFlags nor SetFragmentOffset
\* writes, and of the TCP flag word.
KeptIp(w) == ((w \div 1024) % 16) * 1024
KeptTcp(w) == ((w \div 1024) % 4) * 1024

\* The IP header of ip_frame.h: version, length and fragment word; protocol,
\* checksum and addresses.
IpHdrTop(hl, len, frag) == <<64 + hl \div 4, 0>> \o W16(len) \o <<0, 0>> \o W16(frag)
IpHdrEnd(proto, src, dst) == <<255, proto, 0, 0>> \o src \o dst

\* The header TCPIPIp_Send writes; `opts' words of options and a fragment word
\* come from other stations only.
IpFrame(old, m, proto, len) ==
  LET hl == 20 + 4 * m.opts
  IN  Summed(IpHdrTop(hl, hl + len, KeptIp(Num(old, 7)) + m.frag) \o IpHdrEnd(proto, Me.ip, m.dst)
             \o [i \in 1 .. 4 * m.opts |-> 1], 11, 0)

UdpHdr(sport, dport, len) == W16(sport) \o W16(dport) \o W16(len) \o <<0, 0>>

\* Mutant: the length leaves the header out.
UdpFrame_NoHdr(b) == UdpHdr(b.sport, b.dport, Len(b.data)) \o b.data
\* TCPIPUdp_Send
UdpFrame(b) == UdpHdr(b.sport, b.dport, Len(b.data) + 8) \o b.data

\* The TCP header of tcp_frame.h: ports and numbers, flags and data offset,
\* window, checksum and urgent pointer.
TcpHdrTop(b) == W16(b.sport) \o W16(b.dport) \o b.seq \o b.ack
TcpHdrFlags(kept, doffs, flags) == W16((doffs \div 4) * 4096 + kept + flags)
TcpHdrEnd(win) == W16(win) \o <<0, 0, 0, 0>>

\* TCPIPTcp_Send
TcpFrame(old, b) ==
  TcpHdrTop(b) \o TcpHdrFlags(KeptTcp(Num(old, 13)), 20, b.flags) \o TcpHdrEnd(b.win) \o b.data

IcmpHdr(type, id, seqno) == <<type, 0, 0, 0>> \o W16(id) \o W16(seqno)

\* TCPIPIcmp_SendEcho
IcmpFrame(b) == Summed(IcmpHdr(b.type, b.id, b.seqno) \o b.data, 3, 0)

ArpHdr(oper) == W16(1) \o W16(2048) \o <<6, 4>> \o W16(oper)
ArpAddrs(b) == b.sha \o b.spa \o b.tha \o b.tpa

\* TCPIPArp_SendFrame
ArpFrame(b) == ArpHdr(b.oper) \o ArpAddrs(b)

\* The segment behind an IP header, with the checksum over both.
Segment(old, m, ip) ==
  CASE m.kind = "udp" -> Summed(UdpFrame(m.body), 7, PseudoSum(ip))
    [] m.kind = "tcp" -> Summed(TcpFrame(old, m.body), 17, PseudoSum(ip))
    [] m.kind = "icmp" -> IcmpFrame(m.body)

SegLen(m) == Len(m.body.data) + (IF m.kind = "tcp" THEN 20 ELSE 8)
Proto(m) == CASE m.kind = "udp" -> 17 [] m.kind = "tcp" -> 6 [] m.kind = "icmp" -> 1

\* TCPIPEth_Send
EthSend(da, type, pld) == EthHdr(da, Me.mac, type) \o pld

\* TCPIPIp_Send down to TCPIPEth_Send, into a buffer with old contents.
SendIp(old, m) ==
  LET ip == IpFrame(Sub(old, 15, 40), m, Proto(m), SegLen(m))
  IN  EthSend(EthAddr(m.dst), 2048, ip \o Segment(Sub(old, 15 + Len(ip), 40), m, ip))

SendArp(m) == EthSend(IF m.body.oper = 1 THEN Bcast6 ELSE m.body.tha, 2054, ArpFrame(m.body))

SendFrame(old, m) == IF m.kind = "arp" THEN SendArp(m) ELSE SendIp(old, m)
-----------------------------------------------------------------------------
(* Receiving; `f' is rx_buf, `p' the first byte of a layer.                *)

Got(kind, src, body) == [kind |-> kind, src |-> src, body |-> body]

\* The getters of the frame headers.
EthFields(f) == [da |-> Sub(f, 1, 6), sa |-> Sub(f, 7, 6), type |-> Num(f, 13)]
IpFields(f, p) == [hl |-> (f[p] % 16) * 4, len |-> Num(f, p + 2), frag |-> Num(f, p + 6),
                   proto |-> f[p + 9], src |-> Sub(f, p + 12, 4), dst |-> Sub(f, p + 16, 4)]
UdpFields(f, p) == [sport |-> Num(f, p), dport |-> Num(f, p + 2), len |-> Num(f, p + 4)]
TcpFields(f, p) == [sport |-> Num(f, p), dport |-> Num(f, p + 2), seq |-> Sub(f, p + 4, 4),
                    ack |-> Sub(f, p + 8, 4), doffs |-> (f[p + 12] \div 16) * 4,
                    flags |-> Num(f, p + 12) % 1024, win |-> Num(f, p + 14)]
IcmpFields(f, p) == [type |-> f[p], id |-> Num(f, p + 4), seqno |-> Num(f, p + 6)]
ArpFields(f, p) == [htype |-> Num(f, p), ptype |-> Num(f, p + 2), hlen |-> f[p + 4], plen |-> f[p + 5]]
ArpBody(f, p) == [oper |-> Num(f, p + 6), sha |-> Sub(f, p + 8, 6), spa |-> Sub(f, p + 14, 4),
                  tha |-> Sub(f, p + 18, 6), tpa |-> Sub(f, p + 24, 4)]

\* TCPIPUdp_Input: the size is the header's word for it.
UdpInput(f, p, src) ==
  LET h == UdpFields(f, p)
  IN  Got("udp", src, [sport |-> h.sport, dport |-> h.dport, data |-> Sub(f, p + 8, h.len - 8)])

\* TCPIPTcp_Input
TcpInput(f, p, size, src) ==
  LET h == TcpFields(f, p)
  IN  Got("tcp", src, [sport |-> h.sport, dport |-> h.dport, seq |-> h.seq, ack |-> h.ack,
                       flags |-> h.flags, win |-> h.win, data |-> Sub(f, p + h.doffs, size - h.doffs)])

\* TCPIPIcmpChecksum_IsValid
IcmpIntact(f, q, size) == Checksum(0, Sub(f, q, size)) = 65535

\* TCPIPIcmp_Input: checksum and type are read where the descriptor pointed
\* before, the rest where this frame has its header.
IcmpInput(f, p, q, size, src) ==
  IF q = 0 THEN Dropped
  ELSE IF ~IcmpIntact(f, q, size) \/ IcmpFields(f, q).type \notin {0, 8} THEN Dropped
  ELSE LET h == IcmpFields(f, p)
       IN  Got("icmp", src, [type |-> IcmpFields(f, q).type, id |-> h.id, seqno |-> h.seqno,
                             data |-> Sub(f, p + 8, size - 8)])

\* TCPIPArp_Input: other media and protocols are ignored, and what is not
\* meant for this station.
ArpInput(st, f, p) ==
  LET b == ArpBody(f, p)
  IN  IF /\ ArpFields(f, p) = [htype |-> 1, ptype |-> 2048, hlen |-> 6, plen |-> 4]
         /\ b.tpa = st.ip /\ (b.oper = 1 \/ (b.oper = 2 /\ b.tha = st.mac))
      THEN Got("arp", b.spa, b) ELSE Dropped

\* TCPIPIpChecksum_IsValid
IpIntact(f, p) == Checksum(0, Sub(f, p, IpFields(f, p).hl)) = 65535

\* The fragment test of TCPIPIp_Input, with the masks of ip_frame.h.
IsFragment(w) == w \div 32768 = 1 \/ w % 1024 # 0

Reaches(st, f, p) == LET h == IpFields(f, p)
                     IN  IpIntact(f, p) /\ Accepts(st, h.dst) /\ ~IsFragment(h.frag)

\* TCPIPIp_Input
IpInput(st, f, p, q) ==
  LET h == IpFields(f, p)
  IN  IF ~Reaches(st, f, p) THEN Dropped
      ELSE CASE h.proto = 17 -> UdpInput(f, p + h.hl, h.src)
             [] h.proto = 6 -> TcpInput(f, p + h.hl, h.len - h.hl, h.src)
             [] h.proto = 1 -> IcmpInput(f, p + h.hl, q, h.len - h.hl, h.src)
             [] OTHER -> Dropped

\* TCPIPEth_Input
EthInput(st, f, q) == CASE EthFields(f).type = 2048 -> IpInput(st, f, 15, q)
                        [] EthFields(f).type = 2054 -> ArpInput(st, f, 15)
                        [] OTHER -> Dropped

\* What becomes of the transport pointer: every frame that reaches its layer
\* sets it, an ICMP frame too late for itself.
Pointer(st, f) ==
  LET h == IpFields(f, 15)
  IN  IF EthFields(f).type = 2048 /\ h.proto \in {1, 6, 17} /\ Reaches(st, f, 15) THEN 15 + h.hl ELSE icmp
-----------------------------------------------------------------------------
Over(buf, f) == f \o SubSeq(buf, Len(f) + 1, Len(buf))

\* The link damages byte `at' of a frame, 0 is none.
Damaged(f, at) == IF at = 0 THEN f ELSE Put(f, at, <<(f[at] + 77) % 256>>)

WireInit == /\ txbuf = [i \in 1 .. Room |-> 0] /\ rxbuf = [i \in 1 .. Room |-> 0]
            /\ icmp = 0 /\ msg = Dropped /\ got = Dropped

\* A frame is built in the buffer, carried over and handled.
Carry1(m, at) ==
  LET f == SendFrame(txbuf, m)
      r == Over(rxbuf, Damaged(f, at))
  IN  /\ txbuf' = Over(txbuf, f)
      /\ rxbuf' = r
      /\ got' = EthInput(Peer, r, icmp)
      /\ icmp' = Pointer(Peer, r)
      /\ msg' = [kind |-> "sent", m |-> m, at |-> at, q |-> icmp]

WireNext == \E m \in Msgs, at \in Faults : Carry1(m, at)
-----------------------------------------------------------------------------
ForPeer(m) == IF m.kind = "arp" THEN m.body.tpa = Peer.ip ELSE Accepts(Peer, m.dst)
SameHdr(m) == m.kind = "icmp" => msg.q = 35 + 4 * m.opts

\* What one end of the stack sends the other end reads, field for field,
\* whatever earlier frames left in the buffers, unless it is for somebody
\* else; a frame with a damaged IP header is never handled.
WireRight ==
  msg.kind = "sent" =>
    LET m == msg.m
        whole == m.kind = "arp" \/ m.frag = 0
    IN  /\ msg.at = 0 /\ whole /\ SameHdr(m) /\ ForPeer(m) =>
             got = Got(m.kind, IF m.kind = "arp" THEN m.body.spa ELSE Me.ip, m.body)
        /\ ~ForPeer(m) => got = Dropped
        /\ m.kind # "arp" /\ msg.at \in 15 .. 34 + 4 * m.opts => got = Dropped
=============================================================================
