------------------------------ MODULE TcpSock ------------------------------
(***************************************************************************)
(* A TCP socket of net/tcpip/src/tcp_sock.c against a remote TCP over a    *)
(* network that loses, duplicates and reorders frames.                     *)
(*                                                                         *)
(* Three tasks touch the socket: the reception task (Input), the output    *)
(* task (Output), and the application.  The first two exclude each other   *)
(* with `lock'; the application does not take it, so its calls fall        *)
(* between the steps of Output, which yields while it waits for a frame    *)
(* buffer and for the link address of the peer.                            *)
(*                                                                         *)
(* The k-th byte of a stream is the number k.  Timers are left out: what   *)
(* waits for one may happen at any moment.                                 *)
(***************************************************************************)
EXTENDS Integers, Sequences, FiniteSets

CONSTANTS RxCap, TxCap,   \* capacity of sock->rxq and sock->txq
          RxLen, TxLen,   \* bound: bytes the peer and the application send
          SeqSpace,         \* sequence numbers are modulo 2^32
          Seeds,          \* values of Seed_GetRand() and time(0)
          PeerIss,        \* initial sequence number of the peer
          InCap, OutCap   \* bounds: frames under way to and from the socket

\* Streams are shorter than half of the sequence number space.  A frame
\* carries all of txq: the queues hold 256 bytes, a frame more than 1400.
ASSUME TcpAssumption ==
  /\ RxCap \in Nat \ {0} /\ TxCap \in Nat \ {0} /\ RxLen \in Nat /\ TxLen \in Nat
  /\ SeqSpace \in Nat /\ SeqSpace > 2 * (RxLen + TxLen + 2)
  /\ Seeds \subseteq 0 .. SeqSpace - 1 /\ PeerIss \in 0 .. SeqSpace - 1
  /\ InCap \in Nat \ {0} /\ OutCap \in Nat \ {0}

VARIABLES sk,       \* the socket
          out,      \* where Output is; not "idle": it holds `lock'
          app,      \* the call the application is in
          used,     \* bound: the socket has been opened once
          written,  \* bytes the application passed to Send
          taken,     \* bytes the application got from Recv
          finSent,  \* history: a frame with FIN went out
          peer,     \* the remote TCP
          toSock, toPeer \* the network

tcpVars == <<sk, out, app, used, written, taken, finSent, peer, toSock, toPeer>>
appVars == <<app, used, written, taken>>
links == <<toSock, toPeer>>

Minus(a, b) == (a - b) % SeqSpace
Add(a, n) == (a + n) % SeqSpace
Lesser(a, b) == IF a <= b THEN a ELSE b
Bytes(from, n) == [i \in 1 .. n |-> from + i]
TcpSeg(fl, s, a, w, d) == [flags |-> fl, seq |-> s, ack |-> a, win |-> w, data |-> d]

Idle == [ph |-> "idle"]

TcpInit ==
  /\ sk = [state |-> "closed", loc |-> "closed", rem |-> "closed", rxq |-> <<>>, txq |-> <<>>,
           recvd |-> 0, acked |-> 0, rxwin |-> 0, start |-> 0, end |-> 0, txflags |-> {}]
  /\ out = Idle
  /\ app = "idle" /\ used = FALSE /\ written = 0 /\ taken = 0
  /\ finSent = FALSE
  /\ peer \in {[st |-> s, una |-> 0, rcv |-> 0, wnd |-> 0, got |-> <<>>] : s \in {"closed", "listen"}}
  /\ toSock = {} /\ toPeer = {}
-----------------------------------------------------------------------------
(* TCPIPTcpSock_ProcessIncoming: socket k after frame f, part by part.     *)

OnRst(k, f) == IF "rst" \in f.flags THEN [k EXCEPT !.state = "closed"] ELSE k

SynOK(k, f) == \/ "syn" \notin f.flags
               \/ k.state = "listen"
               \/ k.state = "connect" /\ "ack" \in f.flags

OnSyn(k, f, seed) ==
  IF "syn" \notin f.flags THEN k
  ELSE [k EXCEPT !.recvd = Add(f.seq, 1), !.acked = f.seq, !.rxwin = RxCap - Len(k.rxq),
                 !.start = seed,
                 !.state = IF k.state = "listen" THEN "establishing" ELSE "established",
                 !.loc = IF k.state = "listen" THEN @ ELSE "open",
                 !.rem = IF k.state = "listen" THEN @ ELSE "open"]

AckOK(k, f) == \/ "ack" \notin f.flags
               \/ /\ k.state \notin {"closed", "listen"}
                  /\ Minus(f.ack, k.start) <= Minus(k.end, k.start)

\* The first acknowledgement of our SYN+ACK.
\* Mutant: the links are not opened.
OnEstablish_NoLink(k) ==
  IF k.state = "establishing" /\ k.txflags = {"syn", "ack"}
  THEN [k EXCEPT !.state = "established"] ELSE k
OnEstablish(k) ==
  IF k.state = "establishing" /\ k.txflags = {"syn", "ack"}
  THEN [k EXCEPT !.state = "established", !.loc = "open", !.rem = "open"] ELSE k

\* Any acknowledgement ends the closing of the local link.
OnLastAck(k) ==
  IF k.loc # "closing" THEN k
  ELSE [k EXCEPT !.loc = "closed", !.state = IF k.rem = "closed" THEN "closed" ELSE @]

\* Data in sequence is appended, as much as fits; anything else is acked again.
\* Mutant: data out of sequence is stored as well.
OnData_AnySeq(k, f) ==
  LET n == Lesser(Len(f.data), RxCap - Len(k.rxq))
  IN  [k EXCEPT !.rxq = @ \o SubSeq(f.data, 1, n),
                !.recvd = IF f.data = <<>> THEN @ ELSE Add(@, n)]
\* Mutant: what did not fit counts as received.
OnData_CountAll(k, f) ==
  LET n == Lesser(Len(f.data), RxCap - Len(k.rxq))
  IN  IF f.seq # k.recvd THEN [k EXCEPT !.acked = f.seq]
      ELSE [k EXCEPT !.rxq = @ \o SubSeq(f.data, 1, n),
                     !.recvd = Add(@, Len(f.data) + IF f.flags \cap {"fin", "syn"} = {} THEN 0 ELSE 1)]
OnData(k, f) ==
  LET n == Lesser(Len(f.data), RxCap - Len(k.rxq))
  IN  IF f.seq # k.recvd THEN [k EXCEPT !.acked = f.seq]
      ELSE [k EXCEPT !.rxq = @ \o SubSeq(f.data, 1, n),
                     !.recvd = Add(@, n + IF f.flags \cap {"fin", "syn"} = {} THEN 0 ELSE 1)]

\* Mutant: any acknowledgement empties txq.
OnAcked_DropAll(k, f) == [k EXCEPT !.txq = <<>>, !.start = f.ack]
\* Acknowledged bytes leave txq; SYN and FIN count as one.
OnAcked(k, f) ==
  LET n == Lesser(Minus(f.ack, k.start), Len(k.txq))
  IN  [k EXCEPT !.txq = SubSeq(@, n + 1, Len(@)), !.start = f.ack]

OnAck(k, f) ==
  IF "ack" \notin f.flags THEN k
  ELSE OnAcked(OnData(OnLastAck(OnEstablish(k)), f), f)

OnFin(k, f) ==
  IF "fin" \notin f.flags THEN k
  ELSE [k EXCEPT !.state = "closing", !.rem = "closing",
                 !.loc = IF @ = "open" THEN "closing" ELSE @]

\* An error return keeps what the parts before it have done.
TcpIncoming(k, f, seed) ==
  LET r == OnRst(k, f)
      s == OnSyn(r, f, seed)
  IN  IF k.state = "closed" THEN k
      ELSE IF ~SynOK(r, f) THEN r
      ELSE IF ~AckOK(s, f) THEN s
      ELSE OnFin(OnAck(s, f), f)

\* Input(f): the reception task takes a frame from the network, which may
\* deliver it again.
Input == /\ out = Idle
         /\ \E f \in toSock, seed \in Seeds :
              /\ sk' = TcpIncoming(sk, f, seed)
              /\ toSock' \in {toSock, toSock \ {f}}
         /\ UNCHANGED <<out, appVars, finSent, peer, toPeer>>
-----------------------------------------------------------------------------
(* TCPIPTcpSock_ProcessOutgoing, cut where it yields.                      *)

TxFlags == CASE sk.state = "connect" -> {"syn"}
             [] sk.state = "establishing" -> {"syn", "ack"}
             [] sk.state = "established" -> {"ack"}
             [] sk.state = "closing" -> IF sk.loc = "closing" THEN {"ack", "fin"} ELSE {"ack"}

\* There is a flag, an acknowledgement, data or a window update to send.
Due == \/ TxFlags \cap {"syn", "fin"} # {}
       \/ sk.recvd # sk.acked
       \/ sk.txq # <<>>
       \/ RxCap - Len(sk.rxq) # sk.rxwin

\* Up to TCPIPTcp_Alloc; the retransmission timer allows it at some point.
OutPick == /\ out = Idle
           /\ sk.state \notin {"closed", "listen"}
           /\ Due
           /\ out' = [ph |-> "alloc", flags |-> TxFlags]
           /\ UNCHANGED <<sk, appVars, finSent, peer, links>>

\* Two seconds in a state that is prone to stall.
OutStalled == /\ out = Idle
              /\ sk.state \in {"establishing", "closing"}
              /\ sk' = [sk EXCEPT !.state = "closed"]
              /\ UNCHANGED <<out, appVars, finSent, peer, links>>

\* With a buffer: the frame is built from the socket as it is now and handed
\* to TCPIPTcp_Send.  That may yield again, but nothing that can happen
\* meanwhile reads what is written afterwards.
TxFrame == TcpSeg(out.flags, sk.start, sk.recvd, RxCap - Len(sk.rxq), sk.txq)
TxEnd == Add(sk.start, Len(sk.txq) + IF out.flags \cap {"syn", "fin"} = {} THEN 0 ELSE 1)

\* It failed: the link address of the peer is unknown.
OutFailed == /\ out.ph = "alloc"
             /\ sk' = [sk EXCEPT !.end = TxEnd]
             /\ out' = Idle
             /\ UNCHANGED <<appVars, finSent, peer, links>>

\* The frame is on its way; the peer's FIN is now acknowledged.
OutSent ==
  /\ out.ph = "alloc"
  /\ LET remClosed == sk.rem = "closing"
     IN  sk' = [sk EXCEPT !.end = TxEnd, !.txflags = out.flags, !.rxwin = TxFrame.win,
                          !.acked = sk.recvd,
                          !.rem = IF remClosed THEN "closed" ELSE @,
                          !.state = IF remClosed /\ sk.loc = "closed" THEN "closed" ELSE @]
  /\ finSent' = (finSent \/ "fin" \in out.flags)
  /\ toPeer' \in {toPeer} \cup (IF Cardinality(toPeer) < OutCap THEN {toPeer \cup {TxFrame}} ELSE {})
  /\ out' = Idle
  /\ UNCHANGED <<appVars, peer, toSock>>
-----------------------------------------------------------------------------
(* The calls of the application, cut where they yield.                     *)

\* Listen and Connect start from a closed socket and empty the queues.
Opened(st) == [sk EXCEPT !.state = st, !.loc = "closed", !.rem = "closed",
                         !.rxq = <<>>, !.txq = <<>>, !.txflags = {}]

ListenCall == /\ app = "idle" /\ ~used /\ sk.state = "closed" /\ peer.st = "closed"
              /\ sk' = Opened("listen")
              /\ app' = "listen" /\ used' = TRUE
              /\ UNCHANGED <<out, written, taken, finSent, peer, links>>

ConnectCall == /\ app = "idle" /\ ~used /\ sk.state = "closed" /\ peer.st = "listen"
               /\ \E now \in Seeds : sk' = [Opened("connect") EXCEPT !.start = now]
               /\ app' = "connect" /\ used' = TRUE
               /\ UNCHANGED <<out, written, taken, finSent, peer, links>>

\* The polling loops of both: established, closed meanwhile, or a timeout.
OpenReturn == /\ app \in {"listen", "connect"}
              /\ \/ sk.state \in {"established", "closed"} /\ UNCHANGED sk
                 \/ /\ app = "listen" => sk.state = "listen"
                    /\ sk.state # "established"
                    /\ sk' = [sk EXCEPT !.state = "closed"]
              /\ app' = "idle"
              /\ UNCHANGED <<out, used, written, taken, finSent, peer, links>>

\* One pass of Send.
Send == /\ app = "idle" /\ sk.state = "established"
        /\ \E n \in 1 .. Lesser(TxLen - written, TxCap - Len(sk.txq)) :
             /\ sk' = [sk EXCEPT !.txq = @ \o Bytes(written, n)]
             /\ written' = written + n
        /\ UNCHANGED <<out, app, used, taken, finSent, peer, links>>

\* Recv with something to read, in any state of the socket.
Recv == /\ app = "idle"
        /\ \E n \in 1 .. Len(sk.rxq) :
             /\ sk' = [sk EXCEPT !.rxq = SubSeq(@, n + 1, Len(@))]
             /\ taken' = taken + n
        /\ UNCHANGED <<out, app, used, written, finSent, peer, links>>

\* Close: flush, start closing the local link, wait for the end.
Flushing == sk.state = "established" /\ sk.txq # <<>>
CloseLink == sk' = IF sk.loc = "open" THEN [sk EXCEPT !.loc = "closing", !.state = "closing"] ELSE sk

CloseCall == /\ app = "idle" /\ used /\ sk.state # "listen"
             /\ IF Flushing THEN app' = "flush" /\ UNCHANGED sk
                            ELSE app' = "close" /\ CloseLink
             /\ UNCHANGED <<out, used, written, taken, finSent, peer, links>>

CloseFlushed == /\ app = "flush" /\ ~Flushing
                /\ CloseLink
                /\ app' = "close"
                /\ UNCHANGED <<out, used, written, taken, finSent, peer, links>>

CloseReturn == /\ app = "close" /\ sk.state = "closed"
               /\ app' = "idle"
               /\ UNCHANGED <<sk, out, used, written, taken, finSent, peer, links>>

CloseTimeout == /\ app \in {"flush", "close"}
                /\ sk' = [sk EXCEPT !.state = "closed"]
                /\ app' = "idle"
                /\ UNCHANGED <<out, used, written, taken, finSent, peer, links>>

\* TCPIPTcpSock_Reset: the interface went down.  It does not take the lock.
Reset == /\ sk.state # "closed"
         /\ sk' = [sk EXCEPT !.state = "closed"]
         /\ UNCHANGED <<out, appVars, finSent, peer, links>>
-----------------------------------------------------------------------------
(* The peer: a TCP that follows the protocol.  `una' counts the bytes (and *)
(* the FIN) we acknowledged.                                               *)

PeerSeq(n) == Add(PeerIss, 1 + n)

ToSock(f) == toSock' \in {toSock} \cup (IF Cardinality(toSock) < InCap THEN {toSock \cup {f}} ELSE {})

PeerSyn == /\ peer.st \in {"closed", "syn"}
           /\ peer' = [peer EXCEPT !.st = "syn"]
           /\ ToSock(TcpSeg({"syn"}, PeerIss, 0, 0, <<>>))
           /\ UNCHANGED <<sk, out, appVars, finSent, toPeer>>

PeerSynAck == /\ peer.st = "synrcvd"
              /\ ToSock(TcpSeg({"syn", "ack"}, PeerIss, peer.rcv, 0, <<>>))
              /\ UNCHANGED <<sk, out, appVars, finSent, peer, toPeer>>

\* Data from the oldest unacknowledged byte on, within our window or as a
\* window probe of one byte, and the FIN behind the last byte.
PeerSend ==
  /\ peer.st \in {"est", "fin"}
  /\ \E n \in 0 .. Lesser(RxLen - Lesser(peer.una, RxLen), IF peer.wnd = 0 THEN 1 ELSE peer.wnd),
        fin \in BOOLEAN :
       /\ fin => peer.st = "fin" /\ peer.una + n = RxLen /\ n <= peer.wnd
       /\ ToSock(TcpSeg(IF fin THEN {"ack", "fin"} ELSE {"ack"},
                       PeerSeq(peer.una), peer.rcv, 0, Bytes(peer.una, n)))
  /\ UNCHANGED <<sk, out, appVars, finSent, peer, toPeer>>

PeerFin == /\ peer.st = "est"
           /\ peer' = [peer EXCEPT !.st = "fin"]
           /\ UNCHANGED <<sk, out, appVars, finSent, links>>

PeerRst == /\ peer.st \in {"est", "fin"}
           /\ peer' = [peer EXCEPT !.st = "done"]
           /\ ToSock(TcpSeg({"rst", "ack"}, PeerSeq(peer.una), peer.rcv, 0, <<>>))
           /\ UNCHANGED <<sk, out, appVars, finSent, toPeer>>

\* The peer's part of the handshake, and its acceptance of data: the part of
\* the frame it does not have yet.
PeerAfter(p, f) ==
  CASE p.st = "listen" /\ "syn" \in f.flags ->
         [p EXCEPT !.st = "synrcvd", !.rcv = Add(f.seq, 1)]
    [] p.st = "syn" /\ f.flags = {"syn", "ack"} /\ f.ack = PeerSeq(0) ->
         [p EXCEPT !.st = "est", !.rcv = Add(f.seq, 1), !.wnd = f.win]
    [] /\ p.st \in {"synrcvd", "est", "fin"} /\ "ack" \in f.flags /\ "syn" \notin f.flags
       /\ Minus(f.ack, PeerSeq(0)) <= RxLen + 1 ->
         LET have == Minus(p.rcv, f.seq)
             fresh == have <= Len(f.data)
             new == Minus(f.ack, PeerSeq(0))
         IN  [p EXCEPT !.st = IF @ = "synrcvd" THEN "est" ELSE @,
                       !.una = IF new >= @ THEN new ELSE @,
                       !.wnd = IF new >= p.una THEN f.win ELSE @,
                       !.got = IF fresh THEN @ \o SubSeq(f.data, have + 1, Len(f.data)) ELSE @,
                       !.rcv = IF fresh THEN Add(f.seq, Len(f.data) + IF "fin" \in f.flags THEN 1 ELSE 0)
                               ELSE @]
    [] OTHER -> p

PeerRecv == /\ \E f \in toPeer : /\ peer' = PeerAfter(peer, f)
                                 /\ toPeer' \in {toPeer, toPeer \ {f}}
            /\ UNCHANGED <<sk, out, appVars, finSent, toSock>>
-----------------------------------------------------------------------------
Sock == \/ Input \/ OutPick \/ OutStalled \/ OutFailed \/ OutSent
        \/ ListenCall \/ ConnectCall \/ OpenReturn \/ Send \/ Recv
        \/ CloseCall \/ CloseFlushed \/ CloseReturn \/ CloseTimeout \/ Reset
Remote == PeerSyn \/ PeerSynAck \/ PeerSend \/ PeerFin \/ PeerRst \/ PeerRecv

TcpNext == Sock \/ Remote

TcpSpec == TcpInit /\ [][TcpNext]_tcpVars
-----------------------------------------------------------------------------
Flags == {"syn", "ack", "fin", "rst"}
SeqNo == 0 .. SeqSpace - 1
Frames == [flags : SUBSET Flags, seq : SeqNo, ack : SeqNo, win : 0 .. RxCap, data : Seq(Nat)]
Links == {"closed", "open", "closing"}

\* Type invariant.
TcpTypeOK ==
  /\ sk.state \in {"closed", "listen", "connect", "establishing", "established", "closing"}
  /\ sk.loc \in Links /\ sk.rem \in Links
  /\ Len(sk.rxq) <= RxCap /\ Len(sk.txq) <= TxCap
  /\ {sk.recvd, sk.acked, sk.start, sk.end} \subseteq SeqNo
  /\ sk.rxwin \in 0 .. RxCap
  /\ app \in {"idle", "listen", "connect", "flush", "close"}
  /\ out.ph \in {"idle", "alloc"}
  /\ toSock \subseteq Frames /\ toPeer \subseteq Frames

\* Both streams arrive in order, none of their bytes twice and none left out,
\* whatever the network does to the frames: what waits in rxq continues what
\* the application has read, and what the peer got is a prefix of what the
\* application wrote (the sequence tests of TCPIPTcpSock_ProcessIncoming).
InOrder == /\ sk.rxq = Bytes(taken, Len(sk.rxq))
           /\ peer.got = Bytes(0, Len(peer.got))

\* The socket acknowledges exactly what it stored: rx_seq_recvd counts the
\* bytes in rxq and the ones already read, and the FIN only behind all data.
AckHonest ==
  LET n == taken + Len(sk.rxq)
  IN  sk.state \in {"establishing", "established", "closing"} =>
        sk.recvd = PeerSeq(n) \/ (n = RxLen /\ sk.recvd = PeerSeq(n + 1))

\* A byte leaves txq only after the peer has it: the sequence numbers taken
\* by SYN and FIN never stand for a byte of data.
TxKept == written - Len(sk.txq) <= Len(peer.got)

\* The queues of the socket stay within their capacity, and an established
\* connection has both directions open.
SocketOK == /\ TcpTypeOK
            /\ sk.state = "established" => sk.loc = "open" /\ sk.rem = "open"

\* The local link goes from closing to closed only after a FIN was emitted.
FinEmitted == [][sk.loc = "closing" /\ sk'.loc = "closed" => finSent]_tcpVars
=============================================================================
