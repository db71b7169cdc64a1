----------------------------- MODULE TcpProofs -----------------------------
(***************************************************************************)
(* Proofs about module TcpSock: over a network that loses, duplicates and  *)
(* reorders frames, a socket delivers both streams in order, acknowledges  *)
(* what it stored and nothing else, and keeps what the peer does not have. *)
(*                                                                         *)
(* The argument counts positions behind the first sequence number of each  *)
(* side; the streams are shorter than half of the sequence number space,   *)
(* so a position stands for one number only.  TcpIInv says where every     *)
(* number in the system is: the ones in the socket and in the peer, and    *)
(* the ones in every frame the network may still deliver.  RecvStep and    *)
(* OpenStep carry what is said of old frames across a step, for the stream *)
(* from the peer and the stream to it, so that the proof of an action is   *)
(* about the socket, the peer and the new frame only.                      *)
(***************************************************************************)
EXTENDS TcpSock, SequenceTheorems, TLAPS

-----------------------------------------------------------------------------
(* Sequence numbers.                                                       *)

\* What the proofs use of the assumption on the constants.
LEMMA Space ==
  /\ SeqSpace \in Nat \ {0} /\ SeqSpace > 2 * (RxLen + TxLen + 2)
  /\ RxLen \in Nat /\ TxLen \in Nat /\ RxCap \in Nat /\ TxCap \in Nat
  /\ PeerIss \in SeqNo /\ Seeds \subseteq SeqNo
  /\ SeqNo \subseteq Int /\ 0 \in SeqNo
BY TcpAssumption DEF SeqNo

\* A remainder, where one turn is enough.
LEMMA OneTurn ==
  ASSUME NEW m \in Nat \ {0}, NEW x \in Int, 0 <= x + m, x < m + m
  PROVE  x % m = IF x < 0 THEN x + m ELSE IF x < m THEN x ELSE x - m
<1>1. CASE x < 0
  <2>1. x = m * (-1) + (x + m) /\ x + m \in 0 .. m - 1
    BY <1>1
  <2> QED
    BY <1>1, <2>1
<1>2. CASE x >= 0 /\ x < m
  BY <1>2
<1>3. CASE x >= m
  <2>1. x = m * 1 + (x - m) /\ x - m \in 0 .. m - 1
    BY <1>3
  <2> QED
    BY <1>3, <2>1
<1> QED
  BY <1>1, <1>2, <1>3

\* The distance from one number to another.
LEMMA Distance ==
  ASSUME NEW a \in SeqNo, NEW b \in SeqNo
  PROVE  Minus(a, b) = IF a < b THEN a - b + SeqSpace ELSE a - b
<1>1. PICK x \in Int : x = a - b /\ 0 <= x + SeqSpace /\ x < SeqSpace /\ x < SeqSpace + SeqSpace
  BY Space DEF SeqNo
<1> SeqSpace \in Nat \ {0}
  BY Space
<1>2. x % SeqSpace = IF x < 0 THEN x + SeqSpace ELSE IF x < SeqSpace THEN x ELSE x - SeqSpace
  BY <1>1, OneTurn
<1> QED
  BY <1>1, <1>2, Space DEF Minus, SeqNo

\* A number some steps further on.
LEMMA Moved ==
  ASSUME NEW a \in SeqNo, NEW n \in SeqNo
  PROVE  Add(a, n) = IF a + n < SeqSpace THEN a + n ELSE a + n - SeqSpace
<1>1. PICK x \in Int : x = a + n /\ 0 <= x + SeqSpace /\ 0 <= x /\ x < SeqSpace + SeqSpace
  BY Space DEF SeqNo
<1> SeqSpace \in Nat \ {0}
  BY Space
<1>2. x % SeqSpace = IF x < 0 THEN x + SeqSpace ELSE IF x < SeqSpace THEN x ELSE x - SeqSpace
  BY <1>1, OneTurn
<1> QED
  BY <1>1, <1>2, Space DEF Add

\* Numbers as positions behind a first number b.
LEMMA Positions ==
  ASSUME NEW b \in SeqNo, NEW x \in SeqNo
  PROVE  /\ Minus(x, b) \in SeqNo
         /\ \A n \in SeqNo : Add(x, n) \in SeqNo
         /\ \A n \in SeqNo : Minus(x, b) + n < SeqSpace => Minus(Add(x, n), b) = Minus(x, b) + n
         /\ \A y \in SeqNo : Minus(y, b) >= Minus(x, b) => Minus(y, x) = Minus(y, b) - Minus(x, b)
         /\ \A y \in SeqNo : Minus(y, b) < Minus(x, b) => Minus(y, x) = Minus(y, b) - Minus(x, b) + SeqSpace
         /\ \A y \in SeqNo : Minus(y, b) = Minus(x, b) => y = x
         /\ Minus(b, b) = 0
<1>1. Minus(x, b) \in SeqNo /\ Minus(b, b) = 0
  BY Space, Distance DEF SeqNo
<1>2. ASSUME NEW n \in SeqNo
      PROVE  Add(x, n) \in SeqNo /\ (Minus(x, b) + n < SeqSpace => Minus(Add(x, n), b) = Minus(x, b) + n)
  <2>1. Add(x, n) \in SeqNo
    BY Space, Moved DEF SeqNo
  <2>2. Minus(Add(x, n), b) = IF Add(x, n) < b THEN Add(x, n) - b + SeqSpace ELSE Add(x, n) - b
    BY <2>1, Distance
  <2>3. Minus(x, b) = IF x < b THEN x - b + SeqSpace ELSE x - b
    BY Distance
  <2>4. Add(x, n) = IF x + n < SeqSpace THEN x + n ELSE x + n - SeqSpace
    BY Moved
  <2> QED
    BY <2>1, <2>2, <2>3, <2>4, Space DEF SeqNo
<1>3. ASSUME NEW y \in SeqNo
      PROVE  /\ Minus(y, b) >= Minus(x, b) => Minus(y, x) = Minus(y, b) - Minus(x, b)
             /\ Minus(y, b) < Minus(x, b) => Minus(y, x) = Minus(y, b) - Minus(x, b) + SeqSpace
             /\ Minus(y, b) = Minus(x, b) => y = x
  BY Space, Distance DEF SeqNo
<1> QED
  BY <1>1, <1>2, <1>3

-----------------------------------------------------------------------------
(* Pieces of a stream.                                                     *)

\* A piece of a stream is a sequence of its length.
LEMMA BytesType ==
  ASSUME NEW from \in Nat, NEW n \in Nat
  PROVE  /\ Bytes(from, n) \in Seq(Nat) /\ Len(Bytes(from, n)) = n
         /\ \A i \in 1 .. n : Bytes(from, n)[i] = from + i
<1>1. Bytes(from, n) \in [1 .. n -> Nat]
  BY DEF Bytes
<1>2. Bytes(from, n) \in Seq(Nat)
  BY <1>1, SeqDef
<1>3. Len(Bytes(from, n)) = n
  BY <1>1, <1>2, LenProperties
<1> QED
  BY <1>2, <1>3 DEF Bytes

\* The empty piece.
LEMMA BytesEmpty ==
  ASSUME NEW from \in Nat
  PROVE  <<>> = Bytes(from, 0) /\ Len(<<>>) = 0
<1>1. Bytes(from, 0) \in Seq(Nat) /\ Len(Bytes(from, 0)) = 0
  BY BytesType
<1> QED
  BY <1>1, EmptySeq

\* Two pieces that follow each other are one.
LEMMA BytesJoin ==
  ASSUME NEW from \in Nat, NEW a \in Nat, NEW b \in Nat
  PROVE  Bytes(from, a) \o Bytes(from + a, b) = Bytes(from, a + b)
<1> DEFINE s == Bytes(from, a)
           t == Bytes(from + a, b)
           u == Bytes(from, a + b)
<1>1. /\ s \in Seq(Nat) /\ Len(s) = a /\ \A i \in 1 .. a : s[i] = from + i
      /\ t \in Seq(Nat) /\ Len(t) = b /\ \A i \in 1 .. b : t[i] = from + a + i
      /\ u \in Seq(Nat) /\ Len(u) = a + b /\ \A i \in 1 .. a + b : u[i] = from + i
  BY from + a \in Nat, a + b \in Nat, BytesType
<1> HIDE DEF s, t, u
<1>2. /\ s \o t \in Seq(Nat) /\ Len(s \o t) = a + b
      /\ \A i \in 1 .. a + b : (s \o t)[i] = IF i <= a THEN s[i] ELSE t[i - a]
  <2>1. /\ s \o t \in Seq(Nat) /\ Len(s \o t) = Len(s) + Len(t)
        /\ \A i \in 1 .. Len(s) + Len(t) : (s \o t)[i] = IF i <= Len(s) THEN s[i] ELSE t[i - Len(s)]
    BY <1>1, ConcatProperties
  <2> QED
    BY <1>1, <2>1
<1>3. \A i \in 1 .. a + b : (s \o t)[i] = u[i]
  <2> SUFFICES ASSUME NEW i \in 1 .. a + b PROVE (s \o t)[i] = u[i]
    OBVIOUS
  <2>1. CASE i <= a
    BY <1>1, <1>2, <2>1
  <2>2. CASE ~(i <= a)
    <3>1. i - a \in 1 .. b
      BY <2>2
    <3>2. (s \o t)[i] = t[i - a]
      BY <1>2, <2>2
    <3>3. t[i - a] = from + a + (i - a)
      BY <1>1, <3>1
    <3>4. u[i] = from + i
      BY <1>1
    <3> QED
      BY <3>2, <3>3, <3>4
  <2> QED
    BY <2>1, <2>2
<1>4. s \o t = u
  BY <1>1, <1>2, <1>3, SeqEqual
<1> QED
  BY <1>4 DEF s, t, u

\* Part of a piece is a piece.
LEMMA BytesPart ==
  ASSUME NEW from \in Nat, NEW n \in Nat, NEW a \in 0 .. n, NEW b \in a .. n
  PROVE  SubSeq(Bytes(from, n), a + 1, b) = Bytes(from + a, b - a)
<1> DEFINE s == Bytes(from, n)
           u == Bytes(from + a, b - a)
<1>0. b - a \in Nat /\ from + a \in Nat
  OBVIOUS
<1>1. /\ s \in Seq(Nat) /\ Len(s) = n /\ \A i \in 1 .. n : s[i] = from + i
      /\ u \in Seq(Nat) /\ Len(u) = b - a /\ \A i \in 1 .. b - a : u[i] = from + a + i
  BY <1>0, BytesType
<1> HIDE DEF s, u
<1>2. /\ SubSeq(s, a + 1, b) \in Seq(Nat) /\ Len(SubSeq(s, a + 1, b)) = b - a
      /\ \A i \in 1 .. b - a : SubSeq(s, a + 1, b)[i] = s[a + i]
  <2>1. CASE a = b
    <3>1. SubSeq(s, a + 1, b) = <<>>
      BY <1>1, <2>1, SubSeqProperties
    <3> QED
      BY <3>1, <2>1, EmptySeq
  <2>2. CASE a < b
    BY <1>1, <2>2, SubSeqProperties
  <2> QED
    BY <2>1, <2>2
<1>3. \A i \in 1 .. b - a : SubSeq(s, a + 1, b)[i] = u[i]
  <2> SUFFICES ASSUME NEW i \in 1 .. b - a PROVE SubSeq(s, a + 1, b)[i] = u[i]
    OBVIOUS
  <2>1. a + i \in 1 .. n
    OBVIOUS
  <2> QED
    BY <1>1, <1>2, <2>1
<1>4. SubSeq(s, a + 1, b) = u
  BY <1>0, <1>1, <1>2, <1>3, SeqEqual
<1> QED
  BY <1>4 DEF s, u

-----------------------------------------------------------------------------
(* Types.                                                                  *)

SockStates == {"closed", "listen", "connect", "establishing", "established", "closing"}
PeerStates == {"closed", "listen", "syn", "synrcvd", "est", "fin", "done"}
SockRec == [state : SockStates, loc : Links, rem : Links, rxq : Seq(Nat), txq : Seq(Nat),
            recvd : SeqNo, acked : SeqNo, rxwin : 0 .. RxCap, start : SeqNo, end : SeqNo,
            txflags : SUBSET Flags]
PeerRec == [st : PeerStates, una : 0 .. RxLen + 1, rcv : SeqNo, wnd : 0 .. RxCap, got : Seq(Nat)]

SockOf(k) == k \in SockRec /\ Len(k.rxq) <= RxCap /\ Len(k.txq) <= TxCap
OutTyped == out \in {Idle} \cup [ph : {"alloc"}, flags : SUBSET Flags]
AppTyped == /\ app \in {"idle", "listen", "connect", "flush", "close"}
            /\ used \in BOOLEAN /\ written \in 0 .. TxLen /\ taken \in Nat
NetTyped == toSock \subseteq Frames /\ toPeer \subseteq Frames
Types == SockOf(sk) /\ OutTyped /\ AppTyped /\ peer \in PeerRec /\ NetTyped

\* The lesser of two numbers.
LEMMA LesserOf ==
  ASSUME NEW a \in Nat, NEW b \in Nat
  PROVE  Lesser(a, b) \in Nat /\ Lesser(a, b) <= a /\ Lesser(a, b) <= b /\ (Lesser(a, b) = a \/ Lesser(a, b) = b)
BY DEF Lesser

\* Sequence numbers stay sequence numbers.
LEMMA AddType ==
  ASSUME NEW a \in SeqNo, NEW n \in Nat
  PROVE  Add(a, n) \in SeqNo
<1>1. a + n \in Int /\ SeqSpace \in Nat \ {0}
  BY Space DEF SeqNo
<1> QED
  BY <1>1 DEF Add, SeqNo

\* What is left of a sequence.
LEMMA Rest ==
  ASSUME NEW s \in Seq(Nat), NEW a \in 0 .. Len(s), NEW b \in a .. Len(s)
  PROVE  SubSeq(s, a + 1, b) \in Seq(Nat) /\ Len(SubSeq(s, a + 1, b)) = b - a
<1>1. \A i \in a + 1 .. b : s[i] \in Nat
  BY LenProperties
<1>2. a + 1 \in Int /\ b \in Int /\ Len(s) \in Nat
  BY LenProperties
<1>3. /\ SubSeq(s, a + 1, b) \in Seq(Nat)
      /\ Len(SubSeq(s, a + 1, b)) = IF a + 1 <= b THEN b - (a + 1) + 1 ELSE 0
  BY <1>1, <1>2, SubSeqProperties
<1> QED
  BY <1>2, <1>3

\* Every stage of the input keeps the type of the socket.
LEMMA AckTyped ==
  ASSUME NEW k, SockOf(k), NEW f \in Frames
  PROVE  SockOf(OnAcked(k, f)) /\ SockOf(OnData(k, f)) /\ SockOf(OnLastAck(k)) /\ SockOf(OnEstablish(k))
<1>1. /\ k.rxq \in Seq(Nat) /\ Len(k.rxq) \in 0 .. RxCap
      /\ k.txq \in Seq(Nat) /\ Len(k.txq) \in 0 .. TxCap
      /\ f.data \in Seq(Nat) /\ Len(f.data) \in Nat
      /\ f.seq \in SeqNo /\ f.ack \in SeqNo /\ k.recvd \in SeqNo /\ k.start \in SeqNo
  BY Space, LenProperties DEF SockOf, SockRec, Frames
<1>2. SockOf(OnAcked(k, f))
  <2>1. PICK n : n = Lesser(Minus(f.ack, k.start), Len(k.txq))
    OBVIOUS
  <2>2. n \in 0 .. Len(k.txq)
    <3>1. Minus(f.ack, k.start) \in SeqNo
      BY <1>1, Positions
    <3>2. PICK a \in Nat : a = Minus(f.ack, k.start)
      BY <3>1, Space DEF SeqNo
    <3>3. PICK b \in Nat : b = Len(k.txq)
      BY <1>1
    <3>4. Lesser(a, b) \in Nat /\ Lesser(a, b) <= b
      BY LesserOf
    <3> QED
      BY <2>1, <3>2, <3>3, <3>4
  <2>3. SubSeq(k.txq, n + 1, Len(k.txq)) \in Seq(Nat) /\ Len(SubSeq(k.txq, n + 1, Len(k.txq))) <= TxCap
    BY <1>1, <2>2, Rest, Space
  <2>4. OnAcked(k, f) = [k EXCEPT !.txq = SubSeq(@, n + 1, Len(@)), !.start = f.ack]
    BY <2>1 DEF OnAcked
  <2> QED
    BY <1>1, <2>3, <2>4 DEF SockOf, SockRec
<1>3. SockOf(OnData(k, f))
  <2>1. PICK n : n = Lesser(Len(f.data), RxCap - Len(k.rxq))
    OBVIOUS
  <2>2. n \in 0 .. Len(f.data) /\ n <= RxCap - Len(k.rxq)
    <3>1. PICK a \in Nat : a = Len(f.data)
      BY <1>1
    <3>c. PICK c \in 0 .. RxCap : c = Len(k.rxq)
      BY <1>1
    <3>2. PICK b \in Nat : b = RxCap - c
      BY Space
    <3>3. Lesser(a, b) \in Nat /\ Lesser(a, b) <= a /\ Lesser(a, b) <= b
      BY LesserOf
    <3> QED
      BY <2>1, <3>1, <3>c, <3>2, <3>3
  <2>3. SubSeq(f.data, 1, n) \in Seq(Nat) /\ Len(SubSeq(f.data, 1, n)) = n
    BY <1>1, <2>2, Rest, 0 \in 0 .. Len(f.data), n \in 0 .. Len(f.data), n - 0 = n
  <2>4. k.rxq \o SubSeq(f.data, 1, n) \in Seq(Nat) /\ Len(k.rxq \o SubSeq(f.data, 1, n)) = Len(k.rxq) + n
    BY <1>1, <2>3, ConcatProperties
  <2>5. Len(k.rxq \o SubSeq(f.data, 1, n)) <= RxCap
    <3>1. Len(k.rxq) + n <= RxCap
      BY ONLY <1>1, <2>2, Space, Len(k.rxq) \in Nat, Len(f.data) \in Nat
    <3> QED
      BY <2>4, <3>1
  <2>6. PICK m : m = Add(k.recvd, n + IF f.flags \cap {"fin", "syn"} = {} THEN 0 ELSE 1)
    OBVIOUS
  <2>7. m \in SeqNo
    <3>1. n + (IF f.flags \cap {"fin", "syn"} = {} THEN 0 ELSE 1) \in Nat
      BY <1>1, <2>2
    <3> QED
      BY <1>1, <2>6, <3>1, AddType
  <2>8. CASE f.seq # k.recvd
    BY <1>1, <2>8 DEF OnData, SockOf, SockRec
  <2>9. CASE f.seq = k.recvd
    <3>1. OnData(k, f) = [k EXCEPT !.rxq = k.rxq \o SubSeq(f.data, 1, n), !.recvd = m]
      BY <2>1, <2>6, <2>9 DEF OnData, SockOf, SockRec
    <3>2. OnData(k, f).rxq = k.rxq \o SubSeq(f.data, 1, n) /\ OnData(k, f).txq = k.txq
      BY <3>1 DEF SockOf, SockRec
    <3>3. OnData(k, f) \in SockRec
      BY <3>1, <2>4, <2>7 DEF SockOf, SockRec
    <3> QED
      BY <2>5, <3>2, <3>3 DEF SockOf
  <2> QED
    BY <2>8, <2>9
<1>4. SockOf(OnLastAck(k)) /\ SockOf(OnEstablish(k))
  BY DEF OnLastAck, OnEstablish, SockOf, SockRec, SockStates, Links
<1> QED
  BY <1>2, <1>3, <1>4

\* A SYN keeps the type of the socket.
LEMMA SynTyped ==
  ASSUME NEW k, SockOf(k), NEW f \in Frames, NEW seed \in Seeds
  PROVE  SockOf(OnSyn(k, f, seed))
<1>1. PICK x \in SeqNo, y \in SeqNo, z \in SeqNo : x = Add(f.seq, 1) /\ y = f.seq /\ z = seed
  BY Space, AddType DEF Frames
<1>2. PICK w \in 0 .. RxCap : w = RxCap - Len(k.rxq)
  BY Space, LenProperties DEF SockOf, SockRec
<1>3. PICK st \in SockStates, lo \in Links, re \in Links :
        /\ st = IF k.state = "listen" THEN "establishing" ELSE "established"
        /\ lo = IF k.state = "listen" THEN k.loc ELSE "open"
        /\ re = IF k.state = "listen" THEN k.rem ELSE "open"
  BY DEF SockOf, SockRec, SockStates, Links
<1>4. \/ OnSyn(k, f, seed) = k
      \/ OnSyn(k, f, seed) = [k EXCEPT !.recvd = x, !.acked = y, !.rxwin = w, !.start = z,
                                       !.state = st, !.loc = lo, !.rem = re]
  BY <1>1, <1>2, <1>3 DEF OnSyn, SockOf, SockRec
<1>5. OnSyn(k, f, seed) \in SockRec
  BY <1>4 DEF SockOf, SockRec
<1>6. OnSyn(k, f, seed).rxq = k.rxq /\ OnSyn(k, f, seed).txq = k.txq
  BY <1>4 DEF SockOf, SockRec
<1> QED
  BY <1>5, <1>6 DEF SockOf

\* So does a whole frame.
LEMMA IncomingTyped ==
  ASSUME NEW k, SockOf(k), NEW f \in Frames, NEW seed \in Seeds
  PROVE  SockOf(TcpIncoming(k, f, seed))
<1>1. SockOf(OnRst(k, f))
  BY DEF OnRst, SockOf, SockRec, SockStates
<1>2. SockOf(OnSyn(OnRst(k, f), f, seed))
  BY <1>1, SynTyped
<1>3. ASSUME NEW j, SockOf(j) PROVE SockOf(OnFin(OnAck(j, f), f))
  <2>1. SockOf(OnAck(j, f))
    BY <1>3, AckTyped DEF OnAck
  <2> QED
    BY <2>1 DEF OnFin, SockOf, SockRec, SockStates, Links
<1> QED
  BY <1>1, <1>2, <1>3 DEF TcpIncoming

-----------------------------------------------------------------------------
\* The frame Output builds, and its fields.
LEMMA FrameOut ==
  ASSUME Types, out.ph = "alloc"
  PROVE  /\ TxFrame \in Frames /\ TxEnd \in SeqNo
         /\ out.flags \subseteq Flags /\ out # Idle
         /\ TxFrame.flags = out.flags /\ TxFrame.seq = sk.start /\ TxFrame.ack = sk.recvd
         /\ TxFrame.win = RxCap - Len(sk.rxq) /\ TxFrame.data = sk.txq
<1>1. out \in [ph : {"alloc"}, flags : SUBSET Flags]
  BY DEF Types, OutTyped, Idle
<1>2. /\ sk.rxq \in Seq(Nat) /\ Len(sk.rxq) \in 0 .. RxCap /\ sk.txq \in Seq(Nat) /\ Len(sk.txq) \in Nat
      /\ sk.start \in SeqNo /\ sk.recvd \in SeqNo
  BY Space, LenProperties DEF Types, SockOf, SockRec
<1>3. RxCap - Len(sk.rxq) \in 0 .. RxCap
  <2>1. PICK c \in 0 .. RxCap : c = Len(sk.rxq)
    BY <1>2
  <2>2. RxCap - c \in 0 .. RxCap
    BY Space
  <2> QED
    BY <2>1, <2>2
<1>4. Len(sk.txq) + (IF out.flags \cap {"syn", "fin"} = {} THEN 0 ELSE 1) \in Nat
  <2>1. PICK L \in Nat : L = Len(sk.txq)
    BY <1>2
  <2>2. L + 0 \in Nat /\ L + 1 \in Nat
    OBVIOUS
  <2> QED
    BY <2>1, <2>2
<1>5. TxEnd \in SeqNo
  BY <1>2, <1>4, AddType DEF TxEnd
<1>6. out # Idle
  BY DEF Idle
<1> QED
  BY <1>1, <1>2, <1>3, <1>5, <1>6 DEF TxFrame, TcpSeg, Frames

\* A frame the peer sends, and where it goes.
LEMMA FrameIn ==
  ASSUME NEW fl \in SUBSET Flags, NEW x \in SeqNo, NEW a \in SeqNo, NEW d \in Seq(Nat)
  PROVE  /\ TcpSeg(fl, x, a, 0, d) \in Frames
         /\ TcpSeg(fl, x, a, 0, d).flags = fl /\ TcpSeg(fl, x, a, 0, d).seq = x
         /\ TcpSeg(fl, x, a, 0, d).ack = a /\ TcpSeg(fl, x, a, 0, d).data = d
<1>1. 0 \in 0 .. RxCap
  BY Space
<1> QED
  BY <1>1 DEF TcpSeg, Frames

\* The peer takes a segment of the connection.
Takes(p, f) == [p EXCEPT !.st = IF @ = "synrcvd" THEN "est" ELSE @,
                         !.una = IF Minus(f.ack, PeerSeq(0)) >= @ THEN Minus(f.ack, PeerSeq(0)) ELSE @,
                         !.wnd = IF Minus(f.ack, PeerSeq(0)) >= p.una THEN f.win ELSE @,
                         !.got = IF Minus(p.rcv, f.seq) <= Len(f.data)
                                 THEN @ \o SubSeq(f.data, Minus(p.rcv, f.seq) + 1, Len(f.data)) ELSE @,
                         !.rcv = IF Minus(p.rcv, f.seq) <= Len(f.data)
                                 THEN Add(f.seq, Len(f.data) + IF "fin" \in f.flags THEN 1 ELSE 0) ELSE @]

\* What the peer does with a frame, one case per line.
LEMMA PeerCases ==
  ASSUME NEW p \in PeerRec, NEW f \in Frames
  PROVE  \/ /\ p.st = "listen" /\ "syn" \in f.flags
            /\ PeerAfter(p, f) = [p EXCEPT !.st = "synrcvd", !.rcv = Add(f.seq, 1)]
         \/ /\ p.st = "syn" /\ f.flags = {"syn", "ack"} /\ f.ack = PeerSeq(0)
            /\ PeerAfter(p, f) = [p EXCEPT !.st = "est", !.rcv = Add(f.seq, 1), !.wnd = f.win]
         \/ /\ p.st \in {"synrcvd", "est", "fin"} /\ "ack" \in f.flags /\ "syn" \notin f.flags
            /\ Minus(f.ack, PeerSeq(0)) <= RxLen + 1
            /\ PeerAfter(p, f) = Takes(p, f)
         \/ PeerAfter(p, f) = p
BY DEF PeerAfter, Takes

\* Its fields afterwards.
LEMMA TakesFields ==
  ASSUME NEW p \in PeerRec, NEW f \in Frames, Minus(f.ack, PeerSeq(0)) <= RxLen + 1
  PROVE  /\ Takes(p, f) \in PeerRec
         /\ Takes(p, f).st = IF p.st = "synrcvd" THEN "est" ELSE p.st
         /\ Takes(p, f).una = IF Minus(f.ack, PeerSeq(0)) >= p.una THEN Minus(f.ack, PeerSeq(0)) ELSE p.una
         /\ Takes(p, f).wnd = IF Minus(f.ack, PeerSeq(0)) >= p.una THEN f.win ELSE p.wnd
         /\ Minus(p.rcv, f.seq) <= Len(f.data) =>
              /\ Takes(p, f).got = p.got \o SubSeq(f.data, Minus(p.rcv, f.seq) + 1, Len(f.data))
              /\ Takes(p, f).rcv = Add(f.seq, Len(f.data) + IF "fin" \in f.flags THEN 1 ELSE 0)
         /\ ~(Minus(p.rcv, f.seq) <= Len(f.data)) => Takes(p, f).got = p.got /\ Takes(p, f).rcv = p.rcv
<1>1. /\ f.seq \in SeqNo /\ f.ack \in SeqNo /\ f.data \in Seq(Nat) /\ f.win \in 0 .. RxCap /\ f.flags \subseteq Flags
      /\ p.rcv \in SeqNo /\ p.una \in 0 .. RxLen + 1 /\ p.wnd \in 0 .. RxCap /\ p.got \in Seq(Nat) /\ p.st \in PeerStates
  BY DEF Frames, PeerRec
<1>2. PICK L \in Nat : L = Len(f.data)
  BY <1>1, LenProperties
<1>3. PICK h \in SeqNo : h = Minus(p.rcv, f.seq)
  BY <1>1, Positions
<1>4. PICK c \in SeqNo : c = Minus(f.ack, PeerSeq(0))
  <2>1. PeerSeq(0) \in SeqNo
    BY Space, AddType, 1 + 0 \in Nat DEF PeerSeq
  <2> QED
    BY <1>1, <2>1, Positions
<1>5. c \in 0 .. RxLen + 1 /\ h \in Nat
  BY <1>4, Space DEF SeqNo
<1>6. h <= L => SubSeq(f.data, h + 1, L) \in Seq(Nat)
  <2> SUFFICES ASSUME h <= L PROVE SubSeq(f.data, h + 1, L) \in Seq(Nat)
    OBVIOUS
  <2>1. h \in 0 .. Len(f.data) /\ L \in h .. Len(f.data)
    BY <1>2, <1>5
  <2> QED
    BY <1>1, <2>1, Rest
<1>7. h <= L => p.got \o SubSeq(f.data, h + 1, L) \in Seq(Nat)
  BY <1>1, <1>6, ConcatProperties
<1>8. PICK e \in SeqNo : e = Add(f.seq, L + IF "fin" \in f.flags THEN 1 ELSE 0)
  <2>1. L + (IF "fin" \in f.flags THEN 1 ELSE 0) \in Nat
    OBVIOUS
  <2> QED
    BY <1>1, <2>1, AddType
<1>9. PICK g \in Seq(Nat) : g = IF h <= L THEN p.got \o SubSeq(f.data, h + 1, L) ELSE p.got
  BY <1>1, <1>7
<1>10. Takes(p, f) = [p EXCEPT !.st = IF @ = "synrcvd" THEN "est" ELSE @, !.una = IF c >= @ THEN c ELSE @,
                               !.wnd = IF c >= p.una THEN f.win ELSE @, !.got = g,
                               !.rcv = IF h <= L THEN e ELSE @]
  BY <1>2, <1>3, <1>4, <1>8, <1>9 DEF Takes, PeerRec
<1>11. /\ Takes(p, f).st = IF p.st = "synrcvd" THEN "est" ELSE p.st
       /\ Takes(p, f).una = IF c >= p.una THEN c ELSE p.una
       /\ Takes(p, f).wnd = IF c >= p.una THEN f.win ELSE p.wnd
       /\ Takes(p, f).got = g
       /\ Takes(p, f).rcv = IF h <= L THEN e ELSE p.rcv
  BY <1>10 DEF PeerRec
<1>12. Takes(p, f) \in PeerRec
  <2>1. (IF p.st = "synrcvd" THEN "est" ELSE p.st) \in PeerStates
    BY <1>1 DEF PeerStates
  <2>2. (IF c >= p.una THEN c ELSE p.una) \in 0 .. RxLen + 1 /\ (IF c >= p.una THEN f.win ELSE p.wnd) \in 0 .. RxCap
    BY <1>1, <1>5
  <2> QED
    BY <1>1, <1>10, <2>1, <2>2 DEF PeerRec
<1> QED
  BY <1>2, <1>3, <1>4, <1>8, <1>9, <1>11, <1>12

\* A frame keeps the type of the peer.
LEMMA PeerTyped ==
  ASSUME NEW p \in PeerRec, NEW f \in Frames
  PROVE  PeerAfter(p, f) \in PeerRec
<1>1. Add(f.seq, 1) \in SeqNo /\ f.win \in 0 .. RxCap
  BY AddType DEF Frames
<1>2. CASE PeerAfter(p, f) = [p EXCEPT !.st = "synrcvd", !.rcv = Add(f.seq, 1)]
  BY <1>1, <1>2 DEF PeerRec, PeerStates
<1>3. CASE PeerAfter(p, f) = [p EXCEPT !.st = "est", !.rcv = Add(f.seq, 1), !.wnd = f.win]
  BY <1>1, <1>3 DEF PeerRec, PeerStates
<1>4. CASE Minus(f.ack, PeerSeq(0)) <= RxLen + 1 /\ PeerAfter(p, f) = Takes(p, f)
  BY <1>4, TakesFields
<1> QED
  BY <1>2, <1>3, <1>4, PeerCases

\* Every step keeps the types.
LEMMA TypesStep == Types /\ TcpNext => Types'
<1> SUFFICES ASSUME Types, TcpNext PROVE Types'
  OBVIOUS
<1> USE DEF Types
<1>0. /\ sk \in SockRec /\ sk.rxq \in Seq(Nat) /\ sk.txq \in Seq(Nat)
      /\ Len(sk.rxq) \in 0 .. RxCap /\ Len(sk.txq) \in 0 .. TxCap
  BY Space, LenProperties DEF SockOf, SockRec
<1>1. CASE Input
  <2>1. PICK f \in toSock, seed \in Seeds : sk' = TcpIncoming(sk, f, seed) /\ toSock' \in {toSock, toSock \ {f}}
    BY <1>1 DEF Input
  <2>2. SockOf(sk')
    BY <2>1, IncomingTyped DEF NetTyped
  <2> QED
    BY <1>1, <2>1, <2>2 DEF Input, appVars, OutTyped, AppTyped, NetTyped
<1>2. CASE OutPick
  <2>1. TxFlags \subseteq Flags
    BY <1>2, <1>0 DEF OutPick, TxFlags, SockRec, SockStates, Flags
  <2>2. out' \in [ph : {"alloc"}, flags : SUBSET Flags]
    BY <1>2, <2>1 DEF OutPick
  <2> QED
    BY <1>2, <2>2 DEF OutPick, appVars, links, OutTyped, AppTyped, NetTyped, SockOf
<1>3. CASE OutStalled \/ Reset
  BY <1>3 DEF OutStalled, Reset, appVars, links, OutTyped, AppTyped, NetTyped, SockOf, SockRec, SockStates
<1>4. CASE OutFailed
  <2>1. TxEnd \in SeqNo
    BY <1>4, FrameOut DEF OutFailed
  <2>2. SockOf(sk')
    BY <1>4, <2>1 DEF OutFailed, SockOf, SockRec
  <2> QED
    BY <1>4, <2>2 DEF OutFailed, appVars, links, OutTyped, AppTyped, NetTyped
<1>5. CASE OutSent
  <2>1. TxEnd \in SeqNo /\ TxFrame \in Frames /\ out.flags \subseteq Flags
    BY <1>5, FrameOut DEF OutSent
  <2>2. TxFrame.win \in 0 .. RxCap
    BY <2>1 DEF Frames
  <2>3. SockOf(sk')
    BY <1>5, <2>1, <2>2 DEF OutSent, SockOf, SockRec, SockStates, Links
  <2>4. toPeer' \subseteq Frames
    BY <1>5, <2>1 DEF OutSent, NetTyped
  <2> QED
    BY <1>5, <2>3, <2>4 DEF OutSent, appVars, OutTyped, AppTyped, NetTyped
<1>6. CASE ListenCall \/ ConnectCall
  <2>1. \A st \in SockStates : SockOf(Opened(st))
    <3> SUFFICES ASSUME NEW st \in SockStates PROVE SockOf(Opened(st))
      OBVIOUS
    <3>1. <<>> \in Seq(Nat) /\ Len(<<>>) <= RxCap /\ Len(<<>>) <= TxCap
      BY EmptySeq, Space
    <3>2. Opened(st).rxq = <<>> /\ Opened(st).txq = <<>>
      BY <1>0 DEF Opened, SockRec
    <3>3. Opened(st) \in SockRec
      BY <1>0, <3>1 DEF Opened, SockRec, Links
    <3> QED
      BY <3>1, <3>2, <3>3 DEF SockOf
  <2>2. SockOf(sk')
    <3>1. CASE ListenCall
      BY <2>1, <3>1 DEF ListenCall, SockStates
    <3>2. CASE ConnectCall
      <4>1. PICK now \in Seeds : sk' = [Opened("connect") EXCEPT !.start = now]
        BY <3>2 DEF ConnectCall
      <4>2. SockOf(Opened("connect")) /\ now \in SeqNo
        BY <2>1, Space DEF SockStates
      <4> QED
        BY <4>1, <4>2 DEF SockOf, SockRec
    <3> QED
      BY <1>6, <3>1, <3>2
  <2> QED
    BY <1>6, <2>2 DEF ListenCall, ConnectCall, links, OutTyped, AppTyped, NetTyped
<1>7. CASE OpenReturn \/ CloseReturn \/ CloseTimeout
  BY <1>7 DEF OpenReturn, CloseReturn, CloseTimeout, links, OutTyped, AppTyped, NetTyped, SockOf, SockRec, SockStates
<1>8. CASE Send
  <2>1. PICK n \in 1 .. Lesser(TxLen - written, TxCap - Len(sk.txq)) :
          /\ sk' = [sk EXCEPT !.txq = @ \o Bytes(written, n)]
          /\ written' = written + n
    BY <1>8 DEF Send
  <2>2. PICK L \in 0 .. TxCap : L = Len(sk.txq)
    BY <1>0
  <2>3. PICK w \in 0 .. TxLen : w = written
    BY DEF AppTyped
  <2>4. n \in Nat /\ L + n <= TxCap /\ w + n <= TxLen
    <3>1. TxLen - w \in Nat /\ TxCap - L \in Nat
      BY Space
    <3>2. Lesser(TxLen - w, TxCap - L) \in Nat /\ Lesser(TxLen - w, TxCap - L) <= TxLen - w
                                        /\ Lesser(TxLen - w, TxCap - L) <= TxCap - L
      BY <3>1 DEF Lesser
    <3>3. n \in 1 .. Lesser(TxLen - w, TxCap - L)
      BY <2>2, <2>3
    <3> QED
      BY <3>2, <3>3, Space
  <2>5. Bytes(written, n) \in Seq(Nat) /\ Len(Bytes(written, n)) = n
    BY <2>3, <2>4, BytesType, w \in Nat
  <2>6. sk.txq \o Bytes(written, n) \in Seq(Nat) /\ Len(sk.txq \o Bytes(written, n)) = L + n
    <3>1. /\ sk.txq \o Bytes(written, n) \in Seq(Nat)
          /\ Len(sk.txq \o Bytes(written, n)) = Len(sk.txq) + Len(Bytes(written, n))
      BY <1>0, <2>5, ConcatProperties
    <3> QED
      BY <2>2, <2>5, <3>1
  <2>7. SockOf(sk')
    <3>1. PICK q \in Seq(Nat) : q = sk.txq \o Bytes(written, n) /\ Len(q) <= TxCap
      BY <2>4, <2>6
    <3>2. sk' = [sk EXCEPT !.txq = q]
      BY <2>1, <3>1
    <3> QED
      BY <1>0, <3>1, <3>2 DEF SockOf, SockRec
  <2>8. written' \in 0 .. TxLen
    <3>1. PICK k \in Nat : k = n /\ w + k <= TxLen
      BY <2>4
    <3>2. w + k \in 0 .. TxLen
      BY <3>1, Space
    <3> QED
      BY <2>1, <2>3, <3>1, <3>2
  <2> QED
    BY <1>8, <2>7, <2>8 DEF Send, links, OutTyped, AppTyped, NetTyped
<1>9. CASE Recv
  <2>1. PICK n \in 1 .. Len(sk.rxq) : sk' = [sk EXCEPT !.rxq = SubSeq(@, n + 1, Len(@))] /\ taken' = taken + n
    BY <1>9 DEF Recv
  <2>2. n \in 0 .. Len(sk.rxq) /\ Len(sk.rxq) \in n .. Len(sk.rxq)
    BY <1>0, Space
  <2>3. SubSeq(sk.rxq, n + 1, Len(sk.rxq)) \in Seq(Nat) /\ Len(SubSeq(sk.rxq, n + 1, Len(sk.rxq))) = Len(sk.rxq) - n
    BY <1>0, <2>2, Rest
  <2>4. Len(SubSeq(sk.rxq, n + 1, Len(sk.rxq))) <= RxCap
    <3>1. PICK c \in 0 .. RxCap : c = Len(sk.rxq)
      BY <1>0
    <3> QED
      BY <2>2, <2>3, <3>1, Space
  <2>5. SockOf(sk')
    BY <1>0, <2>1, <2>3, <2>4 DEF SockOf, SockRec
  <2> QED
    BY <1>9, <2>1, <2>2, <2>5 DEF Recv, links, OutTyped, AppTyped, NetTyped
<1>10. CASE CloseCall \/ CloseFlushed
  <2>1. SockOf(sk')
    BY <1>10, <1>0 DEF CloseCall, CloseFlushed, CloseLink, SockOf, SockRec, SockStates, Links
  <2> QED
    BY <1>10, <2>1 DEF CloseCall, CloseFlushed, links, OutTyped, AppTyped, NetTyped
<1>11. CASE PeerSyn \/ PeerSynAck \/ PeerRst
  <2>1. \A fl \in SUBSET Flags, x \in SeqNo, a \in SeqNo : TcpSeg(fl, x, a, 0, <<>>) \in Frames
    BY FrameIn, EmptySeq
  <2>2. peer.rcv \in SeqNo /\ PeerSeq(peer.una) \in SeqNo
    <3>1. peer.rcv \in SeqNo /\ peer.una \in Nat /\ 1 + peer.una \in Nat
      BY Space DEF PeerRec
    <3> QED
      BY <3>1, Space, AddType DEF PeerSeq
  <2>3. \A fl \in SUBSET Flags, x \in SeqNo, a \in SeqNo : ToSock(TcpSeg(fl, x, a, 0, <<>>)) => toSock' \subseteq Frames
    BY <2>1 DEF ToSock, NetTyped
  <2>4. toSock' \subseteq Frames
    <3>1. {"syn"} \subseteq Flags /\ {"syn", "ack"} \subseteq Flags /\ {"rst", "ack"} \subseteq Flags
      BY DEF Flags
    <3> QED
      BY <1>11, <2>2, <2>3, <3>1, Space DEF PeerSyn, PeerSynAck, PeerRst
  <2>5. peer' \in PeerRec
    BY <1>11 DEF PeerSyn, PeerSynAck, PeerRst, PeerRec, PeerStates
  <2> QED
    BY <1>11, <2>4, <2>5 DEF PeerSyn, PeerSynAck, PeerRst, appVars, OutTyped, AppTyped, NetTyped
<1>12. CASE PeerSend
  <2>1. PICK n \in 0 .. Lesser(RxLen - Lesser(peer.una, RxLen), IF peer.wnd = 0 THEN 1 ELSE peer.wnd), fin \in BOOLEAN :
          ToSock(TcpSeg(IF fin THEN {"ack", "fin"} ELSE {"ack"}, PeerSeq(peer.una), peer.rcv, 0, Bytes(peer.una, n)))
    BY <1>12 DEF PeerSend
  <2>2. peer.rcv \in SeqNo /\ peer.una \in Nat /\ 1 + peer.una \in Nat
    BY Space DEF PeerRec
  <2>3. n \in Nat
    OBVIOUS
  <2>4. Bytes(peer.una, n) \in Seq(Nat) /\ PeerSeq(peer.una) \in SeqNo
    BY <2>2, <2>3, BytesType, Space, AddType DEF PeerSeq
  <2>5. PICK fl \in SUBSET Flags : fl = IF fin THEN {"ack", "fin"} ELSE {"ack"}
    BY DEF Flags
  <2>6. TcpSeg(fl, PeerSeq(peer.una), peer.rcv, 0, Bytes(peer.una, n)) \in Frames
    BY <2>2, <2>4, FrameIn
  <2>7. toSock' \subseteq Frames
    BY <2>1, <2>5, <2>6 DEF ToSock, NetTyped
  <2> QED
    BY <1>12, <2>7 DEF PeerSend, appVars, OutTyped, AppTyped, NetTyped
<1>13. CASE PeerFin
  BY <1>13 DEF PeerFin, appVars, links, OutTyped, AppTyped, NetTyped, PeerRec, PeerStates
<1>14. CASE PeerRecv
  <2>1. PICK f \in toPeer : peer' = PeerAfter(peer, f) /\ toPeer' \in {toPeer, toPeer \ {f}}
    BY <1>14 DEF PeerRecv
  <2>2. peer' \in PeerRec
    BY <2>1, PeerTyped DEF NetTyped
  <2> QED
    BY <1>14, <2>1, <2>2 DEF PeerRecv, appVars, OutTyped, AppTyped, NetTyped
<1> QED
  BY <1>1, <1>2, <1>3, <1>4, <1>5, <1>6, <1>7, <1>8, <1>9, <1>10, <1>11, <1>12, <1>13, <1>14
  DEF TcpNext, Sock, Remote

-----------------------------------------------------------------------------
(* The invariant.  A position is a distance behind the first number of a   *)
(* stream: 0 is the SYN, n the n-th byte, the number behind the last byte  *)
(* the FIN.                                                                *)

Got == taken + Len(sk.rxq)
Room == RxCap - Len(sk.rxq)
Dropped == written - Len(sk.txq)
NoMore == sk.state # "established" /\ sk.loc # "open"
RPos(x) == Minus(x, PeerIss)

\* Before the handshake has come back: a passive and an active open.
Passive ==
  /\ sk.state \in {"closed", "listen"} /\ peer.st \in {"closed", "syn"}
  /\ out = Idle /\ toPeer = {}
  /\ \A f \in toSock : peer.st = "syn" /\ f.flags = {"syn"} /\ f.seq = PeerIss /\ f.data = <<>>

Active(iss) ==
  /\ sk.state \in {"closed", "connect"} /\ peer.st \in {"listen", "synrcvd"}
  /\ out = Idle \/ out.flags = {"syn"}
  /\ IF used THEN sk.start = iss ELSE out = Idle /\ peer.st = "listen" /\ toPeer = {}
  /\ peer.st = "synrcvd" \/ toPeer # {} => Minus(sk.end, iss) = 1
  /\ peer.st = "synrcvd" => Minus(peer.rcv, iss) = 1
  /\ \A f \in toPeer : f.flags = {"syn"} /\ f.seq = iss
  /\ \A f \in toSock : /\ peer.st = "synrcvd" /\ f.flags = {"syn", "ack"}
                       /\ f.seq = PeerIss /\ f.data = <<>> /\ Minus(f.ack, iss) = 1

Quiet(iss) ==
  /\ sk.loc = "closed" /\ sk.rem = "closed" /\ sk.rxq = <<>> /\ sk.txq = <<>>
  /\ taken = 0 /\ written = 0
  /\ peer.got = <<>> /\ peer.una = 0 /\ peer.wnd = 0
  /\ ~used => sk.state = "closed"
  /\ Passive \/ Active(iss)

\* The stream from the peer: the socket counts what it stored, the peer and
\* every frame under way are at most as far, and a window that is not stale
\* is no larger than the room there is, so that the FIN is only taken behind
\* all data.
RecvSock ==
  /\ Got <= RxLen
  /\ RPos(sk.recvd) = Got + 1 \/ (RPos(sk.recvd) = Got + 2 /\ Got = RxLen)
  /\ sk.rxq = Bytes(taken, Len(sk.rxq))

PeerWindow == peer.una < RPos(sk.recvd) /\ (peer.una = Got => peer.wnd <= Room)

AckOut(f) == /\ 1 <= RPos(f.ack) /\ RPos(f.ack) <= RPos(sk.recvd)
             /\ RPos(f.ack) = Got + 1 => f.win <= Room

DataIn(f) ==
  /\ 1 <= RPos(f.seq) /\ RPos(f.seq) <= RPos(sk.recvd)
  /\ f.data = Bytes(RPos(f.seq) - 1, Len(f.data))
  /\ f.data = <<>> \/ RPos(f.seq) - 1 + Len(f.data) <= RxLen
  /\ "fin" \in f.flags => /\ RPos(f.seq) - 1 + Len(f.data) = RxLen
                          /\ RPos(f.seq) = Got + 1 => Len(f.data) <= Room

Receiving ==
  /\ RecvSock /\ PeerWindow
  /\ \A f \in toPeer : "ack" \notin f.flags \/ AckOut(f)
  /\ \A f \in toSock : "syn" \in f.flags \/ ("ack" \in f.flags /\ DataIn(f))

\* The stream to the peer: our SYN is not acknowledged yet ...
Opening(iss) ==
  /\ sk.start = iss
  /\ sk.state \in {"establishing", "closed"} /\ sk.loc = "closed" /\ sk.rem = "closed"
  /\ written = 0 /\ sk.txq = <<>> /\ peer.got = <<>>
  /\ peer.st \in {"syn", "est", "fin", "done"}
  /\ out = Idle \/ out.flags = {"syn", "ack"}
  /\ (toPeer = {} /\ peer.st = "syn") \/ (Minus(sk.end, iss) = 1 /\ sk.txflags = {"syn", "ack"})
  /\ IF peer.st = "syn" THEN peer.una = 0 ELSE Minus(peer.rcv, iss) = 1
  /\ \A f \in toPeer : f.flags = {"syn", "ack"} /\ f.seq = iss
  /\ \A f \in toSock : "ack" \in f.flags => peer.st # "syn" /\ Minus(f.ack, iss) = 1

\* ... or it is: txq is the end of what was written, the socket is at most as
\* far as the peer and, once the FIN counts, nothing more is written.
OpenSock(iss) ==
  /\ sk.state \in {"closed", "established", "closing"}
  /\ Dropped >= 0 /\ sk.txq = Bytes(Dropped, Len(sk.txq))
  /\ \/ Minus(sk.start, iss) = Dropped + 1
     \/ Minus(sk.start, iss) = written + 2 /\ sk.txq = <<>> /\ sk.loc = "closed"
  /\ Minus(sk.start, iss) <= Minus(sk.end, iss) /\ Minus(sk.end, iss) <= written + 2

PeerGot(iss) ==
  /\ peer.st \in {"synrcvd", "est", "fin", "done"}
  /\ peer.got = Bytes(0, Len(peer.got)) /\ Len(peer.got) <= written
  /\ \/ Minus(peer.rcv, iss) = Len(peer.got) + 1
     \/ Minus(peer.rcv, iss) = written + 2 /\ Len(peer.got) = written /\ NoMore
  /\ Minus(sk.start, iss) <= Minus(peer.rcv, iss)

OutOpen(iss) ==
  out = Idle \/ /\ "ack" \in out.flags /\ "syn" \notin out.flags
                /\ "fin" \in out.flags => NoMore /\ Minus(sk.start, iss) = Dropped + 1

Segment(iss, f) ==
  /\ 1 <= Minus(f.seq, iss) /\ Minus(f.seq, iss) <= Minus(peer.rcv, iss)
  /\ f.data = Bytes(Minus(f.seq, iss) - 1, Len(f.data))
  /\ \/ Minus(f.seq, iss) - 1 + Len(f.data) <= written
     \/ f.data = <<>> /\ Minus(f.seq, iss) = written + 2
  /\ "fin" \in f.flags => NoMore /\ Minus(f.seq, iss) - 1 + Len(f.data) = written

AckIn(iss, f) == 1 <= Minus(f.ack, iss) /\ Minus(f.ack, iss) <= Minus(peer.rcv, iss)

Open(iss) ==
  /\ OpenSock(iss) /\ PeerGot(iss) /\ OutOpen(iss)
  /\ \A f \in toPeer : "syn" \in f.flags \/ ("ack" \in f.flags /\ Segment(iss, f))
  /\ \A f \in toSock : "ack" \notin f.flags \/ AckIn(iss, f)

Synced(iss) == used /\ Receiving /\ (Opening(iss) \/ Open(iss))

Conn == \E iss \in SeqNo : Quiet(iss) \/ Synced(iss)
Linked == sk.state = "established" => sk.loc = "open" /\ sk.rem = "open"
TcpIInv == Types /\ Linked /\ Conn
-----------------------------------------------------------------------------
\* The numbers in a state are of their types.
Numbers ==
  /\ Len(sk.rxq) \in 0 .. RxCap /\ Len(sk.txq) \in Nat /\ Len(peer.got) \in Nat
  /\ Got \in Nat /\ Room \in Nat /\ Dropped \in Int /\ written \in 0 .. TxLen /\ taken \in Nat
  /\ sk.recvd \in SeqNo /\ sk.start \in SeqNo /\ sk.end \in SeqNo /\ peer.rcv \in SeqNo
  /\ peer.una \in 0 .. RxLen + 1 /\ peer.wnd \in Nat
  /\ \A f \in toPeer \cup toSock : /\ f.seq \in SeqNo /\ f.ack \in SeqNo /\ f.win \in Nat
                                   /\ Len(f.data) \in Nat /\ f.data \in Seq(Nat) /\ f.flags \subseteq Flags

\* They follow from the types ...
LEMMA NumbersNow == Types => Numbers
<1> SUFFICES ASSUME Types PROVE Numbers
  OBVIOUS
<1>1. /\ sk \in SockRec /\ sk.rxq \in Seq(Nat) /\ sk.txq \in Seq(Nat) /\ peer.got \in Seq(Nat)
      /\ Len(sk.rxq) <= RxCap
  BY DEF Types, SockOf, SockRec, PeerRec
<1>2. Len(sk.rxq) \in 0 .. RxCap /\ Len(sk.txq) \in Nat /\ Len(peer.got) \in Nat
  BY <1>1, LenProperties, Space
<1>3. written \in 0 .. TxLen /\ taken \in Nat
  BY DEF Types, AppTyped
<1>4. Got \in Nat /\ Room \in Nat /\ Dropped \in Int
  <2>1. PICK c \in 0 .. RxCap, d \in Nat : c = Len(sk.rxq) /\ d = Len(sk.txq)
    BY <1>2
  <2>2. taken + c \in Nat /\ RxCap - c \in Nat /\ written - d \in Int
    BY <1>3, Space
  <2> QED
    BY <2>1, <2>2 DEF Got, Room, Dropped
<1>5. \A f \in Frames : /\ f.seq \in SeqNo /\ f.ack \in SeqNo /\ f.win \in Nat
                        /\ Len(f.data) \in Nat /\ f.data \in Seq(Nat) /\ f.flags \subseteq Flags
  BY LenProperties, Space DEF Frames
<1>6. toPeer \cup toSock \subseteq Frames
  BY DEF Types, NetTyped
<1>7. /\ sk.recvd \in SeqNo /\ sk.start \in SeqNo /\ sk.end \in SeqNo /\ peer.rcv \in SeqNo
      /\ peer.una \in 0 .. RxLen + 1 /\ peer.wnd \in Nat
  BY Space DEF Types, SockOf, SockRec, PeerRec
<1> QED
  BY <1>2, <1>3, <1>4, <1>5, <1>6, <1>7 DEF Numbers

\* ... in the next state as well.
LEMMA NumbersNext == Types' => Numbers'
BY NumbersNow, PTL

\* A position is a number below SeqSpace.
LEMMA PosType ==
  ASSUME NEW x \in SeqNo, NEW b \in SeqNo
  PROVE  Minus(x, b) \in Nat /\ Minus(x, b) < SeqSpace
<1>1. Minus(x, b) \in SeqNo
  BY Positions
<1> QED
  BY <1>1, Space DEF SeqNo

\* How the receiving half may move.
LEMMA RecvStep ==
  ASSUME Types, Types', Receiving, RecvSock',
         RPos(sk.recvd) <= RPos(sk'.recvd),
         \/ Got' = Got /\ Room <= Room'
         \/ RPos(sk.recvd) = Got + 1 /\ Got < Got',
         (peer'.una = peer.una /\ peer'.wnd = peer.wnd) \/ PeerWindow',
         \A f \in toPeer' : f \in toPeer \/ "ack" \notin f.flags \/ AckOut(f)',
         \A f \in toSock' : f \in toSock \/ "syn" \in f.flags \/ ("ack" \in f.flags /\ DataIn(f)')
  PROVE  Receiving'
<1> USE DEF RPos
<1>1. Numbers /\ Numbers' /\ PeerIss \in SeqNo
  BY NumbersNow, NumbersNext, Space
<1>2. PICK m \in Nat, n \in Nat, g \in Nat, h \in Nat, c \in Nat, d \in Nat :
        /\ m = RPos(sk.recvd) /\ n = RPos(sk'.recvd) /\ g = Got /\ h = Got' /\ c = Room /\ d = Room'
        /\ m <= n /\ ((h = g /\ c <= d) \/ (m = g + 1 /\ g < h))
  BY <1>1, PosType DEF Numbers
<1>3. PeerWindow'
  <2>1. CASE PeerWindow'
    BY <2>1
  <2>2. CASE peer'.una = peer.una /\ peer'.wnd = peer.wnd
    <3>0. PICK a \in Nat, b \in Nat : a = peer.una /\ b = peer.wnd
      BY <1>1 DEF Numbers
    <3>1. a < m /\ (a = g => b <= c)
      BY <1>2, <3>0 DEF Receiving, PeerWindow
    <3>2. a < n /\ (a = h => b <= d)
      BY <1>2, <3>1
    <3> QED
      BY <1>2, <2>2, <3>0, <3>2 DEF PeerWindow
  <2> QED
    BY <2>1, <2>2
<1>4. ASSUME NEW f \in toPeer', "ack" \in f.flags PROVE AckOut(f)'
  <2>1. CASE AckOut(f)'
    BY <2>1
  <2>2. CASE f \in toPeer
    <3>1. PICK a \in Nat : a = Minus(f.ack, PeerIss) /\ f.win \in Nat
      BY <2>2, <1>1, PosType DEF Numbers
    <3>2. 1 <= a /\ a <= m /\ (a = g + 1 => f.win <= c)
      BY <1>2, <1>4, <2>2, <3>1 DEF Receiving, AckOut
    <3>3. 1 <= a /\ a <= n /\ (a = h + 1 => f.win <= d)
      BY <1>2, <3>1, <3>2
    <3> QED
      BY <1>2, <3>1, <3>3 DEF AckOut
  <2> QED
    BY <1>4, <2>1, <2>2
<1>5. ASSUME NEW f \in toSock', "syn" \notin f.flags PROVE "ack" \in f.flags /\ DataIn(f)'
  <2>1. CASE "ack" \in f.flags /\ DataIn(f)'
    BY <2>1
  <2>2. CASE f \in toSock
    <3>1. PICK a \in Nat, L \in Nat : a = Minus(f.seq, PeerIss) /\ L = Len(f.data)
      BY <2>2, <1>1, PosType DEF Numbers
    <3>2. "ack" \in f.flags /\ DataIn(f)
      BY <1>5, <2>2 DEF Receiving
    <3>3. /\ 1 <= a /\ a <= m /\ f.data = Bytes(a - 1, L)
          /\ f.data = <<>> \/ a - 1 + L <= RxLen
          /\ "fin" \in f.flags => a - 1 + L = RxLen /\ (a = g + 1 => L <= c)
      BY <1>2, <3>1, <3>2 DEF DataIn
    <3>4. /\ 1 <= a /\ a <= n
          /\ "fin" \in f.flags => a - 1 + L = RxLen /\ (a = h + 1 => L <= d)
      BY <1>2, <3>3
    <3> QED
      BY <1>2, <3>1, <3>2, <3>3, <3>4 DEF DataIn
  <2> QED
    BY <1>5, <2>1, <2>2
<1> QED
  BY <1>3, <1>4, <1>5 DEF Receiving

\* How the sending half may move.
LEMMA OpenStep ==
  ASSUME Types, Types', NEW iss \in SeqNo, Open(iss),
         OpenSock(iss)', PeerGot(iss)', OutOpen(iss)',
         NoMore => NoMore', written' = written \/ (~NoMore /\ written <= written'),
         Minus(peer.rcv, iss) <= Minus(peer'.rcv, iss),
         \A f \in toPeer' : f \in toPeer \/ "syn" \in f.flags \/ ("ack" \in f.flags /\ Segment(iss, f)'),
         \A f \in toSock' : f \in toSock \/ "ack" \notin f.flags \/ AckIn(iss, f)'
  PROVE  Open(iss)'
<1>1. Numbers /\ Numbers'
  BY NumbersNow, NumbersNext
<1>2. PICK r \in Nat, s \in Nat, w \in Nat, v \in Nat, g \in Nat :
        r = Minus(peer.rcv, iss) /\ s = Minus(peer'.rcv, iss) /\ w = written /\ v = written' /\ g = Len(peer.got)
  <2>1. peer.rcv \in SeqNo /\ peer'.rcv \in SeqNo /\ Len(peer.got) \in Nat
    BY <1>1 DEF Numbers
  <2>2. Minus(peer.rcv, iss) \in Nat /\ Minus(peer'.rcv, iss) \in Nat
    BY <2>1, PosType
  <2>3. written \in Nat /\ written' \in Nat
    BY <1>1, Space DEF Numbers
  <2> QED
    BY <2>1, <2>2, <2>3
<1>r. /\ r <= s /\ g <= w /\ (r = g + 1 \/ (r = w + 2 /\ NoMore))
      /\ v = w \/ (~NoMore /\ w <= v)
  BY <1>2 DEF Open, PeerGot
<1>3. ASSUME NEW f \in toPeer', "syn" \notin f.flags PROVE "ack" \in f.flags /\ Segment(iss, f)'
  <2>1. CASE "ack" \in f.flags /\ Segment(iss, f)'
    BY <2>1
  <2>2. CASE f \in toPeer
    <3>1. PICK q \in Nat, L \in Nat : q = Minus(f.seq, iss) /\ L = Len(f.data)
      BY <2>2, <1>1, PosType DEF Numbers
    <3>2. "ack" \in f.flags /\ Segment(iss, f)
      BY <1>3, <2>2 DEF Open
    <3>3. /\ 1 <= q /\ q <= r /\ f.data = Bytes(q - 1, L)
          /\ q - 1 + L <= w \/ (f.data = <<>> /\ q = w + 2)
          /\ "fin" \in f.flags => NoMore /\ q - 1 + L = w
      BY <1>2, <3>1, <3>2 DEF Segment
    <3>4. q <= s /\ (q - 1 + L <= v \/ (f.data = <<>> /\ q = v + 2))
      <4>1. q <= s
        BY <1>r, <3>3
      <4>2. CASE v = w
        BY <3>3, <4>1, <4>2
      <4>3. CASE ~NoMore /\ w <= v
        <5>1. q <= w + 1
          BY <1>r, <3>3, <4>3
        <5>2. q - 1 + L <= w
          BY <3>3, <5>1
        <5>3. q - 1 + L <= v
          BY <4>3, <5>2
        <5> QED
          BY <4>1, <5>3
      <4> QED
        BY <1>r, <4>2, <4>3
    <3>5. "fin" \in f.flags => NoMore' /\ q - 1 + L = v
      BY <1>2, <1>r, <3>3
    <3> QED
      BY <1>2, <3>1, <3>2, <3>3, <3>4, <3>5 DEF Segment
  <2> QED
    BY <1>3, <2>1, <2>2
<1>4. ASSUME NEW f \in toSock', "ack" \in f.flags PROVE AckIn(iss, f)'
  <2>1. CASE f \in toSock
    <3>1. PICK a \in Nat : a = Minus(f.ack, iss)
      BY <2>1, <1>1, PosType DEF Numbers
    <3>2. 1 <= a /\ a <= r
      BY <1>2, <1>4, <2>1, <3>1 DEF Open, AckIn
    <3>3. 1 <= a /\ a <= s
      BY <1>2, <1>r, <3>2
    <3> QED
      BY <1>2, <3>1, <3>3 DEF AckIn
  <2> QED
    BY <1>4, <2>1
<1> QED
  BY <1>3, <1>4 DEF Open

\* The peer's position does not go back when it is not touched.
LEMMA SameRcv ==
  ASSUME Types, NEW iss \in SeqNo, peer'.rcv = peer.rcv
  PROVE  Minus(peer.rcv, iss) <= Minus(peer'.rcv, iss)
<1>1. Minus(peer.rcv, iss) \in Nat
  BY NumbersNow, PosType DEF Numbers
<1> QED
  BY <1>1

-----------------------------------------------------------------------------
(* Steps that only touch the state of the socket and its links.            *)

\* The half that receives does not look at them.
LEMMA RecvSame ==
  ASSUME Types, Types', Receiving, sk'.rxq = sk.rxq, sk'.recvd = sk.recvd, taken' = taken,
         peer'.una = peer.una, peer'.wnd = peer.wnd,
         \A f \in toPeer' : f \in toPeer \/ "ack" \notin f.flags \/ AckOut(f)',
         \A f \in toSock' : f \in toSock \/ "syn" \in f.flags \/ ("ack" \in f.flags /\ DataIn(f)')
  PROVE  Receiving'
<1>1. RecvSock' /\ Got' = Got /\ Room' = Room
  BY DEF Receiving, RecvSock, Got, Room
<1>2. RPos(sk.recvd) <= RPos(sk'.recvd) /\ Room <= Room'
  <2>1. RPos(sk.recvd) \in Nat /\ Room \in Nat
    BY NumbersNow, PosType, Space DEF Numbers, RPos
  <2> QED
    BY <1>1, <2>1
<1> QED
  BY <1>1, <1>2, RecvStep

\* An end or a timeout: the state becomes closed or stays what it is.
LEMMA Ended ==
  ASSUME Types, Types', Linked, Conn, sk' = sk \/ sk' = [sk EXCEPT !.state = "closed"],
         UNCHANGED <<out, used, written, taken, peer, toPeer>>, toSock' \subseteq toSock
  PROVE  Linked' /\ Conn'
<1>1. /\ sk'.state = sk.state \/ sk'.state = "closed"
      /\ sk'.loc = sk.loc /\ sk'.rem = sk.rem /\ sk'.rxq = sk.rxq /\ sk'.txq = sk.txq /\ sk'.recvd = sk.recvd
      /\ sk'.start = sk.start /\ sk'.end = sk.end /\ sk'.txflags = sk.txflags
  BY DEF Types, SockOf, SockRec
<1>2. Linked'
  BY <1>1 DEF Linked
<1>3. PICK iss \in SeqNo : Quiet(iss) \/ Synced(iss)
  BY DEF Conn
<1>4. CASE Quiet(iss)
  <2>1. Passive => Passive'
    BY <1>1 DEF Passive
  <2>2. Active(iss) => Active(iss)'
    BY <1>1 DEF Active
  <2>3. Quiet(iss)'
    BY <1>1, <1>4, <2>1, <2>2 DEF Quiet
  <2> QED
    BY <1>2, <2>3 DEF Conn
<1>5. CASE Synced(iss)
  <2>1. Receiving'
    BY <1>1, <1>5, RecvSame DEF Synced
  <2>2. CASE Opening(iss)
    <3>1. Opening(iss)'
      BY <1>1, <2>2 DEF Opening
    <3> QED
      BY <1>2, <1>5, <2>1, <3>1 DEF Conn, Synced
  <2>3. CASE Open(iss)
    <3>1. OpenSock(iss)'
      BY <1>1, <2>3 DEF Open, OpenSock, Dropped
    <3>2. (NoMore => NoMore') /\ PeerGot(iss)' /\ OutOpen(iss)'
      BY <1>1, <2>3 DEF Open, PeerGot, OutOpen, NoMore, Dropped
    <3>3. Minus(peer.rcv, iss) <= Minus(peer'.rcv, iss)
      BY NumbersNow, PosType DEF Numbers
    <3>4. Open(iss)'
      BY <2>3, <3>1, <3>2, <3>3, OpenStep
    <3> QED
      BY <1>2, <1>5, <2>1, <3>4 DEF Conn, Synced
  <2> QED
    BY <1>5, <2>2, <2>3 DEF Synced
<1> QED
  BY <1>3, <1>4, <1>5

\* Close starts to close the local link.
LEMMA Shut ==
  ASSUME Types, Types', Linked, Conn, CloseLink, UNCHANGED <<out, used, written, taken, peer, links>>
  PROVE  Linked' /\ Conn'
<1>1. CASE sk.loc # "open"
  BY <1>1, Ended DEF CloseLink, links
<1>2. CASE sk.loc = "open"
  <2>1. /\ sk'.state = "closing" /\ sk'.loc = "closing" /\ sk'.rem = sk.rem
        /\ sk'.rxq = sk.rxq /\ sk'.txq = sk.txq /\ sk'.recvd = sk.recvd
        /\ sk'.start = sk.start /\ sk'.end = sk.end /\ sk'.txflags = sk.txflags
    BY <1>2 DEF CloseLink, Types, SockOf, SockRec
  <2>2. Linked'
    BY <2>1 DEF Linked
  <2>3. PICK iss \in SeqNo : Synced(iss) /\ Open(iss)
    BY <1>2 DEF Conn, Quiet, Synced, Opening
  <2>4. Receiving'
    BY <2>1, <2>3, RecvSame DEF Synced, links
  <2>5. OpenSock(iss)'
    BY <1>2, <2>1, <2>3 DEF Open, OpenSock, Dropped
  <2>6. NoMore' /\ PeerGot(iss)' /\ OutOpen(iss)'
    BY <1>2, <2>1, <2>3 DEF Open, PeerGot, OutOpen, NoMore, Dropped
  <2>7. Minus(peer.rcv, iss) <= Minus(peer'.rcv, iss)
    BY NumbersNow, PosType DEF Numbers
  <2>8. Open(iss)'
    BY <2>3, <2>5, <2>6, <2>7, OpenStep DEF links
  <2> QED
    BY <2>2, <2>3, <2>4, <2>8 DEF Conn, Synced
<1> QED
  BY <1>1, <1>2

-----------------------------------------------------------------------------
(* The output task.                                                        *)

\* Output decides to send.
LEMMA Picked ==
  ASSUME Types, Types', Linked, Conn, OutPick
  PROVE  Linked' /\ Conn'
<1>1. /\ UNCHANGED <<sk, used, written, taken, peer, toSock, toPeer>> /\ out = Idle
      /\ sk.state \notin {"closed", "listen"} /\ out' # Idle /\ out'.flags = TxFlags
  BY DEF OutPick, appVars, links, Idle
<1>2. Linked'
  BY <1>1 DEF Linked
<1>3. PICK iss \in SeqNo : Quiet(iss) \/ Synced(iss)
  BY DEF Conn
<1>4. CASE Quiet(iss)
  <2>1. sk.state = "connect" /\ Active(iss) /\ used
    BY <1>1, <1>4 DEF Quiet, Passive, Active
  <2>2. out'.flags = {"syn"}
    BY <1>1, <2>1 DEF TxFlags
  <2>3. Active(iss)'
    BY <1>1, <2>1, <2>2 DEF Active
  <2>4. Quiet(iss)'
    BY <1>1, <1>4, <2>3 DEF Quiet
  <2> QED
    BY <1>2, <2>4 DEF Conn
<1>5. CASE Synced(iss)
  <2>1. Receiving'
    BY <1>1, <1>5, RecvSame DEF Synced
  <2>2. CASE Opening(iss)
    <3>1. out'.flags = {"syn", "ack"}
      BY <1>1, <2>2 DEF Opening, TxFlags
    <3>2. Opening(iss)'
      BY <1>1, <2>2, <3>1 DEF Opening
    <3> QED
      BY <1>1, <1>2, <1>5, <2>1, <3>2 DEF Conn, Synced
  <2>3. CASE Open(iss)
    <3>1. OpenSock(iss)' /\ PeerGot(iss)' /\ NoMore' = NoMore
      BY <1>1, <2>3 DEF Open, OpenSock, PeerGot, Dropped, NoMore
    <3>2. /\ "ack" \in TxFlags /\ "syn" \notin TxFlags
          /\ "fin" \in TxFlags => sk.state = "closing" /\ sk.loc = "closing"
      BY <1>1, <2>3 DEF Open, OpenSock, TxFlags
    <3>3. OutOpen(iss)'
      BY <1>1, <2>3, <3>2 DEF Open, OpenSock, OutOpen, NoMore, Dropped
    <3>4. Minus(peer.rcv, iss) <= Minus(peer'.rcv, iss)
      BY <1>1, SameRcv
    <3>5. Open(iss)'
      BY <1>1, <2>3, <3>1, <3>3, <3>4, OpenStep
    <3> QED
      BY <1>1, <1>2, <1>5, <2>1, <3>5 DEF Conn, Synced
  <2> QED
    BY <1>5, <2>2, <2>3 DEF Synced
<1> QED
  BY <1>3, <1>4, <1>5

\* Where the frame ends.
LEMMA EndOfSyn ==
  ASSUME NEW iss \in SeqNo, sk.start = iss, sk.txq = <<>>, "syn" \in out.flags
  PROVE  Minus(TxEnd, iss) = 1
<1>1. TxEnd = Add(iss, 0 + 1)
  BY EmptySeq DEF TxEnd
<1>2. 1 \in SeqNo /\ 0 + 1 = 1 /\ 0 + 1 < SeqSpace
  BY Space DEF SeqNo
<1>3. Minus(iss, iss) = 0
  BY Positions
<1> QED
  BY <1>1, <1>2, <1>3, Positions

\* The end of a frame of an open connection is at most behind the FIN.
LEMMA EndOfFrame ==
  ASSUME Types, NEW iss \in SeqNo, Open(iss), out # Idle
  PROVE  Minus(sk.start, iss) <= Minus(TxEnd, iss) /\ Minus(TxEnd, iss) <= written + 2
<1>1. Numbers
  BY NumbersNow
<1>2. PICK p \in Nat, L \in Nat, w \in 0 .. TxLen, d \in Nat :
        p = Minus(sk.start, iss) /\ L = Len(sk.txq) /\ w = written /\ d = Dropped /\ d = w - L
  <2>1. Minus(sk.start, iss) \in Nat
    BY <1>1, PosType DEF Numbers
  <2>2. Dropped \in Nat /\ Dropped = written - Len(sk.txq)
    BY <1>1 DEF Numbers, Open, OpenSock, Dropped
  <2> QED
    BY <1>1, <2>1, <2>2 DEF Numbers
<1>3. PICK x \in {0, 1} : x = IF out.flags \cap {"syn", "fin"} = {} THEN 0 ELSE 1
  OBVIOUS
<1>4. TxEnd = Add(sk.start, L + x)
  BY <1>2, <1>3 DEF TxEnd
<1>5. /\ p = d + 1 \/ (p = w + 2 /\ L = 0)
      /\ x = 1 => p = d + 1
  <2>1. p = d + 1 \/ (p = w + 2 /\ L = 0)
    BY <1>2, EmptySeq DEF Open, OpenSock
  <2>2. x = 1 => "fin" \in out.flags
    BY <1>3 DEF Open, OutOpen
  <2> QED
    BY <1>2, <2>1, <2>2 DEF Open, OutOpen
<1>6. L + x \in Nat /\ p + (L + x) <= w + 2 /\ p <= p + (L + x)
  <2>1. w \in Nat /\ d = w - L /\ x \in Nat /\ x <= 1
    BY <1>2, Space
  <2>2. CASE p = d + 1
    BY <2>1, <2>2
  <2>3. CASE p = w + 2 /\ L = 0 /\ x = 0
    BY <2>3
  <2> QED
    BY <1>5, <2>2, <2>3
<1>7. L + x \in SeqNo /\ p + (L + x) < SeqSpace
  BY <1>2, <1>6, Space DEF SeqNo
<1>8. Minus(TxEnd, iss) = p + (L + x)
  BY <1>1, <1>2, <1>4, <1>7, Positions DEF Numbers
<1> QED
  BY <1>2, <1>6, <1>8

\* Output could not send the frame.
LEMMA Failed ==
  ASSUME Types, Types', Linked, Conn, OutFailed
  PROVE  Linked' /\ Conn'
<1>0. out # Idle
  BY DEF OutFailed, Idle
<1>1. /\ UNCHANGED <<used, written, taken, peer, toSock, toPeer>> /\ out' = Idle
      /\ sk'.state = sk.state /\ sk'.loc = sk.loc /\ sk'.rem = sk.rem
      /\ sk'.rxq = sk.rxq /\ sk'.txq = sk.txq /\ sk'.recvd = sk.recvd
      /\ sk'.start = sk.start /\ sk'.end = TxEnd /\ sk'.txflags = sk.txflags
  BY DEF OutFailed, appVars, links, Types, SockOf, SockRec
<1>2. Linked'
  BY <1>1 DEF Linked
<1>3. PICK iss \in SeqNo : Quiet(iss) \/ Synced(iss)
  BY DEF Conn
<1>4. CASE Quiet(iss)
  <2>1. Active(iss) /\ used /\ sk.start = iss /\ sk.txq = <<>> /\ out.flags = {"syn"}
    BY <1>0, <1>4 DEF Quiet, Passive, Active
  <2>2. Minus(TxEnd, iss) = 1
    BY <2>1, EndOfSyn
  <2>3. Active(iss)'
    BY <1>1, <2>1, <2>2 DEF Active
  <2>4. Quiet(iss)'
    BY <1>1, <1>4, <2>3 DEF Quiet
  <2> QED
    BY <1>2, <2>4 DEF Conn
<1>5. CASE Synced(iss)
  <2>1. Receiving'
    BY <1>1, <1>5, RecvSame DEF Synced
  <2>2. CASE Opening(iss)
    <3>1. Minus(TxEnd, iss) = 1
      BY <1>0, <2>2, EndOfSyn DEF Opening
    <3>2. Opening(iss)'
      BY <1>1, <2>2, <3>1 DEF Opening
    <3> QED
      BY <1>1, <1>2, <1>5, <2>1, <3>2 DEF Conn, Synced
  <2>3. CASE Open(iss)
    <3>1. Minus(sk.start, iss) <= Minus(TxEnd, iss) /\ Minus(TxEnd, iss) <= written + 2
      BY <1>0, <2>3, EndOfFrame
    <3>2. OpenSock(iss)' /\ PeerGot(iss)' /\ NoMore' = NoMore /\ OutOpen(iss)'
      BY <1>1, <2>3, <3>1 DEF Open, OpenSock, PeerGot, OutOpen, Dropped, NoMore
    <3>4. Minus(peer.rcv, iss) <= Minus(peer'.rcv, iss)
      BY <1>1, SameRcv
    <3>5. Open(iss)'
      BY <1>1, <2>3, <3>2, <3>4, OpenStep
    <3> QED
      BY <1>1, <1>2, <1>5, <2>1, <3>5 DEF Conn, Synced
  <2> QED
    BY <1>5, <2>2, <2>3 DEF Synced
<1> QED
  BY <1>3, <1>4, <1>5

\* Output sent the frame.
LEMMA Sent ==
  ASSUME Types, Types', Linked, Conn, OutSent
  PROVE  Linked' /\ Conn'
<1>0. /\ out # Idle /\ TxFrame.flags = out.flags /\ TxFrame.seq = sk.start /\ TxFrame.ack = sk.recvd
      /\ TxFrame.win = Room /\ TxFrame.data = sk.txq
  BY FrameOut DEF OutSent, Room
<1>1. /\ UNCHANGED <<used, written, taken, peer, toSock>> /\ out' = Idle
      /\ toPeer' = toPeer \/ toPeer' = toPeer \cup {TxFrame}
      /\ sk'.state = IF sk.rem = "closing" /\ sk.loc = "closed" THEN "closed" ELSE sk.state
      /\ sk'.rem = IF sk.rem = "closing" THEN "closed" ELSE sk.rem
      /\ sk'.loc = sk.loc /\ sk'.rxq = sk.rxq /\ sk'.txq = sk.txq /\ sk'.recvd = sk.recvd
      /\ sk'.start = sk.start /\ sk'.end = TxEnd /\ sk'.txflags = out.flags
  BY DEF OutSent, appVars, Types, SockOf, SockRec
<1>2. Linked'
  BY <1>1 DEF Linked
<1>f. \A f \in toPeer' : f \in toPeer \/ f = TxFrame
  BY <1>1
<1>3. PICK iss \in SeqNo : Quiet(iss) \/ Synced(iss)
  BY DEF Conn
<1>4. CASE Quiet(iss)
  <2>1. Active(iss) /\ used /\ sk.start = iss /\ sk.txq = <<>> /\ out.flags = {"syn"} /\ sk.rem = "closed"
    BY <1>0, <1>4 DEF Quiet, Passive, Active
  <2>2. Minus(TxEnd, iss) = 1
    BY <2>1, EndOfSyn
  <2>3. Active(iss)'
    BY <1>0, <1>1, <1>f, <2>1, <2>2 DEF Active
  <2>4. Quiet(iss)'
    BY <1>1, <1>4, <2>1, <2>3 DEF Quiet
  <2> QED
    BY <1>2, <2>4 DEF Conn
<1>5. CASE Synced(iss)
  <2>1. Receiving'
    <3>1. AckOut(TxFrame)
      <4>1. PICK m \in Nat, g \in Nat, c \in Nat : m = RPos(sk.recvd) /\ g = Got /\ c = Room
        BY NumbersNow, PosType, Space DEF Numbers, RPos
      <4>2. m = g + 1 \/ m = g + 2
        BY <1>5, <4>1 DEF Synced, Receiving, RecvSock
      <4> QED
        BY <1>0, <4>1, <4>2 DEF AckOut
    <3>2. PICK F : F = TxFrame
      OBVIOUS
    <3>3. AckOut(F)'
      BY <1>1, <3>1, <3>2 DEF AckOut, Got, Room
    <3> QED
      BY <1>1, <1>f, <1>5, <3>2, <3>3, RecvSame DEF Synced
  <2>2. CASE Opening(iss)
    <3>1. Minus(TxEnd, iss) = 1 /\ out.flags = {"syn", "ack"} /\ sk.rem = "closed"
      BY <1>0, <2>2, EndOfSyn DEF Opening
    <3>2. Opening(iss)'
      BY <1>0, <1>1, <1>f, <2>2, <3>1 DEF Opening
    <3> QED
      BY <1>1, <1>2, <1>5, <2>1, <3>2 DEF Conn, Synced
  <2>3. CASE Open(iss)
    <3>1. Minus(sk.start, iss) <= Minus(TxEnd, iss) /\ Minus(TxEnd, iss) <= written + 2
      BY <1>0, <2>3, EndOfFrame
    <3>2. OpenSock(iss)' /\ PeerGot(iss)' /\ (NoMore => NoMore') /\ OutOpen(iss)'
      BY <1>1, <2>3, <3>1 DEF Open, OpenSock, PeerGot, OutOpen, Dropped, NoMore
    <3>4. Minus(peer.rcv, iss) <= Minus(peer'.rcv, iss)
      BY <1>1, SameRcv
    <3>5. "ack" \in TxFrame.flags /\ Segment(iss, TxFrame)
      <4>1. "ack" \in out.flags /\ ("fin" \in out.flags => NoMore /\ Minus(sk.start, iss) = Dropped + 1)
        BY <1>0, <2>3 DEF Open, OutOpen
      <4>2. PICK p \in Nat, L \in Nat, w \in Nat, r \in Nat :
              p = Minus(sk.start, iss) /\ L = Len(sk.txq) /\ w = written /\ r = Minus(peer.rcv, iss)
        <5>1. Minus(sk.start, iss) \in Nat /\ Minus(peer.rcv, iss) \in Nat
          BY NumbersNow, PosType DEF Numbers
        <5>2. Len(sk.txq) \in Nat /\ written \in Nat
          BY NumbersNow, Space DEF Numbers
        <5> QED
          BY <5>1, <5>2
      <4>3. /\ Dropped = w - L /\ Dropped >= 0 /\ sk.txq = Bytes(Dropped, L) /\ p <= r
        BY <2>3, <4>2 DEF Open, OpenSock, PeerGot, Dropped
      <4>4. CASE p = Dropped + 1
        <5>0. w - L \in Int
          BY <4>2
        <5>1. PICK d \in Int : d = w - L
          BY <5>0
        <5>d. d = Dropped /\ d >= 0 /\ p = d + 1 /\ sk.txq = Bytes(d, L)
          BY <4>3, <4>4, <5>1
        <5>2. 1 <= p /\ p - 1 = d /\ p - 1 + L = w
          BY <4>2, <5>1, <5>d
        <5>3. sk.txq = Bytes(p - 1, L)
          BY <5>2, <5>d
        <5> QED
          BY <1>0, <4>1, <4>2, <4>3, <5>2, <5>3 DEF Segment
      <4>5. CASE p = w + 2 /\ sk.txq = <<>> /\ p # Dropped + 1
        <5>1. sk.txq = Bytes(p - 1, L) /\ 1 <= p
          BY <4>2, <4>5, BytesEmpty, p - 1 \in Nat
        <5> QED
          BY <1>0, <4>1, <4>2, <4>3, <4>5, <5>1 DEF Segment
      <4> QED
        BY <2>3, <4>2, <4>4, <4>5 DEF Open, OpenSock
    <3>6. PICK F : F = TxFrame
      OBVIOUS
    <3>7. "ack" \in F.flags /\ Segment(iss, F)'
      BY <1>1, <3>2, <3>5, <3>6 DEF Segment
    <3>8. Open(iss)'
      BY <1>1, <1>f, <2>3, <3>2, <3>4, <3>6, <3>7, OpenStep
    <3> QED
      BY <1>1, <1>2, <1>5, <2>1, <3>8 DEF Conn, Synced
  <2> QED
    BY <1>5, <2>2, <2>3 DEF Synced
<1> QED
  BY <1>3, <1>4, <1>5

-----------------------------------------------------------------------------
(* The calls of the application.                                           *)

\* A socket just opened.
LEMMA OpenedFields ==
  ASSUME Types, NEW st \in SockStates
  PROVE  /\ Opened(st).state = st /\ Opened(st).loc = "closed" /\ Opened(st).rem = "closed"
         /\ Opened(st).rxq = <<>> /\ Opened(st).txq = <<>> /\ Opened(st).start = sk.start
         /\ \A x \in SeqNo : LET k == [Opened(st) EXCEPT !.start = x]
                             IN  /\ k.state = st /\ k.loc = "closed" /\ k.rem = "closed"
                                 /\ k.rxq = <<>> /\ k.txq = <<>> /\ k.start = x
BY DEF Opened, Types, SockOf, SockRec

\* Listen and Connect.
LEMMA Called ==
  ASSUME Types, Types', Linked, Conn, ListenCall \/ ConnectCall
  PROVE  Linked' /\ Conn'
<1>1. /\ ~used /\ used' /\ UNCHANGED <<out, written, taken, peer, toSock, toPeer>>
  BY DEF ListenCall, ConnectCall, links
<1>2. PICK iss \in SeqNo : Quiet(iss)
  BY <1>1 DEF Conn, Synced
<1>3. CASE ListenCall
  <2>1. peer.st = "closed" /\ sk' = Opened("listen")
    BY <1>3 DEF ListenCall
  <2>2. /\ sk'.state = "listen" /\ sk'.loc = "closed" /\ sk'.rem = "closed"
        /\ sk'.rxq = <<>> /\ sk'.txq = <<>>
    BY <2>1, OpenedFields DEF SockStates
  <2>3. Passive'
    BY <1>1, <1>2, <2>1, <2>2 DEF Quiet, Passive, Active
  <2>4. Quiet(iss)' /\ Linked'
    BY <1>1, <1>2, <2>2, <2>3 DEF Quiet, Linked
  <2> QED
    BY <2>4 DEF Conn
<1>4. CASE ConnectCall
  <2>1. PICK now \in Seeds : sk' = [Opened("connect") EXCEPT !.start = now] /\ peer.st = "listen"
    BY <1>4 DEF ConnectCall
  <2>2. now \in SeqNo
    BY Space
  <2>3. /\ sk'.state = "connect" /\ sk'.loc = "closed" /\ sk'.rem = "closed"
        /\ sk'.rxq = <<>> /\ sk'.txq = <<>> /\ sk'.start = now
    BY <2>1, <2>2, OpenedFields DEF SockStates
  <2>4. Active(iss)
    BY <1>2, <2>1 DEF Quiet, Passive
  <2>5. Active(now)'
    BY <1>1, <2>1, <2>3, <2>4 DEF Active
  <2>6. Quiet(now)' /\ Linked'
    BY <1>1, <1>2, <2>3, <2>5 DEF Quiet, Linked
  <2> QED
    BY <2>2, <2>6 DEF Conn
<1> QED
  BY <1>3, <1>4

\* Send appends to txq what the application writes.
LEMMA Written ==
  ASSUME Types, Types', Linked, Conn, Send
  PROVE  Linked' /\ Conn'
<1>1. PICK n \in 1 .. Lesser(TxLen - written, TxCap - Len(sk.txq)) :
        sk' = [sk EXCEPT !.txq = @ \o Bytes(written, n)] /\ written' = written + n
  BY DEF Send
<1>2. /\ UNCHANGED <<out, used, taken, peer, toSock, toPeer>> /\ sk.state = "established"
      /\ sk'.state = sk.state /\ sk'.loc = sk.loc /\ sk'.rem = sk.rem /\ sk'.rxq = sk.rxq
      /\ sk'.txq = sk.txq \o Bytes(written, n) /\ sk'.recvd = sk.recvd
      /\ sk'.start = sk.start /\ sk'.end = sk.end /\ sk'.txflags = sk.txflags
  BY <1>1 DEF Send, links, Types, SockOf, SockRec
<1>3. PICK iss \in SeqNo : Synced(iss) /\ Open(iss)
  BY <1>2 DEF Conn, Quiet, Passive, Active, Synced, Opening
<1>4. ~NoMore /\ sk.loc = "open" /\ Linked'
  BY <1>2 DEF NoMore, Linked
<1>5. Receiving'
  BY <1>2, <1>3, RecvSame DEF Synced
<1>6. PICK w \in Nat, L \in Nat, d \in Nat : w = written /\ L = Len(sk.txq) /\ d = Dropped /\ w = d + L
  <2>1. written \in Nat /\ Len(sk.txq) \in Nat /\ Dropped \in Nat
    BY <1>3, NumbersNow, Space DEF Numbers, Open, OpenSock
  <2> QED
    BY <2>1 DEF Dropped
<1>7. n \in Nat
  OBVIOUS
<1>8. sk'.txq = Bytes(d, L + n) /\ Len(sk'.txq) = L + n
  <2>1. sk.txq = Bytes(d, L)
    BY <1>3, <1>6 DEF Open, OpenSock
  <2>2. Bytes(d, L) \o Bytes(d + L, n) = Bytes(d, L + n)
    BY <1>7, BytesJoin
  <2>3. Len(Bytes(d, L + n)) = L + n
    BY <1>7, BytesType, L + n \in Nat
  <2> QED
    BY <1>2, <1>6, <2>1, <2>2, <2>3
<1>9. Dropped' = d
  <2>1. Dropped' = (w + n) - (L + n)
    BY <1>1, <1>6, <1>8 DEF Dropped
  <2>2. PICK k \in Nat : k = n
    BY <1>7
  <2>3. d + L = w => (w + k) - (L + k) = d
    OBVIOUS
  <2> QED
    BY <1>6, <2>1, <2>2, <2>3
<1>10. PICK p \in Nat, e \in Nat, r \in Nat : p = Minus(sk.start, iss) /\ e = Minus(sk.end, iss) /\ r = Minus(peer.rcv, iss)
  <2>1. Minus(sk.start, iss) \in Nat /\ Minus(sk.end, iss) \in Nat /\ Minus(peer.rcv, iss) \in Nat
    BY NumbersNow, PosType DEF Numbers
  <2> QED
    BY <2>1
<1>11. p = d + 1 /\ p <= e /\ e <= w + 2
  BY <1>3, <1>4, <1>6, <1>10 DEF Open, OpenSock
<1>12. OpenSock(iss)'
  <2>1. Minus(sk'.start, iss) = p /\ Minus(sk'.end, iss) = e /\ written' = w + n /\ Dropped' = d
    BY <1>1, <1>2, <1>6, <1>9, <1>10
  <2>2. e <= (w + n) + 2
    BY <1>7, <1>11
  <2> QED
    BY <1>2, <1>8, <1>11, <2>1, <2>2 DEF OpenSock
<1>13. PeerGot(iss)'
  <2>1. Len(peer.got) \in Nat /\ Len(peer.got) <= w /\ r = Len(peer.got) + 1 /\ p <= r
    BY <1>3, <1>4, <1>6, <1>10, NumbersNow DEF Open, PeerGot, Numbers
  <2>2. Len(peer.got) <= w + n
    BY <1>7, <2>1
  <2> QED
    BY <1>1, <1>2, <1>3, <1>6, <1>10, <2>1, <2>2 DEF Open, PeerGot
<1>14. OutOpen(iss)' /\ written <= written'
  BY <1>1, <1>2, <1>3, <1>4, <1>6, <1>7 DEF Open, OutOpen
<1>15. Minus(peer.rcv, iss) <= Minus(peer'.rcv, iss)
  BY <1>2, SameRcv
<1>16. Open(iss)'
  BY <1>2, <1>3, <1>4, <1>12, <1>13, <1>14, <1>15, OpenStep
<1> QED
  BY <1>2, <1>3, <1>4, <1>5, <1>16 DEF Conn, Synced

\* Recv takes from the front of rxq.
LEMMA Taken ==
  ASSUME Types, Types', Linked, Conn, Recv
  PROVE  Linked' /\ Conn'
<1>1. PICK n \in 1 .. Len(sk.rxq) : sk' = [sk EXCEPT !.rxq = SubSeq(@, n + 1, Len(@))] /\ taken' = taken + n
  BY DEF Recv
<1>2. /\ UNCHANGED <<out, used, written, peer, toSock, toPeer>>
      /\ sk'.state = sk.state /\ sk'.loc = sk.loc /\ sk'.rem = sk.rem /\ sk'.txq = sk.txq
      /\ sk'.rxq = SubSeq(sk.rxq, n + 1, Len(sk.rxq)) /\ sk'.recvd = sk.recvd
      /\ sk'.start = sk.start /\ sk'.end = sk.end /\ sk'.txflags = sk.txflags
  BY <1>1 DEF Recv, links, Types, SockOf, SockRec
<1>3. PICK L \in Nat, t \in Nat : L = Len(sk.rxq) /\ t = taken /\ L <= RxCap
  BY NumbersNow, Space DEF Numbers
<1>4. n \in Nat /\ 1 <= n /\ n <= L
  BY <1>3
<1>5. PICK iss \in SeqNo : Synced(iss)
  BY <1>3, <1>4, EmptySeq DEF Conn, Quiet
<1>6. sk'.rxq = Bytes(t + n, L - n) /\ Len(sk'.rxq) = L - n
  <2>1. sk.rxq = Bytes(t, L)
    BY <1>3, <1>5 DEF Synced, Receiving, RecvSock
  <2>2. n \in 0 .. L /\ L \in n .. L
    BY <1>4
  <2>3. SubSeq(Bytes(t, L), n + 1, L) = Bytes(t + n, L - n)
    BY <2>2, BytesPart
  <2>4. Len(Bytes(t + n, L - n)) = L - n
    BY <1>4, BytesType, t + n \in Nat, L - n \in Nat
  <2> QED
    BY <1>2, <1>3, <2>1, <2>3, <2>4
<1>7. Got' = Got /\ Room <= Room' /\ taken' = t + n
  <2>1. Got' = (t + n) + (L - n) /\ Got = t + L /\ Room' = RxCap - (L - n) /\ Room = RxCap - L /\ taken' = t + n
    BY <1>1, <1>3, <1>6 DEF Got, Room
  <2>2. PICK k \in Nat : k = n
    BY <1>4
  <2>3. (t + k) + (L - k) = t + L /\ RxCap - L <= RxCap - (L - k)
    BY Space
  <2> QED
    BY <2>1, <2>2, <2>3
<1>8. RecvSock'
  BY <1>2, <1>5, <1>6, <1>7 DEF Synced, Receiving, RecvSock
<1>9. RPos(sk.recvd) <= RPos(sk'.recvd)
  <2>1. RPos(sk.recvd) \in Nat
    BY NumbersNow, PosType, Space DEF Numbers, RPos
  <2> QED
    BY <1>2, <2>1
<1>10. Receiving'
  BY <1>2, <1>5, <1>7, <1>8, <1>9, RecvStep DEF Synced
<1>11. Opening(iss) => Opening(iss)'
  BY <1>2 DEF Opening
<1>12. Open(iss) => Open(iss)'
  BY <1>2 DEF Open, OpenSock, PeerGot, OutOpen, Segment, AckIn, NoMore, Dropped
<1>13. Linked'
  BY <1>2 DEF Linked
<1> QED
  BY <1>2, <1>5, <1>10, <1>11, <1>12, <1>13 DEF Conn, Synced

-----------------------------------------------------------------------------
(* The peer.                                                               *)

\* What the socket does not notice.
LEMMA SockSame ==
  ASSUME UNCHANGED <<sk, out, used, written, taken>>, NEW iss
  PROVE  /\ Got' = Got /\ Room' = Room /\ Dropped' = Dropped /\ NoMore' = NoMore /\ Linked' = Linked
         /\ RecvSock' = RecvSock /\ OpenSock(iss)' = OpenSock(iss) /\ OutOpen(iss)' = OutOpen(iss)
BY DEF Got, Room, Dropped, NoMore, RecvSock, OpenSock, OutOpen, Linked

\* Where the peer's byte n is.
LEMMA PeerSeqPos ==
  ASSUME NEW n \in 0 .. RxLen + 1
  PROVE  PeerSeq(n) \in SeqNo /\ RPos(PeerSeq(n)) = n + 1
<1>1. 1 + n \in SeqNo /\ 1 + n < SeqSpace /\ PeerIss \in SeqNo /\ 0 + (1 + n) = n + 1
  BY Space DEF SeqNo
<1>2. Minus(PeerIss, PeerIss) = 0
  BY <1>1, Positions
<1> QED
  BY <1>1, <1>2, Positions DEF PeerSeq, RPos

\* The peer's window and the number of its next byte.
LEMMA RcvPos ==
  ASSUME Types, NEW iss \in SeqNo, Open(iss)
  PROVE  Minus(peer.rcv, iss) \in Nat /\ 1 <= Minus(peer.rcv, iss)
<1>1. PICK r \in Nat, g \in Nat, w \in Nat : r = Minus(peer.rcv, iss) /\ g = Len(peer.got) /\ w = written
  <2>1. Minus(peer.rcv, iss) \in Nat
    BY NumbersNow, PosType DEF Numbers
  <2>2. Len(peer.got) \in Nat /\ written \in Nat
    BY NumbersNow, Space DEF Numbers
  <2> QED
    BY <2>1, <2>2
<1>2. r = g + 1 \/ r = w + 2
  BY <1>1 DEF Open, PeerGot
<1> QED
  BY <1>1, <1>2

\* A frame of an open connection: data, or an end of it.
LEMMA Emitted ==
  ASSUME Types, Types', Linked, Conn, UNCHANGED <<sk, out, used, written, taken, toPeer>>,
         peer.st \in {"est", "fin"}, NEW F \in Frames,
         peer'.una = peer.una, peer'.wnd = peer.wnd, peer'.rcv = peer.rcv, peer'.got = peer.got,
         peer'.st \in {"est", "fin", "done"},
         "syn" \notin F.flags, "ack" \in F.flags, F.ack = peer.rcv,
         toSock' \subseteq toSock \cup {F},
         \A iss \in SeqNo : Synced(iss) => DataIn(F)
  PROVE  Linked' /\ Conn'
<1>1. PICK iss \in SeqNo : Synced(iss)
  BY DEF Conn, Quiet, Passive, Active
<1>2. Got' = Got /\ Room' = Room /\ NoMore' = NoMore /\ Linked' /\ OpenSock(iss)' = OpenSock(iss) /\ OutOpen(iss)' = OutOpen(iss)
  BY SockSame
<1>3. DataIn(F)'
  BY <1>1, <1>2 DEF DataIn
<1>4. Receiving'
  BY <1>1, <1>3, RecvSame DEF Synced
<1>5. CASE Opening(iss)
  <2>1. Opening(iss)'
    BY <1>5 DEF Opening
  <2> QED
    BY <1>1, <1>2, <1>4, <2>1 DEF Conn, Synced
<1>6. CASE Open(iss)
  <2>1. PeerGot(iss)'
    BY <1>2, <1>6 DEF Open, PeerGot
  <2>2. AckIn(iss, F)'
    BY <1>6, RcvPos DEF AckIn
  <2>3. Minus(peer.rcv, iss) <= Minus(peer'.rcv, iss)
    BY SameRcv
  <2>4. Open(iss)'
    BY <1>2, <1>6, <2>1, <2>2, <2>3, OpenStep DEF Open
  <2> QED
    BY <1>1, <1>2, <1>4, <2>4 DEF Conn, Synced
<1> QED
  BY <1>1, <1>5, <1>6 DEF Synced

\* The peer sends data or resets the connection.
LEMMA PeerSpoke ==
  ASSUME Types, Types', Linked, Conn, PeerSend \/ PeerRst
  PROVE  Linked' /\ Conn'
<1>1. peer.una \in 0 .. RxLen + 1 /\ peer.una \in Nat /\ peer.wnd \in Nat /\ peer.rcv \in SeqNo /\ peer \in PeerRec
  BY NumbersNow, Space DEF Numbers, Types
<1>2. PICK u \in 0 .. RxLen + 1 : u = peer.una /\ PeerSeq(u) \in SeqNo /\ RPos(PeerSeq(u)) = u + 1
  BY <1>1, PeerSeqPos
<1>3. CASE PeerSend
  <2>1. PICK n \in 0 .. Lesser(RxLen - Lesser(peer.una, RxLen), IF peer.wnd = 0 THEN 1 ELSE peer.wnd), fin \in BOOLEAN :
          /\ fin => peer.st = "fin" /\ peer.una + n = RxLen /\ n <= peer.wnd
          /\ ToSock(TcpSeg(IF fin THEN {"ack", "fin"} ELSE {"ack"}, PeerSeq(peer.una), peer.rcv, 0, Bytes(peer.una, n)))
    BY <1>3 DEF PeerSend
  <2>2. n \in Nat /\ (n = 0 \/ u + n <= RxLen)
    <3>1. PICK a \in Nat : a = Lesser(u, RxLen) /\ (a = u \/ a = RxLen) /\ a <= RxLen /\ a <= u
      <4>1. u \in Nat /\ RxLen \in Nat
        BY Space
      <4>2. /\ Lesser(u, RxLen) \in Nat /\ Lesser(u, RxLen) <= u /\ Lesser(u, RxLen) <= RxLen
            /\ Lesser(u, RxLen) = u \/ Lesser(u, RxLen) = RxLen
        BY <4>1, LesserOf
      <4> QED
        BY <4>2
    <3>2. PICK b \in Nat : b = RxLen - a
      BY <3>1, Space
    <3>3. PICK c \in Nat : c = IF peer.wnd = 0 THEN 1 ELSE peer.wnd
      BY <1>1
    <3>4. Lesser(b, c) \in Nat /\ Lesser(b, c) <= b
      BY LesserOf
    <3>5. n \in 0 .. Lesser(b, c)
      BY <1>2, <3>1, <3>2, <3>3
    <3>6. n \in Nat /\ n <= RxLen - a
      BY <3>2, <3>4, <3>5
    <3> QED
      BY <1>2, <3>1, <3>6, Space
  <2>3. PICK d \in Seq(Nat) : d = Bytes(u, n) /\ Len(d) = n
    BY <1>1, <1>2, <2>2, BytesType
  <2>4. PICK fl \in SUBSET Flags : fl = IF fin THEN {"ack", "fin"} ELSE {"ack"}
    BY DEF Flags
  <2>5. PICK F \in Frames : /\ F = TcpSeg(fl, PeerSeq(u), peer.rcv, 0, d)
                            /\ F.flags = fl /\ F.seq = PeerSeq(u) /\ F.ack = peer.rcv /\ F.data = d
    BY <1>1, <1>2, FrameIn
  <2>6. toSock' \subseteq toSock \cup {F}
    BY <1>2, <2>1, <2>3, <2>4, <2>5 DEF ToSock
  <2>7. ASSUME NEW iss \in SeqNo, Synced(iss) PROVE DataIn(F)
    <3>1. RPos(sk.recvd) \in Nat /\ Got \in Nat /\ Room \in Nat
      BY NumbersNow, PosType, Space DEF Numbers, RPos
    <3>2. u < RPos(sk.recvd) /\ (u = Got => peer.wnd <= Room)
      BY <1>2, <2>7 DEF Synced, Receiving, PeerWindow
    <3>3. RPos(F.seq) = u + 1 /\ u \in Nat /\ (u + 1) - 1 = u
      BY <1>2, <2>5, Space
    <3>4. F.data = Bytes(RPos(F.seq) - 1, Len(F.data)) /\ Len(F.data) = n
      BY <2>3, <2>5, <3>3
    <3>5. F.data = <<>> \/ RPos(F.seq) - 1 + Len(F.data) <= RxLen
      <4>1. CASE n = 0
        BY <1>1, <1>2, <2>3, <2>5, <4>1, BytesEmpty
      <4>2. CASE u + n <= RxLen
        BY <3>3, <3>4, <4>2
      <4> QED
        BY <2>2, <4>1, <4>2
    <3>6. ASSUME "fin" \in F.flags
          PROVE  /\ RPos(F.seq) - 1 + Len(F.data) = RxLen
                 /\ RPos(F.seq) = Got + 1 => Len(F.data) <= Room
      <4>1. fin
        BY <3>6, <2>4, <2>5
      <4>2. u + n = RxLen /\ n <= peer.wnd
        BY <1>2, <2>1, <4>1
      <4>3. u = Got => n <= Room
        BY <1>1, <2>2, <3>1, <3>2, <4>2
      <4>4. u + 1 = Got + 1 => u = Got
        BY <3>1, <3>3
      <4> QED
        BY <3>3, <3>4, <4>2, <4>3, <4>4
    <3>7. 1 <= RPos(F.seq) /\ RPos(F.seq) <= RPos(sk.recvd)
      BY <3>1, <3>2, <3>3
    <3> QED
      BY <3>4, <3>5, <3>6, <3>7 DEF DataIn
  <2>8. "syn" \notin F.flags /\ "ack" \in F.flags
    BY <2>4, <2>5
  <2> QED
    BY <1>3, <2>5, <2>6, <2>7, <2>8, Emitted DEF PeerSend, appVars
<1>4. CASE PeerRst
  <2>1. ToSock(TcpSeg({"rst", "ack"}, PeerSeq(peer.una), peer.rcv, 0, <<>>)) /\ peer' = [peer EXCEPT !.st = "done"]
    BY <1>4 DEF PeerRst
  <2>2. PICK F \in Frames : /\ F = TcpSeg({"rst", "ack"}, PeerSeq(u), peer.rcv, 0, <<>>)
                            /\ F.flags = {"rst", "ack"} /\ F.seq = PeerSeq(u) /\ F.ack = peer.rcv /\ F.data = <<>>
    <3>1. {"rst", "ack"} \in SUBSET Flags /\ <<>> \in Seq(Nat)
      BY EmptySeq DEF Flags
    <3>2. PICK fl \in SUBSET Flags, d \in Seq(Nat) : fl = {"rst", "ack"} /\ d = <<>>
      BY <3>1
    <3>3. /\ TcpSeg(fl, PeerSeq(u), peer.rcv, 0, d) \in Frames
          /\ TcpSeg(fl, PeerSeq(u), peer.rcv, 0, d).flags = fl /\ TcpSeg(fl, PeerSeq(u), peer.rcv, 0, d).seq = PeerSeq(u)
          /\ TcpSeg(fl, PeerSeq(u), peer.rcv, 0, d).ack = peer.rcv /\ TcpSeg(fl, PeerSeq(u), peer.rcv, 0, d).data = d
      BY <1>1, <1>2, FrameIn
    <3> QED
      BY <3>2, <3>3
  <2>3. toSock' \subseteq toSock \cup {F}
    BY <1>2, <2>1, <2>2 DEF ToSock
  <2>4. ASSUME NEW iss \in SeqNo, Synced(iss) PROVE DataIn(F)
    <3>1. RPos(sk.recvd) \in Nat /\ u \in Nat
      <4>1. sk.recvd \in SeqNo
        BY NumbersNow DEF Numbers
      <4>2. RPos(sk.recvd) \in Nat
        BY <4>1, PosType, Space DEF RPos
      <4>3. u \in Nat
        OBVIOUS
      <4> QED
        BY <4>2, <4>3
    <3>2. u < RPos(sk.recvd)
      BY <1>2, <2>4 DEF Synced, Receiving, PeerWindow
    <3>3. RPos(F.seq) = u + 1 /\ (u + 1) - 1 = u
      BY <1>2, <2>2, <3>1
    <3>4. F.data = Bytes(RPos(F.seq) - 1, Len(F.data))
      BY <2>2, <3>1, <3>3, BytesEmpty
    <3>5. 1 <= RPos(F.seq) /\ RPos(F.seq) <= RPos(sk.recvd)
      BY <3>1, <3>2, <3>3
    <3> QED
      BY <2>2, <3>4, <3>5 DEF DataIn
  <2>5. /\ peer'.una = peer.una /\ peer'.wnd = peer.wnd /\ peer'.rcv = peer.rcv /\ peer'.got = peer.got
        /\ peer'.st = "done"
    BY <1>1, <2>1 DEF PeerRec
  <2>6. UNCHANGED <<sk, out, used, written, taken, toPeer>> /\ peer.st \in {"est", "fin"}
    BY <1>4 DEF PeerRst, appVars
  <2>7. "syn" \notin F.flags /\ "ack" \in F.flags
    BY <2>2
  <2> QED
    BY <2>2, <2>3, <2>4, <2>5, <2>6, <2>7, Emitted
<1> QED
  BY <1>3, <1>4

\* The peer sends its SYN.
LEMMA PeerOpens ==
  ASSUME Types, Types', Linked, Conn, PeerSyn
  PROVE  Linked' /\ Conn'
<1>1. /\ UNCHANGED <<sk, out, used, written, taken, toPeer>> /\ peer.st \in {"closed", "syn"}
      /\ peer'.st = "syn" /\ peer'.una = peer.una /\ peer'.wnd = peer.wnd
      /\ peer'.rcv = peer.rcv /\ peer'.got = peer.got
  BY DEF PeerSyn, appVars, Types, PeerRec
<1>2. PICK F \in Frames : F.flags = {"syn"} /\ F.seq = PeerIss /\ F.data = <<>> /\ toSock' \subseteq toSock \cup {F}
  <2>1. PICK fl \in SUBSET Flags, d \in Seq(Nat), z \in SeqNo : fl = {"syn"} /\ d = <<>> /\ z = 0
    BY EmptySeq, Space DEF Flags
  <2>2. /\ TcpSeg(fl, PeerIss, z, 0, d) \in Frames
        /\ TcpSeg(fl, PeerIss, z, 0, d).flags = fl /\ TcpSeg(fl, PeerIss, z, 0, d).seq = PeerIss
        /\ TcpSeg(fl, PeerIss, z, 0, d).data = d
    BY FrameIn, Space
  <2>3. ToSock(TcpSeg(fl, PeerIss, z, 0, d))
    BY <2>1 DEF PeerSyn
  <2> QED
    BY <2>1, <2>2, <2>3 DEF ToSock
<1>3. PICK iss \in SeqNo : Quiet(iss) \/ Synced(iss)
  BY DEF Conn
<1>4. Linked'
  BY <1>1 DEF Linked
<1>5. CASE Quiet(iss)
  <2>1. Passive
    BY <1>1, <1>5 DEF Quiet, Active
  <2>2. Passive'
    BY <1>1, <1>2, <2>1 DEF Passive
  <2>3. Quiet(iss)'
    BY <1>1, <1>5, <2>2 DEF Quiet
  <2> QED
    BY <1>4, <2>3 DEF Conn
<1>6. CASE Synced(iss)
  <2>1. Opening(iss) /\ peer.st = "syn"
    BY <1>1, <1>6 DEF Synced, Opening, Open, PeerGot
  <2>2. Receiving'
    BY <1>1, <1>2, <1>6, RecvSame DEF Synced
  <2>3. Opening(iss)'
    BY <1>1, <1>2, <2>1 DEF Opening
  <2> QED
    BY <1>1, <1>4, <1>6, <2>2, <2>3 DEF Conn, Synced
<1> QED
  BY <1>3, <1>5, <1>6

\* The peer answers our SYN.
LEMMA PeerAnswers ==
  ASSUME Types, Types', Linked, Conn, PeerSynAck
  PROVE  Linked' /\ Conn'
<1>1. UNCHANGED <<sk, out, used, written, taken, peer, toPeer>> /\ peer.st = "synrcvd" /\ peer.rcv \in SeqNo
  BY DEF PeerSynAck, appVars, Types, PeerRec
<1>2. PICK F \in Frames : /\ F.flags = {"syn", "ack"} /\ F.seq = PeerIss /\ F.ack = peer.rcv /\ F.data = <<>>
                          /\ toSock' \subseteq toSock \cup {F}
  <2>1. PICK fl \in SUBSET Flags, d \in Seq(Nat) : fl = {"syn", "ack"} /\ d = <<>>
    BY EmptySeq DEF Flags
  <2>a. PICK a \in SeqNo, b \in SeqNo : a = peer.rcv /\ b = PeerIss
    BY <1>1, Space
  <2>2. /\ TcpSeg(fl, b, a, 0, d) \in Frames
        /\ TcpSeg(fl, b, a, 0, d).flags = fl /\ TcpSeg(fl, b, a, 0, d).seq = b
        /\ TcpSeg(fl, b, a, 0, d).ack = a /\ TcpSeg(fl, b, a, 0, d).data = d
    BY FrameIn
  <2>3. ToSock(TcpSeg(fl, b, a, 0, d))
    BY <2>1, <2>a DEF PeerSynAck
  <2> QED
    BY <2>1, <2>a, <2>2, <2>3 DEF ToSock
<1>3. PICK iss \in SeqNo : Quiet(iss) \/ Synced(iss)
  BY DEF Conn
<1>4. Linked'
  BY <1>1 DEF Linked
<1>5. CASE Quiet(iss)
  <2>1. Active(iss)
    BY <1>1, <1>5 DEF Quiet, Passive
  <2>2. Active(iss)'
    BY <1>1, <1>2, <2>1 DEF Active
  <2>3. Quiet(iss)'
    BY <1>1, <1>5, <2>2 DEF Quiet
  <2> QED
    BY <1>4, <2>3 DEF Conn
<1>6. CASE Synced(iss)
  <2>1. Open(iss)
    BY <1>1, <1>6 DEF Synced, Opening
  <2>2. Receiving'
    BY <1>1, <1>2, <1>6, RecvSame DEF Synced
  <2>3. OpenSock(iss)' /\ OutOpen(iss)' /\ NoMore' = NoMore /\ PeerGot(iss)'
    BY <1>1, <2>1, SockSame DEF Open, PeerGot
  <2>4. AckIn(iss, F)'
    BY <1>1, <1>2, <2>1, RcvPos DEF AckIn
  <2>5. Minus(peer.rcv, iss) <= Minus(peer'.rcv, iss)
    BY <1>1, SameRcv
  <2>6. Open(iss)'
    BY <1>1, <1>2, <2>1, <2>3, <2>4, <2>5, OpenStep
  <2> QED
    BY <1>1, <1>4, <1>6, <2>2, <2>6 DEF Conn, Synced
<1> QED
  BY <1>3, <1>5, <1>6

\* The peer has no more data.
LEMMA PeerEnds ==
  ASSUME Types, Types', Linked, Conn, PeerFin
  PROVE  Linked' /\ Conn'
<1>1. /\ UNCHANGED <<sk, out, used, written, taken, toPeer, toSock>> /\ peer.st = "est"
      /\ peer'.st = "fin" /\ peer'.una = peer.una /\ peer'.wnd = peer.wnd
      /\ peer'.rcv = peer.rcv /\ peer'.got = peer.got
  BY DEF PeerFin, appVars, links, Types, PeerRec
<1>2. PICK iss \in SeqNo : Synced(iss)
  BY <1>1 DEF Conn, Quiet, Passive, Active
<1>3. Linked'
  BY <1>1 DEF Linked
<1>4. Receiving'
  BY <1>1, <1>2, RecvSame DEF Synced
<1>5. Opening(iss) => Opening(iss)'
  BY <1>1 DEF Opening
<1>6. Open(iss) => Open(iss)'
  BY <1>1 DEF Open, OpenSock, PeerGot, OutOpen, Segment, AckIn, NoMore, Dropped
<1> QED
  BY <1>1, <1>2, <1>3, <1>4, <1>5, <1>6 DEF Conn, Synced

-----------------------------------------------------------------------------
(* The peer takes a segment.                                               *)

\* Its window.
LEMMA TakesWindow ==
  ASSUME Types, Receiving, NEW f \in toPeer, "ack" \in f.flags, Minus(f.ack, PeerSeq(0)) <= RxLen + 1,
         UNCHANGED <<sk, taken>>, peer' = Takes(peer, f)
  PROVE  PeerWindow'
<1>1. /\ f \in Frames /\ peer \in PeerRec /\ f.ack \in SeqNo /\ f.win \in Nat
      /\ peer.una \in Nat /\ peer.wnd \in Nat
  BY NumbersNow DEF Numbers, Types, NetTyped
<1>2. PICK m \in Nat, g \in Nat, d \in Nat, a \in Nat :
        m = RPos(sk.recvd) /\ g = Got /\ d = Room /\ a = RPos(f.ack)
  <2>1. RPos(sk.recvd) \in Nat /\ RPos(f.ack) \in Nat
    BY <1>1, NumbersNow, PosType, Space DEF Numbers, RPos
  <2> QED
    BY <2>1, NumbersNow DEF Numbers
<1>3. 1 <= a /\ a <= m /\ (a = g + 1 => f.win <= d) /\ peer.una < m /\ (peer.una = g => peer.wnd <= d)
  BY <1>2 DEF Receiving, AckOut, PeerWindow
<1>4. Minus(f.ack, PeerSeq(0)) = a - 1
  <2>1. PICK x \in SeqNo : x = PeerSeq(0) /\ Minus(x, PeerIss) = 1
    <3>1. PeerSeq(0) \in SeqNo /\ RPos(PeerSeq(0)) = 0 + 1
      BY PeerSeqPos, Space
    <3> QED
      BY <3>1 DEF RPos
  <2>2. Minus(f.ack, x) = Minus(f.ack, PeerIss) - Minus(x, PeerIss)
    <3>1. PICK y \in SeqNo : y = f.ack /\ Minus(y, PeerIss) = a
      BY <1>1, <1>2 DEF RPos
    <3>2. Minus(y, PeerIss) >= Minus(x, PeerIss)
      BY <1>3, <2>1, <3>1
    <3> QED
      BY <3>1, <3>2, Positions, Space
  <2> QED
    BY <1>2, <2>1, <2>2 DEF RPos
<1>5. /\ peer'.una = IF a - 1 >= peer.una THEN a - 1 ELSE peer.una
      /\ peer'.wnd = IF a - 1 >= peer.una THEN f.win ELSE peer.wnd
  BY <1>1, <1>4, TakesFields
<1>6. CASE a - 1 >= peer.una
  <2>1. a - 1 < m /\ (a - 1 = g => f.win <= d)
    BY <1>2, <1>3
  <2> QED
    BY <1>2, <1>5, <1>6, <2>1 DEF PeerWindow, Got, Room
<1>7. CASE ~(a - 1 >= peer.una)
  BY <1>2, <1>3, <1>5, <1>7 DEF PeerWindow, Got, Room
<1> QED
  BY <1>6, <1>7

\* Its stream.
LEMMA TakesData ==
  ASSUME Types, Types', NEW iss \in SeqNo, Open(iss), NEW f \in toPeer, Segment(iss, f),
         Minus(f.ack, PeerSeq(0)) <= RxLen + 1, peer.st \in {"synrcvd", "est", "fin"},
         UNCHANGED <<sk, out, used, written, taken>>, peer' = Takes(peer, f)
  PROVE  PeerGot(iss)' /\ Minus(peer.rcv, iss) <= Minus(peer'.rcv, iss)
<1>1. f \in Frames /\ peer \in PeerRec /\ f.seq \in SeqNo /\ peer.rcv \in SeqNo /\ sk.start \in SeqNo
  BY NumbersNow DEF Numbers, Types, NetTyped
<1>2. PICK r \in Nat, g \in Nat, w \in Nat, q \in Nat, L \in Nat, p \in Nat :
        /\ r = Minus(peer.rcv, iss) /\ g = Len(peer.got) /\ w = written /\ q = Minus(f.seq, iss)
        /\ L = Len(f.data) /\ p = Minus(sk.start, iss)
  <2>1. Minus(peer.rcv, iss) \in Nat /\ Minus(f.seq, iss) \in Nat /\ Minus(sk.start, iss) \in Nat
    BY <1>1, PosType
  <2>2. Len(peer.got) \in Nat /\ written \in Nat /\ Len(f.data) \in Nat
    BY NumbersNow, Space DEF Numbers
  <2> QED
    BY <2>1, <2>2
<1>3. /\ peer.got = Bytes(0, g) /\ g <= w /\ p <= r
      /\ r = g + 1 \/ (r = w + 2 /\ g = w /\ NoMore)
  BY <1>2 DEF Open, PeerGot
<1>4. /\ 1 <= q /\ q <= r /\ f.data = Bytes(q - 1, L)
      /\ q - 1 + L <= w \/ (f.data = <<>> /\ q = w + 2)
      /\ "fin" \in f.flags => NoMore /\ q - 1 + L = w
  BY <1>2 DEF Segment
<1>5. PICK h \in Nat : h = Minus(peer.rcv, f.seq) /\ h = r - q
  <2>1. PICK y \in SeqNo, x \in SeqNo : y = peer.rcv /\ x = f.seq
    BY <1>1
  <2>2. Minus(y, iss) >= Minus(x, iss)
    BY <1>2, <1>4, <2>1
  <2>3. Minus(y, x) = Minus(y, iss) - Minus(x, iss)
    BY <2>2, Positions
  <2>4. r - q \in Nat
    BY <1>4
  <2> QED
    BY <1>2, <2>1, <2>3, <2>4
<1>6. f.data = <<>> => L = 0
  BY <1>2, EmptySeq
<1>7. /\ peer'.st \in {"est", "fin"}
      /\ h <= L => /\ peer'.got = peer.got \o SubSeq(f.data, h + 1, L)
                   /\ peer'.rcv = Add(f.seq, L + IF "fin" \in f.flags THEN 1 ELSE 0)
      /\ ~(h <= L) => peer'.got = peer.got /\ peer'.rcv = peer.rcv
  BY <1>1, <1>2, <1>5, TakesFields
<1>8. NoMore' = NoMore /\ written' = w /\ sk' = sk
  BY <1>2 DEF NoMore
<1>9. CASE ~(h <= L)
  <2>1. peer'.got = peer.got /\ peer'.rcv = peer.rcv
    BY <1>7, <1>9
  <2>2. PeerGot(iss)'
    BY <1>2, <1>3, <1>7, <1>8, <2>1 DEF PeerGot
  <2> QED
    BY <1>2, <2>1, <2>2
<1>10. CASE h <= L
  <2>1. PICK x \in {0, 1} : x = IF "fin" \in f.flags THEN 1 ELSE 0
    OBVIOUS
  <2>2. q + (L + x) <= w + 2 /\ r <= q + (L + x) /\ L + x \in Nat /\ x \in Nat
    <3>1. x = 0 \/ (x = 1 /\ q - 1 + L = w)
      BY <1>4, <2>1
    <3>2. q - 1 + L <= w \/ (L = 0 /\ q = w + 2)
      BY <1>4, <1>6
    <3> QED
      BY <1>4, <1>5, <1>10, <3>1, <3>2
  <2>3. Minus(peer'.rcv, iss) = q + (L + x)
    <3>1. L + x \in SeqNo /\ q + (L + x) < SeqSpace
      <4>1. w <= TxLen
        BY <1>2 DEF Types, AppTyped
      <4> QED
        BY <2>2, <4>1, Space DEF SeqNo
    <3>2. peer'.rcv = Add(f.seq, L + x)
      BY <1>7, <1>10, <2>1
    <3>3. PICK y \in SeqNo : y = f.seq /\ Minus(y, iss) = q
      BY <1>1, <1>2
    <3> QED
      BY <3>1, <3>2, <3>3, Positions
  <2>4. peer'.got = Bytes(0, g) \o Bytes(r - 1, L - h)
    <3>1. h \in 0 .. L /\ L \in h .. L /\ q - 1 \in Nat
      BY <1>4, <1>10
    <3>2. SubSeq(Bytes(q - 1, L), h + 1, L) = Bytes(q - 1 + h, L - h)
      BY <3>1, BytesPart
    <3>3. q - 1 + h = r - 1
      BY <1>5
    <3> QED
      BY <1>3, <1>4, <1>7, <1>10, <3>2, <3>3
  <2>5. CASE r = g + 1
    <3>0. PICK k \in Nat : k = L - h
      BY <1>10
    <3>1. r - 1 = g /\ 0 + g = g /\ g + k \in Nat /\ 0 \in Nat
      BY <2>5
    <3>2. Bytes(0, g) \o Bytes(g, k) = Bytes(0, g + k)
      <4>1. PICK z \in Nat : z = 0
        OBVIOUS
      <4>2. Bytes(z, g) \o Bytes(z + g, k) = Bytes(z, g + k)
        BY BytesJoin
      <4>3. z + g = g
        BY <4>1
      <4> QED
        BY <4>1, <4>2, <4>3
    <3>3. peer'.got = Bytes(0, g + k) /\ Len(peer'.got) = g + k
      <4>1. peer'.got = Bytes(0, g + k)
        BY <2>4, <3>0, <3>1, <3>2
      <4>2. Len(Bytes(0, g + k)) = g + k
        BY <3>1, BytesType
      <4> QED
        BY <4>1, <4>2
    <3>4. g + k = q - 1 + L
      BY <1>5, <2>5, <3>0
    <3>5. q - 1 + L <= w
      BY <1>3, <1>4, <1>6, <2>5
    <3>6. q + (L + x) = (g + k) + 1 \/ (q + (L + x) = w + 2 /\ g + k = w /\ NoMore)
      <4>1. CASE x = 0
        BY <3>4, <4>1
      <4>2. CASE x = 1
        BY <1>4, <2>1, <3>4, <4>2
      <4> QED
        BY <4>1, <4>2
    <3>7. p <= q + (L + x)
      BY <1>3, <2>2
    <3>8. PeerGot(iss)'
      BY <1>2, <1>7, <1>8, <2>3, <3>3, <3>4, <3>5, <3>6, <3>7 DEF PeerGot
    <3> QED
      BY <1>2, <2>2, <2>3, <3>8
  <2>6. CASE r = w + 2 /\ g = w /\ NoMore
    <3>1. L = 0 /\ q = w + 2 /\ h = 0
      BY <1>4, <1>5, <1>6, <1>10, <2>6
    <3>2. "fin" \notin f.flags /\ x = 0
      BY <1>4, <2>1, <3>1
    <3>3. peer'.got = peer.got
      <4>1. Bytes(r - 1, L - h) = <<>>
        BY <2>6, <3>1, BytesEmpty, r - 1 \in Nat
      <4>2. Bytes(0, g) \in Seq(Nat)
        BY BytesType
      <4> QED
        BY <1>3, <2>4, <4>1, <4>2, ConcatEmptySeq
    <3>4. Minus(peer'.rcv, iss) = r
      BY <2>3, <2>6, <3>1, <3>2
    <3>5. PeerGot(iss)'
      BY <1>2, <1>3, <1>7, <1>8, <2>6, <3>3, <3>4 DEF PeerGot
    <3> QED
      BY <1>2, <3>4, <3>5
  <2> QED
    BY <1>3, <2>5, <2>6
<1> QED
  BY <1>9, <1>10

\* The peer takes a frame, whichever it is.
LEMMA PeerTook ==
  ASSUME Types, Types', Linked, Conn, PeerRecv
  PROVE  Linked' /\ Conn'
<1>1. PICK f \in toPeer : peer' = PeerAfter(peer, f) /\ toPeer' \in {toPeer, toPeer \ {f}}
  BY DEF PeerRecv
<1>2. /\ UNCHANGED <<sk, out, used, written, taken, toSock>> /\ toPeer' \subseteq toPeer
      /\ f \in Frames /\ peer \in PeerRec /\ f.seq \in SeqNo
  BY <1>1, NumbersNow DEF PeerRecv, appVars, Types, NetTyped, Numbers
<1>3. Linked'
  BY <1>2 DEF Linked
<1>4. PICK iss \in SeqNo : Quiet(iss) \/ Synced(iss)
  BY DEF Conn
<1>s. Minus(Add(iss, 1), iss) = 1
  <2>1. 1 \in SeqNo /\ 0 + 1 < SeqSpace /\ 0 + 1 = 1
    BY Space DEF SeqNo
  <2>2. Minus(iss, iss) = 0
    BY Positions
  <2> QED
    BY <2>1, <2>2, Positions
<1>5. CASE Quiet(iss)
  <2>1. Active(iss) /\ used /\ f.flags = {"syn"} /\ f.seq = iss
    BY <1>5 DEF Quiet, Passive, Active
  <2>2. CASE peer.st = "listen" /\ peer' = [peer EXCEPT !.st = "synrcvd", !.rcv = Add(f.seq, 1)]
    <3>1. /\ peer'.st = "synrcvd" /\ peer'.rcv = Add(iss, 1) /\ peer'.una = peer.una /\ peer'.wnd = peer.wnd
          /\ peer'.got = peer.got
      BY <1>2, <2>1, <2>2 DEF PeerRec
    <3>2. Active(iss)'
      BY <1>2, <1>s, <2>1, <2>2, <3>1 DEF Active
    <3>3. Quiet(iss)'
      BY <1>2, <1>5, <3>1, <3>2 DEF Quiet
    <3> QED
      BY <1>3, <3>3 DEF Conn
  <2>3. CASE peer' = peer
    <3>1. Active(iss)'
      BY <1>2, <2>1, <2>3 DEF Active
    <3>2. Quiet(iss)'
      BY <1>2, <1>5, <2>3, <3>1 DEF Quiet
    <3> QED
      BY <1>3, <3>2 DEF Conn
  <2> QED
    BY <1>1, <1>2, <2>1, <2>2, <2>3, PeerCases
<1>6. CASE Synced(iss)
  <2>1. CASE peer' = peer
    <3>1. Receiving'
      BY <1>2, <1>6, <2>1, RecvSame DEF Synced
    <3>2. Opening(iss) => Opening(iss)'
      BY <1>2, <2>1 DEF Opening
    <3>3. Open(iss) => Open(iss)'
      BY <1>2, <2>1 DEF Open, OpenSock, PeerGot, OutOpen, Segment, AckIn, NoMore, Dropped
    <3> QED
      BY <1>2, <1>3, <1>6, <3>1, <3>2, <3>3 DEF Conn, Synced
  <2>2. CASE /\ peer.st = "syn" /\ f.flags = {"syn", "ack"} /\ f.ack = PeerSeq(0)
             /\ peer' = [peer EXCEPT !.st = "est", !.rcv = Add(f.seq, 1), !.wnd = f.win]
    <3>1. /\ peer'.st = "est" /\ peer'.rcv = Add(f.seq, 1) /\ peer'.wnd = f.win /\ peer'.una = peer.una
          /\ peer'.got = peer.got
      BY <1>2, <2>2 DEF PeerRec
    <3>2. Opening(iss) /\ peer.una = 0 /\ f.seq = iss
      BY <1>6, <2>2 DEF Synced, Opening, Open, PeerGot
    <3>3. Opening(iss)'
      BY <1>2, <1>s, <2>2, <3>1, <3>2 DEF Opening
    <3>4. PeerWindow'
      <4>1. RPos(f.ack) = 0 + 1
        BY <2>2, PeerSeqPos, Space
      <4>2. AckOut(f) /\ PeerWindow
        BY <1>6, <2>2 DEF Synced, Receiving
      <4>3. Got' = Got /\ Room' = Room /\ Got \in Nat
        BY <1>2, NumbersNow DEF Got, Room, Numbers
      <4> QED
        BY <1>2, <3>1, <3>2, <4>1, <4>2, <4>3 DEF AckOut, PeerWindow
    <3>5. Receiving'
      <4>1. RecvSock' /\ Got' = Got /\ Room' = Room
        BY <1>2, <1>6 DEF Synced, Receiving, RecvSock, Got, Room
      <4>2. RPos(sk.recvd) <= RPos(sk'.recvd) /\ Room <= Room'
        <5>1. RPos(sk.recvd) \in Nat /\ Room \in Nat
          BY NumbersNow, PosType, Space DEF Numbers, RPos
        <5> QED
          BY <1>2, <4>1, <5>1
      <4> QED
        BY <1>2, <1>6, <3>4, <4>1, <4>2, RecvStep DEF Synced
    <3> QED
      BY <1>2, <1>3, <1>6, <3>3, <3>5 DEF Conn, Synced
  <2>3. CASE /\ peer.st \in {"synrcvd", "est", "fin"} /\ "ack" \in f.flags /\ "syn" \notin f.flags
             /\ Minus(f.ack, PeerSeq(0)) <= RxLen + 1 /\ peer' = Takes(peer, f)
    <3>1. Open(iss) /\ Segment(iss, f)
      BY <1>6, <2>3 DEF Synced, Opening, Open
    <3>2. PeerWindow'
      BY <1>2, <1>6, <2>3, TakesWindow DEF Synced
    <3>3. PeerGot(iss)' /\ Minus(peer.rcv, iss) <= Minus(peer'.rcv, iss)
      BY <1>2, <2>3, <3>1, TakesData
    <3>4. Receiving'
      <4>1. RecvSock' /\ Got' = Got /\ Room' = Room
        BY <1>2, <1>6 DEF Synced, Receiving, RecvSock, Got, Room
      <4>2. RPos(sk.recvd) <= RPos(sk'.recvd) /\ Room <= Room'
        <5>1. RPos(sk.recvd) \in Nat /\ Room \in Nat
          BY NumbersNow, PosType, Space DEF Numbers, RPos
        <5> QED
          BY <1>2, <4>1, <5>1
      <4> QED
        BY <1>2, <1>6, <3>2, <4>1, <4>2, RecvStep DEF Synced
    <3>5. OpenSock(iss)' /\ OutOpen(iss)' /\ NoMore' = NoMore
      BY <1>2, <3>1, SockSame DEF Open
    <3>6. Open(iss)'
      BY <1>2, <3>1, <3>3, <3>5, OpenStep
    <3> QED
      BY <1>2, <1>3, <1>6, <3>4, <3>6 DEF Conn, Synced
  <2>4. peer.st # "listen"
    BY <1>6 DEF Synced, Opening, Open, PeerGot
  <2> QED
    BY <1>1, <1>2, <2>1, <2>2, <2>3, <2>4, PeerCases
<1> QED
  BY <1>4, <1>5, <1>6

-----------------------------------------------------------------------------
(* The reception task: the fields of the socket behind a frame.            *)

\* What an acknowledgement does to the links.
LEMMA LinkFields ==
  ASSUME NEW k, SockOf(k), NEW e, e = OnLastAck(OnEstablish(k))
  PROVE  /\ SockOf(e)
         /\ e.rxq = k.rxq /\ e.txq = k.txq /\ e.recvd = k.recvd
         /\ e.start = k.start /\ e.end = k.end /\ e.txflags = k.txflags
         /\ k.state = "establishing" /\ k.txflags = {"syn", "ack"} =>
              e.state = "established" /\ e.loc = "open" /\ e.rem = "open"
         /\ k.state # "establishing" =>
              /\ e.rem = k.rem
              /\ e.loc = IF k.loc = "closing" THEN "closed" ELSE k.loc
              /\ e.state = k.state \/ (k.loc = "closing" /\ e.state = "closed")
<1>1. PICK j : j = OnEstablish(k)
  OBVIOUS
<1>2. /\ SockOf(j) /\ j.rxq = k.rxq /\ j.txq = k.txq /\ j.recvd = k.recvd
      /\ j.start = k.start /\ j.end = k.end /\ j.txflags = k.txflags
      /\ k.state = "establishing" /\ k.txflags = {"syn", "ack"} =>
           j.state = "established" /\ j.loc = "open" /\ j.rem = "open"
      /\ k.state # "establishing" => j = k
  <2>1. SockOf(j)
    BY <1>1 DEF OnEstablish, SockOf, SockRec, SockStates, Links
  <2> QED
    BY <1>1, <2>1 DEF OnEstablish, SockOf, SockRec
<1>3. /\ SockOf(e) /\ e.rxq = j.rxq /\ e.txq = j.txq /\ e.recvd = j.recvd
      /\ e.start = j.start /\ e.end = j.end /\ e.txflags = j.txflags /\ e.rem = j.rem
      /\ e.loc = IF j.loc = "closing" THEN "closed" ELSE j.loc
      /\ e.state = j.state \/ (j.loc = "closing" /\ e.state = "closed")
  <2>0. e = OnLastAck(j)
    BY <1>1
  <2>1. SockOf(OnLastAck(j))
    BY <1>2 DEF OnLastAck, SockOf, SockRec, SockStates, Links
  <2> QED
    BY <1>2, <2>0, <2>1 DEF OnLastAck, SockOf, SockRec
<1> QED
  BY <1>2, <1>3

\* What it does not touch when it stores data.
LEMMA DataFields ==
  ASSUME NEW k, SockOf(k), NEW f \in Frames, NEW d, d = OnData(k, f)
  PROVE  /\ SockOf(d) /\ d.state = k.state /\ d.loc = k.loc /\ d.rem = k.rem
         /\ d.txq = k.txq /\ d.start = k.start /\ d.end = k.end /\ d.txflags = k.txflags
         /\ f.seq # k.recvd => d.rxq = k.rxq /\ d.recvd = k.recvd
<1>1. SockOf(d)
  BY AckTyped
<1>2. PICK q, m : d = IF f.seq # k.recvd THEN [k EXCEPT !.acked = f.seq] ELSE [k EXCEPT !.rxq = q, !.recvd = m]
  BY DEF OnData, SockOf, SockRec
<1> QED
  BY <1>1, <1>2 DEF SockOf, SockRec

\* What it takes from txq.
LEMMA AckedFields ==
  ASSUME NEW k, SockOf(k), NEW f \in Frames, NEW d, d = OnAcked(k, f)
  PROVE  /\ SockOf(d) /\ d.state = k.state /\ d.loc = k.loc /\ d.rem = k.rem
         /\ d.rxq = k.rxq /\ d.recvd = k.recvd /\ d.end = k.end /\ d.txflags = k.txflags
         /\ d.start = f.ack
         /\ d.txq = SubSeq(k.txq, Lesser(Minus(f.ack, k.start), Len(k.txq)) + 1, Len(k.txq))
<1>1. SockOf(d)
  BY AckTyped
<1>2. PICK q : q = SubSeq(k.txq, Lesser(Minus(f.ack, k.start), Len(k.txq)) + 1, Len(k.txq))
  OBVIOUS
<1>3. d = [k EXCEPT !.txq = q, !.start = f.ack]
  BY <1>2 DEF OnAcked, SockOf, SockRec
<1> QED
  BY <1>1, <1>2, <1>3 DEF SockOf, SockRec

\* What a FIN does.
LEMMA FinFields ==
  ASSUME NEW k, SockOf(k), NEW f \in Frames, NEW d, d = OnFin(k, f)
  PROVE  /\ d.rxq = k.rxq /\ d.txq = k.txq /\ d.recvd = k.recvd
         /\ d.start = k.start /\ d.end = k.end /\ d.txflags = k.txflags
         /\ "fin" \notin f.flags => d.state = k.state /\ d.loc = k.loc /\ d.rem = k.rem
         /\ "fin" \in f.flags => d.state = "closing" /\ d.loc = IF k.loc = "open" THEN "closing" ELSE k.loc
BY DEF OnFin, SockOf, SockRec

\* All of it: the links, what was stored, what was acknowledged.
LEMMA AcceptFields ==
  ASSUME NEW k, SockOf(k), NEW f \in Frames, "ack" \in f.flags, NEW d, d = OnFin(OnAck(k, f), f)
  PROVE  /\ d.end = k.end /\ d.txflags = k.txflags /\ d.start = f.ack
         /\ d.txq = SubSeq(k.txq, Lesser(Minus(f.ack, k.start), Len(k.txq)) + 1, Len(k.txq))
         /\ f.seq # k.recvd => d.rxq = k.rxq /\ d.recvd = k.recvd
         /\ \E e : /\ e = OnLastAck(OnEstablish(k))
                   /\ "fin" \notin f.flags => d.state = e.state /\ d.loc = e.loc /\ d.rem = e.rem
                   /\ "fin" \in f.flags => d.state = "closing" /\ d.loc = IF e.loc = "open" THEN "closing" ELSE e.loc
<1>1. PICK e : e = OnLastAck(OnEstablish(k))
  OBVIOUS
<1>2. PICK x : x = OnData(e, f)
  OBVIOUS
<1>3. PICK y : y = OnAcked(x, f)
  OBVIOUS
<1>4. d = OnFin(y, f)
  BY <1>1, <1>2, <1>3 DEF OnAck
<1>5. SockOf(e) /\ SockOf(x) /\ SockOf(y)
  BY <1>1, <1>2, <1>3, AckTyped
<1>6. /\ e.rxq = k.rxq /\ e.txq = k.txq /\ e.recvd = k.recvd
      /\ e.start = k.start /\ e.end = k.end /\ e.txflags = k.txflags
  BY <1>1, LinkFields
<1>9. /\ x.state = e.state /\ x.loc = e.loc /\ x.rem = e.rem
      /\ x.txq = k.txq /\ x.start = k.start /\ x.end = k.end /\ x.txflags = k.txflags
      /\ f.seq # k.recvd => x.rxq = k.rxq /\ x.recvd = k.recvd
  BY <1>2, <1>5, <1>6, DataFields
<1>10. /\ y.state = x.state /\ y.loc = x.loc /\ y.rem = x.rem
       /\ y.rxq = x.rxq /\ y.recvd = x.recvd /\ y.end = x.end /\ y.txflags = x.txflags
       /\ y.start = f.ack
       /\ y.txq = SubSeq(x.txq, Lesser(Minus(f.ack, x.start), Len(x.txq)) + 1, Len(x.txq))
  BY <1>3, <1>5, AckedFields
<1>11. /\ d.rxq = y.rxq /\ d.txq = y.txq /\ d.recvd = y.recvd
       /\ d.start = y.start /\ d.end = y.end /\ d.txflags = y.txflags
       /\ "fin" \notin f.flags => d.state = y.state /\ d.loc = y.loc /\ d.rem = y.rem
       /\ "fin" \in f.flags => d.state = "closing" /\ d.loc = IF y.loc = "open" THEN "closing" ELSE y.loc
  BY <1>4, <1>5, FinFields
<1> QED
  BY <1>1, <1>9, <1>10, <1>11

\* What is stored of a frame in sequence.
Appended(k, f, n) == k.rxq \o SubSeq(f.data, 1, n)

LEMMA Stored ==
  ASSUME NEW k, SockOf(k), NEW f \in Frames, "ack" \in f.flags, f.seq = k.recvd, NEW d, d = OnFin(OnAck(k, f), f),
         NEW n \in Nat, n = Lesser(Len(f.data), RxCap - Len(k.rxq)),
         NEW c \in {0, 1}, c = IF f.flags \cap {"fin", "syn"} = {} THEN 0 ELSE 1
  PROVE  d.rxq = Appended(k, f, n) /\ d.recvd = Add(k.recvd, n + c)
<1>1. PICK e : e = OnLastAck(OnEstablish(k))
  OBVIOUS
<1>2. PICK x : x = OnData(e, f)
  OBVIOUS
<1>3. PICK y : y = OnAcked(x, f)
  OBVIOUS
<1>4. d = OnFin(y, f)
  BY <1>1, <1>2, <1>3 DEF OnAck
<1>5. SockOf(e) /\ SockOf(x) /\ SockOf(y)
  BY <1>1, <1>2, <1>3, AckTyped
<1>6. e.rxq = k.rxq /\ e.recvd = k.recvd
  BY <1>1, LinkFields
<1>7. n = Lesser(Len(f.data), RxCap - Len(e.rxq)) /\ f.seq = e.recvd
  BY <1>6
<1>8. x = [e EXCEPT !.rxq = @ \o SubSeq(f.data, 1, n), !.recvd = Add(@, n + c)]
  BY <1>2, <1>7 DEF OnData
<1>9. x.rxq = e.rxq \o SubSeq(f.data, 1, n) /\ x.recvd = Add(e.recvd, n + c)
  BY <1>5, <1>8 DEF SockOf, SockRec
<1>10. y.rxq = x.rxq /\ y.recvd = x.recvd
  BY <1>3, <1>5, AckedFields
<1>11. d.rxq = y.rxq /\ d.recvd = y.recvd
  BY <1>4, <1>5, FinFields
<1> QED
  BY <1>6, <1>9, <1>10, <1>11 DEF Appended

\* When none of it happens.
LEMMA Refused ==
  ASSUME NEW k, SockOf(k), NEW f \in Frames, NEW seed \in Seeds
  PROVE  /\ k.state = "closed" => TcpIncoming(k, f, seed) = k
         /\ "syn" \in f.flags /\ k.state \notin {"listen", "connect"} =>
              TcpIncoming(k, f, seed) \in {k, [k EXCEPT !.state = "closed"]}
         /\ "syn" \notin f.flags /\ "ack" \in f.flags =>
              \/ TcpIncoming(k, f, seed) \in {k, [k EXCEPT !.state = "closed"]}
              \/ /\ k.state \notin {"closed", "listen"}
                 /\ Minus(f.ack, k.start) <= Minus(k.end, k.start)
                 /\ TcpIncoming(k, f, seed) = OnFin(OnAck(k, f), f)
<1>1. PICK r : r = OnRst(k, f)
  OBVIOUS
<1>2. r = k \/ (r = [k EXCEPT !.state = "closed"] /\ r.state = "closed")
  BY <1>1 DEF OnRst, SockOf, SockRec
<1>3. "syn" \in f.flags /\ k.state \notin {"listen", "connect"} => ~SynOK(r, f)
  BY <1>2 DEF SynOK
<1>4. ASSUME "syn" \notin f.flags, "ack" \in f.flags, k.state # "closed"
      PROVE  \/ TcpIncoming(k, f, seed) \in {k, [k EXCEPT !.state = "closed"]}
             \/ /\ k.state \notin {"closed", "listen"}
                /\ Minus(f.ack, k.start) <= Minus(k.end, k.start)
                /\ TcpIncoming(k, f, seed) = OnFin(OnAck(k, f), f)
  <2>1. SynOK(r, f) /\ OnSyn(r, f, seed) = r
    BY <1>4 DEF SynOK, OnSyn
  <2>2. TcpIncoming(k, f, seed) = IF ~AckOK(r, f) THEN r ELSE OnFin(OnAck(r, f), f)
    BY <1>1, <1>4, <2>1 DEF TcpIncoming
  <2>3. r.state = "closed" => ~AckOK(r, f)
    BY <1>4 DEF AckOK
  <2>4. AckOK(k, f) => k.state \notin {"closed", "listen"} /\ Minus(f.ack, k.start) <= Minus(k.end, k.start)
    BY <1>4 DEF AckOK
  <2> QED
    BY <1>2, <2>2, <2>3, <2>4
<1>5. k.state = "closed" => TcpIncoming(k, f, seed) = k
  BY DEF TcpIncoming
<1>6. "syn" \in f.flags /\ k.state \notin {"listen", "connect"} =>
              TcpIncoming(k, f, seed) \in {k, [k EXCEPT !.state = "closed"]}
  BY <1>1, <1>2, <1>3 DEF TcpIncoming
<1> QED
  BY <1>4, <1>5, <1>6

-----------------------------------------------------------------------------
(* The reception task: a frame is accepted.                                *)

\* What the socket stores continues the stream.
LEMMA InData ==
  ASSUME Types, Types', Receiving, NEW f \in toSock, "syn" \notin f.flags, "ack" \in f.flags,
         sk' = OnFin(OnAck(sk, f), f), UNCHANGED <<taken, peer, toPeer>>, toSock' \subseteq toSock
  PROVE  Receiving'
<1>1. f \in Frames /\ f.seq \in SeqNo /\ sk.recvd \in SeqNo /\ SockOf(sk) /\ f.data \in Seq(Nat)
  BY NumbersNow DEF Numbers, Types, NetTyped
<1>2. PICK m \in Nat, g \in Nat, c \in Nat, a \in Nat, L \in Nat, t \in Nat, l \in Nat :
        /\ m = RPos(sk.recvd) /\ g = Got /\ c = Room /\ a = RPos(f.seq) /\ L = Len(f.data)
        /\ t = taken /\ l = Len(sk.rxq)
  <2>1. RPos(sk.recvd) \in Nat /\ RPos(f.seq) \in Nat
    BY <1>1, PosType, Space DEF RPos
  <2>2. Got \in Nat /\ Room \in Nat /\ Len(f.data) \in Nat /\ taken \in Nat /\ Len(sk.rxq) \in Nat
    BY NumbersNow, Space DEF Numbers
  <2> QED
    BY <2>1, <2>2
<1>3. /\ g <= RxLen /\ (m = g + 1 \/ (m = g + 2 /\ g = RxLen)) /\ sk.rxq = Bytes(t, l)
      /\ g = t + l /\ c = RxCap - l
  BY <1>2 DEF Receiving, RecvSock, Got, Room
<1>4. /\ 1 <= a /\ a <= m /\ f.data = Bytes(a - 1, L) /\ (f.data = <<>> \/ a - 1 + L <= RxLen)
      /\ "fin" \in f.flags => a - 1 + L = RxLen /\ (a = g + 1 => L <= c)
  <2>1. DataIn(f)
    BY DEF Receiving
  <2> QED
    BY <1>2, <2>1 DEF DataIn
<1>5. CASE f.seq # sk.recvd
  <2>1. sk'.rxq = sk.rxq /\ sk'.recvd = sk.recvd
    BY <1>1, <1>5, AcceptFields
  <2> QED
    BY <2>1, RecvSame
<1>6. CASE f.seq = sk.recvd
  <2>1. a = m
    BY <1>2, <1>6
  <2>2. PICK j \in Nat : j = Lesser(L, c) /\ j <= L /\ j <= c /\ (j = L \/ j = c)
    <3>1. Lesser(L, c) \in Nat /\ Lesser(L, c) <= L /\ Lesser(L, c) <= c /\ (Lesser(L, c) = L \/ Lesser(L, c) = c)
      BY LesserOf
    <3> QED
      BY <3>1
  <2>3. PICK x \in {0, 1} : x = (IF f.flags \cap {"fin", "syn"} = {} THEN 0 ELSE 1) /\ (x = 1 <=> "fin" \in f.flags)
    OBVIOUS
  <2>4. sk'.rxq = sk.rxq \o SubSeq(f.data, 1, j) /\ sk'.recvd = Add(sk.recvd, j + x)
    <3>1. j = Lesser(Len(f.data), RxCap - Len(sk.rxq))
      BY <1>2, <1>3, <2>2
    <3>2. x = IF f.flags \cap {"fin", "syn"} = {} THEN 0 ELSE 1
      BY <2>3
    <3>3. f \in Frames /\ SockOf(sk)
      BY <1>1
    <3>4. sk'.rxq = Appended(sk, f, j) /\ sk'.recvd = Add(sk.recvd, j + x)
      BY <1>6, <3>1, <3>2, <3>3, Stored
    <3> QED
      BY <3>4 DEF Appended
  <2>5. SubSeq(f.data, 1, j) = Bytes(m - 1, j)
    <3>1. PICK b \in Nat : b = m - 1
      BY <1>4, <2>1
    <3>2. 0 \in 0 .. L /\ j \in 0 .. L
      BY <2>2
    <3>3. SubSeq(Bytes(b, L), 0 + 1, j) = Bytes(b + 0, j - 0)
      BY <3>2, BytesPart
    <3>4. b + 0 = b /\ j - 0 = j /\ 0 + 1 = 1
      OBVIOUS
    <3> QED
      BY <1>4, <2>1, <3>1, <3>3, <3>4
  <2>6. f.data = <<>> => L = 0
    BY <1>2, EmptySeq
  <2>7. m + (j + x) <= RxLen + 2 => RPos(sk'.recvd) = m + (j + x)
    <3> SUFFICES ASSUME m + (j + x) <= RxLen + 2 PROVE RPos(sk'.recvd) = m + (j + x)
      OBVIOUS
    <3>1. j + x \in SeqNo /\ m + (j + x) < SeqSpace
      BY Space DEF SeqNo
    <3>2. PICK y \in SeqNo : y = sk.recvd /\ Minus(y, PeerIss) = m
      BY <1>1, <1>2 DEF RPos
    <3>3. PICK z \in SeqNo : z = j + x
      BY <3>1
    <3>4. Minus(y, PeerIss) + z < SeqSpace
      BY <3>1, <3>2, <3>3
    <3>5. Minus(Add(y, z), PeerIss) = Minus(y, PeerIss) + z
      BY <3>4, Positions, Space
    <3> QED
      BY <2>4, <3>2, <3>3, <3>5 DEF RPos
  <2>8. CASE m = g + 1
    <3>1. sk'.rxq = Bytes(t, l + j) /\ Len(sk'.rxq) = l + j
      <4>1. m - 1 = t + l
        BY <1>3, <2>8
      <4>2. Bytes(t, l) \o Bytes(t + l, j) = Bytes(t, l + j)
        BY ONLY BytesJoin, t \in Nat, l \in Nat, j \in Nat
      <4>3. sk'.rxq = Bytes(t, l + j)
        BY <1>3, <2>4, <2>5, <4>1, <4>2
      <4>4. Len(Bytes(t, l + j)) = l + j
        BY BytesType, l + j \in Nat
      <4> QED
        BY <4>3, <4>4
    <3>2. Got' = g + j /\ Room' = c - j
      <4>1. Got' = t + (l + j) /\ Room' = RxCap - (l + j)
        BY <1>2, <3>1 DEF Got, Room
      <4> QED
        BY <1>3, <4>1, Space
    <3>3. g + j <= RxLen /\ (x = 1 => g + j = RxLen)
      <4>1. L = 0 \/ g + L <= RxLen
        BY <1>4, <2>1, <2>6, <2>8
      <4>2. x = 1 => g + L = RxLen /\ L <= c
        BY <1>4, <2>1, <2>3, <2>8
      <4> QED
        BY <1>3, <2>2, <4>1, <4>2, Space
    <3>4. RPos(sk'.recvd) = m + (j + x)
      BY <2>7, <2>8, <3>3, Space
    <3>5. RecvSock'
      <4>1. m + (j + x) = (g + j) + 1 \/ (m + (j + x) = (g + j) + 2 /\ g + j = RxLen)
        BY <2>8, <3>3
      <4> QED
        BY <1>2, <3>1, <3>2, <3>3, <3>4, <4>1 DEF RecvSock
    <3>6. m <= m + (j + x)
      OBVIOUS
    <3>7. (g + j = g /\ c <= c - j) \/ g < g + j
      OBVIOUS
    <3>8. \/ Got' = Got /\ Room <= Room'
          \/ RPos(sk.recvd) = Got + 1 /\ Got < Got'
      BY <1>2, <2>8, <3>2, <3>7
    <3>9. RPos(sk.recvd) <= RPos(sk'.recvd)
      BY <1>2, <3>4, <3>6
    <3> QED
      BY <3>5, <3>8, <3>9, RecvStep
  <2>9. CASE m = g + 2 /\ g = RxLen
    <3>1. L = 0 /\ x = 0 /\ j = 0
      <4>1. L = 0
        BY <1>4, <2>1, <2>6, <2>9
      <4>2. x # 1
        BY <1>4, <2>1, <2>3, <2>9, <4>1
      <4> QED
        BY <2>2, <4>1, <4>2
    <3>2. sk'.rxq = sk.rxq
      <4>1. Bytes(m - 1, j) = <<>>
        BY <2>9, <3>1, BytesEmpty, m - 1 \in Nat
      <4>2. Bytes(t, l) \in Seq(Nat)
        BY BytesType
      <4> QED
        BY <1>3, <2>4, <2>5, <4>1, <4>2, ConcatEmptySeq
    <3>3. RPos(sk'.recvd) = m
      BY <2>7, <2>9, <3>1, Space
    <3>4. Got' = Got /\ Room' = Room
      BY <3>2 DEF Got, Room
    <3>5. RecvSock'
      BY <1>2, <3>2, <3>3, <3>4 DEF Receiving, RecvSock
    <3>6. RPos(sk.recvd) <= RPos(sk'.recvd) /\ Room <= Room'
      BY <1>2, <3>3, <3>4
    <3> QED
      BY <3>4, <3>5, <3>6, RecvStep
  <2> QED
    BY <1>3, <2>8, <2>9
<1> QED
  BY <1>5, <1>6

\* The first acknowledgement opens the links.
LEMMA InOpening ==
  ASSUME Types, Types', NEW iss \in SeqNo, Opening(iss), NEW f \in toSock, "ack" \in f.flags,
         sk.state # "closed", out = Idle,
         sk' = OnFin(OnAck(sk, f), f), UNCHANGED <<out, used, written, peer, toPeer>>, toSock' \subseteq toSock
  PROVE  Linked' /\ Open(iss)'
<1>1. f \in Frames /\ SockOf(sk) /\ f.ack \in SeqNo /\ sk.start \in SeqNo
  BY NumbersNow DEF Numbers, Types, NetTyped
<1>2. /\ sk.state = "establishing" /\ sk.txflags = {"syn", "ack"} /\ Minus(sk.end, iss) = 1
      /\ peer.st \in {"est", "fin", "done"} /\ Minus(peer.rcv, iss) = 1 /\ Minus(f.ack, iss) = 1
      /\ sk.txq = <<>> /\ written = 0 /\ peer.got = <<>>
  BY DEF Opening
<1>3. /\ sk'.end = sk.end /\ sk'.start = f.ack
      /\ sk'.txq = SubSeq(<<>>, Lesser(Minus(f.ack, sk.start), 0) + 1, 0)
      /\ sk'.state = "established" => sk'.loc = "open" /\ sk'.rem = "open"
      /\ sk'.state \in {"established", "closing"}
  <2>1. Len(sk.txq) = 0
    BY <1>2, EmptySeq
  <2>2. sk'.end = sk.end /\ sk'.start = f.ack /\ sk'.txq = SubSeq(<<>>, Lesser(Minus(f.ack, sk.start), 0) + 1, 0)
    BY <1>1, <1>2, <2>1, AcceptFields
  <2>3. PICK e : /\ e = OnLastAck(OnEstablish(sk))
                 /\ "fin" \notin f.flags => sk'.state = e.state /\ sk'.loc = e.loc /\ sk'.rem = e.rem
                 /\ "fin" \in f.flags => sk'.state = "closing"
    BY <1>1, AcceptFields
  <2>4. e.state = "established" /\ e.loc = "open" /\ e.rem = "open"
    BY <1>1, <1>2, <2>3, LinkFields
  <2> QED
    BY <2>2, <2>3, <2>4
<1>4. sk'.txq = <<>>
  <2>1. Minus(f.ack, sk.start) \in Nat
    BY <1>1, PosType
  <2>2. Lesser(Minus(f.ack, sk.start), 0) = 0
    BY <2>1 DEF Lesser
  <2>3. SubSeq(<<>>, 1, 0) = <<>>
    BY EmptySeq, SubSeqProperties
  <2> QED
    BY <1>3, <2>2, <2>3
<1>5. Dropped' = 0
  <2>1. Len(sk'.txq) = 0 /\ written' = 0
    BY <1>2, <1>4, EmptySeq
  <2> QED
    BY <2>1 DEF Dropped
<1>6. <<>> = Bytes(0, 0) /\ Len(<<>>) = 0
  BY BytesEmpty
<1>7. OpenSock(iss)'
  <2>1. /\ Minus(sk'.start, iss) = 1 /\ Minus(sk'.end, iss) = 1 /\ written' = 0
        /\ sk'.txq = Bytes(0, Len(sk'.txq)) /\ sk'.state \in {"closed", "established", "closing"}
    BY <1>2, <1>3, <1>4, <1>6
  <2> QED
    BY <1>5, <2>1 DEF OpenSock
<1>8. PeerGot(iss)'
  BY <1>2, <1>3, <1>6 DEF PeerGot
<1>9. OutOpen(iss)' /\ Linked'
  BY <1>3 DEF OutOpen, Linked
<1>10. \A h \in toPeer' : "syn" \in h.flags
  BY DEF Opening
<1>11. \A h \in toSock' : "ack" \notin h.flags \/ AckIn(iss, h)'
  BY <1>2 DEF Opening, AckIn
<1> QED
  BY <1>7, <1>8, <1>9, <1>10, <1>11 DEF Open

\* Every acknowledgement after it.
LEMMA InAck ==
  ASSUME Types, Types', Linked, NEW iss \in SeqNo, Open(iss), NEW f \in toSock, "ack" \in f.flags,
         sk.state # "closed", out = Idle, Minus(f.ack, sk.start) <= Minus(sk.end, sk.start),
         sk' = OnFin(OnAck(sk, f), f), UNCHANGED <<out, used, written, peer, toPeer>>, toSock' \subseteq toSock
  PROVE  Linked' /\ Open(iss)'
<1>1. f \in Frames /\ SockOf(sk) /\ f.ack \in SeqNo /\ sk.start \in SeqNo /\ sk.end \in SeqNo /\ peer.rcv \in SeqNo
  BY NumbersNow DEF Numbers, Types, NetTyped
<1>2. PICK p \in Nat, e \in Nat, a \in Nat, r \in Nat, w \in Nat, L \in Nat, d \in Nat, g \in Nat :
        /\ p = Minus(sk.start, iss) /\ e = Minus(sk.end, iss) /\ a = Minus(f.ack, iss) /\ r = Minus(peer.rcv, iss)
        /\ w = written /\ L = Len(sk.txq) /\ d = Dropped /\ g = Len(peer.got) /\ w = d + L /\ w <= TxLen
  <2>1. /\ Minus(sk.start, iss) \in Nat /\ Minus(sk.end, iss) \in Nat
        /\ Minus(f.ack, iss) \in Nat /\ Minus(peer.rcv, iss) \in Nat
    BY <1>1, PosType
  <2>2. written \in Nat /\ written <= TxLen /\ Len(sk.txq) \in Nat /\ Len(peer.got) \in Nat /\ Dropped \in Nat
    BY NumbersNow, Space DEF Numbers, Open, OpenSock
  <2>3. written = Dropped + Len(sk.txq)
    BY <2>2 DEF Dropped
  <2> QED
    BY <2>1, <2>2, <2>3
<1>3. /\ sk.state \in {"established", "closing"} /\ sk.txq = Bytes(d, L)
      /\ p = d + 1 \/ (p = w + 2 /\ L = 0 /\ sk.loc = "closed")
      /\ p <= e /\ e <= w + 2
  BY <1>2, EmptySeq DEF Open, OpenSock
<1>4. 1 <= a /\ a <= r /\ g <= w /\ (r = g + 1 \/ NoMore)
  BY <1>2 DEF Open, AckIn, PeerGot
<1>5. /\ p <= a /\ a <= e /\ Minus(f.ack, sk.start) = a - p
  <2>1. PICK x \in SeqNo, y \in SeqNo, z \in SeqNo :
          /\ x = sk.start /\ y = f.ack /\ z = sk.end
          /\ Minus(x, iss) = p /\ Minus(y, iss) = a /\ Minus(z, iss) = e
    BY <1>1, <1>2
  <2>2. Minus(z, iss) >= Minus(x, iss)
    BY <1>3, <2>1
  <2>3. Minus(z, x) = e - p
    <3>1. Minus(z, x) = Minus(z, iss) - Minus(x, iss)
      BY <2>2, Positions
    <3> QED
      BY <2>1, <3>1
  <2>4. Minus(y, x) <= e - p
    BY <2>1, <2>3
  <2>5. CASE a < p
    <3>1. Minus(y, iss) < Minus(x, iss)
      BY <2>1, <2>5
    <3>2. Minus(y, x) = Minus(y, iss) - Minus(x, iss) + SeqSpace
      BY <3>1, Positions
    <3>3. a - p + SeqSpace <= e - p
      BY <2>1, <2>4, <3>2
    <3>4. w <= TxLen
      BY <1>2
    <3> QED
      BY <1>3, <3>3, <3>4, Space
  <2>6. CASE ~(a < p)
    <3>1. Minus(y, iss) >= Minus(x, iss)
      BY <2>1, <2>6
    <3>2. Minus(y, x) = a - p
      <4>1. Minus(y, x) = Minus(y, iss) - Minus(x, iss)
        BY <3>1, Positions
      <4> QED
        BY <2>1, <4>1
    <3>3. p <= a /\ a <= e
      BY <2>4, <2>6, <3>2
    <3> QED
      BY <2>1, <3>2, <3>3
  <2> QED
    BY <2>5, <2>6
<1>6. PICK n \in Nat : n = Lesser(a - p, L) /\ n <= a - p /\ n <= L /\ (n = a - p \/ n = L)
  <2>1. PICK b \in Nat : b = a - p
    BY <1>5
  <2>2. Lesser(b, L) \in Nat /\ Lesser(b, L) <= b /\ Lesser(b, L) <= L /\ (Lesser(b, L) = b \/ Lesser(b, L) = L)
    BY LesserOf
  <2> QED
    BY <2>1, <2>2
<1>7. sk'.end = sk.end /\ sk'.start = f.ack /\ sk'.txq = SubSeq(sk.txq, n + 1, L)
  <2>1. /\ sk'.end = sk.end /\ sk'.start = f.ack
        /\ sk'.txq = SubSeq(sk.txq, Lesser(Minus(f.ack, sk.start), Len(sk.txq)) + 1, Len(sk.txq))
    BY <1>1, AcceptFields
  <2> QED
    BY <1>2, <1>5, <1>6, <2>1
<1>8. /\ sk'.state \in {"closed", "closing"} \/ sk'.state = sk.state
      /\ sk.loc # "open" => sk'.loc = "closed"
      /\ Linked'
  <2>1. PICK k : /\ k = OnLastAck(OnEstablish(sk))
                 /\ "fin" \notin f.flags => sk'.state = k.state /\ sk'.loc = k.loc /\ sk'.rem = k.rem
                 /\ "fin" \in f.flags => sk'.state = "closing" /\ sk'.loc = IF k.loc = "open" THEN "closing" ELSE k.loc
    BY <1>1, AcceptFields
  <2>2. /\ k.rem = sk.rem /\ k.loc = IF sk.loc = "closing" THEN "closed" ELSE sk.loc
        /\ k.state = sk.state \/ (sk.loc = "closing" /\ k.state = "closed")
    <3>1. sk.state # "establishing"
      BY <1>3
    <3> QED
      BY <1>1, <2>1, <3>1, LinkFields
  <2>3. sk.loc \in {"closed", "open", "closing"}
    BY <1>1 DEF SockOf, SockRec, Links
  <2> QED
    BY <2>1, <2>2, <2>3 DEF Linked
<1>9. sk'.txq = Bytes(d + n, L - n) /\ Len(sk'.txq) = L - n
  <2>1. n \in 0 .. L /\ L \in n .. L
    BY <1>6
  <2>2. SubSeq(Bytes(d, L), n + 1, L) = Bytes(d + n, L - n)
    BY <2>1, BytesPart
  <2>3. PICK u \in Nat, v \in Nat : u = d + n /\ v = L - n
    BY <1>6
  <2>4. Len(Bytes(u, v)) = v
    BY BytesType
  <2> QED
    BY <1>3, <1>7, <2>2, <2>3, <2>4
<1>10. Dropped' = d + n
  <2>1. Dropped' = w - (L - n)
    BY <1>2, <1>9 DEF Dropped
  <2>2. w = d + L => w - (L - n) = d + n
    OBVIOUS
  <2> QED
    BY <1>2, <2>1, <2>2
<1>11. NoMore => NoMore' /\ sk'.loc = "closed"
  BY <1>3, <1>8 DEF NoMore
<1>12. a = (d + n) + 1 \/ (a = w + 2 /\ n = L /\ sk'.loc = "closed")
  <2>1. CASE p = d + 1 /\ n = a - p
    BY <2>1
  <2>2. CASE p = d + 1 /\ n = L /\ n # a - p
    <3>1. a = w + 2 /\ r # g + 1
      <4>1. w = d + L
        BY <1>2
      <4> QED
        BY <1>3, <1>4, <1>5, <1>6, <2>2, <4>1
    <3> QED
      BY <1>4, <1>11, <2>2, <3>1
  <2>3. CASE p = w + 2 /\ L = 0 /\ sk.loc = "closed"
    <3>1. a = w + 2 /\ n = L
      BY <1>3, <1>5, <1>6, <2>3
    <3>2. sk'.loc = "closed"
      BY <1>8, <2>3
    <3> QED
      BY <3>1, <3>2
  <2> QED
    BY <1>3, <1>6, <2>1, <2>2, <2>3
<1>13. OpenSock(iss)'
  <2>1. n = L => sk'.txq = <<>>
    <3> SUFFICES ASSUME n = L PROVE sk'.txq = <<>>
      OBVIOUS
    <3>1. L - n = 0 /\ d + n \in Nat
      OBVIOUS
    <3> QED
      BY <1>9, <3>1, BytesEmpty
  <2>2. Minus(sk'.start, iss) = a /\ Minus(sk'.end, iss) = e /\ written' = w
    BY <1>2, <1>7
  <2>3. sk'.state \in {"closed", "established", "closing"}
    BY <1>3, <1>8
  <2>4. d + n >= 0 /\ sk'.txq = Bytes(d + n, Len(sk'.txq))
    BY <1>9
  <2> QED
    BY <1>3, <1>5, <1>10, <1>12, <2>1, <2>2, <2>3, <2>4 DEF OpenSock
<1>14. PeerGot(iss)'
  <2>1. Minus(sk'.start, iss) = a
    BY <1>2, <1>7
  <2> QED
    BY <1>2, <1>4, <1>11, <2>1 DEF Open, PeerGot
<1>15. OutOpen(iss)' /\ Minus(peer.rcv, iss) <= Minus(peer'.rcv, iss)
  BY <1>2 DEF OutOpen
<1>16. Open(iss)'
  BY <1>11, <1>13, <1>14, <1>15, OpenStep
<1> QED
  BY <1>8, <1>16

-----------------------------------------------------------------------------
(* The reception task: the handshake.                                      *)

\* The number behind the SYN.
LEMMA BehindSyn ==
  ASSUME NEW iss \in SeqNo
  PROVE  Add(iss, 1) \in SeqNo /\ Minus(Add(iss, 1), iss) = 1 /\ Add(iss, 1) # iss
<1>1. 1 \in SeqNo /\ 0 + 1 < SeqSpace /\ 0 + 1 = 1
  BY Space DEF SeqNo
<1>2. Minus(iss, iss) = 0
  BY Positions
<1>3. Add(iss, 1) \in SeqNo /\ Minus(Add(iss, 1), iss) = 1
  BY <1>1, <1>2, Positions
<1> QED
  BY <1>2, <1>3

\* Either handshake leaves nothing received, and frames without data.
LEMMA FirstReceiving ==
  ASSUME Types', sk'.recvd = Add(PeerIss, 1), sk'.rxq = <<>>, taken' = 0, peer'.una = 0, peer'.wnd = 0,
         \A f \in toPeer' : "ack" \notin f.flags, \A f \in toSock' : "syn" \in f.flags
  PROVE  Receiving'
<1>1. RPos(sk'.recvd) = 1
  BY BehindSyn, Space DEF RPos
<1>2. <<>> = Bytes(0, 0) /\ Len(<<>>) = 0
  BY BytesEmpty
<1>3. Got' = 0 /\ Room' = RxCap
  <2>1. Len(sk'.rxq) = 0
    BY <1>2
  <2> QED
    BY <2>1, Space DEF Got, Room
<1>4. RecvSock'
  BY <1>1, <1>2, <1>3, Space DEF RecvSock
<1>5. PeerWindow'
  BY <1>1, <1>3, Space DEF PeerWindow
<1> QED
  BY <1>4, <1>5 DEF Receiving

\* The peer's SYN reaches a listening socket.
LEMMA InPassive ==
  ASSUME Types, Types', NEW iss \in SeqNo, Quiet(iss), Passive, sk.state = "listen", out = Idle,
         NEW f \in toSock, NEW seed \in Seeds, sk' = TcpIncoming(sk, f, seed),
         UNCHANGED <<out, used, written, taken, peer, toPeer>>, toSock' \subseteq toSock
  PROVE  Linked' /\ Conn'
<1>1. f \in Frames /\ SockOf(sk) /\ seed \in SeqNo
  BY Space DEF Types, NetTyped
<1>2. f.flags = {"syn"} /\ f.seq = PeerIss /\ peer.st = "syn"
  BY DEF Passive
<1>3. sk' = OnSyn(sk, f, seed)
  <2>1. OnRst(sk, f) = sk
    BY <1>2 DEF OnRst
  <2>2. SynOK(sk, f) /\ AckOK(OnSyn(sk, f, seed), f)
    BY <1>2 DEF SynOK, AckOK
  <2>3. \A k : OnFin(OnAck(k, f), f) = k
    BY <1>2 DEF OnFin, OnAck
  <2> QED
    BY <2>1, <2>2, <2>3 DEF TcpIncoming
<1>4. /\ sk'.recvd = Add(PeerIss, 1) /\ sk'.start = seed /\ sk'.state = "establishing"
      /\ sk'.loc = sk.loc /\ sk'.rem = sk.rem /\ sk'.rxq = sk.rxq /\ sk'.txq = sk.txq
  BY <1>1, <1>2, <1>3 DEF OnSyn, SockOf, SockRec
<1>5. used /\ Linked'
  BY <1>4 DEF Quiet, Linked
<1>6. Receiving'
  BY <1>4, FirstReceiving DEF Quiet, Passive
<1>7. Opening(seed)'
  BY <1>2, <1>4 DEF Quiet, Passive, Opening
<1> QED
  BY <1>1, <1>5, <1>6, <1>7 DEF Conn, Synced

\* The peer's SYN+ACK reaches a connecting socket.
LEMMA InActive ==
  ASSUME Types, Types', NEW iss \in SeqNo, Quiet(iss), Active(iss), sk.state = "connect", out = Idle,
         NEW f \in toSock, NEW seed \in Seeds, sk' = TcpIncoming(sk, f, seed),
         UNCHANGED <<out, used, written, taken, peer, toPeer>>, toSock' \subseteq toSock
  PROVE  Linked' /\ Conn'
<1>1. f \in Frames /\ SockOf(sk) /\ seed \in SeqNo /\ f.ack \in SeqNo /\ sk.end \in SeqNo
  BY Space, NumbersNow DEF Types, NetTyped, Numbers
<1>2. /\ f.flags = {"syn", "ack"} /\ f.seq = PeerIss /\ peer.st = "synrcvd" /\ used
      /\ Minus(f.ack, iss) = 1 /\ Minus(sk.end, iss) = 1 /\ Minus(peer.rcv, iss) = 1
  BY DEF Active
<1>3. f.ack = sk.end
  BY <1>1, <1>2, Positions
<1>4. PICK k : k = OnSyn(sk, f, seed)
  OBVIOUS
<1>5. /\ k.recvd = Add(PeerIss, 1) /\ k.state = "established" /\ k.loc = "open" /\ k.rem = "open"
      /\ k.rxq = <<>> /\ k.txq = <<>> /\ k.end = sk.end /\ k.start = seed
  BY <1>1, <1>2, <1>4 DEF OnSyn, SockOf, SockRec, Quiet
<1>6. SockOf(k)
  BY <1>1, <1>4, SynTyped
<1>7. sk' = OnFin(OnAck(k, f), f)
  <2>1. OnRst(sk, f) = sk
    BY <1>2 DEF OnRst
  <2>2. Minus(f.ack, k.start) \in Nat
    BY <1>1, <1>5, PosType
  <2>3. SynOK(sk, f) /\ AckOK(k, f)
    BY <1>2, <1>3, <1>5, <2>2 DEF SynOK, AckOK
  <2> QED
    BY <1>4, <2>1, <2>3 DEF TcpIncoming
<1>8. /\ sk'.end = sk.end /\ sk'.start = f.ack /\ sk'.rxq = <<>> /\ sk'.recvd = Add(PeerIss, 1)
      /\ sk'.txq = SubSeq(<<>>, Lesser(Minus(f.ack, seed), 0) + 1, 0)
      /\ sk'.state = "established" /\ sk'.loc = "open" /\ sk'.rem = "open"
  <2>1. f.seq # k.recvd /\ Len(k.txq) = 0 /\ "ack" \in f.flags /\ "fin" \notin f.flags
    BY <1>2, <1>5, BehindSyn, Space, EmptySeq
  <2>2. /\ sk'.end = k.end /\ sk'.start = f.ack /\ sk'.rxq = k.rxq /\ sk'.recvd = k.recvd
        /\ sk'.txq = SubSeq(k.txq, Lesser(Minus(f.ack, k.start), Len(k.txq)) + 1, Len(k.txq))
    BY <1>1, <1>6, <1>7, <2>1, AcceptFields
  <2>3. PICK e : e = OnLastAck(OnEstablish(k)) /\ sk'.state = e.state /\ sk'.loc = e.loc /\ sk'.rem = e.rem
    BY <1>1, <1>6, <1>7, <2>1, AcceptFields
  <2>4. e = k
    BY <1>5, <2>3 DEF OnLastAck, OnEstablish
  <2> QED
    BY <1>5, <2>1, <2>2, <2>3, <2>4
<1>9. sk'.txq = <<>>
  <2>1. Minus(f.ack, seed) \in Nat
    BY <1>1, PosType
  <2>2. Lesser(Minus(f.ack, seed), 0) = 0
    BY <2>1 DEF Lesser
  <2>3. SubSeq(<<>>, 1, 0) = <<>>
    BY EmptySeq, SubSeqProperties
  <2> QED
    BY <1>8, <2>2, <2>3
<1>10. Receiving'
  BY <1>8, FirstReceiving DEF Quiet, Active
<1>11. <<>> = Bytes(0, 0) /\ Len(<<>>) = 0
  BY BytesEmpty
<1>12. Dropped' = 0 /\ written' = 0
  <2>1. Len(sk'.txq) = 0 /\ written' = 0
    BY <1>9, EmptySeq DEF Quiet
  <2> QED
    BY <2>1 DEF Dropped
<1>13. OpenSock(iss)'
  <2>1. /\ Minus(sk'.start, iss) = 1 /\ Minus(sk'.end, iss) = 1
        /\ sk'.txq = Bytes(0, Len(sk'.txq)) /\ sk'.state \in {"closed", "established", "closing"}
    BY <1>2, <1>8, <1>9, <1>11
  <2> QED
    BY <1>12, <2>1 DEF OpenSock
<1>14. PeerGot(iss)'
  BY <1>2, <1>8, <1>11, <1>12 DEF PeerGot, Quiet
<1>15. Linked' /\ OutOpen(iss)'
  BY <1>8 DEF Linked, OutOpen
<1>16. \A h \in toPeer' : "syn" \in h.flags
  BY DEF Active
<1>17. \A h \in toSock' : AckIn(iss, h)'
  BY <1>2 DEF Active, AckIn
<1>18. Open(iss)'
  BY <1>13, <1>14, <1>15, <1>16, <1>17 DEF Open
<1> QED
  BY <1>2, <1>10, <1>15, <1>18 DEF Conn, Synced

\* Whatever the frame is.
LEMMA InputStep ==
  ASSUME Types, Types', Linked, Conn, Input
  PROVE  Linked' /\ Conn'
<1>1. PICK f \in toSock, seed \in Seeds : sk' = TcpIncoming(sk, f, seed) /\ toSock' \in {toSock, toSock \ {f}}
  BY DEF Input
<1>2. /\ out = Idle /\ UNCHANGED <<out, used, written, taken, peer, toPeer>> /\ toSock' \subseteq toSock
      /\ f \in Frames /\ SockOf(sk)
  BY <1>1 DEF Input, appVars, Types, NetTyped
<1>3. PICK iss \in SeqNo : Quiet(iss) \/ Synced(iss)
  BY DEF Conn
<1>4. CASE sk' \in {sk, [sk EXCEPT !.state = "closed"]}
  BY <1>2, <1>4, Ended
<1>5. CASE Quiet(iss) /\ sk.state # "closed"
  BY <1>1, <1>2, <1>5, InPassive, InActive DEF Quiet, Passive, Active
<1>6. CASE Synced(iss) /\ sk' \notin {sk, [sk EXCEPT !.state = "closed"]}
  <2>1. sk.state \notin {"listen", "connect"}
    BY <1>6 DEF Synced, Opening, Open, OpenSock
  <2>2. "syn" \notin f.flags
    BY <1>1, <1>2, <1>6, <2>1, Refused
  <2>3. "ack" \in f.flags
    BY <1>6, <2>2 DEF Synced, Receiving
  <2>4. /\ sk.state # "closed" /\ Minus(f.ack, sk.start) <= Minus(sk.end, sk.start)
        /\ sk' = OnFin(OnAck(sk, f), f)
    BY <1>1, <1>2, <1>6, <2>2, <2>3, Refused
  <2>5. Receiving'
    BY <1>2, <1>6, <2>2, <2>3, <2>4, InData DEF Synced
  <2>6. Opening(iss) => Linked' /\ Open(iss)'
    BY <1>2, <2>3, <2>4, InOpening
  <2>7. Open(iss) => Linked' /\ Open(iss)'
    BY <1>2, <2>3, <2>4, InAck
  <2> QED
    BY <1>2, <1>6, <2>5, <2>6, <2>7 DEF Conn, Synced
<1>7. sk.state = "closed" => sk' = sk
  BY <1>1, <1>2, Refused
<1> QED
  BY <1>3, <1>4, <1>5, <1>6, <1>7

-----------------------------------------------------------------------------
\* The invariant holds in the beginning ...
LEMMA InitSound == TcpInit => TcpIInv
<1> SUFFICES ASSUME TcpInit PROVE TcpIInv
  OBVIOUS
<1>1. <<>> \in Seq(Nat) /\ Len(<<>>) = 0
  BY EmptySeq
<1>2. /\ sk.state = "closed" /\ sk.loc = "closed" /\ sk.rem = "closed" /\ sk.rxq = <<>> /\ sk.txq = <<>>
      /\ out = Idle /\ ~used /\ written = 0 /\ taken = 0 /\ toSock = {} /\ toPeer = {}
  BY DEF TcpInit
<1>3. peer.st \in {"closed", "listen"} /\ peer.una = 0 /\ peer.wnd = 0 /\ peer.got = <<>>
  BY DEF TcpInit
<1>4. SockOf(sk)
  <2>1. 0 \in SeqNo /\ 0 \in 0 .. RxCap /\ 0 <= RxCap /\ 0 <= TxCap
    BY Space
  <2>2. sk \in SockRec
    BY <1>1, <2>1 DEF TcpInit, SockRec, SockStates, Links, Flags
  <2> QED
    BY <1>1, <1>2, <2>1, <2>2 DEF SockOf
<1>5. peer \in PeerRec
  <2>1. 0 \in SeqNo /\ 0 \in 0 .. RxCap /\ 0 \in 0 .. RxLen + 1
    BY Space
  <2>2. PICK s \in {"closed", "listen"} : peer = [st |-> s, una |-> 0, rcv |-> 0, wnd |-> 0, got |-> <<>>]
    BY DEF TcpInit
  <2> QED
    BY <1>1, <2>1, <2>2 DEF PeerRec, PeerStates
<1>6. Types
  <2>1. AppTyped
    <3>1. app = "idle" /\ used = FALSE
      BY DEF TcpInit
    <3>2. 0 \in 0 .. TxLen /\ 0 \in Nat
      BY Space
    <3> QED
      BY <1>2, <3>1, <3>2 DEF AppTyped
  <2> QED
    BY <1>2, <1>4, <1>5, <2>1 DEF Types, OutTyped, NetTyped
<1>7. Quiet(0)
  BY <1>2, <1>3 DEF Quiet, Passive, Active
<1>8. Linked
  BY <1>2 DEF Linked
<1> QED
  BY <1>6, <1>7, <1>8, Space DEF TcpIInv, Conn

\* ... every step keeps it ...
LEMMA StepSound == TcpIInv /\ [TcpNext]_tcpVars => TcpIInv'
<1> SUFFICES ASSUME TcpIInv, [TcpNext]_tcpVars PROVE TcpIInv'
  OBVIOUS
<1>1. Types /\ Linked /\ Conn
  BY DEF TcpIInv
<1>2. CASE UNCHANGED tcpVars
  <2>1. Types'
    BY <1>1, <1>2 DEF tcpVars, Types, SockOf, OutTyped, AppTyped, NetTyped
  <2>2. UNCHANGED <<out, used, written, taken, peer, links>> /\ sk' = sk
    BY <1>2 DEF tcpVars, links
  <2>3. Linked' /\ Conn'
    BY <1>1, <2>1, <2>2, Ended DEF links
  <2> QED
    BY <2>1, <2>3 DEF TcpIInv
<1>3. CASE TcpNext
  <2>1. Types'
    BY <1>1, <1>3, TypesStep
  <2>2. CASE Input
    BY <1>1, <2>1, <2>2, InputStep DEF TcpIInv
  <2>3. CASE OutPick
    BY <1>1, <2>1, <2>3, Picked DEF TcpIInv
  <2>4. CASE OutFailed
    BY <1>1, <2>1, <2>4, Failed DEF TcpIInv
  <2>5. CASE OutSent
    BY <1>1, <2>1, <2>5, Sent DEF TcpIInv
  <2>6. CASE ListenCall \/ ConnectCall
    BY <1>1, <2>1, <2>6, Called DEF TcpIInv
  <2>7. CASE Send
    BY <1>1, <2>1, <2>7, Written DEF TcpIInv
  <2>8. CASE Recv
    BY <1>1, <2>1, <2>8, Taken DEF TcpIInv
  <2>9. CASE OutStalled \/ OpenReturn \/ CloseReturn \/ CloseTimeout \/ Reset
    <3>1. UNCHANGED <<out, used, written, taken, peer, links>>
      BY <2>9 DEF OutStalled, OpenReturn, CloseReturn, CloseTimeout, Reset, appVars
    <3>2. sk' = sk \/ sk' = [sk EXCEPT !.state = "closed"]
      BY <2>9 DEF OutStalled, OpenReturn, CloseReturn, CloseTimeout, Reset
    <3> QED
      BY <1>1, <2>1, <3>1, <3>2, Ended DEF TcpIInv, links
  <2>10. CASE CloseCall \/ CloseFlushed
    <3>1. UNCHANGED <<out, used, written, taken, peer, links>>
      BY <2>10 DEF CloseCall, CloseFlushed
    <3>2. sk' = sk \/ CloseLink
      BY <2>10 DEF CloseCall, CloseFlushed
    <3> QED
      BY <1>1, <2>1, <3>1, <3>2, Ended, Shut DEF TcpIInv, links
  <2>11. CASE PeerSyn
    BY <1>1, <2>1, <2>11, PeerOpens DEF TcpIInv
  <2>12. CASE PeerSynAck
    BY <1>1, <2>1, <2>12, PeerAnswers DEF TcpIInv
  <2>13. CASE PeerSend \/ PeerRst
    BY <1>1, <2>1, <2>13, PeerSpoke DEF TcpIInv
  <2>14. CASE PeerFin
    BY <1>1, <2>1, <2>14, PeerEnds DEF TcpIInv
  <2>15. CASE PeerRecv
    BY <1>1, <2>1, <2>15, PeerTook DEF TcpIInv
  <2> QED
    BY <1>3, <2>2, <2>3, <2>4, <2>5, <2>6, <2>7, <2>8, <2>9, <2>10, <2>11, <2>12, <2>13, <2>14, <2>15
    DEF TcpNext, Sock, Remote
<1> QED
  BY <1>2, <1>3

\* ... so it always holds.
LEMMA Invariant == TcpSpec => []TcpIInv
BY InitSound, StepSound, PTL DEF TcpSpec

-----------------------------------------------------------------------------
(* What the invariant says.                                                *)

\* It implies the order of both streams ...
LEMMA Prefixes == TcpIInv => InOrder
<1> SUFFICES ASSUME TcpIInv PROVE InOrder
  OBVIOUS
<1>1. PICK iss \in SeqNo : Quiet(iss) \/ Synced(iss)
  BY DEF TcpIInv, Conn
<1>2. <<>> = Bytes(0, 0) /\ Len(<<>>) = 0
  BY BytesEmpty
<1>3. CASE Quiet(iss)
  BY <1>2, <1>3 DEF Quiet, InOrder
<1>4. CASE Synced(iss)
  <2>1. sk.rxq = Bytes(taken, Len(sk.rxq))
    BY <1>4 DEF Synced, Receiving, RecvSock
  <2>2. peer.got = Bytes(0, Len(peer.got))
    BY <1>2, <1>4 DEF Synced, Opening, Open, PeerGot
  <2> QED
    BY <2>1, <2>2 DEF InOrder
<1> QED
  BY <1>1, <1>3, <1>4

\* ... the acknowledgement number, since positions are unique ...
LEMMA Counted == TcpIInv => AckHonest
<1> SUFFICES ASSUME TcpIInv, sk.state \in {"establishing", "established", "closing"}
             PROVE  sk.recvd = PeerSeq(Got) \/ (Got = RxLen /\ sk.recvd = PeerSeq(Got + 1))
  BY DEF AckHonest, Got
<1>1. PICK iss \in SeqNo : Synced(iss)
  BY DEF TcpIInv, Conn, Quiet, Passive, Active
<1>2. PICK g \in Nat : g = Got /\ g <= RxLen /\ sk.recvd \in SeqNo
  BY <1>1, NumbersNow DEF TcpIInv, Numbers, Synced, Receiving, RecvSock
<1>3. g \in 0 .. RxLen + 1 /\ g + 1 \in 0 .. RxLen + 1 /\ (g + 1) + 1 = g + 2
  BY <1>2, Space
<1>4. /\ PeerSeq(g) \in SeqNo /\ Minus(PeerSeq(g), PeerIss) = g + 1
      /\ PeerSeq(g + 1) \in SeqNo /\ Minus(PeerSeq(g + 1), PeerIss) = g + 2
  BY <1>3, PeerSeqPos DEF RPos
<1>5. \A x \in SeqNo, y \in SeqNo : Minus(x, PeerIss) = Minus(y, PeerIss) => x = y
  BY Positions, Space
<1>6. Minus(sk.recvd, PeerIss) = g + 1 \/ (Minus(sk.recvd, PeerIss) = g + 2 /\ g = RxLen)
  BY <1>1, <1>2 DEF Synced, Receiving, RecvSock, RPos
<1> QED
  BY <1>2, <1>4, <1>5, <1>6

\* ... that txq begins at most where the peer's stream ends ...
LEMMA Kept == TcpIInv => TxKept
<1> SUFFICES ASSUME TcpIInv PROVE TxKept
  OBVIOUS
<1>1. PICK iss \in SeqNo : Quiet(iss) \/ Synced(iss)
  BY DEF TcpIInv, Conn
<1>2. PICK w \in Nat, L \in Nat, g \in Nat : w = written /\ L = Len(sk.txq) /\ g = Len(peer.got)
  <2>1. written \in Nat /\ Len(sk.txq) \in Nat /\ Len(peer.got) \in Nat
    BY NumbersNow, Space DEF TcpIInv, Numbers
  <2> QED
    BY <2>1
<1>3. CASE written = 0 /\ sk.txq = <<>> /\ peer.got = <<>>
  <2>1. w = 0 /\ L = 0 /\ g = 0
    BY <1>2, <1>3, EmptySeq
  <2> QED
    BY <1>2, <2>1 DEF TxKept
<1>4. CASE Open(iss)
  <2>1. PICK p \in Nat, r \in Nat : p = Minus(sk.start, iss) /\ r = Minus(peer.rcv, iss)
    <3>1. Minus(sk.start, iss) \in Nat /\ Minus(peer.rcv, iss) \in Nat
      BY NumbersNow, PosType DEF TcpIInv, Numbers
    <3> QED
      BY <3>1
  <2>2. /\ p = (w - L) + 1 \/ p = w + 2
        /\ r = g + 1 \/ (r = w + 2 /\ g = w)
        /\ p <= r /\ g <= w
    BY <1>2, <1>4, <2>1 DEF Open, OpenSock, PeerGot, Dropped
  <2>3. w - L <= g
    BY <2>2
  <2> QED
    BY <1>2, <2>3 DEF TxKept
<1> QED
  BY <1>1, <1>3, <1>4 DEF Quiet, Synced, Opening

\* ... and the type of the socket.
LEMMA Sound == TcpIInv => SocketOK
<1> SUFFICES ASSUME TcpIInv PROVE SocketOK
  OBVIOUS
<1>1. Types /\ Linked
  BY DEF TcpIInv
<1>2. /\ sk \in SockRec /\ Len(sk.rxq) <= RxCap /\ Len(sk.txq) <= TxCap
  BY <1>1 DEF Types, SockOf
<1>3. out.ph \in {"idle", "alloc"}
  BY <1>1 DEF Types, OutTyped, Idle
<1>4. TcpTypeOK
  BY <1>1, <1>2, <1>3 DEF TcpTypeOK, Types, SockRec, SockStates, AppTyped, NetTyped
<1> QED
  BY <1>1, <1>4 DEF SocketOK, Linked

\* TCPIPTcpSock_ProcessIncoming and TCPIPTcpSock_ProcessOutgoing (tcp_sock.c)
\* keep both streams in order: whatever is lost, duplicated or reordered, what
\* waits in rxq continues what the application has read, and what the peer got
\* is a prefix of what the application wrote.
THEOREM StreamsInOrder == TcpSpec => []InOrder
BY Invariant, Prefixes, PTL

\* The acknowledgement number TCPIPTcpSock_ProcessOutgoing sends, rx_seq_recvd,
\* counts exactly the bytes stored, and the FIN only behind all of them, also
\* when a frame only fits in part.
THEOREM AcksHonest == TcpSpec => []AckHonest
BY Invariant, Counted, PTL

\* TCPIPTcpSock_ProcessIncoming drops a byte from txq only after the peer has it:
\* the sequence numbers of SYN and FIN are never taken for a byte of data.
THEOREM NothingLost == TcpSpec => []TxKept
BY Invariant, Kept, PTL

\* The queues of the socket never exceed their capacity, its fields keep their
\* types, and an established connection has both directions open.
THEOREM SocketSound == TcpSpec => []SocketOK
BY Invariant, Sound, PTL
=============================================================================
