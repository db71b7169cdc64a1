--------------------------- MODULE DatagramProofs ---------------------------
(***************************************************************************)
(* A UDP socket hands its reader the datagrams it accepted, one by one, for*)
(* any number of sockets, queues and datagrams of any size.  The queue of a*)
(* socket is the join of the datagrams it owes (SockFramed); storing one is*)
(* joining one more at the end (CodesAppend), reading takes the first away *)
(* (CodesTail, NextDatagram).  Both are facts about FlattenSeq; module     *)
(* Induction has them (FlattenAppend, FlattenTail).                        *)
(*                                                                         *)
(* A client keeps its record in the book of the DHCP server, for any       *)
(* number of clients and records, any address range and any lease.         *)
(*                                                                         *)
(* The record is safe as long as it is not old.  It is never older than    *)
(* the lease its client counts, because the server starts to count when it *)
(* answers and the client when it asked.  That is true only of answers to  *)
(* what the client asked last: the invariant follows the identifier of the *)
(* transaction through the queue of the socket, the server and the link,   *)
(* across a reset that empties the book while an answer waits for a        *)
(* buffer.                                                                 *)
(***************************************************************************)
EXTENDS UdpSock, Dhcp, Induction

-----------------------------------------------------------------------------
(* Datagrams as units.                                                     *)

Units == (Nat \cup Sources) \cup (Sources \X Nat)
Grams == [src : Sources, n : Sizes]
Codes(p) == [i \in DOMAIN p |-> Coded(p[i])]

LEMMA DataType ==
  ASSUME NEW d \in Grams
  PROVE  Data(d) \in Seq(Units) /\ Len(Data(d)) = d.n /\ d.n \in Nat /\ d.src \in Sources
<1>1. d.n \in Nat /\ d.src \in Sources
  BY UdpAssumption DEF Grams
<1>2. \A i \in 1 .. d.n : <<d.src, i>> \in Units
  BY <1>1 DEF Units
<1>3. Data(d) \in [1 .. d.n -> Units]
  BY <1>2 DEF Data
<1> QED
  BY <1>1, <1>3

LEMMA CodedType ==
  ASSUME NEW d \in Grams
  PROVE  /\ Coded(d) \in Seq(Units) /\ Len(Coded(d)) = 3 + d.n
         /\ Coded(d)[1] = d.n /\ Coded(d)[2] = d.src
         /\ Coded(d) = <<d.n, d.src, d.src>> \o Data(d)
<1> DEFINE m == <<d.n, d.src, d.src>>
<1>1. Data(d) \in Seq(Units) /\ Len(Data(d)) = d.n /\ d.n \in Nat /\ d.src \in Sources
  BY DataType
<1>2. m \in Seq(Units) /\ Len(m) = 3 /\ m[1] = d.n /\ m[2] = d.src
  <2>1. d.n \in Units /\ d.src \in Units
    BY <1>1 DEF Units
  <2> QED
    BY <2>1
<1>3. Coded(d) = m \o Data(d)
  BY DEF Coded
<1>4. /\ m \o Data(d) \in Seq(Units) /\ Len(m \o Data(d)) = 3 + d.n
      /\ (m \o Data(d))[1] = d.n /\ (m \o Data(d))[2] = d.src
  <2> DEFINE e == Data(d)
             k == d.n
             a == d.src
  <2>1. e \in Seq(Units) /\ Len(e) = k /\ k \in Nat
    BY <1>1
  <2>2. m \in Seq(Units) /\ Len(m) = 3 /\ m[1] = k /\ m[2] = a
    BY <1>2
  <2> HIDE DEF m, e, k, a
  <2>3. m \o e \in Seq(Units) /\ Len(m \o e) = 3 + k /\ (m \o e)[1] = k /\ (m \o e)[2] = a
    <3>1. m \o e \in Seq(Units) /\ Len(m \o e) = Len(m) + Len(e)
      BY <2>1, <2>2, ConcatProperties
    <3>2. \A i \in 1 .. Len(m) + Len(e) : (m \o e)[i] = IF i <= Len(m) THEN m[i] ELSE e[i - Len(m)]
      BY <2>1, <2>2, ConcatProperties
    <3>3. /\ 1 \in 1 .. Len(m) + Len(e) /\ 2 \in 1 .. Len(m) + Len(e)
          /\ 1 <= Len(m) /\ 2 <= Len(m)
      BY <2>1, <2>2
    <3>4. (m \o e)[1] = m[1] /\ (m \o e)[2] = m[2]
      BY <3>2, <3>3, Zenon
    <3> QED
      BY <2>1, <2>2, <3>1, <3>4
  <2> QED
    BY <2>3 DEF e, k, a
<1> QED
  BY <1>3, <1>4 DEF m

LEMMA CodesType ==
  ASSUME NEW p \in Seq(Grams)
  PROVE  /\ Codes(p) \in Seq(Seq(Units)) /\ Len(Codes(p)) = Len(p)
         /\ \A i \in 1 .. Len(p) : Codes(p)[i] = Coded(p[i])
<1>1. Len(p) \in Nat /\ DOMAIN p = 1 .. Len(p) /\ \A i \in 1 .. Len(p) : p[i] \in Grams
  OBVIOUS
<1>2. \A i \in 1 .. Len(p) : Coded(p[i]) \in Seq(Units)
  BY <1>1, CodedType
<1>3. Codes(p) \in [1 .. Len(p) -> Seq(Units)] /\ \A i \in 1 .. Len(p) : Codes(p)[i] = Coded(p[i])
  BY <1>1, <1>2 DEF Codes
<1> HIDE DEF Codes
<1>4. Codes(p) \in Seq(Seq(Units)) /\ Len(Codes(p)) = Len(p)
  BY <1>1, <1>3, FunctionSeq
<1> QED
  BY <1>3, <1>4

LEMMA CodesEmpty == FlattenSeq(Codes(<<>>)) = <<>>
<1>1. <<>> \in Seq(Grams) /\ Len(<<>>) = 0
  OBVIOUS
<1>2. Codes(<<>>) \in Seq(Seq(Units)) /\ Len(Codes(<<>>)) = 0
  BY <1>1, CodesType
<1>3. Codes(<<>>) = <<>>
  BY <1>2, EmptySeq
<1> QED
  BY <1>2, <1>3, FlattenType

LEMMA CodesAppend ==
  ASSUME NEW p \in Seq(Grams), NEW d \in Grams
  PROVE  FlattenSeq(Codes(Append(p, d))) = FlattenSeq(Codes(p)) \o Coded(d)
<1> DEFINE r == Append(p, d)
           c == Append(Codes(p), Coded(d))
<1>1. /\ r \in Seq(Grams) /\ Len(r) = Len(p) + 1 /\ r[Len(p) + 1] = d
      /\ \A i \in 1 .. Len(p) : r[i] = p[i]
  OBVIOUS
<1>2. Codes(p) \in Seq(Seq(Units)) /\ Len(Codes(p)) = Len(p) /\ Coded(d) \in Seq(Units)
  BY CodesType, CodedType
<1>3. /\ c \in Seq(Seq(Units)) /\ Len(c) = Len(p) + 1 /\ c[Len(p) + 1] = Coded(d)
      /\ \A i \in 1 .. Len(p) : c[i] = Coded(p[i])
  <2>1. \A i \in 1 .. Len(p) : Codes(p)[i] = Coded(p[i])
    BY CodesType
  <2> QED
    BY <1>2, <2>1, AppendProperties
<1> HIDE DEF r, c
<1>4. Codes(r) \in Seq(Seq(Units)) /\ Len(Codes(r)) = Len(r) /\ \A i \in 1 .. Len(r) : Codes(r)[i] = Coded(r[i])
  BY <1>1, CodesType
<1>5. ASSUME NEW i \in 1 .. Len(p) + 1 PROVE Codes(r)[i] = c[i]
  <2>1. i \in 1 .. Len(p) \/ i = Len(p) + 1
    OBVIOUS
  <2> QED
    BY <1>1, <1>3, <1>4, <2>1
<1>6. Codes(r) = c
  <2>1. Len(Codes(r)) = Len(c) /\ \A i \in 1 .. Len(Codes(r)) : Codes(r)[i] = c[i]
    BY <1>1, <1>3, <1>4, <1>5
  <2> QED
    BY <1>3, <1>4, <2>1, SeqEqual
<1>7. FlattenSeq(c) = FlattenSeq(Codes(p)) \o Coded(d)
  BY <1>2, FlattenAppend DEF c
<1> QED
  BY <1>6, <1>7 DEF r

LEMMA CodesTail ==
  ASSUME NEW p \in Seq(Grams), p # <<>>
  PROVE  FlattenSeq(Codes(p)) = Coded(Head(p)) \o FlattenSeq(Codes(Tail(p)))
<1> DEFINE r == Tail(p)
           c == Codes(p)
           tc == Tail(Codes(p))
<1>1. /\ r \in Seq(Grams) /\ Len(r) = Len(p) - 1 /\ Len(p) \in Nat \ {0} /\ Head(p) = p[1]
      /\ \A i \in 1 .. Len(r) : r[i] = p[i + 1]
  BY EmptySeq, HeadTailProperties
<1>2. c \in Seq(Seq(Units)) /\ Len(c) = Len(p) /\ \A i \in 1 .. Len(p) : c[i] = Coded(p[i])
  BY CodesType
<1>3. Codes(r) \in Seq(Seq(Units)) /\ Len(Codes(r)) = Len(r) /\ \A i \in 1 .. Len(r) : Codes(r)[i] = Coded(r[i])
  BY <1>1, CodesType
<1> HIDE DEF r, c
<1>4. /\ tc \in Seq(Seq(Units)) /\ Len(tc) = Len(p) - 1 /\ c # <<>>
      /\ \A i \in 1 .. Len(tc) : tc[i] = c[i + 1]
  <2>1. c # <<>>
    BY <1>1, <1>2
  <2> QED
    BY <1>2, <2>1, HeadTailProperties DEF c
<1> HIDE DEF tc
<1>5. ASSUME NEW i \in 1 .. Len(r) PROVE Codes(r)[i] = tc[i]
  <2>1. i + 1 \in 1 .. Len(p) /\ i \in 1 .. Len(tc)
    BY <1>1, <1>4
  <2> QED
    BY <1>1, <1>2, <1>3, <1>4, <2>1
<1>6. Codes(r) = tc
  <2>1. Len(Codes(r)) = Len(tc) /\ \A i \in 1 .. Len(Codes(r)) : Codes(r)[i] = tc[i]
    BY <1>1, <1>3, <1>4, <1>5
  <2> QED
    BY <1>3, <1>4, <2>1, SeqEqual
<1>7. FlattenSeq(c) = c[1] \o FlattenSeq(tc)
  BY <1>2, <1>4, FlattenTail DEF tc, c
<1>8. c[1] = Coded(Head(p))
  BY <1>1, <1>2
<1> QED
  BY <1>6, <1>7, <1>8 DEF r, c
-----------------------------------------------------------------------------
(* The invariant.                                                          *)

SockRecs == [loc_port : Ports \cup {0}, rxq : Seq(Units), offs : Nat, size : Nat, ip : Sources \cup {0}]

UdpTypeOK == usocks \in [Socks -> SockRecs] /\ pending \in [Socks -> Seq(Grams)]

\* Between two calls of RecvFrom a socket stands at the start of a datagram, and
\* its queue is what it owes.
SockFramed(u, p) == /\ u.offs = u.size /\ u.rxq = FlattenSeq(Codes(p))
                    /\ u.loc_port = 0 => p = <<>>

UdpIInv == /\ UdpTypeOK /\ read.got = read.want
           /\ \A s \in Socks : SockFramed(usocks[s], pending[s])

\* A step that changes one socket.
LEMMA SockStep ==
  ASSUME UdpIInv, NEW s \in Socks, NEW u \in SockRecs, NEW p \in Seq(Grams), SockFramed(u, p),
         usocks' = [usocks EXCEPT ![s] = u], pending' = [pending EXCEPT ![s] = p],
         read'.got = read'.want
  PROVE  UdpIInv'
<1>1. UdpTypeOK'
  BY DEF UdpIInv, UdpTypeOK
<1>2. ASSUME NEW t \in Socks PROVE SockFramed(usocks[t], pending[t])'
  <2>1. usocks'[t] = IF t = s THEN u ELSE usocks[t]
    BY DEF UdpIInv, UdpTypeOK
  <2>2. pending'[t] = IF t = s THEN p ELSE pending[t]
    BY DEF UdpIInv, UdpTypeOK
  <2>3. SockFramed(usocks[t], pending[t])
    BY DEF UdpIInv
  <2>4. SockFramed(usocks'[t], pending'[t])
    BY <2>1, <2>2, <2>3
  <2> QED
    BY <2>4 DEF SockFramed, Codes, Coded, Data
<1> QED
  BY <1>1, <1>2 DEF UdpIInv

LEMMA StoredAll ==
  ASSUME NEW q \in Seq(Units), NEW u \in Seq(Units), Len(q) + Len(u) <= RxSize
  PROVE  Stored(q, u) = q \o u
<1>1. q \o u \in Seq(Units) /\ Len(q \o u) = Len(q) + Len(u) /\ Len(q \o u) \in Nat
  BY ConcatProperties
<1> DEFINE r == q \o u
<1>2. r \in Seq(Units) /\ Len(r) <= RxSize /\ Len(r) \in Nat
  BY <1>1
<1>3. Stored(q, u) = SubSeq(r, 1, IF Len(r) < RxSize THEN Len(r) ELSE RxSize)
  BY DEF Stored
<1> HIDE DEF r
<1>4. (IF Len(r) < RxSize THEN Len(r) ELSE RxSize) = Len(r)
  BY <1>2, UdpAssumption
<1>5. SubSeq(r, 1, Len(r)) = r
  BY <1>2, SubSeqFull
<1> QED
  BY <1>3, <1>4, <1>5 DEF r

\* TCPIPUdpSock_ProcessIncoming
LEMMA InputStep ==
  ASSUME UdpIInv, NEW s \in Socks, usocks[s].loc_port # 0, NEW d \in Grams,
         ProcessIncoming(s, d), read' = read
  PROVE  UdpIInv'
<1> DEFINE q == usocks[s].rxq
           p == pending[s]
<1>1. usocks[s] \in SockRecs /\ q \in Seq(Units) /\ p \in Seq(Grams) /\ SockFramed(usocks[s], p)
  BY DEF UdpIInv, UdpTypeOK, SockRecs
<1>2. CASE UNCHANGED <<usocks, pending>>
  BY <1>2 DEF UdpIInv, UdpTypeOK, SockFramed, Codes, Coded, Data
<1>3. CASE /\ ~(RxSize - Len(q) < NeedsUnits(d))
           /\ usocks' = [usocks EXCEPT ![s].rxq = Stored(@, <<d.n, d.src, d.src>> \o Data(d))]
           /\ pending' = [pending EXCEPT ![s] = Append(@, d)]
  <2>1. Coded(d) \in Seq(Units) /\ Len(Coded(d)) = 3 + d.n /\ d.n \in Nat
    BY CodedType, DataType
  <2>2. Len(q) + Len(Coded(d)) <= RxSize
    <3>1. Len(q) \in Nat
      BY <1>1
    <3> HIDE DEF q
    <3> QED
      BY <1>3, <2>1, <3>1, UdpAssumption DEF NeedsUnits
  <2>3. Stored(q, Coded(d)) = q \o Coded(d) /\ q \o Coded(d) \in Seq(Units)
    BY <1>1, <2>1, <2>2, StoredAll, ConcatProperties
  <2> DEFINE v == [usocks[s] EXCEPT !.rxq = q \o Coded(d)]
             r == Append(p, d)
  <2>4. usocks' = [usocks EXCEPT ![s] = v] /\ pending' = [pending EXCEPT ![s] = r]
    <3>1. usocks' = [usocks EXCEPT ![s].rxq = Stored(q, Coded(d))]
      BY <1>3, Zenon DEF Coded
    <3> QED
      BY <1>3, <2>3, <3>1
  <2>5. /\ v \in SockRecs /\ v.offs = usocks[s].offs /\ v.size = usocks[s].size
        /\ v.rxq = q \o Coded(d) /\ v.loc_port = usocks[s].loc_port
    BY <1>1, <2>3 DEF SockRecs
  <2>6. r \in Seq(Grams) /\ FlattenSeq(Codes(r)) = FlattenSeq(Codes(p)) \o Coded(d)
    BY <1>1, CodesAppend
  <2> HIDE DEF v, r
  <2>7. SockFramed(v, r)
    BY <1>1, <2>5, <2>6, Zenon DEF SockFramed
  <2>8. read'.got = read'.want
    BY DEF UdpIInv
  <2> QED
    BY <2>4, <2>5, <2>6, <2>7, <2>8, SockStep
<1> QED
  BY <1>2, <1>3 DEF ProcessIncoming

\* What RecvFrom finds in the queue of a socket: the meta-data and the data of
\* the datagram it owes next, and the other datagrams.
LEMMA NextDatagram ==
  ASSUME NEW p \in Seq(Grams), NEW q, q = FlattenSeq(Codes(p)), Len(q) >= 3
  PROVE  /\ Head(p) \in Grams /\ Tail(p) \in Seq(Grams)
         /\ FlattenSeq(Codes(Tail(p))) \in Seq(Units)
         /\ q[1] = Head(p).n /\ q[2] = Head(p).src
         /\ SubSeq(q, 4, Len(q)) = Data(Head(p)) \o FlattenSeq(Codes(Tail(p)))
<1>1. p # <<>>
  <2> SUFFICES ASSUME p = <<>> PROVE FALSE
    OBVIOUS
  <2>1. q = <<>>
    BY CodesEmpty
  <2> QED
    BY <2>1
<1> DEFINE d == Head(p)
           rest == FlattenSeq(Codes(Tail(p)))
           m == <<d.n, d.src, d.src>>
           e == Data(d)
<1>2. d \in Grams /\ Tail(p) \in Seq(Grams)
  BY <1>1, HeadTailProperties
<1>3. rest \in Seq(Units)
  BY <1>2, CodesType, FlattenType
<1>4. q = Coded(d) \o rest
  BY <1>1, CodesTail
<1>5. Coded(d) \in Seq(Units) /\ Len(Coded(d)) = 3 + d.n /\ Coded(d)[1] = d.n /\ Coded(d)[2] = d.src
      /\ Coded(d) = m \o e
  BY <1>2, CodedType
<1>6. e \in Seq(Units) /\ d.n \in Nat /\ d.src \in Sources
  BY <1>2, DataType
<1>7. m \in Seq(Units) /\ Len(m) = 3
  <2>1. d.n \in Units /\ d.src \in Units
    BY <1>6 DEF Units
  <2> QED
    BY <2>1
<1> DEFINE c == Coded(d)
<1>8. q[1] = d.n /\ q[2] = d.src
  <2>1. c \in Seq(Units) /\ rest \in Seq(Units) /\ Len(c) \in Nat /\ Len(c) >= 3 /\ Len(rest) \in Nat
    BY <1>3, <1>5, <1>6
  <2>2. c[1] = d.n /\ c[2] = d.src /\ q = c \o rest
    BY <1>4, <1>5
  <2> HIDE DEF c, d, rest
  <2>3. \A i \in 1 .. Len(c) + Len(rest) : (c \o rest)[i] = IF i <= Len(c) THEN c[i] ELSE rest[i - Len(c)]
    BY <2>1, ConcatProperties
  <2>4. 1 \in 1 .. Len(c) + Len(rest) /\ 2 \in 1 .. Len(c) + Len(rest) /\ 1 <= Len(c) /\ 2 <= Len(c)
    BY <2>1
  <2>5. q[1] = c[1] /\ q[2] = c[2]
    BY <2>2, <2>3, <2>4, Zenon
  <2> QED
    BY <2>2, <2>5, Zenon
<1>9. SubSeq(q, 4, Len(q)) = e \o rest
  <2>1. c = Cat(m, e) /\ q = Cat(c, rest)
    BY <1>4, <1>5, Zenon DEF Cat
  <2>2. m \in Seq(Units) /\ e \in Seq(Units) /\ rest \in Seq(Units)
    BY <1>3, <1>6, <1>7
  <2>3. Len(m) + 1 = 4
    BY <1>7
  <2> DEFINE er == Cat(e, rest)
  <2> HIDE DEF c, d, rest, m, e
  <2>4. er \in Seq(Units)
    BY <2>2, CatType
  <2>5. q = Cat(m, er)
    <3>1. Cat(Cat(m, e), rest) = Cat(m, er)
      BY <2>2, CatAssoc
    <3> HIDE DEF er
    <3> QED
      BY <2>1, <3>1, Zenon
  <2> HIDE DEF er
  <2>6. SubSeq(q, Len(m) + 1, Len(q)) = er
    BY <2>2, <2>4, <2>5, CatBack, Zenon
  <2>7. SubSeq(q, 4, Len(q)) = er
    BY <2>3, <2>6, Zenon
  <2> QED
    BY <2>7, Zenon DEF er, Cat
<1> HIDE DEF d, rest, e
<1>10. SubSeq(q, 4, Len(q)) = Data(d) \o rest
  BY <1>9 DEF e
<1> QED
  BY <1>2, <1>3, <1>8, <1>10 DEF d, rest

\* TCPIPUdpSock_RecvFrom
LEMMA RecvStep ==
  ASSUME UdpIInv, RoomToRead, RecvFrom
  PROVE  UdpIInv'
<1>1. PICK s \in Socks :
    LET u == usocks[s]
        new == u.offs = u.size
        size == IF new THEN u.rxq[1] ELSE u.size
        ip == IF new THEN u.rxq[2] ELSE u.ip
        q == IF new THEN SubSeq(u.rxq, 4, Len(u.rxq)) ELSE u.rxq
        offs == IF new THEN 0 ELSE u.offs
        most == IF ReadSize < size THEN ReadSize ELSE size
        n == IF Len(q) < most THEN Len(q) ELSE most
        d == Head(pending[s])
        left == d.n - offs
    IN  /\ u.loc_port # 0 /\ (new => Len(u.rxq) >= 3)
        /\ usocks' = [usocks EXCEPT ![s].rxq = SubSeq(q, n + 1, Len(q)), ![s].size = size,
                                    ![s].ip = ip, ![s].offs = offs + n]
        /\ read' = [got |-> <<ip>> \o SubSeq(q, 1, n),
                    want |-> <<d.src>> \o SubSeq(Data(d), offs + 1,
                                                 offs + (IF left < ReadSize THEN left ELSE ReadSize))]
        /\ pending' = IF offs + n >= d.n THEN [pending EXCEPT ![s] = Tail(@)] ELSE pending
  BY Zenon DEF RecvFrom
<1> DEFINE u == usocks[s]
           p == pending[s]
<1>2. u \in SockRecs /\ p \in Seq(Grams) /\ SockFramed(u, p)
  BY DEF UdpIInv, UdpTypeOK
<1>3. u.offs = u.size /\ u.rxq = FlattenSeq(Codes(p)) /\ u.loc_port # 0 /\ Len(u.rxq) >= 3
  BY <1>1, <1>2, Zenon DEF SockFramed
<1> DEFINE d == Head(p)
           rest == FlattenSeq(Codes(Tail(p)))
<1>4. /\ d \in Grams /\ rest \in Seq(Units) /\ Tail(p) \in Seq(Grams)
      /\ u.rxq[1] = d.n /\ u.rxq[2] = d.src /\ SubSeq(u.rxq, 4, Len(u.rxq)) = Data(d) \o rest
  <2> DEFINE w == u.rxq
  <2>1. w = FlattenSeq(Codes(p)) /\ Len(w) >= 3 /\ p \in Seq(Grams)
    BY <1>2, <1>3
  <2> HIDE DEF w, p
  <2>2. /\ d \in Grams /\ rest \in Seq(Units) /\ Tail(p) \in Seq(Grams)
        /\ w[1] = d.n /\ w[2] = d.src /\ SubSeq(w, 4, Len(w)) = Data(d) \o rest
    BY <2>1, NextDatagram
  <2> QED
    BY <2>2 DEF w
<1> DEFINE q == Data(d) \o rest
           most == IF ReadSize < d.n THEN ReadSize ELSE d.n
           n == IF Len(q) < most THEN Len(q) ELSE most
           left == d.n - 0
<1>5. /\ usocks' = [usocks EXCEPT ![s].rxq = SubSeq(q, n + 1, Len(q)), ![s].size = d.n,
                                  ![s].ip = d.src, ![s].offs = 0 + n]
      /\ read' = [got |-> <<d.src>> \o SubSeq(q, 1, n),
                  want |-> <<d.src>> \o SubSeq(Data(d), 0 + 1, 0 + (IF left < ReadSize THEN left ELSE ReadSize))]
      /\ pending' = IF 0 + n >= d.n THEN [pending EXCEPT ![s] = Tail(p)] ELSE pending
  BY <1>1, <1>3, <1>4, Zenon
<1> HIDE DEF d, rest
<1>6. /\ Data(d) \in Seq(Units) /\ Len(Data(d)) = d.n /\ d.n \in Nat /\ d.src \in Sources
      /\ d.n <= ReadSize
  BY <1>4, DataType DEF RoomToRead, Grams
<1>7. /\ Len(q) = d.n + Len(rest) /\ Len(rest) \in Nat
      /\ SubSeq(q, d.n + 1, Len(q)) = rest /\ SubSeq(q, 1, d.n) = Data(d)
  <2> DEFINE e == Data(d)
             k == d.n
  <2>1. e \in Seq(Units) /\ Len(e) = k /\ k \in Nat /\ q = e \o rest /\ rest \in Seq(Units)
    BY <1>4, <1>6
  <2> HIDE DEF e, k, q
  <2>2. /\ Len(q) = Len(e) + Len(rest) /\ SubSeq(q, Len(e) + 1, Len(q)) = rest
        /\ SubSeq(q, 1, Len(e)) = e
    <3>1. q = Cat(e, rest)
      BY <2>1 DEF Cat
    <3>2. Len(q) = Len(e) + Len(rest)
      BY <2>1, <3>1, CatType, Zenon
    <3>3. SubSeq(q, Len(e) + 1, Len(q)) = rest
      BY <2>1, <3>1, CatBack, Zenon
    <3>4. SubSeq(q, 1, Len(e)) = e
      BY <2>1, <3>1, CatFront, Zenon
    <3> QED
      BY <3>2, <3>3, <3>4, Zenon
  <2>3. Len(q) = k + Len(rest) /\ SubSeq(q, k + 1, Len(q)) = rest /\ SubSeq(q, 1, k) = e
    BY <2>1, <2>2, Zenon
  <2>4. Len(rest) \in Nat
    BY <2>1
  <2> QED
    BY <2>3, <2>4, Zenon DEF e, k
<1>8. most = d.n
  BY <1>6, UdpAssumption
<1>9. n = d.n
  <2> HIDE DEF q, most
  <2> QED
    BY <1>6, <1>7, <1>8
<1>10. left = d.n /\ (IF left < ReadSize THEN left ELSE ReadSize) = d.n
  BY <1>6, UdpAssumption
<1>11. SubSeq(Data(d), 1, d.n) = Data(d)
  BY <1>6, SubSeqFull
<1> DEFINE v == [u EXCEPT !.rxq = rest, !.size = d.n, !.ip = d.src, !.offs = d.n]
<1>12. 0 + n = d.n /\ 0 + 1 = 1 /\ 0 + d.n = d.n /\ d.n >= d.n
  <2> HIDE DEF n
  <2> QED
    BY <1>6, <1>9
<1> HIDE DEF q, n, left, most
<1>13. read'.got = read'.want
  <2>1. read' = [got |-> <<d.src>> \o Data(d), want |-> <<d.src>> \o Data(d)]
    BY <1>5, <1>7, <1>9, <1>10, <1>11, <1>12, Zenon
  <2> QED
    BY <2>1
<1>14. pending' = [pending EXCEPT ![s] = Tail(p)]
  BY <1>5, <1>12, Zenon
<1>15. usocks' = [usocks EXCEPT ![s] = v]
  <2>1. usocks' = [usocks EXCEPT ![s].rxq = rest, ![s].size = d.n, ![s].ip = d.src, ![s].offs = d.n]
    BY <1>5, <1>7, <1>9, <1>12, Zenon
  <2> QED
    BY <2>1 DEF UdpIInv, UdpTypeOK
<1>16. v \in SockRecs /\ v.offs = d.n /\ v.size = d.n /\ v.rxq = rest /\ v.loc_port = u.loc_port
  BY <1>2, <1>4, <1>6 DEF SockRecs
<1> HIDE DEF u, v
<1>17. SockFramed(v, Tail(p))
  BY <1>3, <1>16, Zenon DEF SockFramed, rest
<1> QED
  BY <1>4, <1>13, <1>14, <1>15, <1>16, <1>17, SockStep

LEMMA UdpStep ==
  ASSUME UdpIInv, RoomToRead, [UdpNext]_udpVars
  PROVE  UdpIInv'
<1>1. CASE CreateSocket
  <2>1. PICK s \in Socks, a \in Ports : usocks[s].loc_port = 0 /\ usocks' = [usocks EXCEPT ![s].loc_port = a, ![s].rxq = <<>>]
    BY <1>1, Zenon DEF CreateSocket
  <2> DEFINE v == [usocks[s] EXCEPT !.loc_port = a, !.rxq = <<>>]
  <2>2. usocks[s] \in SockRecs /\ SockFramed(usocks[s], pending[s]) /\ pending[s] \in Seq(Grams)
    BY DEF UdpIInv, UdpTypeOK
  <2>3. /\ v \in SockRecs /\ v.offs = usocks[s].offs /\ v.size = usocks[s].size /\ v.rxq = <<>>
        /\ v.loc_port = a /\ a # 0
    <3>1. <<>> \in Seq(Units) /\ a # 0
      BY UdpAssumption
    <3> DEFINE e == <<>>
    <3> HIDE DEF e
    <3>2. /\ [usocks[s] EXCEPT !.loc_port = a, !.rxq = e] \in SockRecs
      BY <2>2, <3>1 DEF SockRecs, e
    <3> QED
      BY <2>2, <3>1, <3>2 DEF SockRecs, e
  <2>4. usocks' = [usocks EXCEPT ![s] = v] /\ pending' = [pending EXCEPT ![s] = pending[s]]
    BY <1>1, <2>1 DEF UdpIInv, UdpTypeOK, CreateSocket
  <2>5. pending[s] = <<>> /\ usocks[s].offs = usocks[s].size
    BY <2>1, <2>2, Zenon DEF SockFramed
  <2>6. read'.got = read'.want
    BY <1>1 DEF CreateSocket, UdpIInv
  <2> HIDE DEF v
  <2>7. SockFramed(v, pending[s])
    BY <2>3, <2>5, CodesEmpty, Zenon DEF SockFramed
  <2> QED
    BY <2>2, <2>3, <2>4, <2>6, <2>7, SockStep
<1>2. CASE DestroySocket
  <2>1. PICK s \in Socks : /\ usocks' = [usocks EXCEPT ![s].loc_port = 0, ![s].rxq = <<>>]
                           /\ pending' = [pending EXCEPT ![s] = <<>>]
    BY <1>2, Zenon DEF DestroySocket
  <2> DEFINE v == [usocks[s] EXCEPT !.loc_port = 0, !.rxq = <<>>]
  <2>2. usocks[s] \in SockRecs /\ SockFramed(usocks[s], pending[s]) /\ <<>> \in Seq(Grams)
    BY DEF UdpIInv, UdpTypeOK
  <2>3. /\ v \in SockRecs /\ v.offs = usocks[s].offs /\ v.size = usocks[s].size /\ v.rxq = <<>>
        /\ v.loc_port = 0
    <3>1. <<>> \in Seq(Units)
      OBVIOUS
    <3> QED
      BY <2>2, <3>1 DEF SockRecs
  <2>4. usocks' = [usocks EXCEPT ![s] = v]
    BY <2>1 DEF UdpIInv, UdpTypeOK
  <2>5. read'.got = read'.want
    BY <1>2 DEF DestroySocket, UdpIInv
  <2> HIDE DEF v
  <2>6. SockFramed(v, <<>>)
    BY <2>2, <2>3, CodesEmpty, Zenon DEF SockFramed
  <2> QED
    BY <2>1, <2>2, <2>3, <2>4, <2>5, <2>6, SockStep
<1>3. CASE SockInput
  <2>1. PICK a \in Ports, src \in Sources, n \in Sizes :
          LET at == {s \in Socks : usocks[s].loc_port = a}
          IN  IF at = {} THEN UNCHANGED <<usocks, pending>>
              ELSE ProcessIncoming(CHOOSE s \in at : \A r \in at : s <= r, Datagram(src, n))
    BY <1>3, Zenon DEF SockInput
  <2> DEFINE at == {s \in Socks : usocks[s].loc_port = a}
             first == CHOOSE s \in at : \A r \in at : s <= r
  <2>2. read' = read
    BY <1>3 DEF SockInput
  <2>3. CASE at = {}
    <3>1. UNCHANGED <<usocks, pending>>
      BY <2>1, <2>3, Zenon
    <3> QED
      BY <2>2, <3>1 DEF UdpIInv, UdpTypeOK, SockFramed, Codes, Coded, Data
  <2>4. CASE at # {}
    <3>1. ProcessIncoming(first, Datagram(src, n))
      BY <2>1, <2>4, Zenon
    <3>2. at \subseteq Nat
      BY UdpAssumption DEF Socks
    <3>3. \E x \in at : \A y \in at : x <= y
      <4> HIDE DEF at
      <4> QED
        BY <2>4, <3>2, Least
    <3>4. first \in at
      <4> HIDE DEF at
      <4> QED
        BY <3>3
    <3>5. first \in Socks /\ usocks[first].loc_port # 0
      <4> HIDE DEF first
      <4> QED
        BY <3>4, UdpAssumption
    <3>6. Datagram(src, n) \in Grams
      BY DEF Datagram, Grams
    <3> HIDE DEF first
    <3> QED
      BY <2>2, <3>1, <3>5, <3>6, InputStep
  <2> QED
    BY <2>3, <2>4
<1>4. CASE RecvFrom
  BY <1>4, RecvStep
<1>5. CASE UNCHANGED udpVars
  BY <1>5 DEF udpVars, UdpIInv, UdpTypeOK, SockFramed, Codes, Coded, Data
<1> QED
  BY <1>1, <1>2, <1>3, <1>4, <1>5 DEF UdpNext

\* Datagrams are read in the order in which they were accepted, each with its
\* own sender and data and none mixed with the next, for any number of sockets,
\* queues of any size and any datagrams, across sockets that are closed and
\* created again, as long as every reader has room for a datagram
\* (TCPIPUdpSock_ProcessIncoming, TCPIPUdpSock_RecvFrom).
THEOREM DatagramsFramed ==
  ASSUME RoomToRead
  PROVE  UdpSpec => []UdpFramed
<1>1. UdpInit => UdpIInv
  <2> SUFFICES ASSUME UdpInit PROVE UdpIInv
    OBVIOUS
  <2>1. UdpTypeOK
    BY DEF UdpInit, UdpTypeOK, SockRecs
  <2>2. read.got = read.want
    BY DEF UdpInit
  <2>3. ASSUME NEW s \in Socks PROVE SockFramed(usocks[s], pending[s])
    <3>1. /\ usocks[s].offs = 0 /\ usocks[s].size = 0 /\ usocks[s].rxq = <<>>
          /\ pending[s] = <<>>
      BY DEF UdpInit
    <3> QED
      BY <3>1, CodesEmpty, Zenon DEF SockFramed
  <2> QED
    BY <2>1, <2>2, <2>3 DEF UdpIInv
<1>2. UdpIInv /\ [UdpNext]_udpVars => UdpIInv'
  BY UdpStep
<1>3. UdpIInv => UdpFramed
  <2> SUFFICES ASSUME UdpIInv PROVE UdpFramed
    OBVIOUS
  <2>1. read.got = read.want /\ \A s \in Socks : usocks[s].rxq = Owed(s)
    BY Zenon DEF UdpIInv, SockFramed, Owed, Codes
  <2> QED
    BY <2>1, Zenon DEF UdpFramed
<1> QED
  BY <1>1, <1>2, <1>3, PTL DEF UdpSpec
-----------------------------------------------------------------------------
(* The DHCP server.                                                        *)

Records == [state : {"free", "offer", "assigned"}, age : Nat, mac : Clients \cup {NoMac}, ip : Nat]
Datagrams == [from : Clients, type : {"discover", "request", "release"}, ip : Nat, cur : BOOLEAN]
Answers == [type : {"none", "offer", "ack", "nak"}, to : Clients \cup {NoMac}, ip : Nat,
            rec : 0 .. BookSize, cur : BOOLEAN]

DhcpTypeOK ==
  /\ book \in [Recs -> Records]
  /\ inq \in Seq(Datagrams)
  /\ srv \in Answers /\ (srv = Rest \/ srv.to \in Clients)
  /\ air \in [Clients -> [type : {"none", "offer", "ack", "nak"}, ip : Nat]]
  /\ cli \in [Clients -> [st : {"init", "discover", "request", "bound", "renew"}, ip : Nat,
                          age : 0 .. Lease, rage : 0 .. Lease]]

\* Offers carry an address, and so do the requests that take them.
Offers == /\ srv.type = "offer" => srv.ip # 0
          /\ srv.type = "ack" => srv.rec # 0
          /\ \A c \in Clients : air[c].type = "offer" => air[c].ip # 0
          /\ \A c \in Clients : cli[c].st \in {"request", "bound", "renew"} => cli[c].ip # 0

\* A client that waits for an offer has no request under way.
NoRequest ==
  \A c \in Clients : cli[c].st = "discover" =>
    /\ ~(srv.to = c /\ srv.cur /\ srv.type = "ack")
    /\ \A i \in 1 .. Len(inq) : inq[i].from = c /\ inq[i].cur => inq[i].type # "request"

\* The record of an acknowledgement that the client still waits for.
Acking ==
  \A c \in Clients : srv.type = "ack" /\ srv.cur /\ srv.to = c /\ cli[c].st \in {"request", "renew"} =>
    book[srv.rec].mac = c /\ (srv.ip = 0 \/ book[srv.rec].ip = srv.ip)

\* Record r of book b is the client's, with this address, and no older than n.
Young(b, r, c, ip, n) == b[r].mac = c /\ b[r].ip = ip /\ b[r].state # "free" /\ b[r].age <= n

Waiting(c) == cli[c].st \in {"request", "renew"} /\ air[c].type = "ack" /\ air[c].ip = cli[c].ip

\* The record is no older than the lease, and no older than the request whose
\* acknowledgement is on its way.
Fresh ==
  /\ \A c \in Clients : Holds(c) => \E r \in Recs : Young(book, r, c, cli[c].ip, cli[c].age)
  /\ \A c \in Clients : Waiting(c) => \E r \in Recs : Young(book, r, c, cli[c].ip, cli[c].rage)

DhcpIInv == DhcpTypeOK /\ Offers /\ NoRequest /\ Acking /\ Fresh
-----------------------------------------------------------------------------
(* The book.                                                               *)

\* A search returns what it looks for.
LEMMA FirstIn ==
  ASSUME NEW S, S \subseteq Nat \ {0}
  PROVE  First(S) # 0 => First(S) \in S
<1>1. S # {} => \E r \in S : \A q \in S : r <= q
  BY Least
<1> QED
  BY <1>1 DEF First

\* The record of a client is found by its link address and its IP address.
LEMMA RecordFound ==
  ASSUME NEW b, NEW mac \in Clients, NEW ip
  PROVE  /\ FindRecord(b, mac, ip) \in 0 .. BookSize
         /\ FindRecord(b, mac, ip) # 0 =>
              /\ FindRecord(b, mac, ip) \in Recs /\ b[FindRecord(b, mac, ip)].mac = mac
              /\ ip = 0 \/ b[FindRecord(b, mac, ip)].ip = ip
<1> DEFINE S == {r \in Recs : (mac = NoMac \/ b[r].mac = mac) /\ (ip = 0 \/ b[r].ip = ip)}
<1>1. S \subseteq Nat \ {0} /\ BookSize \in Nat
  BY DhcpAssumption DEF Recs
<1>2. First(S) # 0 => First(S) \in S
  BY <1>1, FirstIn
<1>3. FindRecord(b, mac, ip) = First(S)
  BY DEF FindRecord
<1>4. FindRecord(b, mac, ip) # 0 =>
              /\ FindRecord(b, mac, ip) \in Recs /\ b[FindRecord(b, mac, ip)].mac = mac
              /\ ip = 0 \/ b[FindRecord(b, mac, ip)].ip = ip
  BY <1>2, <1>3, DhcpAssumption
<1> QED
  BY <1>1, <1>4 DEF Recs

\* DHCPSrv_ReserveAddress leaves records alone that are in use and not old.
LEMMA ReserveKeeps ==
  ASSUME book \in [Recs -> Records], NEW mac \in Clients
  PROVE  /\ Reserve(mac).book \in [Recs -> Records]
         /\ Reserve(mac).rec # 0 => Reserve(mac).rec \in Recs /\ Reserve(mac).book[Reserve(mac).rec].ip # 0
         /\ \A r \in Recs : book[r].state # "free" /\ book[r].age <= Lease /\ book[r].ip # 0
                            => Reserve(mac).book[r] = book[r]
<1>1. PICK own : own = FindRecord(book, mac, 0)
  OBVIOUS
<1>2. own # 0 => own \in Recs
  BY <1>1, RecordFound
<1>3. PICK free : free = FreeRec(book)
  OBVIOUS
<1>4. free # 0 => free \in Recs /\ (book[free].state = "free" \/ book[free].age > Lease)
  <2> DEFINE S == {r \in Recs : book[r].state = "free" \/ Old(book[r])}
  <2>1. S \subseteq Nat \ {0}
    BY DhcpAssumption DEF Recs
  <2>2. First(S) # 0 => First(S) \in S
    BY <2>1, FirstIn
  <2>3. free = First(S)
    BY <1>3 DEF FreeRec
  <2> QED
    BY <2>2, <2>3 DEF Old
<1>5. /\ Freed(book) \in [Recs -> Records]
      /\ \A r \in Recs : ~Old(book[r]) => Freed(book)[r] = book[r]
  BY DEF Freed, Records
<1>6. PICK b \in [Recs -> Records] :
        /\ b = IF own # 0 THEN book ELSE Freed(book)
        /\ \A r \in Recs : ~Old(book[r]) => b[r] = book[r]
  BY <1>5
<1>7. PICK ip \in Nat : ip = Propose(b)
  <2> DEFINE S == {x \in RangeStart .. RangeEnd - 1 : FindRecord(b, NoMac, x) = 0}
  <2>1. S \subseteq Nat
    BY DhcpAssumption
  <2>2. S # {} => First(S) \in S
    <3>1. S # {} => \E r \in S : \A q \in S : r <= q
      BY <2>1, Least
    <3> QED
      BY <3>1 DEF First
  <2>3. Propose(b) = IF S = {} THEN 0 ELSE First(S) + 1
    BY DEF Propose
  <2>4. Propose(b) \in Nat
    BY <2>1, <2>2, <2>3
  <2> QED
    BY <2>4
<1>8. PICK rec : rec = IF own # 0 THEN own ELSE free
  OBVIOUS
<1>9. Reserve(mac) = IF own # 0 /\ book[own].ip # 0 THEN [rec |-> own, book |-> book]
                     ELSE IF rec = 0 \/ ip = 0 THEN [rec |-> 0, book |-> b]
                     ELSE [rec |-> rec, book |-> [b EXCEPT ![rec].ip = ip, ![rec].mac = mac]]
  BY <1>1, <1>3, <1>6, <1>7, <1>8 DEF Reserve
<1>10. CASE own # 0 /\ book[own].ip # 0
  BY <1>2, <1>9, <1>10
<1>11. CASE ~(own # 0 /\ book[own].ip # 0) /\ (rec = 0 \/ ip = 0)
  <2>1. Reserve(mac) = [rec |-> 0, book |-> b]
    BY <1>9, <1>11
  <2>2. \A r \in Recs : book[r].state # "free" /\ book[r].age <= Lease => ~Old(book[r])
    BY DhcpAssumption DEF Old, Records
  <2> QED
    BY <1>6, <2>1, <2>2
<1>12. CASE ~(own # 0 /\ book[own].ip # 0) /\ ~(rec = 0 \/ ip = 0)
  <2>1. rec \in Recs
    BY <1>2, <1>4, <1>8, <1>12
  <2>2. PICK e : e = [b EXCEPT ![rec].ip = ip, ![rec].mac = mac]
    OBVIOUS
  <2>3. /\ e \in [Recs -> Records] /\ e[rec].ip = ip
        /\ \A r \in Recs : r # rec => e[r] = b[r]
    BY <2>1, <2>2 DEF Records
  <2>4. Reserve(mac) = [rec |-> rec, book |-> e]
    BY <1>9, <1>12, <2>2
  <2>5. ASSUME NEW r \in Recs, book[r].state # "free", book[r].age <= Lease, book[r].ip # 0
        PROVE  e[r] = book[r]
    <3>1. ~Old(book[r])
      BY <2>5, DhcpAssumption DEF Old, Records
    <3>2. r # rec
      <4>1. own = 0 => book[rec].state = "free" \/ book[rec].age > Lease
        BY <1>4, <1>8, <1>12
      <4>2. own # 0 => book[rec].ip = 0
        BY <1>8, <1>12
      <4>3. book[r].age \in Nat
        BY DEF Records
      <4> QED
        BY <2>5, <4>1, <4>2, <4>3, DhcpAssumption
    <3> QED
      BY <1>6, <2>3, <3>1, <3>2
  <2> QED
    BY <1>12, <2>1, <2>3, <2>4, <2>5
<1> QED
  BY <1>10, <1>11, <1>12
-----------------------------------------------------------------------------
(* The queue of the socket.                                                *)

\* A datagram is taken from the queue.
LEMMA Taken ==
  ASSUME inq \in Seq(Datagrams), inq # <<>>, inq' = Tail(inq)
  PROVE  /\ Head(inq) \in Datagrams /\ Head(inq) = inq[1] /\ 1 \in 1 .. Len(inq)
         /\ inq' \in Seq(Datagrams)
         /\ \A i \in 1 .. Len(inq') : \E j \in 1 .. Len(inq) : inq'[i] = inq[j]
<1>1. Len(inq) \in Nat \ {0} /\ Len(Tail(inq)) = Len(inq) - 1 /\ Tail(inq) \in Seq(Datagrams)
  OBVIOUS
<1>2. \A i \in 1 .. Len(Tail(inq)) : Tail(inq)[i] = inq[i + 1]
  OBVIOUS
<1>3. \A i \in 1 .. Len(Tail(inq)) : i + 1 \in 1 .. Len(inq)
  BY <1>1
<1>4. Head(inq) \in Datagrams /\ Head(inq) = inq[1] /\ 1 \in 1 .. Len(inq)
  BY <1>1
<1> QED
  BY <1>1, <1>2, <1>3, <1>4

\* A datagram is put behind a queue q, or the queue is full.
LEMMA PutBehind ==
  ASSUME NEW q \in Seq(Datagrams), NEW d \in Datagrams, NEW p,
         p = IF Len(inq) < QueueCap THEN Append(q, d) ELSE q
  PROVE  /\ p \in Seq(Datagrams)
         /\ \A i \in 1 .. Len(p) : p[i] = d \/ \E j \in 1 .. Len(q) : p[i] = q[j]
<1>1. /\ Append(q, d) \in Seq(Datagrams) /\ Len(Append(q, d)) = Len(q) + 1 /\ Len(q) \in Nat
      /\ Append(q, d)[Len(q) + 1] = d
      /\ \A i \in 1 .. Len(q) : Append(q, d)[i] = q[i]
  OBVIOUS
<1>2. CASE p = Append(q, d)
  BY <1>1, <1>2
<1>3. CASE p = q
  BY <1>3
<1> QED
  BY <1>2, <1>3

\* A new transaction of c: what c sent before has another identifier.
LEMMA Begun ==
  ASSUME inq \in Seq(Datagrams), NEW c \in Clients, NEW d \in Datagrams, Begin(c, d)
  PROVE  /\ inq' \in Seq(Datagrams)
         /\ \A i \in 1 .. Len(inq') : \/ inq'[i] = d
                                      \/ inq'[i].from = c /\ ~inq'[i].cur
                                      \/ inq'[i].from # c /\ \E j \in 1 .. Len(inq) : inq'[i] = inq[j]
<1> DEFINE old == [i \in DOMAIN inq |-> IF inq[i].from = c THEN [inq[i] EXCEPT !.cur = FALSE] ELSE inq[i]]
<1>1. DOMAIN inq = 1 .. Len(inq) /\ Len(inq) \in Nat
  OBVIOUS
<1>2. ASSUME NEW i \in 1 .. Len(inq)
      PROVE  /\ old[i] \in Datagrams
             /\ (old[i] = inq[i] /\ old[i].from # c) \/ (old[i].from = c /\ ~old[i].cur)
  <2>1. inq[i] \in Datagrams
    OBVIOUS
  <2>2. old[i] = IF inq[i].from = c THEN [inq[i] EXCEPT !.cur = FALSE] ELSE inq[i]
    BY <1>1
  <2> HIDE DEF old
  <2>3. CASE inq[i].from = c
    BY <2>1, <2>2, <2>3 DEF Datagrams
  <2>4. CASE inq[i].from # c
    BY <2>1, <2>2, <2>4
  <2> QED
    BY <2>3, <2>4
<1>3. old \in [1 .. Len(inq) -> Datagrams]
  BY <1>1, <1>2
<1>4. inq' = IF Len(inq) < QueueCap THEN Append(old, d) ELSE old
  BY DEF Begin
<1> HIDE DEF old
<1>5. old \in Seq(Datagrams) /\ Len(old) = Len(inq)
  <2>1. old \in Seq(Datagrams)
    BY <1>1, <1>3, SeqDef
  <2> QED
    BY <1>1, <1>3, <2>1, LenProperties
<1>6. /\ inq' \in Seq(Datagrams)
      /\ \A i \in 1 .. Len(inq') : inq'[i] = d \/ \E j \in 1 .. Len(old) : inq'[i] = old[j]
  BY <1>4, <1>5, PutBehind
<1> QED
  BY <1>2, <1>5, <1>6
-----------------------------------------------------------------------------
(* The server.                                                             *)

\* A step of the server, or of a client that keeps its state: records that
\* are in use stay, acknowledgements on their way have a young record.
LEMMA FreshKept ==
  ASSUME DhcpTypeOK, Offers, Fresh, cli' = cli,
         \A r \in Recs : book[r].state # "free" /\ book[r].age <= Lease /\ book[r].ip # 0 =>
            /\ book'[r].mac = book[r].mac /\ book'[r].ip = book[r].ip /\ book'[r].state # "free"
            /\ book'[r].age <= book[r].age /\ book'[r].age \in Nat,
         \A c \in Clients : Waiting(c)' => \/ Waiting(c)
                                         \/ \E r \in Recs : Young(book', r, c, cli[c].ip, cli[c].rage)
  PROVE  Fresh'
<1>1. ASSUME NEW c \in Clients, NEW n \in 0 .. Lease, cli[c].ip # 0,
             \E r \in Recs : Young(book, r, c, cli[c].ip, n)
      PROVE  \E r \in Recs : Young(book', r, c, cli[c].ip, n)
  <2>1. PICK r \in Recs : Young(book, r, c, cli[c].ip, n)
    BY <1>1
  <2>2. book[r].age \in Nat /\ book[r].age <= n /\ n <= Lease /\ Lease \in Nat /\ n \in Nat
    BY <2>1, DhcpAssumption DEF Young, DhcpTypeOK, Records
  <2>3. book[r].age <= Lease /\ book[r].state # "free" /\ book[r].ip # 0
    BY <1>1, <2>1, <2>2 DEF Young
  <2>4. book'[r].age <= n
    BY <2>2, <2>3
  <2> QED
    BY <2>1, <2>3, <2>4 DEF Young
<1>2. \A c \in Clients : cli[c].age \in 0 .. Lease /\ cli[c].rage \in 0 .. Lease
  BY DEF DhcpTypeOK
<1>3. ASSUME NEW c \in Clients, Holds(c)'
      PROVE  \E r \in Recs : Young(book', r, c, cli'[c].ip, cli'[c].age)
  <2>1. Holds(c) /\ cli[c].ip # 0
    BY <1>3 DEF Holds, Offers
  <2> QED
    BY <1>1, <1>2, <2>1 DEF Fresh
<1>4. ASSUME NEW c \in Clients, Waiting(c)'
      PROVE  \E r \in Recs : Young(book', r, c, cli'[c].ip, cli'[c].rage)
  <2>1. cli[c].ip # 0
    BY <1>4 DEF Waiting, Offers
  <2> QED
    BY <1>1, <1>2, <1>4, <2>1 DEF Fresh
<1> QED
  BY <1>3, <1>4 DEF Fresh

\* DHCPSrv_Task takes a datagram.
LEMMA SrvInputKeeps ==
  ASSUME DhcpIInv, SrvInput
  PROVE  DhcpIInv'
<1> USE DEF DhcpIInv
<1>0. /\ srv = Rest /\ inq # <<>> /\ inq' = Tail(inq) /\ air' = air /\ cli' = cli
      /\ inq \in Seq(Datagrams) /\ book \in [Recs -> Records]
  BY DEF SrvInput, DhcpTypeOK
<1>1. /\ inq' \in Seq(Datagrams)
      /\ \A i \in 1 .. Len(inq') : \E j \in 1 .. Len(inq) : inq'[i] = inq[j]
  BY <1>0, Taken
<1>2. PICK d \in Datagrams : d = Head(inq) /\ d = inq[1] /\ 1 \in 1 .. Len(inq)
  BY <1>0, Taken
<1>3. d.from \in Clients /\ d.type \in {"discover", "request", "release"} /\ d.ip \in Nat /\ d.cur \in BOOLEAN
  BY DEF Datagrams
<1>4. ASSUME book' \in [Recs -> Records], srv' \in Answers, srv' = Rest \/ srv'.to = d.from,
             srv'.type = "offer" => srv'.ip # 0,
             srv'.type = "ack" => /\ srv'.rec # 0 /\ d.type = "request" /\ srv'.cur = d.cur /\ srv'.to = d.from
                                  /\ book'[srv'.rec].mac = d.from
                                  /\ srv'.ip = 0 \/ book'[srv'.rec].ip = srv'.ip,
             \A r \in Recs : book[r].state # "free" /\ book[r].age <= Lease /\ book[r].ip # 0 =>
               /\ book'[r].mac = book[r].mac /\ book'[r].ip = book[r].ip /\ book'[r].state # "free"
               /\ book'[r].age <= book[r].age /\ book'[r].age \in Nat
      PROVE  DhcpIInv'
  <2>1. DhcpTypeOK'
    BY <1>0, <1>1, <1>3, <1>4 DEF DhcpTypeOK, Records, Answers, Datagrams, Rest
  <2>2. Offers'
    BY <1>0, <1>4 DEF Offers
  <2>3. NoRequest'
    <3> SUFFICES ASSUME NEW c \in Clients, cli[c].st = "discover"
                 PROVE  /\ ~(srv'.to = c /\ srv'.cur /\ srv'.type = "ack")
                        /\ \A i \in 1 .. Len(inq') : inq'[i].from = c /\ inq'[i].cur => inq'[i].type # "request"
      BY <1>0 DEF NoRequest
    <3>1. \A j \in 1 .. Len(inq) : inq[j].from = c /\ inq[j].cur => inq[j].type # "request"
      BY DEF NoRequest
    <3> QED
      BY <1>1, <1>2, <1>4, <3>1
  <2>4. Acking'
    BY <1>4 DEF Acking
  <2>5. Fresh'
    <3>1. \A c \in Clients : Waiting(c)' => Waiting(c)
      BY <1>0 DEF Waiting
    <3> QED
      BY <1>0, <1>4, <3>1, FreshKept
  <2> QED
    BY <2>1, <2>2, <2>3, <2>4, <2>5
<1>5. CASE d.type = "discover" /\ ProcessDiscover(d)
  <2>1. PICK v : v = Reserve(d.from)
    OBVIOUS
  <2>2. /\ v.book \in [Recs -> Records]
        /\ v.rec # 0 => v.rec \in Recs /\ v.book[v.rec].ip # 0
        /\ \A r \in Recs : book[r].state # "free" /\ book[r].age <= Lease /\ book[r].ip # 0
                           => v.book[r] = book[r]
    BY <1>0, <1>3, <2>1, ReserveKeeps
  <2>3. CASE v.rec = 0
    <3>1. book' = v.book /\ srv' = Rest
      BY <1>5, <2>1, <2>3 DEF ProcessDiscover
    <3>2. \A r \in Recs : book[r].age \in Nat
      BY <1>0 DEF Records
    <3>3. Rest \in Answers /\ Rest.type = "none"
      BY DhcpAssumption DEF Rest, Answers
    <3> QED
      BY <1>4, <2>2, <3>1, <3>2, <3>3
  <2>4. CASE v.rec # 0
    <3>1. /\ book' = [v.book EXCEPT ![v.rec].state = "offer", ![v.rec].age = 0]
          /\ srv' = [type |-> "offer", to |-> d.from, ip |-> v.book[v.rec].ip, rec |-> 0, cur |-> d.cur]
      BY <1>5, <2>1, <2>4 DEF ProcessDiscover
    <3>2. v.rec \in Recs /\ v.book[v.rec] \in Records /\ v.book[v.rec].ip # 0 /\ v.book[v.rec].ip \in Nat
      BY <2>2, <2>4 DEF Records
    <3>3. /\ book' \in [Recs -> Records]
          /\ \A r \in Recs : /\ book'[r].mac = v.book[r].mac /\ book'[r].ip = v.book[r].ip
                             /\ r = v.rec => book'[r].state = "offer" /\ book'[r].age = 0
                             /\ r # v.rec => book'[r] = v.book[r]
      BY <2>2, <3>1, <3>2 DEF Records
    <3>4. srv' \in Answers /\ srv'.to = d.from /\ srv'.type = "offer" /\ srv'.ip # 0
      BY <1>3, <3>1, <3>2, DhcpAssumption DEF Answers
    <3>5. ASSUME NEW r \in Recs, book[r].state # "free", book[r].age <= Lease, book[r].ip # 0
          PROVE  /\ book'[r].mac = book[r].mac /\ book'[r].ip = book[r].ip /\ book'[r].state # "free"
                 /\ book'[r].age <= book[r].age /\ book'[r].age \in Nat
      <4>1. v.book[r] = book[r] /\ book[r].age \in Nat
        BY <1>0, <2>2, <3>5 DEF Records
      <4> QED
        BY <3>3, <3>5, <4>1
    <3> QED
      BY <1>4, <3>3, <3>4, <3>5
  <2> QED
    BY <2>3, <2>4
<1>6. \A r \in Recs : book[r].age \in Nat
  BY <1>0 DEF Records
<1>7. CASE d.type = "request" /\ ProcessRequest(d)
  <2>1. PICK r : r = FindRecord(book, d.from, d.ip)
    OBVIOUS
  <2>2. /\ r \in 0 .. BookSize
        /\ r # 0 => r \in Recs /\ book[r].mac = d.from /\ (d.ip = 0 \/ book[r].ip = d.ip)
    BY <1>3, <2>1, RecordFound
  <2>3. PICK ok \in BOOLEAN : /\ ok = IF r = 0 THEN FALSE ELSE book[r].state # "free"
    OBVIOUS
  <2>4. /\ book' = book
        /\ srv' = [type |-> IF ok THEN "ack" ELSE "nak", to |-> d.from, ip |-> IF ok THEN d.ip ELSE 0,
                    rec |-> IF ok THEN r ELSE 0, cur |-> d.cur]
    BY <1>7, <2>1, <2>3 DEF ProcessRequest
  <2>5. CASE ok
    <3>1. r # 0 /\ srv' = [type |-> "ack", to |-> d.from, ip |-> d.ip, rec |-> r, cur |-> d.cur]
      BY <2>3, <2>4, <2>5
    <3>2. srv' \in Answers
      BY <1>3, <2>2, <3>1 DEF Answers
    <3> QED
      BY <1>0, <1>4, <1>6, <1>7, <2>2, <2>4, <3>1, <3>2
  <2>6. CASE ~ok
    <3>1. srv' = [type |-> "nak", to |-> d.from, ip |-> 0, rec |-> 0, cur |-> d.cur]
      BY <2>4, <2>6
    <3>2. srv' \in Answers
      BY <1>3, <3>1, DhcpAssumption DEF Answers
    <3> QED
      BY <1>0, <1>4, <1>6, <2>4, <3>1, <3>2
  <2> QED
    BY <2>5, <2>6
<1>8. CASE d.type = "release" /\ UNCHANGED <<book, srv>>
  <2>1. Rest \in Answers /\ Rest.type = "none"
    BY DhcpAssumption DEF Rest, Answers
  <2> QED
    BY <1>0, <1>4, <1>6, <1>8, <2>1
<1> QED
  BY <1>2, <1>5, <1>7, <1>8 DEF SrvInput

\* The answer leaves; an acknowledged record starts again.
LEMMA SrvSendKeeps ==
  ASSUME DhcpIInv, SrvSend
  PROVE  DhcpIInv'
<1> USE DEF DhcpIInv
<1>0. /\ srv # Rest /\ srv' = Rest /\ inq' = inq /\ cli' = cli /\ srv \in Answers
      /\ book' = IF srv.type = "ack" THEN Acked ELSE book
      /\ air' = IF srv.cur THEN [air EXCEPT ![srv.to] = [type |-> srv.type, ip |-> srv.ip]] ELSE air
      /\ srv.to \in Clients /\ book \in [Recs -> Records]
  BY DEF SrvSend, DhcpTypeOK
<1>1. /\ book' \in [Recs -> Records]
      /\ \A r \in Recs : /\ book'[r].mac = book[r].mac /\ book'[r].ip = book[r].ip
                         /\ book[r].state # "free" => book'[r].state # "free"
                         /\ book'[r].age <= book[r].age /\ book'[r].age \in Nat
      /\ srv.type = "ack" => /\ srv.rec \in Recs
                             /\ book'[srv.rec].state # "free" /\ book'[srv.rec].age = 0
  <2>1. \A r \in Recs : book[r] \in Records /\ book[r].age \in Nat
    BY <1>0 DEF Records
  <2>2. CASE srv.type = "ack"
    <3>1. srv.rec \in Recs
      BY <1>0, <2>2, DhcpAssumption DEF Offers, Answers, Recs
    <3>2. book' = [book EXCEPT ![srv.rec].state = "assigned", ![srv.rec].age = 0]
      BY <1>0, <2>2 DEF Acked
    <3>3. /\ book' \in [Recs -> Records]
          /\ book'[srv.rec].state = "assigned" /\ book'[srv.rec].age = 0
          /\ book'[srv.rec].mac = book[srv.rec].mac /\ book'[srv.rec].ip = book[srv.rec].ip
      BY <1>0, <3>1, <3>2 DEF Records
    <3>4. \A r \in Recs : r # srv.rec => book'[r] = book[r]
      BY <1>0, <3>2
    <3>5. ASSUME NEW r \in Recs
          PROVE  /\ book'[r].mac = book[r].mac /\ book'[r].ip = book[r].ip
                 /\ book[r].state # "free" => book'[r].state # "free"
                 /\ book'[r].age <= book[r].age /\ book'[r].age \in Nat
      BY <2>1, <3>3, <3>4
    <3> QED
      BY <3>1, <3>3, <3>5
  <2>3. CASE srv.type # "ack"
    BY <1>0, <2>1, <2>3
  <2> QED
    BY <2>2, <2>3
<1>2. /\ air' \in [Clients -> [type : {"none", "offer", "ack", "nak"}, ip : Nat]]
      /\ \A c \in Clients : air'[c] = air[c] \/ (c = srv.to /\ srv.cur /\ air'[c].type = srv.type
                                               /\ air'[c].ip = srv.ip)
  <2>1. [type |-> srv.type, ip |-> srv.ip] \in [type : {"none", "offer", "ack", "nak"}, ip : Nat]
    BY <1>0 DEF Answers
  <2> QED
    BY <1>0, <2>1 DEF DhcpTypeOK
<1>3. Rest \in Answers /\ Rest.type = "none"
  BY DhcpAssumption DEF Rest, Answers
<1>4. DhcpTypeOK'
  BY <1>0, <1>1, <1>2, <1>3 DEF DhcpTypeOK, Records, Answers, Datagrams, Rest
<1>5. Offers'
  BY <1>0, <1>2, <1>3 DEF Offers
<1>6. NoRequest' /\ Acking'
  BY <1>0, <1>3 DEF NoRequest, Acking
<1>7. Fresh'
  <2>1. ASSUME NEW c \in Clients, Waiting(c)', ~Waiting(c)
        PROVE  \E r \in Recs : Young(book', r, c, cli[c].ip, cli[c].rage)
    <3>1. cli[c].st \in {"request", "renew"} /\ air'[c].type = "ack" /\ air'[c].ip = cli[c].ip
      BY <1>0, <2>1 DEF Waiting
    <3>2. c = srv.to /\ srv.cur /\ srv.type = "ack" /\ srv.ip = cli[c].ip
      BY <1>2, <2>1, <3>1 DEF Waiting
    <3>3. book[srv.rec].mac = c /\ book[srv.rec].ip = cli[c].ip /\ srv.rec \in Recs
      BY <1>1, <3>1, <3>2 DEF Acking, Offers
    <3>4. book'[srv.rec].age <= cli[c].rage
      BY <1>1, <3>2, DhcpAssumption DEF DhcpTypeOK
    <3> QED
      BY <1>1, <3>2, <3>3, <3>4 DEF Young
  <2> QED
    BY <1>0, <1>1, <2>1, FreshKept
<1> QED
  BY <1>4, <1>5, <1>6, <1>7

\* A reset empties the book and the hosts lose their leases; what is in the
\* queue and with the server stays.
LEMMA DhcpResetKeeps ==
  ASSUME DhcpIInv, DhcpReset
  PROVE  DhcpIInv'
<1> USE DEF DhcpIInv
<1>0. /\ book' = [r \in Recs |-> EmptyRec] /\ air' = [c \in Clients |-> NoAnswer]
      /\ cli' = [c \in Clients |-> Unbound] /\ inq' = inq /\ srv' = srv
  BY DEF DhcpReset
<1>1. \A c \in Clients : /\ cli'[c].st = "init" /\ air'[c].type = "none"
  BY <1>0 DEF Unbound, NoAnswer
<1>2. DhcpTypeOK'
  <2>1. book' \in [Recs -> Records]
    BY <1>0 DEF EmptyRec, Records
  <2>2. air' \in [Clients -> [type : {"none", "offer", "ack", "nak"}, ip : Nat]]
    BY <1>0 DEF NoAnswer
  <2>3. cli' \in [Clients -> [st : {"init", "discover", "request", "bound", "renew"}, ip : Nat,
                             age : 0 .. Lease, rage : 0 .. Lease]]
    BY <1>0, DhcpAssumption DEF Unbound
  <2> QED
    BY <1>0, <2>1, <2>2, <2>3 DEF DhcpTypeOK, Records, Answers, Datagrams, Rest
<1>3. Offers' /\ NoRequest' /\ Acking' /\ Fresh'
  BY <1>0, <1>1 DEF Offers, NoRequest, Acking, Fresh, Holds, Waiting
<1> QED
  BY <1>2, <1>3

\* Time passes for records, leases and requests alike.
LEMMA TickKeeps ==
  ASSUME DhcpIInv, Tick
  PROVE  DhcpIInv'
<1> USE DEF DhcpIInv
<1>0. /\ book' = [r \in Recs |-> IF book[r].state = "free" THEN book[r]
                                  ELSE [book[r] EXCEPT !.age = Older(@)]]
      /\ cli' = [c \in Clients |-> Aged(cli[c])] /\ inq' = inq /\ srv' = srv /\ air' = air
  BY DEF Tick
<1>1. \A n \in Nat : Older(n) \in Nat
  BY DEF Older
<1>2. /\ book' \in [Recs -> Records]
      /\ \A r \in Recs : /\ book'[r].mac = book[r].mac /\ book'[r].ip = book[r].ip
                         /\ book'[r].state = book[r].state
                         /\ book[r].state # "free" => book'[r].age = Older(book[r].age)
  <2>1. ASSUME NEW r \in Recs
        PROVE  /\ book'[r] \in Records
               /\ book'[r].mac = book[r].mac /\ book'[r].ip = book[r].ip
               /\ book'[r].state = book[r].state
               /\ book[r].state # "free" => book'[r].age = Older(book[r].age)
    <3>1. book[r] \in Records /\ Older(book[r].age) \in Nat
      BY <1>1 DEF DhcpTypeOK, Records
    <3>2. book'[r] = IF book[r].state = "free" THEN book[r] ELSE [book[r] EXCEPT !.age = Older(book[r].age)]
      BY <1>0
    <3> QED
      BY <3>1, <3>2 DEF Records
  <2>2. book' = [r \in Recs |-> book'[r]]
    BY <1>0
  <2> QED
    BY <2>1, <2>2
<1>3. ASSUME NEW c \in Clients
      PROVE  /\ cli'[c] \in [st : {"init", "discover", "request", "bound", "renew"}, ip : Nat,
                              age : 0 .. Lease, rage : 0 .. Lease]
             /\ cli'[c].st = "init" \/ (cli'[c].st = cli[c].st /\ cli'[c].ip = cli[c].ip)
             /\ cli'[c].st \in {"bound", "renew"} => cli'[c].age = Older(cli[c].age)
             /\ cli'[c].st \in {"request", "renew"} => cli'[c].rage = Older(cli[c].rage)
  <2>1. PICK k : /\ k = cli[c]
                 /\ k \in [st : {"init", "discover", "request", "bound", "renew"}, ip : Nat,
                             age : 0 .. Lease, rage : 0 .. Lease]
    BY DEF DhcpTypeOK
  <2>2. PICK a : a = IF k.st \in {"bound", "renew"} THEN Older(k.age) ELSE k.age
    OBVIOUS
  <2>3. PICK g : g = IF k.st \in {"request", "renew"} THEN Older(k.rage) ELSE k.rage
    OBVIOUS
  <2>4. a \in Nat /\ g \in Nat
    BY <1>1, <2>1, <2>2, <2>3, DhcpAssumption
  <2>5. PICK e : e = [k EXCEPT !.age = a, !.rage = g]
    OBVIOUS
  <2>6. e.st = k.st /\ e.ip = k.ip /\ e.age = a /\ e.rage = g
    BY <2>1, <2>5
  <2>7. cli'[c] = IF a > Lease \/ g > Lease THEN Unbound ELSE e
    <3>1. cli'[c] = Aged(k)
      BY <1>0, <2>1
    <3>2. Aged(k) = IF e.age > Lease \/ e.rage > Lease THEN Unbound ELSE e
      BY <2>2, <2>3, <2>5 DEF Aged
    <3> QED
      BY <2>6, <3>1, <3>2
  <2>8. CASE a > Lease \/ g > Lease
    BY <2>7, <2>8, DhcpAssumption DEF Unbound
  <2>9. CASE ~(a > Lease \/ g > Lease)
    <3>1. a \in 0 .. Lease /\ g \in 0 .. Lease
      BY <2>4, <2>9, DhcpAssumption
    <3>2. e \in [st : {"init", "discover", "request", "bound", "renew"}, ip : Nat,
                  age : 0 .. Lease, rage : 0 .. Lease]
      BY <2>1, <2>5, <3>1
    <3> QED
      BY <2>1, <2>2, <2>3, <2>6, <2>7, <2>9, <3>2
  <2> QED
    BY <2>8, <2>9
<1>4. DhcpTypeOK'
  <2>1. cli' \in [Clients -> [st : {"init", "discover", "request", "bound", "renew"}, ip : Nat,
                             age : 0 .. Lease, rage : 0 .. Lease]]
    <3>1. cli' = [c \in Clients |-> cli'[c]]
      BY <1>0
    <3> QED
      BY <1>3, <3>1
  <2> QED
    BY <1>0, <1>2, <2>1 DEF DhcpTypeOK, Records, Answers, Datagrams, Rest
<1>5. Offers' /\ NoRequest' /\ Acking'
  <2>1. Offers'
    BY <1>0, <1>3 DEF Offers
  <2>2. NoRequest'
    BY <1>0, <1>3 DEF NoRequest
  <2>3. Acking'
    <3> SUFFICES ASSUME NEW c \in Clients, srv.type = "ack", srv.cur, srv.to = c,
                        cli'[c].st \in {"request", "renew"}
                 PROVE  book'[srv.rec].mac = c /\ (srv.ip = 0 \/ book'[srv.rec].ip = srv.ip)
      BY <1>0 DEF Acking
    <3>1. srv.rec \in Recs
      BY DhcpAssumption DEF Offers, DhcpTypeOK, Answers, Recs
    <3>2. cli[c].st \in {"request", "renew"}
      BY <1>3
    <3> QED
      BY <1>2, <3>1, <3>2 DEF Acking
  <2> QED
    BY <2>1, <2>2, <2>3
<1>6. Fresh'
  <2>1. ASSUME NEW c \in Clients, NEW n \in 0 .. Lease,
               \E r \in Recs : Young(book, r, c, cli[c].ip, n)
        PROVE  \E r \in Recs : Young(book', r, c, cli[c].ip, Older(n))
    <3>1. PICK r \in Recs : Young(book, r, c, cli[c].ip, n)
      BY <2>1
    <3>2. book[r].age \in Nat /\ book[r].age <= n /\ n \in Nat
      BY <3>1, DhcpAssumption DEF Young, DhcpTypeOK, Records
    <3>3. Older(book[r].age) <= Older(n)
      BY <3>2, DhcpAssumption DEF Older
    <3> QED
      BY <1>2, <3>1, <3>3 DEF Young
  <2>2. \A c \in Clients : cli[c].age \in 0 .. Lease /\ cli[c].rage \in 0 .. Lease
    BY DEF DhcpTypeOK
  <2>3. ASSUME NEW c \in Clients, Holds(c)'
        PROVE  \E r \in Recs : Young(book', r, c, cli'[c].ip, cli'[c].age)
    <3>1. Holds(c) /\ cli'[c].ip = cli[c].ip /\ cli'[c].age = Older(cli[c].age)
      BY <1>3, <2>3 DEF Holds
    <3> QED
      BY <2>1, <2>2, <3>1 DEF Fresh
  <2>4. ASSUME NEW c \in Clients, Waiting(c)'
        PROVE  \E r \in Recs : Young(book', r, c, cli'[c].ip, cli'[c].rage)
    <3>1. Waiting(c) /\ cli'[c].ip = cli[c].ip /\ cli'[c].rage = Older(cli[c].rage)
      BY <1>0, <1>3, <2>4 DEF Waiting
    <3> QED
      BY <2>1, <2>2, <3>1 DEF Fresh
  <2> QED
    BY <2>3, <2>4 DEF Fresh
<1> QED
  BY <1>4, <1>5, <1>6
-----------------------------------------------------------------------------
(* The clients.                                                            *)

States == [st : {"init", "discover", "request", "bound", "renew"}, ip : Nat,
           age : 0 .. Lease, rage : 0 .. Lease]
OnAir == [type : {"none", "offer", "ack", "nak"}, ip : Nat]

\* Client c goes on as k; x is left of the answer on its way.
LEMMA ClientKeeps ==
  ASSUME DhcpIInv, NEW c \in Clients, NEW k \in States, NEW x \in OnAir,
         book' = book, cli' = [cli EXCEPT ![c] = k], air' = [air EXCEPT ![c] = x],
         x = NoAnswer \/ x = air[c],
         inq' \in Seq(Datagrams),
         \A i \in 1 .. Len(inq') : inq'[i].from = c \/ \E j \in 1 .. Len(inq) : inq'[i] = inq[j],
         srv' = srv \/ (srv.to = c /\ srv' = [srv EXCEPT !.cur = FALSE]),
         k.st \in {"request", "bound", "renew"} => k.ip # 0,
         k.st = "discover" =>
           /\ ~(srv'.to = c /\ srv'.cur /\ srv'.type = "ack")
           /\ \A i \in 1 .. Len(inq') : inq'[i].from = c /\ inq'[i].cur => inq'[i].type # "request",
         k.st \in {"request", "renew"} => \/ cli[c].st \in {"discover", "request", "renew"}
                                         \/ ~(srv'.to = c /\ srv'.cur),
         k.st \in {"bound", "renew"} => \E r \in Recs : Young(book, r, c, k.ip, k.age),
         k.st \in {"request", "renew"} /\ x.type = "ack" /\ x.ip = k.ip =>
           \E r \in Recs : Young(book, r, c, k.ip, k.rage)
  PROVE  DhcpIInv'
<1> USE DEF DhcpIInv
<1>1. /\ cli' \in [Clients -> States] /\ cli'[c] = k
      /\ \A d \in Clients : d # c => cli'[d] = cli[d]
  BY DEF DhcpTypeOK, States
<1>2. /\ air' \in [Clients -> OnAir] /\ air'[c] = x
      /\ \A d \in Clients : d # c => air'[d] = air[d]
  BY DEF DhcpTypeOK, OnAir
<1>3. /\ srv' \in Answers /\ srv'.to = srv.to /\ srv'.type = srv.type /\ srv'.ip = srv.ip
      /\ srv'.rec = srv.rec /\ (srv'.cur => srv.cur) /\ (srv' = Rest \/ srv'.to \in Clients)
      /\ srv.to # c => srv' = srv
  BY DEF DhcpTypeOK, Answers
<1>4. DhcpTypeOK'
  BY <1>1, <1>2, <1>3 DEF DhcpTypeOK, Records, Answers, Datagrams, Rest, States, OnAir
<1>5. Offers'
  <2>1. NoAnswer.type = "none"
    BY DEF NoAnswer
  <2>2. srv'.type = "offer" => srv'.ip # 0
    BY <1>3 DEF Offers
  <2>3. srv'.type = "ack" => srv'.rec # 0
    BY <1>3 DEF Offers
  <2>4. \A d \in Clients : air'[d].type = "offer" => air'[d].ip # 0
    BY <1>2, <2>1 DEF Offers
  <2>5. \A d \in Clients : cli'[d].st \in {"request", "bound", "renew"} => cli'[d].ip # 0
    BY <1>1 DEF Offers
  <2> QED
    BY <2>2, <2>3, <2>4, <2>5 DEF Offers
<1>6. NoRequest'
  <2> SUFFICES ASSUME NEW d \in Clients, cli'[d].st = "discover"
               PROVE  /\ ~(srv'.to = d /\ srv'.cur /\ srv'.type = "ack")
                      /\ \A i \in 1 .. Len(inq') : inq'[i].from = d /\ inq'[i].cur => inq'[i].type # "request"
    BY DEF NoRequest
  <2>1. CASE d = c
    BY <1>1, <2>1
  <2>2. CASE d # c
    BY <1>1, <1>3, <2>2 DEF NoRequest
  <2> QED
    BY <2>1, <2>2
<1>7. Acking'
  <2> SUFFICES ASSUME NEW d \in Clients, srv'.type = "ack", srv'.cur, srv'.to = d,
                      cli'[d].st \in {"request", "renew"}
               PROVE  book[srv'.rec].mac = d /\ (srv'.ip = 0 \/ book[srv'.rec].ip = srv'.ip)
    BY DEF Acking
  <2>1. cli[d].st \in {"request", "renew"}
    <3>1. CASE d = c
      BY <1>1, <1>3, <3>1 DEF NoRequest
    <3>2. CASE d # c
      BY <1>1, <3>2
    <3> QED
      BY <3>1, <3>2
  <2> QED
    BY <1>3, <2>1 DEF Acking
<1>8. Fresh'
  <2>1. ASSUME NEW d \in Clients, Holds(d)'
        PROVE  \E r \in Recs : Young(book', r, d, cli'[d].ip, cli'[d].age)
    <3>1. CASE d = c
      BY <1>1, <2>1, <3>1 DEF Holds
    <3>2. CASE d # c
      BY <1>1, <2>1, <3>2 DEF Holds, Fresh
    <3> QED
      BY <3>1, <3>2
  <2>2. ASSUME NEW d \in Clients, Waiting(d)'
        PROVE  \E r \in Recs : Young(book', r, d, cli'[d].ip, cli'[d].rage)
    <3>1. CASE d = c
      BY <1>1, <1>2, <2>2, <3>1 DEF Waiting
    <3>2. CASE d # c
      BY <1>1, <1>2, <2>2, <3>2 DEF Waiting, Fresh
    <3> QED
      BY <3>1, <3>2
  <2> QED
    BY <2>1, <2>2 DEF Fresh
<1> QED
  BY <1>4, <1>5, <1>6, <1>7, <1>8

\* What a client sends.
LEMMA FromType ==
  ASSUME NEW c \in Clients, NEW ip \in Nat
  PROVE  /\ From(c, "discover", ip) \in Datagrams /\ From(c, "request", ip) \in Datagrams
         /\ From(c, "release", ip) \in Datagrams
         /\ \A y : From(c, y, ip).from = c /\ From(c, y, ip).type = y
BY DEF From, Datagrams

\* A datagram of c reaches the socket or is lost.
LEMMA Posted ==
  ASSUME DhcpTypeOK, NEW c \in Clients, NEW d \in Datagrams, d.from = c, Post(d)
  PROVE  /\ inq' \in Seq(Datagrams)
         /\ \A i \in 1 .. Len(inq') : inq'[i] = d \/ \E j \in 1 .. Len(inq) : inq'[i] = inq[j]
         /\ \A i \in 1 .. Len(inq') : inq'[i].from = c \/ \E j \in 1 .. Len(inq) : inq'[i] = inq[j]
<1>1. inq \in Seq(Datagrams)
  BY DEF DhcpTypeOK
<1>2. /\ inq' \in Seq(Datagrams)
      /\ \A i \in 1 .. Len(inq') : inq'[i] = d \/ \E j \in 1 .. Len(inq) : inq'[i] = inq[j]
  BY <1>1, PutBehind DEF Post
<1> QED
  BY <1>2

\* A transaction of c begins.
LEMMA BegunTypes ==
  ASSUME DhcpTypeOK, NEW c \in Clients, NEW d \in Datagrams, d.from = c, Begin(c, d)
  PROVE  /\ inq' \in Seq(Datagrams)
         /\ \A i \in 1 .. Len(inq') : inq'[i].from = c \/ \E j \in 1 .. Len(inq) : inq'[i] = inq[j]
         /\ srv' = srv \/ (srv.to = c /\ srv' = [srv EXCEPT !.cur = FALSE])
         /\ ~(srv'.to = c /\ srv'.cur)
         /\ air' = [air EXCEPT ![c] = NoAnswer]
<1>1. inq \in Seq(Datagrams) /\ srv \in Answers
  BY DEF DhcpTypeOK
<1>2. /\ inq' \in Seq(Datagrams)
      /\ \A i \in 1 .. Len(inq') : inq'[i].from = c \/ \E j \in 1 .. Len(inq) : inq'[i] = inq[j]
  BY <1>1, Begun
<1>3. srv' = IF srv.to = c THEN [srv EXCEPT !.cur = FALSE] ELSE srv
  BY DEF Begin
<1>4. ~(srv'.to = c /\ srv'.cur)
  BY <1>1, <1>3 DEF Answers
<1> QED
  BY <1>2, <1>3, <1>4 DEF Begin

\* The steps of a client and of its link.
LEMMA CliKeeps ==
  ASSUME DhcpIInv, NEW c \in Clients,
         \/ Discover(c) \/ TakeOffer(c) \/ Repeat(c) \/ Renew(c)
         \/ TakeAck(c) \/ TakeNak(c) \/ Release(c) \/ Lost(c)
  PROVE  DhcpIInv'
<1> USE DEF DhcpIInv
<1>0. /\ cli \in [Clients -> States] /\ cli[c] \in States /\ inq \in Seq(Datagrams)
      /\ air \in [Clients -> OnAir] /\ air[c] \in OnAir
      /\ NoAnswer \in OnAir /\ NoAnswer.type = "none" /\ Unbound \in States /\ Unbound.st = "init"
      /\ 0 \in Nat
  <2>1. NoAnswer \in OnAir /\ NoAnswer.type = "none"
    BY DEF OnAir, NoAnswer
  <2>2. Unbound \in States /\ Unbound.st = "init"
    BY DhcpAssumption DEF States, Unbound
  <2> QED
    BY <2>1, <2>2 DEF DhcpTypeOK, States, OnAir
<1>1. /\ cli[c].ip \in Nat /\ cli[c].age \in 0 .. Lease /\ cli[c].rage \in 0 .. Lease
      /\ 0 \in 0 .. Lease /\ air[c].ip \in Nat
  BY <1>0, DhcpAssumption DEF States, OnAir
<1>2. CASE Discover(c)
  <2> DEFINE k == [cli[c] EXCEPT !.st = "discover"]
  <2>1. cli' = [cli EXCEPT ![c] = k] /\ Begin(c, From(c, "discover", 0)) /\ book' = book
    BY <1>2 DEF Discover
  <2>2. k \in States /\ k.st = "discover"
    BY <1>0 DEF States
  <2>3. PICK d \in Datagrams : d = From(c, "discover", 0) /\ d.from = c /\ d.type = "discover"
    BY <1>0, FromType
  <2>4. \A i \in 1 .. Len(inq') : inq'[i].from = c /\ inq'[i].cur => inq'[i].type # "request"
    <3>1. Begin(c, d)
      BY <2>1, <2>3
    <3>2. \A i \in 1 .. Len(inq') : inq'[i].from = c => inq'[i] = d \/ ~inq'[i].cur
      BY <1>0, <3>1, Begun
    <3> QED
      BY <2>3, <3>2
  <2>5. /\ inq' \in Seq(Datagrams)
        /\ \A i \in 1 .. Len(inq') : inq'[i].from = c \/ \E j \in 1 .. Len(inq) : inq'[i] = inq[j]
        /\ srv' = srv \/ (srv.to = c /\ srv' = [srv EXCEPT !.cur = FALSE])
        /\ ~(srv'.to = c /\ srv'.cur)
        /\ air' = [air EXCEPT ![c] = NoAnswer]
    BY <2>1, <2>3, BegunTypes
  <2> HIDE DEF k
  <2> QED
    BY <1>0, <2>1, <2>2, <2>4, <2>5, ClientKeeps
<1>3. CASE TakeOffer(c)
  <2> DEFINE k == [st |-> "request", ip |-> air[c].ip, age |-> 0, rage |-> 0]
  <2>1. /\ cli[c].st = "discover" /\ air[c].type = "offer" /\ cli' = [cli EXCEPT ![c] = k]
        /\ air' = [air EXCEPT ![c] = NoAnswer] /\ Post(From(c, "request", air[c].ip))
        /\ book' = book /\ srv' = srv
    BY <1>3 DEF TakeOffer
  <2>2. k \in States /\ k.st = "request" /\ k.ip # 0 /\ air[c].ip \in Nat
    <3>1. k \in States
      BY <1>1 DEF States
    <3> QED
      BY <1>1, <2>1, <3>1 DEF Offers
  <2>3. PICK d \in Datagrams : d = From(c, "request", air[c].ip) /\ d.from = c
    BY <2>2, FromType
  <2>4. /\ inq' \in Seq(Datagrams)
        /\ \A i \in 1 .. Len(inq') : inq'[i].from = c \/ \E j \in 1 .. Len(inq) : inq'[i] = inq[j]
    BY <2>1, <2>3, Posted
  <2> HIDE DEF k
  <2> QED
    BY <1>0, <2>1, <2>2, <2>4, ClientKeeps
<1>4. CASE Repeat(c)
  <2>1. /\ book' = book /\ srv' = srv
        /\ cli' = [cli EXCEPT ![c] = cli[c]] /\ air' = [air EXCEPT ![c] = air[c]]
        /\ cli[c].st \in {"discover", "request", "renew"}
        /\ Post(IF cli[c].st = "discover" THEN From(c, "discover", 0) ELSE From(c, "request", cli[c].ip))
    BY <1>0, <1>4 DEF Repeat
  <2>2. cli[c].ip \in Nat
    BY <1>0 DEF States
  <2>3. PICK d \in Datagrams : /\ d.from = c /\ Post(d)
                               /\ cli[c].st = "discover" => d.type = "discover"
    BY <1>0, <2>1, <2>2, FromType
  <2>4. /\ inq' \in Seq(Datagrams)
        /\ \A i \in 1 .. Len(inq') : inq'[i] = d \/ \E j \in 1 .. Len(inq) : inq'[i] = inq[j]
        /\ \A i \in 1 .. Len(inq') : inq'[i].from = c \/ \E j \in 1 .. Len(inq) : inq'[i] = inq[j]
    BY <2>3, Posted
  <2>5. cli[c].st = "discover" =>
          /\ ~(srv'.to = c /\ srv'.cur /\ srv'.type = "ack")
          /\ \A i \in 1 .. Len(inq') : inq'[i].from = c /\ inq'[i].cur => inq'[i].type # "request"
    BY <2>1, <2>3, <2>4 DEF NoRequest
  <2>6. cli[c].st \in {"request", "bound", "renew"} => cli[c].ip # 0
    BY DEF Offers
  <2>7. /\ cli[c].st \in {"bound", "renew"} => \E r \in Recs : Young(book, r, c, cli[c].ip, cli[c].age)
        /\ cli[c].st \in {"request", "renew"} /\ air[c].type = "ack" /\ air[c].ip = cli[c].ip =>
             \E r \in Recs : Young(book, r, c, cli[c].ip, cli[c].rage)
    BY DEF Fresh, Holds, Waiting
  <2> QED
    BY <1>0, <2>1, <2>4, <2>5, <2>6, <2>7, ClientKeeps
<1>5. CASE Renew(c)
  <2> DEFINE k == [cli[c] EXCEPT !.st = "renew", !.rage = 0]
  <2>1. /\ cli[c].st = "bound" /\ cli' = [cli EXCEPT ![c] = k]
        /\ Begin(c, From(c, "request", cli[c].ip)) /\ book' = book
    BY <1>5 DEF Renew
  <2>2. k \in States /\ k.st = "renew" /\ k.ip = cli[c].ip /\ k.age = cli[c].age /\ cli[c].ip \in Nat
    BY <1>0, <1>1 DEF States
  <2>3. k.ip # 0 /\ \E r \in Recs : Young(book, r, c, k.ip, k.age)
    BY <2>1, <2>2 DEF Offers, Fresh, Holds
  <2>4. PICK d \in Datagrams : d = From(c, "request", cli[c].ip) /\ d.from = c
    BY <2>2, FromType
  <2>5. /\ inq' \in Seq(Datagrams)
        /\ \A i \in 1 .. Len(inq') : inq'[i].from = c \/ \E j \in 1 .. Len(inq) : inq'[i] = inq[j]
        /\ srv' = srv \/ (srv.to = c /\ srv' = [srv EXCEPT !.cur = FALSE])
        /\ ~(srv'.to = c /\ srv'.cur)
        /\ air' = [air EXCEPT ![c] = NoAnswer]
    BY <2>1, <2>4, BegunTypes
  <2> HIDE DEF k
  <2> QED
    BY <1>0, <2>1, <2>2, <2>3, <2>5, ClientKeeps
<1>6. \A i \in 1 .. Len(inq) : \E j \in 1 .. Len(inq) : inq[i] = inq[j]
  OBVIOUS
<1>7. CASE TakeAck(c)
  <2> DEFINE k == [cli[c] EXCEPT !.st = "bound", !.age = cli[c].rage, !.rage = 0]
  <2>1. /\ cli[c].st \in {"request", "renew"} /\ air[c] = [type |-> "ack", ip |-> cli[c].ip]
        /\ cli' = [cli EXCEPT ![c] = k] /\ air' = [air EXCEPT ![c] = NoAnswer]
        /\ book' = book /\ inq' = inq /\ srv' = srv
    BY <1>7 DEF TakeAck
  <2>2. k \in States /\ k.st = "bound" /\ k.ip = cli[c].ip /\ k.age = cli[c].rage
    BY <1>0, <1>1 DEF States
  <2>3. k.ip # 0 /\ \E r \in Recs : Young(book, r, c, k.ip, k.age)
    <3>1. Waiting(c)
      BY <2>1 DEF Waiting
    <3> QED
      BY <2>1, <2>2, <3>1 DEF Offers, Fresh
  <2> HIDE DEF k
  <2> QED
    BY <1>0, <1>6, <2>1, <2>2, <2>3, ClientKeeps
<1>8. CASE TakeNak(c)
  <2>1. /\ cli' = [cli EXCEPT ![c] = Unbound] /\ air' = [air EXCEPT ![c] = NoAnswer]
        /\ book' = book /\ inq' = inq /\ srv' = srv
    BY <1>8 DEF TakeNak
  <2> QED
    BY <1>0, <1>6, <2>1, ClientKeeps
<1>9. CASE Release(c)
  <2>1. /\ cli' = [cli EXCEPT ![c] = Unbound] /\ air' = [air EXCEPT ![c] = air[c]]
        /\ book' = book /\ srv' = srv /\ Post(From(c, "release", 0))
    BY <1>0, <1>9 DEF Release
  <2>2. PICK d \in Datagrams : d = From(c, "release", 0) /\ d.from = c
    BY <1>0, FromType
  <2>3. /\ inq' \in Seq(Datagrams)
        /\ \A i \in 1 .. Len(inq') : inq'[i].from = c \/ \E j \in 1 .. Len(inq) : inq'[i] = inq[j]
    BY <2>1, <2>2, Posted
  <2> QED
    BY <1>0, <2>1, <2>3, ClientKeeps
<1>10. CASE Lost(c)
  <2>1. /\ cli' = [cli EXCEPT ![c] = cli[c]] /\ air' = [air EXCEPT ![c] = NoAnswer]
        /\ book' = book /\ inq' = inq /\ srv' = srv
    BY <1>0, <1>10 DEF Lost
  <2>2. /\ cli[c].st = "discover" =>
            /\ ~(srv'.to = c /\ srv'.cur /\ srv'.type = "ack")
            /\ \A i \in 1 .. Len(inq') : inq'[i].from = c /\ inq'[i].cur => inq'[i].type # "request"
        /\ cli[c].st \in {"request", "bound", "renew"} => cli[c].ip # 0
        /\ cli[c].st \in {"bound", "renew"} => \E r \in Recs : Young(book, r, c, cli[c].ip, cli[c].age)
    BY <2>1 DEF NoRequest, Offers, Fresh, Holds
  <2> QED
    BY <1>0, <1>6, <2>1, <2>2, ClientKeeps
<1> QED
  BY <1>2, <1>3, <1>4, <1>5, <1>7, <1>8, <1>9, <1>10
-----------------------------------------------------------------------------
\* The server starts with an empty book.
LEMMA DhcpInitOK == DhcpInit => DhcpIInv
<1> SUFFICES ASSUME DhcpInit PROVE DhcpIInv
  OBVIOUS
<1>0. /\ book = [r \in Recs |-> EmptyRec] /\ inq = <<>> /\ srv = Rest
      /\ air = [c \in Clients |-> NoAnswer] /\ cli = [c \in Clients |-> Unbound]
  BY DEF DhcpInit
<1>1. DhcpTypeOK
  <2>1. EmptyRec \in Records /\ Rest \in Answers
    BY DhcpAssumption DEF EmptyRec, Records, Rest, Answers
  <2>2. cli \in [Clients -> [st : {"init", "discover", "request", "bound", "renew"}, ip : Nat,
                            age : 0 .. Lease, rage : 0 .. Lease]]
    BY <1>0, DhcpAssumption DEF Unbound
  <2>3. air \in [Clients -> [type : {"none", "offer", "ack", "nak"}, ip : Nat]]
    BY <1>0 DEF NoAnswer
  <2> QED
    BY <1>0, <2>1, <2>2, <2>3 DEF DhcpTypeOK
<1>2. /\ \A c \in Clients : cli[c].st = "init" /\ air[c].type = "none"
      /\ srv.type = "none"
  BY <1>0 DEF Unbound, NoAnswer, Rest
<1> QED
  BY <1>1, <1>2 DEF DhcpIInv, Offers, NoRequest, Acking, Fresh, Holds, Waiting

\* A client that was given an address keeps its record, with that address, for
\* as long as its lease runs: other clients, renewals that cross, late
\* answers, old datagrams and resets never cost it the record
\* (DHCPSrv_ProcessDiscover, DHCPSrv_ProcessRequest, DHCPSrv_Reset).
THEOREM LeasesKept == DhcpSpec => []LeaseKept
<1>1. DhcpInit => DhcpIInv
  BY DhcpInitOK
<1>2. DhcpIInv /\ [DhcpNext]_dhcpVars => DhcpIInv'
  <2> SUFFICES ASSUME DhcpIInv, [DhcpNext]_dhcpVars
               PROVE  DhcpIInv'
    OBVIOUS
  <2>1. CASE DhcpNext
    BY <2>1, SrvInputKeeps, SrvSendKeeps, DhcpResetKeeps, TickKeeps, CliKeeps DEF DhcpNext
  <2>2. CASE UNCHANGED dhcpVars
    <3>1. UNCHANGED <<book, inq, srv, air, cli>>
      BY <2>2 DEF dhcpVars
    <3>2. DhcpTypeOK'
      BY <3>1 DEF DhcpIInv, DhcpTypeOK, Records, Answers, Datagrams, Rest
    <3>3. Offers' /\ NoRequest' /\ Acking'
      BY <3>1 DEF DhcpIInv, Offers, NoRequest, Acking
    <3>4. Fresh'
      BY <3>1 DEF DhcpIInv, Fresh, Holds, Waiting, Young
    <3> QED
      BY <3>2, <3>3, <3>4 DEF DhcpIInv
  <2> QED
    BY <2>1, <2>2
<1>3. DhcpIInv => LeaseKept
  BY DEF DhcpIInv, Fresh, LeaseKept, Young
<1> QED
  BY <1>1, <1>2, <1>3, PTL DEF DhcpSpec
=============================================================================
