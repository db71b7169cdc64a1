------------------------------ MODULE UdpSock -------------------------------
(***************************************************************************)
(* The UDP sockets of net/tcpip/src/udp_sock.c.  The queue of a socket     *)
(* holds datagrams as plain bytes: size, address and port of a datagram    *)
(* (one unit each), then its data (units named by datagram and place).     *)
(***************************************************************************)
EXTENDS Integers, Sequences, FiniteSets, SequencesExt

CONSTANTS SockNum,   \* TCPIP_UDP_SOCK_NUM
          RxSize,    \* units the queue of a socket holds
          ReadSize,  \* units the buffer of a reader holds
          Ports, Sources, Sizes

\* Port 0 marks a free entry.
ASSUME UdpAssumption == /\ SockNum \in Nat /\ RxSize \in Nat /\ ReadSize \in Nat
                        /\ 0 \notin Ports /\ Sizes \subseteq Nat

VARIABLES usocks,    \* the socket table
          pending,   \* history: the datagrams each socket still owes its reader
          read       \* history: what the last RecvFrom returned and should have

udpVars == <<usocks, pending, read>>
Socks == 1 .. SockNum
Datagram(src, n) == [src |-> src, n |-> n]
Data(d) == [i \in 1 .. d.n |-> <<d.src, i>>]

UdpInit == /\ usocks = [s \in Socks |-> [loc_port |-> 0, rxq |-> <<>>, offs |-> 0, size |-> 0, ip |-> 0]]
           /\ pending = [s \in Socks |-> <<>>]
           /\ read = [got |-> <<>>, want |-> <<>>]

\* TCPIPUdpSock_CreateSocket: the first free entry; the read position stays.
CreateSocket ==
  /\ \E s \in Socks, p \in Ports :
       /\ usocks[s].loc_port = 0 /\ \A r \in 1 .. s - 1 : usocks[r].loc_port # 0
       /\ usocks' = [usocks EXCEPT ![s].loc_port = p, ![s].rxq = <<>>]
  /\ UNCHANGED <<pending, read>>

\* TCPIPUdpSock_DestroySocket
DestroySocket ==
  /\ \E s \in Socks : /\ usocks[s].loc_port # 0
                      /\ usocks' = [usocks EXCEPT ![s].loc_port = 0, ![s].rxq = <<>>]
                      /\ pending' = [pending EXCEPT ![s] = <<>>]
  /\ UNCHANGED read

\* Mutant: the meta-data is not counted.
NeedsUnits_Data(d) == d.n
\* The bytes b_to_put of TCPIPUdpSock_ProcessIncoming.
NeedsUnits(d) == 3 + d.n

\* Queue_Put stores what fits.
Stored(q, u) == SubSeq(q \o u, 1, IF Len(q \o u) < RxSize THEN Len(q \o u) ELSE RxSize)

\* TCPIPUdpSock_ProcessIncoming: four puts, or none when there is no room.
ProcessIncoming(s, d) ==
  IF RxSize - Len(usocks[s].rxq) < NeedsUnits(d) THEN UNCHANGED <<usocks, pending>>
  ELSE /\ usocks' = [usocks EXCEPT ![s].rxq = Stored(@, <<d.n, d.src, d.src>> \o Data(d))]
       /\ pending' = [pending EXCEPT ![s] = Append(@, d)]

\* TCPIPUdpSock_Input: the first socket of the port takes the datagram.
SockInput ==
  /\ \E p \in Ports, src \in Sources, n \in Sizes :
       LET at == {s \in Socks : usocks[s].loc_port = p}
       IN  IF at = {} THEN UNCHANGED <<usocks, pending>>
           ELSE ProcessIncoming(CHOOSE s \in at : \A r \in at : s <= r, Datagram(src, n))
  /\ UNCHANGED read

\* TCPIPUdpSock_RecvFrom: the copy is limited by the size of the datagram, not
\* by what is left of it.
RecvFrom ==
  \E s \in Socks :
    LET u == usocks[s]
        new == u.offs = u.size
        size == IF new THEN u.rxq[1] ELSE u.size
        ip == IF new THEN u.rxq[2] ELSE u.ip
        q == IF new THEN SubSeq(u.rxq, 4, Len(u.rxq)) ELSE u.rxq
        offs == IF new THEN 0 ELSE u.offs
        most == IF ReadSize < size THEN ReadSize ELSE size
        n == IF Len(q) < most THEN Len(q) ELSE most
        d == Head(pending[s])
        left == d.n - offs
    IN  /\ u.loc_port # 0 /\ (new => Len(u.rxq) >= 3)
        /\ usocks' = [usocks EXCEPT ![s].rxq = SubSeq(q, n + 1, Len(q)), ![s].size = size,
                                    ![s].ip = ip, ![s].offs = offs + n]
        /\ read' = [got |-> <<ip>> \o SubSeq(q, 1, n),
                    want |-> <<d.src>> \o SubSeq(Data(d), offs + 1,
                                                 offs + (IF left < ReadSize THEN left ELSE ReadSize))]
        /\ pending' = IF offs + n >= d.n THEN [pending EXCEPT ![s] = Tail(@)] ELSE pending

UdpNext == CreateSocket \/ DestroySocket \/ SockInput \/ RecvFrom

UdpSpec == UdpInit /\ [][UdpNext]_udpVars

\* Every reader has room for every datagram.
RoomToRead == \A n \in Sizes : n <= ReadSize
-----------------------------------------------------------------------------
Coded(d) == <<d.n, d.src, d.src>> \o Data(d)
Owed(s) == FlattenSeq([i \in DOMAIN pending[s] |-> Coded(pending[s][i])])

\* TCPIPUdpSock_RecvFrom returns the datagrams that were accepted, in order,
\* each with its own sender and none mixed with the next: the queue of a socket
\* is exactly what it owes its reader, however full it runs, and what was read
\* is the next datagram.
UdpFramed == /\ read.got = read.want
             /\ \A s \in Socks : usocks[s].offs = usocks[s].size => usocks[s].rxq = Owed(s)
=============================================================================
