------------------------------- MODULE MCNet --------------------------------
(***************************************************************************)
(* The network components that do not share state with one another in one  *)
(* instance: `part' says which of them a behaviour runs.                   *)
(***************************************************************************)
EXTENDS Wire, DhcpFrame, MdnsFrame, UdpSock, Dhcp, TcpSock

CONSTANT Parts
VARIABLE part
-----------------------------------------------------------------------------
A == [mac |-> <<0, 1, 2, 3, 4, 5>>, ip |-> <<192, 168, 50, 100>>]
B == [mac |-> <<0, 1, 2, 3, 4, 100>>, ip |-> <<192, 168, 50, 124>>]
NetMask == <<255, 255, 255, 0>>
MCIp == B.ip
Ip(kind, dst, opts, body) == [kind |-> kind, dst |-> dst, opts |-> opts, frag |-> 0, body |-> body]
Dgram == [sport |-> 1000, dport |-> 5353, data |-> <<255, 255, 7>>]
Seg == [sport |-> 300, dport |-> 80, seq |-> Bcast4, ack |-> <<1, 2, 3, 4>>, flags |-> 24, win |-> 65535,
        data |-> <<9, 8, 7, 6, 5>>]
Echo == [type |-> 8, id |-> 1, seqno |-> 513, data |-> <<1, 2, 3>>]
Arp(oper, tpa) == [kind |-> "arp", body |-> [oper |-> oper, sha |-> A.mac, spa |-> A.ip, tha |-> B.mac, tpa |-> tpa]]
\* Empty and odd payloads, payloads that sum to zero, options, every kind of
\* destination, and a fragment that the masks do see.
MCMsgs == {Ip("udp", B.ip, 0, Dgram), Ip("udp", <<224, 0, 0, 251>>, 1, [Dgram EXCEPT !.data = <<>>]),
           Ip("udp", Bcast4, 0, [Dgram EXCEPT !.data = [i \in 1 .. 12 |-> 255]]),
           Ip("tcp", B.ip, 0, Seg), Ip("tcp", B.ip, 1, Seg), Ip("tcp", <<192, 168, 50, 9>>, 0, Seg),
           [Ip("udp", B.ip, 0, Dgram) EXCEPT !.frag = 1],
           Ip("icmp", B.ip, 0, Echo), Ip("icmp", B.ip, 1, Echo), Arp(1, B.ip), Arp(2, B.ip), Arp(1, A.ip)}
-----------------------------------------------------------------------------
D == <<<<1, 2, 3, 4, 5>>, <<6, 7, 8, 9, 10>>>>
Other == <<<<1, 2, 3, 4, 5>>>>
Qn(name, ptr, type, class) == [name |-> name, ptr |-> ptr, type |-> type, class |-> class]
\* Names spelled out, pointed at, in parts, behind the frame; a first question
\* may point at itself.
Qs == {Qn(D, 0, 1, 1), Qn(Other, 0, 1, 1), Qn(<<>>, 12, 1, 1), Qn(Other, 12, 1, 1), Qn(<<>>, 500, 1, 1),
       Qn(D, 0, 28, 1), Qn(D, 0, 1, 32769)}
Again == Qn(<<>>, 12, 1, 1)
MCQueries == UNION {[1 .. n -> Qs] : n \in 1 .. 3}
             \cup {<<Qn(D, 0, 1, 1)>> \o [i \in 1 .. n |-> Again] : n \in {8, 9}}
-----------------------------------------------------------------------------
Full == [flags |-> {"msg", "subnet", "router", "dns", "req", "lease", "server", "list", "end"}, msg |-> 5,
         subnet |-> NetMask, router |-> B.ip, dns |-> <<B.ip, <<8, 8, 8, 8>>>>, req |-> <<192, 168, 50, 101>>,
         lease |-> <<0, 0, 3, 132>>, server |-> B.ip, list |-> <<1, 3, 6>>]
Some(fl) == [f \in DOMAIN Full |-> IF f = "flags" THEN fl ELSE IF f \in fl THEN Full[f] ELSE NoOpts[f]]
MCOpts == {Some(fl \cup e) : fl \in SUBSET {"msg", "subnet", "lease", "req", "list"},
                             e \in {{"server", "end"}, {"router"}}}
\* A buffer too small for some of the sets, and one that has room for all.
MCRenders == {[o |-> o, cap |-> cap] : o \in MCOpts \cup {Full}, cap \in {20, 256}}
MCAddrs == {NoAddrs, [flags |-> {"yi", "si", "ch"}, ci |-> Zero4, yi |-> A.ip, si |-> B.ip, gi |-> Zero4, ch |-> A.mac]}
MCForeign == {<<>>, <<12, 2, 255, 7, 51, 1, 9>>}
-----------------------------------------------------------------------------
Init == /\ part \in Parts
        /\ WireInit /\ DhcpfInit /\ MdnsInit /\ UdpInit /\ DhcpInit /\ TcpInit
        /\ part = "tcp" \/ peer.st = "closed"

Next == \/ part = "wire" /\ WireNext /\ UNCHANGED <<part, dhcpf, mdns, udpVars, dhcpVars, tcpVars>>
        \/ part = "options" /\ Render1 /\ UNCHANGED <<part, wireVars, mdns, udpVars, dhcpVars, tcpVars>>
        \/ part = "mdns" /\ Ask1 /\ UNCHANGED <<part, wireVars, dhcpf, udpVars, dhcpVars, tcpVars>>
        \/ part = "udp" /\ UdpNext /\ UNCHANGED <<part, wireVars, dhcpf, mdns, dhcpVars, tcpVars>>
        \/ part = "dhcp" /\ DhcpNext /\ UNCHANGED <<part, wireVars, dhcpf, mdns, udpVars, tcpVars>>
        \/ part = "tcp" /\ TcpNext /\ UNCHANGED <<part, wireVars, dhcpf, mdns, udpVars, dhcpVars>>

Spec == Init /\ [][Next]_<<part, wireVars, dhcpf, mdns, udpVars, dhcpVars, tcpVars>>
=============================================================================
