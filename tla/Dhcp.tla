-------------------------------- MODULE Dhcp --------------------------------
(***************************************************************************)
(* The DHCP server of net/dhcp/src/server.c with its clients.  The server  *)
(* task takes a datagram from its socket, looks into the book of records   *)
(* and waits for a transmission buffer (which always yields) before the    *)
(* answer leaves; the reception task may reset the stack meanwhile.  Time  *)
(* passes in ticks; ages stop counting once they are beyond the lease.     *)
(***************************************************************************)
EXTENDS Integers, Sequences, FiniteSets

CONSTANTS Clients,     \* link addresses
          BookSize,    \* DHCP_SRV_RECORDBOOK_CAPACITY
          RangeStart, RangeEnd,
          Lease,       \* 15 minutes, in ticks
          QueueCap,    \* datagrams the socket of the server holds
          NoMac

ASSUME DhcpAssumption ==
  /\ BookSize \in Nat /\ RangeStart \in Nat /\ RangeEnd \in Nat
  /\ Lease \in Nat /\ QueueCap \in Nat
  /\ NoMac \notin Clients

VARIABLES book,        \* records[]
          inq,         \* datagrams in the queue of the socket
          srv,         \* the answer the server task is about to send, or Rest
          air,         \* [Clients -> the answer on its way to the client]
          cli          \* [Clients -> what the client does]

dhcpVars == <<book, inq, srv, air, cli>>
Recs == 1 .. BookSize
EmptyRec == [state |-> "free", age |-> 0, mac |-> NoMac, ip |-> 0]
Rest == [type |-> "none", to |-> NoMac, ip |-> 0, rec |-> 0, cur |-> TRUE]
NoAnswer == [type |-> "none", ip |-> 0]
\* A client: what it waits for, its address, the age of its lease and of its
\* last request.
Unbound == [st |-> "init", ip |-> 0, age |-> 0, rage |-> 0]
Older(n) == IF n > Lease THEN n ELSE n + 1

DhcpInit == /\ book = [r \in Recs |-> EmptyRec]
            /\ inq = <<>> /\ srv = Rest
            /\ air = [c \in Clients |-> NoAnswer]
            /\ cli = [c \in Clients |-> Unbound]
-----------------------------------------------------------------------------
(* The book.  The search for a free record also frees the old ones it      *)
(* passes.                                                                 *)

First(S) == IF S = {} THEN 0 ELSE CHOOSE r \in S : \A q \in S : r <= q

Old(e) == e.state # "free" /\ e.age > Lease

FreeRec(b) == First({r \in Recs : b[r].state = "free" \/ Old(b[r])})
Freed(b) == LET f == FreeRec(b)
            IN  [r \in Recs |-> IF (f = 0 \/ r <= f) /\ Old(b[r]) THEN [b[r] EXCEPT !.state = "free"] ELSE b[r]]
FindRecord(b, mac, ip) == First({r \in Recs : (mac = NoMac \/ b[r].mac = mac) /\ (ip = 0 \/ b[r].ip = ip)})

\* The address range is searched for one that no record has; the loop steps on
\* once more before it sees that it is done.
Propose(b) == LET free == {ip \in RangeStart .. RangeEnd - 1 : FindRecord(b, NoMac, ip) = 0}
              IN  IF free = {} THEN 0 ELSE First(free) + 1

\* DHCPSrv_ReserveAddress: the book afterwards and the record, 0 for none.
Reserve(mac) ==
  LET own == FindRecord(book, mac, 0)
      rec == IF own # 0 THEN own ELSE FreeRec(book)
      b == IF own # 0 THEN book ELSE Freed(book)
      ip == Propose(b)
  IN  IF own # 0 /\ book[own].ip # 0 THEN [rec |-> own, book |-> book]
      ELSE IF rec = 0 \/ ip = 0 THEN [rec |-> 0, book |-> b]
      ELSE [rec |-> rec, book |-> [b EXCEPT ![rec].ip = ip, ![rec].mac = mac]]
-----------------------------------------------------------------------------
(* The server task, from RecvFrom to the wait for a buffer.                *)

\* DHCPSrv_ProcessDiscover: the offer is booked before it is sent.
ProcessDiscover(d) ==
  LET v == Reserve(d.from)
  IN  IF v.rec = 0 THEN book' = v.book /\ srv' = Rest
      ELSE /\ book' = [v.book EXCEPT ![v.rec].state = "offer", ![v.rec].age = 0]
           /\ srv' = [type |-> "offer", to |-> d.from, ip |-> v.book[v.rec].ip, rec |-> 0, cur |-> d.cur]

\* DHCPSrv_ProcessRequest up to the answer.
ProcessRequest(d) ==
  LET r == FindRecord(book, d.from, d.ip)
      ok == IF r = 0 THEN FALSE ELSE book[r].state # "free"
  IN  /\ srv' = [type |-> IF ok THEN "ack" ELSE "nak", to |-> d.from, ip |-> IF ok THEN d.ip ELSE 0,
                  rec |-> IF ok THEN r ELSE 0, cur |-> d.cur]
      /\ UNCHANGED book

\* DHCPSrv_Task takes one datagram; DHCPSrv_Process knows two kinds.
SrvInput == /\ srv = Rest /\ inq # <<>>
            /\ inq' = Tail(inq)
            /\ LET d == Head(inq)
               IN  \/ d.type = "discover" /\ ProcessDiscover(d)
                   \/ d.type = "request" /\ ProcessRequest(d)
                   \/ d.type = "release" /\ UNCHANGED <<book, srv>>
            /\ UNCHANGED <<air, cli>>

\* Mutant: the lease does not start again with the answer.
Acked_Stale == [book EXCEPT ![srv.rec].state = "assigned"]
\* After the answer the record is brought up to date.
Acked == [book EXCEPT ![srv.rec].state = "assigned", ![srv.rec].age = 0]

\* DHCPSrv_SendResponse got its buffer.  Answers are broadcast; a client
\* ignores one whose transaction identifier is not its current one.
SrvSend == /\ srv # Rest
           /\ air' = IF srv.cur THEN [air EXCEPT ![srv.to] = [type |-> srv.type, ip |-> srv.ip]] ELSE air
           /\ book' = IF srv.type = "ack" THEN Acked ELSE book
           /\ srv' = Rest
           /\ UNCHANGED <<inq, cli>>

\* TCPIP_Reset: DHCPSrv_Reset clears the book.  The link is lost, and with it
\* what was on its way and the leases of the hosts.
DhcpReset == /\ book' = [r \in Recs |-> EmptyRec]
             /\ air' = [c \in Clients |-> NoAnswer]
             /\ cli' = [c \in Clients |-> Unbound]
             /\ UNCHANGED <<inq, srv>>
-----------------------------------------------------------------------------
(* Clients, the link and time.                                             *)

\* A datagram reaches the socket if there is room.
Post(d) == inq' = IF Len(inq) < QueueCap THEN Append(inq, d) ELSE inq
From(c, type, ip) == [from |-> c, type |-> type, ip |-> ip, cur |-> TRUE]

\* A client starts a transaction with d: what is on its way from earlier ones
\* has another identifier.
Begin(c, d) ==
  LET old == [i \in DOMAIN inq |-> IF inq[i].from = c THEN [inq[i] EXCEPT !.cur = FALSE] ELSE inq[i]]
  IN  /\ inq' = IF Len(inq) < QueueCap THEN Append(old, d) ELSE old
      /\ srv' = IF srv.to = c THEN [srv EXCEPT !.cur = FALSE] ELSE srv
      /\ air' = [air EXCEPT ![c] = NoAnswer]

Discover(c) == /\ cli[c].st = "init"
               /\ cli' = [cli EXCEPT ![c].st = "discover"]
               /\ Begin(c, From(c, "discover", 0))
               /\ UNCHANGED book

\* The offer is taken: the request counts from now.
TakeOffer(c) == /\ cli[c].st = "discover" /\ air[c].type = "offer"
                /\ cli' = [cli EXCEPT ![c] = [st |-> "request", ip |-> air[c].ip, age |-> 0, rage |-> 0]]
                /\ air' = [air EXCEPT ![c] = NoAnswer]
                /\ Post(From(c, "request", air[c].ip))
                /\ UNCHANGED <<book, srv>>

Repeat(c) == /\ cli[c].st \in {"discover", "request", "renew"}
             /\ Post(IF cli[c].st = "discover" THEN From(c, "discover", 0) ELSE From(c, "request", cli[c].ip))
             /\ UNCHANGED <<book, srv, air, cli>>

Renew(c) == /\ cli[c].st = "bound"
            /\ cli' = [cli EXCEPT ![c].st = "renew", ![c].rage = 0]
            /\ Begin(c, From(c, "request", cli[c].ip))
            /\ UNCHANGED book

TakeAck(c) == /\ cli[c].st \in {"request", "renew"} /\ air[c] = [type |-> "ack", ip |-> cli[c].ip]
              /\ cli' = [cli EXCEPT ![c].st = "bound", ![c].age = cli[c].rage, ![c].rage = 0]
              /\ air' = [air EXCEPT ![c] = NoAnswer]
              /\ UNCHANGED <<book, inq, srv>>

TakeNak(c) == /\ cli[c].st \in {"request", "renew"} /\ air[c].type = "nak"
              /\ cli' = [cli EXCEPT ![c] = Unbound]
              /\ air' = [air EXCEPT ![c] = NoAnswer]
              /\ UNCHANGED <<book, inq, srv>>

Release(c) == /\ cli[c].st = "bound"
              /\ cli' = [cli EXCEPT ![c] = Unbound]
              /\ Post(From(c, "release", 0))
              /\ UNCHANGED <<book, srv, air>>

Lost(c) == /\ air[c] # NoAnswer
           /\ air' = [air EXCEPT ![c] = NoAnswer]
           /\ UNCHANGED <<book, inq, srv, cli>>

Aged(k) == LET a == [k EXCEPT !.age = IF k.st \in {"bound", "renew"} THEN Older(@) ELSE @,
                              !.rage = IF k.st \in {"request", "renew"} THEN Older(@) ELSE @]
           IN  IF a.age > Lease \/ a.rage > Lease THEN Unbound ELSE a

Tick == /\ book' = [r \in Recs |-> IF book[r].state = "free" THEN book[r] ELSE [book[r] EXCEPT !.age = Older(@)]]
        /\ cli' = [c \in Clients |-> Aged(cli[c])]
        /\ UNCHANGED <<inq, srv, air>>

DhcpNext == \/ SrvInput \/ SrvSend \/ DhcpReset \/ Tick
            \/ \E c \in Clients : \/ Discover(c) \/ TakeOffer(c) \/ Repeat(c) \/ Renew(c)
                                  \/ TakeAck(c) \/ TakeNak(c) \/ Release(c) \/ Lost(c)

DhcpSpec == DhcpInit /\ [][DhcpNext]_dhcpVars
-----------------------------------------------------------------------------
Holds(c) == cli[c].st \in {"bound", "renew"}

\* A client that was given an address keeps its record, with that address, for
\* as long as its lease runs: other clients, renewals that cross, late answers
\* and old datagrams never cost it the record.
LeaseKept == \A c \in Clients : Holds(c) =>
               \E r \in Recs : book[r].mac = c /\ book[r].ip = cli[c].ip /\ book[r].state # "free"

\* "this ip is not found in our recordbook, so it's safe to use it"
\* (DHCPSrv_ReserveAddress): no two clients hold the same address.
LeaseUnique == \A c, d \in Clients : c # d /\ Holds(c) /\ Holds(d) => cli[c].ip # cli[d].ip
=============================================================================
