\* Wire: every order of twelve messages and two faults through two buffers.
\* Options: all sets of six options against two buffer sizes.
\* mDNS: up to three questions, and as many as the answer buffer just holds.
\* UDP: two sockets, queues of nine units, datagrams of up to three.
\* DHCP: two clients, two records, a lease of one tick.
\* TCP: a passive or an active open, a few bytes each way, one frame under way
\* each way, sequence numbers that wrap.  A connection ends, so it may stop.
CONSTANTS
  Parts = {"wire", "options", "mdns", "udp", "dhcp", "tcp"}
  Me <- A
  Peer <- B
  Mask <- NetMask
  Msgs <- MCMsgs
  Faults = {0, 24}
  Renders <- MCRenders
  AddrSets <- MCAddrs
  Foreign <- MCForeign
  Device <- D
  OwnIp <- MCIp
  RspSize = 256
  NameRoom = 24
  Queries <- MCQueries
  SockNum = 2
  RxSize = 9
  ReadSize = 9
  Ports = {1, 2}
  Sources = {10, 20}
  Sizes = {0, 3}
  Clients = {c1, c2}
  BookSize = 2
  RangeStart = 1
  RangeEnd = 4
  Lease = 1
  QueueCap = 1
  NoMac = NoMac
  RxCap = 1
  TxCap = 1
  RxLen = 2
  TxLen = 1
  SeqSpace = 13
  Seeds = {12}
  PeerIss = 11
  InCap = 1
  OutCap = 1
SPECIFICATION Spec
INVARIANTS WireRight OptionsRight MdnsRight UdpFramed LeaseKept InOrder AckHonest TxKept SocketOK
CHECK_DEADLOCK FALSE
