CONSTANTS
  Parts = {"tcp"}
  Me <- A
  Peer <- B
  Mask <- NetMask
  Msgs <- MCMsgs
  Faults = {0, 24}
  Renders <- MCRenders
  AddrSets <- MCAddrs
  Foreign <- MCForeign
  Device <- D
  OwnIp <- MCIp
  RspSize = 256
  NameRoom = 24
  Queries <- MCQueries
  SockNum = 2
  RxSize = 9
  ReadSize = 9
  Ports = {1, 2}
  Sources = {10, 20}
  Sizes = {0, 3}
  Clients = {c1, c2}
  BookSize = 2
  RangeStart = 1
  RangeEnd = 4
  Lease = 1
  QueueCap = 1
  NoMac = NoMac
  RxCap = 1
  TxCap = 1
  RxLen = 2
  TxLen = 1
  SeqSpace = 13
  Seeds = {12}
  PeerIss = 11
  InCap = 1
  OutCap = 1
SPECIFICATION Spec
PROPERTY FinEmitted
CHECK_DEADLOCK FALSE
