CONSTANTS
  Mps = 2
  FifoRoom = 2
  QuietReset = TRUE
  VcpQueue = 2
  VcpBytes = 3
  VcpResets = 1
  EemLen <- MCEemLen
  EemRxRing = 1
  EemTxRing = 2
  EemXfer = 16
  EemMax = 8
  HostXfers <- MCHostXfers
  EemXfers = 3
  HostEnd = {"le", "be"}
  FirstSingle = TRUE
  EemResets = 1
SPECIFICATION Spec
INVARIANTS VcpStream EemIntact EemSent
PROPERTY EemDelivers
CHECK_DEADLOCK FALSE
