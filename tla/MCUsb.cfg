CONSTANTS
  Mps = 3
  FifoRoom = 3
  Requests <- MCRequests
  HostPolite = TRUE
  QuietReset = TRUE
SPECIFICATION FairSpec
INVARIANTS NeverDeaf AnswerRight HostAgrees
PROPERTY TransferEnds
