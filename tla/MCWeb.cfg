SPECIFICATION Spec
CONSTANTS
    HttpTasks = {1, 2}
    Callbacks <- MCCallbacks
    Files <- MCFiles
    PoolSize = 2
    Chunk = 3
    Urls = {"/", "/s", "/none", "/ws", "/x"}
    Requests <- MCRequests
    WsScripts <- MCScripts
    MaskLen = 2
    Short = 4
    Long = 7
    AppBuf = 4
    RcvBuf = 2
    CtlMax = 2
    PingCap = 2
    Bits <- MCBits
    SizeMod = 64
    IoCalls <- MCIoCalls
INVARIANTS InSync AnswerWhole PoolOwned Framed EchoRight TextRight
CHECK_DEADLOCK FALSE
