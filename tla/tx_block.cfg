SPECIFICATION FairSpec
CONSTANTS
    NumACs = 3
    TokensPerAC = 1
    SpareTokens = 1
    MaxFwPkts = 8
    MaxTxCmds = 2
    MaxTxQueueLen = 2
    EarlyAggChecks = TRUE
    NumPeers = 2
    MaxBlocks = 1
    Frames <- BlkFrames
    AC <- BlkAC
    Peer <- BlkPeer
    HwQueue <- BlkHwQueue
    Ampdu <- BlkAmpdu
    Addr <- BlkAddr
INVARIANTS
    QueuedOnlyIfTokensBusy
PROPERTIES
    EveryFrameReported
    StoppedQueuesWoken
CHECK_DEADLOCK FALSE
