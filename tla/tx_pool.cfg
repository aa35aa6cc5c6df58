SPECIFICATION Spec
CONSTANTS
    NumACs = 3
    TokensPerAC = 1
    SpareTokens = 1
    MaxFwPkts = 2
    MaxTxCmds = 2
    MaxTxQueueLen = 2
    EarlyAggChecks = TRUE
    NumPeers = 2
    MaxBlocks = 0
    Frames <- MixFrames
    AC <- MixAC
    Peer <- MixPeer
    HwQueue <- MixHwQueue
    Ampdu <- MixAmpdu
    Addr <- MixAddr
INVARIANTS
    TypeOK
    OneHolderPerToken
    OutstandingExact
    ReservationsKept
    HeldTokensCarryFrames
    FwLoadBounded
    BatchesAggregate
    FramesConserved
    FlowsInOrder
PROPERTIES
    ImplementsService
CHECK_DEADLOCK FALSE
