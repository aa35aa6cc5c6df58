SPECIFICATION FairSpec
CONSTANTS
    NumTokens = 2
    MaxSends = 2
    MaxErrors = 1
    MaxBlocks = 1
INVARIANTS
    TokensAccounted
    OneCommandBeforeUnfi
    OneStaleEvent
PROPERTIES
    SentTokensCompleted
    RecoveryEnds
CHECK_DEADLOCK FALSE
