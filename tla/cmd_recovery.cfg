SPECIFICATION FairSpec
CONSTANTS
    MaxOutstanding = 2
    MaxCmds = 8
    ResetCmds <- FourthIsReset
    MaxBlocks = 1
    MaxLost = 4
    MaxAges = 2
    MaxFwErrors = 2
INVARIANTS
    CommandsInOrder
    CounterExact
    InFlightBounded
PROPERTIES
    AgedCommandsReleased
    EveryCommandSent
CHECK_DEADLOCK FALSE
