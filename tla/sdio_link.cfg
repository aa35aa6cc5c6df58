CONSTANTS
  MaxRetry = 1
  Rescans = 1
  MaxTransfers = 2
  MaxSeries = 2
  MaxBursts = 1
  MaxWrites = 1
  MaxFaults = 3
SPECIFICATION Spec
INVARIANT LatchIsNoticed
PROPERTIES EventsOnceInOrder LoadedIsReady
CHECK_DEADLOCK FALSE
