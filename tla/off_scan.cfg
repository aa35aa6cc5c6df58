SPECIFICATION FairSpec
CONSTANTS
    MaxSsids = 2
    MaxScans = 2
    MaxRocs = 0
    MaxFaults = 1
INVARIANTS
    OneReporter
PROPERTIES
    CompleteWhenScanned
    ScanEnded
CHECK_DEADLOCK FALSE
