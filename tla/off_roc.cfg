SPECIFICATION FairSpec
CONSTANTS
    MaxSsids = 1
    MaxScans = 0
    MaxRocs = 2
    MaxFaults = 2
PROPERTIES
    RocReported
    RocSettles
CHECK_DEADLOCK FALSE
