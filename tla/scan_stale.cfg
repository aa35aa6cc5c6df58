SPECIFICATION Spec
CONSTANTS
    MaxSsids = 2
    MaxScans = 2
    MaxRocs = 0
    MaxFaults = 0
PROPERTIES
    AbortedScanNotCompleted
CHECK_DEADLOCK FALSE
