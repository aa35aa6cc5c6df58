\* Two starts of the driver, two frames on two tokens, two faults.
CONSTANTS
  t1 = t1
  t2 = t2
  Tokens = {t1, t2}
  MaxStarts = 2
  MaxFrames = 2
  MaxFaults = 2
SPECIFICATION FairSpec
INVARIANTS
  FramesAccounted
  StartedAfterReset
PROPERTY RecoveryEnds
CHECK_DEADLOCK FALSE
